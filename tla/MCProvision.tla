----------------------------- MODULE MCProvision ------------------------------
(* Two values per field, hub address 2 too long to be stored; the commands a
   factory, a hub and a companion app send, those that go wrong included. *)
EXTENDS Provision

MCFactoryCmds ==
  {[vendor |-> v, uuid |-> 0, key |-> v, badkey |-> b, finalize |-> f] :
     v \in Values, b \in BOOLEAN, f \in BOOLEAN}

MCSetCmds == [ssid : {0, 1}, hub : {0, 1, 2}]

(* A factory commit, a hub commit with and without an id, single lines that
   precede a commit, a bare commit and a reset. *)
MCKvCmds ==
  {[Empty EXCEPT !.vendor = 1, !.key = 1, !.phase = "factory", !.cmd = "commit"],
   [Empty EXCEPT !.ssid = 1, !.uuid = 2, !.phase = "hub", !.cmd = "commit"],
   [Empty EXCEPT !.hub = 1],
   [Empty EXCEPT !.hub = 2],
   [Empty EXCEPT !.ssid = 2],
   [Empty EXCEPT !.vendor = 2],
   [Empty EXCEPT !.cmd = "commit"],
   [Empty EXCEPT !.cmd = "reset"]}
=============================================================================
