------------------------------- MODULE MCSession -------------------------------
(* Every bearer; two messages wait for their handler, beside the events of the
   stack.  A message commits, resets or stages a UUID, good or bad. *)
EXTENDS Session

AllBuilds ==
  [bearer : {"softap", "lan"}, wire : {"protobuf", "kvtext"}]
    \cup [bearer : {"ble", "env", "hook"}, wire : {"kvtext"}]

Messages ==
  {Silent,
   [cmd |-> "commit", uuid |-> ""],
   [cmd |-> "reset", uuid |-> ""],
   [cmd |-> "start", uuid |-> "A"],
   [cmd |-> "", uuid |-> "bad"]}
=============================================================================
