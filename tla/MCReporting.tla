------------------------------ MODULE MCReporting ------------------------------
(* Two slots and two tasks: the main one and one of the application. *)
EXTENDS Reporting

(* One that is reached, one that is not though it looks right, one that is cut
   off and one that is refused. *)
MCUris == {
  <<"coap://", "ip", ":", "5683">>,
  <<"[", ":", ":", "1", "]">>,
  <<"a", "long", "name">>,
  <<"a", "long", "name", ":", "5683">>}

MCBuilds == {
  [protobuf |-> TRUE, inHeartbeat |-> TRUE, dedicated |-> TRUE],
  [protobuf |-> FALSE, inHeartbeat |-> FALSE, dedicated |-> FALSE]}

MCNumeric == {<<"ip">>}
=============================================================================
