----------------------------- MODULE MCTransport ------------------------------
(* All five builds, two retries, three events under way. *)
EXTENDS Transport
=============================================================================
