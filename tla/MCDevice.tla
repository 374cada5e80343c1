------------------------------ MODULE MCDevice --------------------------------
(* A tick without a pause, one that is longer than an iteration and one whose
   wait does not fit an int; intervals and windows of a few milliseconds. *)
EXTENDS Device
=============================================================================
