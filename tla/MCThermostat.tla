----------------------------- MODULE MCThermostat -----------------------------
(* Readings on, between and beyond the limits 1 and 3; the texts put either
   limit on either side of the other, and are a mode (1) and none (3).  A gap
   of 1 is within the debounce time, one of 2 is not. *)
EXTENDS Thermostat
=============================================================================
