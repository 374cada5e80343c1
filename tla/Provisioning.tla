---------------------------- MODULE Provisioning ----------------------------
(***************************************************************************)
(* What provisioning promises, without programs, handlers, replies or      *)
(* writes under way: only what a loss of power would leave.                *)
(*                                                                         *)
(* A device has an identity, which its factory makes and may lock, the     *)
(* settings its hub gave it, and whether it was commissioned.  It is       *)
(* provisioned only while it does not work, it works only when it was      *)
(* commissioned, and nothing but the reset button, pressed while it works, *)
(* takes that back.                                                        *)
(***************************************************************************)
CONSTANTS
  Identities,   \* what a factory may make of a device
  Locked,       \* those of them that are final
  Settings      \* what a hub may leave on it

VARIABLES
  identity,
  settings,
  commissioned,
  stage         \* "off" (starting, or being provisioned), "working",
                \* "pressed" (the button was held, the restart is to come)

vars == <<identity, settings, commissioned, stage>>

-----------------------------------------------------------------------------
Init ==
  /\ identity \in Identities
  /\ settings \in Settings
  /\ commissioned \in BOOLEAN
  /\ stage = "off"

(* Something a factory or a hub gave is kept. *)
Provide ==
  /\ stage = "off"
  /\ identity' \in Identities
  /\ identity \in Locked => identity' = identity
  /\ settings' \in Settings
  /\ commissioned' \in BOOLEAN
  /\ commissioned => commissioned'
  /\ UNCHANGED stage

Start ==
  /\ stage = "off"
  /\ commissioned
  /\ stage' = "working"
  /\ UNCHANGED <<identity, settings, commissioned>>

Press ==
  /\ stage = "working"
  /\ stage' = "pressed"
  /\ UNCHANGED <<identity, settings, commissioned>>

(* The button's effect is kept, at the latest by the restart that ends it. *)
Forget ==
  /\ stage = "pressed"
  /\ ~commissioned'
  /\ stage' \in {"pressed", "off"}
  /\ UNCHANGED <<identity, settings>>

(* Power is lost, of a pressed button perhaps before it had its effect. *)
Stop ==
  /\ stage # "off"
  /\ stage' = "off"
  /\ UNCHANGED <<identity, settings, commissioned>>

Next ==
  \/ Provide
  \/ Start
  \/ Press
  \/ Forget
  \/ Stop

Spec == Init /\ [][Next]_vars
=============================================================================
