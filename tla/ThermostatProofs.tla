--------------------------- MODULE ThermostatProofs ---------------------------
(***************************************************************************)
(* The relay is where the last reading wants it, and the mode is the       *)
(* user's, for all readings, thresholds (those that cross included),       *)
(* settings and tick intervals.                                            *)
(***************************************************************************)
EXTENDS Thermostat, TLAPS

IInv == TypeOK /\ MonitorSees /\ SafeRelay /\ ModeStored /\ NumbersAreModes

-----------------------------------------------------------------------------
(* Types.                                                                  *)

(* What svc_config reads is a natural number when the default is one
   (tw_config_get_i32). *)
LEMMA GetI32IsInt ==
  ASSUME TypeOK, NEW key \in Keys, NEW default \in Int
  PROVE  GetI32(key, default) \in Int
  BY DEF GetI32, TypeOK, Entries

(* A typed store restores a mode. *)
LEMMA RestoredIsMode ==
  ASSUME TypeOK, NumbersAreModes
  PROVE  /\ GetI32("mode", MODE_AUTO) \in Nat
         /\ typed => GetI32("mode", MODE_AUTO) \in Modes
  BY DEF GetI32, TypeOK, Entries, NumbersAreModes, Modes, MODE_OFF, MODE_ON, MODE_AUTO, Keys

(* The mode after the button is a mode, whatever it was before. *)
LEMMA NextModeIsMode ==
  ASSUME NEW m \in Nat
  PROVE  NextMode(m) \in Modes
  BY DEF NextMode, Modes, MODE_OFF, MODE_ON, MODE_AUTO

(* A write of a mode leaves a well-formed store. *)
LEMMA SaveModeKeeps ==
  ASSUME TypeOK, NumbersAreModes, NEW m \in Modes, SaveMode(m)
  PROVE  /\ nvs' \in [Keys -> Entries]
         /\ saved' \in BOOLEAN
         /\ NumbersAreModes'
         /\ typed /\ saved' => nvs'["mode"] = Number(m)
  BY DEF SaveMode, TypeOK, Entries, Number, NumbersAreModes, Modes, MODE_OFF, MODE_ON,
         MODE_AUTO, Keys

-----------------------------------------------------------------------------
(* The relay.                                                              *)

(* Entered or not, an override leaves the relay where its state wants it, if
   the relay agreed with the state before (tw_safety_check, thermostat_tick). *)
LEMMA OverrideHolds ==
  ASSUME TypeOK, MonitorSees, SafeRelay, NEW state \in {"LOW", "HIGH"}
  PROVE  Override(state) = (state = "LOW")
<1>1. CASE monitor # state
  BY <1>1 DEF Override, Enters
<1>2. CASE monitor = state
  <2>1. seen.ticked /\ state = Classify(seen.temp)
    BY <1>2 DEF MonitorSees
  <2>2. seen.temp \in Int /\ low \in Int /\ high \in Int
    BY DEF TypeOK
  <2>3. pin = (state = "LOW")
    BY <2>1, <2>2 DEF SafeRelay, Classify, TypeOK
  <2> QED
    BY <1>2, <2>3 DEF Override, Enters, MonitorSees
<1> QED
  BY <1>1, <1>2

(* One tick moves the relay where the reading wants it (thermostat_tick). *)
LEMMA TickMovesRelay ==
  ASSUME TypeOK, MonitorSees, SafeRelay, NEW temp \in Int, NEW m \in Nat,
         NEW r, r = RelayAfter(Classify(temp), m)
  PROVE  /\ r \in BOOLEAN
         /\ temp <= low => r
         /\ temp > low /\ temp >= high => ~r
         /\ temp > low /\ temp < high /\ m \in Modes =>
              (r <=> m = MODE_ON \/ (m = MODE_AUTO /\ relay_requested))
<1>1. low \in Int /\ high \in Int /\ relay_requested \in BOOLEAN /\ relay_state \in BOOLEAN
  BY DEF TypeOK
<1>2. CASE temp <= low
  <2>1. ~(temp > low)
    BY <1>1, <1>2
  <2>2. Classify(temp) = "LOW"
    BY <1>2, <2>1 DEF Classify
  <2>3. r = Override("LOW")
    BY <2>2 DEF RelayAfter
  <2>4. r = TRUE
    BY <2>3, OverrideHolds
  <2> QED
    BY <2>1, <2>4
<1>3. CASE temp > low /\ temp >= high
  <2>1. ~(temp <= low) /\ ~(temp < high)
    BY <1>1, <1>3
  <2>2. Classify(temp) = "HIGH"
    BY <1>3, <2>1 DEF Classify
  <2>3. r = Override("HIGH")
    BY <2>2 DEF RelayAfter
  <2>4. r = FALSE
    BY <2>3, OverrideHolds
  <2> QED
    BY <2>1, <2>4
<1>4. CASE temp > low /\ temp < high
  <2>1. ~(temp <= low) /\ ~(temp >= high)
    BY <1>1, <1>4
  <2>2. Classify(temp) = "NORMAL"
    BY <1>4, <2>1 DEF Classify
  <2>3. r = ByMode(m)
    BY <2>2 DEF RelayAfter
  <2>4. ByMode(m) \in BOOLEAN
    BY <1>1 DEF ByMode, MODE_OFF, MODE_ON, MODE_AUTO
  <2>5. CASE m = MODE_OFF
    BY <1>1, <2>1, <2>3, <2>5 DEF ByMode, MODE_OFF, MODE_ON, MODE_AUTO
  <2>6. CASE m = MODE_ON
    BY <1>1, <2>1, <2>3, <2>6 DEF ByMode, MODE_OFF, MODE_ON, MODE_AUTO
  <2>7. CASE m = MODE_AUTO
    BY <1>1, <2>1, <2>3, <2>7 DEF ByMode, MODE_OFF, MODE_ON, MODE_AUTO
  <2> QED
    BY <2>1, <2>3, <2>4, <2>5, <2>6, <2>7 DEF Modes
<1> QED
  BY <1>1, <1>2, <1>3, <1>4

-----------------------------------------------------------------------------
(* The steps.                                                              *)

LEMMA InitInv == Init => IInv
<1> SUFFICES ASSUME Init
             PROVE  IInv
  OBVIOUS
<1>1. \A k \in Keys : nvs[k] = Unset \/ \E n \in Texts : nvs[k] = Text(n)
  BY DEF Init, Provisioned
<1>2. nvs \in [Keys -> Entries]
  BY ThermostatAssumption DEF Init, Provisioned, Entries, Unset, Text
<1>3. low \in Int /\ high \in Int
  BY <1>1, <1>2, ThermostatAssumption DEF Init, GetI32, Keys, Entries
<1>4. mode = MODE_AUTO /\ mode \in Modes /\ mode \in Nat
  BY DEF Init, GetI32, Unset, Modes, MODE_OFF, MODE_ON, MODE_AUTO
<1>5. TypeOK
  <2>1. since \in 0 .. DebounceMs + 1
    BY ThermostatAssumption DEF Init
  <2>2. seen \in [temp : Int, mode : Nat, requested : BOOLEAN, ticked : BOOLEAN]
    BY DEF Init, NotYet
  <2> QED
    BY <1>2, <1>3, <1>4, <2>1, <2>2 DEF Init, TypeOK
<1>6. MonitorSees /\ SafeRelay
  BY DEF Init, MonitorSees, SafeRelay, NotYet
<1>7. ModeStored /\ NumbersAreModes
  BY <1>4 DEF Init, ModeStored, NumbersAreModes, GetI32, Unset
<1> QED
  BY <1>5, <1>6, <1>7 DEF IInv

(* What the button leaves (tw_button_poll, on_button_press). *)
LEMMA PollKeeps ==
  ASSUME IInv, NEW level \in BOOLEAN, NEW gap \in Gaps, Poll(level, gap), typed' = typed
  PROVE  /\ nvs' \in [Keys -> Entries]
         /\ mode' \in Nat
         /\ typed => mode' \in Modes
         /\ last_level' \in BOOLEAN
         /\ since' \in 0 .. DebounceMs + 1
         /\ saved' \in BOOLEAN
         /\ NumbersAreModes'
         /\ ModeStored'
<1> USE DEF IInv
<1>1. DebounceMs \in Nat /\ gap \in Nat /\ since \in 0 .. DebounceMs + 1
  BY ThermostatAssumption DEF TypeOK
<1>2. CASE Pressed(level, gap)
  <2>1. mode' = NextMode(mode) /\ since' = 0 /\ SaveMode(mode')
    BY <1>2 DEF Poll
  <2>2. mode' \in Modes /\ mode' \in Nat
    BY <2>1, NextModeIsMode DEF TypeOK, Modes, MODE_OFF, MODE_ON, MODE_AUTO
  <2>3. /\ nvs' \in [Keys -> Entries]
        /\ saved' \in BOOLEAN
        /\ NumbersAreModes'
        /\ typed /\ saved' => nvs'["mode"] = Number(mode')
    BY <2>1, <2>2, SaveModeKeeps
  <2>4. ModeStored'
    BY <2>3 DEF ModeStored, GetI32, Number
  <2> QED
    BY <1>1, <2>1, <2>2, <2>3, <2>4 DEF Poll
<1>3. CASE ~Pressed(level, gap)
  <2>1. since' = Now(gap) /\ mode' = mode /\ nvs' = nvs /\ saved' = saved
    BY <1>3 DEF Poll
  <2>2. Now(gap) \in 0 .. DebounceMs + 1
    BY <1>1 DEF Now
  <2>3. NumbersAreModes' /\ ModeStored'
    BY <2>1 DEF NumbersAreModes, ModeStored, GetI32
  <2> QED
    BY <2>1, <2>2, <2>3 DEF Poll, TypeOK
<1> QED
  BY <1>2, <1>3

LEMMA TickKeeps ==
  ASSUME IInv, Tick
  PROVE  IInv'
<1> USE DEF IInv
<1>1. PICK level \in BOOLEAN, gap \in Gaps, temp \in Temps :
        /\ Poll(level, gap)
        /\ monitor' = Classify(temp)
        /\ relay_state' = RelayAfter(monitor', mode')
        /\ pin' = relay_state'
        /\ seen' = [temp |-> temp, mode |-> mode', requested |-> relay_requested, ticked |-> TRUE]
        /\ UNCHANGED <<typed, relay_requested, low, high>>
  BY DEF Tick
<1>2. /\ nvs' \in [Keys -> Entries]
      /\ mode' \in Nat
      /\ typed => mode' \in Modes
      /\ last_level' \in BOOLEAN
      /\ since' \in 0 .. DebounceMs + 1
      /\ saved' \in BOOLEAN
      /\ NumbersAreModes'
      /\ ModeStored'
  BY <1>1, PollKeeps
<1>3. temp \in Int
  BY ThermostatAssumption
<1>4. /\ relay_state' \in BOOLEAN
      /\ temp <= low => relay_state'
      /\ temp > low /\ temp >= high => ~relay_state'
      /\ temp > low /\ temp < high /\ mode' \in Modes =>
           (relay_state' <=> mode' = MODE_ON \/ (mode' = MODE_AUTO /\ relay_requested))
  BY <1>1, <1>2, <1>3, TickMovesRelay
<1>5. TypeOK'
  <2>1. monitor' \in {"NORMAL", "LOW", "HIGH"}
    BY <1>1, <1>3 DEF Classify, TypeOK
  <2> QED
    BY <1>1, <1>2, <1>3, <1>4, <2>1 DEF TypeOK
<1>6. MonitorSees'
  BY <1>1 DEF MonitorSees, Classify
<1>7. SafeRelay'
  BY <1>1, <1>4 DEF SafeRelay
<1> QED
  BY <1>2, <1>5, <1>6, <1>7

LEMMA RequestsKeep ==
  ASSUME IInv, NEW m \in Modes, OnMode(m) \/ (\E on \in BOOLEAN : OnRelay(on)) \/ OnSetConfig
  PROVE  IInv'
<1> USE DEF IInv
<1>1. CASE OnMode(m)
  <2>1. /\ nvs' \in [Keys -> Entries]
        /\ saved' \in BOOLEAN
        /\ NumbersAreModes'
        /\ typed /\ saved' => nvs'["mode"] = Number(m)
    BY <1>1, SaveModeKeeps DEF OnMode
  <2>2. TypeOK'
    BY <1>1, <2>1 DEF OnMode, TypeOK, button, safety, relay, Modes, MODE_OFF, MODE_ON, MODE_AUTO
  <2>3. MonitorSees' /\ SafeRelay'
    BY <1>1 DEF OnMode, MonitorSees, SafeRelay, Classify, safety, relay
  <2>4. ModeStored'
    BY <1>1, <2>1 DEF OnMode, ModeStored, GetI32, Number
  <2> QED
    BY <2>1, <2>2, <2>3, <2>4
<1>2. CASE \E on \in BOOLEAN : OnRelay(on)
  BY <1>2 DEF OnRelay, TypeOK, MonitorSees, SafeRelay, Classify, ModeStored, NumbersAreModes,
              GetI32, button, safety, relay
<1>3. CASE OnSetConfig
  <2>1. PICK keys \in SUBSET Keys : \E n \in [keys -> Texts] :
          nvs' = [k \in Keys |-> IF k \in keys THEN Text(n[k]) ELSE nvs[k]]
    BY <1>3 DEF OnSetConfig
  <2>2. PICK n \in [keys -> Texts] :
          nvs' = [k \in Keys |-> IF k \in keys THEN Text(n[k]) ELSE nvs[k]]
    BY <2>1
  <2>3. nvs' \in [Keys -> Entries]
    BY <2>2, ThermostatAssumption DEF TypeOK, Entries, Text
  <2>4. nvs'["mode"] = nvs["mode"] \/ nvs'["mode"].type = "text"
    BY <2>2 DEF Keys, Text
  <2>5. TypeOK' /\ MonitorSees' /\ SafeRelay'
    BY <1>3, <2>3 DEF OnSetConfig, TypeOK, MonitorSees, SafeRelay, Classify, button, safety, relay
  <2>6. NumbersAreModes' /\ ModeStored'
    BY <1>3, <2>4 DEF OnSetConfig, NumbersAreModes, ModeStored, GetI32
  <2> QED
    BY <2>5, <2>6
<1> QED
  BY <1>1, <1>2, <1>3

LEMMA RestartKeeps ==
  ASSUME IInv, Restart
  PROVE  IInv'
<1> USE DEF IInv
<1>1. mode' \in Nat /\ (typed => mode' \in Modes)
  BY RestoredIsMode DEF Restart
<1>2. low' \in Int /\ high' \in Int
  BY GetI32IsInt, ThermostatAssumption DEF Restart, Keys
<1>3. TypeOK'
  <2>1. since' \in 0 .. DebounceMs + 1
    BY ThermostatAssumption DEF Restart
  <2>2. seen' \in [temp : Int, mode : Nat, requested : BOOLEAN, ticked : BOOLEAN]
    BY DEF Restart, NotYet
  <2> QED
    BY <1>1, <1>2, <2>1, <2>2 DEF Restart, TypeOK
<1>4. MonitorSees' /\ SafeRelay'
  BY DEF Restart, MonitorSees, SafeRelay, NotYet
<1>5. NumbersAreModes' /\ ModeStored'
  BY DEF Restart, NumbersAreModes, ModeStored, GetI32
<1> QED
  BY <1>3, <1>4, <1>5

LEMMA StutterKeeps ==
  ASSUME IInv, UNCHANGED vars
  PROVE  IInv'
BY DEF IInv, vars, TypeOK, MonitorSees, SafeRelay, Classify, ModeStored, NumbersAreModes, GetI32

-----------------------------------------------------------------------------
(* The theorems.                                                           *)

(* The inductive invariant: besides the properties, the monitor's state is that
   of the last reading and what is stored is the mode or AUTO. *)
THEOREM Invariance == Spec => []IInv
<1>1. IInv /\ [Next]_vars => IInv'
  BY TickKeeps, RequestsKeep, RestartKeeps, StutterKeeps DEF Next, Modes
<1> QED
  BY InitInv, <1>1, PTL DEF Spec

(* Every variable keeps its type; on ESP-IDF the mode is OFF, ON or AUTO. *)
THEOREM TypeCorrect == Spec => []TypeOK
  BY Invariance, PTL DEF IInv

(* After a tick the relay is where the last reading, the mode and the request
   of that tick want it (thermostat_tick with tw_safety_check). *)
THEOREM RelayIsSafe == Spec => []SafeRelay
  BY Invariance, PTL DEF IInv

(* Only the button turns the thermostat OFF or ON (on_button_press, on_mode,
   thermostat_init). *)
THEOREM ModeChangesByButton == Spec => ModeIsTheUsers
<1> DEFINE Act == typed /\ saved /\ mode' # mode =>
                    \/ mode' = MODE_AUTO
                    \/ last_level /\ ~last_level' /\ Tick
<1>1. IInv /\ [Next]_vars => [Act]_vars
  <2> SUFFICES ASSUME IInv, Next
               PROVE  Act
    BY DEF vars
  <2>1. CASE Tick
    <3>1. PICK level \in BOOLEAN, gap \in Gaps : Poll(level, gap)
      BY <2>1 DEF Tick
    <3> QED
      BY <2>1, <3>1 DEF Poll, Pressed
  <2>2. CASE \E m \in Modes : OnMode(m)
    BY <2>2 DEF OnMode
  <2>3. CASE \E on \in BOOLEAN : OnRelay(on)
    BY <2>3 DEF OnRelay
  <2>4. CASE OnSetConfig
    BY <2>4 DEF OnSetConfig
  <2>5. CASE Restart
    BY <2>5 DEF Restart, IInv, ModeStored
  <2> QED
    BY <2>1, <2>2, <2>3, <2>4, <2>5 DEF Next
<1> QED
  BY Invariance, <1>1, PTL DEF Spec, ModeIsTheUsers
=============================================================================
