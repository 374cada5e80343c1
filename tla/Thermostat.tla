------------------------------ MODULE Thermostat ------------------------------
(***************************************************************************)
(* The thermostat (examples/thermostat) over the SDK's safety monitor      *)
(* (tw_safety.c), button (tw_button.c) and settings (svc_config.c).  The   *)
(* main loop calls thermostat_tick; between two ticks the hub may set the  *)
(* mode, ask for the relay, or change settings; a restart may come at any  *)
(* time and calls thermostat_init.                                         *)
(*                                                                         *)
(* A setting is a number or a text, and a text here is the number it       *)
(* spells.  ESP-IDF knows which of the two was stored; the POSIX backend   *)
(* keeps text only and reads a number out of it.                           *)
(***************************************************************************)
EXTENDS Integers

CONSTANTS
  Temps,             \* readings of the temperature sensor; one that fails is 0
  FreezeTemp,        \* CONFIG_SAFETY_FREEZE_TEMP_C
  MaxTemp,           \* CONFIG_SAFETY_MAX_TEMP_C
  Texts,             \* numbers a text setting spells
  DebounceMs,        \* DEBOUNCE_MS
  Gaps               \* milliseconds from one tick to the next

ASSUME ThermostatAssumption ==
  /\ Temps \subseteq Int
  /\ {FreezeTemp, MaxTemp} \subseteq Int
  /\ DebounceMs \in Nat
  /\ Texts \subseteq Nat
  /\ Gaps \subseteq Nat

VARIABLES
  typed,             \* the backend: TRUE for ESP-IDF, FALSE for POSIX
  nvs,               \* settings; every write is committed at once
  mode,
  relay_state,
  relay_requested,
  last_level,        \* of the button: FALSE while it is held
  since,             \* since the last press that counted, up to DebounceMs + 1
  low, high,         \* thresholds of the safety monitor
  monitor,           \* its state
  pin,               \* what the relay is wired to
  seen,              \* history: what the last tick went by
  saved              \* history: the last write of the mode worked

button == <<last_level, since>>
safety == <<low, high, monitor>>
relay == <<relay_state, pin, seen>>
vars == <<typed, nvs, mode, relay_state, relay_requested, last_level, since,
          low, high, monitor, pin, seen, saved>>

MODE_OFF == 0
MODE_ON == 1
MODE_AUTO == 2
Modes == {MODE_OFF, MODE_ON, MODE_AUTO}

Keys == {"mode", "APP_temp_min", "APP_temp_max"}
Unset == [type |-> "unset", val |-> 0]
Number(n) == [type |-> "number", val |-> n]
Text(n) == [type |-> "text", val |-> n]
Entries == [type : {"unset", "number", "text"}, val : Nat]

NotYet == [temp |-> 0, mode |-> 0, requested |-> FALSE, ticked |-> FALSE]

TypeOK ==
  /\ typed \in BOOLEAN
  /\ nvs \in [Keys -> Entries]
  /\ mode \in Nat
  /\ typed => mode \in Modes
  /\ relay_state \in BOOLEAN
  /\ relay_requested \in BOOLEAN
  /\ last_level \in BOOLEAN
  /\ since \in 0 .. DebounceMs + 1
  /\ low \in Int
  /\ high \in Int
  /\ monitor \in {"NORMAL", "LOW", "HIGH"}
  /\ pin \in BOOLEAN
  /\ seen \in [temp : Int, mode : Nat, requested : BOOLEAN, ticked : BOOLEAN]
  /\ saved \in BOOLEAN

-----------------------------------------------------------------------------
(* Settings.                                                               *)

(* A number that was never stored, or that a typed store holds as a text, is
   read as its default. *)
GetI32(key, default) ==
  IF nvs[key].type = "unset" \/ (typed /\ nvs[key].type = "text")
    THEN default
    ELSE nvs[key].val

(* The result of the write is dropped: it may fail. *)
SaveMode(m) ==
  /\ saved' \in BOOLEAN
  /\ nvs' = IF saved' THEN [nvs EXCEPT !["mode"] = Number(m)] ELSE nvs

(* POST /tw/set-config stores each entry as a text, whatever its key is.  A
   write that fails does not stop the next one, nor show in the reply, so any
   part of the entries may be stored. *)
OnSetConfig ==
  /\ \E keys \in SUBSET Keys : \E n \in [keys -> Texts] :
       nvs' = [k \in Keys |-> IF k \in keys THEN Text(n[k]) ELSE nvs[k]]
  /\ UNCHANGED <<typed, mode, relay_requested, button, safety, relay, saved>>

-----------------------------------------------------------------------------
(* One tick.                                                               *)

Now(gap) == IF since + gap > DebounceMs THEN DebounceMs + 1 ELSE since + gap

(* The button is active low. *)
Pressed(level, gap) == ~level /\ last_level /\ Now(gap) > DebounceMs

(* Mutant: the mode runs past its last value. *)
NextModeUnwrapped(m) == m + 1

NextMode(m) == (m + 1) % 3

Poll(level, gap) ==
  /\ last_level' = level
  /\ IF Pressed(level, gap)
       THEN /\ since' = 0
            /\ mode' = NextMode(mode)
            /\ SaveMode(mode')
       ELSE /\ since' = Now(gap)
            /\ UNCHANGED <<mode, nvs, saved>>

(* A reading that is too low in both senses is LOW. *)
Classify(temp) ==
  CASE temp <= low                -> "LOW"
    [] temp > low /\ temp >= high -> "HIGH"
    [] OTHER                      -> "NORMAL"

(* Mutant: a callback runs only when the monitor was normal before. *)
EntersFromNormal(state) == monitor = "NORMAL"

(* The monitor calls back when it enters a state, not while it stays. *)
Enters(state) == monitor # state

(* on_freeze, on_overheat *)
Override(state) == IF Enters(state) THEN state = "LOW" ELSE relay_state

(* The switch has no case for a mode out of range. *)
ByMode(m) ==
  CASE m = MODE_OFF  -> FALSE
    [] m = MODE_ON   -> TRUE
    [] m = MODE_AUTO -> relay_requested
    [] OTHER         -> relay_state

RelayAfter(state, m) == IF state = "NORMAL" THEN ByMode(m) ELSE Override(state)

Tick ==
  \E level \in BOOLEAN, gap \in Gaps, temp \in Temps :
    /\ Poll(level, gap)
    /\ monitor' = Classify(temp)
    /\ relay_state' = RelayAfter(monitor', mode')
    /\ pin' = relay_state'
    /\ seen' = [temp |-> temp, mode |-> mode', requested |-> relay_requested, ticked |-> TRUE]
    /\ UNCHANGED <<typed, relay_requested, low, high>>

-----------------------------------------------------------------------------
(* Requests of the hub.                                                    *)

(* Mutant: the hub may set any mode. *)
OnModeAny(m) ==
  /\ mode' = m
  /\ SaveMode(m)
  /\ UNCHANGED <<typed, relay_requested, button, safety, relay>>

(* PUT /tw/mode *)
OnMode(m) ==
  /\ m = MODE_AUTO
  /\ mode' = m
  /\ SaveMode(m)
  /\ UNCHANGED <<typed, relay_requested, button, safety, relay>>

(* PUT /tw/relay; what was asked for stays when the mode changes. *)
OnRelay(on) ==
  /\ mode = MODE_AUTO
  /\ relay_requested' = on
  /\ UNCHANGED <<typed, nvs, mode, button, safety, relay, saved>>

-----------------------------------------------------------------------------
(* Power loss, a reset or the end of a deep sleep, up to thermostat_init.  *)
Restart ==
  /\ mode' = GetI32("mode", MODE_AUTO)
  /\ relay_state' = FALSE
  /\ relay_requested' = FALSE
  /\ last_level' = FALSE
  /\ since' = 0
  /\ low' = GetI32("APP_temp_min", FreezeTemp)
  /\ high' = GetI32("APP_temp_max", MaxTemp)
  /\ monitor' = "NORMAL"
  /\ pin' = FALSE
  /\ seen' = NotYet
  /\ saved' = TRUE
  /\ UNCHANGED <<typed, nvs>>

(* POST /tw/provision/set stores a key that starts with APP_ as a text. *)
Provisioned == {Unset} \cup {Text(n) : n \in Texts}

Init ==
  /\ typed \in BOOLEAN
  /\ nvs \in [Keys -> Provisioned]
  /\ nvs["mode"] = Unset
  /\ mode = GetI32("mode", MODE_AUTO)
  /\ relay_state = FALSE
  /\ relay_requested = FALSE
  /\ last_level = FALSE
  /\ since = 0
  /\ low = GetI32("APP_temp_min", FreezeTemp)
  /\ high = GetI32("APP_temp_max", MaxTemp)
  /\ monitor = "NORMAL"
  /\ pin = FALSE
  /\ seen = NotYet
  /\ saved = TRUE

Next ==
  \/ Tick
  \/ \E m \in Modes : OnMode(m)
  \/ \E on \in BOOLEAN : OnRelay(on)
  \/ OnSetConfig
  \/ Restart

Spec == Init /\ [][Next]_vars

-----------------------------------------------------------------------------
(* Properties.                                                             *)

(* After a tick the relay is where the last reading, and no earlier one, wants
   it: on at or below the lower limit, off at or above the upper one, even when
   the limits cross, the reading jumps from one side to the other or the mode
   and the request change meanwhile; in between, as mode and request say.  The
   monitor calls back only when it enters a state, and thermostat_tick leaves
   the relay alone while it overrides, so this rests on the whole history. *)
SafeRelay ==
  seen.ticked =>
    /\ seen.temp <= low => pin
    /\ seen.temp > low /\ seen.temp >= high => ~pin
    /\ seen.temp > low /\ seen.temp < high /\ seen.mode \in Modes =>
         (pin <=> seen.mode = MODE_ON \/ (seen.mode = MODE_AUTO /\ seen.requested))

(* The user's choice: unless a write of the mode failed, only the button turns
   the thermostat to OFF or ON.  Neither a request nor a restart does, on
   ESP-IDF not even settings that name the mode (on_mode, thermostat_init). *)
ModeIsTheUsers ==
  [][typed /\ saved /\ mode' # mode =>
       \/ mode' = MODE_AUTO
       \/ last_level /\ ~last_level' /\ Tick]_vars

(* Inductive strengthening. *)

(* The monitor's state is that of the last reading, the relay's that of the
   pin. *)
MonitorSees ==
  /\ pin = relay_state
  /\ seen.ticked => monitor = Classify(seen.temp)
  /\ ~seen.ticked => monitor = "NORMAL"

(* What a restart restores is the mode, or AUTO. *)
ModeStored ==
  typed /\ saved => GetI32("mode", MODE_AUTO) \in {mode, MODE_AUTO}

(* A typed store has no number but a mode. *)
NumbersAreModes ==
  nvs["mode"].type = "number" => nvs["mode"].val \in Modes
=============================================================================
