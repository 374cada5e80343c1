-------------------------------- MODULE Sensors --------------------------------
(***************************************************************************)
(* The sensor registry (svc_sensor.c): slots that tasks fill, sample and   *)
(* poll under a mutex, one load or store a step, as others read them       *)
(* without it.                                                             *)
(*                                                                         *)
(* A call that finds nothing to do (a full table, an unknown name) changes *)
(* nothing and is no action.  Waiting for the mutex is not starting yet.   *)
(***************************************************************************)
EXTENDS Naturals

CONSTANTS
  Tasks, Main,     \* the tasks that call, and the one that runs tw_device_run
  MaxSensors,      \* MAX_SENSORS
  Names,           \* names tw_sensor_register may be given
  Drivers,         \* the names that come with a read hook
  Readings,        \* values a driver returns
  NULL

ASSUME SensorsAssumption ==
  /\ Main \in Tasks
  /\ MaxSensors \in Nat
  /\ Drivers \subseteq Names
  /\ Readings \subseteq Nat
  /\ NULL \notin Tasks
  /\ NULL \notin Names
  /\ NULL \notin Nat

VARIABLES
  sensors,
  s_lock,      \* the task that holds it, or NULL
  call,        \* what each task is doing
  grants,      \* history: registrations that were answered OK, by slot
  latest       \* history: the last value the driver of a slot returned

registry == <<sensors, s_lock, call, grants, latest>>

Slots == 1 .. MaxSensors
Fields == {"name", "last_value", "registered"}

Sensor == [name : Names \cup {NULL}, last_value : Nat, registered : BOOLEAN]

(* slot: the one the call is at; left: fields still to be stored;
   value: what the driver returned, NULL before it did. *)
Call == [op : {"idle", "register", "read", "poll"}, name : Names \cup {NULL},
         slot : Nat, left : SUBSET Fields, value : Nat \cup {NULL}]

Idle == [op |-> "idle", name |-> NULL, slot |-> 0, left |-> {}, value |-> NULL]

RegistryTypeOK ==
  /\ sensors \in [Slots -> Sensor]
  /\ s_lock \in Tasks \cup {NULL}
  /\ call \in [Tasks -> Call]
  /\ \A t \in Tasks : call[t].op # "idle" => call[t].slot \in Slots
  /\ grants \in [Slots -> Nat]
  /\ latest \in [Slots -> Nat]

-----------------------------------------------------------------------------
(* The mutex.                                                              *)

Free == s_lock = NULL

(* Mutant: built without CONFIG_TW_THREAD_SAFETY. *)
AcquireNothing(t) == call[t] = Idle /\ s_lock' = t

Acquire(t) == call[t] = Idle /\ Free /\ s_lock' = t

Return(t) ==
  /\ s_lock' = NULL
  /\ call' = [call EXCEPT ![t] = Idle]

-----------------------------------------------------------------------------
(* tw_sensor_register.                                                     *)

Vacant(i) == ~sensors[i].registered

(* The name is not looked for: a sensor can be registered twice. *)
StartRegister(t) ==
  /\ Acquire(t)
  /\ \E i \in Slots, n \in Names :
       /\ Vacant(i)
       /\ \A j \in Slots : Vacant(j) => i <= j
       /\ call' = [call EXCEPT ![t] = [op |-> "register", name |-> n, slot |-> i,
                                       left |-> Fields, value |-> NULL]]
  /\ UNCHANGED <<sensors, grants, latest>>

Stored(s, f, n) ==
  [name |-> IF f = "name" THEN n ELSE s.name,
   last_value |-> IF f = "last_value" THEN 0 ELSE s.last_value,
   registered |-> IF f = "registered" THEN TRUE ELSE s.registered]

(* Plain stores: nothing orders them for a reader that takes no lock. *)
StoreField(t) ==
  \E f \in call[t].left :
    /\ sensors' = [sensors EXCEPT ![call[t].slot] = Stored(@, f, call[t].name)]
    /\ call' = [call EXCEPT ![t].left = @ \ {f}]
    /\ UNCHANGED <<s_lock, grants, latest>>

Registered(t) ==
  /\ call[t].op = "register"
  /\ call[t].left = {}
  /\ grants' = [grants EXCEPT ![call[t].slot] = @ + 1]
  /\ Return(t)
  /\ UNCHANGED <<sensors, latest>>

-----------------------------------------------------------------------------
(* tw_sensor_read_int and svc_sensor_poll.                                 *)

(* The value read where there is no hook. *)
Unhooked(n) == IF n \in Drivers THEN NULL ELSE 0

StartRead(t) ==
  /\ Acquire(t)
  /\ \E i \in Slots :
       /\ sensors[i].registered
       /\ \A j \in Slots : sensors[j].registered /\ sensors[j].name = sensors[i].name => i <= j
       /\ call' = [call EXCEPT ![t] = [op |-> "read", name |-> sensors[i].name, slot |-> i,
                                       left |-> {}, value |-> Unhooked(sensors[i].name)]]
  /\ UNCHANGED <<sensors, grants, latest>>

Polled(i) == sensors[i].registered /\ sensors[i].name \in Drivers

PollAt(t, i) ==
  call' = [call EXCEPT ![t] = [op |-> "poll", name |-> sensors[i].name, slot |-> i,
                               left |-> {}, value |-> NULL]]

StartPoll(t) ==
  /\ t = Main
  /\ Acquire(t)
  /\ \E i \in Slots :
       /\ Polled(i)
       /\ \A j \in Slots : Polled(j) => i <= j
       /\ PollAt(t, i)
  /\ UNCHANGED <<sensors, grants, latest>>

(* A poll goes on to the next sensor; a read, and a poll at its end, return. *)
Proceed(t) ==
  LET later == {i \in Slots : i > call[t].slot /\ Polled(i)}
  IN  \/ /\ call[t].op = "poll"
         /\ \E i \in later : (\A j \in later : i <= j) /\ PollAt(t, i)
         /\ UNCHANGED s_lock
      \/ /\ call[t].op = "read" \/ later = {}
         /\ Return(t)

Sampling(t) == call[t].op \in {"read", "poll"}

DriverReturns(t) ==
  /\ Sampling(t)
  /\ call[t].value = NULL
  /\ \E v \in Readings :
       /\ call' = [call EXCEPT ![t].value = v]
       /\ latest' = [latest EXCEPT ![call[t].slot] = v]
  /\ UNCHANGED <<sensors, s_lock, grants>>

(* Mutant: the poll stores what the driver left behind, whatever it returned. *)
DriverFailsStored(t) ==
  /\ Sampling(t)
  /\ call[t].value = NULL
  /\ \E v \in Readings : call' = [call EXCEPT ![t].value = v]
  /\ UNCHANGED <<sensors, s_lock, grants, latest>>

DriverFails(t) ==
  /\ Sampling(t)
  /\ call[t].value = NULL
  /\ Proceed(t)
  /\ UNCHANGED <<sensors, grants, latest>>

StoreValue(t) ==
  /\ Sampling(t)
  /\ call[t].value # NULL
  /\ sensors' = [sensors EXCEPT ![call[t].slot].last_value = call[t].value]
  /\ Proceed(t)
  /\ UNCHANGED <<grants, latest>>

-----------------------------------------------------------------------------
RegistryInit ==
  /\ sensors = [i \in Slots |-> [name |-> NULL, last_value |-> 0, registered |-> FALSE]]
  /\ s_lock = NULL
  /\ call = [t \in Tasks |-> Idle]
  /\ grants = [i \in Slots |-> 0]
  /\ latest = [i \in Slots |-> 0]

(* A reset: the registry is static memory. *)
RegistryRestart ==
  /\ sensors' = [i \in Slots |-> [name |-> NULL, last_value |-> 0, registered |-> FALSE]]
  /\ s_lock' = NULL
  /\ call' = [t \in Tasks |-> Idle]
  /\ grants' = [i \in Slots |-> 0]
  /\ latest' = [i \in Slots |-> 0]

Calls(t) == StartRegister(t) \/ StartRead(t) \/ StartPoll(t)
Runs(t) == StoreField(t) \/ Registered(t) \/ DriverReturns(t) \/ DriverFails(t) \/ StoreValue(t)

RegistryNext == RegistryRestart \/ \E t \in Tasks : Calls(t) \/ Runs(t)

RegistrySpec == RegistryInit /\ [][RegistryNext]_registry

-----------------------------------------------------------------------------
(* Properties.                                                             *)

(* Two tasks that register at once do not get the same slot: each registration
   answered OK has one of its own, with a name, for good (tw_sensor_register). *)
OwnSlot ==
  \A i \in Slots : /\ grants[i] <= 1
                   /\ grants[i] = 1 => sensors[i].registered /\ sensors[i].name \in Names

(* Whoever reads and polls at once, and whatever the drivers answer: while no
   task samples the sensor, its cached value is the last one that its driver
   returned (tw_sensor_read_int and svc_sensor_poll, which drop a failed read). *)
LatestSample ==
  \A i \in Slots :
    (\A t \in Tasks : Sampling(t) => call[t].slot # i) => sensors[i].last_value = latest[i]
=============================================================================
