---------------------------- MODULE ReportingProofs ----------------------------
(***************************************************************************)
(* Proofs about the sensor registry, that a device which reports is still  *)
(* one (Reporting implements RegistrySpec), and about its reports, for any *)
(* number of tasks, slots and sensors and for every address.               *)
(*                                                                         *)
(* RegistryInv is what the mutex is for: who holds it, and what a slot     *)
(* lacks that is being filled.  Ranked, that slots are filled in their     *)
(* order, is what lets WalkInv say of a walk without the mutex that it     *)
(* cannot miss a sensor it is to have.  HubInv relates what is set, what   *)
(* is stored and what is owed, of which telemetry's way back from a text   *)
(* to an address (ParsedAgain) is one part.                                *)
(***************************************************************************)
EXTENDS Reporting, FiniteSetTheorems, SequenceTheorems, TLAPS

(* Who is in a call holds the mutex. *)
Locked == \A t \in Tasks : call[t].op # "idle" <=> s_lock = t

(* A slot that is filled was granted, or is being filled. *)
Filled ==
  \A i \in Slots : sensors[i].registered =>
    \/ grants[i] = 1
    \/ \E t \in Tasks : call[t].op = "register" /\ call[t].slot = i

(* A registration under way writes a slot that is nobody's. *)
InFlight ==
  \A t \in Tasks :
    /\ call[t].op # "register" => call[t].left = {}
    /\ call[t].op = "register" =>
         /\ grants[call[t].slot] = 0
         /\ call[t].name \in Names
         /\ "name" \notin call[t].left => sensors[call[t].slot].name = call[t].name
         /\ "registered" \notin call[t].left => sensors[call[t].slot].registered

(* Only a granted slot with a driver was ever sampled. *)
Sampled == \A i \in Slots : latest[i] # 0 => grants[i] = 1 /\ sensors[i].name \in Drivers

(* Between the driver's answer and the store the caller has the value. *)
InHand ==
  \A t \in Tasks : Sampling(t) =>
    LET i == call[t].slot
    IN  /\ grants[i] = 1
        /\ call[t].value = NULL => sensors[i].name \in Drivers /\ sensors[i].last_value = latest[i]
        /\ call[t].value # NULL => call[t].value = latest[i]

RegistryInv ==
  /\ RegistryTypeOK
  /\ Locked
  /\ OwnSlot
  /\ Filled
  /\ InFlight
  /\ Sampled
  /\ InHand
  /\ LatestSample

-----------------------------------------------------------------------------
LEMMA InitInv == RegistryInit => RegistryInv
  BY SensorsAssumption, SMT
  DEF RegistryInit, RegistryInv, RegistryTypeOK, Sensor, Call, Idle, Locked, OwnSlot, Filled,
      InFlight, Sampled, InHand, Sampling, LatestSample, Slots, Fields

LEMMA RestartInv == RegistryRestart => RegistryInv'
  BY SensorsAssumption, SMT
  DEF RegistryRestart, RegistryInv, RegistryTypeOK, Sensor, Call, Idle, Locked, OwnSlot, Filled,
      InFlight, Sampled, InHand, Sampling, LatestSample, Slots, Fields

LEMMA StartRegisterInv ==
  ASSUME RegistryInv, NEW t \in Tasks, StartRegister(t)
  PROVE  RegistryInv'
<1> USE SensorsAssumption DEF RegistryInv
<1>1. PICK i \in Slots, n \in Names :
        /\ Vacant(i)
        /\ call' = [call EXCEPT ![t] = [op |-> "register", name |-> n, slot |-> i,
                                        left |-> Fields, value |-> NULL]]
  BY DEF StartRegister
<1>2. /\ s_lock = NULL /\ s_lock' = t
      /\ UNCHANGED <<sensors, grants, latest>>
  BY DEF StartRegister, Acquire, Free
<1>3. \A u \in Tasks : u # t => call'[u] = call[u] /\ call[u].op = "idle"
  BY <1>1, <1>2 DEF Locked, RegistryTypeOK
<1>4. call'[t] = [op |-> "register", name |-> n, slot |-> i, left |-> Fields, value |-> NULL]
  BY <1>1 DEF RegistryTypeOK
<1>5. grants[i] = 0
  BY <1>1 DEF OwnSlot, RegistryTypeOK, Vacant
<1>6. RegistryTypeOK'
  <2>1. call'[t] \in Call /\ call'[t].slot \in Slots
    BY <1>4 DEF Call, Slots
  <2>2. call' \in [Tasks -> Call]
    BY <1>1, <2>1 DEF RegistryTypeOK
  <2>3. \A u \in Tasks : call'[u].op # "idle" => call'[u].slot \in Slots
    BY <1>3, <2>1
  <2> QED
    BY <1>2, <2>2, <2>3 DEF RegistryTypeOK
<1>7. Locked'
  BY <1>2, <1>3, <1>4, SMT DEF Locked
<1>8. OwnSlot' /\ Sampled'
  BY <1>2 DEF OwnSlot, Sampled
<1>9. \A u \in Tasks : call[u].op = "idle"
  BY <1>2 DEF Locked
<1>10. Filled'
  BY <1>2, <1>9, SMT DEF Filled
<1>11. InFlight'
  BY <1>2, <1>3, <1>4, <1>5, SMT DEF InFlight, Fields
<1>12. \A u \in Tasks : ~Sampling(u) /\ ~Sampling(u)'
  BY <1>9, <1>3, <1>4, SMT DEF Sampling
<1>13. InHand' /\ LatestSample'
  BY <1>2, <1>12 DEF InHand, LatestSample
<1> QED
  BY <1>6, <1>7, <1>8, <1>10, <1>11, <1>13

(* The calls of every task but t are left as they are. *)
LEMMA CallsType ==
  ASSUME RegistryTypeOK, NEW t \in Tasks, NEW c \in Call,
         c.op # "idle" => c.slot \in Slots,
         call' = [call EXCEPT ![t] = c]
  PROVE  /\ call' \in [Tasks -> Call]
         /\ \A u \in Tasks : call'[u].op # "idle" => call'[u].slot \in Slots
         /\ call'[t] = c
         /\ \A u \in Tasks : u # t => call'[u] = call[u]
  BY DEF RegistryTypeOK

LEMMA IdleType == Idle \in Call /\ Idle.op = "idle"
  BY DEF Idle, Call

LEMMA StoreFieldInv ==
  ASSUME RegistryInv, NEW t \in Tasks, StoreField(t)
  PROVE  RegistryInv'
<1> USE DEF RegistryInv
<1> DEFINE s == call[t].slot
<1>1. PICK f \in call[t].left :
        /\ sensors' = [sensors EXCEPT ![s] = Stored(@, f, call[t].name)]
        /\ call' = [call EXCEPT ![t].left = @ \ {f}]
        /\ UNCHANGED <<s_lock, grants, latest>>
  BY DEF StoreField
<1>2. /\ call[t] \in Call
      /\ call[t].op = "register"
      /\ s \in Slots
      /\ call[t].name \in Names
      /\ grants[s] = 0
      /\ f \in Fields
  BY <1>1 DEF InFlight, RegistryTypeOK, Call
<1>3. /\ call'[t] = [call[t] EXCEPT !.left = @ \ {f}]
      /\ call'[t] \in Call
      /\ call'[t].op = "register" /\ call'[t].slot = s /\ call'[t].name = call[t].name
      /\ call'[t].left = call[t].left \ {f}
  BY <1>1, <1>2 DEF RegistryTypeOK, Call
<1>4. \A u \in Tasks : u # t => call'[u] = call[u] /\ call[u].op = "idle"
  BY <1>1, <1>2 DEF RegistryTypeOK, Locked
<1>5. /\ sensors'[s] = Stored(sensors[s], f, call[t].name)
      /\ \A i \in Slots : i # s => sensors'[i] = sensors[i]
      /\ sensors[s] \in Sensor
      /\ sensors'[s] \in Sensor
      /\ sensors' \in [Slots -> Sensor]
  BY <1>1, <1>2 DEF RegistryTypeOK, Sensor, Stored
<1>6. RegistryTypeOK'
  <2>1. call' \in [Tasks -> Call]
    BY <1>1, <1>3 DEF RegistryTypeOK
  <2>2. \A u \in Tasks : call'[u].op # "idle" => call'[u].slot \in Slots
    BY <1>2, <1>3, <1>4
  <2> QED
    BY <1>1, <1>5, <2>1, <2>2 DEF RegistryTypeOK
<1>7. Locked'
  BY <1>1, <1>2, <1>3, <1>4 DEF Locked
<1>8. OwnSlot' /\ Sampled'
  <2>1. \A i \in Slots : grants'[i] = grants[i] /\ latest'[i] = latest[i]
    BY <1>1
  <2>2. \A i \in Slots : grants[i] = 1 => sensors'[i] = sensors[i]
    BY <1>2, <1>5
  <2> QED
    BY <2>1, <2>2 DEF OwnSlot, Sampled
<1>9. Filled'
  <2>1. \A i \in Slots : i # s => sensors'[i] = sensors[i] /\ grants'[i] = grants[i]
    BY <1>1, <1>5
  <2>2. \A u \in Tasks : call'[u].op = call[u].op /\ call'[u].slot = call[u].slot
    BY <1>2, <1>3, <1>4
  <2> QED
    BY <1>2, <2>1, <2>2 DEF Filled
<1>10. InFlight'
  <2>1. grants'[s] = 0
    BY <1>1, <1>2
  <2>2. "name" \notin call'[t].left => sensors'[s].name = call[t].name
    BY <1>2, <1>3, <1>5 DEF InFlight, Stored
  <2>3. "registered" \notin call'[t].left => sensors'[s].registered
    BY <1>2, <1>3, <1>5 DEF InFlight, Stored
  <2>4. \A u \in Tasks : u # t => call'[u].op # "register" /\ call'[u].left = {}
    BY <1>4 DEF InFlight
  <2> QED
    BY <1>2, <1>3, <2>1, <2>2, <2>3, <2>4 DEF InFlight
<1>11. \A u \in Tasks : ~Sampling(u) /\ ~Sampling(u)'
  BY <1>2, <1>3, <1>4 DEF Sampling
<1>12. InHand'
  BY <1>11 DEF InHand
<1>13. LatestSample'
  <2>1. latest[s] = 0
    BY <1>2 DEF Sampled
  <2>2. sensors[s].last_value = latest[s]
    BY <1>2, <1>11 DEF LatestSample
  <2>3. sensors'[s].last_value = 0
    BY <1>5, <2>1, <2>2 DEF Stored
  <2>4. \A i \in Slots : sensors[i].last_value = latest[i]
    BY <1>11 DEF LatestSample
  <2> QED
    BY <1>1, <1>5, <2>1, <2>3, <2>4 DEF LatestSample
<1> QED
  BY <1>6, <1>7, <1>8, <1>9, <1>10, <1>12, <1>13

LEMMA RegisteredInv ==
  ASSUME RegistryInv, NEW t \in Tasks, Registered(t)
  PROVE  RegistryInv'
<1> USE DEF RegistryInv
<1> DEFINE s == call[t].slot
<1>1. /\ call[t].op = "register" /\ call[t].left = {}
      /\ grants' = [grants EXCEPT ![s] = @ + 1]
      /\ s_lock' = NULL
      /\ call' = [call EXCEPT ![t] = Idle]
      /\ UNCHANGED <<sensors, latest>>
  BY DEF Registered, Return
<1>2. /\ s \in Slots
      /\ grants[s] = 0
      /\ sensors[s].registered
      /\ sensors[s].name \in Names
  BY <1>1 DEF InFlight, RegistryTypeOK
<1>3. /\ call' \in [Tasks -> Call]
      /\ \A u \in Tasks : call'[u].op # "idle" => call'[u].slot \in Slots
      /\ \A u \in Tasks : call'[u].op = "idle"
  BY <1>1, IdleType DEF RegistryTypeOK, Locked
<1>4. /\ grants'[s] = 1
      /\ \A i \in Slots : i # s => grants'[i] = grants[i]
      /\ grants' \in [Slots -> Nat]
  BY <1>1, <1>2 DEF RegistryTypeOK
<1>5. RegistryTypeOK'
  BY <1>1, <1>3, <1>4 DEF RegistryTypeOK
<1>6. Locked'
  BY <1>1, <1>3, SensorsAssumption DEF Locked
<1>7. OwnSlot'
  BY <1>1, <1>2, <1>4 DEF OwnSlot
<1>8. Filled'
  <2>1. \A u \in Tasks : u # t => call[u].op = "idle"
    BY <1>1 DEF Locked
  <2>2. \A i \in Slots : sensors[i].registered => grants'[i] = 1
    BY <1>1, <1>2, <1>4, <2>1 DEF Filled
  <2> QED
    BY <1>1, <2>2 DEF Filled
<1>9. InFlight'
  <2>1. \A u \in Tasks : call'[u].left = {}
    BY <1>1, <1>3 DEF InFlight, Locked, RegistryTypeOK, Idle
  <2> QED
    BY <1>3, <2>1 DEF InFlight
<1>10. Sampled'
  BY <1>1, <1>2, <1>4 DEF Sampled
<1>11. \A u \in Tasks : ~Sampling(u) /\ ~Sampling(u)'
  BY <1>1, <1>3 DEF Sampling, Locked
<1>12. InHand' /\ LatestSample'
  BY <1>1, <1>11 DEF InHand, LatestSample
<1> QED
  BY <1>5, <1>6, <1>7, <1>8, <1>9, <1>10, <1>12

(* A call in which a task waits for the driver of slot i, or has the value of a
   sensor without one. *)
SamplingCall(c, i) ==
  /\ c.op \in {"read", "poll"} /\ c.slot = i /\ c.left = {}
  /\ sensors[i].registered
  /\ \/ c.value = NULL /\ sensors[i].name \in Drivers
     \/ c.value = 0 /\ sensors[i].name \notin Drivers

(* A task that begins to sample, goes on to the next slot or is done, at a
   moment when every cached value is the driver's last. *)
LEMMA Passes ==
  ASSUME RegistryInv, NEW t \in Tasks, NEW c \in Call,
         call[t].op # "register",
         \A u \in Tasks : u # t => call[u].op = "idle",
         sensors' \in [Slots -> Sensor],
         \A i \in Slots : /\ sensors'[i].name = sensors[i].name
                          /\ sensors'[i].registered = sensors[i].registered
                          /\ sensors'[i].last_value = latest[i],
         call' = [call EXCEPT ![t] = c],
         \/ c = Idle /\ s_lock' = NULL
         \/ s_lock' = t /\ \E i \in Slots : SamplingCall(c, i),
         UNCHANGED <<grants, latest>>
  PROVE  RegistryInv'
<1> USE DEF RegistryInv
<1>1. c.op # "idle" => c.slot \in Slots
  BY IdleType DEF SamplingCall
<1>2. /\ call' \in [Tasks -> Call]
      /\ \A u \in Tasks : call'[u].op # "idle" => call'[u].slot \in Slots
      /\ call'[t] = c
      /\ \A u \in Tasks : u # t => call'[u] = call[u]
  BY <1>1, CallsType
<1>3. /\ \A u \in Tasks : call[u].op # "register"
      /\ \A u \in Tasks : u # t => call'[u].op = "idle"
      /\ c.op # "register" /\ c.left = {}
  BY <1>2 DEF SamplingCall, Idle
<1>4. \A i \in Slots : sensors[i].registered => grants[i] = 1
  BY <1>3 DEF Filled
<1>5. RegistryTypeOK'
  <2>1. s_lock' \in Tasks \cup {NULL}
    OBVIOUS
  <2> QED
    BY <1>2, <2>1 DEF RegistryTypeOK
<1>6. Locked'
  BY <1>2, <1>3, IdleType, SensorsAssumption DEF Locked, SamplingCall
<1>7. OwnSlot' /\ Sampled'
  BY DEF OwnSlot, Sampled
<1>8. Filled'
  BY <1>4 DEF Filled
<1>9. InFlight'
  BY <1>2, <1>3 DEF InFlight
<1>10. LatestSample'
  BY DEF LatestSample
<1>11. InHand'
  <2> SUFFICES ASSUME NEW u \in Tasks, Sampling(u)'
               PROVE  LET i == call'[u].slot
                      IN  /\ grants'[i] = 1
                          /\ call'[u].value = NULL =>
                               sensors'[i].name \in Drivers /\ sensors'[i].last_value = latest'[i]
                          /\ call'[u].value # NULL => call'[u].value = latest'[i]
    BY DEF InHand
  <2>1. u = t
    BY <1>3 DEF Sampling
  <2>2. PICK i \in Slots : SamplingCall(c, i)
    BY <1>2, <2>1, IdleType DEF Sampling
  <2>3. call'[u].slot = i /\ grants'[i] = 1
    BY <1>2, <1>4, <2>1, <2>2 DEF SamplingCall
  <2>4. c.value = NULL => sensors'[i].name \in Drivers /\ sensors'[i].last_value = latest'[i]
    BY <2>2, SensorsAssumption DEF SamplingCall
  <2>5. c.value # NULL => c.value = latest'[i]
    BY <2>2 DEF SamplingCall, Sampled
  <2> QED
    BY <1>2, <2>1, <2>3, <2>4, <2>5
<1> QED
  BY <1>5, <1>6, <1>7, <1>8, <1>9, <1>10, <1>11

(* With the mutex free nobody is in a call, and nothing is in anybody's hand. *)
LEMMA FreeIsQuiet ==
  ASSUME RegistryInv, NEW t \in Tasks, Acquire(t)
  PROVE  /\ \A u \in Tasks : call[u].op = "idle"
         /\ \A i \in Slots : sensors[i].last_value = latest[i]
         /\ s_lock' = t
<1>1. s_lock = NULL /\ s_lock' = t
  BY DEF Acquire, Free
<1>2. \A u \in Tasks : call[u].op = "idle"
  BY <1>1, SensorsAssumption DEF RegistryInv, Locked
<1> QED
  BY <1>1, <1>2 DEF RegistryInv, LatestSample, Sampling

LEMMA StartReadInv ==
  ASSUME RegistryInv, NEW t \in Tasks, StartRead(t)
  PROVE  RegistryInv'
<1>1. /\ Acquire(t)
      /\ UNCHANGED <<sensors, grants, latest>>
  BY DEF StartRead
<1>2. PICK i \in Slots :
        /\ sensors[i].registered
        /\ call' = [call EXCEPT ![t] = [op |-> "read", name |-> sensors[i].name, slot |-> i,
                                        left |-> {}, value |-> Unhooked(sensors[i].name)]]
  BY DEF StartRead
<1> DEFINE c == [op |-> "read", name |-> sensors[i].name, slot |-> i, left |-> {},
                 value |-> Unhooked(sensors[i].name)]
<1>3. sensors \in [Slots -> Sensor] /\ sensors[i].name \in Names \cup {NULL}
  BY DEF RegistryInv, RegistryTypeOK, Sensor
<1>4. c \in Call
  BY <1>3 DEF Call, Unhooked, Slots
<1>5. SamplingCall(c, i)
  BY <1>2 DEF SamplingCall, Unhooked
<1> HIDE DEF c
<1>6. call' = [call EXCEPT ![t] = c]
  BY <1>2 DEF c
<1> QED
  BY <1>1, <1>3, <1>4, <1>5, <1>6, FreeIsQuiet, Passes

LEMMA PollCall ==
  ASSUME RegistryInv, NEW t \in Tasks, NEW i \in Slots, Polled(i), PollAt(t, i)
  PROVE  \E c \in Call : call' = [call EXCEPT ![t] = c] /\ SamplingCall(c, i)
<1> DEFINE c == [op |-> "poll", name |-> sensors[i].name, slot |-> i, left |-> {}, value |-> NULL]
<1>1. sensors[i].name \in Names \cup {NULL}
  BY DEF RegistryInv, RegistryTypeOK, Sensor
<1>2. c \in Call
  BY <1>1 DEF Call, Slots
<1>3. SamplingCall(c, i)
  BY DEF SamplingCall, Polled
<1> QED
  BY <1>2, <1>3 DEF PollAt

LEMMA StartPollInv ==
  ASSUME RegistryInv, NEW t \in Tasks, StartPoll(t)
  PROVE  RegistryInv'
<1>1. /\ Acquire(t)
      /\ UNCHANGED <<sensors, grants, latest>>
  BY DEF StartPoll
<1>2. PICK i \in Slots : Polled(i) /\ PollAt(t, i)
  BY DEF StartPoll
<1>3. PICK c \in Call : call' = [call EXCEPT ![t] = c] /\ SamplingCall(c, i)
  BY <1>2, PollCall
<1>4. sensors \in [Slots -> Sensor]
  BY DEF RegistryInv, RegistryTypeOK
<1> QED
  BY <1>1, <1>3, <1>4, FreeIsQuiet, Passes

(* What a sampling task does next, once no value is in its hand. *)
LEMMA ProceedInv ==
  ASSUME RegistryInv, NEW t \in Tasks, Sampling(t), Proceed(t),
         sensors' \in [Slots -> Sensor],
         \A i \in Slots : /\ sensors'[i].name = sensors[i].name
                          /\ sensors'[i].registered = sensors[i].registered
                          /\ sensors'[i].last_value = latest[i],
         UNCHANGED <<grants, latest>>
  PROVE  RegistryInv'
<1>1. call[t].op # "register" /\ s_lock = t
  BY DEF Sampling, RegistryInv, Locked
<1>2. \A u \in Tasks : u # t => call[u].op = "idle"
  BY <1>1 DEF RegistryInv, Locked
<1>3. CASE Return(t)
  BY <1>1, <1>2, <1>3, IdleType, Passes DEF Return
<1>4. CASE UNCHANGED s_lock /\ \E i \in Slots : Polled(i) /\ PollAt(t, i)
  <2>1. PICK i \in Slots : Polled(i) /\ PollAt(t, i)
    BY <1>4
  <2>2. PICK c \in Call : call' = [call EXCEPT ![t] = c] /\ SamplingCall(c, i)
    BY <2>1, PollCall
  <2>3. s_lock' = t
    BY <1>1, <1>4
  <2> QED
    BY <1>1, <1>2, <2>2, <2>3, Passes
<1> QED
  BY <1>3, <1>4 DEF Proceed

(* A task that samples holds the mutex, and at every other slot the cached value
   is the last one of its driver. *)
LEMMA SamplingHolds ==
  ASSUME RegistryInv, NEW t \in Tasks, Sampling(t)
  PROVE  /\ call[t] \in Call /\ call[t].slot \in Slots /\ s_lock = t
         /\ \A u \in Tasks : u # t => call[u].op = "idle"
         /\ \A i \in Slots : i # call[t].slot => sensors[i].last_value = latest[i]
<1>1. s_lock = t /\ call[t].op # "idle"
  BY DEF Sampling, RegistryInv, Locked
<1>2. \A u \in Tasks : u # t => call[u].op = "idle"
  BY <1>1 DEF RegistryInv, Locked
<1>3. call[t] \in Call /\ call[t].slot \in Slots
  BY <1>1 DEF RegistryInv, RegistryTypeOK
<1>4. \A u \in Tasks : Sampling(u) => u = t
  BY <1>2 DEF Sampling
<1>5. \A i \in Slots : i # call[t].slot => sensors[i].last_value = latest[i]
  BY <1>4 DEF RegistryInv, LatestSample
<1> QED
  BY <1>1, <1>2, <1>3, <1>5

LEMMA DriverFailsInv ==
  ASSUME RegistryInv, NEW t \in Tasks, DriverFails(t)
  PROVE  RegistryInv'
<1>1. /\ Sampling(t) /\ call[t].value = NULL /\ Proceed(t)
      /\ UNCHANGED <<sensors, grants, latest>>
  BY DEF DriverFails
<1>2. \A i \in Slots : sensors[i].last_value = latest[i]
  BY <1>1, SamplingHolds DEF RegistryInv, InHand
<1>3. sensors \in [Slots -> Sensor]
  BY DEF RegistryInv, RegistryTypeOK
<1> QED
  BY <1>1, <1>2, <1>3, ProceedInv

LEMMA StoreValueInv ==
  ASSUME RegistryInv, NEW t \in Tasks, StoreValue(t)
  PROVE  RegistryInv'
<1> DEFINE s == call[t].slot
<1>1. /\ Sampling(t) /\ call[t].value # NULL /\ Proceed(t)
      /\ sensors' = [sensors EXCEPT ![s].last_value = call[t].value]
      /\ UNCHANGED <<grants, latest>>
  BY DEF StoreValue
<1>2. s \in Slots /\ call[t].value \in Nat /\ call[t].value = latest[s]
  BY <1>1, SamplingHolds DEF RegistryInv, InHand, Call
<1>3. sensors \in [Slots -> Sensor]
  BY DEF RegistryInv, RegistryTypeOK
<1>4. sensors' \in [Slots -> Sensor]
  BY <1>1, <1>2, <1>3 DEF Sensor
<1>5. \A i \in Slots : /\ sensors'[i].name = sensors[i].name
                       /\ sensors'[i].registered = sensors[i].registered
                       /\ sensors'[i].last_value = latest[i]
  BY <1>1, <1>2, <1>3, SamplingHolds DEF Sensor
<1> QED
  BY <1>1, <1>4, <1>5, ProceedInv

LEMMA DriverReturnsInv ==
  ASSUME RegistryInv, NEW t \in Tasks, DriverReturns(t)
  PROVE  RegistryInv'
<1> DEFINE s == call[t].slot
<1>1. PICK v \in Readings :
        /\ call' = [call EXCEPT ![t].value = v]
        /\ latest' = [latest EXCEPT ![s] = v]
  BY DEF DriverReturns
<1>2. /\ Sampling(t) /\ call[t].value = NULL
      /\ UNCHANGED <<sensors, s_lock, grants>>
  BY DEF DriverReturns
<1>3. /\ call[t] \in Call /\ s \in Slots /\ s_lock = t
      /\ \A u \in Tasks : u # t => call[u].op = "idle"
  BY <1>2, SamplingHolds
<1>4. grants[s] = 1 /\ sensors[s].name \in Drivers
  BY <1>2 DEF RegistryInv, InHand
<1>5. v \in Nat /\ v # NULL
  BY SensorsAssumption
<1> DEFINE c == [call[t] EXCEPT !.value = v]
<1>6. c \in Call /\ c.op = call[t].op /\ c.slot = s /\ c.left = call[t].left /\ c.value = v
  BY <1>3, <1>5 DEF Call
<1>7. call' = [call EXCEPT ![t] = c]
  BY <1>1
<1> HIDE DEF c
<1>8. /\ call' \in [Tasks -> Call]
      /\ \A u \in Tasks : call'[u].op # "idle" => call'[u].slot \in Slots
      /\ call'[t] = c
      /\ \A u \in Tasks : u # t => call'[u] = call[u]
  BY <1>3, <1>6, <1>7, CallsType DEF RegistryInv
<1>9. latest' \in [Slots -> Nat] /\ latest'[s] = v /\ \A i \in Slots : i # s => latest'[i] = latest[i]
  BY <1>1, <1>3, <1>5 DEF RegistryInv, RegistryTypeOK
<1>10. RegistryTypeOK'
  BY <1>2, <1>8, <1>9 DEF RegistryInv, RegistryTypeOK
<1>11. Locked'
  BY <1>2, <1>3, <1>6, <1>8 DEF RegistryInv, Locked
<1>12. OwnSlot'
  BY <1>2 DEF RegistryInv, OwnSlot
<1>13. Filled'
  BY <1>2, <1>6, <1>8 DEF RegistryInv, Filled
<1>14. InFlight'
  BY <1>2, <1>6, <1>8 DEF RegistryInv, InFlight, Sampling
<1>15. Sampled'
  BY <1>2, <1>4, <1>9 DEF RegistryInv, Sampled
<1>16. \A u \in Tasks : Sampling(u)' => u = t
  BY <1>3, <1>8 DEF Sampling
<1>17. InHand'
  BY <1>2, <1>4, <1>5, <1>6, <1>8, <1>9, <1>16 DEF InHand
<1>18. LatestSample'
  <2>1. \A i \in Slots : i # s => sensors'[i].last_value = latest'[i]
    BY <1>2, <1>9, SamplingHolds
  <2>2. Sampling(t)' /\ call'[t].slot = s
    BY <1>2, <1>6, <1>8 DEF Sampling
  <2> QED
    BY <2>1, <2>2 DEF LatestSample
<1> QED
  BY <1>10, <1>11, <1>12, <1>13, <1>14, <1>15, <1>17, <1>18 DEF RegistryInv

-----------------------------------------------------------------------------
(* The inductive invariant of the registry: who is in a call holds the mutex, a
   filled slot is granted or being filled, and a value is cached or in hand. *)
THEOREM RegistryInvariance == RegistrySpec => []RegistryInv
<1>1. RegistryInit => RegistryInv
  BY InitInv
<1>2. RegistryInv /\ [RegistryNext]_registry => RegistryInv'
  <2> SUFFICES ASSUME RegistryInv, [RegistryNext]_registry
               PROVE  RegistryInv'
    OBVIOUS
  <2>1. CASE RegistryRestart
    BY <2>1, RestartInv
  <2>2. ASSUME NEW t \in Tasks, Calls(t)
        PROVE  RegistryInv'
    BY <2>2, StartRegisterInv, StartReadInv, StartPollInv DEF Calls
  <2>3. ASSUME NEW t \in Tasks, Runs(t)
        PROVE  RegistryInv'
    BY <2>3, StoreFieldInv, RegisteredInv, DriverReturnsInv, DriverFailsInv, StoreValueInv DEF Runs
  <2>4. CASE UNCHANGED registry
    BY <2>4
    DEF registry, RegistryInv, RegistryTypeOK, Locked, OwnSlot, Filled, InFlight, Sampled, InHand,
        Sampling, LatestSample
  <2> QED
    BY <2>1, <2>2, <2>3, <2>4 DEF RegistryNext
<1> QED
  BY <1>1, <1>2, PTL DEF RegistrySpec

(* A device that builds reports, sends them and stores its hub's address still
   follows the registry's rules: every step of it is one of the registry or
   leaves the registry alone. *)
THEOREM ReportingIsRegistry == Spec => RegistrySpec
<1>1. Init => RegistryInit
  BY DEF Init
<1>2. [Next]_vars => [RegistryNext]_registry
  <2> SUFFICES ASSUME [Next]_vars
               PROVE  [RegistryNext]_registry
    OBVIOUS
  <2>1. CASE Restart
    BY <2>1 DEF Restart, RegistryNext
  <2>2. CASE SetAddress \/ HeartbeatInit \/ BeginHeartbeat \/ BeginPush
    BY <2>2 DEF SetAddress, HeartbeatInit, BeginHeartbeat, BeginPush, Begin
  <2>3. CASE Report
    BY <2>3
    DEF Report, CountSlot, Counted, FindSlot, LoadName, LoadValue, Walk, Encode, NotEncoded, Open,
        NotSent, PollAnswer, SendReturns, GiveUp, StoreHost, StorePort, Store
  <2>4. CASE RegistryCalls
    BY <2>4 DEF RegistryCalls, RegistryNext
  <2>5. CASE RegistryRuns
    BY <2>5 DEF RegistryRuns, RegistryNext
  <2>6. CASE UNCHANGED vars
    BY <2>6 DEF vars
  <2> QED
    BY <2>1, <2>2, <2>3, <2>4, <2>5, <2>6 DEF Next
<1> QED
  BY <1>1, <1>2, PTL DEF Spec, RegistrySpec

(* Each registration that is answered OK has a slot of its own, for any number
   of tasks, slots and names, and in any order of the stores that fill it. *)
THEOREM EachOwnsItsSlot == Spec => []OwnSlot
<1>1. RegistryInv => OwnSlot
  BY DEF RegistryInv
<1> QED
  BY <1>1, RegistryInvariance, ReportingIsRegistry, PTL

(* A cached value that nobody is sampling is the last its driver returned. *)
THEOREM CacheIsLatest == Spec => []LatestSample
<1>1. RegistryInv => LatestSample
  BY DEF RegistryInv
<1> QED
  BY <1>1, RegistryInvariance, ReportingIsRegistry, PTL

-----------------------------------------------------------------------------
(* What is known of the hub's commands, with the answer that is on its way. *)
AnswerInv ==
  /\ build.protobuf \in BOOLEAN
  /\ doing # "wait" => answer = NULL
  /\ build.protobuf =>
       s_last_pending = said \/ (doing = "wait" /\ what = "heartbeat" /\ answer # NULL)
  /\ doing = "wait" /\ what = "heartbeat" /\ answer # NULL => said = Says(answer)

(* What the device knows of the hub's commands is what the last answer to a
   heartbeat said, however long the time-out and however it is polled. *)
THEOREM PendingIsTheHubs == Spec => []PendingIsAnswered
<1> USE DEF AnswerInv
<1>1. Init => AnswerInv
  BY ReportingAssumption DEF Init, ReporterInit
<1>2. AnswerInv /\ [Next]_vars => AnswerInv'
  <2> SUFFICES ASSUME AnswerInv, [Next]_vars
               PROVE  AnswerInv'
    OBVIOUS
  <2>1. CASE Restart
    BY <2>1 DEF Restart, Drop
  <2>2. CASE SetAddress
    BY <2>2 DEF SetAddress, reader, request, pending
  <2>3. CASE HeartbeatInit
    BY <2>3 DEF HeartbeatInit, reader, request
  <2>4. CASE BeginHeartbeat \/ BeginPush
    BY <2>4 DEF BeginHeartbeat, BeginPush, Begin, Awake, request, pending
  <2>5. CASE CountSlot \/ Counted \/ FindSlot \/ LoadName \/ LoadValue
    BY <2>5 DEF CountSlot, Counted, FindSlot, LoadName, LoadValue, Seek, Walk, request, pending
  <2>6. CASE Encode
    BY <2>6 DEF Encode, reader, request, pending
  <2>7. CASE NotEncoded \/ NotSent
    BY <2>7 DEF NotEncoded, NotSent, GiveUp, Drop, pending
  <2>8. CASE Open
    BY <2>8 DEF Open, reader, pending
  <2>9. CASE PollAnswer
    BY <2>9 DEF PollAnswer, reader
  <2>10. CASE SendReturns
    BY <2>10 DEF SendReturns, Answered, GiveUp, Drop
  <2>11. CASE StoreHost \/ StorePort
    BY <2>11 DEF StoreHost, StorePort, Store, reader, request, pending
  <2>12. CASE RegistryCalls \/ RegistryRuns \/ UNCHANGED vars
    BY <2>12 DEF RegistryCalls, RegistryRuns, vars, reporter, reader, request, pending
  <2> QED
    BY <2>1, <2>2, <2>3, <2>4, <2>5, <2>6, <2>7, <2>8, <2>9, <2>10, <2>11, <2>12 DEF Next, Report
<1>3. AnswerInv => PendingIsAnswered
  BY DEF PendingIsAnswered
<1> QED
  BY <1>1, <1>2, <1>3, PTL DEF Spec

-----------------------------------------------------------------------------
(* The slots are filled from the first on, and each is granted before the next
   is taken. *)
Ranked ==
  /\ \A i, j \in Slots : grants[i] = 1 /\ j < i => grants[j] = 1
  /\ \A t \in Tasks, j \in Slots :
       call[t].op = "register" /\ j < call[t].slot => grants[j] = 1

(* No call but a registration has to do with that. *)
LEMMA RankKept ==
  ASSUME Ranked, UNCHANGED grants,
         \A u \in Tasks : call'[u].op = "register" =>
           call[u].op = "register" /\ call'[u].slot = call[u].slot
  PROVE  Ranked'
BY DEF Ranked

(* A poll or a read goes on, or a task is idle again. *)
LEMMA ProceedRanked ==
  ASSUME RegistryInv, Ranked, NEW t \in Tasks, Sampling(t), Proceed(t), UNCHANGED grants
  PROVE  Ranked'
<1>1. Return(t) \/ \E i \in Slots : PollAt(t, i)
  BY DEF Proceed
<1>2. call \in [Tasks -> Call]
  BY DEF RegistryInv, RegistryTypeOK
<1>3. \A u \in Tasks : call'[u].op = "register" => call'[u] = call[u]
  BY <1>1, <1>2 DEF Return, Idle, PollAt
<1> QED
  BY <1>3, RankKept

LEMMA StartRegisterRanked ==
  ASSUME RegistryInv, Ranked, NEW t \in Tasks, StartRegister(t)
  PROVE  Ranked'
<1>1. Acquire(t) /\ UNCHANGED <<sensors, grants, latest>>
  BY DEF StartRegister
<1>2. PICK i \in Slots, n \in Names :
        /\ \A j \in Slots : Vacant(j) => i <= j
        /\ call' = [call EXCEPT ![t] = [op |-> "register", name |-> n, slot |-> i,
                                        left |-> Fields, value |-> NULL]]
  BY DEF StartRegister
<1>3. \A u \in Tasks : call[u].op = "idle"
  BY <1>1, FreeIsQuiet
<1>4. \A j \in Slots : sensors[j].registered => grants[j] = 1
  BY <1>3 DEF RegistryInv, Filled
<1>5. \A j \in Slots : j < i => grants[j] = 1
  BY <1>2, <1>4, SensorsAssumption DEF Vacant, Slots
<1>6. call'[t].slot = i /\ \A u \in Tasks : u # t => call'[u].op = "idle"
  BY <1>2, <1>3 DEF RegistryInv, RegistryTypeOK
<1> QED
  BY <1>1, <1>5, <1>6 DEF Ranked

LEMMA RegisteredRanked ==
  ASSUME RegistryInv, Ranked, NEW t \in Tasks, Registered(t)
  PROVE  Ranked'
<1> DEFINE s == call[t].slot
<1>1. /\ call[t].op = "register"
      /\ grants' = [grants EXCEPT ![s] = @ + 1]
      /\ call' = [call EXCEPT ![t] = Idle]
  BY DEF Registered, Return
<1>2. /\ s \in Slots /\ grants[s] = 0
      /\ \A j \in Slots : j < s => grants[j] = 1
      /\ \A u \in Tasks : u # t => call[u].op = "idle"
  BY <1>1 DEF RegistryInv, InFlight, RegistryTypeOK, Ranked, Locked
<1>3. grants'[s] = 1 /\ \A i \in Slots : i # s => grants'[i] = grants[i]
  BY <1>1, <1>2 DEF RegistryInv, RegistryTypeOK
<1>4. \A i, j \in Slots : grants'[i] = 1 /\ j < i => grants'[j] = 1
  BY <1>2, <1>3 DEF Ranked
<1>5. \A u \in Tasks : call'[u].op = "idle"
  BY <1>1, <1>2, IdleType DEF RegistryInv, RegistryTypeOK
<1> QED
  BY <1>4, <1>5 DEF Ranked

(* Every step of the registry fills the slots in their order. *)
LEMMA RankedStep == RegistryInv /\ Ranked /\ [RegistryNext]_registry => Ranked'
<1> SUFFICES ASSUME RegistryInv, Ranked, [RegistryNext]_registry PROVE Ranked'
  OBVIOUS
<1>1. CASE RegistryRestart
  BY <1>1, IdleType DEF RegistryRestart, Ranked
<1>2. ASSUME NEW t \in Tasks, Calls(t)
      PROVE  Ranked'
  <2>1. CASE StartRegister(t)
    BY <2>1, StartRegisterRanked
  <2>2. CASE StartRead(t) \/ StartPoll(t)
    <3>1. call \in [Tasks -> Call]
      BY DEF RegistryInv, RegistryTypeOK
    <3>2. \A u \in Tasks : call'[u].op = "register" => call'[u] = call[u]
      BY <2>2, <3>1 DEF StartRead, StartPoll, PollAt
    <3> QED
      BY <2>2, <3>2, RankKept DEF StartRead, StartPoll
  <2> QED
    BY <1>2, <2>1, <2>2 DEF Calls
<1>3. ASSUME NEW t \in Tasks, Runs(t)
      PROVE  Ranked'
  <2>1. CASE StoreField(t) \/ DriverReturns(t)
    <3>1. \A u \in Tasks : call'[u].op = call[u].op /\ call'[u].slot = call[u].slot
      BY <2>1 DEF StoreField, DriverReturns, RegistryInv, RegistryTypeOK, Call
    <3> QED
      BY <2>1, <3>1, RankKept DEF StoreField, DriverReturns
  <2>2. CASE Registered(t)
    BY <2>2, RegisteredRanked
  <2>3. CASE DriverFails(t) \/ StoreValue(t)
    BY <2>3, ProceedRanked DEF DriverFails, StoreValue
  <2> QED
    BY <1>3, <2>1, <2>2, <2>3 DEF Runs
<1>4. CASE UNCHANGED registry
  BY <1>4 DEF registry, Ranked
<1> QED
  BY <1>1, <1>2, <1>3, <1>4 DEF RegistryNext

(* What a filled slot says of those before it. *)
LEMMA RankedSlots ==
  ASSUME RegistryInv, Ranked, NEW i \in Slots, NEW j \in Slots, j < i, sensors[i].registered
  PROVE  grants[j] = 1 /\ sensors[j].registered
BY DEF RegistryInv, Ranked, Filled, OwnSlot

(* While the device runs, what is filled stays filled, and a sensor whose
   registration was answered keeps its slot and its name. *)
RegistryGrows ==
  \A i \in Slots :
    /\ sensors[i].registered => sensors'[i].registered
    /\ grants[i] = 1 => grants'[i] = 1 /\ sensors'[i].name = sensors[i].name

LEMMA Grows ==
  ASSUME RegistryInv, NEW t \in Tasks, Calls(t) \/ Runs(t)
  PROVE  RegistryGrows
<1>1. CASE Calls(t) \/ DriverReturns(t) \/ DriverFails(t)
  <2>1. UNCHANGED sensors
    BY <1>1 DEF Calls, StartRegister, StartRead, StartPoll, DriverReturns, DriverFails
  <2>2. UNCHANGED grants
    BY <1>1 DEF Calls, StartRegister, StartRead, StartPoll, DriverReturns, DriverFails
  <2> QED
    BY <2>1, <2>2 DEF RegistryGrows
<1>2. CASE StoreField(t)
  <2> DEFINE s == call[t].slot
  <2>1. PICK f \in call[t].left :
          /\ sensors' = [sensors EXCEPT ![s] = Stored(@, f, call[t].name)]
          /\ UNCHANGED grants
    BY <1>2 DEF StoreField
  <2>2. s \in Slots /\ grants[s] = 0
    BY <2>1 DEF RegistryInv, InFlight, RegistryTypeOK
  <2>3. sensors \in [Slots -> Sensor] /\ sensors'[s] = Stored(sensors[s], f, call[t].name)
    BY <2>1, <2>2 DEF RegistryInv, RegistryTypeOK
  <2>4. sensors[s].registered => sensors'[s].registered
    BY <2>3 DEF Stored
  <2>5. \A i \in Slots : i # s => sensors'[i] = sensors[i]
    BY <2>1, <2>2, <2>3
  <2>6. \A i \in Slots : sensors[i].registered => sensors'[i].registered
    BY <2>4, <2>5
  <2>7. \A i \in Slots : grants[i] = 1 => i # s
    BY <2>2
  <2>8. \A i \in Slots : grants[i] = 1 => grants'[i] = 1 /\ sensors'[i].name = sensors[i].name
    BY <2>1, <2>5, <2>7
  <2> QED
    BY <2>6, <2>8 DEF RegistryGrows
<1>3. CASE Registered(t)
  <2>1. /\ call[t].op = "register"
        /\ grants' = [grants EXCEPT ![call[t].slot] = @ + 1]
        /\ UNCHANGED sensors
    BY <1>3 DEF Registered
  <2>2. call[t].slot \in Slots /\ grants[call[t].slot] = 0
    BY <2>1 DEF RegistryInv, InFlight, RegistryTypeOK
  <2> QED
    BY <2>1, <2>2 DEF RegistryInv, RegistryTypeOK, RegistryGrows
<1>4. CASE StoreValue(t)
  <2>1. /\ sensors' = [sensors EXCEPT ![call[t].slot].last_value = call[t].value]
        /\ UNCHANGED grants
    BY <1>4 DEF StoreValue
  <2>2. \A i \in Slots : /\ sensors'[i].name = sensors[i].name
                         /\ sensors'[i].registered = sensors[i].registered
    BY <2>1 DEF RegistryInv, RegistryTypeOK, Sensor
  <2> QED
    BY <2>1, <2>2 DEF RegistryGrows
<1> QED
  BY <1>1, <1>2, <1>3, <1>4 DEF Runs

(* Together: the slots are granted in their order, and never taken back. *)
THEOREM RankInvariance == RegistrySpec => []Ranked
<1>1. RegistryInit => Ranked
  BY IdleType DEF RegistryInit, Ranked
<1> QED
  BY <1>1, RankedStep, RegistryInvariance, PTL DEF RegistrySpec

-----------------------------------------------------------------------------
(* The walk over the slots.  As they are filled in their order, the sensor with
   number n is in slot n + 1 and all before it are filled, so that no step of
   the walk can miss one, whatever is registered behind it. *)

Entry == [name : Names \cup {NULL}, value : Nat]
Scan == [at : Nat \ {0}, passed : Nat, index : Nat, limit : Nat, name : Names \cup {NULL}]

WalkTypes ==
  /\ build \in Builds
  /\ doing \in {"boot", "idle", "encode", "open", "wait"} \cup Reading \cup Storing
  /\ what \in {"heartbeat", "push"}
  /\ scan \in Scan
  /\ scan.index <= scan.limit /\ scan.limit <= MaxSensors
  /\ report \in Seq(Entry) /\ Len(report) <= scan.index
  /\ known \subseteq Slots

(* Every known sensor in one of the first n slots is in the report. *)
Has(n) == \A i \in known : i <= n => \E r \in DOMAIN report : report[r].name = sensors[i].name

(* The report is one that carries readings. *)
Asked == what = "push" \/ (build.protobuf /\ build.inHeartbeat)

KnownInv ==
  /\ \A i \in known : grants[i] = 1
  /\ \A i \in known, j \in Slots : j < i => j \in known

CountInv ==
  doing = "count" =>
    /\ scan.passed = 0 /\ scan.index = 0
    /\ scan.limit < scan.at /\ scan.at <= MaxSensors + 1
    /\ \A i \in known : i < scan.at => i <= scan.limit
    /\ \A i \in Slots : i <= scan.limit => sensors[i].registered

FindInv ==
  doing \in {"find", "name", "value"} =>
    /\ scan.index < scan.limit
    /\ scan.passed = scan.at - 1 /\ scan.at <= scan.index + 1
    /\ doing # "find" => scan.at = scan.index + 1
    /\ doing = "value" /\ scan.at \in known => scan.name = sensors[scan.at].name
    /\ \A i \in known : i <= scan.limit
    /\ \A i \in Slots : i <= scan.limit => sensors[i].registered
    /\ Has(scan.index)

SentInv ==
  doing \in {"encode", "open", "wait"} =>
    /\ scan.at = 1 /\ scan.passed = 0
    /\ Asked => Has(MaxSensors)

RestInv == doing \in {"boot", "idle"} \cup Storing => scan = Nowhere /\ report = <<>> /\ known = {}

WalkInv == WalkTypes /\ KnownInv /\ CountInv /\ FindInv /\ SentInv /\ RestInv

LEMMA NowhereType ==
  /\ Nowhere \in Scan
  /\ Nowhere.at = 1 /\ Nowhere.passed = 0 /\ Nowhere.index = 0 /\ Nowhere.limit = 0
  /\ MaxSensors \in Nat
  BY SensorsAssumption DEF Nowhere, Scan

(* At rest nothing is left of a report. *)
LEMMA AtRest ==
  ASSUME build' \in Builds, doing' \in {"boot", "idle"} \cup Storing,
         what' \in {"heartbeat", "push"},
         scan' = Nowhere, report' = <<>>, known' = {}
  PROVE  WalkInv'
<1>1. WalkTypes'
  BY NowhereType DEF WalkTypes, Storing
<1> QED
  BY <1>1 DEF WalkInv, KnownInv, CountInv, FindInv, SentInv, RestInv, Storing

(* The registry goes on under the walk. *)
LEMMA WalkKept ==
  ASSUME WalkInv, RegistryGrows, UNCHANGED reporter
  PROVE  WalkInv'
<1>1. UNCHANGED <<build, doing, what, scan, report, known>>
  BY DEF reporter, reader
<1>2. WalkTypes' /\ KnownInv'
  BY <1>1 DEF WalkInv, WalkTypes, KnownInv, RegistryGrows
<1>3. \A i \in known : sensors'[i].name = sensors[i].name
  BY DEF WalkInv, WalkTypes, KnownInv, RegistryGrows
<1>4. \A n : Has(n) => Has(n)'
  BY <1>1, <1>3 DEF Has
<1>5. \A i \in Slots : i <= scan.limit /\ sensors[i].registered => sensors'[i].registered
  BY DEF RegistryGrows
<1>6. CountInv'
  BY <1>1, <1>5 DEF WalkInv, CountInv
<1>7. FindInv'
  BY <1>1, <1>3, <1>4, <1>5 DEF WalkInv, FindInv
<1>8. SentInv' /\ RestInv'
  BY <1>1, <1>4 DEF WalkInv, SentInv, RestInv, Asked
<1> QED
  BY <1>2, <1>6, <1>7, <1>8 DEF WalkInv

(* What is known when a report begins: a beginning of the table. *)
LEMMA BeginWalk ==
  ASSUME RegistryInv, Ranked, WalkInv, BeginHeartbeat \/ BeginPush
  PROVE  WalkInv'
<1>1. /\ doing = "idle" /\ doing' \in {"count", "encode"}
      /\ what' \in {"heartbeat", "push"}
      /\ known' = {i \in Slots : grants[i] = 1}
      /\ UNCHANGED <<registry, build, scan, report>>
  BY DEF BeginHeartbeat, BeginPush, Begin, Awake
<1>2. scan = Nowhere /\ report = <<>>
  BY <1>1 DEF WalkInv, RestInv
<1>3. doing' = "encode" => ~Asked'
  BY <1>1 DEF BeginHeartbeat, BeginPush, Begin, Asked
<1>4. UNCHANGED <<sensors, grants>>
  BY <1>1 DEF registry
<1>5. WalkTypes'
  BY <1>1 DEF WalkInv, WalkTypes, Reading
<1>6. KnownInv'
  BY <1>1, <1>4 DEF KnownInv, Ranked
<1>7. CountInv'
  BY <1>1, <1>2, NowhereType DEF CountInv, Slots
<1>8. FindInv' /\ SentInv' /\ RestInv'
  BY <1>1, <1>2, <1>3, NowhereType DEF FindInv, SentInv, RestInv, Storing
<1> QED
  BY <1>5, <1>6, <1>7, <1>8 DEF WalkInv

LEMMA CountSlotWalk ==
  ASSUME RegistryInv, Ranked, WalkInv, CountSlot
  PROVE  WalkInv'
<1> DEFINE at == scan.at
<1>1. /\ doing = "count" /\ doing' = "count" /\ at \in Slots
      /\ scan' = [scan EXCEPT !.at = @ + 1,
                              !.limit = IF sensors[scan.at].registered THEN @ + 1 ELSE @]
      /\ UNCHANGED <<registry, build, what, known, report>>
  BY DEF CountSlot, Walk
<1>2. scan \in Scan /\ MaxSensors \in Nat /\ scan.limit < at /\ at <= MaxSensors
      /\ scan.index = 0 /\ scan.passed = 0
  BY <1>1, NowhereType DEF WalkInv, WalkTypes, CountInv, Slots
<1>3. /\ scan' \in Scan /\ scan'.at = at + 1 /\ scan'.index = 0 /\ scan'.passed = 0
      /\ sensors[at].registered => scan'.limit = scan.limit + 1
      /\ ~sensors[at].registered => scan'.limit = scan.limit
  <2>1. CASE sensors[at].registered
    <3>1. PICK a \in Nat \ {0}, m \in Nat : a = at + 1 /\ m = scan.limit + 1
      BY <1>2 DEF Scan
    <3>2. scan' = [scan EXCEPT !.at = a, !.limit = m]
      BY <1>1, <2>1, <3>1
    <3> QED
      BY <1>2, <2>1, <3>1, <3>2 DEF Scan
  <2>2. CASE ~sensors[at].registered
    <3>1. PICK a \in Nat \ {0}, m \in Nat : a = at + 1 /\ m = scan.limit
      BY <1>2 DEF Scan
    <3>2. scan' = [scan EXCEPT !.at = a, !.limit = m]
      BY <1>1, <2>2, <3>1
    <3> QED
      BY <1>2, <2>2, <3>1, <3>2 DEF Scan
  <2> QED
    BY <2>1, <2>2
<1>4. UNCHANGED <<sensors, grants>>
  BY <1>1 DEF registry
<1>5. scan'.limit \in Nat /\ scan'.limit <= at
  BY <1>2, <1>3 DEF Scan
<1>6. WalkTypes' /\ KnownInv'
  BY <1>1, <1>2, <1>3, <1>4, <1>5 DEF WalkInv, WalkTypes, KnownInv, Reading, Scan
<1>7. \A i \in known : i < at + 1 => i <= scan'.limit
  <2> SUFFICES ASSUME NEW i \in known, i < at + 1 PROVE i <= scan'.limit
    OBVIOUS
  <2>1. i \in Slots /\ i \in Nat /\ i >= 1
    BY DEF WalkInv, WalkTypes, Slots
  <2>2. CASE i < at
    BY <1>1, <1>2, <1>3, <1>5, <2>1, <2>2 DEF WalkInv, CountInv, Scan
  <2>3. CASE i = at
    <3>1. sensors[at].registered
      BY <2>1, <2>3 DEF WalkInv, KnownInv, RegistryInv, OwnSlot
    <3>2. CASE at = 1
      BY <1>2, <1>3, <2>3, <3>1, <3>2 DEF Scan
    <3>3. CASE at > 1
      <4>1. at - 1 \in Slots /\ at - 1 < at
        BY <1>1, <1>2, <3>3 DEF Slots, Scan
      <4>2. at - 1 \in known
        BY <2>3, <4>1 DEF WalkInv, KnownInv
      <4>3. at - 1 <= scan.limit
        BY <1>1, <4>1, <4>2 DEF WalkInv, CountInv
      <4> QED
        BY <1>2, <1>3, <2>3, <3>1, <4>3 DEF Scan
    <3> QED
      BY <2>1, <2>3, <3>2, <3>3
  <2> QED
    BY <1>2, <2>1, <2>2, <2>3 DEF Scan
<1>8. \A i \in Slots : i <= scan'.limit => sensors[i].registered
  <2> SUFFICES ASSUME NEW i \in Slots, i <= scan'.limit PROVE sensors[i].registered
    OBVIOUS
  <2>1. CASE sensors[at].registered
    <3>1. i < at \/ i = at
      BY <1>2, <1>5 DEF Slots, Scan
    <3> QED
      BY <1>1, <2>1, <3>1, RankedSlots
  <2>2. CASE ~sensors[at].registered
    BY <1>1, <1>3, <2>2 DEF WalkInv, CountInv
  <2> QED
    BY <2>1, <2>2
<1>9. CountInv'
  BY <1>1, <1>2, <1>3, <1>4, <1>5, <1>7, <1>8 DEF CountInv, Scan
<1> QED
  BY <1>1, <1>6, <1>9 DEF WalkInv, FindInv, SentInv, RestInv, Storing

(* Seek leaves the count and what it is for. *)
LEMMA SeekScan ==
  ASSUME NEW index \in Nat, NEW limit \in Nat, index <= limit, Seek(index, limit)
  PROVE  /\ scan' \in Scan
         /\ scan'.at = 1 /\ scan'.passed = 0 /\ scan'.index = index /\ scan'.limit = limit
         /\ index < limit => doing' = "find"
         /\ ~(index < limit) => doing' = "encode" /\ index = limit
<1>1. scan' = [Nowhere EXCEPT !.index = index, !.limit = limit]
  BY DEF Seek
<1>2. scan' \in Scan /\ scan'.at = 1 /\ scan'.passed = 0 /\ scan'.index = index /\ scan'.limit = limit
  BY <1>1, NowhereType DEF Scan
<1>3. /\ index < limit => doing' = "find"
      /\ ~(index < limit) => doing' = "encode" /\ index = limit
  BY DEF Seek
<1> QED
  BY <1>2, <1>3

(* Between two sensors. *)
LEMMA SeekWalk ==
  ASSUME NEW index \in Nat, NEW limit \in Nat, index <= limit, limit <= MaxSensors,
         Seek(index, limit), WalkInv, UNCHANGED <<registry, build, what, known>>,
         \A i \in known : i <= limit,
         \A i \in Slots : i <= limit => sensors[i].registered,
         report' \in Seq(Entry), Len(report') <= index, Has(index)'
  PROVE  WalkInv'
<1>1. /\ scan' \in Scan
      /\ scan'.at = 1 /\ scan'.passed = 0 /\ scan'.index = index /\ scan'.limit = limit
      /\ index < limit => doing' = "find"
      /\ ~(index < limit) => doing' = "encode" /\ index = limit
  BY SeekScan
<1>2. UNCHANGED <<sensors, grants>>
  BY DEF registry
<1>3. doing' \in {"find", "encode"}
  BY <1>1
<1>4. WalkTypes' /\ KnownInv'
  BY <1>1, <1>2, <1>3 DEF WalkInv, WalkTypes, KnownInv, Reading
<1>5. CountInv' /\ RestInv'
  BY <1>3 DEF CountInv, RestInv, Storing
<1>6. FindInv'
  <2> SUFFICES ASSUME doing' \in {"find", "name", "value"} PROVE FindInv'
    BY DEF FindInv
  <2>1. doing' = "find" /\ index < limit
    BY <1>1, <1>3
  <2>2. scan'.passed = scan'.at - 1 /\ scan'.at <= scan'.index + 1 /\ scan'.index < scan'.limit
    BY <1>1, <2>1
  <2>3. Has(scan.index)'
    BY <1>1
  <2> QED
    BY <1>1, <1>2, <2>1, <2>2, <2>3 DEF FindInv
<1>7. SentInv'
  <2> SUFFICES ASSUME doing' \in {"encode", "open", "wait"} PROVE SentInv'
    BY DEF SentInv
  <2>1. index = limit
    BY <1>1
  <2>2. Has(MaxSensors)'
    BY <2>1 DEF Has
  <2> QED
    BY <1>1, <2>2 DEF SentInv
<1> QED
  BY <1>4, <1>5, <1>6, <1>7 DEF WalkInv

(* All that was known has been counted, and a message has room for it. *)
LEMMA CountedWalk ==
  ASSUME WalkInv, Counted
  PROVE  WalkInv'
<1>1. /\ doing = "count" /\ scan.at = MaxSensors + 1
      /\ Seek(0, Limit) /\ UNCHANGED <<registry, build, what, known, report>>
  BY DEF Counted, Walk
<1>2. scan \in Scan /\ scan.limit <= MaxSensors /\ MaxSensors \in Nat /\ scan.index = 0
  BY <1>1, NowhereType DEF WalkInv, WalkTypes, CountInv
<1>3. Limit = scan.limit /\ Limit \in Nat
  BY <1>2, ReportingAssumption DEF Limit, Smaller, Scan
<1>4. \A i \in known : i <= Limit
  <2> SUFFICES ASSUME NEW i \in known PROVE i <= scan.limit
    BY <1>3
  <2>1. i < scan.at
    BY <1>1, <1>2 DEF WalkInv, WalkTypes, Slots
  <2> QED
    BY <1>1, <2>1 DEF WalkInv, CountInv
<1>5. \A i \in Slots : i <= Limit => sensors[i].registered
  BY <1>1, <1>3 DEF WalkInv, CountInv
<1>6. report' \in Seq(Entry) /\ Len(report') <= 0
  BY <1>1, <1>2 DEF WalkInv, WalkTypes
<1>7. Has(0)'
  BY <1>1 DEF Has, WalkInv, WalkTypes, Slots
<1> QED
  BY <1>1, <1>2, <1>3, <1>4, <1>5, <1>6, <1>7, SeekWalk DEF Scan

LEMMA FindSlotWalk ==
  ASSUME RegistryInv, Ranked, WalkInv, FindSlot
  PROVE  WalkInv'
<1> DEFINE hit == sensors[scan.at].registered /\ scan.passed = scan.index
<1>1. /\ doing = "find" /\ scan.at \in Slots
      /\ doing' = IF hit THEN "name" ELSE "find"
      /\ scan' = IF hit THEN scan
                 ELSE [scan EXCEPT !.at = @ + 1,
                                   !.passed = IF sensors[scan.at].registered THEN @ + 1 ELSE @]
      /\ UNCHANGED <<registry, build, what, known, report>>
  BY DEF FindSlot, Walk
<1>2. scan \in Scan /\ scan.limit <= MaxSensors /\ MaxSensors \in Nat
  BY NowhereType DEF WalkInv, WalkTypes
<1>3. /\ scan.index < scan.limit
      /\ scan.passed = scan.at - 1 /\ scan.at <= scan.index + 1
      /\ \A i \in known : i <= scan.limit
      /\ \A i \in Slots : i <= scan.limit => sensors[i].registered
      /\ Has(scan.index)
  BY <1>1 DEF WalkInv, FindInv
<1>4. sensors[scan.at].registered
  BY <1>1, <1>2, <1>3 DEF Scan
<1>5. UNCHANGED <<sensors, grants>>
  BY <1>1 DEF registry
<1>6. \A n : Has(n) => Has(n)'
  BY <1>1, <1>5 DEF Has
<1>7. CASE scan.passed = scan.index
  <2>1. doing' = "name" /\ scan' = scan /\ scan.at = scan.index + 1
    BY <1>1, <1>2, <1>3, <1>4, <1>7 DEF Scan
  <2>2. WalkTypes' /\ KnownInv'
    BY <1>1, <1>5, <2>1 DEF WalkInv, WalkTypes, KnownInv, Reading
  <2>3. FindInv'
    BY <1>1, <1>3, <1>5, <1>6, <2>1 DEF FindInv
  <2> QED
    BY <2>1, <2>2, <2>3 DEF WalkInv, CountInv, SentInv, RestInv, Storing
<1>8. CASE scan.passed # scan.index
  <2>1. doing' = "find" /\ scan' = [scan EXCEPT !.at = @ + 1, !.passed = @ + 1]
    BY <1>1, <1>4, <1>8
  <2>2. /\ scan' \in Scan /\ scan'.at = scan.at + 1 /\ scan'.passed = scan.passed + 1
        /\ scan'.index = scan.index /\ scan'.limit = scan.limit
    <3>1. PICK a \in Nat \ {0}, m \in Nat : a = scan.at + 1 /\ m = scan.passed + 1
      BY <1>2 DEF Scan
    <3>2. scan' = [scan EXCEPT !.at = a, !.passed = m]
      BY <2>1, <3>1
    <3> QED
      BY <1>2, <3>1, <3>2 DEF Scan
  <2>3. scan'.passed = scan'.at - 1 /\ scan'.at <= scan'.index + 1
    BY <1>2, <1>3, <1>8, <2>2 DEF Scan
  <2>4. WalkTypes' /\ KnownInv'
    BY <1>1, <1>5, <2>1, <2>2 DEF WalkInv, WalkTypes, KnownInv, Reading
  <2>5. FindInv'
    BY <1>1, <1>3, <1>5, <1>6, <2>1, <2>2, <2>3 DEF FindInv
  <2> QED
    BY <2>1, <2>4, <2>5 DEF WalkInv, CountInv, SentInv, RestInv, Storing
<1> QED
  BY <1>7, <1>8

LEMMA LoadNameWalk ==
  ASSUME RegistryInv, WalkInv, LoadName
  PROVE  WalkInv'
<1>1. /\ doing = "name" /\ doing' = "value"
      /\ scan' = [scan EXCEPT !.name = sensors[scan.at].name]
      /\ UNCHANGED <<registry, build, what, known, report>>
  BY DEF LoadName, Walk
<1>2. scan \in Scan /\ scan.limit <= MaxSensors /\ MaxSensors \in Nat
  BY NowhereType DEF WalkInv, WalkTypes
<1>3. /\ scan.index < scan.limit
      /\ scan.passed = scan.at - 1 /\ scan.at = scan.index + 1
      /\ \A i \in known : i <= scan.limit
      /\ \A i \in Slots : i <= scan.limit => sensors[i].registered
      /\ Has(scan.index)
  BY <1>1 DEF WalkInv, FindInv
<1>4. scan.at \in Slots
  BY <1>2, <1>3 DEF Scan, Slots
<1>5. sensors[scan.at].name \in Names \cup {NULL}
  BY <1>4 DEF RegistryInv, RegistryTypeOK, Sensor
<1>6. /\ scan' \in Scan /\ scan'.at = scan.at /\ scan'.passed = scan.passed
      /\ scan'.index = scan.index /\ scan'.limit = scan.limit
      /\ scan'.name = sensors[scan.at].name
  BY <1>1, <1>2, <1>5 DEF Scan
<1>7. UNCHANGED <<sensors, grants>>
  BY <1>1 DEF registry
<1>8. Has(scan.index)'
  BY <1>1, <1>3, <1>6, <1>7 DEF Has
<1>9. WalkTypes' /\ KnownInv'
  BY <1>1, <1>6, <1>7 DEF WalkInv, WalkTypes, KnownInv, Reading
<1>10. FindInv'
  <2>1. scan'.index < scan'.limit /\ scan'.passed = scan'.at - 1 /\ scan'.at = scan'.index + 1
    BY <1>3, <1>6
  <2>2. scan'.at <= scan'.index + 1
    BY <1>2, <1>6, <2>1 DEF Scan
  <2>3. scan'.name = sensors'[scan'.at].name
    BY <1>6, <1>7
  <2>4. /\ \A i \in known' : i <= scan'.limit
        /\ \A i \in Slots : i <= scan'.limit => sensors'[i].registered
    BY <1>1, <1>3, <1>6, <1>7
  <2> QED
    BY <1>8, <2>1, <2>2, <2>3, <2>4 DEF FindInv
<1> QED
  BY <1>1, <1>9, <1>10 DEF WalkInv, CountInv, SentInv, RestInv, Storing

(* A reading that comes to a report leaves the others where they are. *)
LEMMA AppendedEntry ==
  ASSUME NEW s \in Seq(Entry), NEW e \in Entry
  PROVE  /\ Append(s, e) \in Seq(Entry) /\ Len(Append(s, e)) = Len(s) + 1
         /\ \A r \in DOMAIN s : r \in DOMAIN Append(s, e) /\ Append(s, e)[r] = s[r]
         /\ \E r \in DOMAIN Append(s, e) : Append(s, e)[r] = e
<1>1. /\ Append(s, e) \in Seq(Entry) /\ Len(Append(s, e)) = Len(s) + 1
      /\ \A r \in DOMAIN s : r \in DOMAIN Append(s, e) /\ Append(s, e)[r] = s[r]
  OBVIOUS
<1>2. Len(s) + 1 \in DOMAIN Append(s, e) /\ Append(s, e)[Len(s) + 1] = e
  OBVIOUS
<1> QED
  BY <1>1, <1>2

LEMMA LoadValueWalk ==
  ASSUME RegistryInv, WalkInv, LoadValue
  PROVE  WalkInv'
<1> DEFINE e == [name |-> scan.name, value |-> sensors[scan.at].last_value]
<1>0. PICK n \in Nat : n = scan.index
  BY DEF WalkInv, WalkTypes, Scan
<1>1. /\ doing = "value"
      /\ report' = IF scan.name = NULL THEN report ELSE Append(report, e)
      /\ Seek(n + 1, scan.limit)
      /\ UNCHANGED <<registry, build, what, known>>
  BY <1>0 DEF LoadValue, Walk
<1>2. scan \in Scan /\ scan.limit <= MaxSensors /\ MaxSensors \in Nat
      /\ report \in Seq(Entry) /\ Len(report) <= n
  BY <1>0, NowhereType DEF WalkInv, WalkTypes
<1>3. /\ n < scan.limit
      /\ scan.at = n + 1
      /\ scan.at \in known => scan.name = sensors[scan.at].name
      /\ \A i \in known : i <= scan.limit
      /\ \A i \in Slots : i <= scan.limit => sensors[i].registered
      /\ Has(n)
  BY <1>0, <1>1 DEF WalkInv, FindInv
<1>4. scan.at \in Slots
  BY <1>0, <1>2, <1>3 DEF Scan, Slots
<1>5. e \in Entry
  BY <1>2, <1>4 DEF Scan, Entry, RegistryInv, RegistryTypeOK, Sensor
<1>6. report' \in Seq(Entry) /\ Len(report') <= n + 1
  BY <1>1, <1>2, <1>5, AppendedEntry DEF Scan
<1>7. \A r \in DOMAIN report : r \in DOMAIN report' /\ report'[r] = report[r]
  BY <1>1, <1>2, <1>5, AppendedEntry
<1>8. scan.at \in known => \E r \in DOMAIN report' : report'[r].name = sensors[scan.at].name
  <2> SUFFICES ASSUME scan.at \in known
               PROVE  \E r \in DOMAIN report' : report'[r].name = sensors[scan.at].name
    OBVIOUS
  <2>1. sensors[scan.at].name # NULL
    BY <1>4, SensorsAssumption DEF WalkInv, KnownInv, RegistryInv, OwnSlot
  <2>2. report' = Append(report, e) /\ e.name = sensors[scan.at].name
    BY <1>1, <1>3, <2>1
  <2>3. \E r \in DOMAIN report' : report'[r] = e
    BY <1>2, <1>5, <2>2, AppendedEntry
  <2> QED
    BY <2>2, <2>3
<1>9. UNCHANGED sensors
  BY <1>1 DEF registry
<1>10. Has(n + 1)'
  <2> SUFFICES ASSUME NEW i \in known, i <= n + 1
               PROVE  \E r \in DOMAIN report' : report'[r].name = sensors[i].name
    BY <1>1, <1>9 DEF Has
  <2>1. i <= n \/ i = scan.at
    BY <1>2, <1>3 DEF WalkInv, WalkTypes, Slots, Scan
  <2>2. CASE i <= n
    <3>1. PICK r \in DOMAIN report : report[r].name = sensors[i].name
      BY <1>3, <2>2 DEF Has
    <3> QED
      BY <1>7, <3>1
  <2> QED
    BY <1>8, <2>1, <2>2
<1>11. n + 1 \in Nat /\ scan.limit \in Nat /\ n + 1 <= scan.limit
  BY <1>2, <1>3 DEF Scan
<1> HIDE DEF e
<1> QED
  BY <1>1, <1>2, <1>3, <1>6, <1>10, <1>11, SeekWalk

(* Until the answer is there the report stays as it is. *)
LEMMA SentWalk ==
  ASSUME WalkInv, Encode \/ Open \/ PollAnswer
  PROVE  WalkInv'
<1>1. /\ doing \in {"encode", "open", "wait"} /\ doing' \in {"encode", "open", "wait"}
      /\ UNCHANGED <<registry, build, reader>>
  BY DEF Encode, Open, PollAnswer, reader
<1>2. UNCHANGED <<sensors, grants, build, what, scan, report, known>>
  BY <1>1 DEF reader, registry
<1>3. WalkTypes' /\ KnownInv'
  BY <1>1, <1>2 DEF WalkInv, WalkTypes, KnownInv
<1>4. SentInv'
  BY <1>1, <1>2 DEF WalkInv, SentInv, Has, Asked
<1> QED
  BY <1>1, <1>3, <1>4 DEF WalkInv, CountInv, FindInv, RestInv, Storing

LEMMA DroppedWalk ==
  ASSUME WalkInv, Restart \/ NotEncoded \/ NotSent \/ SendReturns
  PROVE  WalkInv'
<1>1. /\ doing' \in {"boot", "idle"} \cup Storing
      /\ Drop /\ UNCHANGED build
  BY DEF Restart, NotEncoded, NotSent, SendReturns, GiveUp
<1> QED
  BY <1>1, AtRest DEF Drop, WalkInv, WalkTypes

LEMMA AddressWalk ==
  ASSUME WalkInv, SetAddress \/ StoreHost \/ StorePort \/ HeartbeatInit
  PROVE  WalkInv'
<1>1. /\ doing \in {"boot", "idle"} \cup Storing /\ doing' \in {"boot", "idle"} \cup Storing
      /\ UNCHANGED <<build, reader>>
  BY DEF SetAddress, StoreHost, StorePort, Store, HeartbeatInit, Storing
<1>2. UNCHANGED <<what, scan, report, known>>
  BY <1>1 DEF reader
<1>3. scan = Nowhere /\ report = <<>> /\ known = {} /\ build \in Builds /\ what \in {"heartbeat", "push"}
  BY <1>1 DEF WalkInv, WalkTypes, RestInv
<1> QED
  BY <1>1, <1>2, <1>3, AtRest

LEMMA WalkStep == RegistryInv /\ Ranked /\ WalkInv /\ [Next]_vars => WalkInv'
<1> SUFFICES ASSUME RegistryInv, Ranked, WalkInv, [Next]_vars PROVE WalkInv'
  OBVIOUS
<1>1. CASE Restart \/ NotEncoded \/ NotSent \/ SendReturns
  BY <1>1, DroppedWalk
<1>2. CASE SetAddress \/ StoreHost \/ StorePort \/ HeartbeatInit
  BY <1>2, AddressWalk
<1>3. CASE BeginHeartbeat \/ BeginPush
  BY <1>3, BeginWalk
<1>4. CASE CountSlot
  BY <1>4, CountSlotWalk
<1>5. CASE Counted
  BY <1>5, CountedWalk
<1>6. CASE FindSlot
  BY <1>6, FindSlotWalk
<1>7. CASE LoadName
  BY <1>7, LoadNameWalk
<1>8. CASE LoadValue
  BY <1>8, LoadValueWalk
<1>9. CASE Encode \/ Open \/ PollAnswer
  BY <1>9, SentWalk
<1>10. CASE RegistryCalls
  BY <1>10, Grows, WalkKept DEF RegistryCalls
<1>11. CASE RegistryRuns
  BY <1>11, Grows, WalkKept DEF RegistryRuns
<1>12. CASE UNCHANGED vars
  <2>1. UNCHANGED reporter /\ RegistryGrows
    BY <1>12 DEF vars, registry, RegistryGrows
  <2> QED
    BY <2>1, WalkKept
<1> QED
  BY <1>1, <1>2, <1>3, <1>4, <1>5, <1>6, <1>7, <1>8, <1>9, <1>10, <1>11, <1>12 DEF Next, Report

(* The invariant of the walk holds of every behaviour. *)
THEOREM WalkInvariance == Spec => []WalkInv
<1>1. Init => WalkInv
  <2> SUFFICES ASSUME Init PROVE WalkInv
    OBVIOUS
  <2>1. WalkTypes
    BY NowhereType DEF Init, ReporterInit, WalkTypes
  <2> QED
    BY <2>1 DEF Init, ReporterInit, WalkInv, KnownInv, CountInv, FindInv, SentInv, RestInv
<1> QED
  BY <1>1, WalkStep, ReportingIsRegistry, RegistryInvariance, RankInvariance, PTL DEF Spec

(* A sensor whose registration was answered when the report was begun is in it,
   for any number of slots, sensors and tasks: the slots fill up in their order,
   so that no number moves while the table is read without its mutex. *)
THEOREM NoSensorIsLeftOut == Spec => []ReportComplete
<1>1. WalkInv => ReportComplete
  BY SensorsAssumption
  DEF WalkInv, WalkTypes, SentInv, Asked, Has, ReportComplete, Slots
<1> QED
  BY <1>1, WalkInvariance, PTL

-----------------------------------------------------------------------------
(* Addresses. *)

Address == [host : Text, port : Ports]

(* An address the device can have: of a host not longer than its buffer. *)
Fitting(h) == h \in Address /\ Len(h.host) <= HostMax

(* Tokens put in front and taken off again. *)
LEMMA Tokens ==
  ASSUME NEW X, NEW a \in X, NEW b \in X, NEW s \in Seq(X)
  PROVE  /\ <<a>> \in Seq(X) /\ <<a, b>> \in Seq(X)
         /\ <<a>> \o s # <<>> /\ Head(<<a>> \o s) = a /\ Tail(<<a>> \o s) = s
         /\ s # <<>> => Tail(s) \in Seq(X)
<1>1. <<a>> \in Seq(X) /\ <<a, b>> \in Seq(X)
  OBVIOUS
<1>2. <<a>> \o s # <<>> /\ Head(<<a>> \o s) = a
  OBVIOUS
<1>3. Tail(<<a>> \o s) = s
  OBVIOUS
<1>4. s # <<>> => Tail(s) \in Seq(X)
  OBVIOUS
<1> QED
  BY <1>1, <1>2, <1>3, <1>4

(* What is assumed of addresses, in these words. *)
LEMMA TokensOfAddresses ==
  /\ Uris \subseteq Text /\ Ports \subseteq Token \ {":"} /\ DefaultPort \in Ports
  /\ ":" \in Token /\ "coap://" \in Token
  /\ HostMax \in Nat
  /\ NULL \notin Text /\ NULL \notin Ports
  /\ \A host \in Numeric : ":" \notin {host[i] : i \in DOMAIN host}
<1>1. ":" \in Token /\ "coap://" \in Token
  BY DEF Token
<1>2. Uris \subseteq Text /\ NULL \notin Text
  BY ReportingAssumption
<1>3. Ports \subseteq Token \ {":"} /\ DefaultPort \in Ports /\ NULL \notin Ports
  BY ReportingAssumption DEF Token
<1>4. HostMax \in Nat
  BY ReportingAssumption
<1>5. \A host \in Numeric : ":" \notin {host[i] : i \in DOMAIN host}
  BY ReportingAssumption
<1> QED
  BY <1>1, <1>2, <1>3, <1>4, <1>5

(* The scheme is one token. *)
LEMMA Scheme ==
  ASSUME NEW uri \in Text
  PROVE  WithoutScheme(uri) \in Text
<1>1. CASE uri # <<>> /\ Head(uri) = "coap://"
  <2>1. Tail(uri) \in Text
    BY <1>1 DEF Text
  <2> QED
    BY <1>1, <2>1 DEF WithoutScheme
<1>2. CASE ~(uri # <<>> /\ Head(uri) = "coap://")
  BY <1>2 DEF WithoutScheme
<1> QED
  BY <1>1, <1>2

(* The separator is the last colon, if it is not 0. *)
LEMMA SeparatorIsColon ==
  ASSUME NEW text \in Text
  PROVE  PortSep(text) = 0 \/ (PortSep(text) \in DOMAIN text /\ text[PortSep(text)] = ":"
                               /\ \A j \in Colons(text) : j <= PortSep(text))
<1> DEFINE last == {i \in Colons(text) : \A j \in Colons(text) : j <= i}
<1>1. CASE last = {}
  BY <1>1 DEF PortSep
<1>2. CASE last # {}
  <2>1. (CHOOSE i \in last : TRUE) \in last
    BY <1>2
  <2> QED
    BY <2>1 DEF PortSep, Colons
<1> QED
  BY <1>1, <1>2

(* What is kept of an address that is not refused fits. *)
LEMMA ParsedFits ==
  ASSUME NEW uri \in Uris, ~Refused(uri)
  PROVE  Fitting(Parsed(uri))
<1> DEFINE text == WithoutScheme(uri)
           sep == PortSep(text)
<1>1. uri \in Text /\ HostMax \in Nat
  BY TokensOfAddresses
<1>2. text \in Text
  BY <1>1, Scheme
<1>3. sep = 0 \/ (sep \in DOMAIN text /\ sep <= HostMax + 1)
  BY <1>1, <1>2, SeparatorIsColon DEF Refused, Text
<1> HIDE DEF text, sep
<1>4. PortAt(text, sep) \in Ports
  BY TokensOfAddresses DEF PortAt
<1>5. HostBefore(text, sep) \in Text /\ Len(HostBefore(text, sep)) <= HostMax
  <2>1. CASE sep = 0
    <3>1. HostBefore(text, sep) = SubSeq(text, 1, Smaller(Len(text), HostMax))
      BY <2>1 DEF HostBefore
    <3>2. PICK n \in Nat : n = Smaller(Len(text), HostMax) /\ n <= Len(text) /\ n <= HostMax
      BY <1>1, <1>2 DEF Smaller, Text
    <3>3. SubSeq(text, 1, n) \in Text /\ Len(SubSeq(text, 1, n)) = n
      BY <1>2, <3>2 DEF Text
    <3> QED
      BY <3>1, <3>2, <3>3
  <2>2. CASE sep # 0
    <3>1. HostBefore(text, sep) = SubSeq(text, 1, sep - 1)
      BY <2>2 DEF HostBefore
    <3>2. PICK n \in Nat : n = sep - 1 /\ n <= Len(text) /\ n <= HostMax
      BY <1>1, <1>2, <1>3, <2>2 DEF Text
    <3>3. SubSeq(text, 1, n) \in Text /\ Len(SubSeq(text, 1, n)) = n
      BY <1>2, <3>2 DEF Text
    <3> QED
      BY <3>1, <3>2, <3>3
  <2> QED
    BY <2>1, <2>2
<1>6. Parsed(uri) = [host |-> HostBefore(text, sep), port |-> PortAt(text, sep)]
  BY DEF Parsed, text, sep
<1> QED
  BY <1>4, <1>5, <1>6 DEF Fitting, Address

(* The text of an address, behind its scheme: its host, a colon, its port. *)
LEMMA AddressText ==
  ASSUME NEW h \in Address
  PROVE  \E text \in Text :
           /\ WithoutScheme(HubAddress(h)) = text
           /\ Len(text) = Len(h.host) + 2
           /\ text[Len(h.host) + 1] = ":" /\ text[Len(h.host) + 2] = h.port
           /\ \A i \in 1 .. Len(h.host) : text[i] = h.host[i]
<1> DEFINE tail == <<":", h.port>>
           text == h.host \o tail
           uri == <<"coap://">> \o text
           n == Len(h.host)
<1>1. /\ h.host \in Text /\ h.port \in Token
      /\ ":" \in Token /\ "coap://" \in Token
  BY TokensOfAddresses DEF Address
<1>2. tail \in Text /\ Len(tail) = 2 /\ tail[1] = ":" /\ tail[2] = h.port
  BY <1>1 DEF Text
<1>3. <<"coap://">> \in Text
  BY <1>1 DEF Text
<1> HIDE DEF tail
<1>4. /\ h.host \in Seq(Token) /\ tail \in Seq(Token) /\ <<"coap://">> \in Seq(Token)
      /\ Len(h.host) \in Nat
  BY <1>1, <1>2, <1>3 DEF Text
<1>5. /\ text \in Seq(Token) /\ Len(text) = Len(h.host) + Len(tail)
      /\ \A i \in 1 .. Len(h.host) + Len(tail) :
           text[i] = IF i <= Len(h.host) THEN h.host[i] ELSE tail[i - Len(h.host)]
  BY <1>4, ConcatProperties, Zenon
<1>6. uri # <<>> /\ Head(uri) = "coap://" /\ Tail(uri) = text
  <2> HIDE DEF text
  <2> QED
    BY <1>1, <1>5, Tokens, Zenon
<1>7. WithoutScheme(HubAddress(h)) = text
  BY <1>6, Zenon DEF WithoutScheme, HubAddress, tail
<1> HIDE DEF text
<1>8. n \in Nat /\ Len(text) = n + 2 /\ text \in Text
  BY <1>2, <1>4, <1>5 DEF Text
<1>9. text[n + 1] = ":" /\ text[n + 2] = h.port
  BY <1>2, <1>5, <1>8
<1>10. \A i \in 1 .. n : text[i] = h.host[i]
  BY <1>2, <1>5, <1>8
<1> QED
  BY <1>7, <1>8, <1>9, <1>10

(* An address that telemetry takes apart again is the same, or its host is not
   numeric: one with a colon of its own is not, however it is cut. *)
LEMMA ParsedAgain ==
  ASSUME NEW h, Fitting(h), Parsed(HubAddress(h)).host \in Numeric
  PROVE  Parsed(HubAddress(h)) = h
<1>1. PICK text \in Text :
        /\ WithoutScheme(HubAddress(h)) = text
        /\ Len(text) = Len(h.host) + 2
        /\ text[Len(h.host) + 1] = ":" /\ text[Len(h.host) + 2] = h.port
        /\ \A i \in 1 .. Len(h.host) : text[i] = h.host[i]
  BY AddressText DEF Fitting
<1>2. PICK n \in Nat : n = Len(h.host) /\ n <= HostMax
  BY DEF Fitting, Address, Text
<1>3. /\ h = [host |-> h.host, port |-> h.port] /\ h.port \in Ports /\ h.port # ":"
      /\ h.host \in Text /\ HostMax \in Nat
  BY TokensOfAddresses DEF Fitting, Address
<1> DEFINE sep == PortSep(text)
           host == HostBefore(text, sep)
<1>4. Parsed(HubAddress(h)) = [host |-> host, port |-> PortAt(text, sep)]
  BY <1>1 DEF Parsed
<1>5. \A i \in DOMAIN host : host[i] # ":"
  BY <1>4, TokensOfAddresses
<1>6. n + 1 \in Colons(text) /\ \A j \in Colons(text) : j <= n + 1
  BY <1>1, <1>2, <1>3 DEF Colons, Text
<1>7. CASE sep # 0
  <2>1. sep = n + 1
    <3>1. sep \in DOMAIN text /\ text[sep] = ":" /\ \A j \in Colons(text) : j <= sep
      BY <1>7, SeparatorIsColon
    <3> QED
      BY <1>6, <3>1 DEF Colons, Text
  <2>2. PortAt(text, sep) = h.port
    BY <1>1, <1>2, <1>3, <2>1 DEF PortAt, Text
  <2>3. host = SubSeq(text, 1, n)
    BY <2>1 DEF HostBefore
  <2>4. SubSeq(text, 1, n) = h.host
    BY <1>1, <1>2, <1>3 DEF Text
  <2> QED
    BY <1>3, <1>4, <2>2, <2>3, <2>4
<1>8. CASE sep = 0
  <2>1. Cardinality(Colons(text)) > 1
    <3> DEFINE last == {i \in Colons(text) : \A j \in Colons(text) : j <= i}
    <3>1. n + 1 \in last
      BY <1>6
    <3>2. (CHOOSE i \in last : TRUE) \in last /\ \A i \in last : i # 0
      BY <3>1 DEF Colons, Text
    <3> QED
      BY <1>8, <3>1, <3>2 DEF PortSep
  <2>2. PICK i \in Colons(text) : i # n + 1
    <3>1. Colons(text) = {n + 1} => Cardinality(Colons(text)) = 1
      BY FS_Singleton
    <3> QED
      BY <1>6, <2>1, <3>1
  <2>3. i \in 1 .. n /\ text[i] = ":"
    BY <1>1, <1>6, <2>2 DEF Colons, Text
  <2>4. host = SubSeq(text, 1, Smaller(Len(text), HostMax))
    BY <1>8 DEF HostBefore
  <2>5. PICK m \in Nat : m = Smaller(Len(text), HostMax) /\ n <= m /\ m <= Len(text)
    BY <1>1, <1>2, <1>3 DEF Smaller
  <2>6. i \in DOMAIN SubSeq(text, 1, m) /\ SubSeq(text, 1, m)[i] = text[i]
    BY <2>3, <2>5 DEF Text
  <2> QED
    BY <1>5, <2>3, <2>4, <2>5, <2>6
<1> QED
  BY <1>7, <1>8

-----------------------------------------------------------------------------
(* What is set, what is stored and what is owed. *)

HubTypes ==
  /\ s_hub # NULL => Fitting(s_hub)
  /\ stored \in [host : Text \cup {NULL}, port : Ports \cup {NULL}]
  /\ stored.host # NULL => Len(stored.host) <= HostMax

(* Between the two writes the host is already the new one; no write having
   failed, a restart finds both. *)
Owed ==
  owed # NULL =>
    /\ owed \in Address
    /\ doing # "boot" => s_hub = owed
    /\ doing = "store_port" => stored.host = owed.host
    /\ doing \notin Storing => stored = owed

HubInv ==
  /\ HubTypes
  /\ doing \in Storing \cup {"open", "wait"} => Fitting(s_hub)
  /\ doing = "wait" => target = s_hub
  /\ Owed

LEMMA HubKept ==
  ASSUME HubInv, UNCHANGED hub, doing' = doing, target' = target
  PROVE  HubInv'
<1>1. UNCHANGED <<s_hub, stored, owed>>
  BY DEF hub
<1> QED
  BY <1>1 DEF HubInv, HubTypes, Owed

(* A report goes on, or is given up. *)
LEMMA HubLeft ==
  ASSUME HubInv, UNCHANGED hub,
         doing \notin {"boot"} \cup Storing,
         doing' \notin {"boot", "open", "wait"} \cup Storing
  PROVE  HubInv'
<1>1. UNCHANGED <<s_hub, stored, owed>>
  BY DEF hub
<1> QED
  BY <1>1 DEF HubInv, HubTypes, Owed, Storing

LEMMA SetAddressHub ==
  ASSUME HubInv, SetAddress
  PROVE  HubInv'
<1>1. PICK uri \in Uris : ~Refused(uri) /\ s_hub' = Parsed(uri)
  BY DEF SetAddress
<1>2. doing' = "store_host" /\ owed' = s_hub' /\ stored' = stored
  BY DEF SetAddress
<1>3. Fitting(s_hub')
  BY <1>1, ParsedFits
<1> QED
  BY <1>2, <1>3 DEF HubInv, HubTypes, Owed, Storing, Fitting

LEMMA StoreHub ==
  ASSUME HubInv, StoreHost \/ StorePort
  PROVE  HubInv'
<1>1. s_hub \in Address /\ Len(s_hub.host) <= HostMax /\ s_hub' = s_hub
  BY DEF HubInv, StoreHost, StorePort, Store, Storing, Fitting
<1>2. stored \in [host : Text \cup {NULL}, port : Ports \cup {NULL}]
  BY DEF HubInv, HubTypes
<1>3. CASE stored' = stored /\ owed' = NULL
  BY <1>1, <1>3 DEF HubInv, HubTypes, Owed, StoreHost, StorePort, Storing, Fitting
<1>4. CASE StoreHost /\ stored' = [stored EXCEPT !["host"] = s_hub["host"]] /\ owed' = owed
  <2>1. doing = "store_host" /\ doing' = "store_port"
    BY <1>4 DEF StoreHost
  <2>2. /\ stored' \in [host : Text \cup {NULL}, port : Ports \cup {NULL}]
        /\ stored'.host = s_hub.host
    BY <1>1, <1>2, <1>4 DEF Address
  <2> QED
    BY <1>1, <1>4, <2>1, <2>2 DEF HubInv, HubTypes, Owed, Storing, Fitting
<1>5. CASE StorePort /\ stored' = [stored EXCEPT !["port"] = s_hub["port"]] /\ owed' = owed
  <2>1. doing = "store_port" /\ doing' = "boot"
    BY <1>5 DEF StorePort
  <2>2. /\ stored' \in [host : Text \cup {NULL}, port : Ports \cup {NULL}]
        /\ stored'.host = stored.host
        /\ stored.host = s_hub.host => stored' = s_hub
    BY <1>1, <1>2, <1>5 DEF Address
  <2> QED
    BY <1>1, <1>5, <2>1, <2>2 DEF HubInv, HubTypes, Owed, Storing, Fitting
<1> QED
  BY <1>3, <1>4, <1>5 DEF StoreHost, StorePort, Store

LEMMA HeartbeatInitHub ==
  ASSUME HubInv, HeartbeatInit
  PROVE  HubInv'
<1>1. /\ doing = "boot" /\ doing' = "idle"
      /\ s_hub' = IF stored.host = NULL THEN s_hub ELSE Loaded(stored)
      /\ UNCHANGED <<stored, owed>>
  BY DEF HeartbeatInit
<1>2. /\ stored \in [host : Text \cup {NULL}, port : Ports \cup {NULL}]
      /\ stored.host # NULL => Len(stored.host) <= HostMax
      /\ s_hub # NULL => Fitting(s_hub)
  BY DEF HubInv, HubTypes
<1>3. DefaultPort \in Ports /\ NULL \notin Text /\ NULL \notin Ports
  BY TokensOfAddresses
<1>4. stored.host # NULL => Fitting(Loaded(stored))
  BY <1>2, <1>3 DEF Loaded, Fitting, Address
<1>5. s_hub' # NULL => Fitting(s_hub')
  BY <1>1, <1>2, <1>4
<1>6. owed # NULL => s_hub' = owed
  <2> SUFFICES ASSUME owed # NULL PROVE s_hub' = owed
    OBVIOUS
  <2>1. stored = owed /\ stored \in Address
    BY <1>1 DEF HubInv, Owed, Storing
  <2>2. stored.host # NULL /\ stored.port # NULL
    BY <1>3, <2>1 DEF Address
  <2>3. Loaded(stored) = stored
    BY <2>1, <2>2 DEF Loaded, Address
  <2> QED
    BY <1>1, <2>1, <2>2, <2>3
<1> QED
  BY <1>1, <1>5, <1>6 DEF HubInv, HubTypes, Owed, Storing

LEMMA RestartHub ==
  ASSUME HubInv, Restart
  PROVE  HubInv'
<1>1. /\ s_hub' = NULL /\ doing' = "boot" /\ stored' = stored
      /\ owed' = IF doing \in Storing THEN NULL ELSE owed
  BY DEF Restart
<1> QED
  BY <1>1 DEF HubInv, HubTypes, Owed, Storing

LEMMA OpenHub ==
  ASSUME HubInv, Encode \/ Open
  PROVE  HubInv'
<1>1. UNCHANGED <<s_hub, stored, owed>>
  BY DEF Encode, Open, hub
<1>2. CASE Encode
  BY <1>1, <1>2 DEF Encode, HubInv, HubTypes, Owed, Storing
<1>3. CASE Open
  <2>1. doing = "open" /\ doing' = "wait" /\ target' = Target /\ Target.host \in Numeric
    BY <1>3 DEF Open
  <2>2. Fitting(s_hub)
    BY <2>1 DEF HubInv
  <2>3. Target = s_hub
    BY <2>1, <2>2, ParsedAgain DEF Target
  <2> QED
    BY <1>1, <2>1, <2>2, <2>3 DEF HubInv, HubTypes, Owed, Storing
<1> QED
  BY <1>2, <1>3

LEMMA HubStep == HubInv /\ [Next]_vars => HubInv'
<1> SUFFICES ASSUME HubInv, [Next]_vars PROVE HubInv'
  OBVIOUS
<1>1. CASE Restart
  BY <1>1, RestartHub
<1>2. CASE SetAddress
  BY <1>2, SetAddressHub
<1>3. CASE StoreHost \/ StorePort
  BY <1>3, StoreHub
<1>4. CASE HeartbeatInit
  BY <1>4, HeartbeatInitHub
<1>5. CASE BeginHeartbeat \/ BeginPush
  BY <1>5, HubLeft DEF BeginHeartbeat, BeginPush, Begin, Awake, Storing
<1>6. CASE CountSlot \/ Counted \/ FindSlot \/ LoadName \/ LoadValue
  BY <1>6, HubLeft
  DEF CountSlot, Counted, FindSlot, LoadName, LoadValue, Seek, Walk, Storing
<1>7. CASE NotEncoded \/ NotSent \/ SendReturns
  BY <1>7, HubLeft DEF NotEncoded, NotSent, SendReturns, GiveUp, Storing
<1>8. CASE Encode \/ Open
  BY <1>8, OpenHub
<1>9. CASE PollAnswer
  BY <1>9, HubKept DEF PollAnswer
<1>10. CASE RegistryCalls \/ RegistryRuns \/ UNCHANGED vars
  BY <1>10, HubKept DEF RegistryCalls, RegistryRuns, vars, reporter, request
<1> QED
  BY <1>1, <1>2, <1>3, <1>4, <1>5, <1>6, <1>7, <1>8, <1>9, <1>10 DEF Next, Report

(* The invariant of the hub's address holds of every behaviour. *)
THEOREM HubInvariance == Spec => []HubInv
<1>1. Init => HubInv
  BY DEF Init, ReporterInit, HubInv, HubTypes, Owed, Storing
<1> QED
  BY <1>1, HubStep, PTL DEF Spec

(* A report that is on its way goes to the hub that was last set, for any
   addresses: what telemetry takes apart again is the same address, or its host
   is not numeric; and no restart between the writes leaves half of it unless
   one of them failed. *)
THEOREM ReportsReachTheHub == Spec => []ReachesHub
<1>1. HubInv => ReachesHub
  BY DEF HubInv, Owed, ReachesHub
<1> QED
  BY <1>1, HubInvariance, PTL

-----------------------------------------------------------------------------
(* Types. *)

RequestTypes ==
  /\ s_last_pending \in Pending \cup {0}
  /\ remaining \in 0 .. Timeout
  /\ answer \in Answers \cup {NULL}

LEMMA RequestStep == RequestTypes /\ [Next]_vars => RequestTypes'
<1> SUFFICES ASSUME RequestTypes, [Next]_vars PROVE RequestTypes'
  OBVIOUS
<1> USE DEF RequestTypes
<1>1. Timeout \in Nat /\ PollStep \in Nat \ {0}
  BY ReportingAssumption
<1>2. CASE Restart \/ HeartbeatInit
  BY <1>1, <1>2 DEF Restart, HeartbeatInit, Drop, request
<1>3. CASE SetAddress \/ StoreHost \/ StorePort
  BY <1>3 DEF SetAddress, StoreHost, StorePort, Store, request, pending
<1>4. CASE BeginHeartbeat \/ BeginPush
  BY <1>4 DEF BeginHeartbeat, BeginPush, Begin, request, pending
<1>5. CASE CountSlot \/ Counted \/ FindSlot \/ LoadName \/ LoadValue
  BY <1>5 DEF CountSlot, Counted, FindSlot, LoadName, LoadValue, Walk, request, pending
<1>6. CASE NotEncoded \/ NotSent
  BY <1>1, <1>6 DEF NotEncoded, NotSent, GiveUp, Drop, pending
<1>7. CASE Encode
  BY <1>7 DEF Encode, request, pending
<1>8. CASE Open
  BY <1>1, <1>8 DEF Open, pending
<1>9. CASE PollAnswer
  <2>1. answer' \in Answers \cup {NULL} /\ remaining' = remaining - Step /\ s_last_pending' = s_last_pending
    BY <1>9 DEF PollAnswer
  <2>2. remaining' \in 0 .. Timeout
    BY <1>1, <2>1 DEF Step, Smaller
  <2> QED
    BY <2>1, <2>2
<1>10. CASE SendReturns
  <2>1. Drop /\ s_last_pending' \in {Says(answer), 0, s_last_pending}
    BY <1>10 DEF SendReturns, GiveUp
  <2>2. Says(answer) \in Pending \cup {0}
    BY DEF Says
  <2> QED
    BY <1>1, <2>1, <2>2 DEF Drop
<1>11. CASE RegistryCalls \/ RegistryRuns \/ UNCHANGED vars
  BY <1>11 DEF RegistryCalls, RegistryRuns, vars, reporter, request, pending
<1> QED
  BY <1>2, <1>3, <1>4, <1>5, <1>6, <1>7, <1>8, <1>9, <1>10, <1>11 DEF Next, Report

(* Every variable keeps its type, among them: a walk stays within the slots, a
   report has no more readings than were counted, and the host fits its buffer. *)
THEOREM ReportingTypes == Spec => []TypeOK
<1>1. Init => RequestTypes
  BY ReportingAssumption DEF Init, ReporterInit, RequestTypes
<1>2. ASSUME WalkInv PROVE
        /\ scan.at \in 1 .. MaxSensors + 1
        /\ doing \in {"find", "name", "value"} => scan.at \in Slots
        /\ scan.passed \in 0 .. scan.at - 1
        /\ scan.index \in 0 .. scan.limit
        /\ scan.limit \in 0 .. MaxSensors
        /\ Len(report) <= scan.limit
  <2>1. /\ scan.at \in Nat \ {0} /\ scan.passed \in Nat /\ scan.index \in Nat /\ scan.limit \in Nat
        /\ scan.index <= scan.limit /\ scan.limit <= MaxSensors /\ MaxSensors \in Nat
        /\ Len(report) \in Nat /\ Len(report) <= scan.index
    BY <1>2, NowhereType DEF WalkInv, WalkTypes, Scan
  <2>2. CASE doing \in {"find", "name", "value"}
    BY <1>2, <2>1, <2>2 DEF WalkInv, FindInv, Slots
  <2>3. CASE doing = "count"
    BY <1>2, <2>1, <2>3 DEF WalkInv, CountInv
  <2>4. CASE doing \in {"encode", "open", "wait"}
    BY <1>2, <2>1, <2>4 DEF WalkInv, SentInv
  <2>5. CASE doing \in {"boot", "idle"} \cup Storing
    BY <1>2, <2>1, <2>5, NowhereType DEF WalkInv, RestInv, Storing
  <2> QED
    BY <1>2, <2>2, <2>3, <2>4, <2>5 DEF WalkInv, WalkTypes, Reading
<1>3. RegistryInv /\ WalkInv /\ HubInv /\ RequestTypes => TypeOK
  BY <1>2
  DEF RegistryInv, WalkInv, WalkTypes, HubInv, HubTypes, Fitting, Address, RequestTypes, TypeOK
<1> QED
  BY <1>1, <1>3, RequestStep, RegistryInvariance, ReportingIsRegistry, WalkInvariance,
     HubInvariance, PTL DEF Spec
=============================================================================
