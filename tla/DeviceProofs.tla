---------------------------- MODULE DeviceProofs ------------------------------
(* What holds of a device whatever its intervals, windows and timeouts: its
   deadlines are kept and its time awake is bounded; and the progress of an
   update that is asked for in its loop is a percentage. *)
EXTENDS Device, OtaProgress, TLAPS

(* Where an iteration of the loop stands: how long it has taken, and that what
   has been served already is not late by more than that. *)
LoopProgress ==
  /\ pc \in {"boot_heartbeat", "on_init"} => \A x \in Deadlines : due[x] >= -since
  /\ pc = "tick" => since = 0
  /\ pc = "heartbeat" =>
       /\ since <= TickWork
       /\ due["tick"] >= -since
  /\ pc = "push" =>
       /\ since <= TickWork + SendTimeout
       /\ \A x \in {"tick", "heartbeat"} : due[x] >= -since
  /\ pc = "poll" =>
       /\ since <= TickWork + 2 * SendTimeout
       /\ \A x \in Deadlines : due[x] >= -since

(* How long a device has been awake at each point of its cycle. *)
CycleProgress ==
  /\ pc = "boot_heartbeat" => since = 0
  /\ pc = "on_init" => since <= SendTimeout
  /\ pc = "sample" => since <= SendTimeout + InitWork
  /\ pc = "cycle_heartbeat" => since <= SendTimeout + InitWork + TickWork
  /\ pc = "cycle_push" => since <= 2 * SendTimeout + InitWork + TickWork
  /\ pc = "open_window" => since <= BeforeWindow
  /\ pc \in {"listen", "listen_poll"} => start <= BeforeWindow /\ window <= WindowFull
  /\ pc = "listen_poll" => since - start <= window + TickWork

IInv ==
  /\ TypeOK
  /\ LoopProgress
  /\ CycleProgress
  /\ DeadlinesKept
  /\ AwakeBounded

-----------------------------------------------------------------------------
(* Time. *)

LEMMA Constants ==
  /\ FallbackTick \in Nat /\ HeartbeatInterval \in Nat /\ PushInterval \in Nat
  /\ WindowFull \in Nat /\ WindowIdle \in Nat /\ SendTimeout \in Nat
  /\ InitWork \in Nat /\ TickWork \in Nat /\ HandlerWork \in Nat /\ IntMax \in Nat
  /\ PollMin \in Nat /\ PollMax \in Nat /\ PollMin <= PollMax
  /\ WindowIdle <= WindowFull
  /\ MaxPushInterval \in Nat /\ PushInterval <= MaxPushInterval
  /\ Advice \subseteq Nat
  /\ TickIntervals \subseteq Nat
BY DeviceAssumption

LEMMA ElapseLemma ==
  ASSUME TypeOK, NEW d \in Nat, Elapse(d)
  PROVE  /\ due' \in [Deadlines -> Int]
         /\ since' \in Nat
         /\ since' = since + d
         /\ \A x \in Deadlines : due'[x] = due[x] - d
BY DEF TypeOK, Elapse, Later

LEMMA ElapseAndSetLemma ==
  ASSUME TypeOK, NEW d \in Nat, NEW y \in Deadlines, NEW delay \in Int,
         ElapseAndSet(d, y, delay)
  PROVE  /\ due' \in [Deadlines -> Int]
         /\ since' \in Nat
         /\ since' = since + d
         /\ due'[y] = delay
         /\ \A x \in Deadlines \ {y} : due'[x] = due[x] - d
BY DEF TypeOK, ElapseAndSet, Later

(* The poll takes time, and no more of it than there is. *)
LEMMA WaitLemma ==
  ASSUME NEW left \in Int
  PROVE  /\ Wait(left) \in Nat
         /\ Wait(left) <= PollMax
         /\ Wait(left) <= PollMin \/ Wait(left) <= left
BY Constants DEF Wait, Smaller

LEMMA ListenWaitLemma ==
  ASSUME TypeOK
  PROVE  ListenWait \in Nat /\ ListenWait <= PollMax
BY Constants DEF ListenWait, Smaller, TypeOK

LEMMA AdvisedLemma ==
  ASSUME TypeOK, PushSent
  PROVE  s_interval' \in 0 .. MaxPushInterval
<1>1. PICK reply \in Advice \cup {0} : s_interval' = Advised(reply)
  BY DEF PushSent
<1>2. reply \in Nat
  BY Constants
<1> QED
  BY <1>1, <1>2, Constants DEF Advised, Smaller, TypeOK

-----------------------------------------------------------------------------
(* The inductive invariant. *)

LEMMA InitIInv == Init => IInv
<1> SUFFICES ASSUME Init PROVE IInv
  OBVIOUS
<1> USE Constants
<1>1. TypeOK
  <2>1. due \in [Deadlines -> Int]
    BY DEF Init
  <2>2. s_interval \in 0 .. MaxPushInterval
    BY DEF Init
  <2> QED
    BY <2>1, <2>2 DEF Init, TypeOK, Loop, Cycle
<1>2. LoopProgress /\ CycleProgress /\ DeadlinesKept
  BY DEF Init, LoopProgress, CycleProgress, DeadlinesKept
<1>3. AwakeBounded
  BY DEF Init, AwakeBounded, MaxAwake, BeforeWindow
<1> QED
  BY <1>1, <1>2, <1>3 DEF IInv

LEMMA StepIInv == IInv /\ [Next]_vars => IInv'
<1> SUFFICES ASSUME IInv, [Next]_vars PROVE IInv'
  OBVIOUS
<1> USE Constants
<1>0. TypeOK
  BY DEF IInv
<1> USE DEF IInv, TypeOK, LoopProgress, CycleProgress, DeadlinesKept, AwakeBounded,
            Pass, MaxAwake, BeforeWindow, Deadlines, Loop, Cycle, Returned, config, listening
<1>1. CASE Start
  <2>1. due' \in [Deadlines -> Int]
    BY <1>1 DEF Start
  <2>2. s_interval' \in 0 .. MaxPushInterval
    BY <1>1 DEF Start
  <2>3. /\ since' = 0 /\ start' = 0 /\ window' = 0 /\ s_last_pending' = 0
        /\ s_shutdown' = FALSE
        /\ pc' \in {"boot_heartbeat", "on_init", "failed"}
        /\ \A x \in Deadlines : due'[x] >= 0
        /\ tick_interval_ms' = tick_interval_ms
        /\ s_sleep_enabled' = s_sleep_enabled
    BY <1>1 DEF Start, config
  <2>4. TypeOK'
    BY <1>0, <2>1, <2>2, <2>3 DEF TypeOK, Loop, Cycle, Returned
  <2>5. LoopProgress' /\ CycleProgress' /\ DeadlinesKept'
    BY <2>1, <2>3 DEF LoopProgress, CycleProgress, DeadlinesKept
  <2>6. AwakeBounded'
    BY <2>3 DEF AwakeBounded, MaxAwake, BeforeWindow
  <2> QED
    BY <2>4, <2>5, <2>6 DEF IInv
<1>2. CASE BootHeartbeat
  <2>1. PICK d \in 0 .. SendTimeout : Elapse(d)
    BY <1>2 DEF BootHeartbeat, Sending
  <2>2. due' \in [Deadlines -> Int] /\ since' \in Nat /\ since' = since + d
    BY <2>1, <1>0, ElapseLemma, WaitLemma, ListenWaitLemma DEF TypeOK, Deadlines
  <2>3. \A x \in Deadlines : due'[x] = due[x] - d
    BY <2>1, <1>0, ElapseLemma, WaitLemma, ListenWaitLemma DEF TypeOK, Deadlines
  <2> QED
    BY <1>2, <2>2, <2>3 DEF BootHeartbeat, HeartbeatSent
<1>3. CASE OnInit
  <2>1. CASE s_sleep_enabled
    <3>1. PICK d \in 0 .. InitWork : Elapse(d)
      BY <1>3, <2>1 DEF OnInit
    <3>2. due' \in [Deadlines -> Int] /\ since' \in Nat /\ since' = since + d
      BY <3>1, <1>0, ElapseLemma
    <3> QED
      BY <1>3, <2>1, <3>2 DEF OnInit
  <2>2. CASE ~s_sleep_enabled
    <3>1. PICK d \in 0 .. InitWork :
            /\ since' = since + d
            /\ due' = [Later(d) EXCEPT !["tick"] = 0, !["heartbeat"] = HeartbeatInterval]
      BY <1>3, <2>2 DEF OnInit
    <3>2. since' \in Nat
      BY <3>1, <1>0 DEF TypeOK
    <3>3. Later(d) \in [Deadlines -> Int]
      BY <1>0 DEF TypeOK, Later
    <3>4. due' \in [Deadlines -> Int]
      <4>1. [Later(d) EXCEPT !["tick"] = 0] \in [Deadlines -> Int]
        BY <3>3
      <4>2. HeartbeatInterval \in Int
        OBVIOUS
      <4> QED
        BY <3>1, <4>1, <4>2
    <3>5. due'["tick"] = 0 /\ due'["heartbeat"] = HeartbeatInterval
      BY <3>1, <3>3 DEF Deadlines
    <3>6. Dedicated => due'["push"] = due["push"] - d
      BY <3>1 DEF Deadlines, Later
    <3> QED
      BY <1>3, <2>2, <3>1, <3>2, <3>4, <3>5, <3>6 DEF OnInit
  <2> QED
    BY <2>1, <2>2
<1>4. CASE Enter
  BY <1>4 DEF Enter
<1>5. CASE Leave
  BY <1>5 DEF Leave
<1>6. CASE Tick
  <2>1. PICK d \in 0 .. TickWork : ElapseAndSet(d, "tick", tick_interval_ms - (since + d))
    BY <1>6 DEF Tick
  <2>2. due' \in [Deadlines -> Int] /\ since' \in Nat /\ since' = since + d /\ due'["tick"] = tick_interval_ms - (since + d)
    BY <2>1, <1>0, ElapseAndSetLemma DEF TypeOK, Deadlines
  <2>3. \A x \in Deadlines \ {"tick"} : due'[x] = due[x] - d
    BY <2>1, <1>0, ElapseAndSetLemma DEF TypeOK, Deadlines
  <2> QED
    BY <1>6, <2>2, <2>3 DEF Tick
<1>7. CASE ResetButton
  BY <1>7 DEF ResetButton, Restart
<1>8. CASE HeartbeatSkipped
  BY <1>8 DEF HeartbeatSkipped, HeartbeatDue
<1>9. CASE HeartbeatTimely
  <2>1. PICK d \in 0 .. SendTimeout : ElapseAndSet(d, "heartbeat", HeartbeatInterval - (since + d))
    BY <1>9 DEF HeartbeatTimely, Sending
  <2>2. due' \in [Deadlines -> Int] /\ since' \in Nat /\ since' = since + d /\ due'["heartbeat"] = HeartbeatInterval - (since + d)
    BY <2>1, <1>0, ElapseAndSetLemma DEF TypeOK, Deadlines
  <2>3. \A x \in Deadlines \ {"heartbeat"} : due'[x] = due[x] - d
    BY <2>1, <1>0, ElapseAndSetLemma DEF TypeOK, Deadlines
  <2> QED
    BY <1>9, <2>2, <2>3 DEF HeartbeatTimely, HeartbeatSent
<1>10. CASE PushSkipped
  BY <1>10 DEF PushSkipped, PushDue
<1>11. CASE PushTimely
  <2>1. PICK d \in 0 .. SendTimeout : ElapseAndSet(d, "push", s_interval')
    BY <1>11 DEF PushTimely, Sending
  <2>2. s_interval' \in 0 .. MaxPushInterval /\ "push" \in Deadlines
    BY <1>11, <1>0, AdvisedLemma DEF PushTimely, PushDue, Deadlines
  <2>3. due' \in [Deadlines -> Int] /\ since' \in Nat /\ since' = since + d /\ due'["push"] = s_interval'
    BY <2>1, <2>2, <1>0, ElapseAndSetLemma DEF TypeOK
  <2>4. \A x \in Deadlines \ {"push"} : due'[x] = due[x] - d
    BY <2>1, <2>2, <1>0, ElapseAndSetLemma DEF TypeOK
  <2> QED
    BY <1>11, <2>2, <2>3, <2>4 DEF PushTimely
<1>12. CASE PollIdle
  <2>0. /\ Wait(due["tick"]) \in Nat
        /\ Wait(due["tick"]) <= PollMax
        /\ Wait(due["tick"]) <= PollMin \/ Wait(due["tick"]) <= due["tick"]
    BY <1>0, WaitLemma DEF TypeOK, Deadlines
  <2>1. PICK d \in 0 .. Wait(due["tick"]) + HandlerWork : Elapse(d)
    BY <1>12, <2>0 DEF PollIdle
  <2>2. due' \in [Deadlines -> Int] /\ since' \in Nat /\ since' = since + d
    BY <2>0, <2>1, <1>0, ElapseLemma
  <2>3. \A x \in Deadlines : due'[x] = due[x] - d
    BY <2>0, <2>1, <1>0, ElapseLemma
  <2> QED
    BY <1>12, <2>0, <2>2, <2>3 DEF PollIdle
<1>13. CASE PollServes
  <2>0. /\ Wait(due["tick"]) \in Nat
        /\ Wait(due["tick"]) <= PollMax
        /\ Wait(due["tick"]) <= PollMin \/ Wait(due["tick"]) <= due["tick"]
    BY <1>0, WaitLemma DEF TypeOK, Deadlines
  <2>1. PICK d \in 0 .. Wait(due["tick"]) + HandlerWork : Elapse(d)
    BY <1>13, <2>0 DEF PollServes
  <2>2. due' \in [Deadlines -> Int] /\ since' \in Nat /\ since' = since + d
    BY <2>0, <2>1, <1>0, ElapseLemma
  <2>3. \A x \in Deadlines : due'[x] = due[x] - d
    BY <2>0, <2>1, <1>0, ElapseLemma
  <2> QED
    BY <1>13, <2>0, <2>2, <2>3 DEF PollServes
<1>14. CASE PollReboots
  BY <1>14 DEF PollReboots, Restart
<1>15. CASE Sample
  <2>1. PICK d \in 0 .. TickWork : Elapse(d)
    BY <1>15 DEF Sample
  <2>2. due' \in [Deadlines -> Int] /\ since' \in Nat /\ since' = since + d
    BY <2>1, <1>0, ElapseLemma, WaitLemma, ListenWaitLemma DEF TypeOK, Deadlines
  <2>3. \A x \in Deadlines : due'[x] = due[x] - d
    BY <2>1, <1>0, ElapseLemma, WaitLemma, ListenWaitLemma DEF TypeOK, Deadlines
  <2> QED
    BY <1>15, <2>2, <2>3 DEF Sample
<1>16. CASE CycleHeartbeat
  <2>1. PICK d \in 0 .. SendTimeout : Elapse(d)
    BY <1>16 DEF CycleHeartbeat, Sending
  <2>2. due' \in [Deadlines -> Int] /\ since' \in Nat /\ since' = since + d
    BY <2>1, <1>0, ElapseLemma, WaitLemma, ListenWaitLemma DEF TypeOK, Deadlines
  <2>3. \A x \in Deadlines : due'[x] = due[x] - d
    BY <2>1, <1>0, ElapseLemma, WaitLemma, ListenWaitLemma DEF TypeOK, Deadlines
  <2> QED
    BY <1>16, <2>2, <2>3 DEF CycleHeartbeat, HeartbeatSent
<1>17. CASE CyclePush
  <2>1. CASE Dedicated
    <3>1. PICK d \in 0 .. SendTimeout : Elapse(d)
      BY <1>17, <2>1 DEF CyclePush, Sending
    <3>2. s_interval' \in 0 .. MaxPushInterval
      BY <1>17, <2>1, <1>0, AdvisedLemma DEF CyclePush
    <3>3. due' \in [Deadlines -> Int] /\ since' \in Nat /\ since' = since + d
      BY <3>1, <1>0, ElapseLemma
    <3> QED
      BY <1>17, <3>2, <3>3 DEF CyclePush
  <2>2. CASE ~Dedicated
    BY <1>17, <2>2 DEF CyclePush
  <2> QED
    BY <2>1, <2>2
<1>18. CASE OpenWindow
  BY <1>18 DEF OpenWindow
<1>19. CASE ListenTick
  <2>1. PICK d \in 0 .. TickWork : Elapse(d)
    BY <1>19 DEF ListenTick
  <2>2. due' \in [Deadlines -> Int] /\ since' \in Nat /\ since' = since + d
    BY <2>1, <1>0, ElapseLemma, WaitLemma, ListenWaitLemma DEF TypeOK, Deadlines
  <2>3. \A x \in Deadlines : due'[x] = due[x] - d
    BY <2>1, <1>0, ElapseLemma, WaitLemma, ListenWaitLemma DEF TypeOK, Deadlines
  <2> QED
    BY <1>19, <2>2, <2>3 DEF ListenTick, Listening
<1>20. CASE ListenIdle
  <2>0. ListenWait \in Nat /\ ListenWait <= PollMax
    BY <1>0, ListenWaitLemma
  <2>1. PICK d \in 0 .. ListenWait + HandlerWork : Elapse(d)
    BY <1>20, <2>0 DEF ListenIdle
  <2>2. due' \in [Deadlines -> Int] /\ since' \in Nat /\ since' = since + d
    BY <2>0, <2>1, <1>0, ElapseLemma
  <2> QED
    BY <1>20, <2>0, <2>2 DEF ListenIdle, Extended, CmdReceived
<1>21. CASE ListenServes
  <2>0. ListenWait \in Nat /\ ListenWait <= PollMax
    BY <1>0, ListenWaitLemma
  <2>1. PICK d \in 0 .. ListenWait + HandlerWork : Elapse(d)
    BY <1>21, <2>0 DEF ListenServes
  <2>2. due' \in [Deadlines -> Int] /\ since' \in Nat /\ since' = since + d
    BY <2>0, <2>1, <1>0, ElapseLemma
  <2> QED
    BY <1>21, <2>0, <2>2 DEF ListenServes, Extended, CmdReceived
<1>22. CASE ListenReboots
  BY <1>22 DEF ListenReboots, Restart
<1>23. CASE CloseWindow
  BY <1>23 DEF CloseWindow, Listening
<1>24. CASE Sleep
  BY <1>24 DEF Sleep, Restart
<1>25. CASE RequestShutdown
  BY <1>25 DEF RequestShutdown
<1>26. CASE UNCHANGED vars
  BY <1>26 DEF vars
<1> QED
  BY <1>1, <1>2, <1>3, <1>4, <1>5, <1>6, <1>7, <1>8, <1>9, <1>10, <1>11, <1>12, <1>13, <1>14, <1>15, <1>16, <1>17, <1>18, <1>19, <1>20, <1>21, <1>22, <1>23, <1>24, <1>25, <1>26 DEF Next, Step, LoopStep, CycleStep

(* The invariant holds of every behaviour. *)
THEOREM Invariance == Spec => []IInv
BY InitIInv, StepIInv, PTL DEF Spec

(* The variables keep their types, the telemetry interval its clamp. *)
THEOREM TypeCorrect == Spec => []TypeOK
BY Invariance, PTL DEF IInv

(* No deadline of the loop is missed by more than an iteration (for telemetry,
   or the on_init before it), for every interval, timeout and poll bound. *)
THEOREM DeadlinesAreKept == Spec => []DeadlinesKept
BY Invariance, PTL DEF IInv

(* A sleeping device's time awake is bounded for every window and timeout. *)
THEOREM AwakeIsBounded == Spec => []AwakeBounded
BY Invariance, PTL DEF IInv

-----------------------------------------------------------------------------
(* tw_ota_progress_pct, called from the main loop.                         *)

(* A count that does not exceed a size of fewer than 100 * (q + 1) units is
   less than a hundred times q + 1. *)
LEMMA PctBound ==
  ASSUME NEW r \in Nat, NEW e \in Nat, r <= e
  PROVE  Pct(r, e) \in 0 .. 100
<1> DEFINE q == e \div 100
<1>1. q \in Nat /\ e < 100 * (q + 1)
  OBVIOUS
<1> HIDE DEF q
<1>2. \A d \in Nat \ {0} : r < 100 * d => r \div d \in 0 .. 99
  OBVIOUS
<1>3. q + 1 \in Nat \ {0} /\ r < 100 * (q + 1)
  BY <1>1
<1>4. r \div (q + 1) \in 0 .. 99
  BY <1>2, <1>3
<1>5. QED
  BY <1>4 DEF Pct, q

(* Progress reported from the main loop is a percentage. *)
THEOREM SerialProgress ==
  ASSUME ~Threaded
  PROVE  ProgressSpec => []ProgressInRange
<1>1. ProgressInit => PInv
  BY DEF ProgressInit, PInv, ProgressTypeOK, CountFits, ReaderAlone, ProgressInRange
<1>2. PInv /\ [ProgressNext]_progress => PInv'
  <2> SUFFICES ASSUME PInv, [ProgressNext]_progress
               PROVE  PInv'
    OBVIOUS
  <2> USE DEF PInv
  <2>1. CASE HandlerStep
    <3>1. reader = "idle" /\ reader' = reader /\ pct' = pct
      BY <2>1 DEF HandlerStep, HandlerMayRun, ProgressTypeOK, ClearSize, DecodeSize,
          OpenSlot, EnterReceiving, ResetReceived, Block
    <3>2. ProgressTypeOK' /\ CountFits'
      <4>1. CASE ClearSize \/ OpenSlot \/ EnterReceiving \/ ResetReceived
        BY <3>1, <4>1
        DEF ProgressTypeOK, CountFits, ClearSize, OpenSlot, EnterReceiving, ResetReceived
      <4>2. CASE DecodeSize
        BY <3>1, <4>2, ProgressAssumption DEF ProgressTypeOK, CountFits, DecodeSize
      <4>3. CASE \E len \in Lens : Block(len)
        <5>1. PICK len \in Lens : Block(len)
          BY <4>3
        <5>2. len \in Nat
          BY ProgressAssumption
        <5>3. QED
          BY <3>1, <5>1, <5>2 DEF ProgressTypeOK, CountFits, Block
      <4>4. QED
        BY <2>1, <4>1, <4>2, <4>3 DEF HandlerStep
    <3>3. QED
      BY <3>1, <3>2 DEF ReaderAlone, ProgressInRange
  <2>2. CASE ReadGuard
    BY <2>2 DEF ReadGuard, MayRead, ProgressTypeOK, CountFits, ReaderAlone, ProgressInRange
  <2>3. CASE ReadDivide
    <3>1. pct' \in 0 .. 100
      BY <2>3, PctBound DEF ReadDivide, ReaderAlone, CountFits, ProgressTypeOK
    <3>2. QED
      BY <2>3, <3>1 DEF ReadDivide, ProgressTypeOK, CountFits, ReaderAlone, ProgressInRange
  <2>4. CASE UNCHANGED progress
    BY <2>4 DEF progress, ProgressTypeOK, CountFits, ReaderAlone, ProgressInRange
  <2>5. QED
    BY <2>1, <2>2, <2>3, <2>4 DEF ProgressNext
<1>3. PInv => ProgressInRange
  BY DEF PInv
<1>4. QED
  BY <1>1, <1>2, <1>3, PTL DEF ProgressSpec
=============================================================================
