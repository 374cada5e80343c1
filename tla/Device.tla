------------------------------- MODULE Device ---------------------------------
(***************************************************************************)
(* The life of a device: tw_device_run (svc_device.c) with the heartbeat,  *)
(* telemetry and power services it schedules.  An always-on device loops   *)
(* over tick, heartbeat, telemetry and poll; one with deep sleep makes one *)
(* pass, listens for a while and sleeps.                                   *)
(*                                                                         *)
(* Time is in milliseconds and relative: due[x] is what is left until the  *)
(* deadline x (negative: it is late by so much), since is the time since   *)
(* the loop read the clock or, with deep sleep, since on_wake returned.    *)
(* Every call that blocks takes any time up to the bound its code gives.   *)
(***************************************************************************)
EXTENDS Integers

CONSTANTS
  TickIntervals,       \* values of cfg->tick_interval_ms
  FallbackTick,        \* listen window poll when tick_interval_ms is 0
  PollMin, PollMax,    \* bounds of one poll
  HeartbeatInterval,   \* CONFIG_TW_HEARTBEAT_INTERVAL_S
  HeartbeatOnBoot,     \* CONFIG_TW_HEARTBEAT_ON_BOOT
  Dedicated,           \* CONFIG_TW_SENSOR_PUSH_DEDICATED
  PushInterval,        \* CONFIG_TW_SENSOR_PUSH_INTERVAL_S
  MaxPushInterval,     \* the 3600 s the hub's advice is clamped to
  Advice,              \* intervals the hub may advise (0: none)
  WindowFull,          \* CONFIG_TW_SLEEP_LISTEN_WINDOW_S
  WindowIdle,          \* CONFIG_TW_SLEEP_LISTEN_WINDOW_IDLE_S
  ExtendOnCmd,         \* CONFIG_TW_SLEEP_LISTEN_EXTEND_ON_CMD
  SendTimeout,         \* longest blocking send
  InitWork, TickWork, HandlerWork,  \* longest on_init, tick, handler
  IntMax               \* INT_MAX: the wait is an int

ASSUME DeviceAssumption ==
  /\ TickIntervals \subseteq Nat
  /\ {FallbackTick, HeartbeatInterval, PushInterval, WindowFull, WindowIdle,
      SendTimeout, InitWork, TickWork, HandlerWork, IntMax} \subseteq Nat
  /\ PollMin \in Nat \ {0}
  /\ PollMax \in Nat
  /\ PollMin <= PollMax
  /\ MaxPushInterval \in Nat
  /\ PushInterval <= MaxPushInterval
  /\ Advice \subseteq Nat
  /\ WindowIdle <= WindowFull
  /\ {HeartbeatOnBoot, Dedicated, ExtendOnCmd} \subseteq BOOLEAN

VARIABLES
  pc,
  tick_interval_ms,
  s_sleep_enabled,
  s_shutdown,
  s_last_pending,   \* commands the hub holds, by the last answered heartbeat
  s_interval,       \* of telemetry
  due,
  since,
  start, window     \* of the listen window; start is a value of since

vars == <<pc, tick_interval_ms, s_sleep_enabled, s_shutdown, s_last_pending,
          s_interval, due, since, start, window>>

config == <<tick_interval_ms, s_sleep_enabled>>
listening == <<start, window>>

(* A device that does not push telemetry has no deadline for it. *)
Deadlines == {"tick", "heartbeat"} \cup IF Dedicated THEN {"push"} ELSE {}

Returned == {"stopped", "failed"}
Cycle == {"sample", "cycle_heartbeat", "cycle_push", "open_window", "listen",
          "listen_poll", "sleep"}
Loop == {"loop", "tick", "heartbeat", "push", "poll"}

TypeOK ==
  /\ pc \in {"start", "boot_heartbeat", "on_init"} \cup Loop \cup Cycle \cup Returned
  /\ tick_interval_ms \in TickIntervals
  /\ s_sleep_enabled \in BOOLEAN
  /\ s_shutdown \in BOOLEAN
  /\ s_last_pending \in {0, 1}
  /\ s_interval \in 0 .. MaxPushInterval
  /\ due \in [Deadlines -> Int]
  /\ since \in Nat
  /\ start \in Nat
  /\ window \in Nat
  /\ pc \in Loop => ~s_sleep_enabled
  /\ pc \in Cycle => s_sleep_enabled

-----------------------------------------------------------------------------
(* Time.                                                                   *)

Smaller(x, y) == IF x < y THEN x ELSE y

Later(d) == [x \in Deadlines |-> due[x] - d]

Elapse(d) ==
  /\ due' = Later(d)
  /\ since' = since + d

(* Time passes, and deadline x is set to what is left of delay. *)
ElapseAndSet(d, x, delay) ==
  /\ due' = [Later(d) EXCEPT ![x] = delay]
  /\ since' = since + d

-----------------------------------------------------------------------------
(* Sends.  The hub may not answer, or the device may have no hub address: the
   send fails and what was known of the hub's commands stays.              *)

(* How long a send blocks: not at all when it cannot start, else until the
   answer comes or its time is up. *)
Sending == 0 .. SendTimeout

HeartbeatSent == s_last_pending' \in {0, 1}

Advised(reply) == IF reply > 0 THEN Smaller(reply, MaxPushInterval) ELSE s_interval

(* Telemetry that is not sent or not answered advises nothing. *)
PushSent == \E reply \in Advice \cup {0} : s_interval' = Advised(reply)

-----------------------------------------------------------------------------
(* Start.                                                                  *)

(* The statics after a restart and what the init functions give them. *)
Start ==
  /\ pc = "start"
  /\ s_shutdown' = FALSE
  /\ \/ pc' = IF HeartbeatOnBoot THEN "boot_heartbeat" ELSE "on_init"
     \/ pc' = "failed"      \* the protocol cannot be opened
  /\ s_last_pending' = 0
  /\ s_interval' = PushInterval
  /\ due' = [x \in Deadlines |-> IF x = "push" THEN PushInterval ELSE 0]
  /\ since' = 0
  /\ start' = 0
  /\ window' = 0
  /\ UNCHANGED config

BootHeartbeat ==
  /\ pc = "boot_heartbeat"
  /\ HeartbeatSent
  /\ \E d \in Sending : Elapse(d)
  /\ pc' = "on_init"
  /\ UNCHANGED <<config, s_shutdown, s_interval, listening>>

OnInit ==
  /\ pc = "on_init"
  /\ \E d \in 0 .. InitWork :
       IF s_sleep_enabled
         THEN Elapse(d)
         ELSE /\ since' = since + d
              /\ due' = [Later(d) EXCEPT !["tick"] = 0, !["heartbeat"] = HeartbeatInterval]
  /\ \/ pc' = IF s_sleep_enabled THEN "sample" ELSE "loop"
     \/ pc' = "failed"      \* on_init returned an error
  /\ UNCHANGED <<config, s_shutdown, s_last_pending, s_interval, listening>>

(* A reboot a handler or the reset button asks for. *)
Restart ==
  /\ pc' = "start"
  /\ s_shutdown' = FALSE
  /\ UNCHANGED <<config, s_last_pending, s_interval, due, since, listening>>

-----------------------------------------------------------------------------
(* The always-on loop.                                                     *)

(* Mutant: the loop does not look at the request to stop. *)
EnterAlways ==
  /\ pc = "loop"
  /\ since' = 0
  /\ pc' = IF due["tick"] <= 0 THEN "tick" ELSE "heartbeat"
  /\ UNCHANGED <<config, s_shutdown, s_last_pending, s_interval, due, listening>>

Enter ==
  /\ pc = "loop"
  /\ ~s_shutdown
  /\ since' = 0
  /\ pc' = IF due["tick"] <= 0 THEN "tick" ELSE "heartbeat"
  /\ UNCHANGED <<config, s_shutdown, s_last_pending, s_interval, due, listening>>

Leave ==
  /\ pc = "loop"
  /\ s_shutdown
  /\ pc' = "stopped"
  /\ UNCHANGED <<config, s_shutdown, s_last_pending, s_interval, due, since, listening>>

(* The next tick is counted from when the loop read the clock. *)
Tick ==
  /\ pc = "tick"
  /\ \E d \in 0 .. TickWork : ElapseAndSet(d, "tick", tick_interval_ms - (since + d))
  /\ pc' = "heartbeat"
  /\ UNCHANGED <<config, s_shutdown, s_last_pending, s_interval, listening>>

ResetButton == pc = "tick" /\ Restart

(* Compared with the clock as the loop read it. *)
HeartbeatDue == due["heartbeat"] + since <= 0

HeartbeatSkipped ==
  /\ pc = "heartbeat"
  /\ ~HeartbeatDue
  /\ pc' = "push"
  /\ UNCHANGED <<config, s_shutdown, s_last_pending, s_interval, due, since, listening>>

HeartbeatTimely ==
  /\ pc = "heartbeat"
  /\ HeartbeatDue
  /\ HeartbeatSent
  /\ \E d \in Sending :
       ElapseAndSet(d, "heartbeat", HeartbeatInterval - (since + d))
  /\ pc' = "push"
  /\ UNCHANGED <<config, s_shutdown, s_interval, listening>>

(* Compared with the clock as it is. *)
PushDue == Dedicated /\ due["push"] <= 0

PushSkipped ==
  /\ pc = "push"
  /\ ~PushDue
  /\ pc' = "poll"
  /\ UNCHANGED <<config, s_shutdown, s_last_pending, s_interval, due, since, listening>>

PushTimely ==
  /\ pc = "push"
  /\ PushDue
  /\ PushSent
  /\ \E d \in Sending : ElapseAndSet(d, "push", s_interval')
  /\ pc' = "poll"
  /\ UNCHANGED <<config, s_shutdown, s_last_pending, listening>>

(* Mutant: no upper bound. *)
WaitUncapped(left) == IF left < PollMin \/ left > IntMax THEN PollMin ELSE left

(* Mutant: no lower bound. *)
WaitUnraised(left) == IF left < 0 \/ left > IntMax THEN 0 ELSE Smaller(left, PollMax)

(* How long to poll when left remains until the next tick: clamped to PollMin
   and PollMax, after a conversion to int that makes a value beyond IntMax
   negative. *)
Wait(left) ==
  IF left < PollMin \/ left > IntMax THEN PollMin ELSE Smaller(left, PollMax)

(* Nothing arrives: the poll takes all of its time. *)
PollIdle ==
  /\ pc = "poll"
  /\ Elapse(Wait(due["tick"]))
  /\ pc' = "loop"
  /\ UNCHANGED <<config, s_shutdown, s_last_pending, s_interval, listening>>

(* A packet ends the poll, with or without a handler. *)
PollServes ==
  /\ pc = "poll"
  /\ \E d \in 0 .. Wait(due["tick"]) + HandlerWork : Elapse(d)
  /\ pc' = "loop"
  /\ UNCHANGED <<config, s_shutdown, s_last_pending, s_interval, listening>>

PollReboots == pc = "poll" /\ Restart

-----------------------------------------------------------------------------
(* One cycle of a device that sleeps.                                      *)

Sample ==
  /\ pc = "sample"
  /\ \E d \in 0 .. TickWork : Elapse(d)
  /\ pc' = "cycle_heartbeat"
  /\ UNCHANGED <<config, s_shutdown, s_last_pending, s_interval, listening>>

CycleHeartbeat ==
  /\ pc = "cycle_heartbeat"
  /\ HeartbeatSent
  /\ \E d \in Sending : Elapse(d)
  /\ pc' = "cycle_push"
  /\ UNCHANGED <<config, s_shutdown, s_interval, listening>>

CyclePush ==
  /\ pc = "cycle_push"
  /\ IF Dedicated
       THEN /\ PushSent
            /\ \E d \in Sending : Elapse(d)
       ELSE UNCHANGED <<s_interval, due, since>>
  /\ pc' = "open_window"
  /\ UNCHANGED <<config, s_shutdown, s_last_pending, listening>>

OpenWindow ==
  /\ pc = "open_window"
  /\ window' = IF s_last_pending > 0 THEN WindowFull ELSE WindowIdle
  /\ start' = since
  /\ pc' = IF window' = 0 THEN "sleep" ELSE "listen"
  /\ UNCHANGED <<config, s_shutdown, s_last_pending, s_interval, due, since>>

(* Mutant: a tick interval of 0 polls for no time. *)
ListenWaitPlain == Smaller(tick_interval_ms, PollMax)

ListenWait == Smaller(IF tick_interval_ms = 0 THEN FallbackTick ELSE tick_interval_ms, PollMax)

Listening == pc = "listen" /\ since - start < window

(* Nothing under src/ calls svc_power_notify_cmd_received, so no request extends
   the window, whatever TW_SLEEP_LISTEN_EXTEND_ON_CMD says. *)
CmdReceived == FALSE

(* Mutant: every poll extends the window. *)
ExtendedAlways == start' = since'

Extended == start' = IF ExtendOnCmd /\ CmdReceived THEN since' ELSE start

ListenTick ==
  /\ Listening
  /\ \E d \in 0 .. TickWork : Elapse(d)
  /\ pc' = "listen_poll"
  /\ UNCHANGED <<config, s_shutdown, s_last_pending, s_interval, listening>>

(* Nothing arrives. *)
ListenIdle ==
  /\ pc = "listen_poll"
  /\ Elapse(ListenWait)
  /\ Extended
  /\ pc' = "listen"
  /\ UNCHANGED <<config, s_shutdown, s_last_pending, s_interval, window>>

(* A request is served, which ends the poll. *)
ListenServes ==
  /\ pc = "listen_poll"
  /\ \E d \in 0 .. ListenWait + HandlerWork : Elapse(d)
  /\ Extended
  /\ pc' = "listen"
  /\ UNCHANGED <<config, s_shutdown, s_last_pending, s_interval, window>>

ListenReboots == pc = "listen_poll" /\ Restart

CloseWindow ==
  /\ pc = "listen"
  /\ ~Listening
  /\ pc' = "sleep"
  /\ UNCHANGED <<config, s_shutdown, s_last_pending, s_interval, due, since, listening>>

(* Waking is a restart. *)
Sleep == pc = "sleep" /\ Restart

-----------------------------------------------------------------------------
(* Another thread, a callback or a handler calls tw_device_request_shutdown. *)
RequestShutdown ==
  /\ pc \notin Returned
  /\ s_shutdown' = TRUE
  /\ UNCHANGED <<pc, config, s_last_pending, s_interval, due, since, listening>>

Init ==
  /\ pc = "start"
  /\ tick_interval_ms \in TickIntervals
  /\ s_sleep_enabled \in BOOLEAN
  /\ s_shutdown = FALSE
  /\ s_last_pending = 0
  /\ s_interval = PushInterval
  /\ due = [x \in Deadlines |-> 0]
  /\ since = 0
  /\ start = 0
  /\ window = 0

LoopStep ==
  \/ Enter \/ Leave
  \/ Tick \/ ResetButton
  \/ HeartbeatSkipped \/ HeartbeatTimely
  \/ PushSkipped \/ PushTimely
  \/ PollIdle \/ PollServes \/ PollReboots

CycleStep ==
  \/ Sample \/ CycleHeartbeat \/ CyclePush
  \/ OpenWindow \/ ListenTick \/ ListenIdle \/ ListenServes \/ ListenReboots \/ CloseWindow
  \/ Sleep

Step == Start \/ BootHeartbeat \/ OnInit \/ LoopStep \/ CycleStep

Next == Step \/ RequestShutdown

Spec == Init /\ [][Next]_vars

(* The device keeps running, and it is not busy with packets for ever: every
   now and then a poll takes all of its time. *)
FairSpec ==
  /\ Spec
  /\ WF_vars(Step)
  /\ SF_vars(PollIdle)
  /\ SF_vars(ListenIdle)

-----------------------------------------------------------------------------
(* Properties.                                                             *)

(* The longest an iteration of the loop takes. *)
Pass == TickWork + 2 * SendTimeout + PollMax + HandlerWork

(* When the loop looks at its deadlines, a heartbeat is late by at most one
   iteration, whatever the tick interval, a telemetry push by one iteration or
   by an on_init that took longer, and a tick is not delayed by the poll before
   it beyond its minimum: the poll is bounded by POLL_MAX_MS and by the time to
   the next tick (tw_device_run). *)
DeadlinesKept ==
  pc = "loop" =>
    /\ due["heartbeat"] >= -Pass
    /\ due["tick"] >= -(Pass - PollMax + PollMin)
    /\ Dedicated => due["push"] >= -Pass \/ due["push"] >= -(SendTimeout + InitWork)

(* Awake until the listen window opens, and altogether. *)
BeforeWindow == 3 * SendTimeout + InitWork + TickWork
MaxAwake == BeforeWindow + WindowFull + TickWork + PollMax + HandlerWork

(* A device that sleeps is awake at most for its sends, its callbacks and one
   full window, whatever the hub sends while it listens: the battery life the
   cycle is for (svc_power_listen_window). *)
AwakeBounded == s_sleep_enabled => since <= MaxAwake

(* An always-on device keeps sending heartbeats unless it stops or restarts:
   also when it ticks without a pause, a poll takes time, so the next heartbeat
   comes (POLL_MIN_MS in tw_device_run). *)
KeepsReporting ==
  pc = "loop" ~> \/ pc = "heartbeat" /\ HeartbeatDue
                 \/ pc \in Returned \cup {"start"}

(* A request to stop that reaches a running loop ends it, unless the device
   restarts first (the while condition of tw_device_run). *)
ShutdownHonoured ==
  pc \in Loop /\ s_shutdown ~> pc \in Returned \cup {"start"}

(* A device that woke goes back to sleep, or restarts, however many requests it
   serves while it listens (svc_power_listen_window). *)
GoesToSleep == pc = "sample" ~> pc \in {"sleep", "start"}

=============================================================================
