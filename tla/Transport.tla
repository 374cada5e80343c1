------------------------------- MODULE Transport -------------------------------
(***************************************************************************)
(* The network link below the protocol (transport/src): one of five        *)
(* implementations of tw_transport_init, deinit and connected, chosen when *)
(* the firmware is built.                                                  *)
(*                                                                         *)
(* WiFi, Ethernet and BLE learn of the link from events that ESP-IDF       *)
(* queues and a task of its own delivers in order, while tw_transport_init *)
(* waits in the caller's thread.  Thread has a worker task that samples    *)
(* the role of the node.  The flag s_connected is written by both sides,   *)
(* without a lock, so each write is a step.                                *)
(*                                                                         *)
(* "linked" is a link without an address, "up" one that carries traffic    *)
(* (for BLE: a peer; for Thread: at least the child role).                 *)
(***************************************************************************)
EXTENDS Naturals, Sequences

CONSTANTS
  Kinds,        \* the builds considered
  MaxRetry,     \* MAX_RETRY
  MaxEvents     \* bound: events queued before the driver reports another

ASSUME TransportAssumption ==
  /\ Kinds \subseteq {"wifi", "eth", "thread", "ble", "posix"}
  /\ MaxRetry \in Nat
  /\ MaxEvents \in Nat

VARIABLES
  kind,           \* which of the five was built
  configured,     \* credentials in NVS or Kconfig; for Ethernet, a PHY
  pc,             \* where the caller of init and deinit is
  s_connected,
  s_retry_count,
  bits,           \* the event group init waits on
  s_running,      \* Thread: the worker may go on
  task,           \* Thread: where the worker is
  role,           \* Thread: the role it has read and not yet stored
  radio,          \* the driver is started
  link,           \* what the driver knows of the link
  events,         \* events not yet delivered
  fallback,       \* history: s_connected stands on the static address
  tries           \* history: attempts to associate since the last address

caller == <<pc, bits>>
flags == <<s_connected, fallback>>
worker == <<s_running, task, role>>
driver == <<radio, link, events>>
build == <<kind, configured>>
vars == <<build, caller, flags, s_retry_count, worker, driver, tries>>

Evented == {"wifi", "eth", "ble"}

(* gatts_event_handler and event_handler tell these apart *)
Events == {"start", "lost", "gotip"}

TypeOK ==
  /\ kind \in Kinds
  /\ configured \in BOOLEAN
  /\ pc \in {"down", "waiting", "fallback", "up", "failed", "closing", "closed"}
  /\ s_connected \in BOOLEAN
  /\ s_retry_count \in 0..MaxRetry
  /\ bits \subseteq {"connected", "fail"}
  /\ s_running \in BOOLEAN
  /\ task \in {"none", "start", "loop", "assign", "gone"}
  /\ role \in BOOLEAN
  /\ radio \in BOOLEAN
  /\ link \in {"down", "trying", "linked", "up"}
  /\ events \in Seq(Events)
  /\ fallback \in BOOLEAN
  /\ tries \in Nat

Initial ==
  /\ pc = "down"
  /\ s_connected = FALSE
  /\ s_retry_count = 0
  /\ bits = {}
  /\ s_running = FALSE
  /\ task = "none"
  /\ role = FALSE
  /\ radio = FALSE
  /\ link = "down"
  /\ events = <<>>
  /\ fallback = FALSE
  /\ tries = 0

Init == kind \in Kinds /\ configured \in BOOLEAN /\ Initial

(* tw_transport_connected *)
Connected == kind = "posix" \/ s_connected

-----------------------------------------------------------------------------
(* tw_transport_init, up to the wait.                                      *)

(* Nothing to join: TW_ERR_NOT_READY, the handlers stay registered. *)
NotReady ==
  /\ ~configured
  /\ pc' = "failed"
  /\ UNCHANGED <<build, bits, flags, s_retry_count, worker, driver, tries>>

StartDriver(posted) ==
  /\ configured
  /\ pc' = "waiting"
  /\ bits' = {}
  /\ radio' = TRUE
  /\ events' = events \o posted
  /\ UNCHANGED <<build, flags, s_retry_count, worker, link, tries>>

WifiInit == kind = "wifi" /\ pc = "down" /\ (NotReady \/ StartDriver(<<"start">>))

EthInit == kind = "eth" /\ pc = "down" /\ (NotReady \/ StartDriver(<<>>))

ThreadInit ==
  /\ kind = "thread"
  /\ pc = "down"
  /\ pc' = "waiting"
  /\ s_running' = TRUE
  /\ task' = "start"
  /\ UNCHANGED <<build, bits, flags, s_retry_count, role, driver, tries>>

(* BLE and POSIX wait for nothing. *)
BleInit ==
  /\ kind = "ble"
  /\ pc \in {"down", "closed"}
  /\ pc' = "up"
  /\ radio' = TRUE
  /\ UNCHANGED <<build, bits, flags, s_retry_count, worker, link, events, tries>>

PosixInit ==
  /\ kind = "posix"
  /\ pc \in {"down", "closed"}
  /\ pc' = "up"
  /\ UNCHANGED <<build, bits, flags, s_retry_count, worker, driver, tries>>

(* A second init on ESP-IDF: the default event loop exists, ESP_ERROR_CHECK
   aborts, and the device restarts. *)
InitAgain ==
  /\ kind \in {"wifi", "eth", "thread"}
  /\ pc \in {"failed", "closed"}
  /\ pc' = "down"
  /\ s_connected' = FALSE
  /\ s_retry_count' = 0
  /\ bits' = {}
  /\ s_running' = FALSE
  /\ task' = "none"
  /\ role' = FALSE
  /\ radio' = FALSE
  /\ link' = "down"
  /\ events' = <<>>
  /\ fallback' = FALSE
  /\ tries' = 0
  /\ UNCHANGED build

-----------------------------------------------------------------------------
(* The wait in init.                                                       *)

Return(place) ==
  /\ pc' = place
  /\ UNCHANGED <<build, bits, flags, s_retry_count, worker, driver, tries>>

(* Mutant: portMAX_DELAY in place of the time-out. *)
BitsOnly == bits # {} /\ Return(IF "connected" \in bits THEN "up" ELSE "fallback")

(* xEventGroupWaitBits returns the bits it was woken by, or none. *)
BitsOrTimeout == Return(IF "connected" \in bits THEN "up" ELSE "fallback")

(* No address in time: the static one is set and the link called connected,
   whatever its state; or there is no interface to set it on. *)
StaticAddress ==
  \/ /\ pc' = "up"
     /\ s_connected' = TRUE
     /\ fallback' = TRUE
     /\ UNCHANGED <<build, bits, s_retry_count, worker, driver, tries>>
  \/ Return("failed")

WifiWait == kind = "wifi" /\ pc = "waiting" /\ BitsOrTimeout
WifiFallback == kind = "wifi" /\ pc = "fallback" /\ StaticAddress
EthWait == kind = "eth" /\ pc = "waiting" /\ BitsOrTimeout
EthFallback == kind = "eth" /\ pc = "fallback" /\ StaticAddress

(* A flag that is set is seen within one step of the wait, one that is not
   may be set for too late. *)
ThreadWait ==
  /\ kind = "thread"
  /\ pc = "waiting"
  /\ Return(IF s_connected THEN "up" ELSE "failed")

-----------------------------------------------------------------------------
(* Event delivery.                                                         *)

Deliver(event) ==
  /\ events # <<>>
  /\ Head(events) = event
  /\ events' = Tail(events)

SetConnected(value) == s_connected' = value /\ fallback' = FALSE

(* esp_wifi_connect *)
Connect ==
  /\ link' = IF radio /\ link = "down" THEN "trying" ELSE link
  /\ tries' = IF radio /\ link = "down" THEN tries + 1 ELSE tries

WifiStart ==
  /\ Deliver("start")
  /\ Connect
  /\ UNCHANGED <<build, caller, flags, s_retry_count, worker, radio>>

(* Mutant: the counter is not advanced. *)
WifiLostForgetful ==
  /\ Deliver("lost")
  /\ SetConnected(FALSE)
  /\ Connect
  /\ UNCHANGED <<build, caller, s_retry_count, worker, radio>>

WifiLost ==
  /\ Deliver("lost")
  /\ SetConnected(FALSE)
  /\ \/ /\ s_retry_count < MaxRetry
        /\ Connect
        /\ s_retry_count' = s_retry_count + 1
        /\ UNCHANGED bits
     \/ /\ s_retry_count = MaxRetry
        /\ bits' = bits \cup {"fail"}
        /\ UNCHANGED <<s_retry_count, link, tries>>
  /\ UNCHANGED <<build, pc, worker, radio>>

WifiGotIp ==
  /\ Deliver("gotip")
  /\ SetConnected(TRUE)
  /\ s_retry_count' = 0
  /\ tries' = 0
  /\ bits' = bits \cup {"connected"}
  /\ UNCHANGED <<build, pc, worker, radio, link>>

WifiEvent == kind = "wifi" /\ (WifiStart \/ WifiLost \/ WifiGotIp)

(* Mutant: a lost link is only logged. *)
EthEventLogOnly ==
  /\ kind = "eth"
  /\ \/ Deliver("gotip") /\ SetConnected(TRUE) /\ bits' = bits \cup {"connected"}
     \/ Deliver("lost") /\ UNCHANGED flags /\ bits' = bits \cup {"fail"}
  /\ UNCHANGED <<build, pc, s_retry_count, worker, radio, link, tries>>

EthEvent ==
  /\ kind = "eth"
  /\ \/ Deliver("gotip") /\ SetConnected(TRUE) /\ bits' = bits \cup {"connected"}
     \/ Deliver("lost") /\ SetConnected(FALSE) /\ bits' = bits \cup {"fail"}
  /\ UNCHANGED <<build, pc, s_retry_count, worker, radio, link, tries>>

(* A peer connects or leaves. *)
BleEvent ==
  /\ kind = "ble"
  /\ \/ Deliver("gotip") /\ SetConnected(TRUE)
     \/ Deliver("lost") /\ SetConnected(FALSE)
  /\ UNCHANGED <<build, caller, s_retry_count, worker, radio, link, tries>>

-----------------------------------------------------------------------------
(* The worker of Thread.                                                   *)

TaskStart ==
  /\ task = "start"
  /\ task' = IF configured THEN "loop" ELSE "gone"
  /\ radio' = configured
  /\ UNCHANGED <<build, caller, flags, s_retry_count, s_running, role, link, events, tries>>

(* while (s_running): the role is read ... *)
TaskTest ==
  /\ task = "loop"
  /\ task' = IF s_running THEN "assign" ELSE "gone"
  /\ role' = IF s_running THEN link = "up" ELSE role
  /\ UNCHANGED <<build, caller, flags, s_retry_count, s_running, driver, tries>>

(* Mutant: the worker only ever sets the flag. *)
TaskAssignSticky ==
  /\ task = "assign"
  /\ task' = "loop"
  /\ s_connected' = (role \/ s_connected)
  /\ UNCHANGED <<build, caller, fallback, s_retry_count, s_running, role, driver, tries>>

(* ... and stored, whatever happened to s_running in between. *)
TaskAssign ==
  /\ task = "assign"
  /\ task' = "loop"
  /\ s_connected' = role
  /\ UNCHANGED <<build, caller, fallback, s_retry_count, s_running, role, driver, tries>>

-----------------------------------------------------------------------------
(* tw_transport_deinit.                                                    *)

Close ==
  /\ pc' = "closing"
  /\ UNCHANGED <<build, bits, flags, s_retry_count, tries>>

(* A station that is associated reports that it no longer is. *)
WifiDeinit ==
  /\ kind = "wifi"
  /\ pc \in {"up", "failed"}
  /\ radio' = FALSE
  /\ link' = "down"
  /\ events' = IF link \in {"linked", "up"} THEN Append(events, "lost") ELSE events
  /\ Close
  /\ UNCHANGED worker

(* The driver is left running. *)
EthDeinit == kind = "eth" /\ pc \in {"up", "failed"} /\ Close /\ UNCHANGED <<worker, driver>>

ThreadDeinit ==
  /\ kind = "thread"
  /\ pc \in {"up", "failed"}
  /\ s_running' = FALSE
  /\ Close
  /\ UNCHANGED <<task, role, driver>>

(* The stack is gone, and what it had queued with it. *)
BleDeinit ==
  /\ kind = "ble"
  /\ pc = "up"
  /\ radio' = FALSE
  /\ link' = "down"
  /\ events' = <<>>
  /\ Close
  /\ UNCHANGED worker

(* s_connected = false *)
ClearConnected ==
  /\ pc = "closing"
  /\ pc' = "closed"
  /\ SetConnected(FALSE)
  /\ UNCHANGED <<build, bits, s_retry_count, worker, driver, tries>>

PosixDeinit == kind = "posix" /\ pc = "up" /\ Return("closed")

-----------------------------------------------------------------------------
(* The driver and the network.                                             *)

Becomes(state, posted) ==
  /\ Len(events) < MaxEvents
  /\ link' = state
  /\ events' = events \o posted
  /\ UNCHANGED <<build, caller, flags, s_retry_count, worker, radio, tries>>

Associate ==
  /\ radio
  /\ \/ kind = "wifi" /\ link = "trying"
     \/ kind = "eth" /\ link = "down"
  /\ Becomes("linked", <<>>)

AssociateFails == radio /\ kind = "wifi" /\ link = "trying" /\ Becomes("down", <<"lost">>)

Address == radio /\ kind \in {"wifi", "eth"} /\ link = "linked" /\ Becomes("up", <<"gotip">>)

Attach ==
  /\ radio
  /\ link = "down"
  /\ \/ kind = "ble" /\ Becomes("up", <<"gotip">>)
     \/ kind = "thread" /\ Becomes("up", <<>>)

LinkLost ==
  /\ radio
  /\ link \in {"linked", "up"}
  /\ Becomes("down", IF kind \in Evented THEN <<"lost">> ELSE <<>>)

-----------------------------------------------------------------------------
Caller == WifiWait \/ WifiFallback \/ EthWait \/ EthFallback \/ ThreadWait
Delivery == WifiEvent \/ EthEvent \/ BleEvent
Worker == TaskStart \/ TaskTest \/ TaskAssign
Environment == Associate \/ AssociateFails \/ Address \/ Attach \/ LinkLost

Next ==
  \/ WifiInit \/ EthInit \/ ThreadInit \/ BleInit \/ PosixInit \/ InitAgain
  \/ Caller
  \/ Delivery
  \/ Worker
  \/ WifiDeinit \/ EthDeinit \/ ThreadDeinit \/ BleDeinit \/ PosixDeinit
  \/ ClearConnected
  \/ Environment

(* The wait has a time-out, FreeRTOS runs the event loop and the worker, and
   deinit is straight-line code.  The network owes nothing. *)
Fairness ==
  /\ WF_vars(Caller)
  /\ WF_vars(Delivery)
  /\ WF_vars(Worker)
  /\ WF_vars(ClearConnected)

Spec == Init /\ [][Next]_vars /\ Fairness

-----------------------------------------------------------------------------
(* Properties.                                                             *)

(* The queued events that say something of the link. *)
Telling == {i \in DOMAIN events : events[i] # "start"}

(* What s_connected will be when every queued event was delivered. *)
Settled ==
  \/ Telling = {} /\ s_connected
  \/ \E i \in Telling : events[i] = "gotip" /\ \A j \in Telling : j <= i

(* Once the queued events are delivered, tw_transport_connected (WiFi, Ethernet,
   BLE) is true only of a link that carries traffic or of the static address,
   and, until deinit, true of every link that does.  BLE tears its stack down
   just before deinit clears the flag. *)
SettlesToLink ==
  kind \in Evented =>
    /\ Settled => \/ link = "up"
                  \/ fallback /\ Telling = {}
                  \/ kind = "ble" /\ pc = "closing"
    /\ link = "up" /\ pc \notin {"closing", "closed"} => Settled

(* A WiFi station that gets no address tries to associate at most once and
   MAX_RETRY times more (event_handler), however its attempts fail and whatever
   init and deinit do meanwhile. *)
RetriesBounded == kind = "wifi" => tries <= MaxRetry + 1

(* tw_transport_init returns, though no address, no link and no event come. *)
InitReturns == pc \in {"waiting", "fallback"} ~> pc \notin {"waiting", "fallback"}

(* A link that is lost and stays lost is not called connected for ever, but
   for the static address, and for a Thread worker that was told to stop. *)
LossIsNoticed ==
  (s_connected /\ link # "up") ~>
     (~s_connected \/ link = "up" \/ fallback \/ (kind = "thread" /\ ~s_running))
=============================================================================
