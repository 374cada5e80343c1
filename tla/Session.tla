-------------------------------- MODULE Session ---------------------------------
(***************************************************************************)
(* One run of svc_provision_run (svc_provision.c), from its start to the   *)
(* restart of the device, by each of its bearers: GATT writes that the     *)
(* Bluetooth task handles while the main task waits, CoAP requests over    *)
(* SoftAP or the LAN, the environment variables of a POSIX host, or the    *)
(* application's own on_provision.                                         *)
(*                                                                         *)
(* What apply_provisioning writes, and power loss between its writes, is   *)
(* Provision's; here a handler stages, applies and answers, a step each.   *)
(* Of the staged values only the UUID is kept, which is decoded in place.  *)
(***************************************************************************)
EXTENDS Naturals, Sequences

CONSTANTS
  Builds,        \* the bearers considered, each with its wire format
  Texts,         \* kvtext messages, as far as they differ here
  MaxQueue       \* bound: messages waiting before a peer sends another

Bearers == {"ble", "softap", "lan", "env", "hook"}
Cmds == {"", "start", "commit", "reset"}

(* A UUID that is absent or too short is "", one that is not hexadecimal to
   its end is "bad". *)
Spellings == {"", "A", "B", "bad"}
Text == [cmd : Cmds, uuid : Spellings]
Silent == [cmd |-> "", uuid |-> ""]

ASSUME SessionAssumption ==
  /\ Builds \subseteq [bearer : Bearers, wire : {"protobuf", "kvtext"}]
  /\ Texts \subseteq Text
  /\ MaxQueue \in Nat

VARIABLES
  build,
  main,                 \* where the main task is
  handler,              \* what the handler that runs does next; "none" runs
  queue,                \* messages for whichever task handles them, in order
  cmd, uuid, uuid_set,  \* of s_prov
  s_prov_done,
  s_handle_config_val,  \* the handle is known
  asked,                \* GATT and GAP requests the stack has not answered
  listed,               \* the stack has the config characteristic
  adv,                  \* advertising
  peer,                 \* a peer is connected
  applied,              \* history: the UUID that was applied
  failed                \* history: the server could not be opened

s_prov == <<cmd, uuid, uuid_set>>
stack == <<asked, listed, adv, peer>>
session == <<build, main, handler, queue, s_prov, s_prov_done, s_handle_config_val,
          stack, applied, failed>>

Ble == build.bearer = "ble"
Coap == build.bearer \in {"softap", "lan"}

Paths == {"factory", "hub", "set", "info", "other"}
Request == [path : Paths, method : {"GET", "POST"}, text : Text]

Answers == {"register", "adv_data", "create", "config", "status"}
Events == Answers \cup {"connect", "disconnect", "write", "disable"}
Event == [event : Events, text : Text]
Of(event) == [event |-> event, text |-> Silent]

SessionTypeOK ==
  /\ build \in Builds
  /\ main \in {"start", "wait", "disable", "leave", "on", "off"}
  /\ handler \in {"none", "store", "apply", "answer", "reboot"}
  /\ queue \in Seq(Request \cup Event)
  /\ cmd \in {"", "start", "commit"}
  /\ uuid \in {"zero", "A", "B", "torn"}
  /\ uuid_set \in BOOLEAN
  /\ s_prov_done \in BOOLEAN
  /\ s_handle_config_val \in BOOLEAN
  /\ asked \subseteq Answers
  /\ listed \in BOOLEAN
  /\ adv \in {"off", "on", "failed"}
  /\ peer \in BOOLEAN
  /\ applied \in {"none", "A", "B", "torn"}
  /\ failed \in BOOLEAN

Fresh ==
  /\ main = "start"
  /\ handler = "none"
  /\ queue = <<>>
  /\ cmd = ""
  /\ uuid = "zero"
  /\ uuid_set = FALSE
  /\ s_prov_done = FALSE
  /\ s_handle_config_val = FALSE
  /\ asked = {}
  /\ listed = FALSE
  /\ adv = "off"
  /\ peer = FALSE
  /\ applied = "none"
  /\ failed = FALSE

SessionInit == build \in Builds /\ Fresh

-----------------------------------------------------------------------------
(* s_prov.                                                                 *)

(* Mutant: a malformed UUID leaves an earlier one marked as given. *)
DecodedSticky(text) ==
  IF text.uuid = "" THEN <<uuid, uuid_set>>
  ELSE IF text.uuid = "bad" THEN <<"torn", uuid_set>>
  ELSE <<text.uuid, TRUE>>

(* hex_decode stops at the first character that is not a digit, with the
   bytes before it overwritten. *)
Decoded(text) ==
  IF text.uuid = "" THEN <<uuid, uuid_set>>
  ELSE IF text.uuid = "bad" THEN <<"torn", FALSE>>
  ELSE <<text.uuid, TRUE>>

Stage(values) == uuid' = values[1] /\ uuid_set' = values[2]

(* Mutant: a reset reopens a session that is over. *)
ResetReopens ==
  /\ cmd' = ""
  /\ uuid' = "zero"
  /\ uuid_set' = FALSE
  /\ s_prov_done' = FALSE

Reset ==
  /\ cmd' = ""
  /\ uuid' = "zero"
  /\ uuid_set' = FALSE
  /\ UNCHANGED s_prov_done

(* A command is kept until another is given, so that every message after a
   commit commits again. *)
Merged(text) == IF text.cmd = "" THEN cmd ELSE text.cmd

(* prov_visitor over the message, and what the command asks for *)
Hear(text) ==
  \/ /\ Merged(text) = "reset"
     /\ Reset
     /\ handler' = "answer"
  \/ /\ Merged(text) # "reset"
     /\ cmd' = Merged(text)
     /\ Stage(Decoded(text))
     /\ handler' = IF Merged(text) = "commit" THEN "apply" ELSE "answer"
     /\ UNCHANGED s_prov_done

(* apply_provisioning.  s_prov_done is set before the peer is answered. *)
Apply ==
  /\ handler = "apply"
  /\ applied' = IF uuid_set THEN uuid ELSE applied
  /\ handler' = IF build.bearer = "env" THEN "none" ELSE "answer"
  /\ s_prov_done' = (build.bearer # "env")
  /\ main' = IF build.bearer = "env" THEN "on" ELSE main
  /\ UNCHANGED <<build, queue, s_prov, s_handle_config_val, stack, failed>>

(* prov_on_factory and prov_on_hub write, and leave the session open. *)
Store ==
  /\ handler = "store"
  /\ handler' = "answer"
  /\ UNCHANGED <<build, main, queue, s_prov, s_prov_done, s_handle_config_val, stack,
                 applied, failed>>

Answer ==
  /\ handler = "answer"
  /\ handler' = "none"
  /\ UNCHANGED <<build, main, queue, s_prov, s_prov_done, s_handle_config_val, stack,
                 applied, failed>>

-----------------------------------------------------------------------------
(* svc_provision_run, up to its loop.                                      *)

OnProvision ==
  /\ build.bearer = "hook"
  /\ main = "start"
  /\ main' = "leave"
  /\ UNCHANGED <<build, handler, queue, s_prov, s_prov_done, s_handle_config_val, stack,
                 applied, failed>>

(* TW_UUID, then TW_HUB_UUID over it; without network credentials the host
   is only warned. *)
RunEnvironment ==
  /\ build.bearer = "env"
  /\ main = "start"
  /\ main' = "wait"
  /\ \E own, hub \in Spellings :
       Stage(IF hub = "" THEN Decoded([Silent EXCEPT !.uuid = own])
                         ELSE Decoded([Silent EXCEPT !.uuid = hub]))
  /\ handler' = "apply"
  /\ UNCHANGED <<build, queue, cmd, s_prov_done, s_handle_config_val, stack, applied, failed>>

RunBle ==
  /\ Ble
  /\ main = "start"
  /\ main' = "wait"
  /\ asked' = {"register"}
  /\ UNCHANGED <<build, handler, queue, s_prov, s_prov_done, s_handle_config_val, listed,
                 adv, peer, applied, failed>>

(* coap_init_fn: a context and a bound port, or an error that ends the run. *)
OpenServer ==
  /\ Coap
  /\ main = "start"
  /\ \/ main' = "wait" /\ UNCHANGED failed
     \/ main' = "leave" /\ failed' = TRUE
  /\ UNCHANGED <<build, handler, queue, s_prov, s_prov_done, s_handle_config_val, stack,
                 applied>>

-----------------------------------------------------------------------------
(* CoAP: a poll hands requests to their handlers, in the main task.        *)

(* s_prov_resources, lan_resources *)
Resources ==
  {<<"set", "POST">>, <<"info", "GET">>}
    \cup IF build.wire = "protobuf" THEN {<<"factory", "POST">>, <<"hub", "POST">>} ELSE {}

(* find_resource, for the path and the method of the request *)
Routed(request) == <<request.path, request.method>> \in Resources

(* 4.04, a payload that is empty or does not decode, a locked factory; and
   info, which only reads. *)
JustAnswer == handler' = "answer" /\ UNCHANGED <<s_prov, s_prov_done>>

PollServes ==
  /\ Coap
  /\ main = "wait"
  /\ handler = "none"
  /\ queue # <<>>
  /\ LET request == Head(queue)
     IN  \/ JustAnswer
         \/ /\ Routed(request)
            /\ request.path \in {"factory", "hub"}
            /\ handler' = "store"
            /\ UNCHANGED <<s_prov, s_prov_done>>
         \/ /\ Routed(request)
            /\ request.path = "set"
            /\ IF build.wire = "protobuf"
                 THEN handler' = "apply" /\ UNCHANGED <<s_prov, s_prov_done>>
                 ELSE Hear(request.text)
  /\ queue' = Tail(queue)
  /\ UNCHANGED <<build, main, s_handle_config_val, stack, applied, failed>>

(* A companion on the network. *)
Send ==
  /\ Coap
  /\ main = "wait"
  /\ Len(queue) < MaxQueue
  /\ \E request \in Request :
       /\ request.text \in (IF build.wire = "kvtext" /\ request.path = "set"
                            THEN Texts ELSE {Silent})
       /\ queue' = Append(queue, request)
  /\ UNCHANGED <<build, main, handler, s_prov, s_prov_done, s_handle_config_val, stack,
                 applied, failed>>

-----------------------------------------------------------------------------
(* BLE: the Bluetooth task runs the callbacks, one at a time, in order.    *)

BtTask(event) ==
  /\ Ble
  /\ main \in {"wait", "disable"}
  /\ handler = "none"
  /\ queue # <<>>
  /\ Head(queue).event = event

(* The service is created and the advertising data set side by side. *)
OnRegister ==
  /\ BtTask("register")
  /\ asked' = asked \cup {"adv_data", "create"}
  /\ queue' = Tail(queue)
  /\ UNCHANGED <<build, main, handler, s_prov, s_prov_done, s_handle_config_val, listed, adv,
                 peer, applied, failed>>

OnCreate ==
  /\ BtTask("create")
  /\ asked' = asked \cup {"config"}
  /\ queue' = Tail(queue)
  /\ UNCHANGED <<build, main, handler, s_prov, s_prov_done, s_handle_config_val, listed, adv,
                 peer, applied, failed>>

(* Mutant: the handle is taken from the last characteristic added. *)
OnAddCharLast ==
  /\ \/ /\ BtTask("config")
        /\ asked' = asked \cup {"status"}
        /\ UNCHANGED s_handle_config_val
     \/ /\ BtTask("status")
        /\ s_handle_config_val' = TRUE
        /\ UNCHANGED asked
  /\ queue' = Tail(queue)
  /\ UNCHANGED <<build, main, handler, s_prov, s_prov_done, listed, adv, peer, applied, failed>>

OnAddChar ==
  /\ \/ /\ BtTask("config")
        /\ s_handle_config_val' = TRUE
        /\ asked' = asked \cup {"status"}
     \/ /\ BtTask("status")
        /\ UNCHANGED <<s_handle_config_val, asked>>
  /\ queue' = Tail(queue)
  /\ UNCHANGED <<build, main, handler, s_prov, s_prov_done, listed, adv, peer, applied, failed>>

(* esp_ble_gap_start_advertising; a failure is only logged. *)
StartAdvertising == adv' \in {"on", "failed"}

OnAdvData ==
  /\ BtTask("adv_data")
  /\ StartAdvertising
  /\ queue' = Tail(queue)
  /\ UNCHANGED <<build, main, handler, s_prov, s_prov_done, s_handle_config_val, asked, listed,
                 peer, applied, failed>>

OnConnect ==
  /\ BtTask("connect")
  /\ queue' = Tail(queue)
  /\ UNCHANGED <<build, main, handler, s_prov, s_prov_done, s_handle_config_val, stack, applied,
                 failed>>

(* A write to a handle that is not the one known is not even answered. *)
OnWrite ==
  /\ BtTask("write")
  /\ IF s_handle_config_val
       THEN Hear(Head(queue).text)
       ELSE UNCHANGED <<handler, s_prov, s_prov_done>>
  /\ queue' = Tail(queue)
  /\ UNCHANGED <<build, main, s_handle_config_val, stack, applied, failed>>

(* Mutant: advertising is not started again. *)
OnDisconnectSilent ==
  /\ BtTask("disconnect")
  /\ handler' = IF s_prov_done THEN "reboot" ELSE "none"
  /\ UNCHANGED adv
  /\ queue' = Tail(queue)
  /\ UNCHANGED <<build, main, s_prov, s_prov_done, s_handle_config_val, asked, listed, peer,
                 applied, failed>>

(* The Bluetooth task restarts the device itself when it is done. *)
OnDisconnect ==
  /\ BtTask("disconnect")
  /\ IF s_prov_done
       THEN handler' = "reboot" /\ UNCHANGED adv
       ELSE StartAdvertising /\ UNCHANGED handler
  /\ queue' = Tail(queue)
  /\ UNCHANGED <<build, main, s_prov, s_prov_done, s_handle_config_val, asked, listed, peer,
                 applied, failed>>

(* Bluedroid goes down between two callbacks; what is queued is dropped. *)
OnDisable ==
  /\ BtTask("disable")
  /\ main' = "leave"
  /\ queue' = <<>>
  /\ asked' = {}
  /\ listed' = FALSE
  /\ adv' = "off"
  /\ peer' = FALSE
  /\ UNCHANGED <<build, handler, s_prov, s_prov_done, s_handle_config_val, applied, failed>>

BtReboots ==
  /\ handler = "reboot"
  /\ main' = "off"
  /\ UNCHANGED <<build, handler, queue, s_prov, s_prov_done, s_handle_config_val, stack,
                 applied, failed>>

Callback ==
  \/ OnRegister \/ OnCreate \/ OnAddChar \/ OnAdvData
  \/ OnConnect \/ OnWrite \/ OnDisconnect \/ OnDisable \/ BtReboots

-----------------------------------------------------------------------------
(* The Bluetooth stack and the companion.                                  *)

Radio ==
  /\ Ble
  /\ main \in {"wait", "disable"}
  /\ UNCHANGED <<build, main, handler, s_prov, s_prov_done, s_handle_config_val, applied,
                 failed>>

(* The characteristic is in the database before the event is delivered. *)
StackAnswers(request) ==
  /\ Radio
  /\ request \in asked
  /\ asked' = asked \ {request}
  /\ queue' = Append(queue, Of(request))
  /\ listed' = (listed \/ request = "config")
  /\ UNCHANGED <<adv, peer>>

Connect ==
  /\ Radio
  /\ adv = "on"
  /\ adv' = "off"
  /\ peer' = TRUE
  /\ queue' = Append(queue, Of("connect"))
  /\ UNCHANGED <<asked, listed>>

Disconnect ==
  /\ Radio
  /\ peer
  /\ peer' = FALSE
  /\ queue' = Append(queue, Of("disconnect"))
  /\ UNCHANGED <<asked, listed, adv>>

WriteConfig ==
  /\ Radio
  /\ peer
  /\ listed
  /\ Len(queue) < MaxQueue
  /\ \E text \in Texts : queue' = Append(queue, [event |-> "write", text |-> text])
  /\ UNCHANGED stack

Companion == Send \/ Connect \/ Disconnect \/ WriteConfig

-----------------------------------------------------------------------------
(* The end of svc_provision_run, and of app_main.                          *)

(* Mutant: BLE leaves without waiting for the Bluetooth task. *)
LoopEndsAtOnce ==
  /\ main = "wait"
  /\ s_prov_done
  /\ \/ Coap /\ handler = "none"
     \/ Ble
  /\ main' = "leave"
  /\ queue' = <<>>
  /\ UNCHANGED <<build, handler, s_prov, s_prov_done, s_handle_config_val, stack, applied,
                 failed>>

(* The server is closed once the poll returns, with what still waits for it;
   BLE waits for the Bluetooth task to go down. *)
LoopEnds ==
  /\ main = "wait"
  /\ s_prov_done
  /\ \/ /\ Coap
        /\ handler = "none"
        /\ main' = "leave"
        /\ queue' = <<>>
     \/ /\ Ble
        /\ main' = "disable"
        /\ queue' = Append(queue, Of("disable"))
  /\ UNCHANGED <<build, handler, s_prov, s_prov_done, s_handle_config_val, stack, applied,
                 failed>>

(* Whatever svc_provision_run returned *)
LeaveRun ==
  /\ main = "leave"
  /\ main' = "off"
  /\ UNCHANGED <<build, handler, queue, s_prov, s_prov_done, s_handle_config_val, stack,
                 applied, failed>>

(* The next run of this build, if there is one. *)
Again ==
  /\ main \in {"on", "off"}
  /\ main' = "start"
  /\ handler' = "none"
  /\ queue' = <<>>
  /\ cmd' = ""
  /\ uuid' = "zero"
  /\ uuid_set' = FALSE
  /\ s_prov_done' = FALSE
  /\ s_handle_config_val' = FALSE
  /\ asked' = {}
  /\ listed' = FALSE
  /\ adv' = "off"
  /\ peer' = FALSE
  /\ applied' = "none"
  /\ failed' = FALSE
  /\ UNCHANGED build

-----------------------------------------------------------------------------
Starting == OnProvision \/ RunEnvironment \/ RunBle \/ OpenServer

Handling == PollServes \/ Callback \/ Apply \/ Store \/ Answer

SessionNext ==
  \/ Starting \/ Handling \/ LoopEnds \/ LeaveRun \/ Again
  \/ \E request \in Answers : StackAnswers(request)
  \/ Companion

(* Both tasks run, and the stack answers.  A poll returns, and the loop looks
   at s_prov_done after each, however many requests arrive.  Nobody has to
   send, connect or leave. *)
Fairness ==
  /\ WF_session(Starting)
  /\ WF_session(Handling)
  /\ SF_session(LoopEnds)
  /\ WF_session(LeaveRun)
  /\ WF_session(\E request \in Answers : StackAnswers(request))

SessionSpec == SessionInit /\ [][SessionNext]_session /\ Fairness

-----------------------------------------------------------------------------
(* Safety.                                                                 *)

(* When the Bluetooth task comes to a write of the companion, it knows the
   handle it compares with, so no message is passed over without an answer:
   the characteristic can be written to from when the stack has it, which is
   before gatts_event_handler hears of it. *)
WritesAreHeard ==
  Ble /\ main \in {"wait", "disable"} /\ handler = "none"
    => \A i \in DOMAIN queue :
         queue[i].event = "write" =>
           s_handle_config_val \/ \E j \in 1 .. i : queue[j].event = "config"

(* The device never restarts while a handler is applying what it was sent or
   has not answered, although s_prov_done is set in the middle of the handler
   and for BLE another task waits for it. *)
RestartsWhole == main = "off" => handler \in {"none", "reboot"}

(* A UUID that was not hexadecimal to its end is never applied, not even when
   the one before it was good: the bytes are overwritten in place. *)
AppliedAsGiven == applied # "torn"

-----------------------------------------------------------------------------
(* Liveness.                                                               *)

(* A session that is committed, or whose server cannot be opened, ends with
   the device restarting, whatever the companion still sends and whether it
   stays connected or leaves. *)
SessionEnds == (s_prov_done \/ failed) ~> main = "off"

(* While it waits to be provisioned over BLE, the device can be found, or a
   companion is connected; unless the stack refused to advertise. *)
KeepsAdvertising ==
  (Ble /\ main = "wait") ~> (adv # "off" \/ peer \/ s_prov_done)

=============================================================================
