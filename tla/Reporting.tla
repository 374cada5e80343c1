------------------------------- MODULE Reporting -------------------------------
(***************************************************************************)
(* What a device tells its hub: the heartbeat (svc_heartbeat.c) and the    *)
(* telemetry (svc_telemetry.c) carry the readings of Sensors, read without *)
(* its mutex while other tasks go on, to the stored hub address by one     *)
(* blocking request (coap_send_fn, proto_coap.c).                          *)
(*                                                                         *)
(* When reports are due, and the interval the hub advises, is Device's.    *)
(* An address is a sequence of tokens: ":", "[", port numbers, the rest.   *)
(***************************************************************************)
EXTENDS Sensors, Sequences, FiniteSets

CONSTANTS
  Builds,          \* [protobuf, inHeartbeat, dedicated : BOOLEAN]
  MaxReadings,     \* max_count of the readings in a message
  Uris,            \* addresses tw_hub_set_address may be given
  Ports,           \* tokens strtoul makes a port in 1 .. 65535 of
  DefaultPort,     \* HUB_DEFAULT_PORT
  HostMax,         \* TW_HOST_BUF_SIZE - 1
  Numeric,         \* hosts inet_pton accepts
  Timeout, PollStep,  \* of a request: 5000 and 100
  Pending,         \* commands the hub may say it holds
  Nothing          \* an answer without payload, or with one that is no reply

(* The words addresses are made of. *)
Token == Ports \cup {":", "coap://"} \cup UNION {{uri[i] : i \in DOMAIN uri} : uri \in Uris}
Text == Seq(Token)

ASSUME ReportingAssumption ==
  /\ Builds \subseteq [protobuf : BOOLEAN, inHeartbeat : BOOLEAN, dedicated : BOOLEAN]
  /\ MaxReadings \in Nat /\ MaxSensors <= MaxReadings   \* 8 and 32
  /\ Uris \subseteq Text
  /\ ":" \notin Ports
  /\ DefaultPort \in Ports
  /\ HostMax \in Nat
  /\ \A host \in Numeric : ":" \notin {host[i] : i \in DOMAIN host}
  /\ Timeout \in Nat /\ PollStep \in Nat \ {0}
  /\ Pending \subseteq Nat
  /\ Nothing # NULL /\ Nothing \notin Nat
  /\ NULL \notin Text \cup Ports

VARIABLES
  build,
  doing,           \* what the main task is at, besides Sensors' calls
  what,            \* the report under way: "heartbeat" or "push"
  scan,            \* its walk over the slots
  report,          \* the readings it has
  known,           \* history: slots filled when the report was begun
  target,          \* where the request goes
  remaining, answer,
  s_last_pending,
  said,            \* history: what the last answer to a heartbeat said
  s_hub,           \* host and port, or NULL while not configured
  stored,          \* hub_addr and hub_port in NVS
  owed             \* history: the address last set, NULL once a write of it failed

reader == <<what, scan, report, known>>
request == <<target, remaining, answer>>
hub == <<s_hub, stored, owed>>
pending == <<s_last_pending, said>>
reporter == <<build, doing, reader, request, hub, pending>>
vars == <<registry, reporter>>

Nowhere == [at |-> 1, passed |-> 0, index |-> 0, limit |-> 0, name |-> NULL]

Reading == {"count", "find", "name", "value"}
Storing == {"store_host", "store_port"}
Answers == Pending \cup {Nothing}

TypeOK ==
  /\ RegistryTypeOK
  /\ build \in Builds
  /\ doing \in {"boot", "idle", "encode", "open", "wait"} \cup Reading \cup Storing
  /\ what \in {"heartbeat", "push"}
  /\ scan.at \in 1 .. MaxSensors + 1
  /\ doing \in {"find", "name", "value"} => scan.at \in Slots
  /\ scan.passed \in 0 .. scan.at - 1
  /\ scan.index \in 0 .. scan.limit
  /\ scan.limit \in 0 .. MaxSensors
  /\ Len(report) <= scan.limit
  /\ known \subseteq Slots
  /\ s_last_pending \in Pending \cup {0}
  /\ remaining \in 0 .. Timeout
  /\ answer \in Answers \cup {NULL}
  /\ s_hub # NULL => Len(s_hub.host) <= HostMax /\ s_hub.port \in Ports

-----------------------------------------------------------------------------
(* Addresses.                                                              *)

Smaller(x, y) == IF x < y THEN x ELSE y

WithoutScheme(uri) == IF uri # <<>> /\ Head(uri) = "coap://" THEN Tail(uri) ELSE uri

Colons(text) == {i \in DOMAIN text : text[i] = ":"}

(* The last colon, or 0 for none and for a bare IPv6 address. *)
PortSep(text) ==
  LET last == {i \in Colons(text) : \A j \in Colons(text) : j <= i}
  IN  IF last = {} \/ (Cardinality(Colons(text)) > 1 /\ Head(text) # "[")
      THEN 0 ELSE CHOOSE i \in last : TRUE

PortAt(text, sep) ==
  IF sep # 0 /\ sep < Len(text) /\ text[sep + 1] \in Ports THEN text[sep + 1] ELSE DefaultPort

(* Mutant: a host without a port is copied whatever its length. *)
HostWhole(text, sep) == IF sep = 0 THEN text ELSE SubSeq(text, 1, sep - 1)

HostBefore(text, sep) == SubSeq(text, 1, IF sep = 0 THEN Smaller(Len(text), HostMax) ELSE sep - 1)

Parsed(uri) ==
  LET text == WithoutScheme(uri)
      sep == PortSep(text)
  IN  [host |-> HostBefore(text, sep), port |-> PortAt(text, sep)]

(* A host in front of a port is refused if it is too long, and cut off else. *)
Refused(uri) == PortSep(WithoutScheme(uri)) > HostMax + 1

HubAddress(h) == <<"coap://">> \o (h.host \o <<":", h.port>>)

(* Telemetry takes the text apart again. *)
Target == IF what = "push" THEN Parsed(HubAddress(s_hub)) ELSE s_hub

-----------------------------------------------------------------------------
(* tw_hub_set_address and load_hub_address.                                *)

(* Nothing under src/ sets the address but provisioning, before the services
   start. *)
SetAddress ==
  /\ doing = "boot"
  /\ \E uri \in Uris :
       /\ ~Refused(uri)
       /\ s_hub' = Parsed(uri)
  /\ doing' = "store_host"
  /\ owed' = s_hub'
  /\ UNCHANGED <<registry, build, reader, request, pending, stored>>

(* Each write may fail, and nobody looks. *)
Store(part) ==
  /\ \/ stored' = [stored EXCEPT ![part] = s_hub[part]] /\ UNCHANGED owed
     \/ owed' = NULL /\ UNCHANGED stored
  /\ UNCHANGED <<registry, build, reader, request, pending, s_hub>>

StoreHost == doing = "store_host" /\ doing' = "store_port" /\ Store("host")
StorePort == doing = "store_port" /\ doing' = "boot" /\ Store("port")

(* Mutant: the port is left at its default. *)
LoadedHost(nvs) == [host |-> nvs.host, port |-> DefaultPort]

Loaded(nvs) == [host |-> nvs.host, port |-> IF nvs.port = NULL THEN DefaultPort ELSE nvs.port]

(* svc_heartbeat_init: NVS comes before what was set, but for a missing host. *)
HeartbeatInit ==
  /\ doing = "boot"
  /\ doing' = "idle"
  /\ s_hub' = IF stored.host = NULL THEN s_hub ELSE Loaded(stored)
  /\ s_last_pending' = 0 /\ said' = 0
  /\ UNCHANGED <<registry, build, reader, request, stored, owed>>

-----------------------------------------------------------------------------
(* A report: how many slots are filled, then sensor after sensor by its rank
   (svc_sensor_count, svc_sensor_get_by_index).                            *)

(* The main task is about to start something. *)
Awake == doing = "idle" /\ call[Main] = Idle

Begin(kind, stage) ==
  /\ Awake
  /\ what' = kind
  /\ doing' = stage
  /\ known' = {i \in Slots : grants[i] = 1}
  /\ UNCHANGED <<registry, build, scan, report, request, hub, pending>>

(* The text format carries no readings. *)
BeginHeartbeat ==
  /\ s_hub # NULL
  /\ Begin("heartbeat", IF build.protobuf /\ build.inHeartbeat THEN "count" ELSE "encode")

BeginPush == build.protobuf /\ build.dedicated /\ Begin("push", "count")

Walk == UNCHANGED <<registry, build, what, known, request, hub, pending>>

CountSlot ==
  /\ doing = "count"
  /\ scan.at \in Slots
  /\ scan' = [scan EXCEPT !.at = @ + 1,
                          !.limit = IF sensors[scan.at].registered THEN @ + 1 ELSE @]
  /\ UNCHANGED <<doing, report>>
  /\ Walk

(* Go for sensor number index, or be done. *)
Seek(index, limit) ==
  /\ doing' = IF index < limit THEN "find" ELSE "encode"
  /\ scan' = [Nowhere EXCEPT !.index = index, !.limit = limit]

(* Mutant: the count is taken for the last index. *)
LimitLast == IF scan.limit = 0 THEN 0 ELSE Smaller(scan.limit - 1, MaxReadings)

Limit == Smaller(scan.limit, MaxReadings)

Counted ==
  /\ doing = "count"
  /\ scan.at = MaxSensors + 1
  /\ Seek(0, Limit)
  /\ UNCHANGED report
  /\ Walk

(* A slot once counted is there to be found: no TW_ERR_NOT_FOUND. *)
FindSlot ==
  /\ doing = "find"
  /\ scan.at \in Slots
  /\ LET hit == sensors[scan.at].registered /\ scan.passed = scan.index
     IN  /\ doing' = IF hit THEN "name" ELSE "find"
         /\ scan' = IF hit THEN scan
                    ELSE [scan EXCEPT !.at = @ + 1,
                                      !.passed = IF sensors[scan.at].registered THEN @ + 1 ELSE @]
  /\ UNCHANGED report
  /\ Walk

LoadName ==
  /\ doing = "name"
  /\ doing' = "value"
  /\ scan' = [scan EXCEPT !.name = sensors[scan.at].name]
  /\ UNCHANGED report
  /\ Walk

(* A sensor whose name is not there yet is left out. *)
LoadValue ==
  /\ doing = "value"
  /\ report' = IF scan.name = NULL THEN report
               ELSE Append(report, [name |-> scan.name, value |-> sensors[scan.at].last_value])
  /\ Seek(scan.index + 1, scan.limit)
  /\ Walk

-----------------------------------------------------------------------------
(* The request.                                                            *)

(* Nothing is left of what was under way. *)
Drop ==
  /\ what' = "heartbeat"
  /\ scan' = Nowhere
  /\ report' = <<>>
  /\ known' = {}
  /\ target' = NULL /\ remaining' = 0 /\ answer' = NULL

GiveUp ==
  /\ doing' = "idle"
  /\ Drop
  /\ UNCHANGED <<registry, build, hub>>

(* It does not fit the buffer, has nothing to say or nowhere to go; the
   writers of the text format leave out what does not fit. *)
NotEncoded ==
  /\ doing = "encode"
  /\ build.protobuf \/ s_hub = NULL
  /\ GiveUp
  /\ UNCHANGED pending

Encode ==
  /\ doing = "encode"
  /\ s_hub # NULL
  /\ what = "push" => report # <<>>
  /\ doing' = "open"
  /\ UNCHANGED <<registry, build, reader, request, hub, pending>>

(* Only a numeric IPv4 host is found. *)
Open ==
  /\ doing = "open"
  /\ Target.host \in Numeric
  /\ doing' = "wait"
  /\ target' = Target
  /\ remaining' = Timeout
  /\ UNCHANGED <<registry, build, reader, answer, hub, pending>>

(* No such host, or libcoap has no memory or cannot send. *)
NotSent ==
  /\ doing = "open"
  /\ GiveUp
  /\ UNCHANGED pending

(* What an answer says of the hub's commands. *)
Says(reply) == IF reply \in Pending THEN reply ELSE 0

(* Mutant: what is left of the time is rounded down to whole steps. *)
StepWhole == IF remaining < PollStep THEN 0 ELSE PollStep

Step == Smaller(remaining, PollStep)

(* One coap_io_process; it counts as a full step however soon it is back. *)
PollAnswer ==
  /\ doing = "wait"
  /\ answer = NULL /\ remaining > 0
  /\ answer' \in Answers \cup {NULL}
  /\ remaining' = remaining - Step
  /\ said' = IF answer' # NULL /\ what = "heartbeat" THEN Says(answer') ELSE said
  /\ UNCHANGED <<registry, build, doing, reader, target, hub, s_last_pending>>

(* Mutant: an answer in the last step is late. *)
AnsweredInTime == answer # NULL /\ remaining > 0

Answered == answer # NULL

(* The text format is answered, but its answer is not read. *)
SendReturns ==
  /\ doing = "wait"
  /\ answer # NULL \/ remaining = 0
  /\ s_last_pending' = IF what = "heartbeat" /\ Answered
                       THEN IF build.protobuf THEN Says(answer) ELSE 0
                       ELSE s_last_pending
  /\ GiveUp
  /\ UNCHANGED said

-----------------------------------------------------------------------------
ReporterInit ==
  /\ build \in Builds
  /\ stored = [host |-> NULL, port |-> NULL]
  /\ owed = NULL
  /\ s_hub = NULL
  /\ doing = "boot"
  /\ what = "heartbeat"
  /\ scan = Nowhere
  /\ report = <<>>
  /\ known = {}
  /\ target = NULL /\ remaining = 0 /\ answer = NULL
  /\ s_last_pending = 0 /\ said = 0

Init == RegistryInit /\ ReporterInit

(* Power loss, or a restart by any other part; NVS stays. *)
Restart ==
  /\ RegistryRestart
  /\ s_hub' = NULL
  /\ doing' = "boot"
  /\ Drop
  /\ s_last_pending' = 0 /\ said' = 0
  /\ owed' = IF doing \in Storing THEN NULL ELSE owed
  /\ UNCHANGED <<build, stored>>

Report ==
  \/ CountSlot \/ Counted \/ FindSlot \/ LoadName \/ LoadValue
  \/ Encode \/ NotEncoded \/ Open \/ NotSent \/ PollAnswer \/ SendReturns
  \/ StoreHost \/ StorePort

(* The main task is in one place at a time, and starts the others. *)
RegistryCalls ==
  /\ doing \notin {"boot"} \cup Storing
  /\ \E t \in Tasks : (t = Main => doing = "idle") /\ Calls(t)
  /\ UNCHANGED reporter

RegistryRuns == (\E t \in Tasks : Runs(t)) /\ UNCHANGED reporter

Next ==
  \/ Restart
  \/ SetAddress \/ HeartbeatInit \/ BeginHeartbeat \/ BeginPush
  \/ Report
  \/ RegistryCalls
  \/ RegistryRuns

(* The main task is scheduled.  Drivers, other tasks and the hub, which need
   never answer, owe nothing. *)
Fairness == WF_vars(Report /\ answer' = NULL)

Spec == Init /\ [][Next]_vars /\ Fairness

-----------------------------------------------------------------------------
(* Properties.                                                             *)

(* A sensor whose registration was answered when the report was begun is in it,
   though others register meanwhile and the slots are read without the mutex
   (build_heartbeat_payload, svc_telemetry_send). *)
ReportComplete ==
  doing \in {"encode", "open", "wait"} /\ (what = "push" \/ (build.protobuf /\ build.inHeartbeat)) =>
    \A i \in known : \E r \in DOMAIN report : report[r].name = sensors[i].name

(* Whatever is sent goes to the hub that was last set, telemetry too, which
   takes the address apart again from its text (svc_telemetry_send), and after
   every restart, though host and port are written, and read, one by one
   (tw_hub_set_address, load_hub_address); unless one of the writes failed.  A
   hub is only reached if its host is numeric. *)
ReachesHub == doing = "wait" => target = s_hub /\ (owed # NULL => s_hub = owed)

(* What is known of the hub's commands is what its last answer to a heartbeat
   said, if only just in time: no failed send and no answer to telemetry
   changes it (svc_heartbeat_send). *)
PendingIsAnswered == build.protobuf /\ doing # "wait" => s_last_pending = said

(* Every report ends, though the hub does not answer and the driver that another
   task called keeps the mutex for ever (coap_send_fn counts its polls). *)
ReportEnds == doing \notin {"boot", "idle"} ~> doing \in {"boot", "idle"}
=============================================================================
