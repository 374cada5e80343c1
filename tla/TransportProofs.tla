---------------------------- MODULE TransportProofs ---------------------------
(* For every number of retries and every number of events under way: what
   s_connected settles to is what the link is, and a WiFi station tries a
   bounded number of times. *)
EXTENDS Transport, TLAPS

HasStart(queue) == \E i \in DOMAIN queue : queue[i] = "start"

(* A station's first attempt uses no retry, every later one a retry of its own,
   and the event of the start comes alone. *)
RetryCount ==
  kind = "wifi" =>
    /\ tries <= s_retry_count + 1
    /\ HasStart(events) => events = <<"start">> /\ tries = 0 /\ link = "down"

(* Nothing is under way before the first init. *)
QuietDown ==
  pc = "down" => events = <<>> /\ link = "down" /\ ~s_connected /\ tries = 0 /\ ~radio

(* Nor after BLE's stack was torn down. *)
QuietClosed ==
  kind = "ble" /\ pc \in {"closing", "closed"} => events = <<>> /\ link = "down" /\ ~radio

(* Only Thread has a worker. *)
QuietTask == kind # "thread" \/ pc = "down" => task = "none"

(* The types, part by part. *)
ControlType ==
  /\ kind \in Kinds
  /\ configured \in BOOLEAN
  /\ pc \in {"down", "waiting", "fallback", "up", "failed", "closing", "closed"}
  /\ s_connected \in BOOLEAN
  /\ bits \subseteq {"connected", "fail"}
  /\ s_running \in BOOLEAN
  /\ task \in {"none", "start", "loop", "assign", "gone"}
  /\ role \in BOOLEAN
  /\ radio \in BOOLEAN
  /\ link \in {"down", "trying", "linked", "up"}
  /\ fallback \in BOOLEAN

CountType == s_retry_count \in 0 .. MaxRetry /\ tries \in Nat

QueueType == events \in Seq(Events)

IInv == TypeOK /\ RetryCount /\ QuietDown /\ QuietClosed /\ QuietTask /\ SettlesToLink

-----------------------------------------------------------------------------
(* What a flag settles to, as a function of the queue and the flag. *)

Tells(queue) == {i \in DOMAIN queue : queue[i] # "start"}

After(queue, flag) ==
  \/ Tells(queue) = {} /\ flag
  \/ \E i \in Tells(queue) : queue[i] = "gotip" /\ \A j \in Tells(queue) : j <= i

LEMMA SettledIsAfter == Settled <=> After(events, s_connected)
BY DEF Settled, Telling, After, Tells

LEMMA SettledIsAfterNext == Settled' <=> After(events', s_connected')
BY DEF Settled, Telling, After, Tells

LEMMA AfterEmpty == ASSUME NEW flag \in BOOLEAN PROVE After(<<>>, flag) <=> flag
BY DEF After, Tells

LEMMA AfterStart == ASSUME NEW flag \in BOOLEAN PROVE After(<<"start">>, flag) <=> flag
BY DEF After, Tells

(* The last event decides. *)
LEMMA AfterLost ==
  ASSUME NEW queue \in Seq(Events), NEW flag \in BOOLEAN
  PROVE  ~After(Append(queue, "lost"), flag)
<1> DEFINE longer == Append(queue, "lost")
           n == Len(queue) + 1
<1>1. n \in DOMAIN longer /\ longer[n] = "lost" /\ \A i \in DOMAIN longer : i <= n /\ i \in Nat
  OBVIOUS
<1>2. n \in Tells(longer)
  BY <1>1 DEF Tells
<1>3. ASSUME NEW i \in Tells(longer), \A j \in Tells(longer) : j <= i PROVE longer[i] # "gotip"
  <2>1. i = n
    BY <1>1, <1>2, <1>3 DEF Tells
  <2> QED
    BY <1>1, <2>1
<1> QED
  BY <1>2, <1>3 DEF After

LEMMA AfterGotIp ==
  ASSUME NEW queue \in Seq(Events), NEW flag \in BOOLEAN
  PROVE  After(Append(queue, "gotip"), flag)
<1> DEFINE longer == Append(queue, "gotip")
           n == Len(queue) + 1
<1>1. n \in DOMAIN longer /\ longer[n] = "gotip" /\ \A i \in DOMAIN longer : i <= n
  OBVIOUS
<1>2. n \in Tells(longer) /\ \A j \in Tells(longer) : j <= n
  BY <1>1 DEF Tells
<1> QED
  BY <1>1, <1>2 DEF After

(* The flag does not, while an event that tells is under way. *)
LEMMA AfterTelling ==
  ASSUME NEW queue, NEW flag, NEW other, Tells(queue) # {}
  PROVE  After(queue, flag) <=> After(queue, other)
BY DEF After

(* Delivery moves what the head tells into the flag. *)
LEMMA AfterTail ==
  ASSUME NEW queue \in Seq(Events), NEW flag \in BOOLEAN,
         queue # <<>>, Head(queue) # "start"
  PROVE  After(Tail(queue), Head(queue) = "gotip") <=> After(queue, flag)
<1> DEFINE rest == Tail(queue)
<1>1. /\ DOMAIN queue = 1 .. Len(queue)
      /\ DOMAIN rest = 1 .. (Len(queue) - 1)
      /\ Len(queue) \in Nat \ {0}
      /\ \A i \in DOMAIN rest : rest[i] = queue[i + 1]
      /\ Head(queue) = queue[1]
  OBVIOUS
<1>2. 1 \in Tells(queue)
  BY <1>1 DEF Tells
<1>3. \A i \in DOMAIN rest : i \in Tells(rest) <=> i + 1 \in Tells(queue)
  BY <1>1 DEF Tells
<1>4. \A i \in Tells(queue) : i # 1 => i - 1 \in Tells(rest) /\ rest[i - 1] = queue[i]
  BY <1>1 DEF Tells
<1>5. \A i \in Tells(rest) : i \in DOMAIN rest
  BY DEF Tells
<1>6. \A i \in Tells(queue) : i \in 1 .. Len(queue)
  BY <1>1 DEF Tells
<1>7. CASE Tells(rest) = {}
  <2>1. Tells(queue) = {1}
    BY <1>2, <1>4, <1>7
  <2>2. After(queue, flag) <=> queue[1] = "gotip"
    BY <2>1 DEF After
  <2> QED
    BY <1>1, <1>7, <2>2 DEF After
<1>8. CASE Tells(rest) # {}
  <2>1. ASSUME NEW i \in Tells(rest), rest[i] = "gotip", \A j \in Tells(rest) : j <= i
        PROVE  After(queue, flag)
    <3>1. i + 1 \in Tells(queue) /\ queue[i + 1] = "gotip"
      BY <1>1, <1>3, <1>5, <2>1
    <3>2. \A j \in Tells(queue) : j <= i + 1
      <4>1. ASSUME NEW j \in Tells(queue) PROVE j <= i + 1
        <5>1. CASE j = 1
          BY <1>1, <1>5, <5>1
        <5>2. CASE j # 1
          <6>1. j - 1 <= i
            BY <1>4, <2>1, <5>2
          <6> QED
            BY <1>1, <1>5, <1>6, <6>1
        <5> QED
          BY <5>1, <5>2
      <4> QED
        BY <4>1
    <3> QED
      BY <3>1, <3>2 DEF After
  <2>2. ASSUME NEW i \in Tells(queue), queue[i] = "gotip", \A j \in Tells(queue) : j <= i
        PROVE  \E k \in Tells(rest) : rest[k] = "gotip" /\ \A j \in Tells(rest) : j <= k
    <3>1. PICK k \in Tells(rest) : TRUE
      BY <1>8
    <3>2. k + 1 \in Tells(queue) /\ k \in Nat \ {0}
      BY <1>1, <1>3, <1>5, <3>1
    <3>3. i # 1 /\ i \in 1 .. Len(queue)
      BY <1>6, <2>2, <3>2
    <3>4. i - 1 \in Tells(rest) /\ rest[i - 1] = "gotip"
      BY <1>4, <2>2, <3>3
    <3>5. \A j \in Tells(rest) : j <= i - 1
      BY <1>1, <1>3, <1>5, <2>2, <3>3
    <3> QED
      BY <3>4, <3>5
  <2> QED
    BY <1>2, <1>8, <2>1, <2>2 DEF After
<1> QED
  BY <1>7, <1>8

(* The queue after a step. *)
LEMMA QueueTypes ==
  ASSUME NEW queue \in Seq(Events), NEW event \in Events
  PROVE  /\ queue \o <<event>> = Append(queue, event)
         /\ queue \o <<>> = queue
         /\ Append(queue, event) \in Seq(Events)
         /\ queue # <<>> => Tail(queue) \in Seq(Events)
OBVIOUS

LEMMA StartAppended ==
  ASSUME NEW queue \in Seq(Events), NEW event \in Events, event # "start",
         HasStart(Append(queue, event))
  PROVE  HasStart(queue)
BY DEF HasStart

LEMMA StartDelivered ==
  ASSUME NEW queue \in Seq(Events), queue # <<>>, HasStart(Tail(queue))
  PROVE  HasStart(queue)
<1>1. PICK i \in DOMAIN Tail(queue) : Tail(queue)[i] = "start"
  BY DEF HasStart
<1>2. i + 1 \in DOMAIN queue /\ queue[i + 1] = "start"
  BY <1>1
<1> QED
  BY <1>2 DEF HasStart

LEMMA OnlyStart == HasStart(<<"start">>) /\ ~HasStart(<<>>) /\ Tail(<<"start">>) = <<>>
<1>1. 1 \in DOMAIN <<"start">> /\ <<"start">>[1] = "start"
  OBVIOUS
<1> QED
  BY <1>1 DEF HasStart

-----------------------------------------------------------------------------
(* The types. *)

LEMMA InitTypeOK == Init => TypeOK
<1> SUFFICES ASSUME Init PROVE TypeOK
  OBVIOUS
<1>1. events \in Seq(Events)
  BY DEF Init, Initial
<1>2. s_retry_count \in 0 .. MaxRetry /\ tries \in Nat
  BY TransportAssumption DEF Init, Initial
<1> QED
  BY <1>1, <1>2 DEF Init, Initial, TypeOK

LEMMA TypeParts == TypeOK <=> ControlType /\ CountType /\ QueueType
BY DEF TypeOK, ControlType, CountType, QueueType

(* What a step may do to the queue. *)
LEMMA QueueStep ==
  ASSUME [Next]_vars
  PROVE  \/ UNCHANGED events
         \/ events' = <<>>
         \/ \E event \in Events : events' = events \o <<event>> \/ events' = Append(events, event)
         \/ events' = events \o <<>>
         \/ events # <<>> /\ events' = Tail(events)
<1> USE DEF driver
<1>0. "start" \in Events /\ "lost" \in Events /\ "gotip" \in Events
  BY DEF Events
<1>1. CASE WifiInit \/ EthInit \/ ThreadInit \/ BleInit \/ PosixInit \/ InitAgain
  BY <1>0, <1>1 DEF WifiInit, EthInit, ThreadInit, BleInit, PosixInit, InitAgain, NotReady,
                    StartDriver
<1>2. CASE Caller
  BY <1>2 DEF Caller, WifiWait, EthWait, WifiFallback, EthFallback, ThreadWait,
              BitsOrTimeout, StaticAddress, Return
<1>3. CASE Delivery
  BY <1>3 DEF Delivery, WifiEvent, WifiStart, WifiLost, WifiGotIp, EthEvent, BleEvent, Deliver
<1>4. CASE Worker
  BY <1>4 DEF Worker, TaskStart, TaskTest, TaskAssign
<1>5. CASE WifiDeinit \/ EthDeinit \/ ThreadDeinit \/ BleDeinit \/ PosixDeinit \/ ClearConnected
  BY <1>0, <1>5 DEF WifiDeinit, EthDeinit, ThreadDeinit, BleDeinit, PosixDeinit,
                    ClearConnected, Return
<1>6. CASE Environment
  BY <1>0, <1>6 DEF Environment, Associate, AssociateFails, Address, Attach, LinkLost, Becomes
<1>7. CASE UNCHANGED vars
  BY <1>7 DEF vars
<1> QED
  BY <1>1, <1>2, <1>3, <1>4, <1>5, <1>6, <1>7 DEF Next

LEMMA NextQueueType == QueueType /\ [Next]_vars => QueueType'
<1> SUFFICES ASSUME QueueType, [Next]_vars PROVE events' \in Seq(Events)
  BY DEF QueueType
<1>1. events \in Seq(Events) /\ <<>> \in Seq(Events)
  BY DEF QueueType
<1>2. ASSUME NEW event \in Events
      PROVE  events \o <<event>> \in Seq(Events) /\ Append(events, event) \in Seq(Events)
  BY <1>1, <1>2
<1>3. events \o <<>> = events /\ (events # <<>> => Tail(events) \in Seq(Events))
  BY <1>1
<1> QED
  BY <1>1, <1>2, <1>3, QueueStep

LEMMA NextCountType == ControlType /\ CountType /\ [Next]_vars => CountType'
<1> SUFFICES ASSUME CountType, [Next]_vars PROVE CountType'
  OBVIOUS
<1> USE TransportAssumption DEF CountType
<1>1. CASE WifiInit \/ EthInit \/ ThreadInit \/ BleInit \/ PosixInit \/ InitAgain
  BY <1>1 DEF WifiInit, EthInit, ThreadInit, BleInit, PosixInit, InitAgain, NotReady, StartDriver
<1>2. CASE Caller
  BY <1>2 DEF Caller, WifiWait, EthWait, WifiFallback, EthFallback, ThreadWait,
              BitsOrTimeout, StaticAddress, Return
<1>3. CASE Delivery
  <2>1. CASE WifiStart
    BY <2>1 DEF WifiStart, Connect
  <2>2. CASE WifiLost
    BY <2>2 DEF WifiLost, Connect
  <2>3. CASE WifiGotIp
    BY <2>3 DEF WifiGotIp
  <2>4. CASE EthEvent \/ BleEvent
    BY <2>4 DEF EthEvent, BleEvent
  <2> QED
    BY <1>3, <2>1, <2>2, <2>3, <2>4 DEF Delivery, WifiEvent
<1>4. CASE Worker
  BY <1>4 DEF Worker, TaskStart, TaskTest, TaskAssign
<1>5. CASE WifiDeinit \/ EthDeinit \/ ThreadDeinit \/ BleDeinit \/ PosixDeinit \/ ClearConnected
  BY <1>5 DEF WifiDeinit, EthDeinit, ThreadDeinit, BleDeinit, PosixDeinit, ClearConnected,
              Return, Close
<1>6. CASE Environment
  BY <1>6 DEF Environment, Associate, AssociateFails, Address, Attach, LinkLost, Becomes
<1>7. CASE UNCHANGED vars
  BY <1>7 DEF vars
<1> QED
  BY <1>1, <1>2, <1>3, <1>4, <1>5, <1>6, <1>7 DEF Next

LEMMA NextControlType == ControlType /\ [Next]_vars => ControlType'
<1> SUFFICES ASSUME ControlType, [Next]_vars PROVE ControlType'
  OBVIOUS
<1> USE DEF ControlType, build, caller, flags, worker, driver
<1>1. CASE WifiInit
  BY <1>1 DEF WifiInit, NotReady, StartDriver
<1>2. CASE EthInit
  BY <1>2 DEF EthInit, NotReady, StartDriver
<1>3. CASE ThreadInit
  BY <1>3 DEF ThreadInit
<1>4. CASE BleInit
  BY <1>4 DEF BleInit
<1>5. CASE PosixInit
  BY <1>5 DEF PosixInit
<1>6. CASE InitAgain
  BY <1>6 DEF InitAgain
<1>7. CASE WifiWait
  BY <1>7 DEF WifiWait, BitsOrTimeout, Return
<1>8. CASE WifiFallback
  BY <1>8 DEF WifiFallback, StaticAddress, Return
<1>9. CASE EthWait
  BY <1>9 DEF EthWait, BitsOrTimeout, Return
<1>10. CASE EthFallback
  BY <1>10 DEF EthFallback, StaticAddress, Return
<1>11. CASE ThreadWait
  BY <1>11 DEF ThreadWait, Return
<1>12. CASE WifiStart
  BY <1>12 DEF WifiStart, Connect
<1>13. CASE WifiLost
  BY <1>13 DEF WifiLost, Connect, SetConnected
<1>14. CASE WifiGotIp
  BY <1>14 DEF WifiGotIp, SetConnected
<1>15. CASE EthEvent
  BY <1>15 DEF EthEvent, SetConnected
<1>16. CASE BleEvent
  BY <1>16 DEF BleEvent, SetConnected
<1>17. CASE TaskStart
  BY <1>17 DEF TaskStart
<1>18. CASE TaskTest
  BY <1>18 DEF TaskTest
<1>19. CASE TaskAssign
  BY <1>19 DEF TaskAssign
<1>20. CASE WifiDeinit
  BY <1>20 DEF WifiDeinit, Close
<1>21. CASE EthDeinit
  BY <1>21 DEF EthDeinit, Close
<1>22. CASE ThreadDeinit
  BY <1>22 DEF ThreadDeinit, Close
<1>23. CASE BleDeinit
  BY <1>23 DEF BleDeinit, Close
<1>24. CASE PosixDeinit
  BY <1>24 DEF PosixDeinit, Return
<1>25. CASE ClearConnected
  BY <1>25 DEF ClearConnected, SetConnected
<1>26. CASE Associate
  BY <1>26 DEF Associate, Becomes
<1>27. CASE AssociateFails
  BY <1>27 DEF AssociateFails, Becomes
<1>28. CASE Address
  BY <1>28 DEF Address, Becomes
<1>29. CASE Attach
  BY <1>29 DEF Attach, Becomes
<1>30. CASE LinkLost
  BY <1>30 DEF LinkLost, Becomes
<1>31. CASE UNCHANGED vars
  BY <1>31 DEF vars
<1> QED
  BY <1>1, <1>2, <1>3, <1>4, <1>5, <1>6, <1>7, <1>8, <1>9, <1>10, <1>11, <1>12, <1>13, <1>14, <1>15, <1>16, <1>17, <1>18, <1>19, <1>20, <1>21, <1>22, <1>23, <1>24, <1>25, <1>26, <1>27, <1>28, <1>29, <1>30, <1>31
     DEF Next, Caller, Delivery, WifiEvent, Worker, Environment

LEMMA NextTypeOK == TypeOK /\ [Next]_vars => TypeOK'
<1>1. TypeOK' <=> ControlType' /\ CountType' /\ QueueType'
  BY DEF TypeOK, ControlType, CountType, QueueType
<1> QED
  BY <1>1, TypeParts, NextQueueType, NextCountType, NextControlType

-----------------------------------------------------------------------------
(* The build does not change, so each build has its own actions. *)
LEMMA OwnActions ==
  ASSUME [Next]_vars
  PROVE  /\ kind' = kind
         /\ \/ kind = "wifi" /\ (WifiInit \/ WifiWait \/ WifiFallback \/ WifiEvent \/ WifiDeinit)
            \/ kind = "eth" /\ (EthInit \/ EthWait \/ EthFallback \/ EthEvent \/ EthDeinit)
            \/ kind = "thread" /\ (ThreadInit \/ ThreadWait \/ ThreadDeinit)
            \/ kind = "ble" /\ (BleInit \/ BleEvent \/ BleDeinit)
            \/ kind = "posix" /\ (PosixInit \/ PosixDeinit)
            \/ Worker \/ InitAgain \/ ClearConnected \/ Environment \/ UNCHANGED vars
<1> USE DEF build
<1>1. CASE WifiInit \/ EthInit \/ ThreadInit \/ BleInit \/ PosixInit \/ InitAgain
  BY <1>1 DEF WifiInit, EthInit, ThreadInit, BleInit, PosixInit, InitAgain, NotReady, StartDriver
<1>2. CASE Caller
  BY <1>2 DEF Caller, WifiWait, EthWait, WifiFallback, EthFallback, ThreadWait,
              BitsOrTimeout, StaticAddress, Return
<1>3. CASE Delivery
  BY <1>3 DEF Delivery, WifiEvent, WifiStart, WifiLost, WifiGotIp, EthEvent, BleEvent
<1>4. CASE Worker
  BY <1>4 DEF Worker, TaskStart, TaskTest, TaskAssign
<1>5. CASE WifiDeinit \/ EthDeinit \/ ThreadDeinit \/ BleDeinit \/ PosixDeinit \/ ClearConnected
  BY <1>5 DEF WifiDeinit, EthDeinit, ThreadDeinit, BleDeinit, PosixDeinit, ClearConnected,
              Return, Close
<1>6. CASE Environment
  BY <1>6 DEF Environment, Associate, AssociateFails, Address, Attach, LinkLost, Becomes
<1>7. CASE UNCHANGED vars
  BY <1>7 DEF vars
<1> QED
  BY <1>1, <1>2, <1>3, <1>4, <1>5, <1>6, <1>7 DEF Next

(* The attempts of a station. *)
LEMMA NextRetryCount ==
  ASSUME TypeOK, RetryCount, QuietDown, [Next]_vars PROVE RetryCount'
<1> SUFFICES ASSUME kind' = "wifi"
             PROVE  /\ tries' <= s_retry_count' + 1
                    /\ HasStart(events') => events' = <<"start">> /\ tries' = 0 /\ link' = "down"
  BY DEF RetryCount, HasStart
<1> USE TransportAssumption DEF driver
<1>0. /\ kind = "wifi"
      /\ events \in Seq(Events)
      /\ tries \in Nat /\ s_retry_count \in Nat /\ tries <= s_retry_count + 1
      /\ HasStart(events) => events = <<"start">> /\ tries = 0 /\ link = "down"
  BY OwnActions DEF TypeOK, RetryCount
<1>1. CASE WifiInit
  <2>1. CASE NotReady
    BY <1>0, <2>1 DEF NotReady
  <2>2. CASE StartDriver(<<"start">>)
    <3>1. events = <<>> /\ link = "down" /\ tries = 0 /\ events \o <<"start">> = <<"start">>
      BY <1>0, <1>1 DEF QuietDown, WifiInit
    <3> QED
      BY <1>0, <2>2, <3>1 DEF StartDriver
  <2> QED
    BY <1>1, <2>1, <2>2 DEF WifiInit
<1>2. CASE WifiWait \/ WifiFallback
  BY <1>0, <1>2 DEF WifiWait, WifiFallback, BitsOrTimeout, StaticAddress, Return
<1>3. CASE WifiEvent
  <2>1. events # <<>> /\ events' = Tail(events)
    BY <1>3 DEF WifiEvent, WifiStart, WifiLost, WifiGotIp, Deliver
  <2>2. ~HasStart(events')
    <3>1. HasStart(events') => events = <<"start">>
      BY <1>0, <2>1, StartDelivered
    <3> QED
      BY <2>1, <3>1, OnlyStart
  <2>3. CASE WifiStart
    <3>1. tries = 0
      <4>1. 1 \in DOMAIN events /\ events[1] = "start"
        BY <1>0, <2>1, <2>3 DEF WifiStart, Deliver
      <4> QED
        BY <1>0, <4>1 DEF HasStart
    <3> QED
      BY <1>0, <2>2, <2>3, <3>1 DEF WifiStart, Connect
  <2>4. CASE WifiLost
    BY <1>0, <2>2, <2>4 DEF WifiLost, Connect
  <2>5. CASE WifiGotIp
    BY <1>0, <2>2, <2>5 DEF WifiGotIp
  <2> QED
    BY <1>3, <2>3, <2>4, <2>5 DEF WifiEvent
<1>4. CASE WifiDeinit
  <2>1. events' = Append(events, "lost") => ~HasStart(events') \/ HasStart(events)
    BY <1>0, StartAppended DEF Events
  <2>2. events' = Append(events, "lost") \/ events' = events
    BY <1>4 DEF WifiDeinit
  <2>3. events' = Append(events, "lost") => link # "down"
    <3>1. events # Append(events, "lost")
      BY <1>0
    <3> QED
      BY <1>4, <3>1 DEF WifiDeinit
  <2> QED
    BY <1>0, <1>4, <2>1, <2>2, <2>3 DEF WifiDeinit, Close
<1>5. CASE Worker
  BY <1>0, <1>5 DEF Worker, TaskStart, TaskTest, TaskAssign
<1>6. CASE InitAgain
  BY <1>6, OnlyStart DEF InitAgain
<1>7. CASE ClearConnected
  BY <1>0, <1>7 DEF ClearConnected
<1>8. CASE Environment
  <2>1. UNCHANGED <<tries, s_retry_count>>
    BY <1>8 DEF Environment, Associate, AssociateFails, Address, Attach, LinkLost, Becomes
  <2>2. CASE link = "down"
    BY <1>0, <1>8, <2>2 DEF Environment, Associate, AssociateFails, Address, Attach, LinkLost
  <2>3. CASE link # "down"
    <3>1. ~HasStart(events)
      BY <1>0, <2>3
    <3>2. PICK event \in {"lost", "gotip"} :
            events' = events \o <<>> \/ events' = events \o <<event>>
      BY <1>8, <2>3 DEF Environment, Associate, AssociateFails, Address, Attach, LinkLost, Becomes
    <3>3. events' = events \/ events' = Append(events, event)
      BY <1>0, <3>2
    <3>4. ~HasStart(events')
      BY <1>0, <3>1, <3>2, <3>3, StartAppended DEF Events
    <3> QED
      BY <1>0, <2>1, <3>4
  <2> QED
    BY <2>2, <2>3
<1>9. CASE UNCHANGED vars
  BY <1>0, <1>9 DEF vars
<1> QED
  BY <1>0, <1>1, <1>2, <1>3, <1>4, <1>5, <1>6, <1>7, <1>8, <1>9, OwnActions

(* Nothing is under way before init and after BLE's deinit. *)
LEMMA NextQuiet ==
  ASSUME TypeOK, QuietDown, QuietClosed, QuietTask, [Next]_vars
  PROVE  QuietDown' /\ QuietClosed' /\ QuietTask'
<1> USE DEF QuietDown, QuietClosed, QuietTask, caller, flags, worker, driver
<1>1. kind' = kind
  BY OwnActions
<1>2. CASE WifiInit \/ WifiWait \/ WifiFallback \/ WifiDeinit \/ EthInit \/ EthWait
           \/ EthFallback \/ EthDeinit \/ ThreadInit \/ ThreadWait \/ ThreadDeinit
  BY <1>1, <1>2 DEF WifiInit, EthInit, ThreadInit, NotReady, StartDriver, WifiWait, EthWait,
       WifiFallback, EthFallback, ThreadWait, BitsOrTimeout, StaticAddress, Return,
       WifiDeinit, EthDeinit, ThreadDeinit, Close
<1>3. CASE WifiEvent \/ EthEvent \/ BleEvent
  BY <1>1, <1>3 DEF WifiEvent, WifiStart, WifiLost, WifiGotIp, EthEvent, BleEvent, Deliver
<1>4. CASE BleInit \/ BleDeinit \/ PosixInit \/ PosixDeinit
  BY <1>1, <1>4 DEF BleInit, BleDeinit, PosixInit, PosixDeinit, Close, Return
<1>5. CASE Worker
  BY <1>1, <1>5 DEF Worker, TaskStart, TaskTest, TaskAssign
<1>6. CASE InitAgain \/ ClearConnected
  BY <1>1, <1>6 DEF InitAgain, ClearConnected, SetConnected
<1>7. CASE Environment
  BY <1>1, <1>7 DEF Environment, Associate, AssociateFails, Address, Attach, LinkLost, Becomes
<1>8. CASE UNCHANGED vars
  BY <1>1, <1>8 DEF vars
<1> QED
  BY <1>2, <1>3, <1>4, <1>5, <1>6, <1>7, <1>8, OwnActions

-----------------------------------------------------------------------------
(* The flag and the link. *)
LEMMA NextSettles ==
  ASSUME IInv, [Next]_vars PROVE SettlesToLink'
<1> USE DEF build, caller, flags, worker, driver
<1>0. /\ kind' = kind
      /\ events \in Seq(Events)
      /\ s_connected \in BOOLEAN /\ s_connected' \in BOOLEAN
      /\ fallback \in BOOLEAN
  BY OwnActions, NextTypeOK DEF IInv, TypeOK
<1>1. SUFFICES ASSUME kind \in Evented
               PROVE  /\ Settled' => \/ link' = "up"
                                     \/ fallback' /\ Telling' = {}
                                     \/ kind = "ble" /\ pc' = "closing"
                      /\ link' = "up" /\ pc' \notin {"closing", "closed"} => Settled'
  BY <1>0 DEF SettlesToLink
<1>2. /\ Settled => \/ link = "up"
                    \/ fallback /\ Telling = {}
                    \/ kind = "ble" /\ pc = "closing"
      /\ link = "up" /\ pc \notin {"closing", "closed"} => Settled
  <2>1. SettlesToLink
    BY DEF IInv
  <2> QED
    BY <1>1, <2>1 DEF SettlesToLink
<1>3. ASSUME UNCHANGED <<s_connected, events>> PROVE (Settled' <=> Settled) /\ Telling' = Telling
  BY <1>3 DEF Settled, Telling
<1>4. Telling = Tells(events) /\ Telling' = Tells(events')
  BY DEF Telling, Tells
<1>5. CASE WifiInit \/ EthInit
  <2>1. CASE NotReady
    BY <1>2, <1>3, <1>5, <2>1 DEF NotReady, WifiInit, EthInit
  <2>2. CASE \E posted \in {<<"start">>, <<>>} : StartDriver(posted)
    <3>1. events = <<>> /\ link = "down" /\ s_connected = FALSE
      BY <1>5 DEF IInv, QuietDown, WifiInit, EthInit
    <3>2. (events' = <<"start">> \/ events' = <<>>) /\ link' = "down" /\ s_connected' = FALSE
      BY <2>2, <3>1 DEF StartDriver
    <3> QED
      BY <3>2, SettledIsAfterNext, AfterEmpty, AfterStart
  <2> QED
    BY <1>5, <2>1, <2>2 DEF WifiInit, EthInit
<1>6. CASE BleInit
  BY <1>2, <1>3, <1>6 DEF BleInit, IInv, QuietDown, QuietClosed
<1>7. CASE InitAgain
  BY <1>7, SettledIsAfterNext, AfterEmpty DEF InitAgain
<1>8. CASE WifiWait \/ EthWait
  BY <1>2, <1>3, <1>8 DEF WifiWait, EthWait, BitsOrTimeout, Return
<1>9. CASE WifiFallback \/ EthFallback
  <2>1. CASE Return("failed")
    BY <1>2, <1>3, <1>9, <2>1 DEF Return, WifiFallback, EthFallback
  <2>2. CASE ~Return("failed")
    <3>1. /\ s_connected' = TRUE /\ fallback' = TRUE /\ pc' = "up" /\ pc = "fallback"
          /\ UNCHANGED <<events, link>>
      BY <1>9, <2>2 DEF WifiFallback, EthFallback, StaticAddress
    <3>2. CASE Tells(events) = {}
      BY <1>4, <3>1, <3>2 DEF Settled, Telling
    <3>3. CASE Tells(events) # {}
      <4>1. Settled' <=> Settled
        BY <3>1, <3>3, AfterTelling, SettledIsAfter, SettledIsAfterNext
      <4> QED
        BY <1>2, <1>4, <3>1, <3>3, <4>1
    <3> QED
      BY <3>2, <3>3
  <2> QED
    BY <2>1, <2>2
<1>10. CASE WifiStart /\ kind = "wifi"
  <2>1. events = <<"start">> /\ events' = <<>> /\ s_connected' = s_connected
    <3>1. events # <<>> /\ Head(events) = "start" /\ events' = Tail(events)
      BY <1>10 DEF WifiStart, Deliver
    <3>2. HasStart(events)
      <4>1. 1 \in DOMAIN events /\ events[1] = "start"
        BY <1>0, <3>1
      <4> QED
        BY <4>1 DEF HasStart
    <3>3. events = <<"start">>
      BY <1>10, <3>2 DEF IInv, RetryCount
    <3> QED
      BY <1>10, <3>1, <3>3, OnlyStart DEF WifiStart
  <2>2. Settled' <=> Settled
    BY <1>0, <2>1, SettledIsAfter, SettledIsAfterNext, AfterEmpty, AfterStart
  <2>3. Telling = {} /\ Telling' = {}
    BY <1>4, <2>1 DEF Tells
  <2> QED
    BY <1>2, <1>10, <2>2, <2>3 DEF WifiStart, Connect
<1>11. CASE WifiLost \/ WifiGotIp \/ EthEvent \/ BleEvent
  <2>1. /\ events # <<>> /\ Head(events) # "start" /\ events' = Tail(events)
        /\ s_connected' = (Head(events) = "gotip")
        /\ fallback' = FALSE /\ pc' = pc
    BY <1>11 DEF WifiLost, WifiGotIp, EthEvent, BleEvent, Deliver, SetConnected
  <2>2. link' = link \/ (link' # "up" /\ link # "up")
    <3>1. CASE WifiLost
      BY <3>1 DEF WifiLost, Connect
    <3>2. CASE WifiGotIp \/ EthEvent \/ BleEvent
      BY <3>2 DEF WifiGotIp, EthEvent, BleEvent
    <3> QED
      BY <1>11, <3>1, <3>2
  <2>3. Settled' <=> Settled
    BY <1>0, <2>1, SettledIsAfter, SettledIsAfterNext, AfterTail
  <2>4. Telling # {}
    <3>1. 1 \in DOMAIN events /\ events[1] # "start"
      BY <1>0, <2>1
    <3> QED
      BY <3>1 DEF Telling
  <2> QED
    BY <1>2, <2>1, <2>2, <2>3, <2>4
<1>12. CASE WifiDeinit
  <2>1. CASE link \in {"linked", "up"}
    <3>1. events' = Append(events, "lost") /\ link' = "down"
      BY <1>12, <2>1 DEF WifiDeinit
    <3> QED
      BY <1>0, <3>1, AfterLost, SettledIsAfterNext
  <2>2. CASE link \notin {"linked", "up"}
    BY <1>2, <1>3, <1>12, <2>2 DEF WifiDeinit, Close
  <2> QED
    BY <2>1, <2>2
<1>13. CASE EthDeinit
  BY <1>2, <1>3, <1>13 DEF EthDeinit, Close
<1>14. CASE BleDeinit
  BY <1>0, <1>14 DEF BleDeinit, Close
<1>15. CASE ClearConnected
  <2>1. s_connected' = FALSE /\ events' = events /\ link' = link /\ pc' = "closed" /\ pc = "closing"
    BY <1>15 DEF ClearConnected, SetConnected
  <2>2. CASE Tells(events) = {}
    BY <1>4, <2>1, <2>2 DEF Settled
  <2>3. CASE Tells(events) # {}
    <3>1. Settled' <=> Settled
      BY <2>1, <2>3, AfterTelling, SettledIsAfter, SettledIsAfterNext
    <3>2. kind # "ble"
      BY <2>1, <2>3 DEF IInv, QuietClosed, Tells
    <3> QED
      BY <1>2, <1>4, <2>1, <2>3, <3>1, <3>2
  <2> QED
    BY <2>2, <2>3
<1>16. CASE Environment
  <2>0. pc' = pc /\ s_connected' = s_connected /\ fallback' = fallback /\ radio
    BY <1>16 DEF Environment, Associate, AssociateFails, Address, Attach, LinkLost, Becomes
  <2>1. CASE AssociateFails \/ LinkLost
    <3>1. events' = Append(events, "lost") /\ link' = "down"
      BY <1>0, <1>1, <2>1 DEF AssociateFails, LinkLost, Becomes
    <3> QED
      BY <1>0, <3>1, AfterLost, SettledIsAfterNext
  <2>2. CASE Address \/ Attach
    <3>1. events' = Append(events, "gotip") /\ link' = "up"
      BY <1>0, <1>1, <2>2 DEF Address, Attach, Becomes, Evented
    <3> QED
      BY <1>0, <3>1, AfterGotIp, SettledIsAfterNext
  <2>3. CASE Associate
    <3>1. events' = events /\ link' = "linked" /\ link # "up"
      BY <1>0, <2>3 DEF Associate, Becomes
    <3> QED
      BY <1>2, <1>3, <2>0, <3>1
  <2> QED
    BY <1>16, <2>1, <2>2, <2>3 DEF Environment
<1>17. CASE UNCHANGED vars
  BY <1>2, <1>3, <1>17 DEF vars
<1>18. CASE Worker
  BY <1>1, <1>18 DEF Worker, TaskStart, TaskTest, TaskAssign, IInv, QuietTask, Evented
<1> QED
  BY <1>1, <1>5, <1>6, <1>7, <1>8, <1>9, <1>10, <1>11, <1>12, <1>13, <1>14, <1>15, <1>16,
     <1>17, <1>18, OwnActions DEF WifiEvent, Evented

-----------------------------------------------------------------------------
LEMMA InitIInv == Init => IInv
<1> SUFFICES ASSUME Init PROVE IInv
  OBVIOUS
<1>1. events = <<>> /\ tries = 0 /\ s_retry_count = 0 /\ s_connected = FALSE /\ link = "down"
      /\ task = "none" /\ radio = FALSE /\ pc = "down"
  BY DEF Init, Initial
<1>2. RetryCount
  BY <1>1, OnlyStart DEF RetryCount
<1>3. SettlesToLink
  BY <1>1, SettledIsAfter, AfterEmpty DEF SettlesToLink
<1> QED
  BY <1>1, <1>2, <1>3, InitTypeOK DEF IInv, QuietDown, QuietClosed, QuietTask

LEMMA NextIInv == IInv /\ [Next]_vars => IInv'
<1> SUFFICES ASSUME IInv, [Next]_vars PROVE IInv'
  OBVIOUS
<1>1. TypeOK' /\ RetryCount' /\ QuietDown' /\ QuietClosed' /\ QuietTask' /\ SettlesToLink'
  BY NextTypeOK, NextRetryCount, NextQuiet, NextSettles DEF IInv
<1> QED
  BY <1>1 DEF IInv

THEOREM Invariance == Spec => []IInv
BY InitIInv, NextIInv, PTL DEF Spec

(* The types of the flags, the queue and the counter, tw_transport_init to
   tw_transport_deinit, of all five implementations. *)
THEOREM TypeCorrect == Spec => []TypeOK
<1>1. IInv => TypeOK
  BY DEF IInv
<1> QED
  BY <1>1, Invariance, PTL

(* tw_transport_connected settles to the state of the link, for every queue of
   events and every order in which init, deinit and the events run. *)
THEOREM ConnectedSettlesToLink == Spec => []SettlesToLink
<1>1. IInv => SettlesToLink
  BY DEF IInv
<1> QED
  BY <1>1, Invariance, PTL

(* MAX_RETRY bounds what a WiFi station tries without an address. *)
THEOREM StationGivesUp == Spec => []RetriesBounded
<1>1. IInv => RetriesBounded
  BY TransportAssumption DEF IInv, TypeOK, RetryCount, RetriesBounded
<1> QED
  BY <1>1, Invariance, PTL
===============================================================================
