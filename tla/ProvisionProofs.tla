--------------------------- MODULE ProvisionProofs ----------------------------
(***************************************************************************)
(* The factory lock holds for every set of commands, in both wire formats, *)
(* and the two programs together implement Provisioning.                   *)
(*                                                                         *)
(* Both are statements about flash, the guards that keep them read NVS,    *)
(* and between the two are the pending writes.  The invariant says how     *)
(* the three hang together: pending writes explain every difference, the   *)
(* lock is visible as soon as it is pending, nothing of the factory        *)
(* identity is pending behind it, and the flag of a commissioned device is *)
(* only ever set until the reset button is pressed (FlagIsKept).           *)
(***************************************************************************)
EXTENDS Provision, Integers, TLAPS

(* Every write of a handler carries the value that f gives its key. *)
Consistent(writes, f) == \A i \in DOMAIN writes : writes[i].val = f[writes[i].key]

(* A handler writes none of the keys in K. *)
Avoids(writes, K) == \A i \in DOMAIN writes : writes[i].key \notin K

(* One write, and the properties of the sequence that holds it. *)
LEMMA WroteFacts ==
  ASSUME NEW k \in Keys, NEW v \in {0} \cup Values, NEW f, NEW K
  PROVE  /\ Wrote(k, v) \in Seq(Write)
         /\ Len(Wrote(k, v)) = 1
         /\ f[k] = v => Consistent(Wrote(k, v), f)
         /\ k \notin K => Avoids(Wrote(k, v), K)
<1> DEFINE w == [key |-> k, val |-> v]
           s == Wrote(k, v)
<1>1. w \in Write /\ w.key = k /\ w.val = v
  BY DEF Write
<1> HIDE DEF w
<1>2. s \in Seq(Write) /\ Len(s) = 1 /\ DOMAIN s = {1} /\ s[1] = w
  BY <1>1 DEF Wrote, w
<1> HIDE DEF s
<1>3. f[k] = v => Consistent(s, f)
  BY <1>1, <1>2 DEF Consistent
<1>4. k \notin K => Avoids(s, K)
  BY <1>1, <1>2 DEF Avoids
<1> QED BY <1>2, <1>3, <1>4 DEF s

(* A handler that writes nothing. *)
LEMMA NoWriteFacts ==
  ASSUME NEW f, NEW K
  PROVE  <<>> \in Seq(Write) /\ Len(<<>>) = 0 /\ Consistent(<<>>, f) /\ Avoids(<<>>, K)
BY DEF Consistent, Avoids

(* A conditional write is one or the other. *)
LEMMA WroteIfFacts ==
  ASSUME NEW cond \in BOOLEAN, NEW k \in Keys, NEW v \in {0} \cup Values, NEW f, NEW K
  PROVE  /\ WroteIf(cond, k, v) \in Seq(Write)
         /\ Len(WroteIf(cond, k, v)) <= 1
         /\ (cond => f[k] = v) => Consistent(WroteIf(cond, k, v), f)
         /\ k \notin K => Avoids(WroteIf(cond, k, v), K)
<1>1. CASE cond
  <2>1. WroteIf(cond, k, v) = Wrote(k, v)
    BY <1>1 DEF WroteIf
  <2>2. Wrote(k, v) \in Seq(Write) /\ Len(Wrote(k, v)) <= 1
    <3>1. Wrote(k, v) \in Seq(Write) /\ Len(Wrote(k, v)) = 1
      BY WroteFacts, Zenon
    <3> QED BY <3>1
  <2>3. (cond => f[k] = v) => Consistent(Wrote(k, v), f)
    BY <1>1, WroteFacts
  <2>4. k \notin K => Avoids(Wrote(k, v), K)
    BY WroteFacts
  <2> QED BY <2>1, <2>2, <2>3, <2>4
<1>2. CASE ~cond
  <2>1. WroteIf(cond, k, v) = <<>>
    BY <1>2 DEF WroteIf
  <2>2. Len(<<>>) <= 1
    OBVIOUS
  <2> QED BY <2>1, <2>2, NoWriteFacts
<1> QED BY <1>1, <1>2

(* The same of a value that is written only if it was given. *)
LEMMA WroteGivenFacts ==
  ASSUME NEW k \in Keys, NEW v \in {0} \cup Values, NEW f, NEW K
  PROVE  /\ WroteGiven(k, v) \in Seq(Write)
         /\ f[k] = v => Consistent(WroteGiven(k, v), f)
         /\ k \notin K => Avoids(WroteGiven(k, v), K)
<1>1. (v # 0) \in BOOLEAN
  OBVIOUS
<1> QED BY <1>1, WroteIfFacts DEF WroteGiven

(* Both properties are inherited by concatenation. *)
LEMMA ConcatFacts ==
  ASSUME NEW s \in Seq(Write), NEW t \in Seq(Write), NEW f, NEW K
  PROVE  /\ s \o t \in Seq(Write)
         /\ Consistent(s, f) /\ Consistent(t, f) => Consistent(s \o t, f)
         /\ Avoids(s, K) /\ Avoids(t, K) => Avoids(s \o t, K)
<1>1. s \o t \in Seq(Write)
  OBVIOUS
<1>2. \A i \in DOMAIN (s \o t) :
        \/ i \in DOMAIN s /\ (s \o t)[i] = s[i]
        \/ i - Len(s) \in DOMAIN t /\ (s \o t)[i] = t[i - Len(s)]
  OBVIOUS
<1> QED BY <1>1, <1>2 DEF Consistent, Avoids

(* What a read returns after Put. *)
LEMMA PutReads ==
  ASSUME NEW writes \in Seq(Write), NEW f, Consistent(writes, f), Put(writes)
  PROVE  /\ \A i \in DOMAIN writes : nvs'[writes[i].key] = f[writes[i].key]
         /\ \A k \in Keys : Avoids(writes, {k}) => nvs'[k] = nvs[k]
<1>1. \A i \in DOMAIN writes : writes[i].key \in Keys
  <2>1. \A i \in DOMAIN writes : writes[i] \in Write
    OBVIOUS
  <2> QED BY <2>1 DEF Write
<1>2. ASSUME NEW i \in DOMAIN writes
      PROVE  nvs'[writes[i].key] = f[writes[i].key]
  <2> DEFINE k == writes[i].key
             c == CHOOSE j \in DOMAIN writes : writes[j].key = k
  <2>1. c \in DOMAIN writes /\ writes[c].key = k
    OBVIOUS
  <2>2. nvs'[k] = writes[c].val
    BY <1>1 DEF Put
  <2>3. writes[c].val = f[k]
    BY <2>1 DEF Consistent
  <2> QED BY <2>2, <2>3
<1>3. ASSUME NEW k \in Keys, Avoids(writes, {k})
      PROVE  nvs'[k] = nvs[k]
  BY <1>3 DEF Put, Avoids
<1> QED BY <1>2, <1>3

-----------------------------------------------------------------------------
(* Put keeps the types. *)
LEMMA PutType ==
  ASSUME TypeOK, NEW writes \in Seq(Write), Put(writes)
  PROVE  /\ nvs' \in Record /\ pending' \in Seq(Write) /\ flash' \in Record
         /\ wire' \in {"protobuf", "kvtext"}
<1>1. \A i \in DOMAIN writes : writes[i].val \in {0} \cup Values
  <2>1. \A i \in DOMAIN writes : writes[i] \in Write
    OBVIOUS
  <2> QED BY <2>1 DEF Write
<1>2. nvs' \in Record
  BY <1>1 DEF Put, Record, TypeOK
<1> QED BY <1>2 DEF Put, TypeOK

(* Where the elements of the pending writes come from after Put. *)
LEMMA PutPending ==
  ASSUME pending \in Seq(Write), NEW writes \in Seq(Write), Put(writes)
  PROVE  /\ pending' \in Seq(Write)
         /\ \A i \in DOMAIN pending : i \in DOMAIN pending' /\ pending'[i] = pending[i]
         /\ \A i \in DOMAIN writes :
              Len(pending) + i \in DOMAIN pending' /\ pending'[Len(pending) + i] = writes[i]
         /\ \A i \in DOMAIN pending' :
              i \in DOMAIN pending \/ (i - Len(pending) \in DOMAIN writes /\ i > Len(pending))
BY DEF Put

(* Put keeps reads and pending writes together. *)
LEMMA PutOverlay ==
  ASSUME pending \in Seq(Write), NEW writes \in Seq(Write), NEW f,
         Consistent(writes, f), Put(writes), Overlay
  PROVE  Overlay'
<1>1. \A i \in DOMAIN pending : pending[i].key \in Keys
  <2>1. \A i \in DOMAIN pending : pending[i] \in Write
    OBVIOUS
  <2> QED BY <2>1 DEF Write
<1>2. ASSUME NEW k \in Keys, \A i \in DOMAIN pending' : pending'[i].key # k
      PROVE  nvs'[k] = flash'[k]
  <2>1. \A i \in DOMAIN pending : pending[i].key # k
    BY <1>2, PutPending
  <2>2. Avoids(writes, {k})
    BY <1>2, PutPending DEF Avoids
  <2>3. nvs[k] = flash[k]
    BY <2>1 DEF Overlay
  <2>4. nvs'[k] = nvs[k]
    BY <2>2, PutReads
  <2> QED BY <2>3, <2>4 DEF Put
<1>3. ASSUME NEW i \in DOMAIN pending',
             \A j \in DOMAIN pending' : j > i => pending'[j].key # pending'[i].key
      PROVE  nvs'[pending'[i].key] = pending'[i].val
  <2>1. CASE i \in DOMAIN pending
    <3>1. pending'[i] = pending[i]
      BY <2>1, PutPending
    <3>2. \A j \in DOMAIN pending : j > i => pending[j].key # pending[i].key
      BY <1>3, <3>1, PutPending
    <3>3. \A j \in DOMAIN writes : Len(pending) + j > i
      BY <2>1
    <3>4. Avoids(writes, {pending[i].key})
      BY <1>3, <3>1, <3>3, PutPending DEF Avoids
    <3>5. nvs'[pending[i].key] = nvs[pending[i].key]
      BY <1>1, <2>1, <3>4, PutReads
    <3> QED BY <2>1, <3>1, <3>2, <3>5 DEF Overlay
  <2>2. CASE i - Len(pending) \in DOMAIN writes /\ i > Len(pending)
    <3> DEFINE n == i - Len(pending)
    <3>1. n \in DOMAIN writes /\ Len(pending) + n = i
      BY <2>2
    <3>2. pending'[i] = writes[n]
      BY <3>1, PutPending
    <3>3. nvs'[writes[n].key] = f[writes[n].key]
      BY <3>1, PutReads
    <3>4. writes[n].val = f[writes[n].key]
      BY <3>1 DEF Consistent
    <3> QED BY <3>2, <3>3, <3>4
  <2> QED BY <2>1, <2>2, PutPending
<1> QED BY <1>2, <1>3 DEF Overlay

(* A handler that leaves the factory identity alone leaves the lock alone. *)
LEMMA PutAside ==
  ASSUME pending \in Seq(Write), NEW writes \in Seq(Write), NEW f,
         Consistent(writes, f), Put(writes), LockIsSeen, LockIsLast,
         Avoids(writes, FactoryKeys)
  PROVE  LockIsSeen' /\ LockIsLast' /\ nvs'["final"] = nvs["final"]
<1>1. "final" \in Keys /\ "final" \in FactoryKeys
  BY DEF Keys, Flags, FactoryKeys
<1>2. Avoids(writes, {"final"})
  BY <1>1 DEF Avoids
<1>3. nvs'["final"] = nvs["final"]
  BY <1>1, <1>2, PutReads
<1>4. LockIsSeen'
  BY <1>1, <1>3, PutPending DEF LockIsSeen, Avoids, Put
<1>5. LockIsLast'
  <2>1. ASSUME NEW i \in DOMAIN pending', NEW j \in DOMAIN pending',
               i < j, pending'[i].key = "final"
        PROVE  pending'[j].key \notin FactoryKeys
    <3>1. i \in DOMAIN pending /\ pending[i].key = "final"
      BY <2>1, <1>1, PutPending DEF Avoids
    <3>2. CASE j \in DOMAIN pending
      BY <2>1, <3>1, <3>2, PutPending DEF LockIsLast
    <3>3. CASE j - Len(pending) \in DOMAIN writes
      <4>1. pending'[j] = writes[j - Len(pending)]
        BY <3>3, PutPending
      <4> QED BY <3>3, <4>1 DEF Avoids
    <3> QED BY <3>2, <3>3, PutPending
  <2>2. ASSUME flash'["final"] = 1, NEW i \in DOMAIN pending'
        PROVE  pending'[i].key \notin FactoryKeys
    <3>1. CASE i \in DOMAIN pending
      BY <2>2, <3>1, PutPending DEF LockIsLast, Put
    <3>2. CASE i - Len(pending) \in DOMAIN writes
      <4>1. pending'[i] = writes[i - Len(pending)]
        BY <3>2, PutPending
      <4> QED BY <3>2, <4>1 DEF Avoids
    <3> QED BY <3>1, <3>2, PutPending
  <2> QED BY <2>1, <2>2 DEF LockIsLast
<1> QED BY <1>3, <1>4, <1>5

(* A handler that found no lock may write anything, and lock, last. *)
LEMMA PutUnlocked ==
  ASSUME pending \in Seq(Write), NEW before \in Seq(Write), NEW last \in Seq(Write), NEW f,
         Avoids(before, {"final"}), Len(last) <= 1, f["final"] = 1,
         Consistent(before \o last, f), Put(before \o last), LockIsSeen, nvs["final"] # 1
  PROVE  LockIsSeen' /\ LockIsLast'
<1> DEFINE writes == before \o last
<1>1. writes \in Seq(Write) /\ Len(writes) <= Len(before) + 1
  OBVIOUS
<1>2. \A i \in DOMAIN pending : pending[i].key # "final"
  BY DEF LockIsSeen
<1>3. \A i \in DOMAIN writes : writes[i].key = "final" => i = Len(before) + 1
  BY DEF Avoids
<1>4. \A i \in DOMAIN pending' :
        pending'[i].key = "final" => /\ i - Len(pending) \in DOMAIN writes
                                     /\ pending'[i] = writes[i - Len(pending)]
                                     /\ i = Len(pending) + Len(before) + 1
  <2> HIDE DEF writes
  <2>1. Put(writes)
    BY DEF writes
  <2> TAKE i \in DOMAIN pending'
  <2> HAVE pending'[i].key = "final"
  <2>2. i - Len(pending) \in DOMAIN writes
    BY <1>1, <1>2, <2>1, PutPending
  <2>3. pending'[i] = writes[i - Len(pending)]
    BY <1>1, <2>1, <2>2, PutPending
  <2>4. i - Len(pending) = Len(before) + 1
    BY <1>3, <2>2, <2>3
  <2>5. i \in Int /\ Len(pending) \in Int /\ Len(before) \in Int
    BY <1>1, <2>1, PutPending
  <2> QED BY <2>2, <2>3, <2>4, <2>5
<1>5. Len(pending') <= Len(pending) + Len(before) + 1
  BY DEF Put
<1>6. LockIsSeen'
  <2>1. ASSUME NEW i \in DOMAIN pending', pending'[i].key = "final"
        PROVE  nvs'["final"] = 1
    <3> HIDE DEF writes
    <3>1. Put(writes) /\ Consistent(writes, f)
      BY DEF writes
    <3> DEFINE n == i - Len(pending)
    <3>2. n \in DOMAIN writes /\ writes[n].key = "final"
      BY <1>4, <2>1
    <3>3. nvs'[writes[n].key] = f[writes[n].key]
      BY <1>1, <3>1, <3>2, PutReads
    <3> QED BY <3>2, <3>3
  <2>2. flash'["final"] # 1
    BY DEF Put, LockIsSeen
  <2> QED BY <2>1, <2>2 DEF LockIsSeen
<1>7. LockIsLast'
  <2>1. pending' \in Seq(Write)
    BY <1>1 DEF Put
  <2>2. ASSUME NEW i \in DOMAIN pending', NEW j \in DOMAIN pending', i < j
        PROVE  pending'[i].key # "final"
    BY <1>4, <1>5, <2>1, <2>2
  <2>3. flash'["final"] # 1
    BY DEF Put, LockIsSeen
  <2> QED BY <2>2, <2>3 DEF LockIsLast
<1> QED BY <1>6, <1>7

-----------------------------------------------------------------------------
(* What each handler writes.                                               *)

(* The values a request gives to the keys; flags are only ever set to 1,
   except that the reset button clears hubprov. *)
Given(v, u, y, s, h, p) ==
  [vendor |-> v, uuid |-> u, key |-> y, ssid |-> s, hub |-> h, hubprov |-> p,
   factory |-> 1, done |-> 1, final |-> 1]

(* A sequence of writes whose values are f's and whose keys are not in K. *)
Writes(s, f, K) == s \in Seq(Write) /\ Consistent(s, f) /\ Avoids(s, K)

LEMMA GivenWrites ==
  ASSUME NEW k \in Keys, NEW v \in {0} \cup Values, NEW f, NEW K, f[k] = v, k \notin K
  PROVE  Writes(Wrote(k, v), f, K) /\ Writes(WroteGiven(k, v), f, K)
BY WroteFacts, WroteGivenFacts DEF Writes

LEMMA IfWrites ==
  ASSUME NEW cond \in BOOLEAN, NEW k \in Keys, NEW v \in {0} \cup Values, NEW f, NEW K,
         f[k] = v, k \notin K
  PROVE  Writes(WroteIf(cond, k, v), f, K)
BY WroteIfFacts DEF Writes

LEMMA ConcatWrites ==
  ASSUME NEW s, NEW t, NEW f, NEW K, Writes(s, f, K), Writes(t, f, K)
  PROVE  Writes(s \o t, f, K)
BY ConcatFacts DEF Writes

LEMMA NoWrites == ASSUME NEW f, NEW K PROVE Writes(<<>>, f, K)
BY NoWriteFacts DEF Writes

(* The fields of a factory command, and the rest of it before the lock. *)
LEMMA FactoryFieldsWrites ==
  ASSUME NEW cmd \in FactoryCmd
  PROVE  LET f == Given(cmd.vendor, cmd.uuid, cmd.key, 0, 0, 1)
             before == (FactoryFields(cmd) \o WroteGiven("key", cmd.key)) \o Wrote("done", 1)
         IN /\ Writes(FactoryFields(cmd), f, {"final"})
            /\ Writes(before, f, {"final"})
            /\ 1 \in Values => Writes(before \o WroteIf(cmd.finalize, "final", 1), f, {})
<1> DEFINE f == Given(cmd.vendor, cmd.uuid, cmd.key, 0, 0, 1)
           K == {"final"}
           fields == FactoryFields(cmd)
           more == fields \o WroteGiven("key", cmd.key)
           before == more \o Wrote("done", 1)
           last == WroteIf(cmd.finalize, "final", 1)
<1>1. /\ cmd.vendor \in {0} \cup Values /\ cmd.uuid \in {0} \cup Values
      /\ cmd.key \in {0} \cup Values /\ cmd.finalize \in BOOLEAN
  BY DEF FactoryCmd
<1>2. /\ f["vendor"] = cmd.vendor /\ f["uuid"] = cmd.uuid /\ f["key"] = cmd.key
      /\ f["done"] = 1 /\ f["final"] = 1
  BY DEF Given
<1>3. {"vendor", "uuid", "key", "done", "final"} \subseteq Keys
  BY DEF Keys, Flags
<1>4. 1 \in {0} \cup Values
  BY ProvisionAssumption
<1> HIDE DEF f
<1>5. Writes(WroteGiven("vendor", cmd.vendor), f, K) /\ Writes(WroteGiven("uuid", cmd.uuid), f, K)
  BY <1>1, <1>2, <1>3, GivenWrites
<1>6. Writes(WroteGiven("key", cmd.key), f, K) /\ Writes(Wrote("done", 1), f, K)
  BY <1>1, <1>2, <1>3, <1>4, GivenWrites
<1>7. Writes(fields, f, K)
  BY <1>5, ConcatWrites DEF FactoryFields
<1>8. Writes(more, f, K)
  BY <1>6, <1>7, ConcatWrites
<1>9. Writes(before, f, K)
  BY <1>6, <1>8, ConcatWrites
<1>10. Writes(before, f, {})
  BY <1>9 DEF Writes, Avoids
<1>11. Writes(last, f, {})
  BY <1>1, <1>2, <1>3, <1>4, IfWrites
<1>12. Writes(before \o last, f, {})
  BY <1>10, <1>11, ConcatWrites
<1> QED BY <1>7, <1>9, <1>12 DEF f

(* The hub's writes, and those of the reset button. *)
LEMMA HubWrites ==
  ASSUME NEW id \in {0} \cup Values
  PROVE  Writes(Wrote("uuid", id), Given(0, id, 0, 0, 0, 1), FactoryKeys)
<1>1. "uuid" \in Keys /\ "uuid" \notin FactoryKeys
  BY DEF Keys, FactoryKeys
<1>2. Given(0, id, 0, 0, 0, 1)["uuid"] = id
  BY DEF Given
<1> QED BY <1>1, <1>2, GivenWrites

LEMMA ResetWrites == Writes(Wrote("hubprov", 0), Given(0, 0, 0, 0, 0, 0), FactoryKeys)
<1>1. "hubprov" \in Keys /\ "hubprov" \notin FactoryKeys
  BY DEF Keys, Flags, FactoryKeys
<1>2. Given(0, 0, 0, 0, 0, 0)["hubprov"] = 0
  BY DEF Given
<1> QED BY <1>1, <1>2, GivenWrites

LEMMA SetWrites ==
  ASSUME NEW cmd \in SetCmd
  PROVE  Writes(WroteGiven("ssid", cmd.ssid) \o WroteHub(cmd.hub) \o Wrote("hubprov", 1),
                Given(0, 0, 0, cmd.ssid, cmd.hub, 1), FactoryKeys)
<1> DEFINE f == Given(0, 0, 0, cmd.ssid, cmd.hub, 1)
<1>1. cmd.ssid \in {0} \cup Values /\ cmd.hub \in {0} \cup Values /\ 1 \in {0} \cup Values
  BY ProvisionAssumption DEF SetCmd
<1>2. f["ssid"] = cmd.ssid /\ f["hub"] = cmd.hub /\ f["hubprov"] = 1
  BY DEF Given
<1>3. /\ {"ssid", "hub", "hubprov"} \subseteq Keys
      /\ "ssid" \notin FactoryKeys /\ "hub" \notin FactoryKeys /\ "hubprov" \notin FactoryKeys
  BY DEF Keys, Flags, FactoryKeys
<1> HIDE DEF f
<1>4. Writes(WroteGiven("ssid", cmd.ssid), f, FactoryKeys)
  BY <1>1, <1>2, <1>3, GivenWrites
<1>5. Writes(WroteHub(cmd.hub), f, FactoryKeys)
  <2>1. Storable(cmd.hub) \in BOOLEAN
    BY DEF Storable
  <2> QED BY <1>1, <1>2, <1>3, <2>1, IfWrites DEF WroteHub
<1>6. Writes(Wrote("hubprov", 1), f, FactoryKeys)
  BY <1>1, <1>2, <1>3, GivenWrites
<1>7. Writes(WroteGiven("ssid", cmd.ssid) \o WroteHub(cmd.hub), f, FactoryKeys)
  BY <1>4, <1>5, ConcatWrites
<1>8. Writes((WroteGiven("ssid", cmd.ssid) \o WroteHub(cmd.hub)) \o Wrote("hubprov", 1),
             f, FactoryKeys)
  BY <1>6, <1>7, ConcatWrites
<1> QED BY <1>8 DEF f

(* The kvtext commit writes no lock. *)
LEMMA KvtextWrites ==
  ASSUME NEW d \in KvCmd
  PROVE  Writes(IdentityWrites(d) \o NetworkWrites(d),
                Given(d.vendor, d.uuid, d.key, d.ssid, d.hub, 1), {"final"})
<1> DEFINE f == Given(d.vendor, d.uuid, d.key, d.ssid, d.hub, 1)
           K == {"final"}
<1>1. /\ d.vendor \in {0} \cup Values /\ d.uuid \in {0} \cup Values /\ d.key \in {0} \cup Values
      /\ d.ssid \in {0} \cup Values /\ d.hub \in {0} \cup Values /\ 1 \in {0} \cup Values
  BY ProvisionAssumption DEF KvCmd
<1>2. /\ f["vendor"] = d.vendor /\ f["uuid"] = d.uuid /\ f["key"] = d.key
      /\ f["ssid"] = d.ssid /\ f["hub"] = d.hub /\ f["hubprov"] = 1 /\ f["factory"] = 1
  BY DEF Given
<1>3. {"vendor", "uuid", "key", "ssid", "hub", "hubprov", "factory"} \subseteq Keys
  BY DEF Keys, Flags
<1> HIDE DEF f
<1>4. Writes(IdentityWrites(d), f, K)
  <2>1. Writes(Wrote("vendor", d.vendor), f, K)
    BY <1>1, <1>2, <1>3, GivenWrites
  <2>2. Writes(WroteGiven("uuid", d.uuid), f, K)
    BY <1>1, <1>2, <1>3, GivenWrites
  <2>3. Writes(WroteGiven("key", d.key), f, K)
    BY <1>1, <1>2, <1>3, GivenWrites
  <2>4. Writes(Wrote("factory", 1), f, K)
    BY <1>1, <1>2, <1>3, GivenWrites
  <2>5. Writes(Wrote("vendor", d.vendor) \o WroteGiven("uuid", d.uuid), f, K)
    BY <2>1, <2>2, ConcatWrites
  <2>6. Writes((Wrote("vendor", d.vendor) \o WroteGiven("uuid", d.uuid))
                 \o WroteGiven("key", d.key), f, K)
    BY <2>3, <2>5, ConcatWrites
  <2>7. Writes(((Wrote("vendor", d.vendor) \o WroteGiven("uuid", d.uuid))
                 \o WroteGiven("key", d.key)) \o Wrote("factory", 1), f, K)
    BY <2>4, <2>6, ConcatWrites
  <2> QED BY <2>7, NoWrites DEF IdentityWrites
<1>5. Writes(NetworkWrites(d), f, K)
  <2> DEFINE any == d.ssid # 0 \/ d.hub # 0
  <2>1. Writes(WroteGiven("ssid", d.ssid), f, K)
    BY <1>1, <1>2, <1>3, GivenWrites
  <2>2. Writes(WroteHub(d.hub), f, K)
    <3>1. Storable(d.hub) \in BOOLEAN
      BY DEF Storable
    <3> QED BY <1>1, <1>2, <1>3, <3>1, IfWrites DEF WroteHub
  <2>3. Writes(WroteGiven("uuid", d.uuid), f, K)
    BY <1>1, <1>2, <1>3, GivenWrites
  <2>4. Writes(WroteIf(any, "hubprov", 1), f, K)
    <3>1. any \in BOOLEAN
      OBVIOUS
    <3> HIDE DEF any
    <3> QED BY <3>1, <1>1, <1>2, <1>3, IfWrites
  <2>5. Writes(WroteGiven("ssid", d.ssid) \o WroteHub(d.hub), f, K)
    BY <2>1, <2>2, ConcatWrites
  <2>6. Writes((WroteGiven("ssid", d.ssid) \o WroteHub(d.hub))
                 \o WroteGiven("uuid", d.uuid), f, K)
    BY <2>3, <2>5, ConcatWrites
  <2>7. Writes(((WroteGiven("ssid", d.ssid) \o WroteHub(d.hub))
                 \o WroteGiven("uuid", d.uuid)) \o WroteIf(any, "hubprov", 1), f, K)
    BY <2>4, <2>6, ConcatWrites
  <2> QED BY <2>7, NoWrites DEF NetworkWrites
<1>6. Writes(IdentityWrites(d) \o NetworkWrites(d), f, K)
  BY <1>4, <1>5, ConcatWrites
<1> QED BY <1>6 DEF f

-----------------------------------------------------------------------------
(* The inductive invariant.                                                *)

(* Between a reset and the first request nothing is pending; the operative
   application is reached from there and writes only to leave it. *)
Settled ==
  /\ pc \in {"boot", "operative"} => pending = <<>> /\ nvs = flash
  /\ pc = "operative" => nvs["hubprov"] = 1

IInv == TypeOK /\ LockInv /\ FlagIsVouched /\ FlagIsKept /\ Settled

(* What the factory lock says of one step. *)
LockStep == flash["final"] = 1 => \A k \in FactoryKeys : flash'[k] = flash[k]

(* NVS operations, one by one. *)
LEMMA MemoryStays ==
  ASSUME LockInv, UNCHANGED memory
  PROVE  LockInv' /\ LockStep
BY DEF LockInv, LockStep, Overlay, LockIsSeen, LockIsLast, KvtextUnlocked, memory

LEMMA AsideStep ==
  ASSUME TypeOK, LockInv, NEW writes, NEW f, Writes(writes, f, FactoryKeys), Put(writes)
  PROVE  LockInv' /\ LockStep
<1>1. pending \in Seq(Write) /\ writes \in Seq(Write) /\ Consistent(writes, f)
  BY DEF TypeOK, Writes
<1>2. Overlay'
  BY <1>1, PutOverlay DEF LockInv
<1>3. LockIsSeen' /\ LockIsLast' /\ nvs'["final"] = nvs["final"]
  BY <1>1, PutAside DEF LockInv, Writes
<1>4. KvtextUnlocked'
  BY <1>3 DEF LockInv, KvtextUnlocked, Put
<1>5. LockStep
  BY DEF Put, LockStep
<1> QED BY <1>2, <1>3, <1>4, <1>5 DEF LockInv

LEMMA UnlockedStep ==
  ASSUME TypeOK, LockInv, NEW before, NEW last \in Seq(Write), NEW f,
         Writes(before, f, {"final"}), Len(last) <= 1, f["final"] = 1,
         Consistent(before \o last, f), Put(before \o last), nvs["final"] # 1,
         wire = "kvtext" => last = <<>>
  PROVE  LockInv' /\ LockStep
<1>1. /\ pending \in Seq(Write) /\ before \in Seq(Write) /\ before \o last \in Seq(Write)
      /\ Avoids(before, {"final"})
  BY DEF TypeOK, Writes
<1>2. Overlay'
  BY <1>1, PutOverlay DEF LockInv
<1>3. LockIsSeen' /\ LockIsLast'
  BY <1>1, PutUnlocked DEF LockInv
<1>4. KvtextUnlocked'
  <2>1. CASE last = <<>>
    <3>1. before \o last = before
      BY <1>1, <2>1
    <3>2. "final" \in Keys
      BY DEF Keys, Flags
    <3>3. nvs'["final"] = nvs["final"]
      BY <1>1, <3>1, <3>2, PutReads
    <3> QED BY <3>3 DEF LockInv, KvtextUnlocked, Put
  <2>2. CASE last # <<>>
    BY <2>2 DEF KvtextUnlocked, Put
  <2> QED BY <2>1, <2>2
<1>5. LockStep
  BY DEF Put, LockStep
<1> QED BY <1>2, <1>3, <1>4, <1>5 DEF LockInv

(* With nothing pending, flash and NVS agree. *)
LEMMA EmptyPending ==
  ASSUME UNCHANGED wire, nvs' = flash', pending' = <<>>, flash'["final"] = 1 => nvs["final"] = 1, LockInv
  PROVE  LockInv'
BY DEF LockInv, Overlay, LockIsSeen, LockIsLast, KvtextUnlocked

LEMMA CommitStep ==
  ASSUME TypeOK, LockInv, UNCHANGED wire, flash' = nvs, nvs' = nvs, pending' = <<>>
  PROVE  LockInv' /\ LockStep
<1>1. LockInv'
  BY EmptyPending
<1>2. LockStep
  <2> SUFFICES ASSUME flash["final"] = 1, NEW k \in FactoryKeys
               PROVE  flash'[k] = flash[k]
    BY DEF LockStep
  <2>1. \A i \in DOMAIN pending : pending[i].key # k
    BY DEF LockInv, LockIsLast
  <2>2. k \in Keys
    BY DEF Keys, Flags, FactoryKeys
  <2> QED BY <2>1, <2>2 DEF LockInv, Overlay
<1> QED BY <1>1, <1>2

LEMMA RebootStep ==
  ASSUME LockInv, NEW program, Reboot(program)
  PROVE  LockInv' /\ LockStep
<1>1. LockInv'
  BY EmptyPending DEF Reboot, LockInv, LockIsSeen
<1>2. LockStep
  BY DEF LockStep, Reboot
<1> QED BY <1>1, <1>2

LEMMA FlushStep ==
  ASSUME TypeOK, LockInv, Flush
  PROVE  LockInv' /\ LockStep
<1> DEFINE head == pending[1]
<1>1. pending \in Seq(Write) /\ pending # <<>> /\ 1 \in DOMAIN pending /\ Head(pending) = head
  BY DEF TypeOK, Flush
<1>2. \A i \in DOMAIN pending' : i + 1 \in DOMAIN pending /\ pending'[i] = pending[i + 1] /\ i \in Nat
  BY <1>1 DEF Flush
<1>3. \A i \in DOMAIN pending : i > 1 => i - 1 \in DOMAIN pending' /\ pending'[i - 1] = pending[i]
  BY <1>1 DEF Flush
<1>4. head \in Write /\ head.key \in Keys
  <2>1. head \in Write
    BY <1>1
  <2> QED BY <2>1 DEF Write
<1>5. /\ flash'[head.key] = head.val
      /\ \A k \in Keys : k # head.key => flash'[k] = flash[k]
      /\ nvs' = nvs
  BY <1>1, <1>4 DEF Flush, TypeOK, Record
<1> HIDE DEF head
<1>6. \A i \in DOMAIN pending : i = 1 \/ i > 1
  BY <1>1
<1>7. Overlay'
  <2>1. ASSUME NEW k \in Keys, \A i \in DOMAIN pending' : pending'[i].key # k
        PROVE  nvs'[k] = flash'[k]
    <3>1. \A i \in DOMAIN pending : i > 1 => pending[i].key # k
      BY <1>3, <2>1
    <3>2. CASE k = head.key
      BY <1>1, <1>5, <3>1, <3>2 DEF LockInv, Overlay, head
    <3>3. CASE k # head.key
      <4>1. \A i \in DOMAIN pending : pending[i].key # k
        BY <1>6, <3>1, <3>3 DEF head
      <4> QED BY <1>5, <3>3, <4>1 DEF LockInv, Overlay
    <3> QED BY <3>2, <3>3
  <2>2. ASSUME NEW i \in DOMAIN pending',
               \A j \in DOMAIN pending' : j > i => pending'[j].key # pending'[i].key
        PROVE  nvs'[pending'[i].key] = pending'[i].val
    <3>1. i + 1 \in DOMAIN pending /\ pending'[i] = pending[i + 1] /\ i \in Nat
      BY <1>2
    <3>2. \A j \in DOMAIN pending : j > i + 1 => pending[j].key # pending[i + 1].key
      <4> TAKE j \in DOMAIN pending
      <4> HAVE j > i + 1
      <4>1. j \in Nat /\ j > 1 /\ j - 1 > i
        BY <1>1, <3>1
      <4>2. j - 1 \in DOMAIN pending' /\ pending'[j - 1] = pending[j]
        BY <1>3, <4>1
      <4> QED BY <2>2, <3>1, <4>1, <4>2
    <3> QED BY <1>5, <3>1, <3>2 DEF LockInv, Overlay
  <2> QED BY <2>1, <2>2 DEF Overlay
<1>8. "final" \in Keys /\ "final" \in FactoryKeys /\ FactoryKeys \subseteq Keys
  BY DEF Keys, Flags, FactoryKeys
<1>9. flash'["final"] = 1 => flash["final"] = 1 \/ head.key = "final"
  BY <1>5, <1>8
<1>10. LockIsSeen'
  BY <1>1, <1>2, <1>5, <1>9 DEF LockInv, LockIsSeen, head
<1>11. LockIsLast'
  <2>1. ASSUME NEW i \in DOMAIN pending', NEW j \in DOMAIN pending',
               i < j, pending'[i].key = "final"
        PROVE  pending'[j].key \notin FactoryKeys
    <3>1. i + 1 < j + 1
      BY <1>2, <2>1
    <3> QED BY <1>2, <2>1, <3>1 DEF LockInv, LockIsLast
  <2>2. ASSUME flash'["final"] = 1, NEW i \in DOMAIN pending'
        PROVE  pending'[i].key \notin FactoryKeys
    <3>1. 1 < i + 1
      BY <1>1, <1>2 DEF Flush, TypeOK
    <3> QED BY <1>1, <1>2, <1>9, <2>2, <3>1 DEF LockInv, LockIsLast, head
  <2> QED BY <2>1, <2>2 DEF LockIsLast
<1>12. KvtextUnlocked'
  BY <1>5 DEF LockInv, KvtextUnlocked, Flush
<1>13. LockStep
  <2> SUFFICES ASSUME flash["final"] = 1, NEW k \in FactoryKeys
               PROVE  flash'[k] = flash[k]
    BY DEF LockStep
  <2>1. head.key # k
    BY <1>1 DEF LockInv, LockIsLast, head
  <2> QED BY <1>5, <1>8, <2>1
<1> QED BY <1>7, <1>10, <1>11, <1>12, <1>13 DEF LockInv

-----------------------------------------------------------------------------
(* Each request keeps the lock.                                            *)

LEMMA FactoryKeepsLock ==
  ASSUME TypeOK, LockInv, NEW cmd \in FactoryCmds, ProvOnFactory(cmd)
  PROVE  LockInv' /\ LockStep
<1> DEFINE f == Given(cmd.vendor, cmd.uuid, cmd.key, 0, 0, 1)
           before == (FactoryFields(cmd) \o WroteGiven("key", cmd.key)) \o Wrote("done", 1)
           last == WroteIf(cmd.finalize, "final", 1)
<1>1. cmd \in FactoryCmd /\ 1 \in Values /\ 1 \in {0} \cup Values
  BY ProvisionAssumption
<1>2. /\ Writes(FactoryFields(cmd), f, {"final"})
      /\ Writes(before, f, {"final"})
      /\ Consistent(before \o last, f)
  BY <1>1, FactoryFieldsWrites DEF Writes
<1>3. last \in Seq(Write) /\ Len(last) <= 1
  <2>1. cmd.finalize \in BOOLEAN /\ "final" \in Keys
    BY <1>1 DEF FactoryCmd, Keys, Flags
  <2> QED BY <1>1, <2>1, WroteIfFacts
<1>4. f["final"] = 1
  BY DEF Given
<1>5. wire # "kvtext"
  BY DEF ProvOnFactory
<1> HIDE DEF f, before, last
<1>6. CASE Refuse(403)
  BY <1>6, MemoryStays DEF Refuse, memory
<1>7. CASE nvs["final"] # 1 /\ Put(FactoryFields(cmd))
  <2>1. FactoryFields(cmd) \in Seq(Write) /\ <<>> \in Seq(Write) /\ Len(<<>>) <= 1
    BY <1>2 DEF Writes
  <2>2. FactoryFields(cmd) \o <<>> = FactoryFields(cmd)
    BY <2>1
  <2>3. Consistent(FactoryFields(cmd) \o <<>>, f) /\ Put(FactoryFields(cmd) \o <<>>)
    BY <1>2, <1>7, <2>2 DEF Writes
  <2> QED BY <1>2, <1>4, <1>5, <1>7, <2>1, <2>3, UnlockedStep
<1>8. CASE nvs["final"] # 1 /\ Put(before \o last)
  BY <1>2, <1>3, <1>4, <1>5, <1>8, UnlockedStep
<1> QED
  BY <1>6, <1>7, <1>8 DEF ProvOnFactory, FactoryRefused, FactoryAccepted, before, last

LEMMA HubKeepsLock ==
  ASSUME TypeOK, LockInv, NEW id \in Values, ProvOnHub(id)
  PROVE  LockInv' /\ LockStep
<1>1. CASE Refuse(403)
  BY <1>1, MemoryStays DEF Refuse, memory
<1>2. CASE Put(Wrote("uuid", id))
  BY <1>2, HubWrites, AsideStep
<1> QED BY <1>1, <1>2 DEF ProvOnHub

LEMMA SetKeepsLock ==
  ASSUME TypeOK, LockInv, NEW cmd \in SetCmds, ProvOnSet(cmd)
  PROVE  LockInv' /\ LockStep
<1>1. cmd \in SetCmd
  BY ProvisionAssumption
<1> QED BY <1>1, SetWrites, AsideStep DEF ProvOnSet

LEMMA MergeType ==
  ASSUME TypeOK, NEW msg \in KvCmds
  PROVE  Merge(msg) \in KvCmd
<1>1. msg \in KvCmd /\ s_prov \in KvCmd
  BY ProvisionAssumption DEF TypeOK
<1>2. DOMAIN Empty = {"vendor", "key", "uuid", "ssid", "hub", "phase", "cmd"}
  BY DEF Empty
<1> DEFINE d == Merge(msg)
<1>3. /\ d.vendor \in {msg.vendor, s_prov.vendor} /\ d.key \in {msg.key, s_prov.key}
      /\ d.uuid \in {msg.uuid, s_prov.uuid} /\ d.ssid \in {msg.ssid, s_prov.ssid}
      /\ d.hub \in {msg.hub, s_prov.hub} /\ d.phase \in {msg.phase, s_prov.phase}
      /\ d.cmd \in {msg.cmd, s_prov.cmd}
  BY <1>2 DEF Merge
<1>4. d = [vendor |-> d.vendor, key |-> d.key, uuid |-> d.uuid, ssid |-> d.ssid,
           hub |-> d.hub, phase |-> d.phase, cmd |-> d.cmd]
  BY <1>2 DEF Merge
<1>5. /\ d.vendor \in {0} \cup Values /\ d.key \in {0} \cup Values /\ d.uuid \in {0} \cup Values
      /\ d.ssid \in {0} \cup Values /\ d.hub \in {0} \cup Values
  <2> HIDE DEF d
  <2> QED BY <1>1, <1>3 DEF KvCmd
<1>6. d.phase \in {"", "factory", "hub"} /\ d.cmd \in {"", "commit", "reset"}
  <2> HIDE DEF d
  <2> QED BY <1>1, <1>3 DEF KvCmd
<1> HIDE DEF d
<1>7. d \in KvCmd
  BY <1>4, <1>5, <1>6 DEF KvCmd
<1> QED BY <1>7 DEF d

LEMMA KvtextKeepsLock ==
  ASSUME TypeOK, LockInv, NEW msg \in KvCmds, OnKvtext(msg)
  PROVE  LockInv' /\ LockStep
<1> DEFINE d == Merge(msg)
           before == IdentityWrites(d) \o NetworkWrites(d)
           f == Given(d.vendor, d.uuid, d.key, d.ssid, d.hub, 1)
<1>1. CASE UNCHANGED memory
  BY <1>1, MemoryStays
<1>2. CASE ApplyProvisioning(d)
  <2>1. Writes(before, f, {"final"})
    BY MergeType, KvtextWrites
  <2>2. f["final"] = 1
    BY DEF Given
  <2>3. nvs["final"] # 1
    BY DEF OnKvtext, LockInv, KvtextUnlocked
  <2>4. Put(before)
    BY <1>2 DEF ApplyProvisioning
  <2> HIDE DEF before, f
  <2>5. before \in Seq(Write) /\ <<>> \in Seq(Write) /\ Len(<<>>) <= 1
    BY <2>1 DEF Writes
  <2>6. before \o <<>> = before
    BY <2>5
  <2>7. Consistent(before \o <<>>, f) /\ Put(before \o <<>>)
    BY <2>1, <2>4, <2>6 DEF Writes
  <2> QED BY <2>1, <2>2, <2>3, <2>5, <2>7, UnlockedStep
<1> QED BY <1>1, <1>2 DEF OnKvtext, Heard

LEMMA ButtonKeepsLock ==
  ASSUME TypeOK, LockInv, ResetButton
  PROVE  LockInv' /\ LockStep
BY ResetWrites, AsideStep DEF ResetButton

-----------------------------------------------------------------------------
(* Every step keeps the lock. *)
LEMMA LockStepInvariant ==
  ASSUME TypeOK, LockInv, [Next]_vars
  PROVE  LockInv' /\ LockStep
<1>1. CASE Flush
  BY <1>1, FlushStep
<1>2. CASE Crash
  BY <1>2, RebootStep DEF Crash
<1>3. CASE FactoryBoot \/ Malformed \/ ProvisionDone \/ UNCHANGED vars
  BY <1>3, MemoryStays DEF FactoryBoot, Malformed, Refuse, ProvisionDone, memory, vars
<1>4. CASE FactorySwitch
  BY <1>4, RebootStep DEF FactorySwitch
<1>5. CASE MainBoot
  <2>1. CASE Reboot("factory")
    BY <2>1, RebootStep
  <2>2. CASE UNCHANGED memory
    BY <2>2, MemoryStays
  <2> QED BY <1>5, <2>1, <2>2, Zenon DEF MainBoot, memory
<1>6. ASSUME NEW cmd \in FactoryCmds, ProvOnFactory(cmd)
      PROVE  LockInv' /\ LockStep
  BY <1>6, FactoryKeepsLock
<1>7. ASSUME NEW id \in Values, ProvOnHub(id)
      PROVE  LockInv' /\ LockStep
  BY <1>7, HubKeepsLock
<1>8. ASSUME NEW cmd \in SetCmds, ProvOnSet(cmd)
      PROVE  LockInv' /\ LockStep
  BY <1>8, SetKeepsLock
<1>9. ASSUME NEW msg \in KvCmds, OnKvtext(msg)
      PROVE  LockInv' /\ LockStep
  BY <1>9, KvtextKeepsLock
<1>10. CASE HandlerCommit
  BY <1>10, CommitStep DEF HandlerCommit, CommitNvs
<1>11. CASE ResetButton
  BY <1>11, ButtonKeepsLock
<1>12. CASE ResetCommit
  BY <1>12, CommitStep DEF ResetCommit
<1> QED
  BY <1>1, <1>2, <1>3, <1>4, <1>5, <1>6, <1>7, <1>8, <1>9, <1>10, <1>11, <1>12 DEF Next

-----------------------------------------------------------------------------
(* Types.                                                                  *)

(* Writing keeps the types of the memory; resp, pc and the rest are set by
   each handler from constants. *)
LEMMA WritesType ==
  ASSUME TypeOK, NEW writes, NEW f, NEW K, Writes(writes, f, K), Put(writes)
  PROVE  /\ nvs' \in Record /\ pending' \in Seq(Write) /\ flash' \in Record
         /\ wire' \in {"protobuf", "kvtext"}
BY PutType DEF Writes

LEMMA RebootType ==
  ASSUME TypeOK, NEW program \in Programs, boot' \in Programs, Reboot(program)
  PROVE  TypeOK'
<1>1. Empty \in KvCmd /\ <<>> \in Seq(Write)
  BY DEF Empty, KvCmd
<1>2. pc' \in Places /\ running' \in Programs /\ resp' \in {0, 204, 400, 403} /\ s_prov_done' \in BOOLEAN
  BY DEF Reboot, Places
<1>3. nvs' \in Record /\ flash' \in Record /\ pending' \in Seq(Write) /\ s_prov' \in KvCmd
  BY <1>1 DEF Reboot, TypeOK
<1>4. wire' \in {"protobuf", "kvtext"}
  BY DEF Reboot, TypeOK
<1> QED BY <1>2, <1>3, <1>4 DEF TypeOK

LEMMA FlushType ==
  ASSUME TypeOK, Flush
  PROVE  TypeOK'
<1>1. pending \in Seq(Write) /\ pending # <<>>
  BY DEF TypeOK, Flush
<1>2. Head(pending) \in Write /\ Tail(pending) \in Seq(Write)
  BY <1>1
<1>3. Head(pending).key \in Keys /\ Head(pending).val \in {0} \cup Values
  BY <1>2 DEF Write
<1>4. flash' \in Record
  BY <1>3 DEF Flush, TypeOK, Record
<1> QED BY <1>2, <1>4 DEF Flush, TypeOK

LEMMA FactoryType ==
  ASSUME TypeOK, NEW cmd \in FactoryCmds, ProvOnFactory(cmd)
  PROVE  TypeOK'
<1> DEFINE f == Given(cmd.vendor, cmd.uuid, cmd.key, 0, 0, 1)
           all == ((FactoryFields(cmd) \o WroteGiven("key", cmd.key)) \o Wrote("done", 1))
                    \o WroteIf(cmd.finalize, "final", 1)
<1>1. cmd \in FactoryCmd /\ 1 \in Values
  BY ProvisionAssumption
<1>2. Writes(FactoryFields(cmd), f, {"final"}) /\ Writes(all, f, {})
  BY <1>1, FactoryFieldsWrites
<1> HIDE DEF f, all
<1>3. CASE Refuse(403)
  BY <1>3 DEF Refuse, TypeOK, memory
<1>4. CASE Put(FactoryFields(cmd)) /\ resp' = 400 /\ UNCHANGED <<boot, running, pc, s_prov, s_prov_done>>
  BY <1>2, <1>4, WritesType DEF TypeOK
<1>5. CASE Put(all) /\ pc' = "factory" /\ UNCHANGED <<boot, running, s_prov, s_prov_done, resp>>
  BY <1>2, <1>5, WritesType DEF TypeOK, Places
<1> QED BY <1>3, <1>4, <1>5 DEF ProvOnFactory, FactoryRefused, FactoryAccepted, all

LEMMA HubType ==
  ASSUME TypeOK, NEW id \in Values, ProvOnHub(id)
  PROVE  TypeOK'
<1>1. CASE Refuse(403)
  BY <1>1 DEF Refuse, TypeOK, memory
<1>2. CASE Put(Wrote("uuid", id)) /\ resp' = 204
           /\ UNCHANGED <<boot, running, pc, s_prov, s_prov_done>>
  BY <1>2, HubWrites, WritesType DEF TypeOK
<1> QED BY <1>1, <1>2 DEF ProvOnHub

LEMMA SetType ==
  ASSUME TypeOK, NEW cmd \in SetCmds, ProvOnSet(cmd)
  PROVE  TypeOK'
<1>1. cmd \in SetCmd
  BY ProvisionAssumption
<1>2. /\ nvs' \in Record /\ pending' \in Seq(Write) /\ flash' \in Record
      /\ wire' \in {"protobuf", "kvtext"}
  BY <1>1, SetWrites, WritesType DEF ProvOnSet
<1> QED BY <1>2 DEF ProvOnSet, TypeOK, Places

LEMMA KvtextType ==
  ASSUME TypeOK, NEW msg \in KvCmds, OnKvtext(msg)
  PROVE  TypeOK'
<1> DEFINE d == Merge(msg)
<1>1. d \in KvCmd /\ Empty \in KvCmd
  BY MergeType DEF Empty, KvCmd
<1>2. s_prov' \in {d, Empty}
  BY DEF OnKvtext, Heard
<1>3. resp' \in {resp, 204} /\ pc' \in {pc, "apply"}
  BY DEF OnKvtext, Heard
<1>4. /\ nvs' \in Record /\ pending' \in Seq(Write) /\ flash' \in Record
      /\ wire' \in {"protobuf", "kvtext"}
  <2>1. CASE UNCHANGED memory
    BY <2>1 DEF memory, TypeOK
  <2>2. CASE ApplyProvisioning(d)
    BY <1>1, <2>2, KvtextWrites, WritesType DEF ApplyProvisioning
  <2> QED BY <2>1, <2>2 DEF OnKvtext, Heard
<1>5. UNCHANGED <<boot, running, s_prov_done>>
  BY DEF OnKvtext, Heard
<1> HIDE DEF d
<1> QED BY <1>1, <1>2, <1>3, <1>4, <1>5 DEF TypeOK, Places

LEMMA TypeInvariant ==
  ASSUME TypeOK, [Next]_vars
  PROVE  TypeOK'
<1>1. CASE Flush
  BY <1>1, FlushType
<1>2. CASE Crash
  BY <1>2, RebootType DEF Crash, TypeOK
<1>3. CASE FactoryBoot \/ ProvisionDone
  BY <1>3 DEF FactoryBoot, ProvisionDone, TypeOK, memory, Places
<1>4. CASE FactorySwitch
  BY <1>4, RebootType DEF FactorySwitch, TypeOK
<1>5. CASE MainBoot
  <2>1. CASE boot' = "factory" /\ Reboot("factory")
    BY <2>1, RebootType DEF Programs
  <2>2. CASE pc' = "operative" /\ UNCHANGED <<memory, boot, running, s_prov, s_prov_done, resp>>
    BY <2>2 DEF TypeOK, memory, Places
  <2> QED BY <1>5, <2>1, <2>2 DEF MainBoot
<1>6. CASE Malformed
  BY <1>6 DEF Malformed, Refuse, TypeOK, memory
<1>7. ASSUME NEW cmd \in FactoryCmds, ProvOnFactory(cmd)
      PROVE  TypeOK'
  BY <1>7, FactoryType
<1>8. ASSUME NEW id \in Values, ProvOnHub(id)
      PROVE  TypeOK'
  BY <1>8, HubType
<1>9. ASSUME NEW cmd \in SetCmds, ProvOnSet(cmd)
      PROVE  TypeOK'
  BY <1>9, SetType
<1>10. ASSUME NEW msg \in KvCmds, OnKvtext(msg)
       PROVE  TypeOK'
  BY <1>10, KvtextType
<1>11. CASE HandlerCommit
  BY <1>11 DEF HandlerCommit, CommitNvs, TypeOK, Places
<1>12. CASE ResetButton
  <2>1. /\ nvs' \in Record /\ pending' \in Seq(Write) /\ flash' \in Record
        /\ wire' \in {"protobuf", "kvtext"}
    BY <1>12, ResetWrites, WritesType DEF ResetButton
  <2> QED BY <1>12, <2>1 DEF ResetButton, TypeOK, Places
<1>13. CASE ResetCommit
  <2>1. Empty \in KvCmd /\ <<>> \in Seq(Write)
    BY DEF Empty, KvCmd
  <2>2. pc' \in Places /\ running' \in Programs /\ boot' \in Programs /\ resp' \in {0, 204, 400, 403}
    BY <1>13 DEF ResetCommit, Places, Programs
  <2>3. nvs' \in Record /\ flash' \in Record /\ pending' \in Seq(Write) /\ s_prov' \in KvCmd
    BY <1>13, <2>1 DEF ResetCommit, TypeOK
  <2>4. s_prov_done' \in BOOLEAN /\ wire' \in {"protobuf", "kvtext"}
    BY <1>13 DEF ResetCommit, TypeOK
  <2> QED BY <2>2, <2>3, <2>4 DEF TypeOK
<1>14. CASE UNCHANGED vars
  BY <1>14 DEF vars, TypeOK
<1> QED
  BY <1>1, <1>2, <1>3, <1>4, <1>5, <1>6, <1>7, <1>8, <1>9, <1>10, <1>11, <1>12, <1>13, <1>14
     DEF Next

-----------------------------------------------------------------------------
(* The flag and what it vouches for.                                       *)

(* A handler writes to a key. *)
Has(writes, k) == \E i \in DOMAIN writes : writes[i].key = k

LEMMA GivenHas ==
  ASSUME NEW k \in Keys, NEW v \in {0} \cup Values, NEW cond \in BOOLEAN
  PROVE  Has(Wrote(k, v), k) /\ (cond => Has(WroteIf(cond, k, v), k))
<1> DEFINE w == [key |-> k, val |-> v]
<1>1. Wrote(k, v) = <<w>> /\ w.key = k
  BY DEF Wrote
<1> HIDE DEF w
<1>2. Has(Wrote(k, v), k)
  BY <1>1 DEF Has
<1>3. cond => WroteIf(cond, k, v) = Wrote(k, v)
  BY DEF WroteIf
<1> QED BY <1>2, <1>3

(* What is written by a part is written by the whole. *)
LEMMA ConcatHas ==
  ASSUME NEW s \in Seq(Write), NEW t \in Seq(Write), NEW k, Has(s, k) \/ Has(t, k)
  PROVE  Has(s \o t, k)
<1>1. \A j \in DOMAIN s : j \in DOMAIN (s \o t) /\ (s \o t)[j] = s[j]
  OBVIOUS
<1>2. \A j \in DOMAIN t : Len(s) + j \in DOMAIN (s \o t) /\ (s \o t)[Len(s) + j] = t[j]
  OBVIOUS
<1> QED BY <1>1, <1>2 DEF Has

LEMMA ConcatHasFour ==
  ASSUME NEW s \in Seq(Write), NEW t \in Seq(Write), NEW u \in Seq(Write), NEW v \in Seq(Write),
         NEW k, Has(s, k) \/ Has(t, k) \/ Has(u, k) \/ Has(v, k)
  PROVE  Has(((s \o t) \o u) \o v, k)
<1>1. s \o t \in Seq(Write) /\ (s \o t) \o u \in Seq(Write)
  OBVIOUS
<1>2. Has(s, k) \/ Has(t, k) => Has(s \o t, k)
  BY ConcatHas
<1>3. Has(s \o t, k) \/ Has(u, k) => Has((s \o t) \o u, k)
  BY <1>1, ConcatHas
<1>4. Has((s \o t) \o u, k) \/ Has(v, k) => Has(((s \o t) \o u) \o v, k)
  BY <1>1, ConcatHas
<1> QED BY <1>2, <1>3, <1>4, Zenon

(* A key that is written reads as it was written. *)
LEMMA HasReads ==
  ASSUME NEW writes \in Seq(Write), NEW f, Consistent(writes, f), Put(writes), NEW k,
         Has(writes, k)
  PROVE  nvs'[k] = f[k]
<1>1. PICK i \in DOMAIN writes : writes[i].key = k
  BY DEF Has
<1> QED BY <1>1, PutReads

(* The keys a commit writes if its record has something for them. *)
Covers(writes, d) ==
  /\ d.ssid # 0 => Has(writes, "ssid")
  /\ Storable(d.hub) => Has(writes, "hub")
  /\ d.uuid # 0 => Has(writes, "uuid")
  /\ HasIdentity(d) => /\ Has(writes, "vendor") /\ Has(writes, "factory")
                       /\ d.key # 0 => Has(writes, "key")

LEMMA CoversReads ==
  ASSUME NEW d \in KvCmd, NEW writes \in Seq(Write), Covers(writes, d), Put(writes),
         Consistent(writes, Given(d.vendor, d.uuid, d.key, d.ssid, d.hub, 1))
  PROVE  Holds(nvs', d)
<1> DEFINE f == Given(d.vendor, d.uuid, d.key, d.ssid, d.hub, 1)
<1>1. /\ f["vendor"] = d.vendor /\ f["uuid"] = d.uuid /\ f["key"] = d.key
      /\ f["ssid"] = d.ssid /\ f["hub"] = d.hub /\ f["factory"] = 1
  BY DEF Given
<1>2. Consistent(writes, f)
  OBVIOUS
<1> HIDE DEF f
<1>3. \A k : Has(writes, k) => nvs'[k] = f[k]
  BY <1>2, HasReads
<1> QED BY <1>1, <1>3 DEF Covers, Holds

(* A commit writes the flag last, and with it all that could be stored. *)
LEMMA KvtextVouches ==
  ASSUME NEW d \in KvCmd
  PROVE  LET writes == IdentityWrites(d) \o NetworkWrites(d)
         IN /\ \A i \in DOMAIN writes : writes[i].key = "hubprov" => i = Len(writes)
            /\ Has(writes, "hubprov") => Covers(writes, d)
<1> DEFINE f == Given(d.vendor, d.uuid, d.key, d.ssid, d.hub, 1)
           K == {"hubprov"}
           id == IdentityWrites(d)
           a == WroteGiven("ssid", d.ssid)
           b == WroteHub(d.hub)
           c == WroteGiven("uuid", d.uuid)
           net == (a \o b) \o c
           any == d.ssid # 0 \/ d.hub # 0
           flag == WroteIf(any, "hubprov", 1)
<1>1. /\ d.vendor \in {0} \cup Values /\ d.uuid \in {0} \cup Values /\ d.key \in {0} \cup Values
      /\ d.ssid \in {0} \cup Values /\ d.hub \in {0} \cup Values /\ 1 \in {0} \cup Values
  BY ProvisionAssumption DEF KvCmd
<1>2. /\ f["vendor"] = d.vendor /\ f["uuid"] = d.uuid /\ f["key"] = d.key
      /\ f["ssid"] = d.ssid /\ f["hub"] = d.hub /\ f["factory"] = 1
  BY DEF Given
<1>3. {"vendor", "uuid", "key", "ssid", "hub", "hubprov", "factory"} \subseteq Keys
  BY DEF Keys, Flags
<1>4. any \in BOOLEAN /\ Storable(d.hub) \in BOOLEAN /\ (d.key # 0) \in BOOLEAN
      /\ (d.ssid # 0) \in BOOLEAN /\ (d.uuid # 0) \in BOOLEAN
  BY DEF Storable
<1> HIDE DEF f
<1>5. /\ Writes(id, f, K)
      /\ HasIdentity(d) => /\ Has(id, "vendor") /\ Has(id, "factory")
                           /\ d.key # 0 => Has(id, "key")
  <2> DEFINE v == Wrote("vendor", d.vendor)
             u == WroteGiven("uuid", d.uuid)
             y == WroteGiven("key", d.key)
             p == Wrote("factory", 1)
  <2>1. Writes(v, f, K) /\ Writes(u, f, K) /\ Writes(y, f, K) /\ Writes(p, f, K)
    BY <1>1, <1>2, <1>3, GivenWrites
  <2>2. Has(v, "vendor") /\ Has(p, "factory") /\ (d.key # 0 => Has(y, "key"))
    BY <1>1, <1>3, <1>4, GivenHas DEF WroteGiven
  <2>3. id = IF HasIdentity(d) THEN ((v \o u) \o y) \o p ELSE <<>>
    BY DEF IdentityWrites
  <2> HIDE DEF v, u, y, p, id
  <2>4. Writes(((v \o u) \o y) \o p, f, K)
    <3>1. Writes(v \o u, f, K)
      BY <2>1, ConcatWrites
    <3>2. Writes((v \o u) \o y, f, K)
      BY <2>1, <3>1, ConcatWrites
    <3> QED BY <2>1, <3>2, ConcatWrites
  <2>5. v \in Seq(Write) /\ u \in Seq(Write) /\ y \in Seq(Write) /\ p \in Seq(Write)
    BY <2>1 DEF Writes
  <2>6. /\ Has(((v \o u) \o y) \o p, "vendor") /\ Has(((v \o u) \o y) \o p, "factory")
        /\ d.key # 0 => Has(((v \o u) \o y) \o p, "key")
    BY <2>2, <2>5, ConcatHasFour
  <2> QED BY <2>3, <2>4, <2>6, NoWrites
<1>6. /\ Writes(a, f, K) /\ Writes(b, f, K) /\ Writes(c, f, K)
      /\ d.ssid # 0 => Has(a, "ssid")
      /\ Storable(d.hub) => Has(b, "hub")
      /\ d.uuid # 0 => Has(c, "uuid")
  <2>1. Writes(a, f, K) /\ Writes(c, f, K)
    BY <1>1, <1>2, <1>3, GivenWrites
  <2>2. Writes(b, f, K)
    BY <1>1, <1>2, <1>3, <1>4, IfWrites DEF WroteHub
  <2>3. (d.ssid # 0 => Has(a, "ssid")) /\ (d.uuid # 0 => Has(c, "uuid"))
    BY <1>1, <1>3, <1>4, GivenHas DEF WroteGiven
  <2>4. Storable(d.hub) => Has(b, "hub")
    BY <1>1, <1>3, <1>4, GivenHas DEF WroteHub
  <2> QED BY <2>1, <2>2, <2>3, <2>4
<1>7. flag \in Seq(Write) /\ Len(flag) <= 1
  BY <1>1, <1>3, <1>4, WroteIfFacts
<1>8. NetworkWrites(d) \in {<<>>, net \o flag}
  BY DEF NetworkWrites
<1> HIDE DEF id, a, b, c, flag, any
<1>9. /\ id \in Seq(Write) /\ a \in Seq(Write) /\ b \in Seq(Write) /\ c \in Seq(Write)
      /\ net \in Seq(Write) /\ Avoids(id, K) /\ Avoids(net, K)
  <2>1. Writes(a \o b, f, K)
    BY <1>6, ConcatWrites
  <2>2. Writes(net, f, K)
    BY <1>6, <2>1, ConcatWrites
  <2> QED BY <1>5, <1>6, <2>2 DEF Writes
<1>10. CASE NetworkWrites(d) = <<>>
  <2>1. id \o NetworkWrites(d) = id
    BY <1>9, <1>10
  <2>2. ~Has(id, "hubprov")
    BY <1>9 DEF Has, Avoids
  <2> QED BY <2>1, <2>2 DEF id, Has
<1>11. CASE NetworkWrites(d) = net \o flag
  <2> DEFINE writes == id \o (net \o flag)
  <2>1. /\ d.ssid # 0 => Has(net \o flag, "ssid")
        /\ Storable(d.hub) => Has(net \o flag, "hub")
        /\ d.uuid # 0 => Has(net \o flag, "uuid")
    BY <1>6, <1>7, <1>9, ConcatHasFour
  <2>2. net \o flag \in Seq(Write)
    BY <1>7, <1>9
  <2> HIDE DEF net
  <2>3. Covers(writes, d)
    BY <1>5, <1>9, <2>1, <2>2, ConcatHas DEF Covers
  <2>4. ASSUME NEW i \in DOMAIN writes, writes[i].key = "hubprov"
        PROVE  i = Len(writes)
    <3>1. \/ i \in DOMAIN id /\ writes[i] = id[i]
          \/ i - Len(id) \in DOMAIN net /\ writes[i] = net[i - Len(id)]
          \/ i - Len(id) - Len(net) \in DOMAIN flag
      BY <1>7, <1>9
    <3>2. i - Len(id) - Len(net) \in DOMAIN flag
      BY <1>9, <2>4, <3>1 DEF Avoids
    <3>3. Len(writes) = Len(id) + Len(net) + Len(flag) /\ i \in Nat
      BY <1>7, <1>9
    <3>4. i - Len(id) - Len(net) = Len(flag)
      BY <1>7, <3>2
    <3>5. Len(id) \in Nat /\ Len(net) \in Nat /\ Len(flag) \in Nat
      BY <1>7, <1>9
    <3> HIDE DEF writes
    <3> QED BY <3>3, <3>4, <3>5
  <2> QED BY <1>11, <2>3, <2>4 DEF id
<1> QED BY <1>8, <1>10, <1>11

(* A commit in a kvtext build finds nothing pending. *)
LEMMA VouchedApply ==
  ASSUME TypeOK, FlagIsVouched, NEW d \in KvCmd, ApplyProvisioning(d), s_prov' = d,
         wire = "kvtext", pc = "listen", pc' = "apply"
  PROVE  FlagIsVouched'
<1> DEFINE writes == IdentityWrites(d) \o NetworkWrites(d)
           f == Given(d.vendor, d.uuid, d.key, d.ssid, d.hub, 1)
<1>1. writes \in Seq(Write) /\ Consistent(writes, f) /\ Put(writes)
  BY KvtextWrites DEF Writes, ApplyProvisioning
<1>2. /\ \A i \in DOMAIN writes : writes[i].key = "hubprov" => i = Len(writes)
      /\ Has(writes, "hubprov") => Covers(writes, d)
  BY KvtextVouches
<1> HIDE DEF writes
<1>3. pending' = writes
  <2>1. pending = <<>> /\ pending' = pending \o writes
    BY <1>1 DEF FlagIsVouched, Put
  <2> QED BY <1>1, <2>1
<1>4. FlagWrites' \subseteq {Len(pending')}
  BY <1>2, <1>3 DEF FlagWrites
<1>5. FlagWrites' # {} => Has(writes, "hubprov")
  BY <1>3 DEF FlagWrites, Has
<1>6. Has(writes, "hubprov") => Holds(nvs', d)
  BY <1>1, <1>2, CoversReads
<1> QED BY <1>4, <1>5, <1>6 DEF FlagIsVouched, Holds

(* With nothing pending there is nothing to vouch for. *)
LEMMA VouchedNothing ==
  ASSUME pending' = <<>>
  PROVE  FlagIsVouched'
BY DEF FlagIsVouched, FlagWrites

(* A write that reaches flash. *)
LEMMA VouchedFlush ==
  ASSUME TypeOK, FlagIsVouched, Flush
  PROVE  FlagIsVouched'
<1> SUFFICES ASSUME wire = "kvtext", pc # "reset" PROVE FlagIsVouched'
  BY DEF FlagIsVouched, Flush
<1>1. pending \in Seq(Write) /\ pending # <<>> /\ pending' = Tail(pending)
  BY DEF TypeOK, Flush
<1>2. Len(pending') = Len(pending) - 1 /\ Len(pending) \in Nat
  BY <1>1
<1>3. \A i \in DOMAIN pending' : i + 1 \in DOMAIN pending /\ pending'[i] = pending[i + 1] /\ i \in Nat
  BY <1>1
<1>4. pc = "apply" /\ UNCHANGED <<pc, nvs, s_prov>>
  BY <1>1 DEF Flush, FlagIsVouched
<1>5. FlagWrites \subseteq {Len(pending)} /\ (FlagWrites # {} => Holds(nvs, s_prov))
  BY DEF FlagIsVouched
<1>6. \A i \in FlagWrites' : i + 1 \in FlagWrites /\ i \in Nat
  BY <1>3 DEF FlagWrites
<1>7. FlagWrites' \subseteq {Len(pending')}
  BY <1>2, <1>5, <1>6
<1>8. FlagWrites' # {} => Holds(nvs', s_prov')
  BY <1>4, <1>5, <1>6
<1> QED BY <1>4, <1>7, <1>8 DEF FlagIsVouched, Holds

(* Every step keeps the flag vouched for. *)
LEMMA VouchedInvariant ==
  ASSUME TypeOK, FlagIsVouched, Settled, [Next]_vars
  PROVE  FlagIsVouched'
<1>1. CASE Flush
  BY <1>1, VouchedFlush
<1>2. CASE Crash \/ FactorySwitch \/ HandlerCommit \/ ResetCommit
  BY <1>2, VouchedNothing DEF Crash, FactorySwitch, Reboot, HandlerCommit, CommitNvs, ResetCommit
<1>3. CASE wire' = "protobuf"
  BY <1>3 DEF FlagIsVouched
<1>4. wire \in {"protobuf", "kvtext"}
  BY DEF TypeOK
<1>5. CASE UNCHANGED vars
  <2>1. UNCHANGED <<memory, pc, s_prov>>
    BY <1>5 DEF vars, memory
  <2> QED BY <2>1 DEF FlagIsVouched, FlagWrites, Holds, memory
<1>6. ASSUME pending = <<>>, UNCHANGED memory
      PROVE  FlagIsVouched'
  BY <1>6, VouchedNothing DEF memory
<1>7. CASE FactoryBoot
  BY <1>6, <1>7 DEF FactoryBoot, Settled
<1>8. CASE ProvisionDone
  <2>1. wire = "kvtext" => pending = <<>>
    BY <1>8 DEF ProvisionDone, FlagIsVouched
  <2>2. UNCHANGED memory /\ UNCHANGED wire
    BY <1>8 DEF ProvisionDone, memory
  <2> QED BY <1>3, <1>4, <1>6, <2>1, <2>2
<1>9. CASE MainBoot
  <2>1. CASE Reboot("factory")
    BY <2>1, VouchedNothing DEF Reboot
  <2> QED BY <1>6, <1>9, <2>1, Zenon DEF MainBoot, memory, Settled
<1>10. CASE Malformed
  BY <1>3, <1>10 DEF Malformed, Refuse, memory
<1>11. ASSUME NEW cmd \in FactoryCmds, ProvOnFactory(cmd)
      PROVE  FlagIsVouched'
  BY <1>3, <1>11 DEF ProvOnFactory, FactoryRefused, FactoryAccepted, Refuse, Put, memory
<1>12. ASSUME NEW id \in Values, ProvOnHub(id)
      PROVE  FlagIsVouched'
  BY <1>3, <1>12 DEF ProvOnHub, Refuse, Put, memory
<1>13. ASSUME NEW cmd \in SetCmds, ProvOnSet(cmd)
      PROVE  FlagIsVouched'
  BY <1>3, <1>13 DEF ProvOnSet, Put
<1>14. ASSUME NEW msg \in KvCmds, OnKvtext(msg)
       PROVE  FlagIsVouched'
  <2> DEFINE d == Merge(msg)
  <2>1. pc = "listen" /\ wire = "kvtext"
    BY <1>14 DEF OnKvtext, Listening
  <2>2. CASE ApplyProvisioning(d) /\ s_prov' = d /\ pc' = "apply"
    BY <2>1, <2>2, MergeType, VouchedApply
  <2>3. CASE UNCHANGED memory
    BY <1>6, <2>1, <2>3 DEF FlagIsVouched
  <2> QED BY <1>14, <2>2, <2>3 DEF OnKvtext, Heard
<1>15. CASE ResetButton
  BY <1>15 DEF ResetButton, FlagIsVouched
<1> QED
  BY <1>1, <1>2, <1>5, <1>7, <1>8, <1>9, <1>10, <1>11, <1>12, <1>13, <1>14, <1>15 DEF Next

-----------------------------------------------------------------------------
(* The flag is kept until the button is pressed.                           *)

(* A handler that sets the flag, or leaves it alone. *)
LEMMA FlagPut ==
  ASSUME TypeOK, FlagIsKept, pc # "reset", pc' # "reset",
         NEW writes, NEW f, NEW K, Writes(writes, f, K), f["hubprov"] = 1, Put(writes)
  PROVE  FlagIsKept'
<1>1. pending \in Seq(Write) /\ writes \in Seq(Write) /\ Consistent(writes, f)
  BY DEF TypeOK, Writes
<1>2. "hubprov" \in Keys
  BY DEF Keys, Flags
<1>3. \A i \in DOMAIN writes : writes[i].key = "hubprov" => nvs'["hubprov"] = 1 /\ writes[i].val = 1
  BY <1>1, PutReads DEF Consistent
<1>4. nvs["hubprov"] = 1 => nvs'["hubprov"] = 1
  <2>1. CASE Avoids(writes, {"hubprov"})
    BY <1>1, <1>2, <2>1, PutReads
  <2>2. CASE ~Avoids(writes, {"hubprov"})
    BY <1>3, <2>2 DEF Avoids
  <2> QED BY <2>1, <2>2
<1>5. ASSUME NEW i \in DOMAIN pending', pending'[i].key = "hubprov"
      PROVE  pending'[i].val = 1 /\ nvs'["hubprov"] = 1
  <2>1. CASE i \in DOMAIN pending
    <3>1. pending'[i] = pending[i]
      BY <1>1, <2>1, PutPending
    <3> QED BY <1>4, <1>5, <2>1, <3>1 DEF FlagIsKept
  <2>2. CASE i - Len(pending) \in DOMAIN writes /\ i > Len(pending)
    <3> DEFINE n == i - Len(pending)
    <3>1. n \in DOMAIN writes /\ Len(pending) + n = i
      BY <1>1, <2>2
    <3>2. pending'[i] = writes[n]
      BY <1>1, <3>1, PutPending
    <3> QED BY <1>3, <1>5, <3>1, <3>2
  <2> QED BY <1>1, <2>1, <2>2, PutPending
<1>6. UNCHANGED flash
  BY DEF Put
<1> QED BY <1>4, <1>5, <1>6 DEF FlagIsKept

(* After a commit or a restart NVS and flash agree. *)
LEMMA FlagSettled ==
  ASSUME pc' # "reset", nvs' = flash', pending' = <<>>
  PROVE  FlagIsKept'
BY DEF FlagIsKept

LEMMA FlagFlush ==
  ASSUME TypeOK, FlagIsKept, Flush
  PROVE  FlagIsKept'
<1> DEFINE head == pending[1]
<1>1. pending \in Seq(Write) /\ 1 \in DOMAIN pending /\ Head(pending) = head
  BY DEF TypeOK, Flush
<1>2. \A i \in DOMAIN pending' : i + 1 \in DOMAIN pending /\ pending'[i] = pending[i + 1]
  BY <1>1 DEF Flush
<1>3. head.key \in Keys /\ "hubprov" \in Keys
  <2>1. head \in Write
    BY <1>1
  <2> QED BY <2>1 DEF Write, Keys, Flags
<1>4. /\ flash' = [flash EXCEPT ![head.key] = head.val] /\ DOMAIN flash = Keys
      /\ UNCHANGED <<nvs, pc>>
  BY <1>1 DEF Flush, TypeOK, Record
<1> HIDE DEF head
<1>5. CASE pc # "reset"
  <2>1. head.key = "hubprov" => nvs["hubprov"] = 1
    BY <1>1, <1>5 DEF FlagIsKept, head
  <2>2. flash'["hubprov"] = 1 => nvs'["hubprov"] = 1
    BY <1>3, <1>4, <1>5, <2>1 DEF FlagIsKept
  <2> QED BY <1>2, <1>4, <1>5, <2>2 DEF FlagIsKept
<1>6. CASE pc = "reset"
  BY <1>2, <1>4, <1>6 DEF FlagIsKept
<1> QED BY <1>5, <1>6

LEMMA FlagButton ==
  ASSUME TypeOK, Settled, ResetButton
  PROVE  FlagIsKept'
<1> DEFINE w == [key |-> "hubprov", val |-> 0]
<1>1. pending = <<>> /\ pc' = "reset"
  BY DEF Settled, ResetButton
<1>2. pending' = <<w>>
  BY <1>1 DEF ResetButton, Put, Wrote
<1>3. Put(Wrote("hubprov", 0)) /\ Wrote("hubprov", 0) \in Seq(Write)
      /\ Consistent(Wrote("hubprov", 0), Given(0, 0, 0, 0, 0, 0))
  BY ResetWrites DEF ResetButton, Writes
<1>4. 1 \in DOMAIN Wrote("hubprov", 0) /\ Wrote("hubprov", 0)[1].key = "hubprov"
  BY DEF Wrote
<1>5. nvs'["hubprov"] = Given(0, 0, 0, 0, 0, 0)["hubprov"]
  BY <1>3, <1>4, PutReads
<1>6. nvs'["hubprov"] = 0
  BY <1>5 DEF Given
<1> HIDE DEF w
<1>7. \A i \in DOMAIN pending' : pending'[i] = w
  BY <1>2
<1> QED BY <1>1, <1>6, <1>7 DEF FlagIsKept, w

(* Every step keeps the flag. *)
LEMMA FlagInvariant ==
  ASSUME TypeOK, Settled, FlagIsKept, [Next]_vars
  PROVE  FlagIsKept'
<1>1. CASE Flush
  BY <1>1, FlagFlush
<1>2. CASE Crash \/ FactorySwitch
  BY <1>2, FlagSettled DEF Crash, FactorySwitch, Reboot
<1>3. ASSUME UNCHANGED memory, pc # "reset", pc' # "reset"
      PROVE  FlagIsKept'
  BY <1>3 DEF FlagIsKept, memory
<1>4. CASE UNCHANGED vars
  BY <1>4 DEF FlagIsKept, vars
<1>5. CASE FactoryBoot \/ Malformed \/ ProvisionDone
  BY <1>3, <1>5 DEF FactoryBoot, Malformed, Listening, Refuse, ProvisionDone, memory
<1>6. CASE MainBoot
  <2>1. CASE Reboot("factory")
    BY <2>1, FlagSettled DEF Reboot
  <2>2. CASE pc' = "operative" /\ UNCHANGED memory
    BY <1>3, <1>6, <2>2 DEF MainBoot
  <2> QED BY <1>6, <2>1, <2>2, Zenon DEF MainBoot, memory
<1>7. ASSUME NEW cmd \in FactoryCmds, ProvOnFactory(cmd)
      PROVE  FlagIsKept'
  <2> DEFINE f == Given(cmd.vendor, cmd.uuid, cmd.key, 0, 0, 1)
             all == ((FactoryFields(cmd) \o WroteGiven("key", cmd.key)) \o Wrote("done", 1))
                      \o WroteIf(cmd.finalize, "final", 1)
  <2>1. cmd \in FactoryCmd /\ 1 \in Values
    BY ProvisionAssumption
  <2>2. Writes(FactoryFields(cmd), f, {"final"}) /\ Writes(all, f, {}) /\ f["hubprov"] = 1
    BY <2>1, FactoryFieldsWrites DEF Given
  <2>3. pc = "listen" /\ pc' \in {"listen", "factory"}
    BY <1>7 DEF ProvOnFactory, FactoryRefused, FactoryAccepted, Refuse, Listening
  <2> HIDE DEF f, all
  <2>4. UNCHANGED memory \/ Put(FactoryFields(cmd)) \/ Put(all)
    BY <1>7 DEF ProvOnFactory, FactoryRefused, FactoryAccepted, Refuse, memory, all
  <2> QED BY <1>3, <2>2, <2>3, <2>4, FlagPut
<1>8. ASSUME NEW id \in Values, ProvOnHub(id)
      PROVE  FlagIsKept'
  <2>1. Given(0, id, 0, 0, 0, 1)["hubprov"] = 1
    BY DEF Given
  <2>2. pc = "listen" /\ pc' = "listen"
    BY <1>8 DEF ProvOnHub, Refuse, Listening
  <2>3. UNCHANGED memory \/ Put(Wrote("uuid", id))
    BY <1>8 DEF ProvOnHub, Refuse, memory
  <2> QED BY <1>3, <2>1, <2>2, <2>3, HubWrites, FlagPut
<1>9. ASSUME NEW cmd \in SetCmds, ProvOnSet(cmd)
      PROVE  FlagIsKept'
  <2>1. cmd \in SetCmd
    BY ProvisionAssumption
  <2>2. Given(0, 0, 0, cmd.ssid, cmd.hub, 1)["hubprov"] = 1
    BY DEF Given
  <2>3. pc # "reset" /\ pc' # "reset"
    BY <1>9 DEF ProvOnSet, Listening
  <2> QED BY <1>9, <2>1, <2>2, <2>3, SetWrites, FlagPut DEF ProvOnSet
<1>10. ASSUME NEW msg \in KvCmds, OnKvtext(msg)
       PROVE  FlagIsKept'
  <2> DEFINE d == Merge(msg)
  <2>1. pc = "listen" /\ pc' \in {"listen", "apply"}
    BY <1>10 DEF OnKvtext, Heard, Listening
  <2>2. CASE ApplyProvisioning(d)
    <3>1. Writes(IdentityWrites(d) \o NetworkWrites(d),
                 Given(d.vendor, d.uuid, d.key, d.ssid, d.hub, 1), {"final"})
      BY MergeType, KvtextWrites
    <3>2. Given(d.vendor, d.uuid, d.key, d.ssid, d.hub, 1)["hubprov"] = 1
      BY DEF Given
    <3> HIDE DEF d
    <3> QED BY <2>1, <2>2, <3>1, <3>2, FlagPut DEF ApplyProvisioning
  <2>3. UNCHANGED memory \/ ApplyProvisioning(d)
    BY <1>10 DEF OnKvtext, Heard
  <2> QED BY <1>3, <2>1, <2>2, <2>3
<1>11. CASE HandlerCommit
  BY <1>11, FlagSettled DEF HandlerCommit, CommitNvs
<1>12. CASE ResetButton
  BY <1>12, FlagButton
<1>13. CASE ResetCommit
  BY <1>13, FlagSettled DEF ResetCommit
<1> QED
  BY <1>1, <1>2, <1>4, <1>5, <1>6, <1>7, <1>8, <1>9, <1>10, <1>11, <1>12, <1>13 DEF Next

-----------------------------------------------------------------------------
(* Theorems.                                                               *)

LEMMA SettledInvariant ==
  ASSUME Settled, [Next]_vars
  PROVE  Settled'
<1>1. CASE Flush \/ Crash \/ FactorySwitch
  BY <1>1 DEF Settled, Flush, Crash, FactorySwitch, Reboot
<1>2. CASE MainBoot
  BY <1>2 DEF Settled, MainBoot, Reboot, Needed, memory
<1>3. CASE FactoryBoot \/ Malformed \/ ProvisionDone \/ UNCHANGED vars
  BY <1>3 DEF Settled, FactoryBoot, Malformed, Listening, Refuse, ProvisionDone, memory, vars
<1>4. ASSUME NEW cmd \in FactoryCmds, ProvOnFactory(cmd)
      PROVE  Settled'
  <2>1. pc' \in {"listen", "factory"}
    BY <1>4 DEF ProvOnFactory, FactoryRefused, FactoryAccepted, Refuse, Listening
  <2> QED BY <2>1 DEF Settled
<1>5. ASSUME NEW id \in Values, ProvOnHub(id)
      PROVE  Settled'
  BY <1>5 DEF Settled, ProvOnHub, Refuse, Listening
<1>6. ASSUME NEW cmd \in SetCmds, ProvOnSet(cmd)
      PROVE  Settled'
  BY <1>6 DEF Settled, ProvOnSet
<1>7. ASSUME NEW msg \in KvCmds, OnKvtext(msg)
      PROVE  Settled'
  <2>1. pc' \in {"listen", "apply"}
    BY <1>7 DEF OnKvtext, Heard, Listening
  <2> QED BY <2>1 DEF Settled
<1>8. CASE HandlerCommit \/ ResetButton \/ ResetCommit
  BY <1>8 DEF Settled, HandlerCommit, ResetButton, ResetCommit
<1> QED BY <1>1, <1>2, <1>3, <1>4, <1>5, <1>6, <1>7, <1>8 DEF Next

LEMMA InitInvariant == Init => IInv
<1> SUFFICES ASSUME Init PROVE IInv
  OBVIOUS
<1>1. Blank \in Record /\ Provisioned \in Record
  BY ProvisionAssumption DEF Blank, Provisioned, Record
<1>2. TypeOK
  <2>1. Empty \in KvCmd /\ <<>> \in Seq(Write) /\ "boot" \in Places
    BY DEF Empty, KvCmd, Places
  <2>2. flash \in Record /\ nvs \in Record /\ pending \in Seq(Write) /\ s_prov \in KvCmd
    BY <1>1, <2>1 DEF Init
  <2>3. /\ boot \in Programs /\ running \in Programs /\ pc \in Places /\ s_prov_done \in BOOLEAN
        /\ resp \in {0, 204, 400, 403} /\ wire \in {"protobuf", "kvtext"}
    BY <2>1 DEF Init
  <2> QED BY <2>2, <2>3 DEF TypeOK
<1>3. nvs["final"] = 0
  BY DEF Init, Blank, Provisioned, Keys, Flags
<1>4. LockInv
  BY <1>3 DEF Init, LockInv, Overlay, LockIsSeen, LockIsLast, KvtextUnlocked
<1>5. Settled
  BY DEF Init, Settled
<1>6. FlagIsVouched
  BY DEF Init, FlagIsVouched, FlagWrites
<1>7. FlagIsKept
  BY DEF Init, FlagIsKept
<1> QED BY <1>2, <1>4, <1>5, <1>6, <1>7 DEF IInv

(* IInv holds in every reachable state. *)
THEOREM Invariance == Spec => []IInv
<1>1. Init => IInv
  BY InitInvariant
<1>2. IInv /\ [Next]_vars => IInv'
  BY TypeInvariant, LockStepInvariant, VouchedInvariant, FlagInvariant, SettledInvariant
  DEF IInv
<1> QED BY <1>1, <1>2, PTL DEF Spec

(* Every variable keeps its type, whatever commands arrive. *)
THEOREM TypeCorrect == Spec => []TypeOK
<1>1. IInv => TypeOK
  BY DEF IInv
<1> QED BY <1>1, Invariance, PTL

(* A finalized factory identity in flash is never changed, for every set of
   commands, any number of pending writes and either wire format. *)
THEOREM FactoryLockHolds == Spec => FactoryLock
<1>1. IInv /\ [Next]_vars
        => [flash["final"] = 1 => \A k \in FactoryKeys : flash'[k] = flash[k]]_vars
  BY LockStepInvariant DEF IInv, LockStep
<1> QED BY <1>1, Invariance, PTL DEF Spec, FactoryLock

(* The main application works on a device that is provisioned in flash. *)
THEOREM OperativeIsProvisioned == Spec => []OperativeProvisioned
<1>1. IInv => OperativeProvisioned
  BY DEF IInv, Settled, OperativeProvisioned
<1> QED BY <1>1, Invariance, PTL

(* A flag that reaches flash finds there what it vouches for. *)
LEMMA FlagStep ==
  ASSUME IInv, IInv', [Next]_vars, wire = "kvtext",
         flash["hubprov"] # 1, flash'["hubprov"] = 1
  PROVE  Holds(flash', s_prov)
<1>1. "hubprov" \in Keys /\ pending \in Seq(Write)
  BY DEF Keys, Flags, IInv, TypeOK
<1>2. ASSUME FlagWrites # {}, pc # "reset"
      PROVE  Holds(nvs, s_prov) /\ FlagWrites \subseteq {Len(pending)}
  BY <1>2 DEF IInv, FlagIsVouched
<1>3. CASE Flush
  <2> DEFINE head == pending[1]
  <2>1. 1 \in DOMAIN pending /\ Head(pending) = head /\ pending # <<>>
    BY <1>1, <1>3 DEF Flush
  <2>2. flash' = [flash EXCEPT ![head.key] = head.val] /\ DOMAIN flash = Keys
    BY <1>3, <2>1 DEF Flush, IInv, TypeOK, Record
  <2>3. pc # "reset"
    <3>1. pc = "reset" => head.val = 0 /\ head.key = "hubprov"
      BY <2>1 DEF IInv, FlagIsKept
    <3> HIDE DEF head
    <3> QED BY <1>1, <2>2, <3>1
  <2>4. head.key = "hubprov"
    <3> HIDE DEF head
    <3> QED BY <1>1, <2>2
  <2>5. 1 \in FlagWrites
    BY <2>1, <2>4 DEF FlagWrites
  <2>6. Len(pending) = 1 /\ Holds(nvs, s_prov)
    BY <1>2, <2>3, <2>5
  <2>7. pending' = <<>>
    BY <1>1, <1>3, <2>6 DEF Flush
  <2>8. \A k \in Keys : nvs'[k] = flash'[k]
    BY <2>7 DEF IInv, LockInv, Overlay
  <2>9. UNCHANGED nvs
    BY <1>3 DEF Flush
  <2> QED BY <2>6, <2>8, <2>9 DEF Holds, Keys, Flags
<1>4. CASE flash' = nvs /\ pc # "reset"
  <2>1. FlagWrites # {}
    BY <1>1, <1>4 DEF IInv, LockInv, Overlay, FlagWrites
  <2> QED BY <1>2, <1>4, <2>1 DEF Holds
<1>5. ~UNCHANGED flash
  OBVIOUS
<1>6. flash' # nvs \/ pc # "reset"
  BY DEF IInv, FlagIsKept
<1>7. Flush \/ flash' = nvs
  BY <1>5 DEF Next, vars, memory, Crash, FactoryBoot, FactorySwitch, MainBoot, Reboot, Malformed, Refuse,
     ProvOnFactory, FactoryRefused, FactoryAccepted, ProvOnHub, ProvOnSet, OnKvtext, Heard,
     ApplyProvisioning, Put, HandlerCommit, CommitNvs, ProvisionDone, ResetButton, ResetCommit
<1> QED BY <1>3, <1>4, <1>6, <1>7

(* In a kvtext build a loss of power, whenever it happens, leaves the flag in
   flash only with everything of its commit that could be stored, for every set
   of messages and of addresses that are refused. *)
THEOREM FlagComesLast == Spec => CommitBeforeFlag
<1>1. IInv /\ IInv' /\ [Next]_vars
        => [wire = "kvtext" /\ flash["hubprov"] # 1 /\ flash'["hubprov"] = 1
              => Holds(flash', s_prov)]_vars
  BY FlagStep
<1> QED BY <1>1, Invariance, PTL DEF Spec, CommitBeforeFlag

-----------------------------------------------------------------------------
(* Provision implements Provisioning.                                      *)

LEMMA ViewTypes ==
  ASSUME NEW record \in Record
  PROVE  /\ IdentityOf(record) \in Identities
         /\ SettingsOf(record) \in [Keys \ (FactoryKeys \cup {"hubprov"}) -> {0} \cup Values]
BY DEF Record, IdentityOf, SettingsOf, Identities, Keys, Flags, FactoryKeys

(* A step that neither writes to flash nor starts or ends anything. *)
LEMMA NothingSeen ==
  ASSUME UNCHANGED flash, Stage' = Stage
  PROVE  UNCHANGED Promise!vars
BY DEF Promise!vars, IdentityOf, SettingsOf

(* A restart without a commit. *)
LEMMA SeenToStop ==
  ASSUME UNCHANGED flash, Stage' = "off"
  PROVE  [Promise!Next]_Promise!vars
<1>1. IdentityOf(flash)' = IdentityOf(flash) /\ SettingsOf(flash)' = SettingsOf(flash)
  BY DEF IdentityOf, SettingsOf
<1>2. CASE Stage = "off"
  BY <1>2, NothingSeen
<1>3. CASE Stage # "off"
  BY <1>1, <1>3 DEF Promise!Next, Promise!Stop
<1> QED BY <1>2, <1>3

(* Writes that reach flash while the main application does not work. *)
LEMMA SeenToProvide ==
  ASSUME TypeOK', LockStep, Stage = "off", Stage' = "off",
         flash["hubprov"] = 1 => flash'["hubprov"] = 1
  PROVE  [Promise!Next]_Promise!vars
<1>1. /\ IdentityOf(flash)' \in Identities
      /\ SettingsOf(flash)' \in [Keys \ (FactoryKeys \cup {"hubprov"}) -> {0} \cup Values]
  <2>1. flash' \in Record
    BY DEF TypeOK
  <2>2. /\ IdentityOf(flash') \in Identities
        /\ SettingsOf(flash') \in [Keys \ (FactoryKeys \cup {"hubprov"}) -> {0} \cup Values]
    BY <2>1, ViewTypes
  <2> QED BY <2>2 DEF IdentityOf, SettingsOf
<1>2. ASSUME IdentityOf(flash) \in {id \in Identities : id["final"] = 1}
      PROVE  IdentityOf(flash)' = IdentityOf(flash)
  <2>1. flash["final"] = 1
    BY <1>2 DEF IdentityOf, FactoryKeys
  <2> QED BY <2>1 DEF LockStep, IdentityOf
<1>3. Promise!Provide
  BY <1>1, <1>2 DEF Promise!Provide
<1> QED BY <1>3 DEF Promise!Next

(* The erasure of the flag, once the button was pressed. *)
LEMMA SeenToForget ==
  ASSUME Stage = "pressed", Stage' \in {"pressed", "off"}, flash'["hubprov"] = 0,
         \A k \in Keys \ {"hubprov"} : flash'[k] = flash[k]
  PROVE  [Promise!Next]_Promise!vars
<1>1. FactoryKeys \subseteq Keys \ {"hubprov"}
  BY DEF Keys, Flags, FactoryKeys
<1>2. IdentityOf(flash)' = IdentityOf(flash) /\ SettingsOf(flash)' = SettingsOf(flash)
  BY <1>1 DEF IdentityOf, SettingsOf
<1>3. flash'["hubprov"] # 1
  OBVIOUS
<1> QED BY <1>2, <1>3 DEF Promise!Next, Promise!Forget

LEMMA FlushRefines ==
  ASSUME IInv, TypeOK', LockStep, Flush
  PROVE  [Promise!Next]_Promise!vars
<1> DEFINE head == pending[1]
<1>1. pending \in Seq(Write) /\ 1 \in DOMAIN pending /\ Head(pending) = head /\ pending # <<>>
  BY DEF IInv, TypeOK, Flush
<1>2. head.key \in Keys /\ "hubprov" \in Keys
  <2>1. head \in Write
    BY <1>1
  <2> QED BY <2>1 DEF Write, Keys, Flags
<1>3. /\ flash' = [flash EXCEPT ![head.key] = head.val] /\ DOMAIN flash = Keys
      /\ pc' = pc
  BY <1>1 DEF Flush, IInv, TypeOK, Record
<1>4. CASE pc = "reset"
  <2>1. head.key = "hubprov" /\ head.val = 0
    BY <1>1, <1>4 DEF IInv, FlagIsKept
  <2> HIDE DEF head
  <2>2. flash'["hubprov"] = 0 /\ \A k \in Keys \ {"hubprov"} : flash'[k] = flash[k]
    BY <1>2, <1>3, <2>1
  <2>3. Stage = "pressed" /\ Stage' = "pressed"
    BY <1>3, <1>4 DEF Stage
  <2> QED BY <2>2, <2>3, SeenToForget
<1>5. CASE pc # "reset"
  <2>1. head.key = "hubprov" => head.val = 1
    BY <1>1, <1>5 DEF IInv, FlagIsKept
  <2>2. pc # "operative"
    BY <1>1 DEF IInv, Settled
  <2> HIDE DEF head
  <2>3. flash["hubprov"] = 1 => flash'["hubprov"] = 1
    BY <1>2, <1>3, <2>1
  <2>4. Stage = "off" /\ Stage' = "off"
    BY <1>3, <1>5, <2>2 DEF Stage
  <2> QED BY <2>3, <2>4, SeenToProvide
<1> QED BY <1>4, <1>5

LEMMA ResetCommitRefines ==
  ASSUME IInv, ResetCommit
  PROVE  [Promise!Next]_Promise!vars
<1>1. pc = "reset" /\ flash' = nvs /\ pc' = "boot" /\ nvs["hubprov"] = 0
  BY DEF ResetCommit, IInv, FlagIsKept
<1>2. \A i \in DOMAIN pending : pending[i].key = "hubprov"
  BY <1>1 DEF IInv, FlagIsKept
<1>3. \A k \in Keys \ {"hubprov"} : nvs[k] = flash[k]
  BY <1>2 DEF IInv, LockInv, Overlay
<1>4. Stage = "pressed" /\ Stage' = "off"
  BY <1>1 DEF Stage
<1> QED BY <1>1, <1>3, <1>4, SeenToForget

(* Each step is one of Provisioning's or is not seen there. *)
LEMMA StepRefines ==
  ASSUME IInv, IInv', LockStep, [Next]_vars
  PROVE  [Promise!Next]_Promise!vars
<1> USE DEF Stage
<1>1. CASE Flush
  BY <1>1, FlushRefines DEF IInv
<1>2. CASE Crash \/ FactorySwitch
  BY <1>2, SeenToStop DEF Crash, FactorySwitch, Reboot
<1>3. ASSUME UNCHANGED flash, pc \notin {"operative", "reset"}, pc' \notin {"operative", "reset"}
      PROVE  [Promise!Next]_Promise!vars
  BY <1>3, NothingSeen
<1>4. CASE UNCHANGED vars
  BY <1>4, NothingSeen DEF vars
<1>5. CASE FactoryBoot \/ Malformed \/ ProvisionDone
  BY <1>3, <1>5 DEF FactoryBoot, Malformed, Listening, Refuse, ProvisionDone, memory
<1>6. CASE MainBoot
  <2>1. CASE Reboot("factory")
    BY <2>1, SeenToStop DEF Reboot
  <2>2. CASE ~Needed /\ pc' = "operative" /\ UNCHANGED flash
    <3>1. pc = "boot" /\ flash["hubprov"] = 1
      BY <1>6, <2>2 DEF MainBoot, Needed, IInv, Settled
    <3>2. IdentityOf(flash)' = IdentityOf(flash) /\ SettingsOf(flash)' = SettingsOf(flash)
      BY <2>2 DEF IdentityOf, SettingsOf
    <3> QED BY <2>2, <3>1, <3>2 DEF Promise!Next, Promise!Start
  <2> QED BY <1>6, <2>1, <2>2, Zenon DEF MainBoot, memory
<1>7. ASSUME NEW cmd \in FactoryCmds, ProvOnFactory(cmd)
      PROVE  [Promise!Next]_Promise!vars
  BY <1>3, <1>7 DEF ProvOnFactory, FactoryRefused, FactoryAccepted, Refuse, Put, Listening, memory
<1>8. ASSUME NEW id \in Values, ProvOnHub(id)
      PROVE  [Promise!Next]_Promise!vars
  BY <1>3, <1>8 DEF ProvOnHub, Refuse, Put, Listening, memory
<1>9. ASSUME NEW cmd \in SetCmds, ProvOnSet(cmd)
      PROVE  [Promise!Next]_Promise!vars
  BY <1>3, <1>9 DEF ProvOnSet, Put, Listening
<1>10. ASSUME NEW msg \in KvCmds, OnKvtext(msg)
       PROVE  [Promise!Next]_Promise!vars
  BY <1>3, <1>10 DEF OnKvtext, Heard, ApplyProvisioning, Put, Listening, memory
<1>11. CASE HandlerCommit
  <2>1. flash["hubprov"] = 1 => flash'["hubprov"] = 1
    BY <1>11 DEF HandlerCommit, CommitNvs, IInv, FlagIsKept
  <2> QED BY <1>11, <2>1, SeenToProvide DEF HandlerCommit, IInv
<1>12. CASE ResetButton
  <2>1. pc = "operative" /\ pc' = "reset" /\ UNCHANGED flash
    BY <1>12 DEF ResetButton, Put
  <2>2. IdentityOf(flash)' = IdentityOf(flash) /\ SettingsOf(flash)' = SettingsOf(flash)
    BY <2>1 DEF IdentityOf, SettingsOf
  <2> QED BY <2>1, <2>2 DEF Promise!Next, Promise!Press
<1>13. CASE ResetCommit
  BY <1>13, ResetCommitRefines
<1> QED
  BY <1>1, <1>2, <1>4, <1>5, <1>6, <1>7, <1>8, <1>9, <1>10, <1>11, <1>12, <1>13 DEF Next

(* The two programs, their handlers, the button and every loss of power keep what
   Provisioning promises, for every set of commands in both wire formats. *)
THEOREM Refinement == Spec => ProvisioningSpec
<1>1. Init => Promise!Init
  <2> SUFFICES ASSUME Init PROVE Promise!Init
    OBVIOUS
  <2>1. flash \in Record /\ Stage = "off"
    BY InitInvariant DEF IInv, TypeOK, Init, Stage
  <2> QED BY <2>1, ViewTypes DEF Promise!Init
<1>2. IInv /\ IInv' /\ [Next]_vars => [Promise!Next]_Promise!vars
  BY StepRefines, LockStepInvariant DEF IInv
<1> QED BY <1>1, <1>2, Invariance, PTL DEF Spec, ProvisioningSpec, Promise!Spec

=============================================================================
