--------------------------- MODULE ConfigurationProofs ---------------------------
(***************************************************************************)
(* Proofs about what a device is told and keeps: Settings, for every       *)
(* table, name, number and pattern of failing writes, and Session, for     *)
(* every length of the Bluetooth task's queue.                             *)
(*                                                                         *)
(* SettingsInv relates the calls a handler has still to make (todo) to the *)
(* RAM they come from (AsKept) and to what must be written ahead of each   *)
(* (Behind): settled in NVS, or earlier in the list.  TableInv says the    *)
(* same of a table, and holds of NVS and of what a start would find.       *)
(*                                                                         *)
(* SessionInv knows who may run a handler (HandlerIsAwaited) and that the  *)
(* stack's announcement of the characteristic is ahead of every write to   *)
(* it in the queue (WritesFollow).                                         *)
(***************************************************************************)
EXTENDS Settings, Session, FiniteSetTheorems, SequenceTheorems, TLAPS

AnnouncementKeys == {"url", "size", "sha256"}

(* The number a table has for a key of one, 0 for none. *)
Number(table, key) == IF Has(table, key) THEN table[key][1] ELSE 0

Sets(call, key) == call.op = "set" /\ call.key = key
Lists(calls, key) == \E j \in DOMAIN calls : Sets(calls[j], key)
Ahead(calls, i, key) == \E j \in DOMAIN calls : j < i /\ Sets(calls[j], key)

Full == Cardinality({k \in Keys : Has(nvs, k)}) >= MaxKeys

(* The last write of a key did not take: ESP-IDF's flash failed, or there is no
   place for it in the POSIX table, and will not be before a restart. *)
Refused(key) == backend = "esp" /\ key \in refused
Missed(key) == Refused(key) \/ (backend = "posix" /\ Full /\ ~Has(nvs, key))

Settled(key) ==
  Missed(key) \/ IF key \in AnnouncementKeys THEN Number(nvs, key) = announced ELSE Has(nvs, key)

(* The keys a handler writes before this one. *)
Before(key) ==
  IF key = "size" THEN {"url"}
  ELSE IF key = "sha256" THEN {"size"}
  ELSE IF key = "factory" THEN made ELSE {}

(* A call writes what the RAM has, as far as a start would load it; for an
   announcement, its number. *)
AsKept(call) ==
  call.op = "set" =>
    /\ call.key \in {"number", "uuid"} => call.value = <<s_id[call.key]>>
    /\ call.key = "factory" => call.value = <<1>> /\ s_id.factory
    /\ call.key = "name" =>
         /\ s_id.name = Truncated(call.value)
         /\ Len(call.value) <= NameMax \/ call.value = DefaultName
    /\ call.key \in AnnouncementKeys => call.value = <<announced>> /\ announced > 0

Behind(calls, i) ==
  calls[i].op = "set" =>
    \A key \in Before(calls[i].key) : Settled(key) \/ Ahead(calls, i, key)

Prepared(calls) == \A i \in DOMAIN calls : AsKept(calls[i]) /\ Behind(calls, i)

Saved(calls) == calls # <<>> => calls[Len(calls)].op = "commit"

(* Every value but a name is one number. *)
Single(table) ==
  \A key \in Keys \ {"name"} : Has(table, key) => table[key][1] \in Nat /\ table[key] = <<table[key][1]>>

Known(table) == \A key \in AnnouncementKeys : Number(table, key) <= announced

Ordered(table) ==
  /\ Refused("url") \/ Number(table, "size") <= Number(table, "url")
  /\ Refused("size") \/ Number(table, "sha256") <= Number(table, "size")

(* A POSIX table that has no place for a key has none for the later ones. *)
Nested(table) ==
  backend = "posix" => /\ Has(table, "size") => Has(table, "url")
                       /\ Has(table, "sha256") => Has(table, "size")

Whole(table) == Has(table, "factory") => \A key \in made : Has(table, key) \/ Refused(key)

TableInv(table) ==
  /\ Single(table)
  /\ Known(table)
  /\ Ordered(table)
  /\ Nested(table)
  /\ Whole(table)

DiskInv ==
  /\ backend = "esp" => disk = nvs
  /\ \A key \in Keys : Has(disk, key) => Has(nvs, key)
  /\ rewriting => backend = "posix" /\ AtCommit
  /\ todo = <<>> => disk = nvs \/ unsaved

RamInv == \A key \in IdentityKeys \ refused : Lists(todo, key) \/ s_id[key] = Loaded(nvs)[key]

SettingsInv ==
  /\ TypeOK
  /\ made \subseteq {"number", "name", "uuid"}
  /\ Prepared(todo)
  /\ Saved(todo)
  /\ TableInv(nvs)
  /\ TableInv(disk)
  /\ DiskInv
  /\ RamInv

-----------------------------------------------------------------------------
(* Tables.                                                                 *)

LEMMA NullIsNone == /\ MaxKeys \in Nat /\ NameMax \in Nat /\ Numbers \subseteq Nat
                    /\ DefaultName \in Value /\ Names \subseteq Value
                    /\ NULL \notin Value /\ NULL \notin Uuids
BY SettingsAssumption DEF Value

LEMMA KeysFinite == IsFiniteSet(Keys)
<1>1. IsFiniteSet({})
  BY FS_EmptySet
<1>2. IsFiniteSet({} \cup {"number"} \cup {"name"} \cup {"uuid"} \cup {"factory"})
  <2>1. IsFiniteSet({} \cup {"number"})
    BY <1>1, FS_AddElement
  <2>2. IsFiniteSet({} \cup {"number"} \cup {"name"})
    BY <2>1, FS_AddElement
  <2>3. IsFiniteSet({} \cup {"number"} \cup {"name"} \cup {"uuid"})
    BY <2>2, FS_AddElement
  <2> QED BY <2>3, FS_AddElement
<1>3. {} \cup {"number"} \cup {"name"} \cup {"uuid"} \cup {"factory"} = IdentityKeys
  BY DEF IdentityKeys
<1>4. IsFiniteSet(IdentityKeys \cup {"url"} \cup {"size"} \cup {"sha256"})
  <2>1. IsFiniteSet(IdentityKeys \cup {"url"})
    BY <1>2, <1>3, FS_AddElement
  <2>2. IsFiniteSet(IdentityKeys \cup {"url"} \cup {"size"})
    BY <2>1, FS_AddElement
  <2> QED BY <2>2, FS_AddElement
<1>5. IdentityKeys \cup {"url"} \cup {"size"} \cup {"sha256"} = Keys
  BY DEF Keys
<1> QED BY <1>4, <1>5

(* A table that is full stays full while keys are only added. *)
LEMMA FullStays ==
  ASSUME Full, \A k \in Keys : Has(nvs, k) => Has(nvs', k)
  PROVE  Full'
<1>1. PICK old \in SUBSET Keys : old = {k \in Keys : Has(nvs, k)}
  OBVIOUS
<1>2. PICK new \in SUBSET Keys : new = {k \in Keys : Has(nvs', k)}
  OBVIOUS
<1>3. old \subseteq new /\ IsFiniteSet(new)
  BY <1>1, <1>2, KeysFinite, FS_Subset
<1>4. Cardinality(old) <= Cardinality(new) /\ Cardinality(old) \in Nat /\ Cardinality(new) \in Nat
  BY <1>3, FS_Subset, FS_CardinalityType
<1>5. Cardinality(old) >= MaxKeys
  BY <1>1 DEF Full
<1>6. Cardinality(new) >= MaxKeys
  BY <1>4, <1>5, NullIsNone
<1> QED BY <1>2, <1>6 DEF Full, Has

LEMMA TruncatedType ==
  ASSUME NEW n \in Value
  PROVE  Truncated(n) \in Value /\ Len(Truncated(n)) <= NameMax
BY NullIsNone DEF Truncated, Value

(* A table without values of two numbers loads as an identity. *)
LEMMA LoadedType ==
  ASSUME NEW table \in Table, Single(table)
  PROVE  /\ Loaded(table) \in [number : Nat, name : Value, uuid : Nat, factory : BOOLEAN]
         /\ Len(Loaded(table).name) <= NameMax
<1>1. BootName(table) \in Value /\ Len(BootName(table)) <= NameMax
  BY TruncatedType, NullIsNone DEF BootName, Has, Table, Keys, IdentityKeys
<1>2. "number" \in Keys /\ "uuid" \in Keys
  BY DEF Keys, IdentityKeys
<1> QED BY <1>1, <1>2 DEF Loaded, Single

(* Nothing is wrong with an empty table. *)
LEMMA EmptyInv ==
  ASSUME announced \in Nat
  PROVE  TableInv(Empty) /\ Empty \in Table /\ \A key \in Keys : ~Has(Empty, key)
<1>1. \A key \in Keys : ~Has(Empty, key)
  BY DEF Has, Empty
<1>2. Empty \in Table
  BY DEF Empty, Table
<1>3. {"url", "size", "sha256", "factory"} \subseteq Keys
  BY DEF Keys, IdentityKeys
<1> QED
  BY <1>1, <1>2, <1>3
  DEF TableInv, Single, Known, Ordered, Nested, Whole, Number, AnnouncementKeys

(* The facts about a table that a step keeps which leaves it alone. *)
LEMMA TableStays ==
  ASSUME NEW table, TableInv(table), announced \in Nat, announced' \in Nat, announced <= announced',
         UNCHANGED <<backend, made>>, refused \subseteq refused' \/ UNCHANGED refused
  PROVE  TableInv(table)'
<1>1. Single(table)' /\ Nested(table)'
  BY DEF TableInv, Single, Nested, Has
<1>2. \A key : Refused(key) => Refused(key)'
  BY DEF Refused
<1>3. Ordered(table)' /\ Whole(table)'
  BY <1>2 DEF TableInv, Ordered, Whole, Has, Number
<1>4. Known(table)'
  <2> SUFFICES ASSUME NEW key \in AnnouncementKeys PROVE Number(table, key) <= announced'
    BY DEF Known, Number, Has
  <2>1. Number(table, key) <= announced
    BY DEF TableInv, Known
  <2>2. Number(table, key) \in Nat
    BY DEF TableInv, Single, Number, AnnouncementKeys, Keys, IdentityKeys
  <2> QED BY <2>1, <2>2
<1> QED BY <1>1, <1>3, <1>4 DEF TableInv

-----------------------------------------------------------------------------
(* The calls a handler has still to make.                                  *)

LEMMA TailFacts ==
  ASSUME NEW calls \in Seq(Call), calls # <<>>
  PROVE  /\ Tail(calls) \in Seq(Call) /\ calls[1] \in Call /\ 1 \in DOMAIN calls
         /\ Len(calls) \in Nat \ {0} /\ Len(Tail(calls)) = Len(calls) - 1
         /\ \A i \in DOMAIN Tail(calls) : /\ i \in Nat /\ i + 1 \in DOMAIN calls
                                         /\ Tail(calls)[i] = calls[i + 1]
         /\ \A i \in DOMAIN calls : i \in Nat /\ (i > 1 => i - 1 \in DOMAIN Tail(calls))
OBVIOUS

(* A call is made: what is settled stays so, and the key it wrote joins it. *)
LEMMA CallMade ==
  ASSUME todo \in Seq(Call), todo # <<>>, todo' = Tail(todo),
         Prepared(todo), Saved(todo), made \subseteq Keys,
         UNCHANGED <<s_id, announced, made>>,
         \A key \in Keys : Settled(key) \/ Sets(todo[1], key) => Settled(key)'
  PROVE  Prepared(todo)' /\ Saved(todo)'
<1>1. \A key : Before(key) \subseteq Keys
  BY DEF Before, Keys
<1>2. ASSUME NEW i \in DOMAIN todo' PROVE AsKept(todo[i])'
  <2>1. i + 1 \in DOMAIN todo /\ todo'[i] = todo[i + 1]
    BY TailFacts
  <2> QED BY <2>1 DEF Prepared, AsKept
<1>3. ASSUME NEW i \in DOMAIN todo', todo'[i].op = "set", NEW key \in Before(todo'[i].key)
      PROVE  Settled(key)' \/ Ahead(todo, i, key)'
  <2>1. i \in Nat /\ i + 1 \in DOMAIN todo /\ todo'[i] = todo[i + 1]
    BY TailFacts
  <2>2. Settled(key) \/ Ahead(todo, i + 1, key)
    BY <1>3, <2>1 DEF Prepared, Behind
  <2>3. CASE Settled(key)
    BY <1>1, <1>3, <2>3
  <2>4. CASE Ahead(todo, i + 1, key)
    <3>1. PICK j \in DOMAIN todo : j < i + 1 /\ Sets(todo[j], key)
      BY <2>4 DEF Ahead
    <3>2. CASE j = 1
      BY <1>1, <1>3, <3>1, <3>2
    <3>3. CASE j # 1
      <4>1. j \in Nat /\ j > 1
        BY <3>1, <3>3, TailFacts
      <4>2. j - 1 \in DOMAIN todo' /\ j - 1 < i /\ todo'[j - 1] = todo[j]
        BY <2>1, <3>1, <4>1, TailFacts
      <4> QED BY <3>1, <4>2 DEF Ahead, Sets
    <3> QED BY <3>2, <3>3
  <2> QED BY <2>2, <2>3, <2>4
<1>4. UNCHANGED made => \A key : Before(key)' = Before(key)
  BY DEF Before
<1>5. Prepared(todo)'
  BY <1>2, <1>3, <1>4 DEF Prepared, Behind
<1>6. Saved(todo)'
  BY TailFacts DEF Saved
<1> QED BY <1>5, <1>6

(* A key the call did not write is listed after it as before. *)
LEMMA StillListed ==
  ASSUME todo \in Seq(Call), todo # <<>>, todo' = Tail(todo),
         NEW key, Lists(todo, key), ~Sets(todo[1], key)
  PROVE  Lists(todo, key)'
<1>1. PICK j \in DOMAIN todo : Sets(todo[j], key)
  BY DEF Lists
<1>2. j > 1 /\ j \in Nat
  BY <1>1, TailFacts
<1>3. j - 1 \in DOMAIN todo' /\ todo'[j - 1] = todo[j]
  BY <1>1, <1>2, TailFacts
<1> QED BY <1>1, <1>3 DEF Lists, Sets

(* A write is never the last call. *)
LEMMA CommitFollows ==
  ASSUME todo \in Seq(Call), todo # <<>>, todo' = Tail(todo), Saved(todo), todo[1].op = "set"
  PROVE  todo' # <<>>
<1>1. ASSUME Len(todo) = 1 PROVE FALSE
  BY <1>1 DEF Saved
<1>2. Len(todo') = Len(todo) - 1 /\ Len(todo) \in Nat
  BY TailFacts
<1>3. todo' = <<>> => Len(todo') = 0
  OBVIOUS
<1> QED BY <1>1, <1>2, <1>3

-----------------------------------------------------------------------------
(* One write.                                                              *)

LEMMA SetCall ==
  ASSUME TypeOK, Write
  PROVE  \E key \in Keys, value \in Value :
           /\ todo[1] = [op |-> "set", key |-> key, value |-> value]
           /\ todo[1].key = key /\ todo[1].value = value
BY TailFacts DEF TypeOK, Write, Call

(* The value of a call is one the table can hold. *)
LEMMA ValueKept ==
  ASSUME SettingsInv, NEW key \in Keys, NEW value \in Value, todo # <<>>,
         todo[1] = [op |-> "set", key |-> key, value |-> value]
  PROVE  /\ key # "name" => value[1] \in Nat /\ value = <<value[1]>>
         /\ key \in AnnouncementKeys => value[1] = announced /\ announced > 0
         /\ key \in IdentityKeys =>
              \A table : table[key] = value => s_id[key] = Loaded(table)[key]
<1>1. AsKept(todo[1]) /\ announced \in Nat /\ s_id.number \in Nat /\ s_id.uuid \in Nat
  BY TailFacts DEF SettingsInv, TypeOK, Prepared
<1>2. /\ key \in {"number", "uuid"} => value = <<s_id[key]>>
      /\ key = "factory" => value = <<1>> /\ s_id.factory
      /\ key = "name" => /\ s_id.name = Truncated(value)
                         /\ Len(value) <= NameMax \/ value = DefaultName
      /\ key \in AnnouncementKeys => value = <<announced>> /\ announced > 0
  BY <1>1 DEF AsKept
<1>3. key # "name" => value[1] \in Nat /\ value = <<value[1]>>
  BY <1>1, <1>2 DEF Keys, IdentityKeys, AnnouncementKeys
<1>4. ASSUME NEW table, key \in IdentityKeys, table[key] = value
      PROVE  s_id[key] = Loaded(table)[key]
  <2>1. Has(table, key)
    BY <1>4, NullIsNone DEF Has
  <2>2. CASE key = "name"
    <3>1. BootName(table) = Truncated(value)
      BY <1>2, <1>4, <2>1, <2>2 DEF BootName
    <3> QED BY <1>2, <2>2, <3>1 DEF Loaded
  <2>3. CASE key = "number"
    BY <1>2, <1>4, <2>1, <2>3 DEF Loaded
  <2>4. CASE key = "uuid"
    BY <1>2, <1>4, <2>1, <2>4 DEF Loaded
  <2>5. CASE key = "factory"
    <3>1. s_id.factory = TRUE
      BY <1>2, <2>5 DEF SettingsInv, TypeOK
    <3>2. table["factory"][1] = 1
      BY <1>2, <1>4, <2>5
    <3>3. Loaded(table).factory = TRUE
      BY <2>1, <2>5, <3>2 DEF Loaded
    <3> QED BY <2>5, <3>1, <3>3
  <2> QED BY <1>4, <2>2, <2>3, <2>4, <2>5 DEF IdentityKeys
<1> QED BY <1>2, <1>3, <1>4

(* A write that takes. *)
LEMMA TakenInv ==
  ASSUME SettingsInv, NEW key \in Keys, NEW value \in Value, todo # <<>>,
         todo[1] = [op |-> "set", key |-> key, value |-> value],
         backend = "esp" \/ ~(~Has(nvs, key) /\ Full),
         nvs' = [nvs EXCEPT ![key] = value],
         disk' = IF backend = "esp" THEN nvs' ELSE disk,
         refused' = refused \ {key},
         todo' = Tail(todo),
         UNCHANGED <<backend, s_id, announced, made, rewriting, unsaved>>
  PROVE  SettingsInv'
<1> USE DEF SettingsInv
<1>1. /\ nvs \in Table /\ nvs' \in Table /\ nvs'[key] = value /\ Has(nvs', key)
      /\ \A other \in Keys \ {key} : nvs'[other] = nvs[other]
      /\ \A other \in Keys : Has(nvs, other) => Has(nvs', other)
  BY NullIsNone DEF TypeOK, Table, Has
<1>2. /\ key # "name" => value[1] \in Nat /\ value = <<value[1]>>
      /\ key \in AnnouncementKeys => value[1] = announced /\ announced > 0
      /\ key \in IdentityKeys => \A table : table[key] = value => s_id[key] = Loaded(table)[key]
  BY ValueKept
<1>3. Full => Full'
  BY <1>1, FullStays
<1>4. /\ \A other \in Keys \ {key} : Number(nvs, other)' = Number(nvs, other)
      /\ Number(nvs, key)' = value[1]
  BY <1>1 DEF Number, Has
<1>5. ASSUME NEW other \in Keys \ {key}
      PROVE  /\ Has(nvs, other)' <=> Has(nvs, other)
             /\ Refused(other)' <=> Refused(other)
             /\ Missed(other) => Missed(other)'
  <2>1. Has(nvs, other)' <=> Has(nvs, other)
    BY <1>1 DEF Has
  <2>2. Refused(other)' <=> Refused(other)
    BY DEF Refused
  <2> QED BY <1>3, <2>1, <2>2 DEF Missed
<1>6. ASSUME NEW other \in Keys, Settled(other) \/ Sets(todo[1], other)
      PROVE  Settled(other)'
  <2>1. CASE other = key
    <3>1. Has(nvs, key)'
      BY <1>1 DEF Has
    <3>2. CASE key \in AnnouncementKeys
      <4>1. Number(nvs, key)' = announced'
        BY <1>2, <1>4, <3>2
      <4> QED BY <2>1, <3>2, <4>1 DEF Settled
    <3>3. CASE key \notin AnnouncementKeys
      BY <2>1, <3>1, <3>3 DEF Settled
    <3> QED BY <3>2, <3>3
  <2>2. CASE other # key
    <3>1. Settled(other) /\ other \in Keys \ {key}
      BY <1>6, <2>2 DEF Sets
    <3>2. /\ Has(nvs, other)' <=> Has(nvs, other)
          /\ Missed(other) => Missed(other)'
      BY <1>5, <3>1
    <3>3. Number(nvs, other)' = Number(nvs, other)
      BY <1>4, <2>2
    <3> QED BY <3>1, <3>2, <3>3 DEF Settled
  <2> QED BY <2>1, <2>2
<1>7. todo \in Seq(Call) /\ made \subseteq Keys /\ announced \in Nat
  BY DEF TypeOK
<1>8. Prepared(todo)' /\ Saved(todo)'
  BY <1>6, <1>7, CallMade
<1>9. \A other \in Before(key) : Settled(other)
  <2>1. Behind(todo, 1) /\ todo[1].op = "set" /\ todo[1].key = key
    BY TailFacts, <1>7 DEF Prepared
  <2>2. \A other : ~Ahead(todo, 1, other)
    BY <1>7 DEF Ahead
  <2> QED BY <2>1, <2>2 DEF Behind
<1>10. TableInv(nvs)'
  <2>1. Single(nvs)'
    BY <1>1, <1>2 DEF TableInv, Single, Has
  <2>2. AnnouncementKeys \subseteq Keys /\ \A other \in AnnouncementKeys : Number(nvs, other) <= announced
    BY DEF AnnouncementKeys, Keys, TableInv, Known
  <2>3. Known(nvs)'
    <3> SUFFICES ASSUME NEW other \in AnnouncementKeys
                 PROVE  Number(nvs, other)' <= announced
      BY DEF Known
    <3>1. CASE other = key
      <4>1. Number(nvs, key)' = announced
        BY <1>2, <1>4, <3>1
      <4> QED BY <1>7, <3>1, <4>1
    <3>2. CASE other # key
      BY <1>4, <2>2, <3>2
    <3> QED BY <3>1, <3>2
  <2>4. {"url", "size", "sha256", "factory"} \subseteq Keys
    BY DEF Keys, IdentityKeys
  <2>5. ASSUME NEW a \in AnnouncementKeys, NEW b \in AnnouncementKeys, a # b, Before(b) = {a},
               Refused(a) \/ Number(nvs, b) <= Number(nvs, a),
               backend = "posix" => (Has(nvs, b) => Has(nvs, a))
        PROVE  /\ Refused(a)' \/ Number(nvs, b)' <= Number(nvs, a)'
               /\ backend = "posix" => (Has(nvs, b)' => Has(nvs, a)')
    <3>1. CASE key = a
      <4>1. Number(nvs, b)' <= announced /\ Number(nvs, a)' = announced
        BY <1>2, <1>4, <2>2, <2>5, <3>1
      <4>2. Has(nvs, a)'
        BY <1>1, <3>1 DEF Has
      <4> QED BY <4>1, <4>2
    <3>2. CASE key = b
      <4>1. Settled(a) /\ announced > 0 /\ Number(nvs, b)' = announced
        BY <1>2, <1>4, <1>9, <2>5, <3>2
      <4>2. Refused(a) \/ (Number(nvs, a) = announced /\ Has(nvs, a))
        <5>1. CASE Missed(a)
          BY <2>5, <3>2, <5>1 DEF Missed
        <5>2. CASE Number(nvs, a) = announced
          BY <1>7, <4>1, <5>2 DEF Number
        <5> QED BY <2>5, <4>1, <5>1, <5>2 DEF Settled
      <4>3. /\ Number(nvs, a)' = Number(nvs, a)
            /\ Has(nvs, a)' <=> Has(nvs, a)
            /\ Refused(a)' <=> Refused(a)
        BY <1>4, <1>5, <2>2, <2>5, <3>2
      <4>4. backend = "posix" => ~Refused(a)
        BY DEF Refused
      <4> QED BY <1>7, <4>1, <4>2, <4>3, <4>4
    <3>3. CASE key \notin {a, b}
      <4>1. a \in Keys \ {key} /\ b \in Keys \ {key}
        BY <2>2, <3>3
      <4>2. Number(nvs, a)' = Number(nvs, a) /\ Number(nvs, b)' = Number(nvs, b)
        BY <1>4, <4>1
      <4>3. /\ Has(nvs, a)' <=> Has(nvs, a)
            /\ Has(nvs, b)' <=> Has(nvs, b)
            /\ Refused(a)' <=> Refused(a)
        BY <1>5, <4>1
      <4> QED BY <2>5, <4>2, <4>3
    <3> QED BY <3>1, <3>2, <3>3
  <2>6. Ordered(nvs)' /\ Nested(nvs)'
    <3>1. /\ {"url", "size", "sha256"} = AnnouncementKeys
          /\ Before("size") = {"url"} /\ Before("sha256") = {"size"}
      BY DEF AnnouncementKeys, Before
    <3>2. Ordered(nvs) /\ Nested(nvs)
      BY DEF TableInv
    <3>3. /\ Refused("url")' \/ Number(nvs, "size")' <= Number(nvs, "url")'
          /\ backend = "posix" => (Has(nvs, "size")' => Has(nvs, "url")')
      BY <2>5, <3>1, <3>2 DEF Ordered, Nested
    <3>4. /\ Refused("size")' \/ Number(nvs, "sha256")' <= Number(nvs, "size")'
          /\ backend = "posix" => (Has(nvs, "sha256")' => Has(nvs, "size")')
      BY <2>5, <3>1, <3>2 DEF Ordered, Nested
    <3> QED BY <3>3, <3>4 DEF Ordered, Nested
  <2>7. Whole(nvs)'
    <3> SUFFICES ASSUME Has(nvs, "factory")', NEW k \in made
                 PROVE  Has(nvs, k)' \/ Refused(k)'
      BY DEF Whole
    <3>1. k \in Keys \ AnnouncementKeys /\ k # "factory"
      BY DEF Keys, IdentityKeys, AnnouncementKeys
    <3>2. Whole(nvs)
      BY DEF TableInv
    <3>3. Has(nvs, k) \/ Refused(k)
      <4>1. CASE key = "factory"
        <5>1. Settled(k)
          BY <1>9, <4>1 DEF Before
        <5>2. CASE Missed(k)
          BY <3>2, <4>1, <5>2 DEF Missed, Whole, Refused
        <5> QED BY <3>1, <5>1, <5>2 DEF Settled
      <4>2. CASE key # "factory"
        BY <1>5, <2>4, <3>2, <4>2 DEF Whole
      <4> QED BY <4>1, <4>2
    <3>4. CASE k = key
      BY <1>1, <3>4 DEF Has
    <3>5. CASE k # key
      BY <1>5, <3>1, <3>3, <3>5
    <3> QED BY <3>4, <3>5
  <2> QED BY <2>1, <2>3, <2>6, <2>7 DEF TableInv
<1>11. TableInv(disk)'
  <2>1. CASE backend = "esp"
    BY <1>10, <2>1 DEF TableInv, Single, Known, Ordered, Nested, Whole, Number, Has, Refused
  <2>2. CASE backend # "esp"
    <3>1. \A k : ~Refused(k) /\ ~Refused(k)'
      BY <2>2 DEF Refused
    <3> QED BY <2>2, <3>1 DEF TableInv, Single, Known, Ordered, Nested, Whole, Number, Has
  <2> QED BY <2>1, <2>2
<1>12. DiskInv'
  <2>1. ~rewriting
    BY DEF DiskInv, AtCommit
  <2>2. todo' # <<>>
    BY <1>7, CommitFollows
  <2>3. ASSUME NEW k \in Keys, Has(disk, k)' PROVE Has(nvs, k)'
    <3>1. CASE backend = "esp"
      BY <2>3, <3>1 DEF Has
    <3>2. CASE backend # "esp"
      BY <1>1, <2>3, <3>2 DEF Has, DiskInv
    <3> QED BY <3>1, <3>2
  <2> QED BY <2>1, <2>2, <2>3 DEF DiskInv
<1>13. RamInv'
  <2> SUFFICES ASSUME NEW k \in IdentityKeys \ refused'
               PROVE  Lists(todo, k)' \/ s_id[k] = Loaded(nvs)'[k]
    BY DEF RamInv
  <2>1. Loaded(nvs)' = Loaded(nvs')
    BY DEF Loaded, BootName, Has
  <2>2. CASE k = key
    BY <1>1, <1>2, <2>1, <2>2
  <2>3. CASE k # key
    <3>1. CASE s_id[k] = Loaded(nvs)[k]
      <4>1. Loaded(nvs)[k] = Loaded(nvs')[k]
        <5>1. nvs'[k] = nvs[k]
          BY <1>1, <2>3 DEF Keys
        <5> QED BY <5>1 DEF Loaded, Has, BootName, IdentityKeys
      <4> QED BY <2>1, <3>1, <4>1
    <3>2. CASE Lists(todo, k)
      BY <1>7, <2>3, <3>2, StillListed DEF Sets
    <3> QED BY <2>3, <3>1, <3>2 DEF RamInv
  <2> QED BY <2>2, <2>3
<1>14. TypeOK'
  BY <1>1, <1>7, TailFacts DEF TypeOK
<1> QED BY <1>8, <1>10, <1>11, <1>12, <1>13, <1>14

(* A write that is refused. *)
LEMMA RefusedInv ==
  ASSUME SettingsInv, NEW key \in Keys, NEW value \in Value, todo # <<>>,
         todo[1] = [op |-> "set", key |-> key, value |-> value],
         backend = "esp" \/ (~Has(nvs, key) /\ Full),
         refused' = refused \cup {key},
         todo' = Tail(todo),
         UNCHANGED <<backend, s_id, announced, made, rewriting, unsaved, nvs, disk>>
  PROVE  SettingsInv'
<1> USE DEF SettingsInv
<1>1. todo \in Seq(Call) /\ made \subseteq Keys /\ announced \in Nat /\ refused' \subseteq Keys
  BY DEF TypeOK
<1>2. (Full' <=> Full) /\ \A other : Has(nvs, other)' <=> Has(nvs, other)
  BY DEF Full, Has
<1>3. \A other : /\ Refused(other) => Refused(other)'
                 /\ Missed(other) => Missed(other)'
  BY <1>2 DEF Refused, Missed
<1>4. Missed(key)'
  BY <1>2 DEF Missed, Refused, TypeOK
<1>5. \A other : Number(nvs, other)' = Number(nvs, other)
  BY DEF Number, Has
<1>6. ASSUME NEW other \in Keys, Settled(other) \/ Sets(todo[1], other)
      PROVE  Settled(other)'
  <2>1. CASE other = key
    BY <1>4, <2>1 DEF Settled
  <2>2. CASE other # key
    <3>1. Settled(other)
      BY <1>6, <2>2 DEF Sets
    <3> QED BY <1>2, <1>3, <1>5, <3>1 DEF Settled
  <2> QED BY <2>1, <2>2
<1>7. Prepared(todo)' /\ Saved(todo)'
  BY <1>1, <1>6, CallMade
<1>8. \A table : TableInv(table) => TableInv(table)'
  BY <1>1, TableStays
<1>9. TableInv(nvs)' /\ TableInv(disk)'
  BY <1>8 DEF TableInv, Single, Known, Ordered, Nested, Whole, Number, Has, Refused
<1>10. DiskInv'
  <2>1. ~rewriting
    BY DEF DiskInv, AtCommit
  <2>2. todo' # <<>>
    BY <1>1, CommitFollows
  <2> QED BY <1>2, <2>1, <2>2 DEF DiskInv, Has
<1>11. RamInv'
  <2> SUFFICES ASSUME NEW k \in IdentityKeys \ refused'
               PROVE  Lists(todo, k)' \/ s_id[k] = Loaded(nvs)'[k]
    BY DEF RamInv
  <2>1. Loaded(nvs)' = Loaded(nvs)
    BY DEF Loaded, BootName, Has
  <2>2. CASE Lists(todo, k)
    BY <1>1, <2>2, StillListed DEF Sets
  <2> QED BY <2>1, <2>2 DEF RamInv
<1>12. TypeOK'
  BY <1>1, TailFacts DEF TypeOK
<1> QED BY <1>7, <1>9, <1>10, <1>11, <1>12

LEMMA WriteInv ==
  ASSUME SettingsInv, Write
  PROVE  SettingsInv'
<1>1. PICK key \in Keys, value \in Value :
        /\ todo[1] = [op |-> "set", key |-> key, value |-> value]
        /\ todo[1].key = key /\ todo[1].value = value
  BY SetCall DEF SettingsInv
<1>2. /\ todo # <<>> /\ todo' = Tail(todo)
      /\ UNCHANGED <<backend, s_id, announced, made, rewriting, unsaved>>
  BY DEF Write, Done
<1>3. CASE /\ backend = "esp" \/ ~(~Has(nvs, key) /\ Full)
           /\ nvs' = [nvs EXCEPT ![key] = value]
           /\ disk' = IF backend = "esp" THEN nvs' ELSE disk
           /\ refused' = refused \ {key}
  BY <1>1, <1>2, <1>3, TakenInv
<1>4. CASE /\ backend = "esp" \/ (~Has(nvs, key) /\ Full)
           /\ refused' = refused \cup {key}
           /\ UNCHANGED <<nvs, disk>>
  BY <1>1, <1>2, <1>4, RefusedInv
<1> QED BY <1>1, <1>3, <1>4 DEF Write, Full

-----------------------------------------------------------------------------
(* One commit.                                                             *)

(* A commit leaves the values in NVS, and its call is made. *)
LEMMA CommittedInv ==
  ASSUME SettingsInv, AtCommit, todo' = Tail(todo), rewriting' = FALSE,
         UNCHANGED <<backend, s_id, announced, made, nvs, refused>>,
         unsaved' \in BOOLEAN,
         disk' = nvs \/ (UNCHANGED disk /\ unsaved')
  PROVE  SettingsInv'
<1> USE DEF SettingsInv
<1>1. todo \in Seq(Call) /\ todo # <<>> /\ todo[1].op = "commit" /\ made \subseteq Keys
      /\ announced \in Nat
  BY DEF TypeOK, AtCommit
<1>2. (Full' <=> Full) /\ (\A other : Has(nvs, other)' <=> Has(nvs, other))
      /\ \A other : Number(nvs, other)' = Number(nvs, other)
  BY DEF Full, Has, Number
<1>3. \A other : (Refused(other)' <=> Refused(other)) /\ (Missed(other)' <=> Missed(other))
  BY <1>2 DEF Refused, Missed
<1>4. ASSUME NEW other \in Keys, Settled(other) \/ Sets(todo[1], other)
      PROVE  Settled(other)'
  BY <1>1, <1>2, <1>3, <1>4 DEF Settled, Sets
<1>5. Prepared(todo)' /\ Saved(todo)'
  BY <1>1, <1>4, CallMade
<1>6. TableInv(nvs)' /\ TableInv(disk)'
  <2>1. \A table : TableInv(table) => TableInv(table)'
    BY <1>1, TableStays
  <2> QED BY <2>1 DEF TableInv, Single, Known, Ordered, Nested, Whole, Number, Has, Refused
<1>7. DiskInv'
  BY DEF DiskInv, Has
<1>8. RamInv'
  <2> SUFFICES ASSUME NEW k \in IdentityKeys \ refused
               PROVE  Lists(todo, k)' \/ s_id[k] = Loaded(nvs)'[k]
    BY DEF RamInv
  <2>1. Loaded(nvs)' = Loaded(nvs)
    BY DEF Loaded, BootName, Has
  <2>2. CASE Lists(todo, k)
    BY <1>1, <2>2, StillListed DEF Sets
  <2> QED BY <2>1, <2>2 DEF RamInv
<1>9. TypeOK'
  BY <1>1, TailFacts DEF TypeOK
<1> QED BY <1>5, <1>6, <1>7, <1>8, <1>9

LEMMA CommitInv ==
  ASSUME SettingsInv, CommitEsp \/ OpenFails \/ Rewrite
  PROVE  SettingsInv'
<1>1. CASE CommitEsp
  BY <1>1, CommittedInv DEF CommitEsp, Done, store, SettingsInv, DiskInv, TypeOK
<1>2. CASE OpenFails
  BY <1>2, CommittedInv DEF OpenFails, Done, store, SettingsInv, DiskInv, TypeOK
<1>3. CASE Rewrite
  BY <1>3, CommittedInv DEF Rewrite, Done, SettingsInv, DiskInv, TypeOK
<1> QED BY <1>1, <1>2, <1>3

LEMMA TruncateInv ==
  ASSUME SettingsInv, Truncate
  PROVE  SettingsInv'
<1> USE DEF SettingsInv
<1>1. /\ AtCommit /\ backend = "posix" /\ rewriting' = TRUE /\ disk' = Empty
      /\ UNCHANGED <<backend, s_id, nvs, todo, announced, refused, unsaved, made>>
  BY DEF Truncate
<1>2. announced \in Nat /\ Empty \in Table /\ \A key \in Keys : ~Has(Empty, key)
  BY EmptyInv DEF TypeOK
<1>3. TableInv(disk)'
  BY <1>1, <1>2, EmptyInv
  DEF TableInv, Single, Known, Ordered, Nested, Whole, Number, Has, Refused
<1>4. TableInv(nvs)'
  BY <1>1 DEF TableInv, Single, Known, Ordered, Nested, Whole, Number, Has, Refused
<1>5. DiskInv'
  BY <1>1, <1>2 DEF DiskInv, AtCommit, Has
<1>6. Saved(todo)' /\ RamInv'
  BY <1>1 DEF Saved, RamInv, Lists, Sets, Loaded, BootName, Has
<1>7. Prepared(todo)'
  BY <1>1 DEF Prepared, AsKept, Behind, Before, Settled, Missed, Refused, Full, Number, Has, Ahead,
              Sets
<1>8. TypeOK'
  BY <1>1, <1>2 DEF TypeOK
<1> QED BY <1>1, <1>3, <1>4, <1>5, <1>6, <1>7, <1>8

-----------------------------------------------------------------------------
(* A restart.                                                              *)

LEMMA RestartInv ==
  ASSUME SettingsInv, Restart
  PROVE  SettingsInv'
<1> USE DEF SettingsInv
<1>1. PICK table \in {disk, Empty} :
        /\ nvs' = table /\ disk' = table /\ s_id' = Loaded(table)
        /\ rewriting' = FALSE /\ todo' = <<>> /\ unsaved' = FALSE
        /\ UNCHANGED <<backend, announced, refused, made>>
  BY DEF Restart, Found
<1>2. TableInv(table) /\ table \in Table /\ announced \in Nat
  BY EmptyInv DEF TypeOK
<1>3. TableInv(nvs)' /\ TableInv(disk)'
  BY <1>1, <1>2 DEF TableInv, Single, Known, Ordered, Nested, Whole, Number, Has, Refused
<1>4. <<>> \in Seq(Call)
  OBVIOUS
<1>5. Prepared(todo)' /\ Saved(todo)'
  BY <1>1 DEF Prepared, Saved
<1>6. DiskInv'
  BY <1>1 DEF DiskInv, Has
<1>7. RamInv'
  BY <1>1 DEF RamInv, Loaded, BootName, Has
<1>8. TypeOK'
  <2>1. /\ s_id' \in [number : Nat, name : Value, uuid : Nat, factory : BOOLEAN]
        /\ Len(s_id'.name) <= NameMax
    BY <1>1, <1>2, LoadedType DEF TableInv
  <2> QED BY <1>1, <1>2, <1>4, <2>1 DEF TypeOK
<1> QED BY <1>1, <1>3, <1>5, <1>6, <1>7, <1>8

-----------------------------------------------------------------------------
(* A handler.                                                              *)

(* The calls of a handler, so far: the last of them is listed too. *)
LEMMA OneMore ==
  ASSUME NEW calls \in Seq(Call), NEW call \in Call,
         Prepared(calls)', AsKept(call)',
         call.op = "set" => \A key \in Before(call.key)' : Settled(key)' \/ Lists(calls, key)
  PROVE  LET longer == calls \o <<call>>
         IN  /\ longer \in Seq(Call)
             /\ longer # <<>> /\ longer[Len(longer)] = call
             /\ Prepared(longer)'
             /\ \A key : Lists(longer, key) <=> Lists(calls, key) \/ Sets(call, key)
<1>1. PICK longer \in Seq(Call) : longer = calls \o <<call>>
  <2>1. <<call>> \in Seq(Call)
    OBVIOUS
  <2> QED BY <2>1, ConcatProperties
<1>2. /\ Len(calls) \in Nat /\ Len(longer) = Len(calls) + 1 /\ DOMAIN longer = 1 .. Len(calls) + 1
      /\ DOMAIN calls = 1 .. Len(calls)
      /\ \A i \in DOMAIN calls : longer[i] = calls[i]
      /\ longer[Len(calls) + 1] = call
  BY <1>1
<1>3. ASSUME NEW i \in DOMAIN longer
      PROVE  AsKept(longer[i])' /\ Behind(longer, i)'
  <2>1. CASE i \in DOMAIN calls
    <3>1. longer[i] = calls[i] /\ AsKept(calls[i])' /\ Behind(calls, i)'
      BY <1>2, <2>1 DEF Prepared
    <3>2. \A key : Ahead(calls, i, key) => Ahead(longer, i, key)
      BY <1>2, <2>1 DEF Ahead, Sets
    <3>3. Behind(longer, i)'
      BY <3>1, <3>2 DEF Behind, Ahead
    <3>4. AsKept(longer[i])'
      BY <3>1 DEF AsKept
    <3> QED BY <3>3, <3>4
  <2>2. CASE i = Len(calls) + 1
    <3>1. longer[i] = call
      BY <1>2, <2>2
    <3>2. \A key : Lists(calls, key) => Ahead(longer, i, key)
      BY <1>2, <2>2 DEF Ahead, Lists, Sets
    <3>3. Behind(longer, i)'
      BY <3>1, <3>2 DEF Behind, Ahead
    <3>4. AsKept(longer[i])'
      BY <3>1 DEF AsKept
    <3> QED BY <3>3, <3>4
  <2> QED BY <1>2, <2>1, <2>2
<1>4. Prepared(longer)'
  BY <1>3 DEF Prepared
<1>5. ASSUME NEW key PROVE Lists(longer, key) <=> Lists(calls, key) \/ Sets(call, key)
  BY <1>2 DEF Lists, Sets
<1> QED BY <1>1, <1>2, <1>4, <1>5

LEMMA NoneYet ==
  /\ <<>> \in Seq(Call)
  /\ Prepared(<<>>)'
  /\ \A key : ~Lists(<<>>, key)
  /\ \A calls \in Seq(Call) : calls \o <<>> = calls /\ <<>> \o calls = calls
BY DEF Prepared, Lists

LEMMA CallTypes ==
  /\ [op |-> "commit"] \in Call
  /\ \A key \in Keys, value \in Value : [op |-> "set", key |-> key, value |-> value] \in Call
  /\ \A n \in Nat : <<n>> \in Value
BY DEF Call, Value

(* The calls, and one that sets the key behind them. *)
SetAfter(longer, calls, key, value) ==
  /\ longer = calls \o Set(key, value)
  /\ Prepared(longer)
  /\ \A other : Lists(longer, other) <=> Lists(calls, other) \/ other = key

LEMMA SetFollows ==
  ASSUME NEW calls \in Seq(Call), NEW key \in Keys, NEW value \in Value,
         Prepared(calls)',
         AsKept([op |-> "set", key |-> key, value |-> value])',
         \A other \in Before(key)' : Settled(other)' \/ Lists(calls, other)
  PROVE  \E longer \in Seq(Call) : SetAfter(longer, calls, key, value)'
<1>1. PICK call \in Call : call = [op |-> "set", key |-> key, value |-> value]
  BY CallTypes
<1>2. call.op = "set" /\ call.key = key /\ \A other : Sets(call, other) <=> other = key
  BY <1>1 DEF Sets
<1>3. AsKept(call)'
  BY <1>1 DEF AsKept
<1>4. Set(key, value) = <<call>>
  BY <1>1 DEF Set
<1>5. PICK longer \in Seq(Call) :
        /\ longer = calls \o <<call>> /\ Prepared(longer)'
        /\ \A other : Lists(longer, other) <=> Lists(calls, other) \/ Sets(call, other)
  BY <1>2, <1>3, OneMore
<1>6. SetAfter(longer, calls, key, value)'
  BY <1>2, <1>4, <1>5 DEF SetAfter, Lists, Sets
<1> QED BY <1>6

LEMMA CommitCloses ==
  ASSUME NEW calls \in Seq(Call), Prepared(calls)'
  PROVE  \E longer \in Seq(Call) :
           /\ longer = calls \o Commit
           /\ longer # <<>> /\ longer[Len(longer)].op = "commit"
           /\ Prepared(longer)'
           /\ \A other : Lists(longer, other) <=> Lists(calls, other)
<1>1. PICK call \in Call : call = [op |-> "commit"]
  BY CallTypes
<1>2. call.op = "commit" /\ \A other : ~Sets(call, other)
  BY <1>1 DEF Sets
<1>3. AsKept(call)'
  BY <1>2 DEF AsKept
<1>4. Commit = <<call>>
  BY <1>1 DEF Commit
<1> QED BY <1>2, <1>3, <1>4, OneMore

LEMMA StoredFollows ==
  ASSUME NEW calls \in Seq(Call), NEW key \in Keys, NEW value \in Value,
         Prepared(calls)',
         AsKept([op |-> "set", key |-> key, value |-> value])',
         \A other \in Before(key)' : Settled(other)' \/ Lists(calls, other)
  PROVE  \E longer \in Seq(Call) :
           /\ longer = calls \o Stored(key, value)
           /\ longer # <<>> /\ longer[Len(longer)].op = "commit"
           /\ Prepared(longer)'
           /\ \A other : Lists(longer, other) <=> Lists(calls, other) \/ other = key
<1>1. PICK most \in Seq(Call) : SetAfter(most, calls, key, value)'
  BY SetFollows
<1>2. PICK longer \in Seq(Call) :
        /\ longer = most \o Commit /\ longer # <<>> /\ longer[Len(longer)].op = "commit"
        /\ Prepared(longer)'
        /\ \A other : Lists(longer, other) <=> Lists(most, other)
  <2>1. most \in Seq(Call) /\ Prepared(most)'
    BY <1>1 DEF SetAfter
  <2> QED BY ONLY <2>1, CommitCloses
<1>3. Set(key, value) \in Seq(Call) /\ Commit \in Seq(Call)
  BY CallTypes DEF Set, Commit
<1>4. longer = calls \o Stored(key, value)
  <2>1. longer = (calls \o Set(key, value)) \o Commit
    BY <1>1, <1>2 DEF SetAfter
  <2>2. (calls \o Set(key, value)) \o Commit = calls \o (Set(key, value) \o Commit)
    BY <1>3, ConcatAssociative
  <2> QED BY <2>1, <2>2 DEF Stored
<1>5. \A other : Lists(most, other) <=> Lists(calls, other) \/ other = key
  BY <1>1 DEF SetAfter, Lists, Sets
<1> QED BY <1>2, <1>4, <1>5

(* A handler changes the RAM where it will write, and keeps to the order of its
   calls. *)
LEMMA BeginInv ==
  ASSUME SettingsInv, todo = <<>>, todo' \in Seq(Call), Prepared(todo)', Saved(todo)',
         todo' # <<>>,
         s_id' \in [number : Nat, name : Value, uuid : Nat, factory : BOOLEAN],
         Len(s_id'.name) <= NameMax,
         \A key \in IdentityKeys : s_id'[key] = s_id[key] \/ Lists(todo, key)',
         announced' \in 0 .. MaxAnnounced, announced <= announced',
         made' \subseteq {"number", "name", "uuid"},
         made' = made \/ ~Has(nvs, "factory"),
         UNCHANGED <<backend, store, refused, unsaved>>
  PROVE  SettingsInv'
<1> USE DEF SettingsInv
<1>1. UNCHANGED <<nvs, disk, rewriting>> /\ announced \in Nat /\ announced' \in Nat
  BY DEF store, TypeOK
<1>2. ASSUME NEW table, TableInv(table), Has(table, "factory") => Has(nvs, "factory")
      PROVE  TableInv(table)'
  <2>1. CASE made' = made
    BY <1>1, <1>2, <2>1, TableStays
  <2>2. CASE ~Has(nvs, "factory")
    <3>1. Whole(table)'
      BY <1>2, <2>2 DEF Whole, Has
    <3>2. Single(table)' /\ Nested(table)' /\ Ordered(table)'
      BY <1>2 DEF TableInv, Single, Nested, Ordered, Refused, Number, Has
    <3>3. Known(table)'
      <4> SUFFICES ASSUME NEW key \in AnnouncementKeys PROVE Number(table, key) <= announced'
        BY DEF Known, Number, Has
      <4>1. Number(table, key) <= announced
        BY <1>2 DEF TableInv, Known
      <4>2. Number(table, key) \in Nat
        BY <1>2 DEF TableInv, Single, Number, AnnouncementKeys, Keys, IdentityKeys
      <4> QED BY <1>1, <4>1, <4>2
    <3> QED BY <3>1, <3>2, <3>3 DEF TableInv
  <2> QED BY <2>1, <2>2
<1>3. TableInv(nvs)' /\ TableInv(disk)'
  <2>1. Has(disk, "factory") => Has(nvs, "factory")
    BY DEF DiskInv, Keys, IdentityKeys
  <2> QED BY <1>1, <1>2, <2>1
          DEF TableInv, Single, Known, Ordered, Nested, Whole, Number, Has, Refused
<1>4. DiskInv'
  BY <1>1 DEF DiskInv, AtCommit, Has
<1>5. RamInv'
  <2> SUFFICES ASSUME NEW k \in IdentityKeys \ refused
               PROVE  Lists(todo, k)' \/ s_id'[k] = Loaded(nvs)'[k]
    BY DEF RamInv
  <2>1. Loaded(nvs)' = Loaded(nvs)
    BY <1>1 DEF Loaded, BootName, Has
  <2>2. s_id[k] = Loaded(nvs)[k]
    BY DEF RamInv, Lists
  <2> QED BY <2>1, <2>2
<1>6. TypeOK'
  BY <1>1 DEF TypeOK, Keys, IdentityKeys
<1> QED BY <1>3, <1>4, <1>5, <1>6

(* A handler that stores one field. *)
LEMMA FieldInv ==
  ASSUME SettingsInv, NEW key \in {"number", "name", "uuid"}, NEW value \in Value, NEW identity,
         Begin(identity, Stored(key, value)), UNCHANGED <<announced, made>>,
         identity \in [number : Nat, name : Value, uuid : Nat, factory : BOOLEAN],
         Len(identity.name) <= NameMax,
         \A other \in IdentityKeys \ {key} : identity[other] = s_id[other],
         AsKept([op |-> "set", key |-> key, value |-> value])'
  PROVE  SettingsInv'
<1>1. /\ todo = <<>> /\ s_id' = identity /\ todo' = Stored(key, value)
      /\ UNCHANGED <<backend, store, refused, unsaved, announced, made>>
  BY DEF Begin
<1>2. key \in Keys /\ Before(key)' = {}
  BY DEF Keys, IdentityKeys, Before
<1>3. PICK calls \in Seq(Call) : calls = <<>>
  BY NoneYet
<1>4. Prepared(calls)' /\ Stored(key, value) = calls \o Stored(key, value)
  <2>1. Prepared(calls)'
    BY <1>3, NoneYet DEF Prepared
  <2>2. Stored(key, value) \in Seq(Call)
    BY <1>2, CallTypes DEF Stored, Set, Commit
  <2> QED BY <1>3, <2>1, <2>2, NoneYet
<1>5. PICK longer \in Seq(Call) :
        /\ longer = calls \o Stored(key, value)
        /\ longer # <<>> /\ longer[Len(longer)].op = "commit"
        /\ Prepared(longer)' /\ Lists(longer, key)
  BY <1>2, <1>4, StoredFollows
<1>6. /\ todo' \in Seq(Call) /\ todo' # <<>> /\ Saved(todo)' /\ Prepared(todo)'
      /\ Lists(todo, key)'
  BY <1>1, <1>4, <1>5 DEF Saved, Prepared, Behind, Ahead, Lists
<1> QED BY <1>1, <1>6, BeginInv DEF SettingsInv, TypeOK

LEMMA SetUuidInv ==
  ASSUME SettingsInv, NEW u \in Uuids, SetUuid(u)
  PROVE  SettingsInv'
<1>1. PICK identity : identity = [s_id EXCEPT !.uuid = u]
  OBVIOUS
<1>2. /\ identity \in [number : Nat, name : Value, uuid : Nat, factory : BOOLEAN]
      /\ identity.name = s_id.name /\ identity.uuid = u
      /\ \A other \in IdentityKeys \ {"uuid"} : identity[other] = s_id[other]
  BY <1>1 DEF SettingsInv, TypeOK, IdentityKeys, Uuids
<1>3. <<u>> \in Value
  BY CallTypes DEF Uuids
<1>4. Begin(identity, Stored("uuid", <<u>>)) /\ UNCHANGED <<announced, made>> /\ s_id' = identity
  BY <1>1 DEF SetUuid, Begin
<1>5. AsKept([op |-> "set", key |-> "uuid", value |-> <<u>>])'
  BY <1>2, <1>4 DEF AsKept, AnnouncementKeys
<1> QED BY <1>2, <1>3, <1>4, <1>5, FieldInv DEF SettingsInv, TypeOK

LEMMA SetFieldInv ==
  ASSUME SettingsInv, SetField
  PROVE  SettingsInv'
<1>1. ASSUME NEW n \in Numbers, Begin([s_id EXCEPT !.number = n], Stored("number", <<n>>))
      PROVE  SettingsInv'
  <2>1. PICK identity : identity = [s_id EXCEPT !.number = n]
    OBVIOUS
  <2>2. /\ identity \in [number : Nat, name : Value, uuid : Nat, factory : BOOLEAN]
        /\ identity.name = s_id.name /\ identity.number = n
        /\ \A other \in IdentityKeys \ {"number"} : identity[other] = s_id[other]
    BY <2>1, NullIsNone DEF SettingsInv, TypeOK, IdentityKeys
  <2>3. <<n>> \in Value
    BY CallTypes, NullIsNone
  <2>4. Begin(identity, Stored("number", <<n>>)) /\ UNCHANGED <<announced, made>> /\ s_id' = identity
    BY <1>1, <2>1 DEF SetField, Begin
  <2>5. AsKept([op |-> "set", key |-> "number", value |-> <<n>>])'
    BY <2>2, <2>4 DEF AsKept, AnnouncementKeys
  <2> QED BY <2>2, <2>3, <2>4, <2>5, FieldInv DEF SettingsInv, TypeOK
<1>2. ASSUME NEW n \in Names, Begin([s_id EXCEPT !.name = Truncated(n)], Stored("name", StoredName(n)))
      PROVE  SettingsInv'
  <2>1. PICK identity : identity = [s_id EXCEPT !.name = Truncated(n)]
    OBVIOUS
  <2>2. /\ Truncated(n) \in Value /\ Len(Truncated(n)) <= NameMax
        /\ Truncated(Truncated(n)) = Truncated(n)
    BY NullIsNone, TruncatedType DEF Truncated, Value
  <2>3. /\ identity \in [number : Nat, name : Value, uuid : Nat, factory : BOOLEAN]
        /\ identity.name = Truncated(n)
        /\ \A other \in IdentityKeys \ {"name"} : identity[other] = s_id[other]
    BY <2>1, <2>2 DEF SettingsInv, TypeOK, IdentityKeys
  <2>4. /\ Begin(identity, Stored("name", Truncated(n))) /\ UNCHANGED <<announced, made>>
        /\ s_id' = identity
    BY <1>2, <2>1 DEF SetField, Begin, StoredName
  <2>5. AsKept([op |-> "set", key |-> "name", value |-> Truncated(n)])'
    BY <2>2, <2>3, <2>4 DEF AsKept, AnnouncementKeys, Truncated
  <2> QED BY <2>2, <2>3, <2>4, <2>5, FieldInv
<1> QED BY <1>1, <1>2 DEF SetField

LEMMA OtaAvailableInv ==
  ASSUME SettingsInv, NEW digest \in BOOLEAN, OtaAvailable(digest)
  PROVE  SettingsInv'
<1>1. PICK n \in 1 .. MaxAnnounced : n = announced + 1
  BY SettingsAssumption DEF OtaAvailable, SettingsInv, TypeOK
<1>2. /\ todo = <<>> /\ s_id' = s_id /\ todo' = Announcement(n, digest) /\ announced' = n
      /\ UNCHANGED <<backend, store, refused, unsaved, made>> /\ <<n>> \in Value
  BY <1>1, CallTypes, SettingsAssumption DEF OtaAvailable, Begin
<1>3. \A key \in AnnouncementKeys :
        key \in Keys /\ AsKept([op |-> "set", key |-> key, value |-> <<n>>])'
  BY <1>1, <1>2, SettingsAssumption DEF AsKept, AnnouncementKeys, Keys
<1>4. /\ {"url", "size", "sha256"} \subseteq AnnouncementKeys
      /\ Before("url")' = {} /\ Before("size")' = {"url"} /\ Before("sha256")' = {"size"}
  BY DEF AnnouncementKeys, Before
<1>5. PICK none \in Seq(Call) : none = <<>>
  BY NoneYet
<1>6. Prepared(none)' /\ \A c \in Seq(Call) : none \o c = c /\ c \o none = c
  BY <1>5, NoneYet DEF Prepared
<1>7. PICK one \in Seq(Call) :
        one = none \o Stored("url", <<n>>) /\ Prepared(one)' /\ Lists(one, "url")
  BY <1>2, <1>3, <1>4, <1>6, StoredFollows
<1>8. one = Stored("url", <<n>>)
  <2>1. Stored("url", <<n>>) \in Seq(Call)
    BY <1>2, <1>3, <1>4, CallTypes DEF Stored, Set, Commit
  <2> QED BY <1>6, <1>7, <2>1
<1>9. PICK two \in Seq(Call) :
        /\ two = one \o Stored("size", <<n>>) /\ Prepared(two)' /\ Lists(two, "size")
        /\ two # <<>> /\ two[Len(two)].op = "commit"
  <2>1. \A other \in Before("size")' : Lists(one, other)
    BY <1>4, <1>7
  <2>2. one \in Seq(Call) /\ Prepared(one)' /\ "size" \in Keys /\ <<n>> \in Value
    BY <1>2, <1>3, <1>4, <1>7
  <2>3. AsKept([op |-> "set", key |-> "size", value |-> <<n>>])'
    BY <1>3, <1>4
  <2> QED BY ONLY <2>1, <2>2, <2>3, StoredFollows
<1>10. PICK three \in Seq(Call) :
        /\ three = two \o Stored("sha256", <<n>>) /\ Prepared(three)' /\ Lists(three, "sha256")
        /\ three # <<>> /\ three[Len(three)].op = "commit"
  <2>1. \A other \in Before("sha256")' : Lists(two, other)
    BY <1>4, <1>9
  <2>2. two \in Seq(Call) /\ Prepared(two)' /\ "sha256" \in Keys /\ <<n>> \in Value
    BY <1>2, <1>3, <1>4, <1>9
  <2>3. AsKept([op |-> "set", key |-> "sha256", value |-> <<n>>])'
    BY <1>3, <1>4
  <2> QED BY ONLY <2>1, <2>2, <2>3, StoredFollows
<1>11. PICK all \in {two, three} : all = two \o If(digest, Stored("sha256", <<n>>))
  BY <1>5, <1>6, <1>10 DEF If
<1>12. /\ all \in Seq(Call) /\ Prepared(all)' /\ all # <<>> /\ all[Len(all)].op = "commit"
  <2>1. CASE all = two
    BY <1>9, <2>1 DEF Prepared
  <2>2. CASE all = three
    BY <1>10, <2>2 DEF Prepared
  <2> QED BY <2>1, <2>2
<1>13. todo' = all
  BY <1>2, <1>8, <1>9, <1>11 DEF Announcement
<1>14. todo' # <<>> /\ Saved(todo)' /\ Prepared(todo)'
  BY <1>12, <1>13 DEF Saved, Prepared, Behind, Ahead
<1> QED BY <1>1, <1>2, <1>13, <1>14, BeginInv DEF SettingsInv, TypeOK

LEMMA SetFactoryInv ==
  ASSUME SettingsInv, NEW n \in Numbers, NEW u \in Uuids \cup {NULL},
         NEW c \in {m \in Names : Len(m) <= NameMax} \cup {DefaultName, NULL},
         SetFactory(n, c, u)
  PROVE  SettingsInv'
<1>1. PICK identity :
        identity = [number  |-> n,
                    name    |-> IF c = NULL THEN s_id.name ELSE Truncated(c),
                    uuid    |-> IF u = NULL THEN s_id.uuid ELSE u,
                    factory |-> TRUE]
  OBVIOUS
<1>2. /\ todo = <<>> /\ s_id' = identity /\ todo' = FactoryCalls(n, c, u)
      /\ UNCHANGED <<backend, store, refused, unsaved, announced>>
      /\ made' = IF Has(nvs, "factory") THEN made
                 ELSE {"number"} \cup (IF c = NULL THEN {} ELSE {"name"})
                        \cup (IF u = NULL THEN {} ELSE {"uuid"})
  BY <1>1 DEF SetFactory, Begin
<1>3. /\ n \in Nat
      /\ c # NULL => c \in Value /\ (Len(c) <= NameMax \/ c = DefaultName)
      /\ u # NULL => u \in Nat
  BY NullIsNone DEF Uuids
<1>4. /\ identity \in [number : Nat, name : Value, uuid : Nat, factory : BOOLEAN]
      /\ Len(identity.name) <= NameMax
  BY <1>1, <1>3, TruncatedType DEF SettingsInv, TypeOK
<1>5. /\ AsKept([op |-> "set", key |-> "number", value |-> <<n>>])'
      /\ c # NULL => AsKept([op |-> "set", key |-> "name", value |-> c])'
      /\ u # NULL => AsKept([op |-> "set", key |-> "uuid", value |-> <<u>>])'
      /\ AsKept([op |-> "set", key |-> "factory", value |-> <<1>>])'
  BY <1>1, <1>2, <1>3 DEF AsKept, AnnouncementKeys, Truncated
<1>6. /\ {"number", "name", "uuid", "factory"} \subseteq Keys
      /\ <<n>> \in Value /\ (u # NULL => <<u>> \in Value) /\ <<1>> \in Value
      /\ Before("number")' = {} /\ Before("name")' = {} /\ Before("uuid")' = {}
      /\ Before("factory")' = made'
  BY <1>3, CallTypes DEF Keys, IdentityKeys, Before
<1>7. PICK none \in Seq(Call) : none = <<>> /\ Prepared(none)'
  BY NoneYet DEF Prepared
<1>8. PICK one \in Seq(Call) : SetAfter(one, none, "number", <<n>>)'
  <2>1. none \in Seq(Call) /\ Prepared(none)' /\ "number" \in Keys /\ <<n>> \in Value
        /\ Before("number")' = {}
    BY <1>6, <1>7
  <2>2. AsKept([op |-> "set", key |-> "number", value |-> <<n>>])'
    BY <1>5
  <2> QED BY ONLY <2>1, <2>2, SetFollows
<1>9. one = Set("number", <<n>>)
  <2>1. Set("number", <<n>>) \in Seq(Call)
    BY <1>6, CallTypes DEF Set
  <2> QED BY <1>7, <1>8, <2>1, NoneYet DEF SetAfter
<1>10. PICK two \in Seq(Call) :
        /\ two = one \o If(c # NULL, Set("name", c)) /\ Prepared(two)'
        /\ \A other : Lists(two, other) <=> Lists(one, other) \/ (c # NULL /\ other = "name")
  <2>1. CASE c # NULL
    <3>1. one \in Seq(Call) /\ Prepared(one)' /\ "name" \in Keys /\ c \in Value
      BY <1>3, <1>6, <2>1, <1>8 DEF SetAfter
    <3>2. AsKept([op |-> "set", key |-> "name", value |-> c])'
      BY <1>5, <2>1
    <3>3. \A other \in Before("name")' : Settled(other)' \/ Lists(one, other)
      BY <1>6
    <3>4. PICK longer \in Seq(Call) : SetAfter(longer, one, "name", c)'
      BY ONLY <3>1, <3>2, <3>3, SetFollows
    <3> QED BY <2>1, <3>4 DEF If, SetAfter
  <2>2. CASE c = NULL
    BY <1>8, <2>2, NoneYet DEF If, SetAfter
  <2> QED BY <2>1, <2>2
<1>11. PICK three \in Seq(Call) :
        /\ three = two \o If(u # NULL, Set("uuid", <<u>>)) /\ Prepared(three)'
        /\ \A other : Lists(three, other) <=> Lists(two, other) \/ (u # NULL /\ other = "uuid")
  <2>1. CASE u # NULL
    <3>1. two \in Seq(Call) /\ Prepared(two)' /\ "uuid" \in Keys /\ <<u>> \in Value
      BY <1>6, <2>1, <1>10
    <3>2. AsKept([op |-> "set", key |-> "uuid", value |-> <<u>>])'
      BY <1>5, <2>1
    <3>3. \A other \in Before("uuid")' : Settled(other)' \/ Lists(two, other)
      BY <1>6
    <3>4. PICK longer \in Seq(Call) : SetAfter(longer, two, "uuid", <<u>>)'
      BY ONLY <3>1, <3>2, <3>3, SetFollows
    <3> QED BY <2>1, <3>4 DEF If, SetAfter
  <2>2. CASE u = NULL
    BY <1>10, <2>2, NoneYet DEF If
  <2> QED BY <2>1, <2>2
<1>12. \A key \in made' : Settled(key)' \/ Lists(three, key)
  <2>1. CASE Has(nvs, "factory")
    <3> SUFFICES ASSUME NEW key \in made PROVE Settled(key)'
      BY <1>2, <2>1
    <3>1. Has(nvs, key) \/ Refused(key)
      BY <2>1 DEF SettingsInv, TableInv, Whole
    <3>2. key \notin AnnouncementKeys
      BY DEF SettingsInv, AnnouncementKeys
    <3> QED BY <1>2, <3>1, <3>2 DEF Settled, Missed, Refused, Has, store
  <2>2. CASE ~Has(nvs, "factory")
    BY <1>2, <1>8, <1>10, <1>11, <2>2 DEF SetAfter
  <2> QED BY <2>1, <2>2
<1>13. PICK four \in Seq(Call) : SetAfter(four, three, "factory", <<1>>)'
  <2>1. three \in Seq(Call) /\ Prepared(three)' /\ "factory" \in Keys /\ <<1>> \in Value
    BY <1>6, <1>11
  <2>2. AsKept([op |-> "set", key |-> "factory", value |-> <<1>>])'
    BY <1>5
  <2>3. \A other \in Before("factory")' : Settled(other)' \/ Lists(three, other)
    BY <1>6, <1>12
  <2> QED BY ONLY <2>1, <2>2, <2>3, SetFollows
<1>14. PICK all \in Seq(Call) :
        /\ all = four \o Commit /\ all # <<>> /\ all[Len(all)].op = "commit" /\ Prepared(all)'
        /\ \A other : Lists(all, other) <=> Lists(four, other)
  <2>1. four \in Seq(Call) /\ Prepared(four)'
    BY <1>13 DEF SetAfter
  <2> QED BY ONLY <2>1, CommitCloses
<1>15. todo' = all
  BY <1>2, <1>9, <1>10, <1>11, <1>13, <1>14 DEF FactoryCalls, SetAfter
<1>16. todo' # <<>> /\ Saved(todo)' /\ Prepared(todo)' /\ \A k : Lists(all, k) => Lists(todo, k)'
  BY <1>14, <1>15 DEF Saved, Prepared, Behind, Ahead, Lists
<1>17. \A key \in IdentityKeys : s_id'[key] = s_id[key] \/ Lists(todo, key)'
  <2>1. Lists(all, "number") /\ Lists(all, "factory")
        /\ (c # NULL => Lists(all, "name")) /\ (u # NULL => Lists(all, "uuid"))
    BY <1>8, <1>10, <1>11, <1>13, <1>14 DEF SetAfter
  <2> QED BY <1>1, <1>2, <1>16, <2>1 DEF IdentityKeys
<1>18. made' \subseteq {"number", "name", "uuid"} /\ (made' = made \/ ~Has(nvs, "factory"))
  BY <1>2 DEF SettingsInv
<1> QED BY <1>2, <1>4, <1>15, <1>16, <1>17, <1>18, BeginInv DEF SettingsInv, TypeOK

-----------------------------------------------------------------------------
(* The theorems.                                                           *)

(* SettingsInv holds in every reachable state. *)
THEOREM SettingsInvariance == Spec => []SettingsInv
<1>1. Init => SettingsInv
  <2> SUFFICES ASSUME Init PROVE SettingsInv
    OBVIOUS
  <2>1. /\ announced = 0 /\ todo = <<>> /\ nvs = Empty /\ disk = Empty /\ s_id = Loaded(Empty)
        /\ made = {} /\ refused = {} /\ rewriting = FALSE /\ unsaved = FALSE
        /\ backend \in {"esp", "posix"}
    BY DEF Init
  <2>2. TableInv(nvs) /\ TableInv(disk) /\ Empty \in Table
    BY <2>1, EmptyInv
  <2>3. <<>> \in Seq(Call)
    OBVIOUS
  <2>4. Prepared(todo) /\ Saved(todo) /\ RamInv
    BY <2>1 DEF Prepared, Saved, RamInv
  <2>5. DiskInv
    BY <2>1 DEF DiskInv
  <2>6. /\ s_id \in [number : Nat, name : Value, uuid : Nat, factory : BOOLEAN]
        /\ Len(s_id.name) <= NameMax
    BY <2>1, <2>2, LoadedType DEF TableInv
  <2>7. TypeOK
    <3>1. announced \in 0 .. MaxAnnounced
      BY <2>1, SettingsAssumption
    <3>2. rewriting \in BOOLEAN /\ unsaved \in BOOLEAN /\ refused \subseteq Keys /\ made \subseteq Keys
      BY <2>1
    <3>3. nvs \in Table /\ disk \in Table /\ todo \in Seq(Call)
      BY <2>1, <2>2, <2>3
    <3> QED BY <2>1, <2>6, <3>1, <3>2, <3>3 DEF TypeOK
  <2> QED BY <2>1, <2>2, <2>4, <2>5, <2>7 DEF SettingsInv
<1>2. SettingsInv /\ [Next]_vars => SettingsInv'
  <2> SUFFICES ASSUME SettingsInv, [Next]_vars PROVE SettingsInv'
    OBVIOUS
  <2>1. CASE Handler
    BY <2>1, SetUuidInv, SetFactoryInv, SetFieldInv, OtaAvailableInv DEF Handler
  <2>2. CASE Nvs
    BY <2>2, WriteInv, CommitInv, TruncateInv DEF Nvs
  <2>3. CASE Restart
    BY <2>3, RestartInv
  <2>4. CASE UNCHANGED vars
    <3>1. UNCHANGED <<backend, s_id, nvs, disk, rewriting, todo, announced, refused, unsaved, made>>
      BY <2>4 DEF vars, store
    <3>2. Prepared(todo)' /\ Saved(todo)'
      BY <3>1 DEF SettingsInv, Prepared, AsKept, Behind, Before, Settled, Missed, Refused, Full,
                  Number, Has, Ahead, Sets, Saved
    <3>3. TableInv(nvs)' /\ TableInv(disk)'
      BY <3>1 DEF SettingsInv, TableInv, Single, Known, Ordered, Nested, Whole, Number, Has, Refused
    <3>4. DiskInv' /\ RamInv'
      BY <3>1 DEF SettingsInv, DiskInv, AtCommit, RamInv, Lists, Sets, Loaded, BootName, Has
    <3>5. TypeOK'
      BY <3>1 DEF SettingsInv, TypeOK
    <3> QED BY <3>1, <3>2, <3>3, <3>4, <3>5 DEF SettingsInv
  <2> QED BY <2>1, <2>2, <2>3, <2>4 DEF Next
<1> QED BY <1>1, <1>2, PTL DEF Spec

(* Every variable keeps its type: a name fits its buffer, no value is written
   that its key cannot have. *)
THEOREM SettingsTypes == Spec => []TypeOK
<1>1. SettingsInv => TypeOK
  BY DEF SettingsInv
<1> QED BY <1>1, SettingsInvariance, PTL

(* Whatever a handler was cut off at, and for every pattern of failing writes: a
   start finds the identity the device had, unless a write of it was refused. *)
THEOREM IdentitySurvives == Spec => []RestartKeepsIdentity
<1>1. SettingsInv => RestartKeepsIdentity
  <2> SUFFICES ASSUME SettingsInv, todo = <<>>, ~unsaved, NEW field \in IdentityKeys \ refused
               PROVE  s_id[field] = Loaded(disk)[field]
    BY DEF RestartKeepsIdentity
  <2>1. disk = nvs
    BY DEF SettingsInv, DiskInv
  <2>2. ~Lists(todo, field)
    BY DEF Lists
  <2> QED BY <2>1, <2>2 DEF SettingsInv, RamInv
<1> QED BY <1>1, SettingsInvariance, PTL

(* Wherever /tw/ota-available was cut off, and however often: the digest found is
   never of a later announcement than the size, nor the size than the URL. *)
THEOREM AnnouncementsAreOrdered == Spec => []AnnouncementOrdered
<1>1. SettingsInv => AnnouncementOrdered
  BY DEF SettingsInv, TableInv, Ordered, AnnouncementOrdered, Newest, Number, Refused
<1> QED BY <1>1, SettingsInvariance, PTL

(* A start that finds the factory flag finds all that the factory pass was given,
   as far as NVS took it. *)
THEOREM FactoryComesWhole == Spec => []FactoryIsWhole
<1>1. SettingsInv => FactoryIsWhole
  <2> SUFFICES ASSUME SettingsInv, Loaded(disk).factory, NEW key \in made \ refused
               PROVE  Has(disk, key)
    BY DEF FactoryIsWhole
  <2>1. Has(disk, "factory")
    BY DEF Loaded
  <2> QED BY <2>1 DEF SettingsInv, TableInv, Whole, Refused
<1> QED BY <1>1, SettingsInvariance, PTL

-----------------------------------------------------------------------------
(* A handler runs only while the main task waits for it, or for the Bluetooth
   task to go down; one that restarts the device itself is never left. *)
HandlerIsAwaited ==
  /\ main \in {"start", "leave", "on"} => handler = "none"
  /\ main = "off" => handler \in {"none", "reboot"}

(* A UUID that counts as given was decoded to its end. *)
GivenIsWhole == uuid_set => uuid \in {"A", "B"}

(* The Bluetooth task knows the handle, or will before it comes to the place i of
   the queue. *)
KnownAt(q, i) == s_handle_config_val \/ \E j \in DOMAIN q : j <= i /\ q[j].event = "config"

(* A characteristic that can be written to is known, or the queue says so; and
   every write is behind that. *)
WritesFollow ==
  Ble =>
    /\ listed => KnownAt(queue, Len(queue))
    /\ \A i \in DOMAIN queue : queue[i].event = "write" => KnownAt(queue, i)

SessionInv == SessionTypeOK /\ HandlerIsAwaited /\ GivenIsWhole /\ WritesFollow /\ AppliedAsGiven

-----------------------------------------------------------------------------
(* The queue.                                                              *)

Message == Request \cup Event

LEMMA MessageType ==
  /\ \A m \in Message : m.text \in Text
  /\ \A event \in Events : Of(event) \in Message /\ Of(event).event = event
  /\ \A text \in Text : /\ [event |-> "write", text |-> text] \in Message
                        /\ [event |-> "write", text |-> text].event = "write"
BY DEF Message, Request, Event, Events, Of, Silent, Text, Cmds, Spellings

LEMMA QueueTail ==
  ASSUME NEW q \in Seq(Message), q # <<>>
  PROVE  /\ Head(q) \in Message /\ Tail(q) \in Seq(Message) /\ Head(q) = q[1]
         /\ Len(q) \in Nat \ {0} /\ Len(Tail(q)) = Len(q) - 1
         /\ \A i \in DOMAIN Tail(q) : i \in Nat /\ i + 1 \in DOMAIN q /\ Tail(q)[i] = q[i + 1]
         /\ \A i \in DOMAIN q : i \in Nat /\ (i > 1 => i - 1 \in DOMAIN Tail(q))
OBVIOUS

(* A message joins the queue: a write only when the characteristic is listed,
   which it is from when the stack announces it. *)
LEMMA JoinsQueue ==
  ASSUME queue \in Seq(Message), WritesFollow, NEW m \in Message,
         queue' = Append(queue, m),
         m.event = "write" => listed,
         listed' => listed \/ m.event = "config",
         UNCHANGED <<build, s_handle_config_val>>
  PROVE  WritesFollow'
<1> SUFFICES ASSUME Ble
             PROVE  /\ listed' => KnownAt(queue, Len(queue))'
                    /\ \A i \in DOMAIN queue' : queue'[i].event = "write" => KnownAt(queue, i)'
  BY DEF WritesFollow, Ble
<1>0. PICK n \in Nat : n = Len(queue)
  OBVIOUS
<1>1. /\ n \in Nat /\ Len(queue') = n + 1 /\ DOMAIN queue' = 1 .. n + 1 /\ DOMAIN queue = 1 .. n
      /\ queue'[n + 1] = m
      /\ \A i \in DOMAIN queue : queue'[i] = queue[i]
  BY <1>0
<1>2. \A i \in Nat : KnownAt(queue, i) => KnownAt(queue, i)'
  BY <1>1 DEF KnownAt
<1>3. listed => KnownAt(queue, n + 1)'
  BY <1>0, <1>1 DEF WritesFollow, KnownAt
<1>4. m.event = "config" => KnownAt(queue, n + 1)'
  BY <1>1 DEF KnownAt
<1>5. ASSUME NEW i \in DOMAIN queue', queue'[i].event = "write"
      PROVE  KnownAt(queue, i)'
  <2>1. CASE i \in DOMAIN queue
    <3>1. KnownAt(queue, i) /\ i \in Nat
      BY <1>1, <1>5, <2>1 DEF WritesFollow
    <3> QED BY <1>2, <3>1
  <2>2. CASE i = n + 1
    BY <1>1, <1>3, <1>5, <2>2
  <2> QED BY <1>1, <2>1, <2>2
<1> QED BY <1>1, <1>3, <1>4, <1>5

(* The first message is taken: the handle is known once its announcement is. *)
LEMMA LeavesQueue ==
  ASSUME queue \in Seq(Message), queue # <<>>, WritesFollow,
         queue' = Tail(queue),
         s_handle_config_val => s_handle_config_val',
         Ble /\ Head(queue).event = "config" => s_handle_config_val',
         UNCHANGED <<build, listed>>
  PROVE  WritesFollow'
<1> SUFFICES ASSUME Ble
             PROVE  /\ listed' => KnownAt(queue, Len(queue))'
                    /\ \A i \in DOMAIN queue' : queue'[i].event = "write" => KnownAt(queue, i)'
  BY DEF WritesFollow, Ble
<1>1. ASSUME NEW i \in Nat, KnownAt(queue, i + 1)
      PROVE  KnownAt(queue, i)'
  <2>1. CASE s_handle_config_val'
    BY <2>1 DEF KnownAt
  <2>2. CASE ~s_handle_config_val'
    <3>1. PICK j \in DOMAIN queue : j <= i + 1 /\ queue[j].event = "config"
      BY <1>1, <2>2 DEF KnownAt
    <3>2. j # 1
      BY <2>2, <3>1, QueueTail
    <3>3. j \in Nat /\ j >= 1
      BY <3>1
    <3>4. j - 1 \in DOMAIN queue' /\ queue'[j - 1] = queue[j] /\ j - 1 <= i
      BY <3>1, <3>2, <3>3, QueueTail
    <3> QED BY <3>1, <3>4 DEF KnownAt
  <2> QED BY <2>1, <2>2
<1>2. /\ Len(queue') \in Nat /\ Len(queue) = Len(queue') + 1
      /\ \A i \in DOMAIN queue' : i \in Nat /\ i + 1 \in DOMAIN queue /\ queue'[i] = queue[i + 1]
  BY QueueTail
<1>3. listed' => KnownAt(queue, Len(queue))'
  BY <1>1, <1>2 DEF WritesFollow
<1>4. ASSUME NEW i \in DOMAIN queue', queue'[i].event = "write"
      PROVE  KnownAt(queue, i)'
  BY <1>1, <1>2, <1>4 DEF WritesFollow
<1> QED BY <1>3, <1>4

(* Nothing is queued, and the characteristic is not there. *)
LEMMA QueueEmptied ==
  ASSUME queue' = <<>>, ~listed'
  PROVE  WritesFollow'
BY DEF WritesFollow

LEMMA QueueStays ==
  ASSUME WritesFollow, UNCHANGED <<build, queue, s_handle_config_val, listed>>
  PROVE  WritesFollow'
BY DEF WritesFollow, KnownAt, Ble

-----------------------------------------------------------------------------
(* What is staged.                                                         *)

Command == {"", "start", "commit"}
Staged == {"zero", "A", "B", "torn"}

LEMMA DecodedType ==
  ASSUME uuid \in Staged, uuid_set \in BOOLEAN, GivenIsWhole, NEW text \in Text, Stage(Decoded(text))
  PROVE  uuid' \in Staged /\ uuid_set' \in BOOLEAN /\ GivenIsWhole'
BY DEF Stage, Decoded, Text, Spellings, GivenIsWhole, Staged

LEMMA HearType ==
  ASSUME cmd \in Command, uuid \in Staged, uuid_set \in BOOLEAN, GivenIsWhole,
         NEW text \in Text, Hear(text)
  PROVE  /\ cmd' \in Command /\ uuid' \in Staged /\ uuid_set' \in BOOLEAN /\ GivenIsWhole'
         /\ handler' \in {"apply", "answer"}
         /\ UNCHANGED s_prov_done
<1>1. CASE Reset /\ handler' = "answer"
  BY <1>1 DEF Reset, GivenIsWhole, Command, Staged
<1>2. CASE /\ Merged(text) # "reset"
           /\ cmd' = Merged(text)
           /\ Stage(Decoded(text))
           /\ handler' = IF Merged(text) = "commit" THEN "apply" ELSE "answer"
           /\ UNCHANGED s_prov_done
  <2>1. cmd' \in Command
    BY <1>2 DEF Merged, Text, Cmds, Command
  <2> QED BY <1>2, <2>1, DecodedType
<1> QED BY <1>1, <1>2 DEF Hear

-----------------------------------------------------------------------------
(* The steps.                                                              *)

LEMMA QueueType == SessionTypeOK => queue \in Seq(Message)
BY DEF SessionTypeOK, Message

LEMMA StagedTypes ==
  ASSUME SessionTypeOK, UNCHANGED s_prov
  PROVE  cmd' \in {"", "start", "commit"} /\ uuid' \in {"zero", "A", "B", "torn"}
         /\ uuid_set' \in BOOLEAN
<1>1. cmd' = cmd /\ uuid' = uuid /\ uuid_set' = uuid_set
  BY DEF s_prov
<1> QED BY <1>1 DEF SessionTypeOK

LEMMA StackTypes ==
  ASSUME SessionTypeOK, UNCHANGED stack
  PROVE  asked' \subseteq Answers /\ listed' \in BOOLEAN /\ adv' \in {"off", "on", "failed"}
         /\ peer' \in BOOLEAN
<1>1. asked' = asked /\ listed' = listed /\ adv' = adv /\ peer' = peer
  BY DEF stack
<1> QED BY <1>1 DEF SessionTypeOK

(* A step that leaves what is staged and the applied UUID as they were. *)
LEMMA StagedStays ==
  ASSUME GivenIsWhole, AppliedAsGiven, UNCHANGED <<s_prov, applied>>
  PROVE  GivenIsWhole' /\ AppliedAsGiven'
<1>1. uuid_set' = uuid_set /\ uuid' = uuid /\ applied' = applied
  BY DEF s_prov
<1> QED BY ONLY GivenIsWhole, AppliedAsGiven, <1>1, Zenon DEF GivenIsWhole, AppliedAsGiven

(* A step of the main task or of a handler that leaves the queue alone. *)
LEMMA QuietInv ==
  ASSUME SessionInv, SessionTypeOK', HandlerIsAwaited',
         UNCHANGED <<build, queue, s_prov, s_handle_config_val, listed, applied>>
  PROVE  SessionInv'
BY QueueStays, StagedStays DEF SessionInv

LEMMA StartingInv ==
  ASSUME SessionInv, Starting
  PROVE  SessionInv'
<1> USE DEF SessionInv, AppliedAsGiven
<1>1. CASE OnProvision
  <2>1. SessionTypeOK'
    BY <1>1, StagedTypes, StackTypes DEF OnProvision, SessionTypeOK
  <2>2. HandlerIsAwaited'
    BY <1>1 DEF OnProvision, HandlerIsAwaited
  <2> QED BY <1>1, <2>1, <2>2, QuietInv DEF OnProvision, stack
<1>2. CASE RunEnvironment
  <2>1. PICK text \in Text : Stage(Decoded(text))
    BY <1>2 DEF RunEnvironment, Text, Silent, Cmds, Spellings
  <2>2. uuid' \in Staged /\ uuid_set' \in BOOLEAN /\ GivenIsWhole'
    BY <2>1, DecodedType DEF SessionTypeOK, Staged
  <2>3. WritesFollow'
    BY <1>2, QueueStays DEF RunEnvironment, stack
  <2> QED BY <1>2, <2>2, <2>3 DEF RunEnvironment, SessionTypeOK, HandlerIsAwaited, Staged, stack
<1>3. CASE RunBle
  <2>1. asked' \subseteq Answers
    BY <1>3 DEF RunBle, Answers
  <2>2. SessionTypeOK'
    BY <1>3, <2>1, StagedTypes DEF RunBle, SessionTypeOK
  <2>3. HandlerIsAwaited'
    BY <1>3 DEF RunBle, HandlerIsAwaited
  <2> QED BY <1>3, <2>2, <2>3, QuietInv DEF RunBle
<1>4. CASE OpenServer
  <2>1. SessionTypeOK'
    BY <1>4, StagedTypes, StackTypes DEF OpenServer, SessionTypeOK
  <2>2. HandlerIsAwaited'
    BY <1>4 DEF OpenServer, HandlerIsAwaited
  <2> QED BY <1>4, <2>1, <2>2, QuietInv DEF OpenServer, stack
<1> QED BY <1>1, <1>2, <1>3, <1>4 DEF Starting

LEMMA PollServesInv ==
  ASSUME SessionInv, PollServes
  PROVE  SessionInv'
<1> USE DEF SessionInv, AppliedAsGiven
<1>1. /\ queue \in Seq(Message) /\ queue # <<>> /\ queue' = Tail(queue)
      /\ main = "wait" /\ ~Ble
      /\ UNCHANGED <<build, main, s_handle_config_val, stack, applied, failed>>
  BY QueueType DEF PollServes, Coap, Ble
<1>2. queue' \in Seq(Message) /\ Head(queue).text \in Text
  BY <1>1, QueueTail, MessageType
<1>3. WritesFollow'
  BY <1>1, LeavesQueue DEF stack
<1>4. /\ cmd' \in Command /\ uuid' \in Staged /\ uuid_set' \in BOOLEAN /\ GivenIsWhole'
      /\ handler' \in {"answer", "store", "apply"}
      /\ UNCHANGED s_prov_done
  <2>1. /\ cmd \in Command /\ uuid \in Staged /\ uuid_set \in BOOLEAN /\ GivenIsWhole
    BY DEF SessionTypeOK, Command, Staged
  <2>2. CASE UNCHANGED <<s_prov, s_prov_done>> /\ handler' \in {"answer", "store", "apply"}
    BY <2>1, <2>2 DEF s_prov, GivenIsWhole
  <2>3. CASE Hear(Head(queue).text)
    BY <1>2, <2>1, <2>3, HearType
  <2> QED BY <2>2, <2>3 DEF PollServes, JustAnswer
<1>5. SessionTypeOK'
  BY <1>1, <1>2, <1>4 DEF SessionTypeOK, Message, Command, Staged, stack
<1> QED BY <1>1, <1>3, <1>4, <1>5 DEF HandlerIsAwaited

LEMMA HandlerRunsInv ==
  ASSUME SessionInv, Apply \/ Store \/ Answer
  PROVE  SessionInv'
<1> USE DEF SessionInv, AppliedAsGiven
<1>1. UNCHANGED <<build, queue, s_prov, s_handle_config_val, stack, failed>>
  BY DEF Apply, Store, Answer
<1>2. WritesFollow'
  BY <1>1, QueueStays DEF stack
<1>3. GivenIsWhole'
  <2>1. uuid_set' = uuid_set /\ uuid' = uuid
    BY <1>1 DEF s_prov
  <2> QED BY <2>1, Zenon DEF GivenIsWhole
<1>4. applied' \in {"none", "A", "B"}
  <2>1. CASE Apply
    <3>1. CASE uuid_set
      BY <2>1, <3>1 DEF Apply, GivenIsWhole
    <3>2. CASE ~uuid_set
      BY <2>1, <3>2 DEF Apply, SessionTypeOK
    <3> QED BY <3>1, <3>2
  <2>2. CASE Store \/ Answer
    BY <2>2 DEF Store, Answer, SessionTypeOK
  <2> QED BY <2>1, <2>2
<1>5. /\ handler' \in {"none", "answer"} /\ main' \in {main, "on"}
      /\ main' = "on" => handler' = "none" \/ main = "on"
      /\ handler \in {"apply", "store", "answer"}
  BY DEF Apply, Store, Answer
<1>6. s_prov_done' \in BOOLEAN
  BY DEF Apply, Store, Answer, SessionTypeOK
<1>7. SessionTypeOK'
  BY <1>1, <1>4, <1>5, <1>6, StagedTypes, StackTypes DEF SessionTypeOK
<1>8. HandlerIsAwaited'
  BY <1>5 DEF HandlerIsAwaited
<1> QED BY <1>2, <1>3, <1>4, <1>7, <1>8

-----------------------------------------------------------------------------
(* What every callback of the Bluetooth task starts from. *)
LEMMA BtTaskFacts ==
  ASSUME SessionInv, NEW event \in Events, BtTask(event), queue' = Tail(queue)
  PROVE  /\ Ble /\ main \in {"wait", "disable"} /\ handler = "none"
         /\ queue \in Seq(Message) /\ queue # <<>> /\ Head(queue).event = event
         /\ queue' \in Seq(Request \cup Event) /\ Head(queue).text \in Text
BY QueueType, QueueTail, MessageType DEF BtTask, SessionInv, Message

(* A callback that changes neither what is staged nor what is applied. *)
LEMMA CallbackKeeps ==
  ASSUME SessionInv, NEW event \in Events, BtTask(event), queue' = Tail(queue),
         event = "config" => s_handle_config_val',
         s_handle_config_val' \in BOOLEAN, s_handle_config_val => s_handle_config_val',
         asked' \subseteq Answers, adv' \in {"off", "on", "failed"},
         handler' \in {"none", "reboot"},
         UNCHANGED <<build, main, s_prov, s_prov_done, listed, peer, applied, failed>>
  PROVE  SessionInv'
<1> USE DEF SessionInv, AppliedAsGiven
<1>1. WritesFollow'
  BY BtTaskFacts, LeavesQueue
<1>2. SessionTypeOK'
  BY BtTaskFacts, StagedTypes DEF SessionTypeOK
<1>3. HandlerIsAwaited'
  BY BtTaskFacts DEF HandlerIsAwaited
<1> QED BY <1>1, <1>2, <1>3, StagedStays

LEMMA AnswersAreEvents == \A event \in Answers \cup {"connect", "disconnect", "write", "disable"} :
                            event \in Events
BY DEF Events

LEMMA CallbackInv ==
  ASSUME SessionInv, Callback
  PROVE  SessionInv'
<1> USE DEF SessionInv, AppliedAsGiven
<1>0. {"register", "create", "config", "status", "adv_data"} \subseteq Answers
  BY DEF Answers
<1>1. CASE OnRegister
  BY <1>0, <1>1, AnswersAreEvents, CallbackKeeps DEF OnRegister, BtTask, SessionTypeOK
<1>2. CASE OnCreate
  BY <1>0, <1>2, AnswersAreEvents, CallbackKeeps DEF OnCreate, BtTask, SessionTypeOK
<1>3. CASE OnAddChar
  <2>1. CASE BtTask("config")
    BY <1>0, <1>3, <2>1, AnswersAreEvents, CallbackKeeps DEF OnAddChar, BtTask, SessionTypeOK
  <2>2. CASE BtTask("status") /\ UNCHANGED <<s_handle_config_val, asked>>
    BY <1>0, <1>3, <2>2, AnswersAreEvents, CallbackKeeps DEF OnAddChar, BtTask, SessionTypeOK
  <2> QED BY <1>3, <2>1, <2>2 DEF OnAddChar
<1>4. CASE OnAdvData
  BY <1>0, <1>4, AnswersAreEvents, CallbackKeeps DEF OnAdvData, StartAdvertising, BtTask, SessionTypeOK
<1>5. CASE OnConnect
  BY <1>5, AnswersAreEvents, CallbackKeeps DEF OnConnect, BtTask, SessionTypeOK, stack
<1>6. CASE OnWrite
  <2>1. /\ BtTask("write") /\ queue' = Tail(queue) /\ "write" \in Events
        /\ UNCHANGED <<build, main, s_handle_config_val, stack, applied, failed>>
    BY <1>6, AnswersAreEvents DEF OnWrite
  <2>2. CASE UNCHANGED <<handler, s_prov, s_prov_done>>
    BY <2>1, <2>2, CallbackKeeps DEF BtTask, SessionTypeOK, stack
  <2>3. CASE Hear(Head(queue).text)
    <3>1. WritesFollow'
      BY <2>1, BtTaskFacts, LeavesQueue DEF stack
    <3>2. /\ cmd' \in Command /\ uuid' \in Staged /\ uuid_set' \in BOOLEAN /\ GivenIsWhole'
          /\ handler' \in {"apply", "answer"}
          /\ UNCHANGED s_prov_done
      BY <2>1, <2>3, BtTaskFacts, HearType DEF SessionTypeOK, Command, Staged
    <3>3. SessionTypeOK'
      <4>1. queue' \in Seq(Request \cup Event)
        BY <2>1, BtTaskFacts
      <4> QED BY <2>1, <3>2, <4>1 DEF SessionTypeOK, Command, Staged, stack
    <3>4. HandlerIsAwaited'
      BY <2>1, BtTaskFacts DEF HandlerIsAwaited
    <3> QED BY <2>1, <3>1, <3>2, <3>3, <3>4
  <2> QED BY <1>6, <2>2, <2>3 DEF OnWrite
<1>7. CASE OnDisconnect
  BY <1>7, AnswersAreEvents, CallbackKeeps DEF OnDisconnect, StartAdvertising, BtTask, SessionTypeOK
<1>8. CASE OnDisable
  <2>1. handler = "none" /\ <<>> \in Seq(Request \cup Event)
    BY <1>8 DEF OnDisable, BtTask
  <2>2. SessionTypeOK'
    BY <1>8, <2>1 DEF OnDisable, SessionTypeOK, s_prov
  <2>3. HandlerIsAwaited'
    BY <1>8, <2>1 DEF OnDisable, HandlerIsAwaited
  <2>4. WritesFollow'
    BY <1>8, QueueEmptied DEF OnDisable
  <2> QED BY <1>8, <2>2, <2>3, <2>4, StagedStays DEF OnDisable
<1>9. CASE BtReboots
  <2>1. SessionTypeOK'
    BY <1>9, StagedTypes, StackTypes DEF BtReboots, SessionTypeOK
  <2>2. HandlerIsAwaited'
    BY <1>9 DEF BtReboots, HandlerIsAwaited
  <2> QED BY <1>9, <2>1, <2>2, QuietInv DEF BtReboots, stack
<1> QED
  BY <1>1, <1>2, <1>3, <1>4, <1>5, <1>6, <1>7, <1>8, <1>9 DEF Callback

-----------------------------------------------------------------------------
(* A message that somebody sends. *)
LEMMA SentInv ==
  ASSUME SessionInv, NEW m \in Message, queue' = Append(queue, m),
         m.event = "write" => listed,
         listed' => listed \/ m.event = "config",
         main' \in {main, "disable"}, asked' \subseteq Answers, listed' \in BOOLEAN, peer' \in BOOLEAN,
         adv' \in {"off", "on", "failed"},
         UNCHANGED <<build, handler, s_prov, s_prov_done, s_handle_config_val, applied, failed>>
  PROVE  SessionInv'
<1> USE DEF SessionInv, AppliedAsGiven
<1>1. queue \in Seq(Message)
  BY QueueType
<1>2. WritesFollow'
  BY <1>1, JoinsQueue
<1>3. queue' \in Seq(Request \cup Event)
  BY <1>1 DEF Message
<1>4. SessionTypeOK'
  BY <1>3, StagedTypes DEF SessionTypeOK
<1>5. HandlerIsAwaited'
  BY DEF HandlerIsAwaited
<1> QED BY <1>2, <1>4, <1>5, StagedStays

LEMMA StackAnswersInv ==
  ASSUME SessionInv, NEW request \in Answers, StackAnswers(request)
  PROVE  SessionInv'
<1>1. Of(request) \in Message /\ Of(request).event = request /\ request # "write"
  BY MessageType, AnswersAreEvents DEF Answers
<1>2. /\ queue' = Append(queue, Of(request))
      /\ listed' = (listed \/ request = "config")
      /\ asked' \subseteq Answers
      /\ UNCHANGED <<adv, peer, build, main, handler, s_prov, s_prov_done, s_handle_config_val,
                     applied, failed>>
  BY DEF StackAnswers, Radio, SessionInv, SessionTypeOK
<1> QED BY <1>1, <1>2, SentInv DEF SessionInv, SessionTypeOK

LEMMA CompanionInv ==
  ASSUME SessionInv, Companion
  PROVE  SessionInv'
<1>1. CASE Send
  <2>1. PICK request \in Request : queue' = Append(queue, request)
    BY <1>1 DEF Send
  <2>2. queue \in Seq(Message) /\ request \in Message
    BY <2>1, QueueType DEF SessionInv, Message
  <2>3. WritesFollow'
    BY <1>1 DEF Send, WritesFollow, Ble, Coap
  <2>4. queue' \in Seq(Request \cup Event)
    BY <2>1, <2>2 DEF Message
  <2>5. SessionTypeOK'
    BY <1>1, <2>4, StagedTypes, StackTypes DEF Send, SessionInv, SessionTypeOK
  <2>6. HandlerIsAwaited'
    BY <1>1 DEF Send, SessionInv, HandlerIsAwaited
  <2> QED BY <1>1, <2>3, <2>5, <2>6, StagedStays DEF Send, SessionInv
<1>2. CASE Connect
  <2>1. Of("connect") \in Message /\ Of("connect").event = "connect"
    BY MessageType, AnswersAreEvents
  <2> QED BY <1>2, <2>1, SentInv DEF Connect, Radio, SessionInv, SessionTypeOK
<1>3. CASE Disconnect
  <2>1. Of("disconnect") \in Message /\ Of("disconnect").event = "disconnect"
    BY MessageType, AnswersAreEvents
  <2> QED BY <1>3, <2>1, SentInv DEF Disconnect, Radio, SessionInv, SessionTypeOK
<1>4. CASE WriteConfig
  <2>1. PICK text \in Texts : queue' = Append(queue, [event |-> "write", text |-> text])
    BY <1>4 DEF WriteConfig
  <2>2. text \in Text
    BY SessionAssumption
  <2> QED BY <1>4, <2>1, <2>2, MessageType, SentInv DEF WriteConfig, Radio, SessionInv, SessionTypeOK, stack
<1> QED BY <1>1, <1>2, <1>3, <1>4 DEF Companion

LEMMA EndInv ==
  ASSUME SessionInv, LoopEnds \/ LeaveRun \/ Again
  PROVE  SessionInv'
<1> USE DEF SessionInv, AppliedAsGiven
<1>0. <<>> \in Seq(Request \cup Event)
  OBVIOUS
<1>1. CASE LoopEnds
  <2>1. CASE Coap /\ handler = "none" /\ main' = "leave" /\ queue' = <<>>
    <3>1. WritesFollow'
      BY <1>1, <2>1 DEF LoopEnds, WritesFollow, Coap, Ble
    <3>2. SessionTypeOK'
      BY <1>0, <1>1, <2>1 DEF LoopEnds, SessionTypeOK, s_prov, stack
    <3>3. HandlerIsAwaited'
      BY <1>1, <2>1 DEF LoopEnds, HandlerIsAwaited
    <3> QED BY <1>1, <3>1, <3>2, <3>3, StagedStays DEF LoopEnds
  <2>2. CASE Ble /\ main' = "disable" /\ queue' = Append(queue, Of("disable"))
    BY <1>1, <2>2, MessageType, AnswersAreEvents, SentInv DEF LoopEnds, SessionTypeOK, stack
  <2> QED BY <1>1, <2>1, <2>2 DEF LoopEnds
<1>2. CASE LeaveRun
  <2>1. SessionTypeOK'
    BY <1>2, StagedTypes, StackTypes DEF LeaveRun, SessionTypeOK
  <2>2. HandlerIsAwaited'
    BY <1>2 DEF LeaveRun, HandlerIsAwaited
  <2> QED BY <1>2, <2>1, <2>2, QuietInv DEF LeaveRun, stack
<1>3. CASE Again
  BY <1>0, <1>3, QueueEmptied DEF Again, SessionTypeOK, HandlerIsAwaited, GivenIsWhole
<1> QED BY <1>1, <1>2, <1>3

-----------------------------------------------------------------------------
(* SessionInv holds in every reachable state. *)
THEOREM SessionInvariance == SessionSpec => []SessionInv
<1>1. SessionInit => SessionInv
  <2> SUFFICES ASSUME SessionInit PROVE SessionInv
    OBVIOUS
  <2>1. <<>> \in Seq(Request \cup Event)
    OBVIOUS
  <2>2. SessionTypeOK
    BY <2>1 DEF SessionInit, Fresh, SessionTypeOK
  <2>3. HandlerIsAwaited /\ GivenIsWhole /\ WritesFollow /\ AppliedAsGiven
    <3>1. HandlerIsAwaited /\ AppliedAsGiven
      BY DEF SessionInit, Fresh, HandlerIsAwaited, AppliedAsGiven
    <3>2. ~listed /\ ~uuid_set
      BY Zenon DEF SessionInit, Fresh
    <3>3. queue = <<>>
      BY DEF SessionInit, Fresh
    <3> QED BY <3>1, <3>2, <3>3 DEF GivenIsWhole, WritesFollow
  <2> QED BY <2>2, <2>3 DEF SessionInv
<1>2. SessionInv /\ [SessionNext]_session => SessionInv'
  <2> SUFFICES ASSUME SessionInv, [SessionNext]_session PROVE SessionInv'
    OBVIOUS
  <2>1. CASE UNCHANGED session
    <3>1. SessionTypeOK'
      BY <2>1, StagedTypes, StackTypes DEF session, SessionInv, SessionTypeOK
    <3>2. HandlerIsAwaited'
      BY <2>1 DEF session, SessionInv, HandlerIsAwaited
    <3> QED BY <2>1, <3>1, <3>2, QuietInv DEF session, stack
  <2> QED
    BY <2>1, StartingInv, PollServesInv, HandlerRunsInv, CallbackInv, EndInv, StackAnswersInv,
       CompanionInv
    DEF SessionNext, Handling
<1> QED BY <1>1, <1>2, PTL DEF SessionSpec

(* Every variable of a session keeps its type, for any length of the queue. *)
THEOREM SessionTypes == SessionSpec => []SessionTypeOK
<1>1. SessionInv => SessionTypeOK
  BY DEF SessionInv
<1> QED BY <1>1, SessionInvariance, PTL

(* However the events of the stack and the writes of the companion are
   interleaved, no write reaches the Bluetooth task before it knows the handle. *)
THEOREM EveryWriteIsHeard == SessionSpec => []WritesAreHeard
<1>1. SessionInv => WritesAreHeard
  <2> SUFFICES ASSUME SessionInv, Ble, NEW i \in DOMAIN queue, queue[i].event = "write",
                      ~s_handle_config_val
               PROVE  \E j \in 1 .. i : queue[j].event = "config"
    BY DEF WritesAreHeard
  <2>1. queue \in Seq(Message)
    BY QueueType DEF SessionInv
  <2>2. PICK j \in DOMAIN queue : j <= i /\ queue[j].event = "config"
    BY DEF SessionInv, WritesFollow, KnownAt
  <2> QED BY <2>1, <2>2
<1> QED BY <1>1, SessionInvariance, PTL

(* No bearer restarts the device in the middle of a handler. *)
THEOREM HandlersFinish == SessionSpec => []RestartsWhole
<1>1. SessionInv => RestartsWhole
  BY DEF SessionInv, HandlerIsAwaited, RestartsWhole
<1> QED BY <1>1, SessionInvariance, PTL

(* A UUID that was not decoded to its end is never applied. *)
THEOREM NothingTornIsApplied == SessionSpec => []AppliedAsGiven
<1>1. SessionInv => AppliedAsGiven
  BY DEF SessionInv
<1> QED BY <1>1, SessionInvariance, PTL

================================================================================
