-------------------------------- MODULE Settings --------------------------------
(***************************************************************************)
(* What the main application keeps over restarts: the identity             *)
(* (svc_identity.c), with its copy in RAM, and the announcement of new     *)
(* firmware (svc_cmd.c), both in NVS through either backend.               *)
(*                                                                         *)
(* ESP-IDF writes each value to flash at once.  POSIX keeps a table, and a *)
(* commit truncates the file and writes all of it again.  A handler is the *)
(* change in RAM and a list of NVS calls, one step each; the device can    *)
(* restart between any two.                                                *)
(*                                                                         *)
(* "number" stands for vendor, product, variant, serial and key type,      *)
(* "name" for both display names, "uuid" for the UUID and the key.  A      *)
(* value is a sequence, so that a name can be too long; a number is <<n>>. *)
(***************************************************************************)
EXTENDS Naturals, Sequences, FiniteSets

CONSTANTS
  Numbers,         \* values of number fields
  Names,           \* names tw_identity_set_field may be given
  DefaultName,     \* the name compiled in
  NameMax,         \* TW_DISPLAY_NAME_MAX - 1
  MaxKeys,         \* MAX_KEYS of the POSIX table
  MaxAnnounced,    \* bound: announcements
  MaxRefused,      \* bound: keys whose last write failed
  NULL

Uuids == {0, 1}    \* 0 is the all-zero UUID

ASSUME SettingsAssumption ==
  /\ Numbers \subseteq Nat
  /\ NameMax \in Nat
  /\ Names \subseteq Seq(Nat)
  /\ DefaultName \in Seq(Nat)
  /\ MaxKeys \in Nat
  /\ MaxAnnounced \in Nat
  /\ MaxRefused \in Nat
  /\ NULL \notin Uuids
  /\ NULL \notin Seq(Nat)

IdentityKeys == {"number", "name", "uuid", "factory"}
Keys == IdentityKeys \cup {"url", "size", "sha256"}

VARIABLES
  backend,      \* "esp" or "posix"
  s_id,         \* the identity in RAM
  nvs,          \* what a read returns
  disk,         \* what the next start finds
  rewriting,    \* POSIX: the file is truncated and not yet written
  todo,         \* NVS calls the handler has still to make
  announced,    \* history: announcements accepted
  refused,      \* history: keys whose last write failed
  unsaved,      \* history: the last commit failed
  made          \* history: what the first factory pass wrote

store == <<nvs, disk, rewriting>>
vars == <<backend, s_id, store, todo, announced, refused, unsaved, made>>

Value == Seq(Nat)
Table == [Keys -> Value \cup {NULL}]
Call == [op : {"set"}, key : Keys, value : Value] \cup [op : {"commit"}]

TypeOK ==
  /\ backend \in {"esp", "posix"}
  /\ s_id \in [number : Nat, name : Value, uuid : Nat, factory : BOOLEAN]
  /\ Len(s_id.name) <= NameMax
  /\ nvs \in Table
  /\ disk \in Table
  /\ rewriting \in BOOLEAN
  /\ todo \in Seq(Call)
  /\ announced \in 0 .. MaxAnnounced
  /\ refused \subseteq Keys
  /\ unsaved \in BOOLEAN
  /\ made \subseteq Keys

-----------------------------------------------------------------------------
(* The table, and what a start makes of it.                                *)

Has(table, key) == table[key] # NULL

Empty == [key \in Keys |-> NULL]

Truncated(name) == SubSeq(name, 1, IF Len(name) < NameMax THEN Len(name) ELSE NameMax)

(* Mutant: snprintf into the buffer is not bounded. *)
BootNameWhole(table) == IF Has(table, "name") THEN table["name"] ELSE Truncated(DefaultName)

(* pal_nvs_get_str into a buffer of TW_DISPLAY_NAME_MAX bytes: POSIX cuts a
   value that is longer, ESP-IDF refuses it and the default stays. *)
BootName(table) ==
  IF Has(table, "name") /\ (backend = "posix" \/ Len(table["name"]) <= NameMax)
  THEN Truncated(table["name"])
  ELSE Truncated(DefaultName)

(* tw_identity_init: defaults, overridden by what NVS has.  A UUID of zeros
   is none. *)
Loaded(table) ==
  [number  |-> IF Has(table, "number") THEN table["number"][1] ELSE 0,
   name    |-> BootName(table),
   uuid    |-> IF Has(table, "uuid") THEN table["uuid"][1] ELSE 0,
   factory |-> Has(table, "factory") /\ table["factory"][1] = 1]

Init ==
  /\ backend \in {"esp", "posix"}
  /\ nvs = Empty
  /\ disk = Empty
  /\ s_id = Loaded(Empty)
  /\ rewriting = FALSE
  /\ todo = <<>>
  /\ announced = 0
  /\ refused = {}
  /\ unsaved = FALSE
  /\ made = {}

-----------------------------------------------------------------------------
(* The calls of a handler.                                                 *)

Set(key, value) == <<[op |-> "set", key |-> key, value |-> value]>>
Commit == <<[op |-> "commit"]>>
If(condition, calls) == IF condition THEN calls ELSE <<>>

(* tw_config_set_str, tw_config_set_i32 *)
Stored(key, value) == Set(key, value) \o Commit

Begin(identity, calls) ==
  /\ todo = <<>>
  /\ s_id' = identity
  /\ todo' = calls
  /\ UNCHANGED <<backend, store, refused, unsaved>>

SetUuid(uuid) ==
  /\ Begin([s_id EXCEPT !.uuid = uuid], Stored("uuid", <<uuid>>))
  /\ UNCHANGED <<announced, made>>

(* Mutant: the flag goes first. *)
FactoryCallsFlagFirst(number, name, uuid) ==
  Set("factory", <<1>>) \o Set("number", <<number>>)
    \o If(name # NULL, Set("name", name)) \o If(uuid # NULL, Set("uuid", <<uuid>>)) \o Commit

FactoryCalls(number, name, uuid) ==
  Set("number", <<number>>)
    \o If(name # NULL, Set("name", name)) \o If(uuid # NULL, Set("uuid", <<uuid>>))
    \o Set("factory", <<1>>) \o Commit

(* tw_identity_set_factory: the name in RAM is cut, the one in NVS is not. *)
SetFactory(number, name, uuid) ==
  /\ Begin([number  |-> number,
            name    |-> IF name = NULL THEN s_id.name ELSE Truncated(name),
            uuid    |-> IF uuid = NULL THEN s_id.uuid ELSE uuid,
            factory |-> TRUE],
           FactoryCalls(number, name, uuid))
  /\ made' = IF Has(nvs, "factory") THEN made
             ELSE {"number"} \cup (IF name = NULL THEN {} ELSE {"name"})
                    \cup (IF uuid = NULL THEN {} ELSE {"uuid"})
  /\ UNCHANGED announced

(* Mutant: what is stored is not what is kept in RAM. *)
StoredNameWhole(name) == name

(* tw_identity_set_field stores the name as it was cut. *)
StoredName(name) == Truncated(name)

SetField ==
  /\ \/ \E number \in Numbers :
          Begin([s_id EXCEPT !.number = number], Stored("number", <<number>>))
     \/ \E name \in Names :
          Begin([s_id EXCEPT !.name = Truncated(name)], Stored("name", StoredName(name)))
  /\ UNCHANGED <<announced, made>>

(* Mutant: the digest goes first. *)
AnnouncementDigestFirst(n, digest) ==
  If(digest, Stored("sha256", <<n>>)) \o Stored("url", <<n>>) \o Stored("size", <<n>>)

Announcement(n, digest) ==
  Stored("url", <<n>>) \o Stored("size", <<n>>) \o If(digest, Stored("sha256", <<n>>))

(* /tw/ota-available; one without a digest leaves the digest alone. *)
OtaAvailable(digest) ==
  /\ announced < MaxAnnounced
  /\ announced' = announced + 1
  /\ Begin(s_id, Announcement(announced', digest))
  /\ UNCHANGED made

(* apply_provisioning passes a name that fits, the compiled one, or none. *)
Handler ==
  \/ \E uuid \in Uuids : SetUuid(uuid)
  \/ \E number \in Numbers, uuid \in Uuids \cup {NULL},
        name \in {n \in Names : Len(n) <= NameMax} \cup {DefaultName, NULL} :
       SetFactory(number, name, uuid)
  \/ SetField
  \/ \E digest \in BOOLEAN : OtaAvailable(digest)

-----------------------------------------------------------------------------
(* NVS.                                                                    *)

Done == todo' = Tail(todo) /\ UNCHANGED <<backend, s_id, announced, made>>

(* pal_nvs_set_i32, _str and _blob.  A full table refuses a new key and a
   failing flash any; no caller looks at the result. *)
Write ==
  /\ todo # <<>>
  /\ todo[1].op = "set"
  /\ LET key == todo[1].key
         full == ~Has(nvs, key) /\ Cardinality({k \in Keys : Has(nvs, k)}) >= MaxKeys
     IN \/ /\ backend = "esp" \/ ~full
           /\ nvs' = [nvs EXCEPT ![key] = todo[1].value]
           /\ disk' = IF backend = "esp" THEN nvs' ELSE disk
           /\ refused' = refused \ {key}
        \/ /\ backend = "esp" \/ full
           /\ refused' = refused \cup {key}
           /\ backend = "esp" => Cardinality(refused') <= MaxRefused
           /\ UNCHANGED <<nvs, disk>>
  /\ Done
  /\ UNCHANGED <<rewriting, unsaved>>

AtCommit == todo # <<>> /\ todo[1].op = "commit"

CommitEsp == backend = "esp" /\ AtCommit /\ Done /\ UNCHANGED <<store, refused, unsaved>>

(* save: open with O_TRUNC, or fail and say nothing ... *)
Truncate ==
  /\ backend = "posix"
  /\ AtCommit
  /\ ~rewriting
  /\ rewriting' = TRUE
  /\ disk' = Empty
  /\ UNCHANGED <<backend, s_id, nvs, todo, announced, refused, unsaved, made>>

OpenFails ==
  /\ backend = "posix"
  /\ AtCommit
  /\ ~rewriting
  /\ unsaved' = TRUE
  /\ Done
  /\ UNCHANGED <<store, refused>>

(* ... and write every line. *)
Rewrite ==
  /\ rewriting
  /\ rewriting' = FALSE
  /\ disk' = nvs
  /\ unsaved' = FALSE
  /\ Done
  /\ UNCHANGED <<nvs, refused>>

(* A file of this size is written whole or not at all.  nvs_flash_init may find
   no free page, and pal_nvs_init erases the partition. *)
Found == IF backend = "esp" THEN {disk, Empty} ELSE {disk}

(* A reset, pal_nvs_init and tw_identity_init. *)
Restart ==
  /\ \E table \in Found :
       /\ nvs' = table
       /\ disk' = table
       /\ s_id' = Loaded(table)
  /\ rewriting' = FALSE
  /\ todo' = <<>>
  /\ unsaved' = FALSE
  /\ UNCHANGED <<backend, announced, refused, made>>

Nvs == Write \/ CommitEsp \/ Truncate \/ OpenFails \/ Rewrite

Next == Handler \/ Nvs \/ Restart

Spec == Init /\ [][Next]_vars

-----------------------------------------------------------------------------
(* Properties.                                                             *)

(* Between handlers, the identity in RAM is the one the next start will load,
   field by field, whichever handlers ran and wherever the device restarted:
   but for a field whose write was refused, and a file that could not be opened. *)
RestartKeepsIdentity ==
  todo = <<>> /\ ~unsaved =>
    \A field \in IdentityKeys \ refused : s_id[field] = Loaded(disk)[field]

(* The announcement a start finds for a key, 0 for none. *)
Newest(key) == IF Has(disk, key) THEN disk[key][1] ELSE 0

(* /tw/ota-available stores the URL, then the size, then the digest, each with a
   commit: whatever a restart cuts off, the digest found is never of a later
   announcement than the size, nor the size than the URL. *)
AnnouncementOrdered ==
  {"url", "size", "sha256"} \cap refused = {} =>
    Newest("sha256") <= Newest("size") /\ Newest("size") <= Newest("url")

(* tw_identity_set_factory writes its flag last: a start that finds the flag
   finds everything the pass was given, as far as NVS took it. *)
FactoryIsWhole ==
  Loaded(disk).factory =>
    \A key \in made \ refused : Has(disk, key)
=============================================================================
