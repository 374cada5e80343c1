------------------------------ MODULE Provision -------------------------------
(***************************************************************************)
(* Provisioning on ESP-IDF: the factory application (app_main.c) and the   *)
(* main application (tw_device_run) are two programs in two partitions     *)
(* that share one NVS.  The main application hands over to the factory     *)
(* application while id_hubprov is not set; the factory application serves *)
(* /tw/provision/* and hands back.                                         *)
(*                                                                         *)
(* NVS writes reach flash in the order they were made, at the latest at    *)
(* pal_nvs_commit: ESP-IDF writes them at once, other backends at commit,  *)
(* and Flush covers what lies between.  What losing power can leave behind *)
(* is therefore a prefix of the writes since the last commit.  A commit in *)
(* the middle of a handler only forces a prefix that Flush may write       *)
(* anyway, so a handler is its writes followed by its last commit.         *)
(*                                                                         *)
(* "vendor" stands for the identity fields written like it (product,       *)
(* names, serial, variant), "key" for key and key type, "ssid" for both    *)
(* WiFi credentials.  0 is an absent value.                                *)
(***************************************************************************)
EXTENDS Naturals, Sequences

CONSTANTS
  FactoryRequired,  \* CONFIG_TW_FACTORY_PROVISION_REQUIRED
  Values,           \* values of data keys
  RefusedHubs,      \* hub addresses tw_hub_set_address takes for too long
  FactoryCmds,      \* decodable FactoryProvisionCmds
  SetCmds,          \* decodable ProvisionSetCmds
  KvCmds,           \* kvtext messages
  MaxPending        \* bound: uncommitted writes before the next request

Flags == {"factory", "done", "final", "hubprov"}
Keys == {"vendor", "key", "uuid", "ssid", "hub"} \cup Flags
FactoryKeys == {"vendor", "key", "factory", "done", "final"}

FactoryCmd == [vendor : {0} \cup Values, uuid : {0} \cup Values, key : {0} \cup Values,
               badkey : BOOLEAN, finalize : BOOLEAN]
SetCmd == [ssid : {0} \cup Values, hub : {0} \cup Values]
KvCmd == [vendor : {0} \cup Values, key : {0} \cup Values, uuid : {0} \cup Values,
          ssid : {0} \cup Values, hub : {0} \cup Values,
          phase : {"", "factory", "hub"}, cmd : {"", "commit", "reset"}]

ASSUME ProvisionAssumption ==
  /\ FactoryRequired \in BOOLEAN
  /\ Values \subseteq Nat \ {0}
  /\ 1 \in Values
  /\ RefusedHubs \subseteq Values
  /\ FactoryCmds \subseteq FactoryCmd
  /\ SetCmds \subseteq SetCmd
  /\ KvCmds \subseteq KvCmd
  /\ MaxPending \in Nat

VARIABLES
  wire,         \* what the factory application was built for: "protobuf" is
                \* CoAP with nanopb, "kvtext" is BLE or CoAP with text
  flash,        \* what is in NVS after a reset
  nvs,          \* what a read returns
  pending,      \* writes not yet known to be in flash, in order
  boot,         \* the partition the next reset starts
  running,      \* the program that runs
  pc,           \* where it is
  s_prov,       \* kvtext values received so far
  s_prov_done,
  resp          \* code of the last reply

memory == <<wire, flash, nvs, pending>>
vars == <<wire, flash, nvs, pending, boot, running, pc, s_prov, s_prov_done, resp>>

Programs == {"factory", "main"}

(* Where the program is.  "factory", "set" and "apply" are the handlers of
   that name between their last write and pal_nvs_commit; "switch" is the end
   of app_main; "reset" is svc_reset_button_poll before its commit. *)
Places == {"boot", "listen", "factory", "set", "apply", "switch", "operative", "reset"}

Empty == [vendor |-> 0, key |-> 0, uuid |-> 0, ssid |-> 0, hub |-> 0, phase |-> "", cmd |-> ""]

Record == [Keys -> {0} \cup Values]
Write == [key : Keys, val : {0} \cup Values]

TypeOK ==
  /\ wire \in {"protobuf", "kvtext"}
  /\ flash \in Record
  /\ nvs \in Record
  /\ pending \in Seq(Write)
  /\ boot \in Programs
  /\ running \in Programs
  /\ pc \in Places
  /\ s_prov \in KvCmd
  /\ s_prov_done \in BOOLEAN
  /\ resp \in {0, 204, 400, 403}

-----------------------------------------------------------------------------
(* NVS.                                                                    *)

Wrote(key, val) == <<[key |-> key, val |-> val]>>
WroteIf(cond, key, val) == IF cond THEN Wrote(key, val) ELSE <<>>
WroteGiven(key, val) == WroteIf(val # 0, key, val)

(* pal_nvs_set_*; no handler writes two different values to one key. *)
Put(writes) ==
  /\ nvs' = [k \in Keys |->
       IF \E i \in DOMAIN writes : writes[i].key = k
         THEN writes[CHOOSE i \in DOMAIN writes : writes[i].key = k].val
         ELSE nvs[k]]
  /\ pending' = pending \o writes
  /\ UNCHANGED <<wire, flash>>

(* pal_nvs_commit *)
CommitNvs ==
  /\ flash' = nvs
  /\ pending' = <<>>
  /\ UNCHANGED <<wire, nvs>>

Flush ==
  /\ pending # <<>>
  /\ flash' = [flash EXCEPT ![Head(pending).key] = Head(pending).val]
  /\ pending' = Tail(pending)
  /\ UNCHANGED <<wire, nvs, boot, running, pc, s_prov, s_prov_done, resp>>

-----------------------------------------------------------------------------
(* Starting up.                                                            *)

Reboot(program) ==
  /\ running' = program
  /\ pc' = "boot"
  /\ nvs' = flash
  /\ pending' = <<>>
  /\ s_prov' = Empty
  /\ s_prov_done' = FALSE
  /\ resp' = 0
  /\ UNCHANGED <<wire, flash>>

(* Power loss or watchdog, at any moment. *)
Crash == Reboot(boot) /\ UNCHANGED boot

(* svc_provision_is_needed *)
Needed == nvs["hubprov"] # 1

FactoryBoot ==
  /\ running = "factory"
  /\ pc = "boot"
  /\ pc' = IF nvs["factory"] = 1 THEN "switch" ELSE "listen"
  /\ UNCHANGED <<memory, boot, running, s_prov, s_prov_done, resp>>

(* pal_system_reboot leaves the boot partition as it is. *)
FactorySwitch ==
  /\ pc = "switch"
  /\ Reboot(boot)
  /\ UNCHANGED boot

MainBoot ==
  /\ running = "main"
  /\ pc = "boot"
  /\ IF Needed
       THEN boot' = "factory" /\ Reboot("factory")
       ELSE pc' = "operative" /\ UNCHANGED <<memory, boot, running, s_prov, s_prov_done, resp>>

-----------------------------------------------------------------------------
(* Protobuf requests.                                                      *)

Listening == pc = "listen" /\ Len(pending) <= MaxPending

Refuse(code) ==
  /\ resp' = code
  /\ UNCHANGED <<memory, boot, running, pc, s_prov, s_prov_done>>

(* A payload that is empty or does not decode. *)
Malformed == Listening /\ wire = "protobuf" /\ Refuse(400)

FactoryFields(cmd) == WroteGiven("vendor", cmd.vendor) \o WroteGiven("uuid", cmd.uuid)

(* Locked, or two keys, or a PSK of the wrong length; the latter is found
   only after the other fields were written. *)
FactoryRefused(cmd) ==
  \/ nvs["final"] = 1 /\ Refuse(403)
  \/ /\ nvs["final"] # 1
     /\ cmd.badkey
     /\ Put(FactoryFields(cmd))
     /\ resp' = 400
     /\ UNCHANGED <<boot, running, pc, s_prov, s_prov_done>>

(* Mutant: a locked device takes the command. *)
FactoryAcceptedUnlocked(cmd) ==
  /\ ~cmd.badkey
  /\ Put(FactoryFields(cmd) \o WroteGiven("key", cmd.key) \o Wrote("done", 1)
           \o WroteIf(cmd.finalize, "final", 1))
  /\ pc' = "factory"
  /\ UNCHANGED <<boot, running, s_prov, s_prov_done, resp>>

FactoryAccepted(cmd) ==
  /\ nvs["final"] # 1
  /\ ~cmd.badkey
  /\ Put(FactoryFields(cmd) \o WroteGiven("key", cmd.key) \o Wrote("done", 1)
           \o WroteIf(cmd.finalize, "final", 1))
  /\ pc' = "factory"
  /\ UNCHANGED <<boot, running, s_prov, s_prov_done, resp>>

ProvOnFactory(cmd) ==
  /\ Listening
  /\ wire = "protobuf"
  /\ FactoryRefused(cmd) \/ FactoryAccepted(cmd)

(* Mutant: a new hub's claim takes back what the last one commissioned. *)
ProvOnHubAnew(id) ==
  /\ Listening
  /\ wire = "protobuf"
  /\ FactoryRequired => nvs["done"] = 1
  /\ Put(Wrote("uuid", id) \o Wrote("hubprov", 0))
  /\ resp' = 204
  /\ UNCHANGED <<boot, running, pc, s_prov, s_prov_done>>

ProvOnHub(id) ==
  /\ Listening
  /\ wire = "protobuf"
  /\ \/ FactoryRequired /\ nvs["done"] # 1 /\ Refuse(403)
     \/ /\ FactoryRequired => nvs["done"] = 1
        /\ Put(Wrote("uuid", id))
        /\ resp' = 204
        /\ UNCHANGED <<boot, running, pc, s_prov, s_prov_done>>

(* tw_hub_set_address: a host of 64 characters or more in front of a port is
   refused before anything is written, and nobody looks at the result. *)
Storable(hub) == hub # 0 /\ hub \notin RefusedHubs
WroteHub(hub) == WroteIf(Storable(hub), "hub", hub)

(* Whatever the entries are, those with an unknown key, a refused hub address
   and none at all included, the device is provisioned afterwards. *)
ProvOnSet(cmd) ==
  /\ Listening
  /\ wire = "protobuf"
  /\ Put(WroteGiven("ssid", cmd.ssid) \o WroteHub(cmd.hub) \o Wrote("hubprov", 1))
  /\ pc' = "set"
  /\ UNCHANGED <<boot, running, s_prov, s_prov_done, resp>>

-----------------------------------------------------------------------------
(* kvtext messages.                                                        *)

(* prov_visitor: s_prov keeps what earlier messages said. *)
Merge(msg) ==
  [f \in DOMAIN Empty |-> IF msg[f] = Empty[f] THEN s_prov[f] ELSE msg[f]]

HasIdentity(d) == d.vendor # 0 \/ d.uuid # 0 \/ d.phase = "factory"

(* An identity field that was not given is written with the default of the
   factory application, which is 0. *)
IdentityWrites(d) ==
  IF HasIdentity(d)
    THEN Wrote("vendor", d.vendor) \o WroteGiven("uuid", d.uuid)
           \o WroteGiven("key", d.key) \o Wrote("factory", 1)
    ELSE <<>>

(* Mutant: the flag is set before the values it vouches for. *)
NetworkWritesFlagFirst(d) ==
  IF d.phase = "factory" /\ d.ssid = 0
    THEN <<>>
    ELSE WroteIf(d.ssid # 0 \/ d.hub # 0, "hubprov", 1) \o WroteGiven("ssid", d.ssid)
           \o WroteHub(d.hub) \o WroteGiven("uuid", d.uuid)

(* The flag follows a hub address even if that was refused. *)
NetworkWrites(d) ==
  IF d.phase = "factory" /\ d.ssid = 0
    THEN <<>>
    ELSE WroteGiven("ssid", d.ssid) \o WroteHub(d.hub)
           \o WroteGiven("uuid", d.uuid) \o WroteIf(d.ssid # 0 \/ d.hub # 0, "hubprov", 1)

ApplyProvisioning(d) == Put(IdentityWrites(d) \o NetworkWrites(d))

(* What CoAP and BLE do with a message once it is merged.  BLE runs it in the
   callback of a write, beside the loop that waits for s_prov_done, and has no
   reply code. *)
Heard(d) ==
  \/ /\ d.cmd = "commit"
     /\ ApplyProvisioning(d)
     /\ s_prov' = d
     /\ pc' = "apply"
     /\ UNCHANGED resp
  \/ /\ d.cmd # "commit"
     /\ s_prov' = IF d.cmd = "reset" THEN Empty ELSE d
     /\ resp' = 204
     /\ UNCHANGED <<memory, pc>>

OnKvtext(msg) ==
  /\ Listening
  /\ wire = "kvtext"
  /\ Heard(Merge(msg))
  /\ UNCHANGED <<boot, running, s_prov_done>>

-----------------------------------------------------------------------------
(* The end of a handler that commits: reply, and for all but the factory
   command leave the provisioning loop. *)
HandlerCommit ==
  /\ pc \in {"factory", "set", "apply"}
  /\ CommitNvs
  /\ resp' = 204
  /\ s_prov_done' = (s_prov_done \/ pc # "factory")
  /\ pc' = "listen"
  /\ UNCHANGED <<boot, running, s_prov>>

(* The loop looks at s_prov_done between polls, so requests that the same
   poll delivers are still served. *)
ProvisionDone ==
  /\ pc = "listen"
  /\ s_prov_done
  /\ pc' = "switch"
  /\ UNCHANGED <<memory, boot, running, s_prov, s_prov_done, resp>>

(* The reset button held for long enough in the main application. *)
ResetButton ==
  /\ pc = "operative"
  /\ Put(Wrote("hubprov", 0))
  /\ pc' = "reset"
  /\ UNCHANGED <<boot, running, s_prov, s_prov_done, resp>>

(* Mutant: the button handler returns to the main loop. *)
ResetCommitStays ==
  /\ pc = "reset"
  /\ CommitNvs
  /\ pc' = "operative"
  /\ UNCHANGED <<boot, running, s_prov, s_prov_done, resp>>

ResetCommit ==
  /\ pc = "reset"
  /\ flash' = nvs
  /\ boot' = "factory"
  /\ running' = "factory"
  /\ pc' = "boot"
  /\ pending' = <<>>
  /\ s_prov' = Empty
  /\ s_prov_done' = FALSE
  /\ resp' = 0
  /\ UNCHANGED <<wire, nvs>>

-----------------------------------------------------------------------------
(* A device as flashed: blank, or with an NVS image that makes it operative.
   Without otadata the bootloader starts the factory partition. *)
Blank == [k \in Keys |-> 0]
Provisioned == [Blank EXCEPT !["vendor"] = 1, !["done"] = 1,
                             !["ssid"] = 1, !["hub"] = 1, !["hubprov"] = 1]

Init ==
  /\ wire \in {"protobuf", "kvtext"}
  /\ flash \in {Blank, Provisioned}
  /\ nvs = flash
  /\ pending = <<>>
  /\ boot \in Programs
  /\ running = boot
  /\ pc = "boot"
  /\ s_prov = Empty
  /\ s_prov_done = FALSE
  /\ resp = 0

Next ==
  \/ Flush
  \/ Crash
  \/ FactoryBoot
  \/ FactorySwitch
  \/ MainBoot
  \/ Malformed
  \/ \E cmd \in FactoryCmds : ProvOnFactory(cmd)
  \/ \E id \in Values : ProvOnHub(id)
  \/ \E cmd \in SetCmds : ProvOnSet(cmd)
  \/ \E msg \in KvCmds : OnKvtext(msg)
  \/ HandlerCommit
  \/ ProvisionDone
  \/ ResetButton
  \/ ResetCommit

Spec == Init /\ [][Next]_vars

-----------------------------------------------------------------------------
(* Properties.                                                             *)

(* Once a finalized factory pass is in flash, no request, refused request,
   power loss or hub provisioning changes the factory identity again
   (factory_is_finalized, checked by prov_on_factory). *)
FactoryLock ==
  [][flash["final"] = 1 => \A k \in FactoryKeys : flash'[k] = flash[k]]_vars

(* The main application works only on a device that is provisioned and stays
   so across a power loss (svc_provision_is_needed, the reset button). *)
OperativeProvisioned == pc = "operative" => nvs["hubprov"] = 1 /\ flash["hubprov"] = 1

(* What can be stored of commit d is in the record. *)
Holds(record, d) ==
  /\ d.ssid # 0 => record["ssid"] = d.ssid
  /\ Storable(d.hub) => record["hub"] = d.hub
  /\ d.uuid # 0 => record["uuid"] = d.uuid
  /\ HasIdentity(d) => /\ record["vendor"] = d.vendor /\ record["factory"] = 1
                       /\ d.key # 0 => record["key"] = d.key

(* At whatever write the power fails, a kvtext device begins to take itself for
   provisioned only when all that could be stored of the commit that made it so
   is in flash, the values of earlier messages included: network, hub, id and
   identity, each as it was given (the order of writes in apply_provisioning). *)
CommitBeforeFlag ==
  [][wire = "kvtext" /\ flash["hubprov"] # 1 /\ flash'["hubprov"] = 1
       => Holds(flash', s_prov)]_vars

(* The device as Provisioning sees it: what is in flash, and whether the main
   application works. *)
IdentityOf(record) == [k \in FactoryKeys |-> record[k]]
SettingsOf(record) == [k \in Keys \ (FactoryKeys \cup {"hubprov"}) |-> record[k]]
Stage == IF pc = "operative" THEN "working" ELSE IF pc = "reset" THEN "pressed" ELSE "off"

Identities == [FactoryKeys -> {0} \cup Values]

Promise == INSTANCE Provisioning WITH
  Identities <- Identities,
  Locked <- {id \in Identities : id["final"] = 1},
  Settings <- [Keys \ (FactoryKeys \cup {"hubprov"}) -> {0} \cup Values],
  identity <- IdentityOf(flash),
  settings <- SettingsOf(flash),
  commissioned <- (flash["hubprov"] = 1),
  stage <- Stage

(* Both programs and their NVS together are one device that Provisioning
   describes: whatever a loss of power leaves of a handler's writes, a device
   that works was commissioned, nothing it was given changes while it works, and
   no request, refused request or restart takes its commission away; only the
   reset button does (svc_provision_is_needed, svc_reset_button_poll). *)
ProvisioningSpec == Promise!Spec

(* Inductive strengthening of FactoryLock. *)

(* Reads see the pending writes on top of flash. *)
Overlay ==
  /\ \A k \in Keys : (\A i \in DOMAIN pending : pending[i].key # k) => nvs[k] = flash[k]
  /\ \A i \in DOMAIN pending :
       (\A j \in DOMAIN pending : j > i => pending[j].key # pending[i].key)
         => nvs[pending[i].key] = pending[i].val

(* Whoever reads NVS sees the lock as soon as it is written. *)
LockIsSeen ==
  /\ \A i \in DOMAIN pending : pending[i].key = "final" => nvs["final"] = 1
  /\ flash["final"] = 1 => nvs["final"] = 1

(* Nothing of the factory identity is written after the lock. *)
LockIsLast ==
  /\ \A i, j \in DOMAIN pending :
       i < j /\ pending[i].key = "final" => pending[j].key \notin FactoryKeys
  /\ flash["final"] = 1 => \A i \in DOMAIN pending : pending[i].key \notin FactoryKeys

(* A kvtext build never finalizes. *)
KvtextUnlocked == wire = "kvtext" => nvs["final"] # 1

LockInv == Overlay /\ LockIsSeen /\ LockIsLast /\ KvtextUnlocked

(* Inductive strengthening of CommitBeforeFlag. *)

FlagWrites == {i \in DOMAIN pending : pending[i].key = "hubprov"}

(* In a kvtext build nothing is pending but the writes of one commit, the flag is
   the last of them, and what it vouches for is read as soon as it is. *)
FlagIsVouched ==
  wire = "kvtext" /\ pc # "reset" =>
    /\ pc # "apply" => pending = <<>>
    /\ FlagWrites \subseteq {Len(pending)}
    /\ FlagWrites # {} => Holds(nvs, s_prov)

(* Inductive strengthening of ProvisioningSpec, with the lock. *)

(* Until the button is pressed the flag is only ever set, and whoever reads sees
   it as soon as it is; afterwards nothing but its erasure is pending. *)
FlagIsKept ==
  /\ pc # "reset" =>
       /\ flash["hubprov"] = 1 => nvs["hubprov"] = 1
       /\ \A i \in DOMAIN pending :
            pending[i].key = "hubprov" => pending[i].val = 1 /\ nvs["hubprov"] = 1
  /\ pc = "reset" =>
       /\ nvs["hubprov"] = 0
       /\ \A i \in DOMAIN pending : pending[i] = [key |-> "hubprov", val |-> 0]

-----------------------------------------------------------------------------
(* What the repository says and the code does not do.                      *)

(* app_main.c: "Set boot partition to OTA-0 (the main app)."  Nothing sets
   it: the reboot starts the factory application again. *)
SwitchBootsMain == pc = "switch" => boot = "main"
=============================================================================
