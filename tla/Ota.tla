-------------------------------- MODULE Ota ---------------------------------
(***************************************************************************)
(* The OTA push receiver (svc_ota.c) on the A/B partitions of              *)
(* pal_ota_esp.c.                                                          *)
(*                                                                         *)
(* A hub declares an image (begin), sends it block by block (block) and    *)
(* asks for it to be installed (commit).  The receiver keeps its place in  *)
(* static variables, which a reset wipes; the two slots and the boot       *)
(* choice survive.  Requests are arbitrary: one that was lost, repeated,   *)
(* delayed or never belonged to this transfer is one the hub may send.     *)
(*                                                                         *)
(* Handlers are dispatched one at a time by proto->poll(), so begin and    *)
(* block are single steps.  Commit is split where losing power matters:    *)
(* before the image is sealed, before the boot choice is written and       *)
(* before the restart.  s_state itself says how far it got.                *)
(***************************************************************************)
EXTENDS Naturals, Sequences

CONSTANTS
  Byte,             \* the alphabet of firmware images
  NULL,             \* no open write session
  NoDigest,         \* begin carried no (valid) SHA-256
  NoOffer,          \* no update under way (abstract specification)
  Sizes,            \* sizes a begin may declare; 0 = missing or undecodable
  Digests,          \* digests a begin may declare, as the image they belong to
  Blocks,           \* payloads a block may carry, the empty one included
  Nums,             \* Block1 numbers a block may carry
  FactoryImage,     \* what is flashed in slot 0 at the factory
  VerifySignature,  \* CONFIG_TW_OTA_VERIFY_SIGNATURE
  PalFailures       \* the pal_ota_* calls that may fail with an I/O error

Slots == {0, 1}
Calls == {"begin", "write", "finish", "set_boot", "mark_valid"}

ASSUME OtaAssumption ==
  /\ NULL \notin Slots
  /\ NoDigest \notin Seq(Byte)
  /\ Sizes \subseteq Nat
  /\ Digests \subseteq Seq(Byte)
  /\ Blocks \subseteq Seq(Byte)
  /\ Nums \subseteq Nat
  /\ NoOffer \notin [size : Nat, digest : Seq(Byte) \cup {NoDigest}]
  /\ FactoryImage \in Seq(Byte)
  /\ VerifySignature \in BOOLEAN
  /\ PalFailures \subseteq Calls

VARIABLES
  s_state,            \* tw_ota_state_t
  s_handle,           \* NULL, or the slot the open write session fills
  s_expected_size,
  s_received,
  s_expected_block,
  s_expected_sha256,  \* NoDigest stands for s_has_sha256 = false
  s_sha_ctx,          \* the bytes hashed so far
  resp,               \* code of the last reply; 0 while a handler has not returned
  slot,               \* contents of ota_0 and ota_1
  sealed,             \* slots holding an image that pal_ota_finish accepted
  img,                \* otadata: what the bootloader knows of each slot
  boot,               \* otadata: the slot the next reset starts
  running             \* the slot this firmware was started from

receiver == <<s_state, s_handle, s_expected_size, s_received,
              s_expected_block, s_expected_sha256, s_sha_ctx>>
flash == <<slot, sealed, img, boot>>
vars == <<receiver, resp, flash, running>>

States == {"IDLE", "RECEIVING", "VERIFYING", "REBOOTING", "PENDING_VERIFY", "ERROR"}
ImgStates == {"undefined", "new", "pending", "valid", "aborted"}
Codes == {0, 201, 204, 231, 400, 408, 413, 500}

TypeOK ==
  /\ s_state \in States
  /\ s_handle \in Slots \cup {NULL}
  /\ s_expected_size \in Nat
  /\ s_received \in Nat
  /\ s_expected_block \in Nat
  /\ s_expected_sha256 \in Seq(Byte) \cup {NoDigest}
  /\ s_sha_ctx \in Seq(Byte)
  /\ resp \in Codes
  /\ slot \in [Slots -> Seq(Byte)]
  /\ sealed \subseteq Slots
  /\ img \in [Slots -> ImgStates]
  /\ boot \in Slots
  /\ running \in Slots

-----------------------------------------------------------------------------
(* Backend (pal_ota_esp.c).                                                *)

(* esp_ota_get_next_update_partition(NULL): the slot we do not run from. *)
Target == 1 - running

EraseTarget ==
  /\ slot' = [slot EXCEPT ![Target] = <<>>]
  /\ sealed' = sealed \ {Target}
  /\ UNCHANGED <<img, boot>>

(* The bootloader refuses a new session while the running image awaits
   confirmation: the target slot is the one a rollback needs. *)
BeginAllowed == img[running] # "pending"

-----------------------------------------------------------------------------
(* Handlers run one at a time; only a commit in progress spans several steps. *)
HandlerFree == s_state \notin {"VERIFYING", "REBOOTING"}

(* on_begin dereferences the old handle to abort it; a session that is
   already closed makes that a NULL dereference (see BeginFault). *)
AbortSafe == s_state = "RECEIVING" => s_handle # NULL

(* No usable size: the previous session is closed, s_state is left alone. *)
BeginRejected(size, digest) ==
  /\ size = 0
  /\ s_handle' = NULL
  /\ s_expected_size' = 0
  /\ s_expected_sha256' = digest
  /\ resp' = 400
  /\ UNCHANGED <<s_state, s_received, s_expected_block, s_sha_ctx, flash>>

(* pal_ota_begin returned an error, before or after it erased the slot. *)
BeginFailed(size, digest) ==
  /\ size > 0
  /\ \/ ~BeginAllowed /\ UNCHANGED flash
     \/ BeginAllowed /\ "begin" \in PalFailures /\ (UNCHANGED flash \/ EraseTarget)
  /\ s_state' = "ERROR"
  /\ s_handle' = NULL
  /\ s_expected_size' = size
  /\ s_expected_sha256' = digest
  /\ resp' = 500
  /\ UNCHANGED <<s_received, s_expected_block, s_sha_ctx>>

(* Mutant: the byte counter of the previous session is kept. *)
BeginAcceptedKeepsCount(size, digest) ==
  /\ size > 0
  /\ BeginAllowed
  /\ EraseTarget
  /\ s_state' = "RECEIVING"
  /\ s_handle' = Target
  /\ s_expected_size' = size
  /\ s_expected_sha256' = digest
  /\ s_expected_block' = 0
  /\ s_sha_ctx' = <<>>
  /\ resp' = 201
  /\ UNCHANGED s_received

BeginAccepted(size, digest) ==
  /\ size > 0
  /\ BeginAllowed
  /\ EraseTarget
  /\ s_state' = "RECEIVING"
  /\ s_handle' = Target
  /\ s_expected_size' = size
  /\ s_expected_sha256' = digest
  /\ s_received' = 0
  /\ s_expected_block' = 0
  /\ s_sha_ctx' = <<>>
  /\ resp' = 201

OnBegin(size, digest) ==
  /\ HandlerFree
  /\ AbortSafe
  /\ \/ BeginRejected(size, digest)
     \/ BeginFailed(size, digest)
     \/ BeginAccepted(size, digest)
  /\ UNCHANGED running

-----------------------------------------------------------------------------
Receiving == s_state = "RECEIVING" /\ s_handle # NULL

(* pal_ota_abort; the bytes already written stay in the slot, unsealed. *)
CloseWithError(code) ==
  /\ s_state' = "ERROR"
  /\ s_handle' = NULL
  /\ resp' = code
  /\ UNCHANGED <<s_expected_size, s_received, s_expected_block,
                 s_expected_sha256, s_sha_ctx>>

BlockRejected(has_block1, num, data) ==
  /\ \/ ~Receiving /\ resp' = 408
     \/ Receiving /\ ~has_block1 /\ resp' = 400
     \/ Receiving /\ has_block1 /\ num # s_expected_block /\ resp' = 408
     \/ Receiving /\ has_block1 /\ num = s_expected_block /\ data = <<>> /\ resp' = 400
  /\ UNCHANGED <<receiver, flash>>

BlockInOrder(has_block1, num, data) ==
  /\ Receiving
  /\ has_block1
  /\ num = s_expected_block
  /\ data # <<>>

BlockTooLarge(data) ==
  /\ Len(data) > s_expected_size - s_received
  /\ CloseWithError(413)
  /\ UNCHANGED flash

BlockWriteFailed(data) ==
  /\ Len(data) <= s_expected_size - s_received
  /\ "write" \in PalFailures
  /\ CloseWithError(500)
  /\ UNCHANGED flash

BlockWritten(data, more) ==
  /\ Len(data) <= s_expected_size - s_received
  /\ slot' = [slot EXCEPT ![s_handle] = @ \o data]
  /\ s_sha_ctx' = s_sha_ctx \o data
  /\ s_received' = s_received + Len(data)
  /\ s_expected_block' = s_expected_block + 1
  /\ resp' = IF more THEN 231 ELSE 204
  /\ UNCHANGED <<s_state, s_handle, s_expected_size, s_expected_sha256,
                 sealed, img, boot>>

OnBlock(has_block1, num, data, more) ==
  /\ HandlerFree
  /\ \/ BlockRejected(has_block1, num, data)
     \/ /\ BlockInOrder(has_block1, num, data)
        /\ \/ BlockTooLarge(data)
           \/ BlockWriteFailed(data)
           \/ BlockWritten(data, more)
  /\ UNCHANGED running

-----------------------------------------------------------------------------
(* Mutant: no check that everything declared has arrived. *)
OnCommitShort ==
  /\ HandlerFree
  /\ IF Receiving
       THEN s_state' = "VERIFYING" /\ resp' = 0
       ELSE UNCHANGED s_state /\ resp' = 408
  /\ UNCHANGED <<s_handle, s_expected_size, s_received, s_expected_block,
                 s_expected_sha256, s_sha_ctx, flash, running>>

OnCommit ==
  /\ HandlerFree
  /\ IF Receiving /\ s_received >= s_expected_size
       THEN s_state' = "VERIFYING" /\ resp' = 0
       ELSE UNCHANGED s_state /\ resp' = 408
  /\ UNCHANGED <<s_handle, s_expected_size, s_received, s_expected_block,
                 s_expected_sha256, s_sha_ctx, flash, running>>

DigestMatches ==
  VerifySignature /\ s_expected_sha256 # NoDigest => s_sha_ctx = s_expected_sha256

Verifying == s_state = "VERIFYING" /\ s_handle # NULL

(* Mutant: the mismatch is reported, the session and the state are left. *)
CommitMismatchStays ==
  /\ Verifying
  /\ ~DigestMatches
  /\ resp' = 500
  /\ UNCHANGED <<receiver, flash, running>>

CommitMismatch ==
  /\ Verifying
  /\ ~DigestMatches
  /\ CloseWithError(500)
  /\ UNCHANGED <<flash, running>>

(* Mutant: the result of pal_ota_finish is not looked at. *)
CommitFinishUnchecked ==
  /\ Verifying
  /\ DigestMatches
  /\ s_handle' = NULL
  /\ \/ sealed' = sealed \cup {s_handle}
     \/ "finish" \in PalFailures /\ UNCHANGED sealed
  /\ UNCHANGED <<s_state, s_expected_size, s_received, s_expected_block,
                 s_expected_sha256, s_sha_ctx, resp, slot, img, boot, running>>

CommitFinish ==
  /\ Verifying
  /\ DigestMatches
  /\ \/ /\ sealed' = sealed \cup {s_handle}
        /\ s_handle' = NULL
        /\ UNCHANGED <<s_state, s_expected_size, s_received, s_expected_block,
                       s_expected_sha256, s_sha_ctx, resp>>
     \/ /\ "finish" \in PalFailures
        /\ CloseWithError(500)
        /\ UNCHANGED sealed
  /\ UNCHANGED <<slot, img, boot, running>>

(* The 2.04 is only prepared here: nothing is sent before the handler
   returns, and it does not return. *)
CommitSetBoot ==
  /\ s_state = "VERIFYING"
  /\ s_handle = NULL
  /\ \/ /\ boot' = Target
        /\ img' = [img EXCEPT ![Target] = "new"]
        /\ s_state' = "REBOOTING"
        /\ UNCHANGED resp
     \/ /\ "set_boot" \in PalFailures
        /\ s_state' = "ERROR"
        /\ resp' = 500
        /\ UNCHANGED <<img, boot>>
  /\ UNCHANGED <<s_handle, s_expected_size, s_received, s_expected_block,
                 s_expected_sha256, s_sha_ctx, slot, sealed, running>>

-----------------------------------------------------------------------------
(* The bootloader's choice, then svc_ota_init on fresh statics.  A new image
   is tried once; one found still unconfirmed is given up. *)
Restart ==
  LET next == IF img[boot] = "pending" THEN 1 - boot ELSE boot
  IN /\ boot' = next
     /\ running' = next
     /\ img' = [img EXCEPT ![boot] = CASE @ = "new"     -> "pending"
                                       [] @ = "pending" -> "aborted"
                                       [] OTHER         -> @]
     /\ s_state' = IF img'[next] = "pending" THEN "PENDING_VERIFY" ELSE "IDLE"
     /\ s_handle' = NULL
     /\ s_expected_size' = 0
     /\ s_received' = 0
     /\ s_expected_block' = 0
     /\ s_expected_sha256' = NoDigest
     /\ s_sha_ctx' = <<>>
     /\ resp' = 0
     /\ UNCHANGED <<slot, sealed>>

(* The last statement of a successful commit. *)
CommitReboot == s_state = "REBOOTING" /\ Restart

(* Power loss, watchdog, or any other reboot, at any moment. *)
Reset == Restart

(* Begin while RECEIVING without a session: pal_ota_abort(NULL) faults. *)
BeginFault ==
  /\ HandlerFree
  /\ ~AbortSafe
  /\ Restart

(* svc_ota_mark_valid; the result of pal_ota_mark_valid is not looked at. *)
MarkValid ==
  /\ s_state = "PENDING_VERIFY"
  /\ s_state' = "IDLE"
  /\ \/ img' = [img EXCEPT ![running] = "valid"]
     \/ "mark_valid" \in PalFailures /\ UNCHANGED img
  /\ UNCHANGED <<s_handle, s_expected_size, s_received, s_expected_block,
                 s_expected_sha256, s_sha_ctx, resp, slot, sealed, boot, running>>

-----------------------------------------------------------------------------
Init ==
  /\ s_state = "IDLE"
  /\ s_handle = NULL
  /\ s_expected_size = 0
  /\ s_received = 0
  /\ s_expected_block = 0
  /\ s_expected_sha256 = NoDigest
  /\ s_sha_ctx = <<>>
  /\ resp = 0
  /\ slot = [s \in Slots |-> IF s = 0 THEN FactoryImage ELSE <<>>]
  /\ sealed = {0}
  /\ img = [s \in Slots |-> "undefined"]
  /\ boot = 0
  /\ running = 0

Next ==
  \/ \E size \in Sizes, digest \in Digests \cup {NoDigest} : OnBegin(size, digest)
  \/ \E has_block1, more \in BOOLEAN, num \in Nums, data \in Blocks :
       OnBlock(has_block1, num, data, more)
  \/ OnCommit
  \/ CommitMismatch
  \/ CommitFinish
  \/ CommitSetBoot
  \/ CommitReboot
  \/ BeginFault
  \/ Reset
  \/ MarkValid

Spec == Init /\ [][Next]_vars

(* A handler that was entered runs on: the poll loop waits for nothing inside
   a commit. *)
FairSpec == Spec /\ WF_vars(CommitMismatch \/ CommitFinish \/ CommitSetBoot \/ CommitReboot)

-----------------------------------------------------------------------------
(* Properties.                                                             *)

(* While a write session is open, the counter, the running hash and the flash
   agree: s_received bytes were written, those and no others were hashed, and
   there is never more than was declared (the invariant svc_ota.c relies on
   when it subtracts s_received from s_expected_size). *)
SessionAccounting ==
  s_handle # NULL =>
    /\ s_handle = Target
    /\ s_sha_ctx = slot[s_handle]
    /\ s_received = Len(slot[s_handle])
    /\ s_received <= s_expected_size

(* Whenever power is lost, the slot the bootloader will pick holds an image
   that pal_ota_finish accepted, and so does the slot it falls back to while
   the image is on trial. *)
AlwaysBootable ==
  /\ boot \in sealed
  /\ img[boot] \in {"new", "pending"} => 1 - boot \in sealed

(* The inductive strengthening of the two: where a session may be open, what
   a commit has established at each of its steps, and how the boot choice
   relates to the firmware that runs. *)
SessionStates ==
  s_handle # NULL => s_state \in {"RECEIVING", "VERIFYING"} /\ BeginAllowed

CommitProgress ==
  s_state = "VERIFYING" =>
    /\ BeginAllowed
    /\ s_received >= s_expected_size
    /\ s_handle = NULL =>
         /\ Target \in sealed
         /\ Len(slot[Target]) = s_expected_size
         /\ VerifySignature /\ s_expected_sha256 # NoDigest
              => slot[Target] = s_expected_sha256

BootChoice ==
  /\ IF s_state = "REBOOTING"
       THEN boot = Target /\ img[boot] = "new"
       ELSE boot = running /\ img[boot] # "new"
  /\ img[1 - boot] \notin {"new", "pending"}

IInv ==
  /\ TypeOK
  /\ SessionAccounting
  /\ SessionStates
  /\ CommitProgress
  /\ BootChoice
  /\ AlwaysBootable

(* The receiver implements the abstract firmware update: the image that boots
   changes only to one that fits the offer standing at that moment, or back. *)
Trial ==
  CASE img[boot] = "new"     -> "armed"
    [] img[boot] = "pending" -> "running"
    [] OTHER                 -> "none"

CurrentOffer ==
  IF s_handle # NULL \/ s_state = "VERIFYING"
    THEN [size   |-> s_expected_size,
          digest |-> IF VerifySignature THEN s_expected_sha256 ELSE NoDigest]
    ELSE NoOffer

Update == INSTANCE FirmwareUpdate WITH
  boot <- slot[boot], spare <- slot[1 - boot], trial <- Trial, offer <- CurrentOffer

UpdateSpec == Update!Spec

(* A commit that passed its guards comes to an end: the hub is told of an
   error or the device restarts. *)
CommitSettles == s_state = "VERIFYING" ~> s_state \notin {"VERIFYING", "REBOOTING"}
=============================================================================
