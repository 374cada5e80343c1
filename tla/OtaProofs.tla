----------------------------- MODULE OtaProofs ------------------------------
(***************************************************************************)
(* Proofs about Ota for every alphabet, every set of requests and every    *)
(* set of backend calls that may fail.                                     *)
(*                                                                         *)
(* IInv is inductive.  SessionAccounting and AlwaysBootable are two of its *)
(* parts; the others say where a session may be open (SessionStates), what *)
(* each step of a commit has established (CommitProgress) and how the boot *)
(* choice relates to the firmware that runs (BootChoice).  From it follows *)
(* that Ota implements FirmwareUpdate.                                     *)
(***************************************************************************)
EXTENDS Ota, SequenceTheorems, TLAPS

(* The device leaves the factory in a state that satisfies the invariant. *)
LEMMA InitInv == Init => IInv
  BY OtaAssumption
  DEF Init, IInv, TypeOK, SessionAccounting, SessionStates, CommitProgress,
      BootChoice, AlwaysBootable, BeginAllowed, Target,
      Slots, States, ImgStates, Codes

(* The target slot is the one the device does not run from. *)
LEMMA TargetIsOther ==
  ASSUME TypeOK
  PROVE  Target \in Slots /\ Target # running
  BY DEF TypeOK, Target, Slots

(* A write appends: what is in the slot afterwards is what was there, then
   the block, and the lengths add up. *)
LEMMA AppendedBlock ==
  ASSUME NEW s \in Seq(Byte), NEW d \in Seq(Byte)
  PROVE  s \o d \in Seq(Byte) /\ Len(s \o d) = Len(s) + Len(d) /\ Len(d) \in Nat
  BY ConcatProperties, LenProperties

(* begin. *)
LEMMA OnBeginInv ==
  ASSUME IInv,
         NEW size \in Sizes, NEW digest \in Digests \cup {NoDigest},
         OnBegin(size, digest)
  PROVE  IInv'
<1> USE DEF IInv
<1>1. size \in Nat /\ digest \in Seq(Byte) \cup {NoDigest}
  BY OtaAssumption
<1>2. Target \in Slots /\ Target # running /\ Target' = Target
  BY TargetIsOther DEF OnBegin, Target
<1>3. s_state \notin {"VERIFYING", "REBOOTING"} /\ boot = running /\ img[boot] # "new"
  BY DEF OnBegin, HandlerFree, BootChoice
<1>4. CASE BeginRejected(size, digest)
  BY <1>1, <1>2, <1>3, <1>4, OtaAssumption
  DEF OnBegin, BeginRejected, TypeOK, SessionAccounting, SessionStates,
      CommitProgress, BootChoice, AlwaysBootable, BeginAllowed, flash, Codes
<1>5. CASE BeginFailed(size, digest)
  <2>1. TypeOK'
    <3>1. slot' \in [Slots -> Seq(Byte)] /\ sealed' \subseteq Slots
      <4>1. CASE UNCHANGED flash
        BY <4>1 DEF TypeOK, flash
      <4>2. CASE EraseTarget
        BY <1>2, <4>2 DEF EraseTarget, TypeOK
      <4>3. QED
        BY <1>5, <4>1, <4>2 DEF BeginFailed
    <3>2. img' \in [Slots -> ImgStates] /\ boot' \in Slots /\ running' \in Slots
      BY <1>5 DEF OnBegin, BeginFailed, EraseTarget, TypeOK, flash
    <3>3. QED
      BY <1>1, <1>5, <3>1, <3>2 DEF BeginFailed, TypeOK, States, Codes
  <2>2. boot' = boot /\ img' = img /\ running' = running
    BY <1>5 DEF OnBegin, BeginFailed, EraseTarget, flash
  <2>3. AlwaysBootable'
    BY <1>2, <1>3, <1>5, <2>2
    DEF BeginFailed, EraseTarget, AlwaysBootable, BeginAllowed, flash
  <2>4. QED
    BY <1>3, <1>5, <2>1, <2>2, <2>3, OtaAssumption
    DEF BeginFailed, SessionAccounting, SessionStates, CommitProgress, BootChoice
<1>6. CASE BeginAccepted(size, digest)
  <2>1. TypeOK'
    BY <1>1, <1>2, <1>6
    DEF OnBegin, BeginAccepted, EraseTarget, TypeOK, States, Codes
  <2>2. boot' = boot /\ img' = img /\ running' = running /\ BeginAllowed
    BY <1>6 DEF OnBegin, BeginAccepted, EraseTarget
  <2>3. SessionAccounting'
    BY <1>1, <1>2, <1>6 DEF BeginAccepted, EraseTarget, SessionAccounting, TypeOK
  <2>4. AlwaysBootable'
    BY <1>2, <1>3, <1>6, <2>2
    DEF BeginAccepted, EraseTarget, AlwaysBootable, BeginAllowed
  <2>5. QED
    BY <1>3, <1>6, <2>1, <2>2, <2>3, <2>4
    DEF BeginAccepted, SessionStates, CommitProgress, BootChoice, BeginAllowed
<1>7. QED
  BY <1>4, <1>5, <1>6 DEF OnBegin

(* block. *)
LEMMA OnBlockInv ==
  ASSUME IInv,
         NEW has_block1 \in BOOLEAN, NEW more \in BOOLEAN,
         NEW num \in Nums, NEW data \in Blocks,
         OnBlock(has_block1, num, data, more)
  PROVE  IInv'
<1> USE DEF IInv
<1>1. data \in Seq(Byte) /\ Len(data) \in Nat
  BY OtaAssumption
<1>2. Target \in Slots /\ Target # running /\ Target' = Target
  BY TargetIsOther DEF OnBlock, Target
<1>3. s_state \notin {"VERIFYING", "REBOOTING"} /\ boot = running /\ img[boot] # "new"
  BY DEF OnBlock, HandlerFree, BootChoice
<1>4. CASE BlockRejected(has_block1, num, data)
  BY <1>2, <1>4
  DEF OnBlock, BlockRejected, TypeOK, SessionAccounting, SessionStates,
      CommitProgress, BootChoice, AlwaysBootable, BeginAllowed, receiver, flash, Codes
<1>5. CASE BlockTooLarge(data) \/ BlockWriteFailed(data)
  BY <1>2, <1>3, <1>5, OtaAssumption
  DEF OnBlock, BlockTooLarge, BlockWriteFailed, CloseWithError, TypeOK,
      SessionAccounting, SessionStates, CommitProgress, BootChoice,
      AlwaysBootable, BeginAllowed, flash, States, Codes
<1>6. CASE BlockInOrder(has_block1, num, data) /\ BlockWritten(data, more)
  <2>1. s_handle = Target /\ s_state = "RECEIVING" /\ slot[Target] \in Seq(Byte)
    BY <1>2, <1>6 DEF BlockInOrder, Receiving, SessionAccounting, TypeOK
  <2>2. /\ slot[Target] \o data \in Seq(Byte)
        /\ Len(slot[Target] \o data) = s_received + Len(data)
    BY <1>1, <1>6, <2>1, AppendedBlock
    DEF BlockInOrder, Receiving, SessionAccounting
  <2>3. slot'[Target] = slot[Target] \o data
    BY <1>2, <1>6, <2>1 DEF BlockWritten, TypeOK
  <2>4. s_received' = s_received + Len(data) /\ s_received' <= s_expected_size
    BY <1>1, <1>6 DEF BlockWritten, TypeOK
  <2>5. TypeOK'
    BY <1>1, <1>2, <1>6, <2>1, <2>2, <2>4, AppendedBlock
    DEF OnBlock, BlockWritten, TypeOK, SessionAccounting, Codes
  <2>6. SessionAccounting'
    BY <1>2, <1>6, <2>1, <2>2, <2>3, <2>4 DEF BlockWritten, SessionAccounting
  <2>7. QED
    BY <1>2, <1>3, <1>6, <2>1, <2>5, <2>6
    DEF OnBlock, BlockWritten, SessionStates, CommitProgress, BootChoice,
        AlwaysBootable, BeginAllowed
<1>7. QED
  BY <1>4, <1>5, <1>6 DEF OnBlock

(* commit: the guards, and each of the steps it is made of. *)
LEMMA OnCommitInv ==
  ASSUME IInv, OnCommit
  PROVE  IInv'
<1> USE DEF IInv
<1>1. Target' = Target
  BY DEF OnCommit, Target
<1>2. TypeOK' /\ SessionAccounting' /\ AlwaysBootable' /\ BootChoice'
  BY <1>1
  DEF OnCommit, HandlerFree, TypeOK, SessionAccounting, AlwaysBootable, BootChoice,
      flash, States, Codes
<1>3. SessionStates' /\ CommitProgress'
  BY <1>1
  DEF OnCommit, HandlerFree, Receiving, SessionStates, CommitProgress,
      BeginAllowed, flash
<1>4. QED
  BY <1>2, <1>3

LEMMA CommitMismatchInv ==
  ASSUME IInv, CommitMismatch
  PROVE  IInv'
  BY OtaAssumption
  DEF IInv, CommitMismatch, Verifying, CloseWithError, TypeOK, SessionAccounting,
      SessionStates, CommitProgress, BootChoice, AlwaysBootable, BeginAllowed,
      Target, flash, States, Codes

LEMMA CommitFinishInv ==
  ASSUME IInv, CommitFinish
  PROVE  IInv'
<1> USE DEF IInv
<1>1. Target' = Target /\ s_handle = Target /\ Target \in Slots /\ NULL \notin Slots
  BY TargetIsOther, OtaAssumption
  DEF CommitFinish, Verifying, SessionAccounting, Target
<1>2. CASE s_handle' = NULL /\ s_state' = "VERIFYING" /\ sealed' = sealed \cup {s_handle}
           /\ UNCHANGED <<s_expected_size, s_received, s_expected_block,
                           s_expected_sha256, s_sha_ctx, resp>>
  <2>1. Len(slot[Target]) = s_expected_size
    BY <1>1 DEF CommitFinish, Verifying, SessionAccounting, CommitProgress, TypeOK
  <2>2. VerifySignature /\ s_expected_sha256 # NoDigest => slot[Target] = s_expected_sha256
    BY <1>1 DEF CommitFinish, DigestMatches, Verifying, SessionAccounting
  <2>3. CommitProgress'
    BY <1>1, <1>2, <2>1, <2>2
    DEF CommitFinish, Verifying, CommitProgress, BeginAllowed
  <2>4. TypeOK' /\ SessionAccounting' /\ SessionStates'
    BY <1>1, <1>2
    DEF CommitFinish, TypeOK, SessionAccounting, SessionStates, States
  <2>5. BootChoice' /\ AlwaysBootable'
    BY <1>1, <1>2
    DEF CommitFinish, Verifying, BootChoice, AlwaysBootable
  <2>6. QED
    BY <2>3, <2>4, <2>5
<1>3. CASE CloseWithError(500) /\ UNCHANGED sealed
  BY <1>1, <1>3
  DEF CommitFinish, Verifying, CloseWithError, TypeOK, SessionAccounting,
      SessionStates, CommitProgress, BootChoice, AlwaysBootable, States, Codes
<1>4. QED
  BY <1>2, <1>3 DEF CommitFinish, Verifying

LEMMA CommitSetBootInv ==
  ASSUME IInv, CommitSetBoot
  PROVE  IInv'
<1> USE DEF IInv
<1>1. /\ Target' = Target /\ Target \in Slots /\ Target # running /\ 1 - Target = running
      /\ running \in Slots /\ boot = running /\ Target \in sealed
  BY TargetIsOther
  DEF CommitSetBoot, Target, TypeOK, Slots, BootChoice, CommitProgress
<1>2. CASE /\ boot' = Target
           /\ img' = [img EXCEPT ![Target] = "new"]
           /\ s_state' = "REBOOTING"
           /\ UNCHANGED resp
  <2>1. img' \in [Slots -> ImgStates] /\ img'[Target] = "new" /\ img'[running] = img[running]
    BY <1>1, <1>2 DEF TypeOK, ImgStates
  <2>2. img[running] \notin {"new", "pending"} /\ running \in sealed
    BY <1>1 DEF CommitSetBoot, CommitProgress, BeginAllowed, BootChoice, AlwaysBootable
  <2>3. TypeOK' /\ SessionAccounting' /\ SessionStates' /\ CommitProgress'
    BY <1>1, <1>2, <2>1
    DEF CommitSetBoot, TypeOK, SessionAccounting, SessionStates, CommitProgress, States
  <2>4. BootChoice' /\ AlwaysBootable'
    BY <1>1, <1>2, <2>1, <2>2 DEF CommitSetBoot, BootChoice, AlwaysBootable
  <2>5. QED
    BY <2>3, <2>4
<1>3. CASE s_state' = "ERROR" /\ resp' = 500 /\ UNCHANGED <<img, boot>>
  BY <1>1, <1>3
  DEF CommitSetBoot, TypeOK, SessionAccounting, SessionStates, CommitProgress,
      BootChoice, AlwaysBootable, States, Codes
<1>4. QED
  BY <1>2, <1>3 DEF CommitSetBoot

(* A restart, wanted or not, in whatever state it hits the receiver. *)
LEMMA RestartInv ==
  ASSUME IInv, Restart
  PROVE  IInv'
<1> USE DEF IInv
<1> DEFINE next == IF img[boot] = "pending" THEN 1 - boot ELSE boot
<1>1. boot \in Slots /\ 1 - boot \in Slots /\ 1 - boot # boot /\ next \in Slots
  BY DEF TypeOK, Slots
<1>2. boot' = next /\ running' = next /\ s_handle' = NULL
  BY DEF Restart
<1>3. img' \in [Slots -> ImgStates]
  BY <1>1 DEF Restart, TypeOK, ImgStates
<1>4. img'[boot] = CASE img[boot] = "new" -> "pending"
                     [] img[boot] = "pending" -> "aborted"
                     [] OTHER -> img[boot]
  BY <1>1 DEF Restart, TypeOK
<1>5. s_state' \in {"PENDING_VERIFY", "IDLE"}
  BY DEF Restart
<1>6. TypeOK'
  BY <1>1, <1>2, <1>3, <1>5, OtaAssumption DEF Restart, TypeOK, States, Codes
<1>7. img'[next] # "new" /\ img'[1 - next] \notin {"new", "pending"}
  <2>1. 1 - next = IF img[boot] = "pending" THEN boot ELSE 1 - boot
    BY <1>1 DEF Slots
  <2>2. img'[1 - boot] = img[1 - boot]
    BY <1>1 DEF Restart, TypeOK
  <2>3. QED
    BY <1>4, <2>1, <2>2 DEF BootChoice
<1>8. BootChoice'
  BY <1>2, <1>5, <1>7 DEF BootChoice
<1>9. AlwaysBootable'
  <2>1. sealed' = sealed /\ boot \in sealed
    BY DEF Restart, AlwaysBootable
  <2>2. CASE img[boot] \in {"new", "pending"}
    <3>1. 1 - boot \in sealed /\ 1 - (1 - boot) = boot
      BY <1>1, <2>2 DEF AlwaysBootable, Slots
    <3>2. QED
      BY <1>2, <2>1, <3>1 DEF AlwaysBootable
  <2>3. CASE img[boot] \notin {"new", "pending"}
    BY <1>2, <1>4, <2>1, <2>3 DEF AlwaysBootable
  <2>4. QED
    BY <2>2, <2>3
<1>10. QED
  BY <1>2, <1>5, <1>6, <1>8, <1>9
  DEF SessionAccounting, SessionStates, CommitProgress

(* svc_ota_mark_valid. *)
LEMMA MarkValidInv ==
  ASSUME IInv, MarkValid
  PROVE  IInv'
<1> USE DEF IInv
<1>1. boot = running /\ running \in Slots /\ 1 - running \in Slots /\ 1 - running # running
      /\ s_handle = NULL
  BY DEF MarkValid, BootChoice, SessionStates, TypeOK, Slots
<1>2. CASE img' = [img EXCEPT ![running] = "valid"]
  BY <1>1, <1>2
  DEF MarkValid, TypeOK, SessionAccounting, SessionStates, CommitProgress,
      BootChoice, AlwaysBootable, States, ImgStates
<1>3. CASE UNCHANGED img
  BY <1>1, <1>3
  DEF MarkValid, TypeOK, SessionAccounting, SessionStates, CommitProgress,
      BootChoice, AlwaysBootable, States
<1>4. QED
  BY <1>2, <1>3 DEF MarkValid

-----------------------------------------------------------------------------
(* Every step preserves the invariant. *)
LEMMA NextInv ==
  ASSUME IInv, [Next]_vars
  PROVE  IInv'
<1>1. CASE \E size \in Sizes, digest \in Digests \cup {NoDigest} : OnBegin(size, digest)
  BY <1>1, OnBeginInv
<1>2. CASE \E has_block1, more \in BOOLEAN, num \in Nums, data \in Blocks :
             OnBlock(has_block1, num, data, more)
  BY <1>2, OnBlockInv
<1>3. CASE OnCommit \/ CommitMismatch \/ CommitFinish \/ CommitSetBoot
  BY <1>3, OnCommitInv, CommitMismatchInv, CommitFinishInv, CommitSetBootInv
<1>4. CASE CommitReboot \/ BeginFault \/ Reset
  BY <1>4, RestartInv DEF CommitReboot, BeginFault, Reset
<1>5. CASE MarkValid
  BY <1>5, MarkValidInv
<1>6. CASE UNCHANGED vars
  BY <1>6
  DEF IInv, TypeOK, SessionAccounting, SessionStates, CommitProgress, BootChoice,
      AlwaysBootable, BeginAllowed, Target, vars, receiver, flash
<1>7. QED
  BY <1>1, <1>2, <1>3, <1>4, <1>5, <1>6 DEF Next

(* The invariant holds in every reachable state. *)
THEOREM Invariance == Spec => []IInv
<1>1. Init => IInv
  BY InitInv
<1>2. IInv /\ [Next]_vars => IInv'
  BY NextInv
<1>3. QED
  BY <1>1, <1>2, PTL DEF Spec

(* Type correctness. *)
THEOREM TypeCorrect == Spec => []TypeOK
<1>1. IInv => TypeOK
  BY DEF IInv
<1>2. QED
  BY <1>1, Invariance, PTL

(* The byte counter, the running hash and the flash agree during a transfer,
   whatever the hub sends and whichever backend call fails. *)
THEOREM AccountingIsExact == Spec => []SessionAccounting
<1>1. IInv => SessionAccounting
  BY DEF IInv
<1>2. QED
  BY <1>1, Invariance, PTL

(* A reset at any moment finds an image to start, and one to fall back to. *)
THEOREM ResetIsSafe == Spec => []AlwaysBootable
<1>1. IInv => AlwaysBootable
  BY DEF IInv
<1>2. QED
  BY <1>1, Invariance, PTL

-----------------------------------------------------------------------------
(* Refinement: each step is a step of FirmwareUpdate or changes nothing it   *)
(* can see.                                                                  *)

LEMMA InitRefines == Init => Update!Init
  BY OtaAssumption
  DEF Init, Update!Init, Trial, CurrentOffer, Slots

LEMMA OnBeginRefines ==
  ASSUME IInv,
         NEW size \in Sizes, NEW digest \in Digests \cup {NoDigest},
         OnBegin(size, digest)
  PROVE  [Update!Next]_Update!vars
<1> USE DEF IInv
<1>1. /\ boot = running /\ boot \in Slots /\ 1 - boot = Target /\ Target \in Slots
      /\ Target # boot /\ img[boot] # "new" /\ s_state \notin {"VERIFYING", "REBOOTING"}
  BY TargetIsOther DEF OnBegin, HandlerFree, BootChoice, Target, TypeOK
<1>2. size \in Nat /\ digest \in Seq(Byte) \cup {NoDigest}
  BY OtaAssumption
<1>3. CASE BeginRejected(size, digest)
  <2>1. slot' = slot /\ boot' = boot /\ img' = img /\ s_state' = s_state /\ s_handle' = NULL
    BY <1>3 DEF BeginRejected, flash
  <2>2. CurrentOffer' = NoOffer /\ Trial' = Trial
    BY <1>1, <2>1 DEF CurrentOffer, Trial
  <2>3. CASE s_handle = NULL
    BY <1>1, <2>1, <2>2, <2>3 DEF Update!vars, CurrentOffer
  <2>4. CASE s_handle # NULL
    <3>1. Trial = "none" /\ slot[1 - boot] \in Seq(Byte)
      BY <1>1, <2>4 DEF SessionStates, BeginAllowed, Trial, TypeOK
    <3>2. QED
      BY <2>1, <2>2, <3>1 DEF Update!Next, Update!Withdraw
  <2>5. QED
    BY <2>3, <2>4
<1>4. CASE BeginFailed(size, digest)
  <2>1. boot' = boot /\ img' = img /\ s_handle' = NULL /\ s_state' = "ERROR"
    BY <1>4 DEF BeginFailed, EraseTarget, flash
  <2>2. CurrentOffer' = NoOffer /\ Trial' = Trial
    BY <2>1 DEF CurrentOffer, Trial
  <2>3. CASE BeginAllowed
    <3>1. Trial = "none"
      BY <1>1, <2>3 DEF BeginAllowed, Trial
    <3>2. slot'[boot] = slot[boot] /\ slot'[1 - boot] \in Seq(Byte)
      <4>1. CASE UNCHANGED flash
        BY <1>1, <4>1 DEF flash, TypeOK
      <4>2. CASE EraseTarget
        BY <1>1, <4>2 DEF EraseTarget, TypeOK
      <4>3. QED
        BY <1>4, <4>1, <4>2 DEF BeginFailed
    <3>3. QED
      BY <2>1, <2>2, <3>1, <3>2 DEF Update!Next, Update!Withdraw
  <2>4. CASE ~BeginAllowed
    <3>1. slot' = slot
      BY <1>4, <2>4 DEF BeginFailed, flash
    <3>2. CurrentOffer = NoOffer
      BY <1>1, <2>4 DEF CurrentOffer, SessionStates
    <3>3. QED
      BY <2>1, <2>2, <3>1, <3>2 DEF Update!vars
  <2>5. QED
    BY <2>3, <2>4
<1>5. CASE BeginAccepted(size, digest)
  <2>1. boot' = boot /\ img' = img /\ Trial' = Trial /\ Trial = "none"
    BY <1>1, <1>5 DEF BeginAccepted, EraseTarget, BeginAllowed, Trial
  <2>2. slot'[boot] = slot[boot] /\ slot'[1 - boot] \in Seq(Byte)
    BY <1>1, <1>5 DEF BeginAccepted, EraseTarget, TypeOK
  <2>3. CurrentOffer' = [size |-> size,
                         digest |-> IF VerifySignature THEN digest ELSE NoDigest]
    BY <1>1, <1>5, OtaAssumption DEF BeginAccepted, CurrentOffer
  <2>4. CurrentOffer' \in Update!Offers
    BY <1>2, <2>3 DEF Update!Offers
  <2>5. QED
    BY <2>1, <2>2, <2>4 DEF Update!Next, Update!Offer
<1>6. QED
  BY <1>3, <1>4, <1>5 DEF OnBegin

LEMMA OnBlockRefines ==
  ASSUME IInv,
         NEW has_block1 \in BOOLEAN, NEW more \in BOOLEAN,
         NEW num \in Nums, NEW data \in Blocks,
         OnBlock(has_block1, num, data, more)
  PROVE  [Update!Next]_Update!vars
<1> USE DEF IInv
<1>1. /\ boot = running /\ boot \in Slots /\ 1 - boot = Target /\ Target \in Slots
      /\ Target # boot /\ img[boot] # "new" /\ s_state \notin {"VERIFYING", "REBOOTING"}
  BY TargetIsOther DEF OnBlock, HandlerFree, BootChoice, Target, TypeOK
<1>2. boot' = boot /\ img' = img /\ Trial' = Trial
  BY DEF OnBlock, BlockRejected, BlockTooLarge, BlockWriteFailed, BlockWritten,
         flash, Trial
<1>3. CASE BlockRejected(has_block1, num, data)
  BY <1>2, <1>3 DEF BlockRejected, receiver, flash, CurrentOffer, Update!vars
<1>4. ASSUME BlockInOrder(has_block1, num, data)
      PROVE  s_handle = Target /\ Trial = "none" /\ slot[Target] \in Seq(Byte)
  BY <1>1, <1>4
  DEF BlockInOrder, Receiving, SessionAccounting, SessionStates, BeginAllowed,
      Trial, TypeOK
<1>5. CASE /\ BlockInOrder(has_block1, num, data)
           /\ BlockTooLarge(data) \/ BlockWriteFailed(data)
  <2>1. s_handle' = NULL /\ s_state' = "ERROR" /\ slot' = slot
    BY <1>5 DEF BlockTooLarge, BlockWriteFailed, CloseWithError, flash
  <2>2. CurrentOffer' = NoOffer
    BY <2>1 DEF CurrentOffer
  <2>3. QED
    BY <1>1, <1>2, <1>4, <1>5, <2>1, <2>2 DEF Update!Next, Update!Withdraw
<1>6. CASE BlockInOrder(has_block1, num, data) /\ BlockWritten(data, more)
  <2>1. slot'[boot] = slot[boot] /\ slot'[1 - boot] = slot[Target] \o data
    BY <1>1, <1>4, <1>6 DEF BlockWritten, TypeOK
  <2>2. slot'[1 - boot] \in Seq(Byte)
    BY <1>4, <1>6, <2>1, AppendedBlock, OtaAssumption
  <2>3. CurrentOffer' = CurrentOffer
    BY <1>6 DEF BlockWritten, CurrentOffer
  <2>4. QED
    BY <1>2, <1>4, <1>6, <2>1, <2>2, <2>3 DEF Update!Next, Update!Rewrite
<1>7. QED
  BY <1>3, <1>5, <1>6 DEF OnBlock

LEMMA OnCommitRefines ==
  ASSUME IInv, OnCommit
  PROVE  [Update!Next]_Update!vars
<1>1. UNCHANGED <<slot, boot, Trial>>
  BY DEF OnCommit, flash, Trial
<1>2. CurrentOffer' = CurrentOffer
  BY DEF OnCommit, HandlerFree, Receiving, CurrentOffer
<1>3. QED
  BY <1>1, <1>2 DEF Update!vars

(* Giving up a commit withdraws the offer and touches nothing else. *)
LEMMA CommitErrorRefines ==
  ASSUME IInv, s_state = "VERIFYING", s_state' = "ERROR", s_handle' = NULL,
         UNCHANGED <<slot, boot, img>>
  PROVE  [Update!Next]_Update!vars
<1>1. boot = running /\ boot \in Slots /\ 1 - boot \in Slots
  BY DEF IInv, BootChoice, TypeOK, Slots
<1>2. Trial = "none" /\ Trial' = "none" /\ CurrentOffer' = NoOffer
  BY <1>1 DEF IInv, CommitProgress, BeginAllowed, BootChoice, Trial, CurrentOffer
<1>3. slot[1 - boot] \in Seq(Byte)
  BY <1>1 DEF IInv, TypeOK
<1>4. QED
  BY <1>2, <1>3 DEF Update!Next, Update!Withdraw

LEMMA CommitStepRefines ==
  ASSUME IInv, CommitMismatch \/ CommitFinish \/ CommitSetBoot
  PROVE  [Update!Next]_Update!vars
<1> USE DEF IInv
<1>1. s_state = "VERIFYING" /\ slot' = slot
  BY DEF CommitMismatch, CommitFinish, CommitSetBoot, Verifying, flash
<1>2. CASE CommitMismatch
  BY <1>1, <1>2, CommitErrorRefines DEF CommitMismatch, CloseWithError, flash
<1>3. CASE CommitFinish
  <2>1. CASE CloseWithError(500)
    BY <1>1, <1>3, <2>1, CommitErrorRefines DEF CommitFinish, CloseWithError
  <2>2. CASE UNCHANGED <<s_state, s_expected_size, s_expected_sha256>>
    BY <1>1, <1>3, <2>2 DEF CommitFinish, CurrentOffer, Trial, Update!vars
  <2>3. QED
    BY <1>3, <2>1, <2>2 DEF CommitFinish
<1>4. CASE CommitSetBoot
  <2>1. s_handle = NULL /\ s_handle' = NULL
    BY <1>4 DEF CommitSetBoot
  <2>2. CASE s_state' = "ERROR" /\ UNCHANGED <<img, boot>>
    BY <1>1, <2>1, <2>2, CommitErrorRefines
  <2>3. CASE boot' = Target /\ img' = [img EXCEPT ![Target] = "new"] /\ s_state' = "REBOOTING"
    <3>1. /\ boot = running /\ 1 - boot = Target /\ 1 - Target = boot /\ Target \in Slots
      BY <1>1 DEF BootChoice, Target, TypeOK, Slots
    <3>2. Trial = "none" /\ Trial' = "armed"
      BY <1>1, <2>3, <3>1 DEF CommitProgress, BeginAllowed, BootChoice, Trial, TypeOK
    <3>3. CurrentOffer' = NoOffer
      BY <2>1, <2>3 DEF CurrentOffer
    <3>4. CurrentOffer # NoOffer /\ Update!Fits(slot[Target], CurrentOffer)
      BY <1>1, <2>1, OtaAssumption
      DEF CommitProgress, CurrentOffer, Update!Fits, TypeOK
    <3>5. QED
      BY <1>1, <2>3, <3>1, <3>2, <3>3, <3>4 DEF Update!Next, Update!Install
  <2>4. QED
    BY <1>4, <2>2, <2>3 DEF CommitSetBoot
<1>5. QED
  BY <1>2, <1>3, <1>4

(* A restart starts a new image, gives up one still on trial, or only drops
   the transfer under way. *)
LEMMA RestartRefines ==
  ASSUME IInv, Restart
  PROVE  [Update!Next]_Update!vars
<1> USE DEF IInv
<1>1. /\ boot \in Slots /\ 1 - boot \in Slots /\ 1 - boot # boot /\ 1 - (1 - boot) = boot
      /\ slot' = slot /\ slot[1 - boot] \in Seq(Byte)
  BY DEF TypeOK, Slots, Restart
<1>2. CurrentOffer' = NoOffer
  BY DEF Restart, CurrentOffer
<1>3. CASE img[boot] = "new"
  <2>1. boot' = boot /\ img'[boot] = "pending"
    BY <1>1, <1>3 DEF Restart, TypeOK
  <2>2. Trial = "armed" /\ Trial' = "running"
    BY <1>3, <2>1 DEF Trial
  <2>3. QED
    BY <1>1, <1>2, <2>1, <2>2 DEF Update!Next, Update!Start
<1>4. CASE img[boot] = "pending"
  <2>1. boot' = 1 - boot /\ img'[1 - boot] = img[1 - boot]
    BY <1>1, <1>4 DEF Restart, TypeOK
  <2>2. Trial = "running" /\ Trial' = "none"
    BY <1>4, <2>1 DEF Trial, BootChoice
  <2>3. QED
    BY <1>1, <1>2, <2>1, <2>2 DEF Update!Next, Update!Revert
<1>5. CASE img[boot] \notin {"new", "pending"}
  <2>1. boot' = boot /\ img'[boot] = img[boot]
    BY <1>1, <1>5 DEF Restart, TypeOK
  <2>2. Trial = "none" /\ Trial' = "none"
    BY <1>5, <2>1 DEF Trial
  <2>3. QED
    BY <1>1, <1>2, <2>1, <2>2 DEF Update!Next, Update!Withdraw
<1>6. QED
  BY <1>3, <1>4, <1>5

LEMMA MarkValidRefines ==
  ASSUME IInv, MarkValid
  PROVE  [Update!Next]_Update!vars
<1> USE DEF IInv
<1>1. boot = running /\ boot \in Slots /\ slot' = slot /\ boot' = boot
  BY DEF MarkValid, BootChoice, TypeOK
<1>2. CurrentOffer' = CurrentOffer
  BY DEF MarkValid, CurrentOffer
<1>3. CASE UNCHANGED img
  BY <1>1, <1>2, <1>3 DEF Trial, Update!vars
<1>4. CASE img' = [img EXCEPT ![running] = "valid"]
  <2>1. Trial' = "none" /\ img[boot] # "new"
    BY <1>1, <1>4 DEF Trial, TypeOK, MarkValid, BootChoice
  <2>2. CASE img[boot] = "pending"
    <3>1. Trial = "running"
      BY <2>2 DEF Trial
    <3>2. QED
      BY <1>1, <1>2, <2>1, <3>1 DEF Update!Next, Update!Confirm
  <2>3. CASE img[boot] # "pending"
    <3>1. Trial = "none"
      BY <2>1, <2>3 DEF Trial
    <3>2. QED
      BY <1>1, <1>2, <2>1, <3>1 DEF Update!vars
  <2>4. QED
    BY <2>2, <2>3
<1>5. QED
  BY <1>3, <1>4 DEF MarkValid

LEMMA StepRefines ==
  ASSUME IInv, [Next]_vars
  PROVE  [Update!Next]_Update!vars
<1>1. CASE \E size \in Sizes, digest \in Digests \cup {NoDigest} : OnBegin(size, digest)
  BY <1>1, OnBeginRefines
<1>2. CASE \E has_block1, more \in BOOLEAN, num \in Nums, data \in Blocks :
             OnBlock(has_block1, num, data, more)
  BY <1>2, OnBlockRefines
<1>3. CASE OnCommit \/ CommitMismatch \/ CommitFinish \/ CommitSetBoot
  BY <1>3, OnCommitRefines, CommitStepRefines
<1>4. CASE CommitReboot \/ BeginFault \/ Reset
  BY <1>4, RestartRefines DEF CommitReboot, BeginFault, Reset
<1>5. CASE MarkValid
  BY <1>5, MarkValidRefines
<1>6. CASE UNCHANGED vars
  BY <1>6 DEF vars, receiver, flash, CurrentOffer, Trial, Update!vars
<1>7. QED
  BY <1>1, <1>2, <1>3, <1>4, <1>5, <1>6 DEF Next

(* The receiver implements FirmwareUpdate: only an image that fits the offer
   standing at that moment ever becomes the one that boots, the image it
   replaces stays intact until the new one is confirmed, and an unconfirmed
   image is given up at the second reset. *)
THEOREM Refinement == Spec => UpdateSpec
<1>1. Init => Update!Init
  BY InitRefines
<1>2. IInv /\ [Next]_vars => [Update!Next]_Update!vars
  BY StepRefines
<1>3. QED
  BY <1>1, <1>2, Invariance, PTL DEF Spec, UpdateSpec, Update!Spec
=============================================================================
