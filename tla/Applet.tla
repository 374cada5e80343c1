------------------------------- MODULE Applet ---------------------------------
(***************************************************************************)
(* The applet receiver (svc_applet.c): a WASM image is pushed with Block1  *)
(* requests straight into the applet partition and committed.  The runtime *)
(* (wasm_runtime.c) looks for an applet in that partition when it starts.  *)
(*                                                                         *)
(* A block carries bytes and, if it is block 0, a size header (0: none, or *)
(* one that is no number).                                                 *)
(***************************************************************************)
EXTENDS Integers, Sequences, SequencesExt

CONSTANTS
  Byte,
  Blank,         \* an erased byte
  Over(_, _),    \* what is there after a byte was written over another that was
                 \* not erased: the new one in a file, less of both in NOR flash
  Blocks,        \* payloads without their header
  Sizes,         \* sizes a header may declare
  MaxSize,       \* CONFIG_TW_APPLET_MAX_SIZE
  Nums,          \* Block1 numbers
  Versions,
  NULL,          \* no version, no applet
  FixedSize,     \* pal_flash_size is the partition's (ESP-IDF), not a file's
  PalFailures    \* flash calls that may fail: "erase", "write"

ASSUME AppletAssumption ==
  /\ Blank \in Byte
  /\ \A old, new \in Byte : Over(old, new) \in Byte
  /\ Blocks \subseteq Seq(Byte)
  /\ Sizes \subseteq Nat
  /\ MaxSize \in Nat
  /\ Nums \subseteq Nat
  /\ NULL \notin Versions
  /\ FixedSize \in BOOLEAN
  /\ PalFailures \subseteq {"erase", "write"}

VARIABLES
  s_state,
  s_received,
  s_expected,
  s_version,
  s_expected_block,
  resp,         \* code of the last reply
  flash,        \* the bytes written since the last erase was tried
  left,         \* the bytes that were not erased then, or <<>>
  loaded,       \* what the runtime found at boot, or NULL (applet_loaded)
  acked,        \* history: this push's accepted payloads, by block number
  installed     \* history: the image committed last

vars == <<s_state, s_received, s_expected, s_version, s_expected_block, resp,
          flash, left, loaded, acked, installed>>

States == {"NONE", "LOADING", "RUNNING", "ERROR"}

TypeOK ==
  /\ s_state \in States
  /\ s_received \in 0 .. MaxSize
  /\ s_expected \in Nat
  /\ s_version \in Versions \cup {NULL}
  /\ s_expected_block \in Nat
  /\ resp \in {0, 201, 204, 231, 400, 408, 413, 500}
  /\ flash \in Seq(Byte)
  /\ left \in Seq(Byte)
  /\ loaded \in Seq(Byte) \cup {NULL}
  /\ acked \in Seq(Seq(Byte))
  /\ installed \in Seq(Byte)

-----------------------------------------------------------------------------
(* The partition.                                                          *)

(* What content becomes when data is written at offset. *)
Overwritten(content, offset, data) ==
  LET last == offset + Len(data)
  IN [i \in 1 .. (IF last > Len(content) THEN last ELSE Len(content)) |->
        IF offset < i /\ i <= last THEN data[i - offset] ELSE content[i]]

(* What a read of the partition returns: what was written, over what an erase
   that failed left in place. *)
Partition ==
  [i \in 1 .. (IF Len(flash) > Len(left) THEN Len(flash) ELSE Len(left)) |->
     IF i > Len(flash) THEN left[i]
     ELSE IF i <= Len(left) THEN Over(left[i], flash[i]) ELSE flash[i]]

(* pal_flash_erase; no caller looks at its result.  A file that cannot be
   removed stays as it is, a partition is erased from its start as far as it
   goes. *)
Erased ==
  \/ left' = <<>>
  \/ /\ "erase" \in PalFailures
     /\ \E n \in IF FixedSize THEN 0 .. Len(Partition) ELSE {0} :
          left' = [i \in DOMAIN Partition |-> IF i <= n THEN Blank ELSE Partition[i]]

(* pal_flash_write that fails half way. *)
WriteFails(content, offset, data) ==
  /\ "write" \in PalFailures
  /\ data # <<>>
  /\ \E n \in 0 .. Len(data) : flash' = Overwritten(content, offset, SubSeq(data, 1, n))

(* The payloads as the hub numbered them: a later one replaces an earlier one
   of the same number. *)
ByNumber(num, data) ==
  [n \in 1 .. (IF num < Len(acked) THEN Len(acked) ELSE Len(acked) + 1) |->
     IF n = num + 1 THEN data ELSE acked[n]]

Success(more, last) == IF more THEN 231 ELSE last

-----------------------------------------------------------------------------
(* POST /tw/applet/push.                                                   *)

Loading == s_state = "LOADING"

PushNoBlock1 ==
  /\ resp' = 400
  /\ UNCHANGED <<s_state, s_received, s_expected, s_version, s_expected_block,
                 flash, left, loaded, acked, installed>>

ValidSize(size) == size # 0 /\ size <= MaxSize

(* Block 0 without a usable size.  It ends a push in progress and erases what
   that had written; otherwise it only clobbers s_expected. *)
FirstRejected(size) ==
  /\ ~ValidSize(size)
  /\ s_expected' = size
  /\ resp' = 400
  /\ IF Loading
       THEN /\ s_state' = "NONE"
            /\ s_received' = 0
            /\ s_expected_block' = 0
            /\ flash' = <<>>
            /\ acked' = <<>>
            /\ Erased
       ELSE UNCHANGED <<s_state, s_received, s_expected_block, flash, left, acked>>
  /\ UNCHANGED <<s_version, loaded, installed>>

(* A new push begins by erasing, whatever runs from the partition. *)
FirstAccepted(size, data, more) ==
  /\ ValidSize(size)
  /\ Len(data) <= size
  /\ Erased
  /\ flash' = Overwritten(<<>>, 0, data)
  /\ s_state' = "LOADING"
  /\ s_received' = Len(data)
  /\ s_expected' = size
  /\ s_expected_block' = 1
  /\ acked' = <<data>>
  /\ resp' = Success(more, 201)
  /\ UNCHANGED <<s_version, loaded, installed>>

FirstFailed(size, data) ==
  /\ ValidSize(size)
  /\ Erased
  /\ \/ Len(data) > size /\ flash' = <<>> /\ resp' = 413
     \/ Len(data) <= size /\ WriteFails(<<>>, 0, data) /\ resp' = 500
  /\ s_state' = "ERROR"
  /\ s_received' = 0
  /\ s_expected' = size
  /\ s_expected_block' = 0
  /\ acked' = <<>>
  /\ UNCHANGED <<s_version, loaded, installed>>

FirstBlock(size, data, more) ==
  FirstRejected(size) \/ FirstAccepted(size, data, more) \/ FirstFailed(size, data)

NextRejected(num, data) ==
  /\ \/ ~Loading /\ resp' = 408
     \/ Loading /\ num # s_expected_block /\ resp' = 408
     \/ Loading /\ num = s_expected_block /\ data = <<>> /\ resp' = 400
  /\ UNCHANGED <<s_state, s_received, s_expected, s_version, s_expected_block,
                 flash, left, loaded, acked, installed>>

InOrder(num, data) == Loading /\ num = s_expected_block /\ data # <<>>

(* Mutant: the size check is gone. *)
FitsAlways(data) == TRUE

Fits(data) == Len(data) <= s_expected - s_received

NextFailed(num, data) ==
  /\ InOrder(num, data)
  /\ \/ ~Fits(data) /\ resp' = 413 /\ UNCHANGED flash
     \/ Fits(data) /\ WriteFails(flash, s_received, data) /\ resp' = 500
  /\ s_state' = "ERROR"
  /\ UNCHANGED <<s_received, s_expected, s_version, s_expected_block, left, loaded, acked, installed>>

(* Mutant: the offset does not advance. *)
NextWrittenInPlace(num, data, more) ==
  /\ InOrder(num, data)
  /\ Fits(data)
  /\ flash' = Overwritten(flash, 0, data)
  /\ s_received' = s_received + Len(data)
  /\ s_expected_block' = s_expected_block + 1
  /\ acked' = ByNumber(num, data)
  /\ resp' = Success(more, 204)
  /\ UNCHANGED <<s_state, s_expected, s_version, left, loaded, installed>>

NextWritten(num, data, more) ==
  /\ InOrder(num, data)
  /\ Fits(data)
  /\ flash' = Overwritten(flash, s_received, data)
  /\ s_received' = s_received + Len(data)
  /\ s_expected_block' = s_expected_block + 1
  /\ acked' = ByNumber(num, data)
  /\ resp' = Success(more, 204)
  /\ UNCHANGED <<s_state, s_expected, s_version, left, loaded, installed>>

OnPush(has_block1, num, size, data, more) ==
  \/ ~has_block1 /\ PushNoBlock1
  \/ has_block1 /\ num = 0 /\ FirstBlock(size, data, more)
  \/ /\ has_block1 /\ num # 0
     /\ \/ NextRejected(num, data)
        \/ NextFailed(num, data)
        \/ NextWritten(num, data, more)

-----------------------------------------------------------------------------
(* POST /tw/applet/commit, with or without a version.                      *)

CommitRejected ==
  /\ ~Loading \/ s_received < s_expected
  /\ resp' = 408
  /\ UNCHANGED <<s_state, s_received, s_expected, s_version, s_expected_block,
                 flash, left, loaded, acked, installed>>

(* Mutant: a commit ends the transfer, however much of it has arrived. *)
CommitIncomplete(version) ==
  /\ Loading
  /\ s_version' = IF version = NULL THEN s_version ELSE version
  /\ s_state' = "RUNNING"
  /\ resp' = 204
  /\ installed' = flash
  /\ UNCHANGED <<s_received, s_expected, s_expected_block, flash, left, loaded, acked>>

CommitAccepted(version) ==
  /\ Loading
  /\ s_received >= s_expected
  /\ s_version' = IF version = NULL THEN s_version ELSE version
  /\ s_state' = "RUNNING"
  /\ resp' = 204
  /\ installed' = flash
  /\ UNCHANGED <<s_received, s_expected, s_expected_block, flash, left, loaded, acked>>

OnCommit(version) == CommitRejected \/ CommitAccepted(version)

(* Restart: the runtime takes whatever the partition holds for an applet, the
   bytes of an earlier one that could not be erased included. *)
Boot ==
  /\ s_state' = "NONE"
  /\ s_received' = 0
  /\ s_expected' = 0
  /\ s_version' = NULL
  /\ s_expected_block' = 0
  /\ resp' = 0
  /\ acked' = <<>>
  /\ \/ (FixedSize \/ Partition # <<>>) /\ loaded' = Partition
     \/ ~FixedSize /\ Partition = <<>> /\ loaded' = NULL
  /\ UNCHANGED <<flash, left, installed>>

-----------------------------------------------------------------------------
Init ==
  /\ s_state = "NONE"
  /\ s_received = 0
  /\ s_expected = 0
  /\ s_version = NULL
  /\ s_expected_block = 0
  /\ resp = 0
  /\ flash \in Blocks
  /\ left = <<>>
  /\ loaded = IF FixedSize \/ flash # <<>> THEN flash ELSE NULL
  /\ acked = <<>>
  /\ installed = flash

Next ==
  \/ \E has_block1, more \in BOOLEAN, num \in Nums, size \in Sizes, data \in Blocks :
       OnPush(has_block1, num, size, data, more)
  \/ \E version \in Versions \cup {NULL} : OnCommit(version)
  \/ Boot

Spec == Init /\ [][Next]_vars

-----------------------------------------------------------------------------
(* Properties.                                                             *)

(* The byte count is the length of what was written, and within what was
   declared. *)
SizesAgree ==
  /\ s_state \in {"LOADING", "RUNNING"} => s_received = Len(flash)
  /\ s_state = "LOADING" => s_received <= s_expected /\ ValidSize(s_expected)

(* At every point of a push the partition holds exactly the payloads that were
   acknowledged, in the order of their numbers and each once, and never more
   than was declared: a repeated, late or failing block leaves no trace (the
   bookkeeping svc_applet_on_push keeps in s_received and s_expected_block).
   After an erase that failed, the partition is not what was pushed. *)
PushMatchesReplies ==
  /\ SizesAgree
  /\ s_state \in {"LOADING", "RUNNING"} /\ left = <<>> => Partition = FlattenSeq(acked)

(* An applet is only announced as running when all that was declared for it
   has arrived, and its bytes stay while it is announced
   (svc_applet_on_commit). *)
RunsWhatWasDeclared ==
  [][/\ s_state # "RUNNING" /\ s_state' = "RUNNING" => Len(flash) = s_expected
     /\ s_state = "RUNNING" /\ s_state' = "RUNNING" => Partition' = Partition]_vars

-----------------------------------------------------------------------------
(* What the repository says and the code does not do.                      *)

(* applet-runtime.md: a push writes to a staging area, which is copied to the
   applet partition after the commit.  So what the runtime finds there at boot
   was committed; a push that was not finished leaves the image before it. *)
LoadsWhatWasCommitted == [][Boot => loaded' \in {NULL, installed}]_vars
=============================================================================
