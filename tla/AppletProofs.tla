---------------------------- MODULE AppletProofs ------------------------------
(***************************************************************************)
(* For every set of payloads, every size limit and every flash call that   *)
(* may fail: the byte count of a push is exact, the partition holds the    *)
(* acknowledged payloads in their order, and only complete images are      *)
(* announced.                                                              *)
(*                                                                         *)
(* IInv is inductive: SizesAgree places the next write at the end of what  *)
(* is there, Numbered gives the next number the place after the payloads   *)
(* acknowledged so far, and so a block that is written extends both sides  *)
(* of Written by the same bytes.                                           *)
(***************************************************************************)
EXTENDS Applet, SequenceTheorems, WellFoundedInduction, TLAPS

(* The types of everything but what is pushed. *)
ControlType ==
  /\ s_state \in States
  /\ s_received \in 0 .. MaxSize
  /\ s_expected \in Nat
  /\ s_version \in Versions \cup {NULL}
  /\ s_expected_block \in Nat
  /\ resp \in {0, 201, 204, 231, 400, 408, 413, 500}
  /\ loaded \in Seq(Byte) \cup {NULL}
  /\ installed \in Seq(Byte)

(* The next block is the first that is not there. *)
Numbered == Loading => s_expected_block = Len(acked)

Counted == TypeOK /\ SizesAgree /\ Numbered

(* The partition holds the payloads that were acknowledged, one after the
   other. *)
Written ==
  s_state \in {"LOADING", "RUNNING"} => acked # <<>> /\ flash = FlattenSeq(acked)

IInv == Counted /\ Written

-----------------------------------------------------------------------------
(* Writing. *)

LEMMA BlockType == ASSUME NEW data \in Blocks PROVE data \in Seq(Byte)
BY AppletAssumption

LEMMA OverwrittenType ==
  ASSUME NEW content \in Seq(Byte), NEW offset \in 0 .. Len(content),
         NEW data \in Seq(Byte)
  PROVE  Overwritten(content, offset, data) \in Seq(Byte)
<1> DEFINE last == offset + Len(data)
           n == IF last > Len(content) THEN last ELSE Len(content)
           f == [i \in 1 .. n |-> IF offset < i /\ i <= last THEN data[i - offset] ELSE content[i]]
<1>1. n \in Nat
  OBVIOUS
<1>2. ASSUME NEW i \in 1 .. n
      PROVE  (IF offset < i /\ i <= last THEN data[i - offset] ELSE content[i]) \in Byte
  <2>1. CASE offset < i /\ i <= last
    <3>1. i - offset \in 1 .. Len(data)
      BY <2>1
    <3> QED
      BY <2>1, <3>1
  <2>2. CASE ~(offset < i /\ i <= last)
    <3>1. i \in 1 .. Len(content)
      BY <2>2
    <3> QED
      BY <2>2, <3>1
  <2> QED
    BY <2>1, <2>2
<1>3. f \in [1 .. n -> Byte]
  BY <1>2
<1>4. f \in Seq(Byte)
  BY <1>1, <1>3
<1> QED
  BY <1>4 DEF Overwritten

(* Data written at the end makes the content longer by its length. *)
LEMMA OverwrittenLength ==
  ASSUME NEW content \in Seq(Byte), NEW data \in Seq(Byte)
  PROVE  Len(Overwritten(content, Len(content), data)) = Len(content) + Len(data)
<1> DEFINE last == Len(content) + Len(data)
           n == IF last > Len(content) THEN last ELSE Len(content)
<1>1. n = last
  OBVIOUS
<1>2. n \in Nat
  OBVIOUS
<1> HIDE DEF n
<1>3. Len([i \in 1 .. n |-> IF Len(content) < i /\ i <= last THEN data[i - Len(content)]
                                                         ELSE content[i]]) = n
  BY <1>2
<1> QED
  BY <1>1, <1>3 DEF Overwritten, n

(* What is read is made of bytes; it is what was written if all was erased. *)
LEMMA PartitionType ==
  ASSUME TypeOK
  PROVE  Partition \in Seq(Byte) /\ (left = <<>> => Partition = flash)
<1> DEFINE n == IF Len(flash) > Len(left) THEN Len(flash) ELSE Len(left)
           cell(i) == IF i > Len(flash) THEN left[i]
                      ELSE IF i <= Len(left) THEN Over(left[i], flash[i]) ELSE flash[i]
<1>1. flash \in Seq(Byte) /\ left \in Seq(Byte) /\ n \in Nat
  BY DEF TypeOK
<1>2. \A i \in 1 .. n : cell(i) \in Byte
  <2> SUFFICES ASSUME NEW i \in 1 .. n PROVE cell(i) \in Byte
    OBVIOUS
  <2>1. CASE i > Len(flash)
    <3>1. i \in 1 .. Len(left)
      BY <1>1, <2>1
    <3> QED
      BY <1>1, <2>1, <3>1
  <2>2. CASE ~(i > Len(flash))
    <3>1. flash[i] \in Byte
      BY <1>1, <2>2
    <3>2. CASE i <= Len(left)
      <4>1. left[i] \in Byte
        BY <1>1, <3>2
      <4> QED
        BY <2>2, <3>1, <3>2, <4>1, AppletAssumption
    <3> QED
      BY <2>2, <3>1, <3>2
  <2> QED
    BY <2>1, <2>2
<1>3. Partition = [i \in 1 .. n |-> cell(i)]
  BY DEF Partition
<1>4. left = <<>> => n = Len(flash) /\ \A i \in 1 .. n : cell(i) = flash[i]
  BY <1>1
<1> HIDE DEF n, cell
<1>5. Partition \in Seq(Byte) /\ Len(Partition) = n /\ \A i \in 1 .. n : Partition[i] = cell(i)
  BY <1>1, <1>2, <1>3
<1>6. left = <<>> => Partition = flash
  BY <1>1, <1>4, <1>5, SeqEqual
<1> QED
  BY <1>5, <1>6

(* An erase leaves bytes, whether it fails or not. *)
LEMMA ErasedType ==
  ASSUME TypeOK, Erased
  PROVE  left' \in Seq(Byte)
<1>1. CASE left' = <<>>
  BY <1>1
<1>2. ASSUME NEW n, left' = [i \in DOMAIN Partition |-> IF i <= n THEN Blank ELSE Partition[i]]
      PROVE  left' \in Seq(Byte)
  <2>1. Partition \in Seq(Byte) /\ Blank \in Byte
    BY PartitionType, AppletAssumption
  <2> HIDE DEF Partition
  <2>2. DOMAIN Partition = 1 .. Len(Partition) /\ Len(Partition) \in Nat
    BY <2>1
  <2>3. left' \in [1 .. Len(Partition) -> Byte]
    BY <1>2, <2>1, <2>2
  <2> QED
    BY <2>2, <2>3
<1> QED
  BY <1>1, <1>2 DEF Erased

LEMMA PrefixType ==
  ASSUME NEW data \in Seq(Byte), NEW n \in 0 .. Len(data)
  PROVE  SubSeq(data, 1, n) \in Seq(Byte)
OBVIOUS

LEMMA WriteFailsType ==
  ASSUME NEW content \in Seq(Byte), NEW offset \in 0 .. Len(content),
         NEW data \in Seq(Byte), WriteFails(content, offset, data)
  PROVE  flash' \in Seq(Byte)
<1>1. PICK n \in 0 .. Len(data) : flash' = Overwritten(content, offset, SubSeq(data, 1, n))
  BY DEF WriteFails
<1>2. SubSeq(data, 1, n) \in Seq(Byte)
  BY PrefixType
<1> QED
  BY <1>1, <1>2, OverwrittenType

LEMMA ByNumberType ==
  ASSUME TypeOK, NEW num \in Nat, num <= Len(acked), NEW data \in Seq(Byte)
  PROVE  ByNumber(num, data) \in Seq(Seq(Byte))
<1> DEFINE n == IF num < Len(acked) THEN Len(acked) ELSE Len(acked) + 1
<1>1. acked \in Seq(Seq(Byte)) /\ n \in Nat
  BY DEF TypeOK
<1>2. [k \in 1 .. n |-> IF k = num + 1 THEN data ELSE acked[k]] \in [1 .. n -> Seq(Byte)]
  <2>1. ASSUME NEW k \in 1 .. n
        PROVE  (IF k = num + 1 THEN data ELSE acked[k]) \in Seq(Byte)
    <3>1. CASE k = num + 1
      BY <3>1
    <3>2. CASE k # num + 1
      <4>1. k \in 1 .. Len(acked)
        BY <1>1, <3>2
      <4> QED
        BY <1>1, <3>2, <4>1
    <3> QED
      BY <3>1, <3>2
  <2> QED
    BY <2>1
<1> HIDE DEF n
<1>3. [k \in 1 .. n |-> IF k = num + 1 THEN data ELSE acked[k]] \in Seq(Seq(Byte))
  BY <1>1, <1>2
<1> QED
  BY <1>3 DEF ByNumber, n

-----------------------------------------------------------------------------
(* The inductive invariant. *)

LEMMA InitCounted == Init => Counted
<1> SUFFICES ASSUME Init PROVE Counted
  OBVIOUS
<1>1. flash \in Seq(Byte) /\ MaxSize \in Nat
  BY BlockType, AppletAssumption DEF Init
<1>2. acked \in Seq(Seq(Byte))
  BY DEF Init
<1>3. loaded \in Seq(Byte) \cup {NULL}
  BY <1>1 DEF Init
<1>4. /\ s_state \in States
      /\ s_received \in 0 .. MaxSize
      /\ s_expected \in Nat
      /\ s_version \in Versions \cup {NULL}
      /\ s_expected_block \in Nat
      /\ resp \in {0, 201, 204, 231, 400, 408, 413, 500}
  BY <1>1 DEF Init, States
<1>5. installed \in Seq(Byte) /\ left \in Seq(Byte)
  BY <1>1 DEF Init
<1>6. TypeOK
  BY <1>1, <1>2, <1>3, <1>4, <1>5 DEF TypeOK
<1> QED
  BY <1>6 DEF Init, Counted, SizesAgree, Numbered, Loading

LEMMA FirstStep ==
  ASSUME Counted, NEW size \in Sizes, NEW data \in Blocks, NEW more \in BOOLEAN,
         FirstBlock(size, data, more)
  PROVE  Counted'
<1>1. size \in Nat /\ MaxSize \in Nat /\ data \in Seq(Byte)
  BY BlockType, AppletAssumption
<1>2. <<>> \in Seq(Byte) /\ <<>> \in Seq(Seq(Byte)) /\ Len(<<>>) = 0
  OBVIOUS
<1>3. CASE FirstRejected(size)
  <2>1. CASE Loading
    <3>1. flash' \in Seq(Byte)
      BY <1>2, <1>3, <2>1 DEF FirstRejected
    <3>2. acked' \in Seq(Seq(Byte))
      BY <1>2, <1>3, <2>1 DEF FirstRejected
    <3>3. ControlType'
      BY <1>1, <1>3, <2>1 DEF FirstRejected, Counted, TypeOK, ControlType, States
    <3>4. left' \in Seq(Byte)
      BY <1>3, <2>1, ErasedType DEF FirstRejected, Counted
    <3>5. TypeOK'
      BY <3>1, <3>2, <3>3, <3>4 DEF TypeOK, ControlType
    <3> QED
      BY <1>3, <2>1, <3>5 DEF FirstRejected, Counted, SizesAgree, Numbered, Loading
  <2>2. CASE ~Loading
    BY <1>1, <1>3, <2>2 DEF FirstRejected, Counted, TypeOK, States, SizesAgree, Numbered, Loading
  <2> QED
    BY <2>1, <2>2
<1>4. CASE FirstAccepted(size, data, more)
  <2>1. flash' \in Seq(Byte) /\ Len(flash') = Len(data)
    <3>1. flash' = Overwritten(<<>>, Len(<<>>), data)
      BY <1>2, <1>4 DEF FirstAccepted
    <3>2. Len(<<>>) \in 0 .. Len(<<>>)
      BY <1>2
    <3>3. Overwritten(<<>>, Len(<<>>), data) \in Seq(Byte)
      BY <1>1, <1>2, <3>2, OverwrittenType
    <3>4. Len(Overwritten(<<>>, Len(<<>>), data)) = Len(<<>>) + Len(data)
      BY <1>1, <1>2, OverwrittenLength
    <3> QED
      BY <1>1, <1>2, <3>1, <3>3, <3>4
  <2>2. acked' \in Seq(Seq(Byte)) /\ Len(acked') = 1
    BY <1>1, <1>4 DEF FirstAccepted
  <2>3. Len(data) \in 0 .. MaxSize
    BY <1>1, <1>4 DEF FirstAccepted, ValidSize
  <2> QED
    <3>1. left' \in Seq(Byte)
      BY <1>4, ErasedType DEF FirstAccepted, Counted
    <3>2. ControlType'
      BY <1>1, <1>4, <2>3 DEF FirstAccepted, Counted, TypeOK, ControlType, States, Success
    <3>3. TypeOK'
      BY <2>1, <2>2, <3>1, <3>2 DEF TypeOK, ControlType
    <3>4. SizesAgree' /\ Numbered'
      BY <1>1, <1>4, <2>1, <2>2 DEF FirstAccepted, SizesAgree, Numbered, Loading, ValidSize
    <3> QED
      BY <3>3, <3>4 DEF Counted
<1>5. CASE FirstFailed(size, data)
  <2>1. flash' \in Seq(Byte)
    <3>1. CASE flash' = <<>>
      BY <1>2, <3>1
    <3>2. CASE WriteFails(<<>>, 0, data)
      <4>1. 0 \in 0 .. Len(<<>>)
        BY <1>2
      <4> QED
        BY <1>1, <1>2, <3>2, <4>1, WriteFailsType
    <3> QED
      BY <1>5, <3>1, <3>2 DEF FirstFailed
  <2>2. acked' \in Seq(Seq(Byte))
    BY <1>2, <1>5 DEF FirstFailed
  <2>3. ControlType'
    BY <1>1, <1>5 DEF FirstFailed, Counted, TypeOK, ControlType, States
  <2>4. left' \in Seq(Byte)
    BY <1>5, ErasedType DEF FirstFailed, Counted
  <2>5. TypeOK'
    BY <2>1, <2>2, <2>3, <2>4 DEF TypeOK, ControlType
  <2> QED
    BY <1>5, <2>5 DEF FirstFailed, Counted, SizesAgree, Numbered, Loading
<1> QED
  BY <1>3, <1>4, <1>5 DEF FirstBlock

LEMMA NextBlockStep ==
  ASSUME Counted, NEW num \in Nums, NEW data \in Blocks, NEW more \in BOOLEAN,
         \/ NextRejected(num, data)
         \/ NextFailed(num, data)
         \/ NextWritten(num, data, more)
  PROVE  Counted'
<1>1. num \in Nat /\ MaxSize \in Nat /\ data \in Seq(Byte) /\ flash \in Seq(Byte)
  BY BlockType, AppletAssumption DEF Counted, TypeOK
<1>2. CASE NextRejected(num, data)
  BY <1>2 DEF NextRejected, Counted, TypeOK, SizesAgree, Numbered, Loading
<1>3. CASE NextFailed(num, data)
  <2>1. Loading /\ s_received = Len(flash)
    BY <1>3 DEF NextFailed, InOrder, Counted, SizesAgree, Loading
  <2>2. flash' \in Seq(Byte)
    <3>1. CASE UNCHANGED flash
      BY <1>1, <3>1
    <3>2. CASE WriteFails(flash, s_received, data)
      <4>1. s_received \in 0 .. Len(flash)
        BY <1>1, <2>1
      <4> QED
        BY <1>1, <3>2, <4>1, WriteFailsType
    <3> QED
      BY <1>3, <3>1, <3>2 DEF NextFailed
  <2>3. TypeOK'
    BY <1>3, <2>2 DEF NextFailed, InOrder, Counted, TypeOK, States
  <2> QED
    BY <1>3, <2>3 DEF NextFailed, Counted, SizesAgree, Numbered, Loading
<1>4. CASE NextWritten(num, data, more)
  <2>1. Loading /\ s_received = Len(flash) /\ num = Len(acked) /\ s_received <= s_expected
    BY <1>4 DEF NextWritten, InOrder, Counted, SizesAgree, Numbered, Loading
  <2>2. flash' \in Seq(Byte) /\ Len(flash') = Len(flash) + Len(data)
    <3>1. flash' = Overwritten(flash, Len(flash), data)
      BY <1>4, <2>1 DEF NextWritten
    <3>2. Len(flash) \in 0 .. Len(flash)
      BY <1>1
    <3>3. Overwritten(flash, Len(flash), data) \in Seq(Byte)
      BY <1>1, <3>2, OverwrittenType
    <3>4. Len(Overwritten(flash, Len(flash), data)) = Len(flash) + Len(data)
      BY <1>1, OverwrittenLength
    <3> QED
      BY <3>1, <3>3, <3>4
  <2>3. acked' \in Seq(Seq(Byte))
    <3>1. acked' = ByNumber(num, data)
      BY <1>4 DEF NextWritten
    <3>2. TypeOK /\ num <= Len(acked)
      BY <1>1, <2>1 DEF Counted
    <3> QED
      BY <1>1, <3>1, <3>2, ByNumberType
  <2>4. Len(acked') = Len(acked) + 1
    <3>1. acked \in Seq(Seq(Byte))
      BY DEF Counted, TypeOK
    <3>2. acked' = [n \in 1 .. Len(acked) + 1 |-> IF n = num + 1 THEN data ELSE acked[n]]
      BY <1>4, <2>1, <3>1 DEF NextWritten, ByNumber
    <3> QED
      BY <3>1, <3>2
  <2>5. s_received' <= s_expected' /\ ValidSize(s_expected')
    BY <1>1, <1>4, <2>1 DEF NextWritten, Fits, Counted, TypeOK, SizesAgree, Loading, ValidSize
  <2>6. s_received' \in 0 .. MaxSize
    BY <1>1, <1>4, <2>5 DEF NextWritten, Counted, TypeOK, ValidSize
  <2> QED
    BY <1>1, <1>4, <2>1, <2>2, <2>3, <2>4, <2>5, <2>6 DEF NextWritten, InOrder, Counted, TypeOK,
       States, SizesAgree, Numbered, Loading, Success
<1> QED
  BY <1>2, <1>3, <1>4

LEMMA StepCounted == Counted /\ [Next]_vars => Counted'
<1> SUFFICES ASSUME Counted, [Next]_vars PROVE Counted'
  OBVIOUS
<1>1. ASSUME NEW has_block1 \in BOOLEAN, NEW more \in BOOLEAN, NEW num \in Nums,
             NEW size \in Sizes, NEW data \in Blocks,
             OnPush(has_block1, num, size, data, more)
      PROVE  Counted'
  <2>1. CASE PushNoBlock1
    BY <2>1 DEF PushNoBlock1, Counted, TypeOK, SizesAgree, Numbered, Loading
  <2>2. CASE FirstBlock(size, data, more)
    BY <2>2, FirstStep
  <2>3. CASE \/ NextRejected(num, data)
             \/ NextFailed(num, data)
             \/ NextWritten(num, data, more)
    BY <2>3, NextBlockStep
  <2> QED
    BY <1>1, <2>1, <2>2, <2>3 DEF OnPush
<1>2. ASSUME NEW version \in Versions \cup {NULL}, OnCommit(version)
      PROVE  Counted'
  <2>1. CASE CommitRejected
    BY <2>1 DEF CommitRejected, Counted, TypeOK, SizesAgree, Numbered, Loading
  <2>2. CASE CommitAccepted(version)
    BY <2>2 DEF CommitAccepted, Counted, TypeOK, States, SizesAgree, Numbered, Loading
  <2> QED
    BY <1>2, <2>1, <2>2 DEF OnCommit
<1>3. CASE Boot
  <2>1. MaxSize \in Nat /\ <<>> \in Seq(Seq(Byte))
    BY AppletAssumption
  <2>2. loaded' \in Seq(Byte) \cup {NULL}
    BY <1>3, PartitionType DEF Boot, Counted
  <2>3. ControlType'
    BY <1>3, <2>1, <2>2 DEF Boot, Counted, TypeOK, ControlType, States
  <2>4. TypeOK'
    BY <1>3, <2>1, <2>3 DEF Boot, Counted, TypeOK, ControlType
  <2> QED
    BY <1>3, <2>4 DEF Boot, Counted, SizesAgree, Numbered, Loading
<1>4. CASE UNCHANGED vars
  BY <1>4 DEF vars, Counted, TypeOK, SizesAgree, Numbered, Loading
<1> QED
  BY <1>1, <1>2, <1>3, <1>4 DEF Next

-----------------------------------------------------------------------------
(* What FlattenSeq does to a sequence that grows. *)

(* A nonempty set of numbers has a least one. *)
LEMMA Least ==
  ASSUME NEW S, S \subseteq Nat, S # {}
  PROVE  \E n \in S : \A m \in S : n <= m
<1>1. PICK x \in S : \A y \in S : ~(<<y, x>> \in OpToRel(<, Nat))
  BY NatLessThanWellFounded, WFMin
<1>2. \A y \in S : ~(y < x)
  BY <1>1 DEF OpToRel
<1> QED
  BY <1>2

(* Induction, on a set instead of a predicate. *)
LEMMA Induct ==
  ASSUME NEW T, 0 \in T, \A n \in Nat : n \in T => n + 1 \in T
  PROVE  Nat \subseteq T
<1> SUFFICES ASSUME Nat \ T # {} PROVE FALSE
  OBVIOUS
<1>1. PICK n \in Nat \ T : \A m \in Nat \ T : n <= m
  BY Least
<1>2. n # 0
  BY <1>1
<1>3. n - 1 \in Nat /\ n - 1 \notin Nat \ T
  BY <1>1, <1>2
<1>4. n - 1 + 1 \in T
  BY <1>3
<1> QED
  BY <1>1, <1>4

(* Concatenation, unexpanded. *)
Joined(a, b) == a \o b

(* f[i] is the concatenation of the first i elements of s, up to n. *)
Accumulates(s, n, f) ==
  f = [i \in 1 .. n |-> IF i = 1 THEN s[i] ELSE Joined(f[i - 1], s[i])]

(* What an accumulation is, one element at a time. *)
LEMMA AccumulationStep ==
  ASSUME NEW s, NEW n \in Nat, NEW f, Accumulates(s, n, f)
  PROVE  /\ 1 \in 1 .. n => f[1] = s[1]
         /\ \A i \in 1 .. n : i # 1 => f[i] = Joined(f[i - 1], s[i])
<1> DEFINE F(k) == IF k = 1 THEN s[k] ELSE Joined(f[k - 1], s[k])
<1>1. f = [k \in 1 .. n |-> F(k)]
  BY DEF Accumulates
<1> HIDE DEF F
<1>2. \A i \in 1 .. n : f[i] = F(i)
  BY <1>1
<1> QED
  BY <1>2 DEF F

(* The equation has a solution, so that the CHOOSE in FlattenSeq finds one. *)
LEMMA AccumulationExists ==
  ASSUME NEW s, NEW n \in Nat
  PROVE  \E f : Accumulates(s, n, f)
<1> DEFINE T == {k \in Nat : \E f : Accumulates(s, k, f)}
<1>1. 0 \in T
  <2>1. Accumulates(s, 0, [i \in 1 .. 0 |-> s[i]])
    BY DEF Accumulates
  <2> QED
    BY <2>1
<1>2. ASSUME NEW k \in Nat, k \in T
      PROVE  k + 1 \in T
  <2>1. PICK f : Accumulates(s, k, f)
    BY <1>2
  <2>2. /\ 1 \in 1 .. k => f[1] = s[1]
        /\ \A i \in 1 .. k : i # 1 => f[i] = Joined(f[i - 1], s[i])
    BY <2>1, AccumulationStep
  <2> DEFINE g == [i \in 1 .. k + 1 |->
                     IF i <= k THEN f[i] ELSE IF i = 1 THEN s[i] ELSE Joined(f[i - 1], s[i])]
  <2>3. ASSUME NEW i \in 1 .. k + 1
        PROVE  g[i] = IF i = 1 THEN s[i] ELSE Joined(g[i - 1], s[i])
    <3>1. CASE i = 1
      BY <2>2, <3>1
    <3>2. CASE i # 1
      <4>1. i - 1 \in 1 .. k /\ i - 1 \in 1 .. k + 1 /\ g[i - 1] = f[i - 1]
        BY <3>2
      <4>2. i <= k => f[i] = Joined(f[i - 1], s[i])
        BY <2>2, <3>2
      <4> QED
        BY <3>2, <4>1, <4>2
    <3> QED
      BY <3>1, <3>2
  <2>4. g = [i \in 1 .. k + 1 |-> IF i = 1 THEN s[i] ELSE Joined(g[i - 1], s[i])]
    <3>1. g = [i \in 1 .. k + 1 |-> g[i]]
      OBVIOUS
    <3> HIDE DEF g
    <3> QED
      BY <2>3, <3>1
  <2>5. Accumulates(s, k + 1, g)
    BY <2>4 DEF Accumulates
  <2> QED
    BY <2>5
<1> HIDE DEF T
<1>3. Nat \subseteq T
  BY <1>1, <1>2, Induct
<1> QED
  BY <1>3 DEF T

(* It is the same for every sequence that begins alike. *)
LEMMA AccumulationUnique ==
  ASSUME NEW s, NEW t, NEW m \in Nat, NEW n \in Nat, NEW f, NEW g,
         Accumulates(s, m, f), Accumulates(t, n, g), m <= n,
         \A i \in 1 .. m : s[i] = t[i]
  PROVE  \A i \in 1 .. m : f[i] = g[i]
<1> DEFINE T == {k \in Nat : k \in 1 .. m => f[k] = g[k]}
<1>1. 0 \in T
  OBVIOUS
<1>2. ASSUME NEW k \in Nat, k \in T
      PROVE  k + 1 \in T
  <2>1. /\ 1 \in 1 .. m => f[1] = s[1]
        /\ \A i \in 1 .. m : i # 1 => f[i] = Joined(f[i - 1], s[i])
    BY AccumulationStep
  <2>2. /\ 1 \in 1 .. n => g[1] = t[1]
        /\ \A i \in 1 .. n : i # 1 => g[i] = Joined(g[i - 1], t[i])
    BY AccumulationStep
  <2> SUFFICES ASSUME k + 1 \in 1 .. m PROVE f[k + 1] = g[k + 1]
    OBVIOUS
  <2>3. k + 1 \in 1 .. n /\ s[k + 1] = t[k + 1]
    OBVIOUS
  <2>4. f[k + 1] = IF k + 1 = 1 THEN s[k + 1] ELSE Joined(f[k], s[k + 1])
    <3>1. k + 1 - 1 = k
      OBVIOUS
    <3> QED
      BY <2>1, <3>1
  <2>5. g[k + 1] = IF k + 1 = 1 THEN t[k + 1] ELSE Joined(g[k], t[k + 1])
    <3>1. k + 1 - 1 = k
      OBVIOUS
    <3> QED
      BY <2>2, <2>3, <3>1
  <2>6. k + 1 # 1 => f[k] = g[k]
    BY <1>2
  <2> QED
    BY <2>3, <2>4, <2>5, <2>6
<1> HIDE DEF T
<1>3. Nat \subseteq T
  BY <1>1, <1>2, Induct
<1> QED
  BY <1>3 DEF T

(* FlattenSeq is the last element of the accumulation. *)
LEMMA FlattenAccumulates ==
  ASSUME NEW s, NEW n \in Nat, n # 0, Len(s) = n
  PROVE  \E f : Accumulates(s, n, f) /\ FlattenSeq(s) = f[n]
<1> DEFINE f == CHOOSE h : h = [i \in 1 .. Len(s) |-> IF i = 1 THEN s[i] ELSE h[i - 1] \o s[i]]
<1>1. FlattenSeq(s) = f[n]
  BY DEF FlattenSeq
<1>2. \E h : h = [i \in 1 .. Len(s) |-> IF i = 1 THEN s[i] ELSE h[i - 1] \o s[i]]
  BY AccumulationExists DEF Accumulates, Joined
<1>3. f = [i \in 1 .. Len(s) |-> IF i = 1 THEN s[i] ELSE f[i - 1] \o s[i]]
  BY <1>2
<1> QED
  BY <1>1, <1>3 DEF Accumulates, Joined

(* Two accumulations that begin alike differ in what comes last. *)
LEMMA AccumulationGrows ==
  ASSUME NEW s, NEW t, NEW n \in Nat, n # 0, NEW f, NEW g,
         Accumulates(s, n, f), Accumulates(t, n + 1, g),
         \A i \in 1 .. n : s[i] = t[i]
  PROVE  g[n + 1] = Joined(f[n], t[n + 1])
<1>1. \A i \in 1 .. n : f[i] = g[i]
  <2>1. n + 1 \in Nat /\ n <= n + 1
    OBVIOUS
  <2> QED
    BY <2>1, AccumulationUnique
<1>2. n \in 1 .. n /\ n + 1 \in 1 .. n + 1 /\ n + 1 # 1 /\ n + 1 - 1 = n /\ n + 1 \in Nat
  OBVIOUS
<1>3. \A i \in 1 .. n + 1 : i # 1 => g[i] = Joined(g[i - 1], t[i])
  BY <1>2, AccumulationStep
<1>4. g[n + 1] = Joined(g[n], t[n + 1])
  BY <1>2, <1>3
<1> QED
  BY <1>1, <1>2, <1>4

(* A sequence with one element more flattens to what the one without it does,
   and then that element. *)
LEMMA FlattenExtended ==
  ASSUME NEW s, NEW t, NEW n \in Nat, n # 0, Len(s) = n, Len(t) = n + 1,
         \A i \in 1 .. n : s[i] = t[i]
  PROVE  FlattenSeq(t) = Joined(FlattenSeq(s), t[n + 1])
<1>1. PICK f : Accumulates(s, n, f) /\ FlattenSeq(s) = f[n]
  BY FlattenAccumulates
<1>2. PICK g : Accumulates(t, n + 1, g) /\ FlattenSeq(t) = g[n + 1]
  <2>1. n + 1 \in Nat /\ n + 1 # 0
    OBVIOUS
  <2> QED
    BY <2>1, FlattenAccumulates
<1>3. g[n + 1] = Joined(f[n], t[n + 1])
  BY <1>1, <1>2, AccumulationGrows
<1> QED
  BY <1>1, <1>2, <1>3

(* One payload alone is the whole image. *)
LEMMA FlattenOne == ASSUME NEW d PROVE FlattenSeq(<<d>>) = d
<1> DEFINE s == <<d>>
<1>1. Len(s) = 1 /\ s[1] = d /\ 1 \in Nat /\ 1 # 0
  OBVIOUS
<1> HIDE DEF s
<1>2. PICK f : Accumulates(s, 1, f) /\ FlattenSeq(s) = f[1]
  BY <1>1, FlattenAccumulates
<1>3. 1 \in 1 .. 1 => f[1] = s[1]
  BY <1>1, <1>2, AccumulationStep
<1> QED
  BY <1>1, <1>2, <1>3 DEF s

(* One more payload comes after those before it. *)
LEMMA FlattenAppend ==
  ASSUME NEW B, NEW s \in Seq(Seq(B)), s # <<>>, NEW d \in Seq(B)
  PROVE  FlattenSeq(Append(s, d)) = FlattenSeq(s) \o d
<1> DEFINE t == Append(s, d)
<1>1. PICK n \in Nat : n = Len(s)
  OBVIOUS
<1>2. n # 0 /\ Len(t) = n + 1 /\ t[n + 1] = d /\ \A i \in 1 .. n : s[i] = t[i]
  BY <1>1
<1> HIDE DEF t
<1>3. FlattenSeq(t) = Joined(FlattenSeq(s), t[n + 1])
  BY <1>1, <1>2, FlattenExtended
<1> QED
  BY <1>2, <1>3 DEF t, Joined

-----------------------------------------------------------------------------
(* What is in the partition. *)

(* Data written at the end is appended. *)
LEMMA OverwrittenAppends ==
  ASSUME NEW content \in Seq(Byte), NEW data \in Seq(Byte)
  PROVE  Overwritten(content, Len(content), data) = content \o data
<1> DEFINE w == Overwritten(content, Len(content), data)
           last == Len(content) + Len(data)
           n == IF last > Len(content) THEN last ELSE Len(content)
<1>1. n = last /\ n \in Nat /\ Len(content) \in 0 .. Len(content)
  OBVIOUS
<1> HIDE DEF n
<1>2. w = [i \in 1 .. n |-> IF Len(content) < i /\ i <= last THEN data[i - Len(content)]
                                                             ELSE content[i]]
  BY DEF Overwritten, n
<1>3. w \in Seq(Byte) /\ Len(w) = last
  BY <1>1, OverwrittenType, OverwrittenLength
<1>4. content \o data \in Seq(Byte) /\ Len(content \o data) = last
  BY ConcatProperties
<1>5. \A i \in 1 .. last : w[i] = (content \o data)[i]
  <2> SUFFICES ASSUME NEW i \in 1 .. last PROVE w[i] = (content \o data)[i]
    OBVIOUS
  <2>1. w[i] = IF Len(content) < i THEN data[i - Len(content)] ELSE content[i]
    BY <1>1, <1>2
  <2>2. (content \o data)[i] = IF i <= Len(content) THEN content[i] ELSE data[i - Len(content)]
    BY ConcatProperties
  <2> QED
    BY <2>1, <2>2
<1> HIDE DEF w
<1>6. w = content \o data
  BY <1>3, <1>4, <1>5, SeqEqual
<1> QED
  BY <1>6 DEF w

(* A payload with the next number comes after the others. *)
LEMMA ByNumberAppends ==
  ASSUME NEW data \in Seq(Byte), acked \in Seq(Seq(Byte))
  PROVE  ByNumber(Len(acked), data) = Append(acked, data)
<1>1. PICK n \in Nat : n = Len(acked)
  OBVIOUS
<1>2. ByNumber(n, data) = [k \in 1 .. n + 1 |-> IF k = n + 1 THEN data ELSE acked[k]]
  BY <1>1 DEF ByNumber
<1>3. ByNumber(n, data) \in Seq(Seq(Byte))
  <2>1. \A k \in 1 .. n + 1 : (IF k = n + 1 THEN data ELSE acked[k]) \in Seq(Byte)
    <3> SUFFICES ASSUME NEW k \in 1 .. n + 1, k # n + 1 PROVE acked[k] \in Seq(Byte)
      OBVIOUS
    <3>1. k \in 1 .. Len(acked)
      BY <1>1
    <3> QED
      BY <3>1
  <2> QED
    BY <1>2, <2>1
<1>4. Len(ByNumber(n, data)) = n + 1
  BY <1>2
<1>5. \A k \in 1 .. n + 1 : ByNumber(n, data)[k] = Append(acked, data)[k]
  BY <1>1, <1>2, AppendProperties
<1>6. Append(acked, data) \in Seq(Seq(Byte)) /\ Len(Append(acked, data)) = n + 1
  BY <1>1
<1>7. ByNumber(n, data) = Append(acked, data)
  BY <1>3, <1>4, <1>5, <1>6, SeqEqual
<1> QED
  BY <1>1, <1>7

(* Block 0 is all there is after it. *)
LEMMA WrittenFirst ==
  ASSUME NEW size \in Sizes, NEW data \in Blocks, NEW more \in BOOLEAN,
         FirstAccepted(size, data, more)
  PROVE  Written'
<1>1. data \in Seq(Byte) /\ <<>> \in Seq(Byte) /\ Len(<<>>) = 0
  BY BlockType
<1>2. flash' = <<>> \o data
  BY <1>1, OverwrittenAppends DEF FirstAccepted
<1>3. flash' = data
  BY <1>1, <1>2
<1>4. acked' = <<data>> /\ FlattenSeq(<<data>>) = data
  BY FlattenOne DEF FirstAccepted
<1>5. acked' # <<>> /\ flash' = FlattenSeq(acked')
  BY <1>3, <1>4
<1> QED
  BY <1>5 DEF Written

(* The next block extends the partition and the acknowledged payloads alike. *)
LEMMA WrittenNext ==
  ASSUME IInv, NEW num \in Nums, NEW data \in Blocks, NEW more \in BOOLEAN,
         NextWritten(num, data, more)
  PROVE  Written'
<1>1. data \in Seq(Byte) /\ flash \in Seq(Byte) /\ acked \in Seq(Seq(Byte))
  BY BlockType DEF IInv, Counted, TypeOK
<1>2. Loading /\ s_received = Len(flash) /\ num = Len(acked)
  BY DEF NextWritten, InOrder, IInv, Counted, SizesAgree, Numbered, Loading
<1>3. acked # <<>> /\ flash = FlattenSeq(acked)
  BY <1>2 DEF IInv, Written, Loading
<1>4. flash' = flash \o data
  BY <1>1, <1>2, OverwrittenAppends DEF NextWritten
<1>5. acked' = Append(acked, data)
  BY <1>1, <1>2, ByNumberAppends DEF NextWritten
<1>6. FlattenSeq(acked') = flash'
  BY <1>1, <1>3, <1>4, <1>5, FlattenAppend
<1>7. acked' # <<>>
  BY <1>1, <1>5
<1> QED
  BY <1>6, <1>7 DEF Written

(* No step makes the partition differ from what was acknowledged. *)
LEMMA WrittenStep == IInv /\ [Next]_vars => Written'
<1> SUFFICES ASSUME IInv, [Next]_vars PROVE Written'
  OBVIOUS
<1>1. ASSUME NEW has_block1 \in BOOLEAN, NEW more \in BOOLEAN, NEW num \in Nums,
             NEW size \in Sizes, NEW data \in Blocks,
             OnPush(has_block1, num, size, data, more)
      PROVE  Written'
  <2>1. CASE PushNoBlock1 \/ NextRejected(num, data)
    BY <2>1 DEF PushNoBlock1, NextRejected, IInv, Written
  <2>2. CASE FirstRejected(size)
    BY <2>2 DEF FirstRejected, IInv, Written, Loading
  <2>3. CASE FirstAccepted(size, data, more)
    BY <2>3, WrittenFirst
  <2>4. CASE FirstFailed(size, data)
    BY <2>4 DEF FirstFailed, Written
  <2>5. CASE NextFailed(num, data)
    BY <2>5 DEF NextFailed, Written
  <2>6. CASE NextWritten(num, data, more)
    BY <2>6, WrittenNext
  <2> QED
    BY <1>1, <2>1, <2>2, <2>3, <2>4, <2>5, <2>6 DEF OnPush, FirstBlock
<1>2. ASSUME NEW version \in Versions \cup {NULL}, OnCommit(version)
      PROVE  Written'
  BY <1>2 DEF OnCommit, CommitRejected, CommitAccepted, IInv, Written, Loading
<1>3. CASE Boot
  BY <1>3 DEF Boot, Written
<1>4. CASE UNCHANGED vars
  BY <1>4 DEF vars, IInv, Written
<1> QED
  BY <1>1, <1>2, <1>3, <1>4 DEF Next

(* The invariant holds of every behaviour. *)
THEOREM Invariance == Spec => []IInv
<1>1. Init => IInv
  BY InitCounted DEF Init, IInv, Written
<1>2. IInv /\ [Next]_vars => IInv'
  BY StepCounted, WrittenStep DEF IInv
<1> QED
  BY <1>1, <1>2, PTL DEF Spec

(* The variables keep their types; the byte count stays within the limit. *)
THEOREM TypeCorrect == Spec => []TypeOK
BY Invariance, PTL DEF IInv, Counted

(* The byte count is the length of what was written. *)
THEOREM SizesAlwaysAgree == Spec => []SizesAgree
BY Invariance, PTL DEF IInv, Counted

(* At every point of a push, whatever was repeated, late or failed on the way,
   the partition holds exactly the acknowledged payloads in the order of their
   numbers (svc_applet_on_push). *)
THEOREM PartitionHoldsThePush == Spec => []PushMatchesReplies
<1>1. IInv => PushMatchesReplies
  BY PartitionType DEF IInv, Counted, Written, PushMatchesReplies
<1> QED
  BY <1>1, Invariance, PTL

-----------------------------------------------------------------------------
(* What is announced. *)

LEMMA AnnouncedStep ==
  ASSUME IInv, [Next]_vars
  PROVE  [/\ s_state # "RUNNING" /\ s_state' = "RUNNING" => Len(flash) = s_expected
          /\ s_state = "RUNNING" /\ s_state' = "RUNNING" => Partition' = Partition]_vars
<1>1. ASSUME s_state # "RUNNING", s_state' = "RUNNING"
      PROVE  Len(flash) = s_expected
  <2>1. PICK version \in Versions \cup {NULL} : CommitAccepted(version)
    BY <1>1 DEF Next, vars, OnPush, PushNoBlock1, FirstBlock, FirstRejected, FirstAccepted,
       FirstFailed, NextRejected, NextFailed, NextWritten, InOrder, OnCommit, CommitRejected,
       Boot, Loading
  <2>2. s_received = Len(flash) /\ s_received <= s_expected /\ s_received >= s_expected
    BY <2>1 DEF CommitAccepted, Loading, IInv, Counted, SizesAgree
  <2> QED
    BY <2>2 DEF IInv, Counted, TypeOK
<1>2. ASSUME s_state = "RUNNING", s_state' = "RUNNING"
      PROVE  Partition' = Partition
  <2>1. flash' = flash /\ left' = left
    BY <1>2 DEF Next, vars, OnPush, PushNoBlock1, FirstBlock, FirstRejected, FirstAccepted,
       FirstFailed, NextRejected, NextFailed, NextWritten, InOrder, OnCommit, CommitRejected,
       CommitAccepted, Boot, Loading
  <2> QED
    BY <2>1 DEF Partition
<1> QED
  BY <1>1, <1>2

(* An applet is announced only when all of it is there, and what is announced
   does not change. *)
THEOREM AnnouncedIsComplete == Spec => RunsWhatWasDeclared
BY Invariance, AnnouncedStep, PTL DEF Spec, RunsWhatWasDeclared

=============================================================================
