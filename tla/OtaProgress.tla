---------------------------- MODULE OtaProgress -----------------------------
(***************************************************************************)
(* tw_ota_progress_pct read from another thread while on_begin runs.       *)
(*                                                                         *)
(* The accessor takes s_lock; the handlers write without it.  Here on_begin*)
(* is taken apart into the writes the accessor can see, in source order,   *)
(* and the accessor into its two reads.  Blocks and errors are as in Ota,  *)
(* reduced to the byte counts.                                             *)
(***************************************************************************)
EXTENDS Naturals

CONSTANTS
  Sizes,     \* sizes a begin may declare
  Lens,      \* lengths of the blocks
  Threaded   \* TRUE: the accessor runs on a thread of its own;
             \* FALSE: only between handlers, as from the main loop

ASSUME ProgressAssumption ==
  /\ Sizes \subseteq Nat \ {0}
  /\ Lens \subseteq Nat \ {0}
  /\ Threaded \in BOOLEAN

VARIABLES
  s_state,          \* "RECEIVING", or "OTHER" for every other state
  s_expected_size,
  s_received,
  handler,          \* "idle", or the next write of on_begin
  reader,           \* "idle", or "divide" once past the early return
  pct               \* the last value returned

progress == <<s_state, s_expected_size, s_received, handler, reader, pct>>

(* The percentage as the code computes it: whole hundredths, plus one so that
   the divisor is never 0. *)
Pct(received, expected) == received \div (expected \div 100 + 1)

ProgressTypeOK ==
  /\ s_state \in {"RECEIVING", "OTHER"}
  /\ s_expected_size \in Nat
  /\ s_received \in Nat
  /\ handler \in {"idle", "cleared", "sized", "opened", "receiving"}
  /\ reader \in {"idle", "divide"}
  /\ pct \in Nat

-----------------------------------------------------------------------------
ClearSize ==
  /\ handler = "idle"
  /\ s_expected_size' = 0
  /\ handler' = "cleared"
  /\ UNCHANGED <<s_state, s_received, reader, pct>>

(* The payload names a size, or it does not and the handler returns. *)
DecodeSize ==
  /\ handler = "cleared"
  /\ \/ s_expected_size' \in Sizes /\ handler' = "sized"
     \/ UNCHANGED s_expected_size /\ handler' = "idle"
  /\ UNCHANGED <<s_state, s_received, reader, pct>>

(* pal_ota_begin erases the slot, the longest step of all. *)
OpenSlot ==
  /\ handler = "sized"
  /\ \/ UNCHANGED s_state /\ handler' = "opened"
     \/ s_state' = "OTHER" /\ handler' = "idle"
  /\ UNCHANGED <<s_expected_size, s_received, reader, pct>>

EnterReceiving ==
  /\ handler = "opened"
  /\ s_state' = "RECEIVING"
  /\ handler' = "receiving"
  /\ UNCHANGED <<s_expected_size, s_received, reader, pct>>

(* Mutant: the byte count of the previous transfer is kept. *)
KeepReceived ==
  /\ handler = "receiving"
  /\ handler' = "idle"
  /\ UNCHANGED <<s_state, s_expected_size, s_received, reader, pct>>

ResetReceived ==
  /\ handler = "receiving"
  /\ s_received' = 0
  /\ handler' = "idle"
  /\ UNCHANGED <<s_state, s_expected_size, reader, pct>>

(* A block that fits is counted; one that does not ends the transfer. *)
Block(len) ==
  /\ handler = "idle"
  /\ s_state = "RECEIVING"
  /\ s_expected_size # 0
  /\ IF len <= s_expected_size - s_received
       THEN s_received' = s_received + len /\ UNCHANGED s_state
       ELSE s_state' = "OTHER" /\ UNCHANGED s_received
  /\ UNCHANGED <<s_expected_size, handler, reader, pct>>

-----------------------------------------------------------------------------
MayRead == Threaded \/ handler = "idle"

ReadGuard ==
  /\ reader = "idle"
  /\ MayRead
  /\ IF s_expected_size = 0 \/ s_state # "RECEIVING"
       THEN pct' = 0 /\ UNCHANGED reader
       ELSE reader' = "divide" /\ UNCHANGED pct
  /\ UNCHANGED <<s_state, s_expected_size, s_received, handler>>

ReadDivide ==
  /\ reader = "divide"
  /\ pct' = Pct(s_received, s_expected_size)
  /\ reader' = "idle"
  /\ UNCHANGED <<s_state, s_expected_size, s_received, handler>>

(* Without a thread of its own the accessor is not interrupted. *)
HandlerMayRun == Threaded \/ reader = "idle"

HandlerStep ==
  /\ HandlerMayRun
  /\ \/ ClearSize
     \/ DecodeSize
     \/ OpenSlot
     \/ EnterReceiving
     \/ ResetReceived
     \/ \E len \in Lens : Block(len)

ProgressInit ==
  /\ s_state = "OTHER"
  /\ s_expected_size = 0
  /\ s_received = 0
  /\ handler = "idle"
  /\ reader = "idle"
  /\ pct = 0

ProgressNext == HandlerStep \/ ReadGuard \/ ReadDivide

ProgressSpec == ProgressInit /\ [][ProgressNext]_progress

-----------------------------------------------------------------------------
(* tw_ota.h: the percentage is from 0 through 100. *)
ProgressInRange == pct \in 0 .. 100

(* Inductive strengthening for the single-threaded use: between handlers the
   count never exceeds the size, unless the size is not known. *)
CountFits ==
  /\ handler = "cleared" => s_expected_size = 0
  /\ handler = "idle" /\ s_state = "RECEIVING" /\ s_expected_size # 0
       => s_received <= s_expected_size

ReaderAlone == reader = "divide" => handler = "idle" /\ s_state = "RECEIVING" /\ s_expected_size # 0

PInv == ProgressTypeOK /\ CountFits /\ ReaderAlone /\ ProgressInRange
=============================================================================
