--------------------------- MODULE FirmwareUpdate ---------------------------
(***************************************************************************)
(* What the OTA receiver promises, without blocks, handles or replies.     *)
(*                                                                         *)
(* The device has one image the next reset starts (boot) and one spare     *)
(* area.  A hub makes an offer: a size and, if it likes, a digest.  The    *)
(* only way to change the image that boots is to install, in one step, an  *)
(* image that fits the offer standing at that moment; the image it         *)
(* replaces stays in the spare area until the new one is confirmed, and a  *)
(* reset before that goes back to it.                                      *)
(***************************************************************************)
EXTENDS Naturals, Sequences

CONSTANTS
  Byte,       \* the alphabet of firmware images
  NoDigest,   \* an offer that names no digest
  NoOffer     \* no update is under way

VARIABLES
  boot,       \* the image the next reset starts
  spare,      \* what the other slot holds
  trial,      \* "none", "armed" (installed, not yet started), "running"
  offer       \* the offer being served, or NoOffer

vars == <<boot, spare, trial, offer>>

(* A digest stands for the image it was computed from. *)
Offers == [size : Nat, digest : Seq(Byte) \cup {NoDigest}]

Fits(image, o) ==
  /\ Len(image) = o.size
  /\ o.digest # NoDigest => image = o.digest

-----------------------------------------------------------------------------
Init ==
  /\ boot \in Seq(Byte)
  /\ spare \in Seq(Byte)
  /\ trial = "none"
  /\ offer = NoOffer

(* An offer is taken up only by firmware that is itself confirmed. *)
Offer ==
  /\ trial = "none"
  /\ offer' \in Offers
  /\ spare' \in Seq(Byte)
  /\ UNCHANGED <<boot, trial>>

(* The spare area may be rewritten at any time when it is nobody's fallback. *)
Rewrite ==
  /\ trial = "none"
  /\ spare' \in Seq(Byte)
  /\ UNCHANGED <<boot, trial, offer>>

Withdraw ==
  /\ offer' = NoOffer
  /\ trial = "none"
  /\ spare' \in Seq(Byte)
  /\ UNCHANGED <<boot, trial>>

Install ==
  /\ offer # NoOffer
  /\ trial = "none"
  /\ Fits(spare, offer)
  /\ boot' = spare
  /\ spare' = boot
  /\ trial' = "armed"
  /\ offer' = NoOffer

Confirm ==
  /\ trial = "running"
  /\ trial' = "none"
  /\ UNCHANGED <<boot, spare, offer>>

(* The first reset starts the new image, the next one gives it up. *)
Start ==
  /\ trial = "armed"
  /\ trial' = "running"
  /\ offer' = NoOffer
  /\ UNCHANGED <<boot, spare>>

Revert ==
  /\ trial = "running"
  /\ trial' = "none"
  /\ boot' = spare
  /\ spare' = boot
  /\ offer' = NoOffer

Next ==
  \/ Offer
  \/ Rewrite
  \/ Withdraw
  \/ Install
  \/ Confirm
  \/ Start
  \/ Revert

Spec == Init /\ [][Next]_vars
=============================================================================
