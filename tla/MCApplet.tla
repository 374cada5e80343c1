------------------------------ MODULE MCApplet --------------------------------
(* Images of up to three bytes in up to three blocks; sizes that are missing,
   too small, right, too large for the data and too large for the device. *)
EXTENDS Applet

CONSTANTS a, b

MCBlocks == {<<>>, <<a>>, <<a, b>>}

(* Images and payloads that are not empty. *)
MCPayloads == {<<a>>, <<b, a>>}

(* A partition that is a file. *)
NewByte(old, new) == new
=============================================================================
