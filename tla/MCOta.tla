------------------------------- MODULE MCOta --------------------------------
(***************************************************************************)
(* Small instance of Ota for TLC.  Two byte values and images of at most   *)
(* two bytes let a transfer take one or two blocks, end early, overrun,    *)
(* carry the wrong bytes, and be declared with the wrong size or digest.   *)
(***************************************************************************)
EXTENDS Ota

CONSTANTS a, b

MCBlocks == {<<>>, <<a>>, <<b>>, <<a, b>>}
MCDigests == {<<a, b>>, <<b>>}
MCFactoryImage == <<a>>
=============================================================================
