------------------------------ MODULE MCSettings ------------------------------
(* A name of one character fits, one of three does not, and neither does the
   compiled one; the POSIX table is full before every key is in it. *)
EXTENDS Settings

ShortAndLong == {<<1>>, <<1, 1, 2>>}
CompiledName == <<2, 2, 2>>
=============================================================================
