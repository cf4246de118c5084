-------------------------- MODULE MCZeroProcHotFast --------------------------
(***************************************************************************)
(* A small instance of ZeroProcHotFast: every value over six bits, those   *)
(* at the borders of the two halves.                                       *)
(***************************************************************************)
EXTENDS ZeroProcHotFast

SixBits      == SUBSET {0, 1, 31, 32, 33, 63}
PlatformBits == {1, 33}
=============================================================================
