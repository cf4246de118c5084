------------------------------ MODULE MCHelpers ------------------------------
(***************************************************************************)
(* A small instance of Helpers for TLC: strings of the characters at the   *)
(* borders of the ranges that StrToHex (0 f F g and a blank) and uCase     *)
(* (A Z [ ` a z {) tell apart, and bytes on both sides of the sign.        *)
(***************************************************************************)
EXTENDS Helpers, SequencesExt

HexStrings    == SeqOf({48, 102, 70, 103, 32}, 4)
BorderStrings == SeqOf({65, 90, 91, 96, 97, 122, 123}, 3)
Appendices    == SeqOf({65, 127, 128, 255}, 2)
Literals      == SeqOf({32, 95, 116}, 3)
=============================================================================
