-------------------------- MODULE MCZeroProcHotCalls --------------------------
(***************************************************************************)
(* A small instance of ZeroProcHotCalls for TLC.                           *)
(***************************************************************************)
EXTENDS ZeroProcHotCalls

(* A key for each way the program branches; Enter runs the item with the   *)
(* arrow, so that it stands for the digits but one.                        *)
Keys == {Scan(SCAN_ESC), Scan(SCAN_UP), Scan(SCAN_DOWN),
         Char(CHAR_CARRIAGE_RETURN), Char(48), Char(110)}

AnyResidue == {Scan(SCAN_ESC), Char(89)}

Values       == {{0, 31, 32}}
TextLength(s) == Len(s)

PlatformBits == {33}
=============================================================================
