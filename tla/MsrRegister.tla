----------------------------- MODULE MsrRegister -----------------------------
(***************************************************************************)
(* MSR 0x1FC as the programs find it: what it holds when one is loaded,    *)
(* and which of its bits the platform changes behind the program.          *)
(***************************************************************************)
EXTENDS MsrWord

CONSTANTS
  InitialValues,   \* what the register may hold when the program is loaded
  FirmwareBits     \* bits that the platform changes behind the program

ASSUME InitialAssumption  == InitialValues \subseteq SUBSET Word64
ASSUME FirmwareAssumption == FirmwareBits \subseteq Word64
=============================================================================
