--------------------------- MODULE ZeroProcHotFast ---------------------------
(***************************************************************************)
(* ZeroProcHot_fast: the program without a console.  Loaded as a driver,   *)
(* it clears BD_PROCHOT if it is set and returns.  Its two halves of the   *)
(* register are globals that every rdmsr overwrites.                       *)
(***************************************************************************)
EXTENDS MsrRegister

VARIABLES reg, pc, low, high

vars == <<reg, pc, low, high>>

zerobitnone == Word32                           \* a mutant: 4294967295
zerobitzero == Word32 \ {0}                     \* 4294967294

(* The globals of an image start as zeros.                                 *)
Init == reg \in InitialValues /\ pc = "start" /\ low = {} /\ high = {}

(* rdmsr: both halves land in the globals.                                 *)
Rdmsr == low' = LowHalf(reg) /\ high' = HighHalf(reg) /\ UNCHANGED reg

(* if (AsmReadMsr64() & 1) decides on the low half just read.              *)
TestAndRead ==                 \* a mutant: tests what low held before
  /\ pc = "start" /\ Rdmsr
  /\ pc' = IF 0 \in low THEN "write" ELSE "done"

ReadAndTest ==
  /\ pc = "start" /\ Rdmsr
  /\ pc' = IF 0 \in low' THEN "write" ELSE "done"

AsmWriteMsrFast ==
  /\ pc = "write" /\ pc' = "readback"
  /\ reg' = Join(high, low \cap zerobitzero)
  /\ UNCHANGED <<low, high>>

(* AsmWriteMsr64 returns what the register holds after the write.          *)
ReadBackRetry ==               \* a mutant: writes until it reads the same
  /\ pc = "readback" /\ Rdmsr
  /\ pc' = IF low' = low \cap zerobitzero /\ high' = high THEN "done" ELSE "write"

ReadBack == pc = "readback" /\ Rdmsr /\ pc' = "done"

(* System management code may run between any two instructions.            *)
Firmware ==
  /\ pc # "done"
  /\ \E S \in SUBSET FirmwareBits : reg' = (reg \ FirmwareBits) \cup S
  /\ UNCHANGED <<pc, low, high>>

Terminated == pc = "done" /\ UNCHANGED vars

Program == ReadAndTest \/ AsmWriteMsrFast \/ ReadBack

Next == Program \/ Firmware \/ Terminated

Spec == Init /\ [][Next]_vars

FairSpec == Spec /\ WF_vars(Program)

-----------------------------------------------------------------------------
TypeOK ==
  /\ reg \in SUBSET Word64
  /\ pc \in {"start", "write", "readback", "done"}
  /\ low \in SUBSET Word32 /\ high \in SUBSET Word32

(* Abstractly an operation that only ever clears; it is under way between  *)
(* the rdmsr that finds the bit set and the wrmsr.                         *)
Switch == INSTANCE ProcHotSwitch WITH
  op     <- IF pc = "write" THEN "clear" ELSE "idle",
  target <- IF pc = "write" THEN Join(high, low \cap zerobitzero) ELSE {}

ImplementsSwitch == Switch!Spec

(* When the program returns, BD_PROCHOT is clear whichever way it took,    *)
(* and the globals hold the register as it is, the platform's bits aside.  *)
EndsCleared ==
  pc = "done" /\ 0 \notin FirmwareBits =>
    /\ 0 \notin reg
    /\ Join(high, low) \ FirmwareBits = reg \ FirmwareBits

(* The driver returns to the boot manager, whatever the platform does.     *)
Returns == <>(pc = "done")
=============================================================================
