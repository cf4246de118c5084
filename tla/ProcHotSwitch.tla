---------------------------- MODULE ProcHotSwitch ----------------------------
(***************************************************************************)
(* What both programs promise about MSR 0x1FC, without consoles, menus or  *)
(* messages: an operation reads the register once, fixes the value it will *)
(* write, and later either writes that value or gives up.  Meanwhile the   *)
(* platform firmware may change some bits of the register on its own.      *)
(***************************************************************************)
EXTENDS MsrRegister

VARIABLES
  reg,      \* MSR 0x1FC
  op,       \* the operation under way: "idle", "set" or "clear"
  target    \* the value that operation is going to write

vars == <<reg, op, target>>

Init == reg \in InitialValues /\ op = "idle" /\ target = {}

Begin(o) ==
  /\ op = "idle"
  /\ op' = o
  /\ target' = IF o = "set" THEN reg \cup {0} ELSE reg \ {0}
  /\ UNCHANGED reg

Finish == op # "idle" /\ op' = "idle" /\ target' = {}
Commit == Finish /\ reg' = target
Cancel == Finish /\ UNCHANGED reg

(* The platform gives its own bits any value.                              *)
Firmware ==
  /\ \E S \in SUBSET FirmwareBits : reg' = (reg \ FirmwareBits) \cup S
  /\ UNCHANGED <<op, target>>

Next == Begin("set") \/ Begin("clear") \/ Commit \/ Cancel \/ Firmware

Spec == Init /\ [][Next]_vars

-----------------------------------------------------------------------------
TypeOK ==
  /\ reg \in SUBSET Word64
  /\ op \in {"idle", "set", "clear"}
  /\ target \in SUBSET Word64

Stable == Word64 \ (FirmwareBits \cup {0})

(* While an operation is under way, the value it is going to write agrees  *)
(* with the register on every bit that is neither BD_PROCHOT nor the       *)
(* platform's: this is what makes writing back a stale value harmless.     *)
TargetFresh == op # "idle" => target \cap Stable = reg \cap Stable

(* The value to be written has BD_PROCHOT as the operation asks.           *)
TargetBit == /\ op = "set" => 0 \in target
             /\ op = "clear" => 0 \notin target

IInv == TypeOK /\ TargetFresh /\ TargetBit

(* A read-modify-write of BD_PROCHOT never changes another bit, except     *)
(* that it may put a bit of the platform's back to what it was when the    *)
(* operation read the register (the lost update the programs allow).       *)
StableBitsKept == [][reg' \cap Stable = reg \cap Stable]_vars
=============================================================================
