------------------------- MODULE ProcHotSwitchProofs -------------------------
(***************************************************************************)
(* The abstract read-modify-write keeps every bit but BD_PROCHOT and the   *)
(* platform's, however long the value it writes back has been waiting.     *)
(***************************************************************************)
EXTENDS ProcHotSwitch, TLAPS

(* The inductive invariant holds at the start and is kept by every step.   *)
LEMMA IInvInit == Init => IInv
<1> SUFFICES ASSUME Init PROVE IInv
  OBVIOUS
<1>1. TypeOK
  BY InitialAssumption DEF Init, TypeOK
<1> QED
  BY <1>1 DEF Init, IInv, TargetFresh, TargetBit

(* The platform's bits and bit 0 are not among the stable ones.            *)
LEMMA FirmwareKeepsStable == Firmware => reg' \cap Stable = reg \cap Stable
BY DEF Firmware, Stable

LEMMA BeginKeepsStable ==
  ASSUME NEW o \in {"set", "clear"}, Begin(o)
  PROVE  reg' \cap Stable = reg \cap Stable /\ target' \cap Stable = reg \cap Stable
BY DEF Begin, Stable

LEMMA IInvNext == IInv /\ [Next]_vars => IInv'
<1> SUFFICES ASSUME IInv, [Next]_vars PROVE IInv'
  OBVIOUS
<1> USE DEF IInv
<1>1. ASSUME NEW o \in {"set", "clear"}, Begin(o)
      PROVE  IInv'
  <2>1. 0 \in Word64
    BY DEF Word64
  <2>2. TypeOK'
    BY <1>1, <2>1 DEF TypeOK, Begin
  <2>3. TargetFresh'
    BY <1>1, BeginKeepsStable DEF TargetFresh
  <2>4. TargetBit'
    BY <1>1 DEF TargetBit, Begin
  <2> QED
    BY <2>2, <2>3, <2>4
<1>2. CASE Commit \/ Cancel
  BY <1>2 DEF Commit, Cancel, Finish, TypeOK, TargetFresh, TargetBit
<1>3. CASE Firmware
  <2>1. TypeOK'
    BY <1>3, FirmwareAssumption DEF TypeOK, Firmware
  <2>2. TargetFresh'
    BY <1>3, FirmwareKeepsStable DEF TargetFresh, Firmware
  <2>3. TargetBit'
    BY <1>3 DEF TargetBit, Firmware
  <2> QED
    BY <2>1, <2>2, <2>3
<1>4. CASE UNCHANGED vars
  BY <1>4 DEF vars, TypeOK, TargetFresh, TargetBit
<1> QED
  BY <1>1, <1>2, <1>3, <1>4 DEF Next

(* The value an operation is about to write stays fresh on the stable bits *)
(* and has BD_PROCHOT as the operation asks, in every reachable state.     *)
THEOREM SwitchInvariant == Spec => []IInv
BY IInvInit, IInvNext, PTL DEF Spec

(* No step, the write of a stale value included, changes a stable bit.     *)
THEOREM SwitchKeepsStableBits == Spec => StableBitsKept
<1>1. IInv /\ [Next]_vars => [reg' \cap Stable = reg \cap Stable]_vars
  <2> SUFFICES ASSUME IInv, [Next]_vars
               PROVE  [reg' \cap Stable = reg \cap Stable]_vars
    OBVIOUS
  <2>1. CASE Begin("set") \/ Begin("clear") \/ Cancel
    BY <2>1 DEF Begin, Cancel
  <2>2. CASE Commit
    BY <2>2 DEF Commit, Finish, IInv, TargetFresh
  <2>3. CASE Firmware
    BY <2>3, FirmwareKeepsStable
  <2> QED
    BY <2>1, <2>2, <2>3 DEF Next
<1> QED
  BY SwitchInvariant, <1>1, PTL DEF Spec, StableBitsKept
=============================================================================
