------------------------ MODULE ZeroProcHotFastProofs ------------------------
(***************************************************************************)
(* The console-less program leaves BD_PROCHOT clear, and is the clearing   *)
(* half of ProcHotSwitch, for every value of the register and every set of *)
(* bits the platform owns.                                                 *)
(***************************************************************************)
EXTENDS ZeroProcHotFast, MsrWordProofs

(* While a write is pending the globals hold a register value with         *)
(* BD_PROCHOT set; from the write on the register agrees with them, and    *)
(* has the bit clear, the platform's bits aside.                           *)
GlobalsFresh ==
  /\ pc = "readback" /\ 0 \notin FirmwareBits => 0 \notin reg
  /\ pc = "done" /\ 0 \notin FirmwareBits =>
       0 \notin reg /\ Join(high, low) \ FirmwareBits = reg \ FirmwareBits

IInv == TypeOK /\ GlobalsFresh

LEMMA IInvInit == Init => IInv
<1> SUFFICES ASSUME Init PROVE IInv
  OBVIOUS
<1>1. TypeOK
  BY InitialAssumption DEF Init, TypeOK
<1> QED
  BY <1>1 DEF Init, IInv, GlobalsFresh

(* rdmsr leaves in the globals the two halves of the register.             *)
LEMMA RdmsrExact ==
  ASSUME reg \in SUBSET Word64, Rdmsr
  PROVE  /\ low' \in SUBSET Word32 /\ high' \in SUBSET Word32
         /\ Join(high', low') = reg /\ UNCHANGED reg
         /\ 0 \in low' <=> 0 \in reg
<1>1. low' = LowHalf(reg) /\ high' = HighHalf(reg) /\ UNCHANGED reg
  BY DEF Rdmsr
<1>2. 0 \in LowHalf(reg) <=> 0 \in reg
  BY DEF LowHalf, Word32
<1> QED
  BY <1>1, <1>2, SplitJoin, HalvesType

(* The value that wrmsr stores is that of the globals with bit 0 clear.    *)
LEMMA WriteValue ==
  ASSUME TypeOK
  PROVE  /\ Join(high, low \cap zerobitzero) \in SUBSET Word64
         /\ Join(high, low \cap zerobitzero) = Join(high, low) \ {0}
<1>1. low \cap zerobitzero \in SUBSET Word32
  BY DEF TypeOK
<1> QED
  BY <1>1, JoinType, MaskLowHalf DEF TypeOK, zerobitzero

LEMMA IInvNext == IInv /\ [Next]_vars => IInv'
<1> SUFFICES ASSUME IInv, [Next]_vars PROVE IInv'
  OBVIOUS
<1> USE DEF IInv
<1>1. CASE ReadAndTest
  <2>1. Rdmsr /\ pc' = IF 0 \in low' THEN "write" ELSE "done"
    BY <1>1 DEF ReadAndTest
  <2>2. /\ low' \in SUBSET Word32 /\ high' \in SUBSET Word32
        /\ Join(high', low') = reg /\ UNCHANGED reg
        /\ 0 \in low' <=> 0 \in reg
    BY <2>1, RdmsrExact DEF TypeOK
  <2> QED
    BY <2>1, <2>2 DEF TypeOK, GlobalsFresh
<1>2. CASE AsmWriteMsrFast
  <2>1. reg' \in SUBSET Word64 /\ 0 \notin reg'
    BY <1>2, WriteValue DEF AsmWriteMsrFast
  <2> QED
    BY <1>2, <2>1 DEF AsmWriteMsrFast, TypeOK, GlobalsFresh
<1>3. CASE ReadBack
  <2>1. Rdmsr /\ pc = "readback" /\ pc' = "done"
    BY <1>3 DEF ReadBack
  <2>2. /\ low' \in SUBSET Word32 /\ high' \in SUBSET Word32
        /\ Join(high', low') = reg /\ UNCHANGED reg
    BY <2>1, RdmsrExact DEF TypeOK
  <2> QED
    BY <2>1, <2>2 DEF TypeOK, GlobalsFresh
<1>4. CASE Firmware
  <2>1. PICK S \in SUBSET FirmwareBits : reg' = (reg \ FirmwareBits) \cup S
    BY <1>4 DEF Firmware
  <2>2. pc # "done" /\ UNCHANGED <<pc, low, high>>
    BY <1>4 DEF Firmware
  <2>3. reg' \in SUBSET Word64
    BY <2>1, FirmwareAssumption DEF TypeOK
  <2>4. 0 \notin FirmwareBits /\ 0 \notin reg => 0 \notin reg'
    BY <2>1
  <2> QED
    BY <2>2, <2>3, <2>4 DEF TypeOK, GlobalsFresh
<1>5. CASE Terminated \/ UNCHANGED vars
  BY <1>5 DEF Terminated, vars, TypeOK, GlobalsFresh
<1> QED
  BY <1>1, <1>2, <1>3, <1>4, <1>5 DEF Next, Program

(* On return BD_PROCHOT is clear, whether or not it was set on entry, and  *)
(* the globals hold the register.                                          *)
THEOREM DriverEndsCleared == Spec => []EndsCleared
<1>1. IInv => EndsCleared
  BY DEF IInv, GlobalsFresh, EndsCleared
<1> QED
  BY <1>1, IInvInit, IInvNext, PTL DEF Spec

(* The halves of the register stay words of 32 bits through every split    *)
(* and join.                                                               *)
THEOREM DriverTypes == Spec => []TypeOK
<1>1. IInv => TypeOK
  BY DEF IInv
<1> QED
  BY <1>1, IInvInit, IInvNext, PTL DEF Spec

LEMMA SwitchInit == Init => Switch!Init
BY DEF Init, Switch!Init

LEMMA SwitchNext == IInv /\ [Next]_vars => [Switch!Next]_(Switch!vars)
<1> SUFFICES ASSUME IInv, [Next]_vars
             PROVE  [Switch!Next]_(Switch!vars)
  OBVIOUS
<1> USE DEF IInv
<1>1. CASE ReadAndTest
  <2>1. pc = "start" /\ Rdmsr /\ pc' = IF 0 \in low' THEN "write" ELSE "done"
    BY <1>1 DEF ReadAndTest
  <2>2. TypeOK'
    BY IInvNext
  <2>3. Join(high', low') = reg /\ UNCHANGED reg
    BY <2>1, RdmsrExact DEF TypeOK
  <2>4. CASE 0 \in low'
    <3>1. Join(high', low' \cap zerobitzero) = reg \ {0}
      BY <2>2, <2>3, MaskLowHalf DEF TypeOK, zerobitzero
    <3>2. Switch!Begin("clear")
      BY <2>1, <2>3, <2>4, <3>1 DEF Switch!Begin
    <3> QED
      BY <3>2 DEF Switch!Next
  <2>5. CASE 0 \notin low'
    BY <2>1, <2>3, <2>5 DEF Switch!vars
  <2> QED
    BY <2>4, <2>5
<1>2. CASE AsmWriteMsrFast
  <2>1. Switch!Commit
    BY <1>2 DEF AsmWriteMsrFast, Switch!Commit, Switch!Finish
  <2> QED
    BY <2>1 DEF Switch!Next
<1>3. CASE ReadBack
  BY <1>3 DEF ReadBack, Rdmsr, Switch!vars
<1>4. CASE Firmware
  <2>1. Switch!Firmware
    BY <1>4 DEF Firmware, Switch!Firmware
  <2> QED
    BY <2>1 DEF Switch!Next
<1>5. CASE Terminated \/ UNCHANGED vars
  BY <1>5 DEF Terminated, vars, Switch!vars
<1> QED
  BY <1>1, <1>2, <1>3, <1>4, <1>5 DEF Next, Program

(* The driver is a ProcHotSwitch that only ever begins a clear.            *)
THEOREM DriverImplementsSwitch == Spec => ImplementsSwitch
<1>1. Spec => []IInv
  BY IInvInit, IInvNext, PTL DEF Spec
<1> QED
  BY SwitchInit, SwitchNext, <1>1, PTL DEF Spec, ImplementsSwitch, Switch!Spec
=============================================================================
