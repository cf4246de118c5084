---------------------------- MODULE MsrWordProofs ----------------------------
(***************************************************************************)
(* Facts about 64-bit values that the proofs of both programs rest on.     *)
(***************************************************************************)
EXTENDS MsrWord, TLAPS

(* Splitting a value at bit 32 and joining the halves gives it back.       *)
LEMMA SplitJoin ==
  ASSUME NEW v \in SUBSET Word64
  PROVE  Join(HighHalf(v), LowHalf(v)) = v
<1>1. ASSUME NEW b \in v
      PROVE  b \in Join(HighHalf(v), LowHalf(v))
  <2>1. b \in 0..63
    BY DEF Word64
  <2>2. CASE b <= 31
    BY <2>1, <2>2 DEF Join, LowHalf, Word32
  <2>3. CASE b > 31
    <3>1. b - 32 \in Word32 /\ (b - 32) + 32 = b
      BY <2>1, <2>3 DEF Word32
    <3>2. b - 32 \in HighHalf(v)
      BY <3>1 DEF HighHalf
    <3> QED
      BY <3>2 DEF Join
  <2> QED
    BY <2>1, <2>2, <2>3
<1>2. ASSUME NEW b \in Join(HighHalf(v), LowHalf(v))
      PROVE  b \in v
  <2>1. CASE b \in LowHalf(v)
    BY <2>1 DEF LowHalf
  <2>2. CASE b \in Word64 /\ b - 32 \in HighHalf(v)
    <3>1. (b - 32) + 32 \in v
      BY <2>2 DEF HighHalf
    <3>2. (b - 32) + 32 = b
      BY <2>2 DEF Word64
    <3> QED
      BY <3>1, <3>2
  <2> QED
    BY <1>2, <2>1, <2>2 DEF Join
<1> QED
  BY <1>1, <1>2

(* So rdmsr delivers the register and wrmsr stores the value given.        *)
LEMMA ReadWriteExact ==
  ASSUME NEW v \in SUBSET Word64
  PROVE  AsmReadMsr64(v) = v /\ AsmWriteMsr64(v) = v
BY SplitJoin DEF AsmReadMsr64, AsmWriteMsr64

(* The halves are 32-bit values.                                           *)
LEMMA HalvesType ==
  ASSUME NEW v \in SUBSET Word64
  PROVE  LowHalf(v) \in SUBSET Word32 /\ HighHalf(v) \in SUBSET Word32
BY DEF LowHalf, HighHalf

LEMMA JoinType ==
  ASSUME NEW high \in SUBSET Word32, NEW low \in SUBSET Word32
  PROVE  Join(high, low) \in SUBSET Word64
<1>1. Word32 \subseteq Word64
  BY DEF Word32, Word64
<1> QED
  BY <1>1 DEF Join

(* Clearing bit 0 in the low half clears it in the whole.                  *)
LEMMA MaskLowHalf ==
  ASSUME NEW high \in SUBSET Word32, NEW low \in SUBSET Word32
  PROVE  Join(high, low \cap (Word32 \ {0})) = Join(high, low) \ {0}
<1>1. 0 - 32 \notin high
  BY DEF Word32
<1> QED
  BY <1>1 DEF Join

(* What a user reads off a row of digits is the value it was printed from. *)
LEMMA RowShowsValue ==
  ASSUME NEW v \in SUBSET Word64
  PROVE  strRow(v) \in [1..64 -> {"0", "1"}] /\ ShownValue(strRow(v)) = v
<1>1. strRow(v) \in [1..64 -> {"0", "1"}]
  BY DEF strRow
<1>2. ASSUME NEW b \in Word64
      PROVE  strRow(v)[64 - b] = "1" <=> b \in v
  <2>1. 64 - b \in 1..64 /\ 64 - (64 - b) = b
    BY DEF Word64
  <2>2. strRow(v)[64 - b] = IF 64 - (64 - b) \in v THEN "1" ELSE "0"
    BY <2>1 DEF strRow
  <2> QED
    BY <2>1, <2>2
<1>3. ShownValue(strRow(v)) = {b \in Word64 : b \in v}
  BY <1>2 DEF ShownValue
<1> QED
  BY <1>1, <1>3
=============================================================================
