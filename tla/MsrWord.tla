------------------------------- MODULE MsrWord -------------------------------
(***************************************************************************)
(* 64-bit register values and the bit operations the programs apply to     *)
(* them.  A value is the set of its 1-bits, so `|' is union, `&' is        *)
(* intersection and a mask is the set of the bits it keeps.                *)
(***************************************************************************)
EXTENDS Integers, Sequences

Word32 == 0..31
Word64 == 0..63

(* The halves a 64-bit value is split into, (uint32_t)val and val >> 32,   *)
(* and ((uint64_t)high << 32) | low, which joins them.                     *)
LowHalf(v)      == v \cap Word32
HighUnshifted(v) == v \ Word32                     \* a mutant: no >> 32
HighHalf(v)     == {b \in Word32 : b + 32 \in v}
Join(high, low) == low \cup {b \in Word64 : b - 32 \in high}

(* What the shared register holds is delivered in edx:eax and joined again *)
(* by AsmReadMsr64; AsmWriteMsr64 splits the value it is given in the same *)
(* way, and the register then holds edx:eax.                               *)
AsmReadMsr64(r) == Join(HighHalf(r), LowHalf(r))
WriteLowTwice(v) == Join(LowHalf(v), LowHalf(v))   \* a mutant: no >> 32
AsmWriteMsr64(v) == Join(HighHalf(v), LowHalf(v))

SET_ZERO    == {0}
ClearZero32 == Word32 \ {0}           \* a mutant: 0xFFFFFFFE
CLEAR_ZERO  == Word64 \ {0}           \* 0xFFFFFFFFFFFFFFFE

(* strRow prints bit 63 first: column c of the row is bit 64 - c.  (The    *)
(* mutant shifts an int, 1 << i, which the processor takes modulo 32.)     *)
strRowInt(data) == [c \in 1..64 |-> IF (64 - c) % 32 \in data THEN "1" ELSE "0"]
strRow(data)  == [c \in 1..64 |-> IF 64 - c \in data THEN "1" ELSE "0"]

(* The value a user reads off such a row.                                  *)
ShownValue(row) == {b \in Word64 : row[64 - b] = "1"}
=============================================================================
