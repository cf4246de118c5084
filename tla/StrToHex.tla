------------------------------ MODULE StrToHex ------------------------------
(***************************************************************************)
(* StrToHex(Input, Pos, NumChars) of test.c: reads a hexadecimal number    *)
(* out of a string.  Width stands for the 16 hexadecimal digits of a       *)
(* UINT64, which is also the largest NumChars that is accepted.            *)
(***************************************************************************)
EXTENDS HexDigit, Sequences, FiniteSets

CONSTANTS
  Strings,     \* the strings it is called with, sequences of characters
  Positions,   \* the values of Pos
  Counts,      \* the values of NumChars
  Width        \* hexadecimal digits in the result (16 in the code)

NULL == <<-1>>                        \* no string holds that character

VARIABLES
  pc, Input, NumChars,
  from,                               \* Pos as it was passed
  Pos, NumDone, retval

vars == <<pc, Input, NumChars, from, Pos, NumDone, retval>>

Init ==
  /\ pc = "call"
  /\ Input \in Strings \cup {NULL} /\ NumChars \in Counts
  /\ from \in Positions /\ Pos = from
  /\ NumDone = 0 /\ retval = 0

Rejected == Input = NULL \/ NumChars = 0 \/ NumChars > Width

Reject ==
  /\ pc = "call" /\ Rejected
  /\ pc' = "returned" /\ retval' = 0
  /\ UNCHANGED <<Input, NumChars, from, Pos, NumDone>>

Enter ==
  /\ pc = "call" /\ ~Rejected
  /\ pc' = "loop"
  /\ UNCHANGED <<Input, NumChars, from, Pos, NumDone, retval>>

(* What fits in n hexadecimal digits: 16 of them are the 2^64 of a UINT64.  *)
Power[n \in 0..Width] == IF n = 0 THEN 1 ELSE 16 * Power[n - 1]

(* Input[Pos], the terminating NUL included.                               *)
CharAtPos == IF Pos < Len(Input) THEN Input[Pos + 1] ELSE 0

Looping == pc = "loop" /\ Pos <= Len(Input) /\ NumDone < NumChars

DigitDecimal ==                       \* a mutant: retval *= 10
  /\ Looping /\ CharAtPos \in HexDigits
  /\ retval' = (retval * 10 + HexValue(CharAtPos)) % Power[Width]
  /\ NumDone' = NumDone + 1 /\ Pos' = Pos + 1
  /\ UNCHANGED <<pc, Input, NumChars, from>>

Digit ==
  /\ Looping /\ CharAtPos \in HexDigits
  /\ retval' = (retval * 16 + HexValue(CharAtPos)) % Power[Width]
  /\ NumDone' = NumDone + 1 /\ Pos' = Pos + 1
  /\ UNCHANGED <<pc, Input, NumChars, from>>

IgnoreStuck ==                        \* a mutant: Pos++ only after a digit
  /\ Looping /\ CharAtPos \notin HexDigits
  /\ UNCHANGED vars

Ignore ==
  /\ Looping /\ CharAtPos \notin HexDigits
  /\ Pos' = Pos + 1
  /\ UNCHANGED <<pc, Input, NumChars, from, NumDone, retval>>

Return ==
  /\ pc = "loop" /\ ~Looping
  /\ pc' = "returned"
  /\ UNCHANGED <<Input, NumChars, from, Pos, NumDone, retval>>

Returned == pc = "returned" /\ UNCHANGED vars

Program == Reject \/ Enter \/ Digit \/ Ignore \/ Return
Next    == Program \/ Returned
-----------------------------------------------------------------------------
(* The digits it is to read: the first NumChars hexadecimal digits at or   *)
(* after the position it was given.                                        *)
DigitPlaces == {p \in (from + 1)..Len(Input) : Input[p] \in HexDigits}
Wanted == {p \in DigitPlaces : Cardinality({q \in DigitPlaces : q < p}) < NumChars}

(* The number that those of them spell which are in the first p characters. *)
Spelled[p \in 0..Len(Input)] ==
  IF p = 0 THEN 0
  ELSE IF p \in Wanted THEN 16 * Spelled[p - 1] + HexValue(Input[p])
  ELSE Spelled[p - 1]

(* The function returns the number that those digits spell, or 0 for a     *)
(* call it rejects: invalid characters change neither the value nor the    *)
(* count, and 16 digits never lose the first one to an overflow.           *)
ValueOfDigits ==
  pc = "returned" =>
    retval = IF Rejected THEN 0 ELSE Spelled[Len(Input)]
=============================================================================
