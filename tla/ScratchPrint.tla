----------------------------- MODULE ScratchPrint -----------------------------
(***************************************************************************)
(* t.c: GENERATE_CHARSET fills a table, and print(string) writes a string  *)
(* to the terminal, unit by unit.  The string is a wide literal cast to    *)
(* CHAR16: build.simple.sh compiles without -fshort-wchar, so that each    *)
(* character is four bytes, two units, of which the second is 0.           *)
(***************************************************************************)
EXTENDS CharsetTable, Sequences

CONSTANT Texts                        \* ASCII texts of the literal

VARIABLES
  pc, i,
  text,                               \* the literal's characters
  CHARSET, len,
  printed                             \* the units given to printf

vars == <<pc, i, text, CHARSET, len, printed>>

(* string[n], up to the second unit of the terminator.                     *)
Unit(n) == IF n % 2 = 0 /\ n \div 2 < Len(text) THEN text[n \div 2 + 1] ELSE 0
InText(n) == n < 2 * Len(text) + 2

Init ==
  /\ pc = "generate" /\ i = 0 /\ text \in Texts
  /\ CHARSET = [n \in 0..127 |-> 0] /\ len = 0 /\ printed = <<>>

GENERATE_CHARSET ==
  /\ pc = "generate"
  /\ IF i < 128
       THEN /\ CHARSET' = [CHARSET EXCEPT ![i] = Character(i)]
            /\ i' = i + 1 /\ UNCHANGED pc
       ELSE pc' = "length" /\ i' = 0 /\ UNCHANGED CHARSET
  /\ UNCHANGED <<text, len, printed>>

StepOne == 1                          \* a mutant: len++
StepOf  == 2                          \* sizeof(string[len])

length ==
  /\ pc = "length" /\ Unit(len) # 0
  /\ len' = len + StepOf
  /\ UNCHANGED <<pc, i, text, CHARSET, printed>>

lengthEnds ==
  /\ pc = "length" /\ Unit(len) = 0
  /\ pc' = "print"
  /\ UNCHANGED <<i, text, CHARSET, len, printed>>

(* i is a UINT16, len an int.                                              *)
print ==
  /\ pc = "print" /\ i < len
  /\ printed' = Append(printed, Unit(i)) /\ i' = (i + 1) % 65536
  /\ UNCHANGED <<pc, text, CHARSET, len>>

Return ==
  /\ pc = "print" /\ i >= len
  /\ pc' = "returned"
  /\ UNCHANGED <<i, text, CHARSET, len, printed>>

Returned == pc = "returned" /\ UNCHANGED vars

Next == GENERATE_CHARSET \/ length \/ lengthEnds \/ print \/ Return \/ Returned
-----------------------------------------------------------------------------
(* The size of a unit is added to an index of units, and the string has    *)
(* twice the units it seems to: between the two, no unit behind the string *)
(* is read, and what reaches the terminal is the text, each character      *)
(* followed by a NUL.                                                      *)
PrintsText ==
  /\ InText(len)
  /\ pc = "returned" =>
       /\ Len(printed) = 2 * Len(text)
       /\ \A n \in 1..Len(text) : printed[2 * n - 1] = text[n] /\ printed[2 * n] = 0
=============================================================================
