------------------------------- MODULE Charset -------------------------------
(***************************************************************************)
(* Charset() of MSREdit: fills CHARSETZERO with the characters and CHARSET *)
(* with a pointer to each, so that CHARSET[n] is the one-character string  *)
(* of character n.  A pointer is an index into CHARSETZERO.                *)
(***************************************************************************)
EXTENDS CharsetTable, HexDigit

CONSTANT Slots                        \* pointers in CHARSET (128 in the code)
ASSUME SlotsAssumption == Slots \in Nat /\ Slots >= 95

NULL == -1                            \* a global pointer before it is set

VARIABLES i, CHARSETZERO, CHARSET

vars == <<i, CHARSETZERO, CHARSET>>

Init ==
  /\ i = 0
  /\ CHARSETZERO = [z \in 0..(2 * Slots - 1) |-> 0]
  /\ CHARSET = [n \in 0..(Slots - 1) |-> NULL]

StorePacked ==                        \* a mutant: CHARSETZERO[i], no terminators
  /\ i < Slots /\ i' = i + 1
  /\ CHARSETZERO' = [CHARSETZERO EXCEPT ![i] = Character(i)]
  /\ CHARSET' = [CHARSET EXCEPT ![i] = i]

Store ==
  /\ i < Slots /\ i' = i + 1
  /\ CHARSETZERO' = [CHARSETZERO EXCEPT ![2 * i] = Character(i)]
  /\ CHARSET' = [CHARSET EXCEPT ![i] = 2 * i]

Returned == i = Slots /\ UNCHANGED vars

Next == Store \/ Returned

Spec == Init /\ [][Next]_vars

-----------------------------------------------------------------------------
(* Every pointer set so far leads to its character and, within the array,  *)
(* to the NUL that ends the string: later stores never overwrite either.   *)
OneCharStrings ==
  \A n \in 0..(i - 1) :
    /\ CHARSET[n] \in 0..(2 * Slots - 2)
    /\ CHARSETZERO[CHARSET[n]] = Character(n)
    /\ CHARSETZERO[CHARSET[n] + 1] = 0

(* The 95 printable characters of ASCII are in the table once each, the    *)
(* slots after them are empty strings, and the label that menu() prints    *)
(* for a hexadecimal digit is the key that HexBoard reads as that digit.   *)
Printable == 32..126
TableComplete ==
  i = Slots =>
    /\ \A c \in Printable : \E n \in 0..94 : CHARSETZERO[CHARSET[n]] = c
    /\ \A m, n \in 0..94 : CHARSETZERO[CHARSET[m]] = CHARSETZERO[CHARSET[n]] => m = n
    /\ \A n \in 95..(Slots - 1) : CHARSETZERO[CHARSET[n]] = 0
    /\ \A n \in 0..15 : IsLabel(CHARSETZERO[CHARSET[n]], n)
=============================================================================
