------------------------------- MODULE HexDigit -------------------------------
(***************************************************************************)
(* The characters that HexBoard reads as a hexadecimal digit, and the      *)
(* digit it makes of each.                                                 *)
(***************************************************************************)
EXTENDS Integers

HexDigits   == 48..57 \cup 65..70 \cup 97..102        \* '0'-'9' 'A'-'F' 'a'-'f'
HexValue(c) == IF c <= 57 THEN c - 48 ELSE IF c <= 70 THEN c - 55 ELSE c - 87

IsLabel(c, n) == c \in HexDigits /\ HexValue(c) = n
=============================================================================
