---------------------------- MODULE MCZeroProcHot ----------------------------
(***************************************************************************)
(* Small instances of ZeroProcHot for TLC.                                 *)
(***************************************************************************)
EXTENDS ZeroProcHot

ESC   == Scan(SCAN_ESC)
UP    == Scan(SCAN_UP)
DOWN  == Scan(SCAN_DOWN)
ENTER == Char(CHAR_CARRIAGE_RETURN)
Digit(d) == Char(48 + d)

(* Every key the program tells apart: '`' and N behave as Esc and n where  *)
(* they matter; Y stands for every key without a meaning.                  *)
AllKeys  == {ESC, UP, DOWN, ENTER, Char(96), Char(110), Char(78), Char(89)}
              \cup {Digit(d) : d \in 0..3}
LiveKeys == {ESC, Digit(1), Digit(2), Digit(3), Char(89)}
EscOnly  == {ESC}

NoResidue  == {NUL}
EscResidue == {NUL, ESC}
AnyResidue == {NUL, ESC, Char(89)}

(* Register values that differ in bit 0, in the halves a 64-bit value is   *)
(* split into and at their borders.                                        *)
SomeValues == {{}, {0}, {1, 31, 32, 63}, {0, 1, 31, 63}}
OneValue   == {{0, 31, 32}}

PlatformBits == {1, 32}
NoBits       == {}
=============================================================================
