----------------------------- MODULE CharsetTable -----------------------------
(***************************************************************************)
(* The character that MSREdit.c, libMSREdit.c and t.c compute for a slot   *)
(* of their tables: the same sum of seven products in all three.           *)
(***************************************************************************)
EXTENDS Integers

(* (lo <= n && n <= hi) * (first + n - lo)                                 *)
In(n, lo, hi, first) == IF lo <= n /\ n <= hi THEN first + n - lo ELSE 0

CharacterOverlap(n) ==                \* a mutant: the boundary of a comment
  In(n, 0, 9, 48) + In(n, 10, 35, 65) + In(n, 36, 61, 97) + In(n, 62, 78, 32)
    + In(n, 78, 83, 91) + In(n, 84, 87, 123) + In(n, 88, 94, 58)

Character(n) ==
  In(n, 0, 9, 48) + In(n, 10, 35, 65) + In(n, 36, 61, 97) + In(n, 62, 77, 32)
    + In(n, 78, 83, 91) + In(n, 84, 87, 123) + In(n, 88, 94, 58)
=============================================================================
