------------------------------ MODULE MCMSREdit ------------------------------
(***************************************************************************)
(* Small instances of MSREdit on its console for TLC.                      *)
(***************************************************************************)
EXTENDS MSREditScreen

ESC   == Scan(SCAN_ESC)
UP    == Scan(SCAN_UP)
DOWN  == Scan(SCAN_DOWN)
LEFT  == Scan(SCAN_LEFT)
ENTER == Char(CHAR_CARRIAGE_RETURN)

(* Digits at the borders of the menu's items and of the hexadecimal        *)
(* ranges, keys with a meaning, and Y for the keys without one.            *)
MenuKeys == {Char(48), Char(52), Char(53), Char(65), Char(102), Char(89),
             UP, DOWN, LEFT, ENTER, ESC}
LiveKeys == {Char(48), Char(52), Char(57), UP, ENTER, ESC}

NoResidue == {NUL}

TextLength(s) == Len(s)

(* A shell that has been used for a number of rows: prompts, and a line    *)
(* quoted from a file.  Its cursor is above the menu, on it, or at the end *)
(* of the screen.                                                          *)
Used(row) ==
  [texts |-> UNION {{Text(r, 0, "> "), Text(r, 2, "FS0: MSREdit.efi")} :
                    r \in 0..(row - 1)},
   row |-> row, col |-> 0]
UsedShells == {Used(1), Used(12), Used(24)}
OneShell   == {Used(1)}
=============================================================================
