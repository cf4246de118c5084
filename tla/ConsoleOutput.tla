---------------------------- MODULE ConsoleOutput ----------------------------
(***************************************************************************)
(* The firmware's text console as the programs use it through              *)
(* SIMPLE_TEXT_OUTPUT_INTERFACE.  What can be read on the screen is a set  *)
(* of texts with their places, or what is left of them where others were   *)
(* written over them.  External: the code is the firmware's.               *)
(***************************************************************************)
EXTENDS Integers, Sequences

CONSTANTS
  Columns, Lines,     \* size of the screen (80 x 25 in mode 0)
  Width(_)            \* columns a text takes

ASSUME ScreenAssumption == Columns \in Nat \ {0} /\ Lines \in Nat \ {0}

VARIABLE con   \* the texts on the screen, and the row and column of the cursor

CRLF == "\r\n"

(* A text that was written at a column, and the columns it is still on.    *)
Piece == [row : Nat, col : Nat, text : STRING, from : Nat, to : Nat]
Text(row, col, s) ==
  [row |-> row, col |-> col, text |-> s, from |-> col, to |-> col + Width(s)]
Console == [texts : SUBSET Piece, row : Nat, col : Nat]

Screen(texts, row, col) == [texts |-> texts, row |-> row, col |-> col]
Cleared(row) == Screen({}, row, 0)

(* A new line at the bottom scrolls: the first row is lost.                *)
Scrolled(texts) == {[p EXCEPT !.row = @ - 1] : p \in {q \in texts : q.row > 0}}
NewLine(c) == IF c.row + 1 < Lines THEN Screen(c.texts, c.row + 1, 0)
                                   ELSE Screen(Scrolled(c.texts), c.row, 0)

(* A text takes the columns it is written on from what stood there; what   *)
(* stands left and right of it stays.                                      *)
Covered(p, c, s) == p.row = c.row /\ p.from < c.col + Width(s) /\ c.col < p.to
Spared(p, c, s) ==
  IF ~Covered(p, c, s) THEN {p}
  ELSE {q \in {[p EXCEPT !.to = c.col], [p EXCEPT !.from = c.col + Width(s)]} :
          q.from < q.to}
Remains(c, s) == UNION {Spared(p, c, s) : p \in c.texts}

(* What a line end or a text does to a console.                            *)
Write(s) ==
  [c \in Console |->
     IF s = CRLF THEN NewLine(c)
     ELSE Screen(Remains(c, s) \cup {Text(c.row, c.col, s)},
                 c.row, c.col + Width(s))]

(* A string is the sequence of its line ends and the texts between them.   *)
Written(c, string) ==
  LET after[n \in 0..Len(string)] ==
        IF n = 0 THEN c ELSE Write(string[n])[after[n - 1]]
  IN  after[Len(string)]
OutputString(string) == con' = Written(con, string)

(* Reset(FALSE) clears the screen.                                         *)
Reset == con' = Cleared(0)

(* SetCursorPosition, for a place on the screen.                           *)
MovedTo(c, col, row) == Screen(c.texts, row, col)

(* What stands, from its first to its last column, at a place.             *)
At(row, col, s) == Text(row, col, s) \in con.texts
=============================================================================
