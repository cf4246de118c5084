---------------------------- MODULE MSREditScreen ----------------------------
(***************************************************************************)
(* MSREdit on its console.  The menu is drawn once, at fixed places, over  *)
(* whatever the shell has left there: nothing clears the screen.  After    *)
(* that only the arrows are printed again, and at last the item's label.   *)
(***************************************************************************)
EXTENDS MSREdit, ConsoleOutput

CONSTANT Shell                         \* consoles the shell may hand over

VARIABLE shown                         \* efi_main and menu() have drawn the menu

screenVars == <<kq, board, pc, selected, current, keyint, arrows, i, key, con, shown>>

HEAD0 == "(c)2023 HoefkensJ            Zero BDProcHot 0v605        github.com/hoefkensj"

Digit   == <<"0", "1", "2", "3", "4">>
Item    == <<"Exit", "Change MSR", "Change FLAG", "Clear FLAG", "Set FLAG">>
CHARSET == [n \in Items |-> Digit[n + 1]]
menu    == [n \in Items |-> Item[n + 1]]
Title   == "Menu:"
Dot     == ". "
Blank   == "  "                        \* slct[0]
Arrow   == "> "                        \* slct[1]

(* The texts the program prints, and what they take of a row.              *)
Printed == {HEAD0, Title, Dot, Blank, Arrow}
             \cup {CHARSET[n] : n \in Items} \cup {menu[n] : n \in Items}
ASSUME WidthAssumption ==
  /\ \A s \in Printed : s \in STRING /\ Width(s) \in Nat
  /\ Width(Arrow) = 2 /\ Width(Blank) = 2 /\ Width(Dot) = 2
  /\ \A n \in Items : Width(CHARSET[n]) = 1
ASSUME RowsAssumption == Lines > 15    \* the menu's rows
ASSUME ShellAssumption ==              \* the cursor is where HEAD0 fits
  /\ Shell \subseteq Console
  /\ \A c \in Shell : c.row < Lines /\ c.col + Width(HEAD0) <= Columns

PrintThenMove(c, s, x, y) == MovedTo(Write(s)[c], x, y)   \* a mutant: swapped
PrintXY(c, s, x, y)       == Write(s)[MovedTo(c, x, y)]

(* Rounds 1 to 5 of a loop print the items 1, 2, 3, 4 and 0, from the top. *)
PrintRow(c, n) ==
  Write(CRLF)[Write(menu[n % 5])[Write(Dot)[PrintXY(c, CHARSET[n % 5], 3, 9 + n)]]]

printMenu(c) ==
  LET round[n \in 0..5] ==
        IF n = 0 THEN PrintXY(c, Title, 0, 8) ELSE PrintRow(round[n - 1], n)
  IN  round[5]

(* menu() marks an item.                                                   *)
PrintArrowOnly(c, n) ==                \* a mutant: the old arrow stays
  IF n % 5 \in Mark THEN PrintXY(c, Arrow, 0, 9 + n) ELSE c
PrintArrow(c, n) == PrintXY(c, IF n % 5 \in Mark THEN Arrow ELSE Blank, 0, 9 + n)

PrintArrows(c) ==
  LET round[n \in 0..5] == IF n = 0 THEN c ELSE PrintArrow(round[n - 1], n)
  IN  round[5]

ScreenInit == Init /\ con \in Shell /\ shown = FALSE

Start ==
  /\ ~shown /\ shown' = TRUE
  /\ con' = printMenu(Write(CRLF)[Write(HEAD0)[con]])
  /\ UNCHANGED vars

SelectShown ==
  /\ shown /\ Select
  /\ con' = PrintArrows(con)
  /\ UNCHANGED shown

(* Only a key that ends menu() is followed by output, that of its result.  *)
PrintItem(n) == Write(CHARSET[n])[con]

KeyShown ==
  /\ OwnEdits \/ OwnReturns \/ LibRejects \/ LibReturns
  /\ con' = IF pc' = "poll" THEN PrintItem(selected') ELSE con
  /\ UNCHANGED shown

Silent == (PollKey \/ PollOver) /\ UNCHANGED <<con, shown>>

ScreenProgram == Start \/ SelectShown \/ KeyShown \/ Silent

ScreenNext ==
  \/ ScreenProgram
  \/ UserTypes /\ UNCHANGED <<con, shown>>
  \/ Terminated /\ UNCHANGED <<con, shown>>

ScreenSpec == ScreenInit /\ [][ScreenNext]_screenVars

FairScreenSpec == ScreenSpec /\ WF_screenVars(ScreenProgram)
-----------------------------------------------------------------------------
(* The menu's labels stand whole while it waits and after it returned: the *)
(* arrows and the result that are printed beside them, where the cursor    *)
(* happens to stand, spare them, and the result is the item that menu()    *)
(* returned.  This is not to say that a row shows nothing else.            *)
Row(n) == IF n = 0 THEN 14 ELSE 9 + n
MenuShown ==
  /\ shown => \A n \in Items : /\ At(Row(n), 3, CHARSET[n])
                               /\ At(Row(n), 4, Dot)
                               /\ At(Row(n), 6, menu[n])
  /\ pc \in {"poll", "done"} => At(Row(0), 2, CHARSET[selected])

(* What a row of the menu shows besides: of the shell's text, and of HEAD0 *)
(* where that was printed on the row, only what stands behind the label    *)
(* and, once the arrows have been drawn, in the column between the arrow   *)
(* and the digit.  It stays there for ever: "F0. ExitEdit.efi".            *)
Labels(n)  == {Text(Row(n), 3, CHARSET[n]), Text(Row(n), 4, Dot), Text(Row(n), 6, menu[n])}
Pointer(n) == Text(Row(n), 0, IF n \in arrows THEN Arrow ELSE Blank)
Results    == {m \in Items : pc \in {"poll", "done"} /\ m = selected}
MenuTexts(n) ==
  Labels(n) \cup {Pointer(n)} \cup {Text(Row(0), 2, CHARSET[m]) : m \in Results}

Span(p) == p.from..(p.to - 1)
RemainsBeside ==
  shown => \A n \in Items : \A p \in {q \in con.texts : q.row = Row(n)} :
    \A x \in Span(p) :
      \/ p \in MenuTexts(n)
      \/ x = 2 \/ x >= 6 + Width(menu[n])
      \/ x < 2 /\ pc = "select"

(* The arrows on the screen are those menu() means to show: no arrow of an *)
(* earlier item, and none that the shell had left there, stays.            *)
ArrowsShown == pc # "select" => arrows = {n \in Items : At(Row(n), 0, Arrow)}
=============================================================================
