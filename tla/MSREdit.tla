------------------------------- MODULE MSREdit -------------------------------
(***************************************************************************)
(* MSREdit: a menu of five items that is operated through HexBoard, a      *)
(* reader of one hexadecimal digit, and a wait for a key before the exit.  *)
(* There are two HexBoards: MSREdit.c's own, which edits the digit until a *)
(* key ends it, and the one moved to libMSREdit.c, which returns after     *)
(* every keystroke, with 255 for Enter and 254 for Esc.  menu() is written *)
(* for the second and is built with the first.                             *)
(***************************************************************************)
EXTENDS ConsoleInput, HexDigit

CONSTANTS
  Linked,      \* the HexBoards menu() may be linked with, of "own" and "lib"
  ExitPolls    \* polls of the last wait (1000 in the code)

ASSUME LinkedAssumption == Linked \subseteq {"own", "lib"}
ASSUME PollsAssumption  == ExitPolls \in Nat \ {0}

VARIABLES
  board,       \* the HexBoard it was linked with
  pc,          \* "select", "keyin", "poll" or "done"
  selected,    \* menu's parameter and result
  current,     \* the item menu passes to HexBoard
  keyint,      \* HexBoard's digit
  arrows,      \* the items with a "> " on the screen
  i,           \* polls made by KeyTimeout
  key          \* KeyTimeout's key

vars == <<kq, board, pc, selected, current, keyint, arrows, i, key>>

Items == 0..4
max   == 4                            \* menu calls HexBoard(current, 4)

SCAN_RIGHT == 3
SCAN_LEFT  == 4

(* efi_main calls menu(1).                                                 *)
Init ==
  /\ KeysInit /\ board \in Linked
  /\ pc = "select" /\ selected = 1 /\ current = 1 /\ keyint = 0
  /\ arrows = {} /\ i = 0 /\ key = Uninit

(***************************************************************************)
(* menu(): one arrow per row is printed, and HexBoard is called.           *)
(***************************************************************************)
MarkFirst == {n \in Items : n % 5 = 1}            \* a mutant: not redrawn
Mark      == {n \in Items : n = current}

Select ==
  /\ pc = "select" /\ pc' = "keyin"
  /\ selected' = current
  /\ arrows' = Mark
  /\ keyint' = current
  /\ UNCHANGED <<kq, board, current, i, key>>

(* What menu() does with the item that HexBoard returns.                   *)
EndMenu == pc' = "poll" /\ i' = 0 /\ key' = Uninit

Returned(item) ==
  \/ /\ item = 254 /\ EndMenu
     /\ UNCHANGED <<selected, current>>
  \/ /\ item = 255 /\ EndMenu
     /\ selected' = current
     /\ UNCHANGED current
  \/ /\ item \notin {254, 255}
     /\ current' = item /\ pc' = "select"
     /\ UNCHANGED <<selected, i, key>>

(***************************************************************************)
(* HexBoard: what a keystroke means, and what it makes of the digit.       *)
(***************************************************************************)
Meaning(k) ==
  IF k.UnicodeChar \in HexDigits THEN "digit"
  ELSE IF k.ScanCode = SCAN_UP THEN "up"
  ELSE IF k.ScanCode = SCAN_DOWN THEN "down"
  ELSE IF board = "own" /\ k.ScanCode \in {SCAN_LEFT, SCAN_RIGHT} THEN "enter"
  ELSE IF k.UnicodeChar = CHAR_CARRIAGE_RETURN THEN "enter"
  ELSE IF k.ScanCode = SCAN_ESC THEN "esc"
  ELSE "other"

EditedNoWrap(k) ==                     \* a mutant: max rows, not max + 1
  CASE Meaning(k) = "digit" -> HexValue(k.UnicodeChar)
    [] Meaning(k) = "up"    -> (keyint + 255) % 256
    [] Meaning(k) = "down"  -> keyint + 1
    [] OTHER                -> current

Edited(k) ==
  CASE Meaning(k) = "digit" -> HexValue(k.UnicodeChar)
    [] Meaning(k) = "up"    -> (keyint + max) % (max + 1)
    [] Meaning(k) = "down"  -> (keyint + 1) % (max + 1)
    [] OTHER                -> current

PressPeeks(k) ==                       \* a mutant: the key is not read
  /\ pc = "keyin" /\ WaitForKey /\ k = Head(kq)
  /\ UNCHANGED <<kq, board, arrows>>

Press(k) ==
  /\ pc = "keyin" /\ WaitForKey /\ ReadKeyStroke(Uninit, k)
  /\ UNCHANGED <<board, arrows>>

Stays(k) ==
  /\ keyint' = Edited(k)
  /\ UNCHANGED <<pc, selected, current, i, key>>

(* MSREdit.c: Left, Right and Enter end the digit, Esc restores it.        *)
OwnEdits == \E k \in KeyValue :
  /\ board = "own" /\ Press(k)
  /\ Meaning(k) \notin {"enter", "esc"}
  /\ Stays(k)

OwnReturns == \E k \in KeyValue :
  /\ board = "own" /\ Press(k)
  /\ \/ Meaning(k) = "enter" /\ Returned(keyint)
     \/ Meaning(k) = "esc" /\ Returned(current)
  /\ keyint' = 0

(* libMSREdit.c: every keystroke returns, a digit beyond max excepted.     *)
LibItemOwn(k) == CASE Meaning(k) = "enter" -> keyint   \* a mutant: as MSREdit.c
                   [] Meaning(k) = "esc"   -> current
                   [] OTHER                -> Edited(k)

LibItem(k) == CASE Meaning(k) = "enter" -> 255
                [] Meaning(k) = "esc"   -> 254
                [] OTHER                -> Edited(k)

Rejected(k) == LibItem(k) < 254 /\ LibItem(k) > max

LibRejects == \E k \in KeyValue :
  board = "lib" /\ Press(k) /\ Rejected(k) /\ Stays(k)

LibReturns == \E k \in KeyValue :
  /\ board = "lib" /\ Press(k) /\ ~Rejected(k)
  /\ Returned(LibItem(k))
  /\ keyint' = 0

(***************************************************************************)
(* KeyTimeout(1000, 0), whose result efi_main ignores.                     *)
(***************************************************************************)
EndsTimeout(k) == k.UnicodeChar = CHAR_CARRIAGE_RETURN \/ k.ScanCode = SCAN_ESC

PollKey == \E k \in KeyValue :
  /\ pc = "poll" /\ i < ExitPolls /\ ReadKeyStroke(key, k)
  /\ IF EndsTimeout(k)
       THEN pc' = "done" /\ UNCHANGED <<i, key>>
       ELSE i' = i + 1 /\ key' = k /\ UNCHANGED pc
  /\ UNCHANGED <<board, selected, current, keyint, arrows>>

PollOver ==
  /\ pc = "poll" /\ i >= ExitPolls /\ pc' = "done"
  /\ UNCHANGED <<kq, board, selected, current, keyint, arrows, i, key>>

(***************************************************************************)
UserTypes ==
  /\ pc # "done"
  /\ \E k \in Keyboard : Type(k)
  /\ UNCHANGED <<board, pc, selected, current, keyint, arrows, i, key>>

Terminated == pc = "done" /\ UNCHANGED vars

Program == \/ Select \/ OwnEdits \/ OwnReturns \/ LibRejects \/ LibReturns
           \/ PollKey \/ PollOver

Next == Program \/ UserTypes \/ Terminated

Spec == Init /\ [][Next]_vars

(* The processor keeps executing the program; the user owes it nothing.    *)
FairSpec == Spec /\ WF_vars(Program)

-----------------------------------------------------------------------------
TypeOK ==
  /\ KeysTypeOK
  /\ board \in {"own", "lib"}
  /\ pc \in {"select", "keyin", "poll", "done"}
  /\ selected \in 0..15 /\ current \in 0..15 /\ keyint \in 0..15
  /\ arrows \in SUBSET Items
  /\ i \in 0..ExitPolls
  /\ key \in KeyValue \cup {Uninit}

(* With libMSREdit.c's HexBoard the item that menu() returns is the one    *)
(* the user has seen the arrow on, after any keys, rejected digits         *)
(* included.  With MSREdit.c's own that holds for Esc only, which goes     *)
(* back to the marked item (or to a digit from 5 to f, that no row has):   *)
(* its Up and Down move the digit and not the arrow, and Enter takes the   *)
(* digit.                                                                  *)
EscRead == kq # <<>> /\ kq' = Tail(kq) /\ Meaning(Head(kq)) = "esc"

ArrowIsTaken ==
  [][/\ board = "lib" /\ pc = "keyin" /\ pc' = "poll" => arrows = {selected'}
     /\ board = "own" /\ pc = "keyin" /\ EscRead =>
          pc' = "select" /\ arrows = {current'} \cap Items]_vars

(* Every keystroke is read, whichever of the waits in HexBoard and         *)
(* KeyTimeout it meets, unless the program ends before: the buffer is      *)
(* empty again and again, or keys are taken from its head for ever.        *)
TakesKey == kq # <<>> /\ kq' = Tail(kq)
KeysAreRead == \/ []<>(kq = <<>> \/ pc = "done")
               \/ []<><<TakesKey>>_vars

(* With libMSREdit.c's HexBoard, Enter or Esc ends the menu and then the   *)
(* program: the protocol of the labels 254 and 255 works from any digit.   *)
EndsMenu(k) == Meaning(k) \in {"enter", "esc"}
EndTyped == pc = "keyin" /\ \E n \in 1..Len(kq) : EndsMenu(kq[n])
LibMenuEnds == board = "lib" /\ EndTyped ~> pc = "done"

(* The menu's item "Exit" says that the menu can be left; with either      *)
(* HexBoard, Enter or Esc would have to do it.                             *)
MenuCanEnd == EndTyped ~> pc = "done"
=============================================================================
