--------------------------- MODULE ZeroProcHotCalls ---------------------------
(***************************************************************************)
(* The interactive program call by call: every OutputString, rdmsr, wrmsr, *)
(* WaitForEvent, ReadKeyStroke, Reset and Stall of ZeroProcHot.c is a step *)
(* of its own, so that the user and the platform may act between any two.  *)
(* The strings still to be printed are kept in `out'; control goes on when *)
(* all are on the console.  `print' of strRow, which is declared and never *)
(* defined, is OutputString, as in ZeroProcHot_tmp.c.                      *)
(***************************************************************************)
EXTENDS MsrRegister, ConsoleInput, ConsoleOutput

CONSTANTS
  OpenPolls,       \* polls of the opening countdown (10 in the code)
  MessagePolls     \* polls while a message is shown (20 in the code)

ASSUME PollsAssumption == OpenPolls \in Nat \ {0} /\ MessagePolls \in Nat \ {0}

VARIABLES
  reg,      \* MSR 0x1FC
  pc,       \* the call to make once `out' is printed
  out,      \* the strings to be printed before that, one OutputString each
  msg,      \* the message toMsg shows, or is to show after a write
  i,        \* rounds of toMsg's loop that are over
  key,      \* the EFI_INPUT_KEY local of the running function
  choice,   \* the menu item of menuloop and efi_main
  nval,     \* the value ConfirmAndWrite was called with
  drawn,    \* history: what the console is going to show, fixed by rdmsr
  taken     \* history: the answer ConfirmAndWrite read and did not act on yet

vars == <<kq, con, reg, pc, out, msg, i, key, choice, nval, drawn, taken>>

(***************************************************************************)
(* The texts of the program, and what they take of a row.                  *)
(***************************************************************************)
Header == "(c)2023 HoefkensJ            Zero BDProcHot 0v402        github.com/hoefkensj"
Dashes ==
  "-------------------------------------------------------------------------------"
ProcHot    == "BD_PROCHOT: "
Title      == "Menu : "
Line       == "----------------------"
Item == <<"1. Read 0x1FC", "2. Clear BD_PROCHOT", "3. Set BD_PROCHOT", "0. Exit">>
Arrow      == "> "
NoArrow    == "  "
ValueHead  == " 0x1FC: "
OrHead     == "    OR: "
AndHead    == "   AND: "
Equals == "     = ------------------------------------------------------------------"
ResultHead == "RESULT: "
Question   == "Write Result to System? (Y/n) "
PressEsc   == "ZeroProcHot : Press Esc for interactive mode "
Aborted    == "Aborted by user!"
Enabled    == "BD_PROCHOT is now Enabled!  "
Disabled   == "BD_PROCHOT is now Disabled!  "

RowHeads == {ValueHead, OrHead, AndHead, ResultHead}
Printed ==
  {"0", "1", ".", Header, Dashes, ProcHot, Title, Line, Arrow, NoArrow, Equals,
   Question, PressEsc, Aborted, Enabled, Disabled}
    \cup {Item[n] : n \in 1..4} \cup RowHeads

ASSUME WidthAssumption ==
  /\ \A s \in Printed : s \in STRING /\ Width(s) \in Nat /\ Width(s) < Columns
  /\ \A b \in {"0", "1", "."} : Width(b) = 1
  /\ Width(ProcHot) = 12 /\ Width(Arrow) = 2 /\ Width(NoArrow) = 2
  /\ \A h \in RowHeads : Width(h) = 8
ASSUME ColumnsAssumption ==            \* an item, a row of bits, the dots
  /\ \A n \in 1..4 : 2 + Width(Item[n]) < Columns
  /\ 8 + 64 < Columns
  /\ Width(PressEsc) + 1 + (OpenPolls - 1) \div 5 < Columns
ASSUME LinesAssumption == Lines > 19   \* the menu, a value, a table, the question

HEAD0       == <<Header>>
HEAD1       == <<CRLF, Dashes, CRLF>>
TBL_HL      == <<Equals>>
MSG_CONFIRM == <<CRLF, CRLF, CRLF, Question>>
Message ==
  [interactive |-> <<PressEsc>>,       abort    |-> <<CRLF, Aborted>>,
   enabled     |-> <<CRLF, Enabled>>,  disabled |-> <<CRLF, Disabled>>]

(***************************************************************************)
(* What the functions that only print pass to OutputString, call by call.  *)
(***************************************************************************)
menuRow(idx, n) ==
  << <<IF n = idx THEN Arrow ELSE NoArrow>>, <<Item[n + 1]>>, <<CRLF>> >>
menu(c) ==
  LET idx == (c + 3) % 4
  IN  << <<CRLF, CRLF, Title>>, <<CRLF, Line, CRLF>> >>
        \o menuRow(idx, 0) \o menuRow(idx, 1) \o menuRow(idx, 2) \o menuRow(idx, 3)

Bit(data, b) == <<IF b \in data THEN "1" ELSE "0">>

RowOf63(head, data) ==                 \* a mutant: the loop begins at bit 62
  << <<CRLF>>, head >> \o [c \in 1..63 |-> Bit(data, 63 - c)]
RowOf(head, data) ==
  << <<CRLF>>, head >> \o [c \in 1..64 |-> Bit(data, 64 - c)]

table(op, term, result) ==
  RowOf(op, term) \o << <<CRLF>>, TBL_HL >> \o RowOf(<<ResultHead>>, result)

read_MSR(val) == RowOf(<<CRLF, ValueHead>>, val)

HeadOfNarrow(c) == IF c = 3 THEN <<"  OR: ">> ELSE <<AndHead>>  \* a mutant
HeadOf(c)       == IF c = 3 THEN <<OrHead>> ELSE <<AndHead>>

PollsShort ==                          \* a mutant: one poll less
  (IF msg = "interactive" THEN OpenPolls ELSE MessagePolls) - 1
Polls == IF msg = "interactive" THEN OpenPolls ELSE MessagePolls

(* What a round of toMsg(m, ...) prints: every fifth one shows progress.   *)
Progress(m, n) ==
  IF n % 5 # 0 THEN <<>>
  ELSE IF m = "interactive" THEN << <<".">> >> ELSE << <<>> >>

(***************************************************************************)
(* Control passes to toMsg(m, ...) and to menuloop().                      *)
(***************************************************************************)
CallToMsg(m) ==
  /\ pc' = "poll" /\ msg' = m /\ i' = 0 /\ key' = Uninit /\ choice' = 1
  /\ out' = <<Message[m]>> \o Progress(m, 0)

CallMenuloop ==
  /\ pc' = "menuloop" /\ choice' = 1 /\ key' = Uninit
  /\ msg' = "none" /\ i' = 0 /\ out' = <<>>

Blank == [prochot |-> "", mark |-> -1, rows |-> <<>>]

Init ==
  /\ KeysInit /\ con = Cleared(0)      \* what the shell shows goes at once
  /\ reg \in InitialValues
  /\ pc = "start" /\ out = <<>> /\ msg = "interactive" /\ i = 0 /\ key = Uninit
  /\ choice = 1 /\ nval = {} /\ drawn = Blank /\ taken = <<>>

(* Control is at p and everything before it is printed.                    *)
Reached(p) == pc = p /\ out = <<>>

OutputNext ==
  /\ out # <<>> /\ OutputString(Head(out)) /\ out' = Tail(out)
  /\ UNCHANGED <<kq, reg, pc, msg, i, key, choice, nval, drawn, taken>>

(* efi_main clears the screen and counts down.                             *)
Start ==
  /\ Reached("start") /\ Reset /\ CallToMsg("interactive")
  /\ UNCHANGED <<kq, reg, nval, drawn, taken>>

(***************************************************************************)
(* toMsg: a poll, and a Stall unless the key ended the loop.               *)
(***************************************************************************)
EndsToMsg(k) == \/ k.UnicodeChar = CHAR_CARRIAGE_RETURN
                \/ k.ScanCode = SCAN_ESC
                \/ k.UnicodeChar = 96                               \* '`'

Poll == \E k \in KeyValue :
  /\ Reached("poll") /\ ReadKeyStroke(key, k)
  /\ IF EndsToMsg(k) THEN CallMenuloop
     ELSE /\ key' = k /\ pc' = "stall"
          /\ UNCHANGED <<out, msg, i, choice>>
  /\ UNCHANGED <<con, reg, nval, drawn, taken>>

Stall ==
  /\ Reached("stall")
  /\ \/ /\ i + 1 < Polls
        /\ i' = i + 1 /\ pc' = "poll" /\ out' = Progress(msg, i + 1)
        /\ UNCHANGED <<msg, key, choice>>
     \/ /\ i + 1 >= Polls /\ msg = "interactive"
        /\ i' = i + 1 /\ pc' = "done"
        /\ UNCHANGED <<out, msg, key, choice>>
     \/ i + 1 >= Polls /\ msg # "interactive" /\ CallMenuloop
  /\ UNCHANGED <<kq, con, reg, nval, drawn, taken>>

(***************************************************************************)
(* menuloop: clear the screen, print the header, read and print BD_PROCHOT *)
(* and the menu, wait for a keystroke, read it and act on it.              *)
(***************************************************************************)
DrawBelow ==                           \* a mutant: the screen is not cleared
  /\ Reached("menuloop") /\ pc' = "header"
  /\ out' = <<HEAD0, HEAD1, <<CRLF>>, <<ProcHot>> >>
  /\ UNCHANGED <<kq, con, reg, msg, i, key, choice, nval, drawn, taken>>
ClearForMenu ==
  /\ Reached("menuloop") /\ Reset /\ pc' = "header"
  /\ out' = <<HEAD0, HEAD1, <<CRLF>>, <<ProcHot>> >>
  /\ UNCHANGED <<kq, reg, msg, i, key, choice, nval, drawn, taken>>

ReadHeader ==
  /\ Reached("header") /\ pc' = "menu"
  /\ LET val == AsmReadMsr64(reg) IN
       /\ out' = <<Bit(val, 0)>> \o menu(choice)
       /\ drawn' = [prochot |-> Bit(val, 0)[1], mark |-> (choice + 3) % 4,
                    rows |-> <<>>]
  /\ UNCHANGED <<kq, con, reg, msg, i, key, choice, nval, taken>>

(* WaitForEvent returns: to menuloop, and to ConfirmAndWrite.              *)
WaitForEventPolled ==                  \* a mutant: CheckEvent, which returns at once
  /\ \/ Reached("menu") /\ pc' = "menukey"
     \/ Reached("confirm") /\ pc' = "answer"
  /\ UNCHANGED <<kq, con, reg, out, msg, i, key, choice, nval, drawn, taken>>
WaitForEvent ==
  /\ WaitForKey
  /\ \/ Reached("menu") /\ pc' = "menukey"
     \/ Reached("confirm") /\ pc' = "answer"
  /\ UNCHANGED <<kq, con, reg, out, msg, i, key, choice, nval, drawn, taken>>

MenuKey == \E k \in KeyValue :
  /\ Reached("menukey") /\ ReadKeyStroke(key, k)
  /\ \/ /\ k.UnicodeChar \in 48..51
        /\ choice' = k.UnicodeChar - 48
        /\ pc' = "choose" /\ key' = Uninit
     \/ /\ k.UnicodeChar \notin 48..51 /\ k.ScanCode \in {SCAN_UP, SCAN_DOWN}
        /\ choice' = (choice + (IF k.ScanCode = SCAN_UP THEN 3 ELSE 1)) % 4
        /\ pc' = "menuloop" /\ key' = k
     \/ /\ k.UnicodeChar \notin 48..51 /\ k.ScanCode \notin {SCAN_UP, SCAN_DOWN}
        /\ IF k.UnicodeChar = CHAR_CARRIAGE_RETURN
             THEN pc' = "choose" /\ key' = Uninit
             ELSE pc' = "menuloop" /\ key' = k
        /\ UNCHANGED choice
  /\ UNCHANGED <<con, reg, out, msg, i, nval, drawn, taken>>

(***************************************************************************)
(* choose(choice).  Every operation begins with rdmsr; from there to its   *)
(* wait it only prints.                                                    *)
(***************************************************************************)
Exit ==
  /\ Reached("choose") /\ choice = 0 /\ pc' = "done"
  /\ UNCHANGED <<kq, con, reg, out, msg, i, key, choice, nval, drawn, taken>>

ReadToView ==
  /\ Reached("choose") /\ choice = 1 /\ pc' = "view"
  /\ LET val == AsmReadMsr64(reg) IN
       /\ out' = read_MSR(val)
       /\ drawn' = [drawn EXCEPT !.rows = @ \o <<strRow(val)>>]
  /\ UNCHANGED <<kq, con, reg, msg, i, key, choice, nval, taken>>

ViewSeen ==
  /\ Reached("view") /\ WaitForKey /\ CallMenuloop
  /\ UNCHANGED <<kq, con, reg, nval, drawn, taken>>

ReadToChange ==
  LET val  == AsmReadMsr64(reg)
      mask == IF choice = 3 THEN SET_ZERO ELSE CLEAR_ZERO
  IN
  /\ Reached("choose") /\ choice \in {2, 3} /\ pc' = "confirm"
  /\ msg' = IF choice = 3 THEN "enabled" ELSE "disabled"
  /\ nval' = IF choice = 3 THEN val \cup mask ELSE val \cap mask
  /\ out' = read_MSR(val) \o table(HeadOf(choice), mask, nval') \o <<MSG_CONFIRM>>
  /\ drawn' = [drawn EXCEPT !.rows = @ \o <<strRow(val), strRow(mask), strRow(nval')>>]
  /\ UNCHANGED <<kq, con, reg, i, key, choice, taken>>

(***************************************************************************)
(* ConfirmAndWrite after its wait: read the answer, clear the screen, and  *)
(* only then write, or not.                                                *)
(***************************************************************************)
RefusesEsc(k) == k.ScanCode = SCAN_ESC                \* a mutant: n is forgotten
Refuses(k) == k.ScanCode = SCAN_ESC \/ k.UnicodeChar \in {110, 78}

ReadAnswer == \E k \in KeyValue :
  /\ Reached("answer") /\ ReadKeyStroke(key, k) /\ key' = k /\ pc' = "answered"
  /\ taken' = IF kq' = kq THEN <<>> ELSE <<k>>
  /\ UNCHANGED <<con, reg, out, msg, i, choice, nval, drawn>>

Decided == nval' = {} /\ drawn' = Blank /\ taken' = <<>>

ClearAndAbort ==
  /\ Reached("answered") /\ Refuses(key)
  /\ Reset /\ CallToMsg("abort") /\ Decided
  /\ UNCHANGED <<kq, reg>>

GoOn ==                                \* a mutant: the screen is left as it is
  /\ Reached("answered") /\ ~Refuses(key) /\ pc' = "wrmsr"
  /\ UNCHANGED <<kq, con, reg, out, msg, i, key, choice, nval, drawn, taken>>
ClearAndGoOn ==
  /\ Reached("answered") /\ ~Refuses(key)
  /\ Reset /\ pc' = "wrmsr"
  /\ UNCHANGED <<kq, reg, out, msg, i, key, choice, nval, drawn, taken>>

WriteMsr ==
  /\ Reached("wrmsr") /\ reg' = AsmWriteMsr64(nval)
  /\ CallToMsg(msg) /\ Decided
  /\ UNCHANGED <<kq, con>>

(***************************************************************************)
(* The user and the platform, as in ZeroProcHot, between any two calls.    *)
(***************************************************************************)
UserTypes ==
  /\ pc # "done"
  /\ \E k \in Keyboard : Type(k)
  /\ UNCHANGED <<con, reg, pc, out, msg, i, key, choice, nval, drawn, taken>>

Firmware ==
  /\ pc # "done"
  /\ \E S \in SUBSET FirmwareBits : reg' = (reg \ FirmwareBits) \cup S
  /\ UNCHANGED <<kq, con, pc, out, msg, i, key, choice, nval, drawn, taken>>

Terminated == pc = "done" /\ UNCHANGED vars

Program ==
  \/ OutputNext \/ Start \/ Poll \/ Stall
  \/ ClearForMenu \/ ReadHeader \/ WaitForEvent \/ MenuKey
  \/ Exit \/ ReadToView \/ ViewSeen \/ ReadToChange
  \/ ReadAnswer \/ ClearAndAbort \/ ClearAndGoOn \/ WriteMsr

Next == Program \/ UserTypes \/ Firmware \/ Terminated

Spec == Init /\ [][Next]_vars

(* The processor keeps executing the program; the user owes it nothing.    *)
FairSpec == Spec /\ WF_vars(Program)
-----------------------------------------------------------------------------
Controls == {"start", "poll", "stall", "menuloop", "header", "menu", "menukey",
             "choose", "view", "confirm", "answer", "answered", "wrmsr", "done"}

(* What the calls leave for each other.  An event that was waited for has  *)
(* its key in the buffer, a function that is called finds its key variable *)
(* unwritten, toMsg's rounds are not over while it polls, and an answer    *)
(* that was taken from the buffer is the key ConfirmAndWrite looks at.     *)
Handover ==
  /\ pc \in Controls
  /\ kq \in Seq(Keyboard) /\ Len(kq) <= MaxQueue
  /\ i \in Nat
  /\ pc = "start" => msg = "interactive" /\ i = 0 /\ key = Uninit /\ choice = 1
  /\ pc \in {"start", "poll", "stall"} => i < Polls
  /\ pc \in {"menukey", "answer"} => kq # <<>>
  /\ pc \in {"choose", "confirm", "answer"} => key = Uninit
  /\ IF pc \in {"answered", "wrmsr"}
       THEN \/ taken = <<key>> /\ key \in Keyboard
            \/ /\ taken = <<>> /\ kq # <<>> /\ ReadMayFail
               /\ key = NUL \/ key \in Residue
       ELSE taken = <<>>
  /\ pc = "wrmsr" => ~Refuses(key)

(* Call by call the program does what ZeroProcHot says it does in one step *)
(* from each wait to the next.  An answer that was read and not acted on   *)
(* is, abstractly, still in the buffer.                                    *)
Answered == pc \in {"answered", "wrmsr"}
WholePc  == CASE pc \in {"start", "poll", "stall"} -> "poll"
              [] pc \in {"menuloop", "header"}     -> "draw"
              [] pc \in {"menu", "menukey"}        -> "menu"
              [] pc \in {"confirm", "answer", "answered", "wrmsr"} -> "confirm"
              [] OTHER                             -> pc
WholeKq  == taken \o kq
WholeI   == IF pc = "stall" THEN i + 1 ELSE i
WholeKey == IF Answered THEN Uninit ELSE key

Whole == INSTANCE ZeroProcHot WITH
  MaxQueue <- MaxQueue + 1, kq <- WholeKq, pc <- WholePc, i <- WholeI,
  key <- WholeKey, screen <- drawn

ImplementsZeroProcHot == Whole!Spec

(* Whatever the console says of BD_PROCHOT, in the header of the menu or   *)
(* in a message, is true at every moment it can be read, also while the    *)
(* program prints, and between the answer and the write.                   *)
Says(s, b) ==
  \E p \in con.texts : p = Text(p.row, p.col, s) /\ At(p.row, p.to, b)
ShownBitTrue ==
  0 \notin FirmwareBits =>
    /\ Says(ProcHot, "1") => 0 \in reg
    /\ Says(ProcHot, "0") => 0 \notin reg
    /\ \A p \in con.texts :
         /\ p.text = Enabled  => 0 \in reg
         /\ p.text = Disabled => 0 \notin reg

(* When the program waits, what it computed from the register at its rdmsr *)
(* is what can be read: the bit in the header, the item with the arrow,    *)
(* and the rows of bits from the top down, all 64 bits of each, although   *)
(* the register may have changed since the first of them was printed.      *)
Waiting == out = <<>> /\ pc \in {"menu", "menukey", "choose", "view", "confirm", "answer"}
Heads == {p \in con.texts :                \* what stands before a row of bits
            /\ p.text \notin {"0", "1", ProcHot}
            /\ \E b \in {"0", "1"} : At(p.row, p.to, b)}
BitsAfter(p) ==
  [c \in 1..64 |->
     LET col == p.to + c - 1 IN
     IF At(p.row, col, "1") THEN "1" ELSE IF At(p.row, col, "0") THEN "0" ELSE ""]
RowsShown(rows) ==                         \* from the top down, and no other row
  \E head \in [1..Len(rows) -> Heads] :
    /\ \A p \in Heads : \E n \in 1..Len(rows) : head[n] = p
    /\ \A m, n \in 1..Len(rows) : m < n => head[m].row < head[n].row
    /\ \A n \in 1..Len(rows) : BitsAfter(head[n]) = rows[n]
ScreenAsDrawn ==
  Waiting => /\ Says(ProcHot, drawn.prochot)
             /\ \A n \in 1..4 : Says(Arrow, Item[n]) <=> n = drawn.mark + 1
             /\ RowsShown(drawn.rows)

(* Bits of the same weight stand below each other in the table.            *)
BitsAligned == \A p, q \in Heads : p.to = q.to

(* Nothing the program prints is cut off: no text reaches the last column, *)
(* where the console would wrap, and the header is still on the first row  *)
(* when the program waits, whatever operations came before.                *)
OnScreen ==
  /\ \A p \in con.texts : p.to < Columns
  /\ Waiting => At(0, 0, Header)

(* An Esc typed in time opens the menu also if it arrives while the dots   *)
(* are printed or during a Stall.                                          *)
EscWithinReach == Whole!EscWithinReach
=============================================================================
