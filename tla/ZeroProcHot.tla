----------------------------- MODULE ZeroProcHot -----------------------------
(***************************************************************************)
(* The interactive UEFI program ZeroProcHot: a countdown that a keystroke  *)
(* turns into a menu, and a menu from which MSR 0x1FC is read and its bit  *)
(* 0, BD_PROCHOT, is set or cleared after a confirmation.  One thread of   *)
(* control runs the program; the user types and the platform's firmware    *)
(* changes the register between any two of its steps.                      *)
(***************************************************************************)
EXTENDS MsrRegister, ConsoleInput

CONSTANTS
  OpenPolls,       \* polls of the opening countdown (10 in the code)
  MessagePolls     \* polls while a message is shown (20 in the code)

ASSUME PollsAssumption    == OpenPolls \in Nat \ {0} /\ MessagePolls \in Nat \ {0}

VARIABLES
  reg,      \* MSR 0x1FC
  pc,       \* where control is
  msg,      \* the message toMsg shows, or is to show after a write
  i,        \* polls made by toMsg
  key,      \* the EFI_INPUT_KEY local of the running function
  choice,   \* the menu item of menuloop and efi_main
  nval,     \* the value ConfirmAndWrite was called with
  screen    \* what is printed since the last scrClear

vars == <<kq, reg, pc, msg, i, key, choice, nval, screen>>

Blank == [prochot |-> "", mark |-> -1, rows |-> <<>>]

(***************************************************************************)
(* Control passes to toMsg(m, ...) and to menuloop().  Locals that go out  *)
(* of scope are reset.                                                     *)
(***************************************************************************)
CallToMsg(m) == pc' = "poll" /\ msg' = m /\ i' = 0 /\ key' = Uninit /\ choice' = 1

CallMenuloop ==
  pc' = "draw" /\ choice' = 1 /\ key' = Uninit /\ msg' = "none" /\ i' = 0

Init ==
  /\ KeysInit
  /\ reg \in InitialValues
  /\ pc = "poll" /\ msg = "interactive" /\ i = 0 /\ key = Uninit
  /\ choice = 1 /\ nval = {} /\ screen = Blank

(***************************************************************************)
(* toMsg: poll the keyboard until the user ends it or the polls run out.   *)
(* The countdown leads to the menu only if it was ended; the messages of   *)
(* ConfirmAndWrite always lead back to the menu.                           *)
(***************************************************************************)
Polls == IF msg = "interactive" THEN OpenPolls ELSE MessagePolls

EndsToMsg(k) == \/ k.UnicodeChar = CHAR_CARRIAGE_RETURN
                \/ k.ScanCode = SCAN_ESC
                \/ k.UnicodeChar = 96                               \* '`'

Poll(k) == pc = "poll" /\ i < Polls /\ ReadKeyStroke(key, k)

PollPressed ==
  /\ \E k \in KeyValue : Poll(k) /\ EndsToMsg(k)
  /\ CallMenuloop
  /\ UNCHANGED <<reg, nval, screen>>

PollUncounted ==                       \* a mutant: i is not incremented
  /\ \E k \in KeyValue : Poll(k) /\ ~EndsToMsg(k) /\ key' = k
  /\ UNCHANGED <<reg, pc, msg, i, choice, nval, screen>>

PollAgain ==
  /\ \E k \in KeyValue : Poll(k) /\ ~EndsToMsg(k) /\ key' = k
  /\ i' = i + 1
  /\ UNCHANGED <<reg, pc, msg, choice, nval, screen>>

PollsOver ==
  /\ pc = "poll"
  /\ \/ /\ msg = "interactive"
        /\ pc' = "done"
        /\ UNCHANGED <<msg, i, key, choice>>
     \/ msg # "interactive" /\ CallMenuloop
  /\ UNCHANGED <<kq, reg, nval, screen>>

PollOneShort == i >= Polls - 1 /\ PollsOver      \* a mutant: one poll less
PollTimeout  == i >= Polls /\ PollsOver

(***************************************************************************)
(* menuloop: draw the header and the menu, wait for a keystroke, act on it.*)
(***************************************************************************)
Draw(idx) ==
  /\ pc = "draw" /\ pc' = "menu"
  /\ screen' = [prochot |-> IF 0 \in AsmReadMsr64(reg) THEN "1" ELSE "0",
                mark    |-> idx,
                rows    |-> <<>>]
  /\ UNCHANGED <<kq, reg, msg, i, key, choice, nval>>

DrawUncleared ==                       \* a mutant: scrClear forgotten
  /\ pc = "draw" /\ pc' = "menu"
  /\ screen' = [screen EXCEPT
       !.prochot = IF 0 \in AsmReadMsr64(reg) THEN "1" ELSE "0",
       !.mark    = (choice + 3) % 4]
  /\ UNCHANGED <<kq, reg, msg, i, key, choice, nval>>
DrawMarkingChoice == Draw(choice)      \* a mutant: choice indexes menu[]
DrawMenu          == Draw((choice + 3) % 4)

MenuKeyLeft(k) ==                      \* a mutant: the key is not read
  /\ pc = "menu" /\ WaitForKey /\ k = Head(kq)
  /\ UNCHANGED <<kq, reg, msg, i, nval, screen>>

MenuKey(k) ==
  /\ pc = "menu" /\ WaitForKey /\ ReadKeyStroke(key, k)
  /\ UNCHANGED <<reg, msg, i, nval, screen>>

IsItem(k) == k.UnicodeChar \in 48..51                               \* '0'..'3'

MenuDigit == \E k \in KeyValue :
  /\ MenuKey(k) /\ IsItem(k)
  /\ choice' = k.UnicodeChar - 48
  /\ pc' = "choose" /\ key' = Uninit

MenuUp == \E k \in KeyValue :
  /\ MenuKey(k) /\ ~IsItem(k) /\ k.ScanCode = SCAN_UP
  /\ choice' = (choice + 3) % 4
  /\ pc' = "draw" /\ key' = k

MenuDown == \E k \in KeyValue :
  /\ MenuKey(k) /\ ~IsItem(k) /\ k.ScanCode = SCAN_DOWN
  /\ choice' = (choice + 1) % 4
  /\ pc' = "draw" /\ key' = k

IsArrow(k) == k.ScanCode \in {SCAN_UP, SCAN_DOWN}

MenuEnter == \E k \in KeyValue :
  /\ MenuKey(k) /\ ~IsArrow(k) /\ k.UnicodeChar = CHAR_CARRIAGE_RETURN
  /\ pc' = "choose" /\ key' = Uninit
  /\ UNCHANGED choice

MenuRedraw == \E k \in KeyValue :
  /\ MenuKey(k) /\ ~IsItem(k) /\ ~IsArrow(k)
  /\ k.UnicodeChar # CHAR_CARRIAGE_RETURN
  /\ pc' = "draw" /\ key' = k
  /\ UNCHANGED choice

(***************************************************************************)
(* choose(choice) and what it calls.                                       *)
(***************************************************************************)
Choose(c) == pc = "choose" /\ choice = c

ChooseExit ==
  /\ Choose(0) /\ pc' = "done"
  /\ UNCHANGED <<kq, reg, msg, i, key, choice, nval, screen>>

Show(rows) == screen' = [screen EXCEPT !.rows = @ \o rows]

(* The value read is shown until a keystroke is buffered.                  *)
ChooseRead ==
  /\ Choose(1) /\ pc' = "view"
  /\ Show(<<strRow(AsmReadMsr64(reg))>>)
  /\ UNCHANGED <<kq, reg, msg, i, key, choice, nval>>

ViewDoneReads ==                       \* a mutant: the awaited key is read
  /\ pc = "view" /\ WaitForKey
  /\ \E k \in KeyValue : ReadKeyStroke(Uninit, k)
  /\ CallMenuloop
  /\ UNCHANGED <<reg, nval, screen>>

ViewDone ==
  /\ pc = "view" /\ WaitForKey
  /\ CallMenuloop
  /\ UNCHANGED <<kq, reg, nval, screen>>

(* clear_ProcHot and set_ProcHot: show the value read, the mask and the    *)
(* result, and ask for a confirmation.                                     *)
clear_ProcHot ==
  LET val == AsmReadMsr64(reg) IN
  /\ Choose(2) /\ pc' = "confirm" /\ msg' = "disabled"
  /\ nval' = val \cap CLEAR_ZERO
  /\ Show(<<strRow(val), strRow(CLEAR_ZERO), strRow(nval')>>)
  /\ UNCHANGED <<kq, reg, i, key, choice>>

set_ProcHot ==
  LET val == AsmReadMsr64(reg) IN
  /\ Choose(3) /\ pc' = "confirm" /\ msg' = "enabled"
  /\ nval' = val \cup SET_ZERO
  /\ Show(<<strRow(val), strRow(SET_ZERO), strRow(nval')>>)
  /\ UNCHANGED <<kq, reg, i, key, choice>>

(***************************************************************************)
(* ConfirmAndWrite: one keystroke decides; Esc, n and N abort and every    *)
(* other one writes.  toMsg then reports what was done.                    *)
(***************************************************************************)
Refuses(k) == k.ScanCode = SCAN_ESC \/ k.UnicodeChar \in {110, 78}

Answer(k) ==
  /\ pc = "confirm" /\ WaitForKey /\ ReadKeyStroke(key, k)
  /\ screen' = Blank /\ nval' = {}

ConfirmAbortSilent ==                  \* a mutant: reports what was not done
  /\ \E k \in KeyValue : Answer(k) /\ Refuses(k)
  /\ CallToMsg(msg)
  /\ UNCHANGED reg

ConfirmAbort ==
  /\ \E k \in KeyValue : Answer(k) /\ Refuses(k)
  /\ CallToMsg("abort")
  /\ UNCHANGED reg

ConfirmWrite ==
  /\ \E k \in KeyValue : Answer(k) /\ ~Refuses(k)
  /\ reg' = AsmWriteMsr64(nval)
  /\ CallToMsg(msg)

(***************************************************************************)
(* The environment: the user types while the program runs, the platform    *)
(* gives its own bits any value, and nothing is left to do after the exit. *)
(***************************************************************************)
UserTypes ==
  /\ pc # "done"
  /\ \E k \in Keyboard : Type(k)
  /\ UNCHANGED <<reg, pc, msg, i, key, choice, nval, screen>>

Firmware ==
  /\ pc # "done"
  /\ \E S \in SUBSET FirmwareBits : reg' = (reg \ FirmwareBits) \cup S
  /\ UNCHANGED <<kq, pc, msg, i, key, choice, nval, screen>>

Terminated == pc = "done" /\ UNCHANGED vars

Program ==
  \/ PollPressed \/ PollAgain \/ PollTimeout
  \/ DrawMenu \/ MenuDigit \/ MenuUp \/ MenuDown \/ MenuEnter \/ MenuRedraw
  \/ ChooseExit \/ ChooseRead \/ ViewDone
  \/ clear_ProcHot \/ set_ProcHot \/ ConfirmAbort \/ ConfirmWrite

Next == Program \/ UserTypes \/ Firmware \/ Terminated

Spec == Init /\ [][Next]_vars

(* The processor keeps executing the program; the user owes it nothing.    *)
FairSpec == Spec /\ WF_vars(Program)
-----------------------------------------------------------------------------
Row     == [1..64 -> {"0", "1"}]
Screens == [prochot : {"", "0", "1"}, mark : -1..3, rows : Seq(Row)]

TypeOK ==
  /\ KeysTypeOK
  /\ reg \in SUBSET Word64 /\ nval \in SUBSET Word64
  /\ pc \in {"poll", "draw", "menu", "choose", "view", "confirm", "done"}
  /\ msg \in {"interactive", "none", "abort", "enabled", "disabled"}
  /\ i \in 0..(OpenPolls + MessagePolls)
  /\ key \in KeyValue \cup {Uninit}
  /\ choice \in 0..3
  /\ screen \in Screens

(* While the menu waits, its screen is true: the row marked `>' is the     *)
(* item that Enter will run (menu() lists the items 1, 2, 3, 0 from the    *)
(* top, menuloop moves `choice'), and the BD_PROCHOT bit in the header is  *)
(* the one in the register after any sequence of operations, aborted ones  *)
(* included (if the platform leaves bit 0 alone).                          *)
MenuItems == <<1, 2, 3, 0>>
MenuScreenTrue ==
  pc = "menu" =>
    /\ MenuItems[screen.mark + 1] = choice
    /\ 0 \notin FirmwareBits => (screen.prochot = "1" <=> 0 \in reg)

(* "BD_PROCHOT is now Enabled!" and "... Disabled!" are true for as long   *)
(* as they are shown, whatever the platform does to its other bits.        *)
MessageTrue ==
  pc = "poll" /\ 0 \notin FirmwareBits =>
    /\ msg = "enabled" => 0 \in reg
    /\ msg = "disabled" => 0 \notin reg

(* While the prompt asks for a confirmation, the table above it is true:   *)
(* its RESULT row is the operand row combined with the mask row, is the    *)
(* value that would be written, has the bit that the message to come       *)
(* announces, and agrees with the register on every bit that is neither    *)
(* BD_PROCHOT nor the platform's.                                          *)
Stable == Word64 \ (FirmwareBits \cup {0})
PromptTrue ==
  pc = "confirm" =>
    /\ Len(screen.rows) = 3
    /\ ShownValue(screen.rows[3]) = nval
    /\ \/ /\ msg = "enabled" /\ 0 \in nval
          /\ nval = ShownValue(screen.rows[1]) \cup ShownValue(screen.rows[2])
       \/ /\ msg = "disabled" /\ 0 \notin nval
          /\ nval = ShownValue(screen.rows[1]) \cap ShownValue(screen.rows[2])
    /\ nval \cap Stable = reg \cap Stable

(* A fresh menu stands on a cleared screen, so that the rows below it are  *)
(* those of one operation.                                                 *)
RowsCleared == pc \in {"menu", "choose"} => screen.rows = <<>>

(* The inductive invariant.                                                *)
IInv == TypeOK /\ MenuScreenTrue /\ MessageTrue /\ PromptTrue /\ RowsCleared

(* The program writes exactly the value that the RESULT row showed when    *)
(* the user answered, all 64 bits of it, and only when it shows one.       *)
Writing == pc = "confirm" /\ pc' = "poll" /\ msg' # "abort"
ResultShownIsWritten ==
  [][Writing => /\ Len(screen.rows) = 3
                /\ reg' = ShownValue(screen.rows[3])]_vars

(* A write follows an answer: it takes one keystroke off the console, and  *)
(* that keystroke is not a refusal.                                        *)
WriteNeedsAnswer ==
  [][Writing => /\ kq # <<>> /\ kq' = Tail(kq)
                /\ ~Refuses(Head(kq))]_vars

(* Abstractly the program is a ProcHotSwitch: an operation is under way    *)
(* exactly while the program waits for its confirmation.                   *)
Switch == INSTANCE ProcHotSwitch WITH
  op     <- IF pc = "confirm" THEN IF msg = "enabled" THEN "set" ELSE "clear"
            ELSE "idle",
  target <- IF pc = "confirm" THEN nval ELSE {}

ImplementsSwitch == Switch!Spec
StableBitsKept == Switch!StableBitsKept

-----------------------------------------------------------------------------
(* The countdown and every message come to an end by themselves.           *)
MessagesEnd == pc = "poll" ~> pc \in {"draw", "done"}

(* A full keystroke buffer is always drained: every wait of the program    *)
(* leads to a read, the one of the value view included, which reads none.  *)
BufferDrains == Len(kq) = MaxQueue ~> Len(kq) < MaxQueue \/ pc = "done"

(* A keystroke that ends the countdown is honoured if it was typed with    *)
(* fewer keystrokes before it than there are polls left.  One that is      *)
(* typed in the last Stall, when no poll is left, is not.                  *)
InReach == \E n \in 1..Len(kq) : EndsToMsg(kq[n]) /\ n <= OpenPolls - i
EscWithinReach == pc = "poll" /\ msg = "interactive" /\ InReach ~> pc = "draw"

(* choose(1) waits for a keystroke but leaves it in the buffer, so the key *)
(* that ends the value view is also the menu's next command.               *)
ViewKeyIsCommand ==
  \A c \in {2, 3} :
    pc = "view" /\ kq # <<>> /\ Head(kq) = Char(48 + c)
      ~> pc = "confirm" /\ choice = c

(* What the prompt "Press Esc for interactive mode" says: the menu opens   *)
(* only if a keystroke that ends the countdown was typed.                  *)
InteractiveNeedsKey ==
  [][pc = "poll" /\ msg = "interactive" /\ pc' = "draw"
       => kq # <<>> /\ EndsToMsg(Head(kq))]_vars
=============================================================================
