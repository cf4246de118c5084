-------------------------- MODULE ZeroProcHotProofs --------------------------
(***************************************************************************)
(* The interactive program's invariant, what it shows and what it writes,  *)
(* and that it implements ProcHotSwitch: proved for every keyboard, every  *)
(* buffer size, every residue of an unwritten key, reads that may fail,    *)
(* every register value and every set of bits the platform owns.           *)
(***************************************************************************)
EXTENDS ZeroProcHot, MsrWordProofs, SequenceTheorems

(* The console: a read yields a key value and leaves a legal buffer.       *)
LEMMA ReadTyped ==
  ASSUME KeysTypeOK, key \in KeyValue \cup {Uninit},
         NEW k, ReadKeyStroke(key, k)
  PROVE  KeysTypeOK'
<1>1. CASE kq # <<>> /\ kq' = Tail(kq)
  BY <1>1, QueueAssumption DEF KeysTypeOK
<1>2. CASE UNCHANGED kq
  BY <1>2 DEF KeysTypeOK
<1> QED
  BY <1>1, <1>2 DEF ReadKeyStroke

(* Rows that are printed keep the screen a screen.                         *)
LEMMA ShowTyped ==
  ASSUME screen \in Screens,
         NEW rows \in Seq(Row), Show(rows)
  PROVE  /\ screen' \in Screens
         /\ screen'.rows = screen.rows \o rows
<1> DEFINE out == screen.rows \o rows
<1>1. /\ screen = [prochot |-> screen.prochot, mark |-> screen.mark, rows |-> screen.rows]
      /\ screen.prochot \in {"", "0", "1"} /\ screen.mark \in -1..3
      /\ screen.rows \in Seq(Row)
  BY DEF Screens
<1>2. out \in Seq(Row)
  BY <1>1, ConcatProperties
<1>3. screen' = [prochot |-> screen.prochot, mark |-> screen.mark, rows |-> out]
  BY <1>1 DEF Show
<1> HIDE DEF out
<1>4. screen' \in Screens
  BY <1>1, <1>2, <1>3 DEF Screens
<1>5. screen'.rows = out
  BY <1>3
<1> QED
  BY <1>4, <1>5 DEF out

LEMMA IInvInit == Init => IInv
<1> SUFFICES ASSUME Init PROVE IInv
  OBVIOUS
<1>1. KeysTypeOK
  BY QueueAssumption DEF Init, KeysInit, KeysTypeOK
<1>2. TypeOK
  <2>1. <<>> \in Seq(Row)
    BY EmptySeq
  <2>2. screen \in Screens
    <3>1. -1 \in -1..3
      OBVIOUS
    <3> QED
      BY <2>1, <3>1 DEF Init, Blank, Screens
  <2>3. reg \in SUBSET Word64 /\ nval \in SUBSET Word64
    BY InitialAssumption DEF Init
  <2>4. i \in 0..(OpenPolls + MessagePolls)
    BY PollsAssumption DEF Init
  <2>5. key \in KeyValue \cup {Uninit} /\ choice \in 0..3
    BY DEF Init
  <2>6. pc = "poll" /\ msg = "interactive"
    BY DEF Init
  <2> QED
    BY <1>1, <2>2, <2>3, <2>4, <2>5, <2>6 DEF TypeOK
<1>3. pc = "poll" /\ msg = "interactive"
  BY DEF Init
<1> QED
  BY <1>2, <1>3 DEF IInv, MenuScreenTrue, MessageTrue, PromptTrue, RowsCleared

(* Control that arrives in menuloop owes nothing but its types.            *)
LEMMA ToMenuloop ==
  ASSUME TypeOK, CallMenuloop, KeysTypeOK', UNCHANGED <<reg, nval, screen>>
  PROVE  IInv'
<1>1. 0 \in 0..(OpenPolls + MessagePolls)
  BY PollsAssumption
<1>2. TypeOK'
  BY <1>1 DEF TypeOK, CallMenuloop
<1> QED
  BY <1>2 DEF CallMenuloop, IInv, MenuScreenTrue, MessageTrue, PromptTrue, RowsCleared

LEMMA PollStep ==
  ASSUME IInv, PollPressed \/ PollAgain \/ PollTimeout
  PROVE  IInv'
<1> USE DEF IInv
<1>1. CASE PollPressed
  <2>1. KeysTypeOK'
    BY <1>1, ReadTyped DEF PollPressed, Poll, TypeOK
  <2> QED
    BY <1>1, <2>1, ToMenuloop DEF PollPressed
<1>2. CASE PollAgain
  <2>1. KeysTypeOK'
    BY <1>2, ReadTyped DEF PollAgain, Poll, TypeOK
  <2>2. i' \in 0..(OpenPolls + MessagePolls)
    <3>1. i \in 0..(OpenPolls + MessagePolls)
      BY DEF TypeOK
    <3>2. i < Polls /\ i' = i + 1
      BY <1>2 DEF PollAgain, Poll
    <3>3. Polls <= OpenPolls + MessagePolls /\ Polls \in Int
      BY PollsAssumption DEF Polls
    <3> QED
      BY <3>1, <3>2, <3>3, PollsAssumption
  <2>3. TypeOK'
    BY <1>2, <2>1, <2>2 DEF PollAgain, TypeOK
  <2>4. MessageTrue' /\ MenuScreenTrue' /\ PromptTrue' /\ RowsCleared'
    BY <1>2 DEF PollAgain, Poll, MessageTrue, MenuScreenTrue, PromptTrue, RowsCleared
  <2> QED
    BY <2>3, <2>4
<1>3. CASE PollTimeout
  <2>1. CASE msg = "interactive"
    <3>1. pc' = "done" /\ UNCHANGED <<kq, reg, msg, i, key, choice, nval, screen>>
      BY <1>3, <2>1 DEF PollTimeout, PollsOver
    <3> QED
      BY <3>1 DEF TypeOK, KeysTypeOK, MessageTrue, MenuScreenTrue, PromptTrue,
                  RowsCleared
  <2>2. CASE msg # "interactive"
    BY <1>3, <2>2, ToMenuloop DEF PollTimeout, PollsOver, TypeOK, KeysTypeOK
  <2> QED
    BY <2>1, <2>2
<1> QED
  BY <1>1, <1>2, <1>3

(* The menu as drawn marks the item that Enter runs.                       *)
LEMMA MarkIsChoice ==
  ASSUME NEW c \in 0..3
  PROVE  (c + 3) % 4 \in 0..3 /\ MenuItems[((c + 3) % 4) + 1] = c
<1>1. c = 0 \/ c = 1 \/ c = 2 \/ c = 3
  OBVIOUS
<1>2. (0 + 3) % 4 = 3 /\ (1 + 3) % 4 = 0 /\ (2 + 3) % 4 = 1 /\ (3 + 3) % 4 = 2
  OBVIOUS
<1> QED
  BY <1>1, <1>2 DEF MenuItems

LEMMA DrawStep == ASSUME IInv, DrawMenu PROVE IInv'
<1> USE DEF IInv
<1> DEFINE idx == (choice + 3) % 4
<1>1. idx \in 0..3 /\ MenuItems[idx + 1] = choice
  BY MarkIsChoice DEF TypeOK
<1>2. /\ pc' = "menu" /\ UNCHANGED <<kq, reg, msg, i, key, choice, nval>>
      /\ screen' = [prochot |-> IF 0 \in reg THEN "1" ELSE "0",
                    mark |-> idx, rows |-> <<>>]
  BY ReadWriteExact DEF DrawMenu, Draw, TypeOK
<1>3. TypeOK'
  <2>1. screen' \in Screens
    <3>1. <<>> \in Seq(Row) /\ idx \in -1..3
      BY <1>1, EmptySeq
    <3> HIDE DEF idx
    <3> QED
      BY <3>1, <1>2 DEF Screens
  <2> QED
    BY <2>1, <1>2 DEF TypeOK, KeysTypeOK
<1>4. MenuScreenTrue'
  BY <1>1, <1>2 DEF MenuScreenTrue, MenuItems
<1>5. MessageTrue' /\ PromptTrue' /\ RowsCleared'
  BY <1>2 DEF MessageTrue, PromptTrue, RowsCleared
<1> QED
  BY <1>3, <1>4, <1>5

(* Every keystroke the menu reads leads to choose() or back to the top,    *)
(* with an item of the menu as the choice.                                 *)
LEMMA MenuStep ==
  ASSUME IInv, MenuDigit \/ MenuUp \/ MenuDown \/ MenuEnter \/ MenuRedraw
  PROVE  IInv'
<1> USE DEF IInv
<1>1. PICK k \in KeyValue :
        /\ MenuKey(k)
        /\ pc' \in {"draw", "choose"} /\ key' \in {k, Uninit}
        /\ choice' \in 0..3
  <2>1. choice \in 0..3
    BY DEF TypeOK
  <2>2. ASSUME NEW k \in KeyValue, IsItem(k)
        PROVE  k.UnicodeChar - 48 \in 0..3
    BY <2>2 DEF IsItem
  <2>3. (choice + 3) % 4 \in 0..3 /\ (choice + 1) % 4 \in 0..3
    BY <2>1
  <2>4. CASE MenuDigit
    BY <2>4, <2>2 DEF MenuDigit
  <2>5. CASE MenuUp \/ MenuDown
    BY <2>5, <2>3 DEF MenuUp, MenuDown
  <2>6. CASE MenuEnter \/ MenuRedraw
    BY <2>6, <2>1 DEF MenuEnter, MenuRedraw
  <2> QED
    BY <2>4, <2>5, <2>6
<1>2. KeysTypeOK'
  BY <1>1, ReadTyped DEF MenuKey, TypeOK
<1>3. pc = "menu" /\ UNCHANGED <<reg, msg, i, nval, screen>>
  BY <1>1 DEF MenuKey
<1>4. TypeOK'
  BY <1>1, <1>2, <1>3 DEF TypeOK
<1> QED
  BY <1>1, <1>3, <1>4 DEF MessageTrue, MenuScreenTrue, PromptTrue, RowsCleared

LEMMA RowsTyped ==
  ASSUME NEW v \in SUBSET Word64
  PROVE  strRow(v) \in Row
BY RowShowsValue DEF Row

LEMMA ViewStep ==
  ASSUME IInv, ChooseExit \/ ChooseRead \/ ViewDone
  PROVE  IInv'
<1> USE DEF IInv
<1>1. CASE ChooseExit
  BY <1>1 DEF ChooseExit, TypeOK, KeysTypeOK, MessageTrue, MenuScreenTrue, PromptTrue,
              RowsCleared
<1>2. CASE ChooseRead
  <2>1. <<strRow(AsmReadMsr64(reg))>> \in Seq(Row)
    <3>1. strRow(AsmReadMsr64(reg)) \in Row
      BY ReadWriteExact, RowsTyped DEF TypeOK
    <3> QED
      BY <3>1
  <2>2. screen' \in Screens
    BY <1>2, <2>1, ShowTyped DEF ChooseRead, TypeOK
  <2>3. TypeOK'
    BY <1>2, <2>2 DEF ChooseRead, TypeOK, KeysTypeOK
  <2> QED
    BY <1>2, <2>3 DEF ChooseRead, MessageTrue, MenuScreenTrue, PromptTrue, RowsCleared
<1>3. CASE ViewDone
  BY <1>3, ToMenuloop DEF ViewDone, TypeOK, KeysTypeOK
<1> QED
  BY <1>1, <1>2, <1>3

(* The table shows the value read, the mask and the result.                *)
LEMMA TableShown ==
  ASSUME TypeOK, RowsCleared, pc = "choose",
         NEW v \in SUBSET Word64, NEW m \in SUBSET Word64, NEW r \in SUBSET Word64,
         Show(<<strRow(v), strRow(m), strRow(r)>>)
  PROVE  /\ screen' \in Screens
         /\ Len(screen'.rows) = 3
         /\ ShownValue(screen'.rows[1]) = v
         /\ ShownValue(screen'.rows[2]) = m
         /\ ShownValue(screen'.rows[3]) = r
<1> DEFINE rows == <<strRow(v), strRow(m), strRow(r)>>
<1>1. rows \in Seq(Row)
  BY RowsTyped
<1>2. screen.rows = <<>>
  BY DEF RowsCleared
<1>3. /\ screen' \in Screens
      /\ screen'.rows = <<>> \o rows
  <2> HIDE DEF rows
  <2> QED
    BY <1>1, <1>2, ShowTyped DEF TypeOK, rows
<1>4. screen'.rows = rows
  BY <1>1, <1>3, ConcatEmptySeq
<1>5. Len(rows) = 3 /\ rows[1] = strRow(v) /\ rows[2] = strRow(m) /\ rows[3] = strRow(r)
  OBVIOUS
<1> QED
  BY <1>3, <1>4, <1>5, RowShowsValue

(* clear_ProcHot and set_ProcHot put a true table above the prompt.        *)
LEMMA PromptStep ==
  ASSUME IInv, clear_ProcHot \/ set_ProcHot
  PROVE  IInv'
<1> USE DEF IInv
<1>1. reg \in SUBSET Word64 /\ AsmReadMsr64(reg) = reg
  BY ReadWriteExact DEF TypeOK
<1>2. CLEAR_ZERO \in SUBSET Word64 /\ SET_ZERO \in SUBSET Word64
  BY DEF CLEAR_ZERO, SET_ZERO, Word64
<1>3. CASE clear_ProcHot
  <2>1. /\ pc = "choose" /\ pc' = "confirm" /\ msg' = "disabled"
        /\ nval' = reg \cap CLEAR_ZERO /\ nval' \in SUBSET Word64
        /\ UNCHANGED <<kq, reg, i, key, choice>>
    BY <1>1, <1>3 DEF clear_ProcHot, Choose
  <2>2. Show(<<strRow(reg), strRow(CLEAR_ZERO), strRow(nval')>>)
    BY <1>1, <1>3 DEF clear_ProcHot
  <2>3. /\ screen' \in Screens
        /\ Len(screen'.rows) = 3
        /\ ShownValue(screen'.rows[1]) = reg
        /\ ShownValue(screen'.rows[2]) = CLEAR_ZERO
        /\ ShownValue(screen'.rows[3]) = nval'
    BY <1>1, <1>2, <2>1, <2>2, TableShown
  <2>4. TypeOK'
    BY <2>1, <2>3 DEF TypeOK, KeysTypeOK
  <2>5. 0 \notin nval' /\ nval' \cap Stable = reg' \cap Stable
    BY <2>1 DEF CLEAR_ZERO, Stable
  <2>6. PromptTrue'
    BY <2>1, <2>3, <2>5 DEF PromptTrue
  <2> QED
    BY <2>1, <2>4, <2>6 DEF MessageTrue, MenuScreenTrue, RowsCleared
<1>4. CASE set_ProcHot
  <2>1. /\ pc = "choose" /\ pc' = "confirm" /\ msg' = "enabled"
        /\ nval' = reg \cup SET_ZERO /\ nval' \in SUBSET Word64
        /\ UNCHANGED <<kq, reg, i, key, choice>>
    BY <1>1, <1>2, <1>4 DEF set_ProcHot, Choose
  <2>2. Show(<<strRow(reg), strRow(SET_ZERO), strRow(nval')>>)
    BY <1>1, <1>4 DEF set_ProcHot
  <2>3. /\ screen' \in Screens
        /\ Len(screen'.rows) = 3
        /\ ShownValue(screen'.rows[1]) = reg
        /\ ShownValue(screen'.rows[2]) = SET_ZERO
        /\ ShownValue(screen'.rows[3]) = nval'
    BY <1>1, <1>2, <2>1, <2>2, TableShown
  <2>4. TypeOK'
    BY <2>1, <2>3 DEF TypeOK, KeysTypeOK
  <2>5. 0 \in nval' /\ nval' \cap Stable = reg' \cap Stable
    BY <2>1 DEF SET_ZERO, Stable
  <2>6. PromptTrue'
    BY <2>1, <2>3, <2>5 DEF PromptTrue
  <2> QED
    BY <2>1, <2>4, <2>6 DEF MessageTrue, MenuScreenTrue, RowsCleared
<1> QED
  BY <1>3, <1>4

(* What an answer leaves behind, and what the write makes true.            *)
LEMMA AnswerTyped ==
  ASSUME TypeOK, NEW k \in KeyValue, Answer(k),
         NEW m \in {"abort", "enabled", "disabled"}, CallToMsg(m),
         reg' \in SUBSET Word64
  PROVE  TypeOK' /\ pc' = "poll" /\ msg' = m
<1>1. KeysTypeOK'
  BY ReadTyped DEF Answer, TypeOK
<1>2. Blank \in Screens
  <2>1. <<>> \in Seq(Row) /\ -1 \in -1..3
    BY EmptySeq
  <2> QED
    BY <2>1 DEF Blank, Screens
<1>3. 0 \in 0..(OpenPolls + MessagePolls)
  BY PollsAssumption
<1>4. pc' = "poll" /\ msg' = m /\ i' = 0 /\ key' = Uninit /\ choice' = 1
  BY DEF CallToMsg
<1>5. screen' = Blank /\ nval' = {}
  BY DEF Answer
<1> QED
  BY <1>1, <1>2, <1>3, <1>4, <1>5 DEF TypeOK

LEMMA AnswerStep ==
  ASSUME IInv, ConfirmAbort \/ ConfirmWrite
  PROVE  IInv'
<1> USE DEF IInv
<1>1. CASE ConfirmAbort
  <2>1. PICK k \in KeyValue : Answer(k)
    BY <1>1 DEF ConfirmAbort
  <2>2. CallToMsg("abort") /\ reg' \in SUBSET Word64
    BY <1>1 DEF ConfirmAbort, TypeOK
  <2>3. TypeOK' /\ pc' = "poll" /\ msg' = "abort"
    BY <2>1, <2>2, AnswerTyped
  <2> QED
    BY <2>3 DEF MessageTrue, MenuScreenTrue, PromptTrue, RowsCleared
<1>2. CASE ConfirmWrite
  <2>1. PICK k \in KeyValue : Answer(k)
    BY <1>2 DEF ConfirmWrite
  <2>2. reg' = nval /\ nval \in SUBSET Word64 /\ CallToMsg(msg)
    BY <1>2, ReadWriteExact DEF ConfirmWrite, TypeOK
  <2>3. (msg = "enabled" /\ 0 \in nval) \/ (msg = "disabled" /\ 0 \notin nval)
    BY <2>1 DEF Answer, PromptTrue
  <2>4. TypeOK' /\ pc' = "poll" /\ msg' = msg
    <3>1. CASE msg = "enabled"
      BY <2>1, <2>2, <3>1, AnswerTyped
    <3>2. CASE msg = "disabled"
      BY <2>1, <2>2, <3>2, AnswerTyped
    <3> QED
      BY <2>3, <3>1, <3>2
  <2> QED
    BY <2>2, <2>3, <2>4 DEF MessageTrue, MenuScreenTrue, PromptTrue, RowsCleared
<1> QED
  BY <1>1, <1>2

(* The environment: the platform's bits are not those anything is said of. *)
LEMMA EnvironmentStep ==
  ASSUME IInv, UserTypes \/ Firmware \/ UNCHANGED vars
  PROVE  IInv'
<1> USE DEF IInv
<1>1. CASE UserTypes
  <2>1. PICK k \in Keyboard : Type(k)
    BY <1>1 DEF UserTypes
  <2>2. /\ kq \in Seq(Keyboard) /\ Len(kq) < MaxQueue
        /\ kq' = Append(kq, k)
    BY <2>1 DEF Type, TypeOK, KeysTypeOK
  <2>3. KeysTypeOK'
    BY <2>2, AppendProperties, QueueAssumption DEF KeysTypeOK
  <2>4. UNCHANGED <<reg, pc, msg, i, key, choice, nval, screen>>
    BY <1>1 DEF UserTypes
  <2> QED
    BY <2>3, <2>4 DEF TypeOK, MessageTrue, MenuScreenTrue, PromptTrue, RowsCleared
<1>2. CASE Firmware
  <2>1. PICK S \in SUBSET FirmwareBits : reg' = (reg \ FirmwareBits) \cup S
    BY <1>2 DEF Firmware
  <2>2. UNCHANGED <<kq, pc, msg, i, key, choice, nval, screen>>
    BY <1>2 DEF Firmware
  <2>3. TypeOK'
    BY <2>1, <2>2, FirmwareAssumption DEF TypeOK, KeysTypeOK
  <2>4. 0 \notin FirmwareBits => (0 \in reg' <=> 0 \in reg)
    BY <2>1
  <2>5. reg' \cap Stable = reg \cap Stable
    BY <2>1 DEF Stable
  <2> QED
    BY <2>2, <2>3, <2>4, <2>5
       DEF MessageTrue, MenuScreenTrue, PromptTrue, RowsCleared
<1>3. CASE UNCHANGED vars
  BY <1>3 DEF vars, TypeOK, KeysTypeOK, MessageTrue, MenuScreenTrue, PromptTrue,
              RowsCleared
<1> QED
  BY <1>1, <1>2, <1>3

LEMMA IInvNext == IInv /\ [Next]_vars => IInv'
BY PollStep, DrawStep, MenuStep, ViewStep, PromptStep, AnswerStep, EnvironmentStep
   DEF Next, Program, Terminated

(* In every reachable state the types are right, the menu's screen is true *)
(* (marked item, BD_PROCHOT bit), a success message is true while it is    *)
(* shown, and the confirmation prompt stands below a true table.           *)
THEOREM ProgramInvariant == Spec => []IInv
BY IInvInit, IInvNext, PTL DEF Spec

(* The `>' of the menu is on the item Enter runs, and its BD_PROCHOT bit   *)
(* is the register's.                                                      *)
THEOREM MenuIsTrue == Spec => []MenuScreenTrue
<1>1. IInv => MenuScreenTrue
  BY DEF IInv
<1> QED
  BY <1>1, ProgramInvariant, PTL

(* A message that BD_PROCHOT was set or cleared is true while it is shown. *)
THEOREM MessageIsTrue == Spec => []MessageTrue
<1>1. IInv => MessageTrue
  BY DEF IInv
<1> QED
  BY <1>1, ProgramInvariant, PTL

(* The confirmation is asked for below a table that is true.               *)
THEOREM PromptIsTrue == Spec => []PromptTrue
<1>1. IInv => PromptTrue
  BY DEF IInv
<1> QED
  BY <1>1, ProgramInvariant, PTL

(* Only ConfirmWrite leaves the prompt with anything but an abort message. *)
LEMMA WritingIsConfirmWrite ==
  ASSUME IInv, [Next]_vars, Writing
  PROVE  ConfirmWrite
<1>1. pc = "confirm" /\ pc' = "poll" /\ msg' # "abort"
  BY DEF Writing
<1>2. ~UNCHANGED vars /\ ~UserTypes /\ ~Firmware /\ ~Terminated
  BY <1>1 DEF vars, UserTypes, Firmware, Terminated
<1>3. ~PollPressed /\ ~PollAgain /\ ~PollTimeout /\ ~DrawMenu
  BY <1>1 DEF PollPressed, PollAgain, PollTimeout, PollsOver, Poll, DrawMenu, Draw
<1>4. ~MenuDigit /\ ~MenuUp /\ ~MenuDown /\ ~MenuEnter /\ ~MenuRedraw
  BY <1>1 DEF MenuDigit, MenuUp, MenuDown, MenuEnter, MenuRedraw, MenuKey
<1>5. ~ChooseExit /\ ~ChooseRead /\ ~ViewDone /\ ~clear_ProcHot /\ ~set_ProcHot
  BY <1>1 DEF ChooseExit, ChooseRead, ViewDone, clear_ProcHot, set_ProcHot, Choose
<1>6. ~ConfirmAbort
  BY <1>1 DEF ConfirmAbort, CallToMsg
<1> QED
  BY <1>2, <1>3, <1>4, <1>5, <1>6 DEF Next, Program

(* The register is written with exactly what the RESULT row showed.        *)
THEOREM WrittenAsShown == Spec => ResultShownIsWritten
<1> DEFINE A == Writing => /\ Len(screen.rows) = 3
                           /\ reg' = ShownValue(screen.rows[3])
<1>1. IInv /\ [Next]_vars => [A]_vars
  <2> SUFFICES ASSUME IInv, [Next]_vars, Writing
               PROVE  /\ Len(screen.rows) = 3
                      /\ reg' = ShownValue(screen.rows[3])
    OBVIOUS
  <2>1. reg' = AsmWriteMsr64(nval) /\ nval \in SUBSET Word64
    BY WritingIsConfirmWrite DEF ConfirmWrite, IInv, TypeOK
  <2>2. pc = "confirm"
    BY DEF Writing
  <2> QED
    BY <2>1, <2>2, ReadWriteExact DEF IInv, PromptTrue
<1> QED
  BY ProgramInvariant, <1>1, PTL DEF Spec, ResultShownIsWritten

(* While ReadKeyStroke does not fail, a write takes a keystroke that was   *)
(* waiting off the console, and it is not Esc, n or N: an answer is what   *)
(* writes, never an empty key.  (A read that fails does write without one: *)
(* the run ZPH_noanswer shows it.)                                         *)
THEOREM AnswerWrites ==
  ReadMayFail = FALSE /\ Spec => WriteNeedsAnswer
<1> SUFFICES ASSUME ReadMayFail = FALSE
             PROVE  Spec => WriteNeedsAnswer
  OBVIOUS
<1> DEFINE A == Writing => /\ kq # <<>> /\ kq' = Tail(kq)
                           /\ ~Refuses(Head(kq))
<1>1. IInv /\ [Next]_vars => [A]_vars
  <2> SUFFICES ASSUME IInv, [Next]_vars, Writing
               PROVE  kq # <<>> /\ kq' = Tail(kq) /\ ~Refuses(Head(kq))
    OBVIOUS
  <2>1. PICK k \in KeyValue : Answer(k) /\ ~Refuses(k)
    BY WritingIsConfirmWrite DEF ConfirmWrite
  <2>2. kq # <<>> /\ k = Head(kq) /\ kq' = Tail(kq)
    BY <2>1 DEF Answer, WaitForKey, ReadKeyStroke
  <2> QED
    BY <2>1, <2>2
<1> QED
  BY ProgramInvariant, <1>1, PTL DEF Spec, WriteNeedsAnswer

-----------------------------------------------------------------------------
(* The key toMsg goes on polling with does not end it: it is unwritten, or *)
(* was looked at and passed over.  A read that leaves it as it was cannot  *)
(* end the countdown then.                                                 *)
KeyPassedOver == pc = "poll" => ~EndsToMsg(key)

LEMMA PassedOverInit == Init => KeyPassedOver
BY DEF Init, KeyPassedOver, EndsToMsg, Uninit, CHAR_CARRIAGE_RETURN, SCAN_ESC

LEMMA PassedOverNext ==
  ASSUME KeyPassedOver, [Next]_vars
  PROVE  KeyPassedOver'
<1> USE DEF KeyPassedOver
<1>1. ~EndsToMsg(Uninit)
  BY DEF EndsToMsg, Uninit, CHAR_CARRIAGE_RETURN, SCAN_ESC
<1>2. CASE PollAgain
  BY <1>2 DEF PollAgain, EndsToMsg
<1>3. CASE PollPressed \/ PollTimeout
  BY <1>3 DEF PollPressed, PollTimeout, PollsOver, CallMenuloop
<1>4. CASE DrawMenu \/ ChooseExit \/ ChooseRead \/ ViewDone
  BY <1>4 DEF DrawMenu, Draw, ChooseExit, ChooseRead, ViewDone, CallMenuloop
<1>5. CASE MenuDigit \/ MenuUp \/ MenuDown \/ MenuEnter \/ MenuRedraw
  BY <1>5 DEF MenuDigit, MenuUp, MenuDown, MenuEnter, MenuRedraw
<1>6. CASE clear_ProcHot \/ set_ProcHot
  BY <1>6 DEF clear_ProcHot, set_ProcHot
<1>7. CASE ConfirmAbort \/ ConfirmWrite
  <2>1. key' = Uninit
    BY <1>7 DEF ConfirmAbort, ConfirmWrite, CallToMsg
  <2> QED
    BY <2>1, <1>1 DEF EndsToMsg
<1>8. CASE UserTypes \/ Firmware \/ Terminated \/ UNCHANGED vars
  BY <1>8 DEF UserTypes, Firmware, Terminated, vars, EndsToMsg
<1> QED
  BY <1>2, <1>3, <1>4, <1>5, <1>6, <1>7, <1>8 DEF Next, Program

LEMMA PassedOver == Spec => []KeyPassedOver
BY PassedOverInit, PassedOverNext, PTL DEF Spec

(* Only the end of the countdown leads from it to the menu.                *)
LEMMA OpeningIsPressed ==
  ASSUME [Next]_vars, pc = "poll", msg = "interactive", pc' = "draw"
  PROVE  PollPressed
<1>1. ~UNCHANGED vars /\ ~UserTypes /\ ~Firmware /\ ~Terminated
  BY DEF vars, UserTypes, Firmware, Terminated
<1>2. ~PollAgain /\ ~PollTimeout
  BY DEF PollAgain, PollTimeout, PollsOver
<1>3. ~MenuDigit /\ ~MenuUp /\ ~MenuDown /\ ~MenuEnter /\ ~MenuRedraw
  BY DEF MenuDigit, MenuUp, MenuDown, MenuEnter, MenuRedraw, MenuKey
<1>4. ~DrawMenu /\ ~ChooseExit /\ ~ChooseRead /\ ~ViewDone
  BY DEF DrawMenu, Draw, ChooseExit, ChooseRead, ViewDone, Choose
<1>5. ~clear_ProcHot /\ ~set_ProcHot /\ ~ConfirmAbort /\ ~ConfirmWrite
  BY DEF clear_ProcHot, set_ProcHot, Choose, ConfirmAbort, ConfirmWrite, Answer
<1> QED
  BY <1>1, <1>2, <1>3, <1>4, <1>5 DEF Next, Program

(* While the unwritten key of toMsg does not happen to hold a key that     *)
(* ends it, the menu opens only if such a key was typed, even if reads     *)
(* fail.  (What the stack may hold otherwise, the run ZPH_uninit shows.)   *)
THEOREM KeyOpensMenu ==
  (\A k \in Residue : ~EndsToMsg(k)) /\ Spec => InteractiveNeedsKey
<1> SUFFICES ASSUME \A k \in Residue : ~EndsToMsg(k)
             PROVE  Spec => InteractiveNeedsKey
  OBVIOUS
<1> DEFINE A == pc = "poll" /\ msg = "interactive" /\ pc' = "draw"
                  => kq # <<>> /\ EndsToMsg(Head(kq))
<1>1. KeyPassedOver /\ [Next]_vars => [A]_vars
  <2> SUFFICES ASSUME KeyPassedOver, [Next]_vars,
                      pc = "poll", msg = "interactive", pc' = "draw"
               PROVE  kq # <<>> /\ EndsToMsg(Head(kq))
    OBVIOUS
  <2>1. PICK k \in KeyValue : ReadKeyStroke(key, k) /\ EndsToMsg(k)
    BY OpeningIsPressed DEF PollPressed, Poll
  <2>2. ~EndsToMsg(NUL)
    BY DEF EndsToMsg, NUL, Char, CHAR_CARRIAGE_RETURN, SCAN_ESC
  <2>3. k # NUL /\ k \notin Residue /\ k # key
    BY <2>1, <2>2 DEF KeyPassedOver
  <2> QED
    BY <2>1, <2>3 DEF ReadKeyStroke
<1> QED
  BY PassedOver, <1>1, PTL DEF Spec, InteractiveNeedsKey

(* The safety behind EscWithinReach: while reads do not fail, a keystroke  *)
(* that ends the countdown and has fewer keystrokes before it than there   *)
(* are polls left stays so, whatever is typed behind it, until it opens    *)
(* the menu; the polls do not run out before it is read.                   *)
EscStaysInReach ==
  [][pc = "poll" /\ msg = "interactive" /\ InReach => InReach' \/ pc' = "draw"]_vars

LEMMA InReachKept ==
  ASSUME ReadMayFail = FALSE, IInv, [Next]_vars,
         pc = "poll", msg = "interactive", InReach
  PROVE  InReach' \/ pc' = "draw"
<1>1. PICK n \in 1..Len(kq) : EndsToMsg(kq[n]) /\ n <= OpenPolls - i
  BY DEF InReach
<1>2. kq \in Seq(Keyboard) /\ i \in Int /\ OpenPolls \in Int
  BY PollsAssumption DEF IInv, TypeOK, KeysTypeOK
<1>3. CASE PollPressed
  BY <1>3 DEF PollPressed, CallMenuloop
<1>4. CASE PollAgain
  <2>1. PICK k : ReadKeyStroke(key, k) /\ ~EndsToMsg(k)
    BY <1>4 DEF PollAgain, Poll
  <2>2. kq # <<>> /\ k = Head(kq) /\ kq' = Tail(kq) /\ i' = i + 1
    BY <1>1, <1>4, <2>1 DEF ReadKeyStroke, PollAgain
  <2>3. k = kq[1] /\ n # 1
    BY <1>1, <2>1, <2>2
  <2>4. n - 1 \in 1..Len(kq') /\ kq'[n - 1] = kq[n]
    BY <1>1, <1>2, <2>2, <2>3
  <2>5. EndsToMsg(kq'[n - 1]) /\ n - 1 <= OpenPolls - i'
    BY <1>1, <1>2, <2>2, <2>4
  <2> QED
    BY <2>4, <2>5 DEF InReach, EndsToMsg
<1>5. CASE PollTimeout
  <2>1. i >= OpenPolls
    BY <1>5 DEF PollTimeout, Polls
  <2> QED
    BY <1>1, <1>2, <2>1
<1>6. CASE UserTypes
  <2>1. PICK k \in Keyboard : kq' = Append(kq, k)
    BY <1>6 DEF UserTypes, Type
  <2>2. n \in 1..Len(kq') /\ kq'[n] = kq[n] /\ i' = i
    BY <1>1, <1>2, <1>6, <2>1 DEF UserTypes
  <2> QED
    BY <1>1, <2>2 DEF InReach, EndsToMsg
<1>7. CASE Firmware \/ Terminated \/ UNCHANGED vars
  <2>1. UNCHANGED <<kq, i>>
    BY <1>7 DEF Firmware, Terminated, vars
  <2> QED
    BY <1>1, <2>1 DEF InReach, EndsToMsg
<1>8. ~DrawMenu /\ ~ChooseExit /\ ~ChooseRead /\ ~ViewDone
  BY DEF DrawMenu, Draw, ChooseExit, ChooseRead, ViewDone, Choose
<1>9. ~MenuDigit /\ ~MenuUp /\ ~MenuDown /\ ~MenuEnter /\ ~MenuRedraw
  BY DEF MenuDigit, MenuUp, MenuDown, MenuEnter, MenuRedraw, MenuKey
<1>10. ~clear_ProcHot /\ ~set_ProcHot /\ ~ConfirmAbort /\ ~ConfirmWrite
  BY DEF clear_ProcHot, set_ProcHot, Choose, ConfirmAbort, ConfirmWrite, Answer
<1> QED
  BY <1>3, <1>4, <1>5, <1>6, <1>7, <1>8, <1>9, <1>10 DEF Next, Program

THEOREM EscIsHonoured == ReadMayFail = FALSE /\ Spec => EscStaysInReach
<1> SUFFICES ASSUME ReadMayFail = FALSE PROVE Spec => EscStaysInReach
  OBVIOUS
<1> DEFINE A == pc = "poll" /\ msg = "interactive" /\ InReach
                  => InReach' \/ pc' = "draw"
<1>1. IInv /\ [Next]_vars => [A]_vars
  BY InReachKept
<1> QED
  BY ProgramInvariant, <1>1, PTL DEF Spec, EscStaysInReach

(* The safety behind ViewKeyIsCommand: the keystroke that ends the value   *)
(* view is neither read nor overtaken before the menu waits for one, so it *)
(* is the one the menu acts on.                                            *)
ViewKeyKept ==
  [][kq # <<>> /\ pc \in {"view", "draw"}
       => /\ kq' # <<>> /\ Head(kq') = Head(kq)
          /\ pc' \in {"view", "draw", "menu"}]_vars

THEOREM ViewLeavesKey == Spec => ViewKeyKept
<1> DEFINE A == kq # <<>> /\ pc \in {"view", "draw"}
                  => /\ kq' # <<>> /\ Head(kq') = Head(kq)
                     /\ pc' \in {"view", "draw", "menu"}
<1>1. IInv /\ [Next]_vars => [A]_vars
  <2> SUFFICES ASSUME IInv, [Next]_vars, kq # <<>>, pc \in {"view", "draw"}
               PROVE  /\ kq' # <<>> /\ Head(kq') = Head(kq)
                      /\ pc' \in {"view", "draw", "menu"}
    OBVIOUS
  <2>1. CASE DrawMenu \/ ViewDone
    BY <2>1 DEF DrawMenu, Draw, ViewDone, CallMenuloop
  <2>2. CASE UserTypes
    <3>1. PICK k \in Keyboard : kq' = Append(kq, k)
      BY <2>2 DEF UserTypes, Type
    <3>2. kq \in Seq(Keyboard)
      BY DEF IInv, TypeOK, KeysTypeOK
    <3>3. kq' # <<>> /\ Head(kq') = Head(kq)
      BY <3>1, <3>2
    <3> QED
      BY <2>2, <3>3 DEF UserTypes
  <2>3. CASE Firmware \/ Terminated \/ UNCHANGED vars
    BY <2>3 DEF Firmware, Terminated, vars
  <2>4. ~PollPressed /\ ~PollAgain /\ ~PollTimeout
    BY DEF PollPressed, PollAgain, PollTimeout, PollsOver, Poll
  <2>5. ~MenuDigit /\ ~MenuUp /\ ~MenuDown /\ ~MenuEnter /\ ~MenuRedraw
    BY DEF MenuDigit, MenuUp, MenuDown, MenuEnter, MenuRedraw, MenuKey
  <2>6. ~ChooseExit /\ ~ChooseRead /\ ~clear_ProcHot /\ ~set_ProcHot
    BY DEF ChooseExit, ChooseRead, clear_ProcHot, set_ProcHot, Choose
  <2>7. ~ConfirmAbort /\ ~ConfirmWrite
    BY DEF ConfirmAbort, ConfirmWrite, Answer
  <2> QED
    BY <2>1, <2>2, <2>3, <2>4, <2>5, <2>6, <2>7 DEF Next, Program
<1> QED
  BY ProgramInvariant, <1>1, PTL DEF Spec, ViewKeyKept

-----------------------------------------------------------------------------
(* A step of the program is an operation of the switch, or nothing to it.  *)
LEMMA SwitchInit == Init => Switch!Init
BY DEF Init, Switch!Init

LEMMA SwitchNext == IInv /\ [Next]_vars => [Switch!Next]_(Switch!vars)
<1> SUFFICES ASSUME IInv, [Next]_vars
             PROVE  [Switch!Next]_(Switch!vars)
  OBVIOUS
<1> USE DEF IInv
<1>1. reg \in SUBSET Word64 /\ AsmReadMsr64(reg) = reg
  BY ReadWriteExact DEF TypeOK
<1>2. CASE \/ PollPressed \/ PollAgain \/ PollTimeout \/ DrawMenu
           \/ MenuDigit \/ MenuUp \/ MenuDown \/ MenuEnter \/ MenuRedraw
           \/ ChooseExit \/ ChooseRead \/ ViewDone
  <2>1. pc # "confirm" /\ pc' # "confirm" /\ UNCHANGED reg
    <3>1. CASE PollPressed \/ PollAgain \/ PollTimeout
      BY <3>1 DEF PollPressed, PollAgain, PollTimeout, PollsOver, Poll, CallMenuloop
    <3>2. CASE DrawMenu \/ ChooseExit \/ ChooseRead \/ ViewDone
      BY <3>2 DEF DrawMenu, Draw, ChooseExit, ChooseRead, ViewDone, Choose,
                  CallMenuloop
    <3>3. CASE MenuDigit \/ MenuUp \/ MenuDown \/ MenuEnter \/ MenuRedraw
      BY <3>3 DEF MenuDigit, MenuUp, MenuDown, MenuEnter, MenuRedraw, MenuKey
    <3> QED
      BY <1>2, <3>1, <3>2, <3>3
  <2> QED
    BY <2>1 DEF Switch!vars
<1>3. CASE clear_ProcHot
  <2>1. reg \cap CLEAR_ZERO = reg \ {0}
    BY <1>1 DEF CLEAR_ZERO
  <2>2. /\ pc = "choose" /\ pc' = "confirm" /\ msg' = "disabled"
        /\ nval' = reg \ {0} /\ UNCHANGED reg
    BY <1>1, <1>3, <2>1 DEF clear_ProcHot, Choose
  <2>3. Switch!Begin("clear")
    BY <2>2 DEF Switch!Begin
  <2> QED
    BY <2>3 DEF Switch!Next
<1>4. CASE set_ProcHot
  <2>1. /\ pc = "choose" /\ pc' = "confirm" /\ msg' = "enabled"
        /\ nval' = reg \cup {0} /\ UNCHANGED reg
    BY <1>1, <1>4 DEF set_ProcHot, Choose, SET_ZERO
  <2>2. Switch!Begin("set")
    BY <2>1 DEF Switch!Begin
  <2> QED
    BY <2>2 DEF Switch!Next
<1>5. CASE ConfirmAbort
  <2>1. pc = "confirm" /\ pc' = "poll" /\ UNCHANGED reg
    BY <1>5 DEF ConfirmAbort, Answer, CallToMsg
  <2>2. Switch!Cancel
    BY <2>1 DEF Switch!Cancel, Switch!Finish
  <2> QED
    BY <2>2 DEF Switch!Next
<1>6. CASE ConfirmWrite
  <2>1. pc = "confirm" /\ pc' = "poll" /\ reg' = nval
    BY <1>6, ReadWriteExact DEF ConfirmWrite, Answer, CallToMsg, TypeOK
  <2>2. Switch!Commit
    BY <2>1 DEF Switch!Commit, Switch!Finish
  <2> QED
    BY <2>2 DEF Switch!Next
<1>7. CASE Firmware
  <2>1. PICK S \in SUBSET FirmwareBits : reg' = (reg \ FirmwareBits) \cup S
    BY <1>7 DEF Firmware
  <2>2. UNCHANGED <<pc, msg, nval>>
    BY <1>7 DEF Firmware
  <2>3. Switch!Firmware
    BY <2>1, <2>2 DEF Switch!Firmware
  <2> QED
    BY <2>3 DEF Switch!Next
<1>8. CASE UserTypes \/ Terminated \/ UNCHANGED vars
  BY <1>8 DEF UserTypes, Terminated, vars, Switch!vars
<1> QED
  BY <1>2, <1>3, <1>4, <1>5, <1>6, <1>7, <1>8 DEF Next, Program

(* The interactive program, its countdown, menus, prompts, keystrokes and  *)
(* messages put aside, is the snapshot read-modify-write ProcHotSwitch.    *)
THEOREM ProgramImplementsSwitch == Spec => ImplementsSwitch
BY SwitchInit, SwitchNext, ProgramInvariant, PTL
   DEF Spec, ImplementsSwitch, Switch!Spec

(* So no step of the program, the write of a value read long ago included, *)
(* changes a bit that is neither BD_PROCHOT nor the platform's.            *)
THEOREM ProgramKeepsStableBits == Spec => StableBitsKept
<1>1. ASSUME IInv, [Next]_vars
      PROVE  [reg' \cap Switch!Stable = reg \cap Switch!Stable]_(Switch!vars)
  <2>1. [Switch!Next]_(Switch!vars)
    BY <1>1, SwitchNext
  <2>2. CASE Switch!Commit
    <3>1. pc = "confirm" /\ reg' = nval
      BY <2>2 DEF Switch!Commit, Switch!Finish
    <3>2. nval \cap Stable = reg \cap Stable
      BY <1>1, <3>1 DEF IInv, PromptTrue
    <3> QED
      BY <3>1, <3>2 DEF Stable, Switch!Stable, Word64, Switch!Word64
  <2>3. CASE Switch!Firmware
    BY <2>3 DEF Switch!Firmware, Switch!Stable
  <2>4. CASE Switch!Begin("set") \/ Switch!Begin("clear") \/ Switch!Cancel
    BY <2>4 DEF Switch!Begin, Switch!Cancel
  <2> QED
    BY <2>1, <2>2, <2>3, <2>4 DEF Switch!Next
<1> QED
  BY <1>1, ProgramInvariant, PTL DEF Spec, StableBitsKept, Switch!StableBitsKept
-----------------------------------------------------------------------------
(* The safety behind BufferDrains and MessagesEnd: between two keystrokes   *)
(* of the user every step of the program, polls included, leaves fewer      *)
(* keystrokes in the buffer, or as many and less of the way to the next     *)
(* wait or to the end.  Only a read that fails at a wait can keep it busy.  *)
Distance ==
  CASE pc = "poll"                -> 3 + (OpenPolls + MessagePolls) - i
    [] pc = "choose"              -> 4
    [] pc = "view"                -> 3
    [] pc = "draw"                -> 2
    [] pc \in {"menu", "confirm"} -> 1
    [] pc = "done"                -> 0

ReadFailed == ReadMayFail /\ pc \in {"menu", "confirm"} /\ kq' = kq

RunsToItsWait ==
  [][Program => /\ Distance \in Nat
                /\ \/ Len(kq') < Len(kq)
                   \/ kq' = kq /\ Distance' < Distance
                   \/ ReadFailed]_vars

LEMMA ReadShortens ==
  ASSUME KeysTypeOK, NEW old, NEW k, ReadKeyStroke(old, k)
  PROVE  \/ Len(kq') < Len(kq)
         \/ kq' = kq /\ (kq = <<>> \/ ReadMayFail)
<1>1. CASE kq # <<>> /\ kq' = Tail(kq)
  <2>1. Len(kq') = Len(kq) - 1 /\ Len(kq) \in Nat
    BY <1>1 DEF KeysTypeOK
  <2> QED
    BY <2>1
<1>2. CASE (kq = <<>> \/ ReadMayFail) /\ kq' = kq
  BY <1>2
<1> QED
  BY <1>1, <1>2 DEF ReadKeyStroke

Distances ==
  /\ Distance \in Nat
  /\ pc = "poll" => Distance = 3 + (OpenPolls + MessagePolls) - i /\ Distance >= 3
  /\ pc = "choose" => Distance = 4
  /\ pc = "view" => Distance = 3
  /\ pc = "draw" => Distance = 2
  /\ pc \in {"menu", "confirm"} => Distance = 1
  /\ pc = "done" => Distance = 0

LEMMA DistanceIs == TypeOK => Distances
<1> SUFFICES ASSUME TypeOK PROVE Distances
  OBVIOUS
<1>1. /\ OpenPolls + MessagePolls \in Nat /\ i \in 0..(OpenPolls + MessagePolls)
      /\ pc \in {"poll", "draw", "menu", "choose", "view", "confirm", "done"}
  BY PollsAssumption DEF TypeOK
<1> QED
  BY <1>1 DEF Distance, Distances

(* So between two keystrokes of the user the program takes finitely many   *)
(* steps before it waits again or ends, whatever the platform does.        *)
THEOREM ProgramRunsToItsWait == Spec => RunsToItsWait
<1> DEFINE A == Program => /\ Distance \in Nat
                           /\ \/ Len(kq') < Len(kq)
                              \/ kq' = kq /\ Distance' < Distance
                              \/ ReadFailed
<1>1. IInv /\ [Next]_vars => [A]_vars
  <2> SUFFICES ASSUME IInv, [Next]_vars, Program
               PROVE  \/ Len(kq') < Len(kq)
                      \/ kq' = kq /\ Distance' < Distance
                      \/ ReadFailed
    BY DistanceIs DEF IInv, Distances
  <2>1. Distances /\ Distances' /\ TypeOK /\ KeysTypeOK
    <3>1. TypeOK' => Distances'
      BY DistanceIs, PTL
    <3>2. TypeOK /\ TypeOK' /\ KeysTypeOK
      BY IInvNext DEF IInv, TypeOK
    <3> QED
      BY <3>1, <3>2, DistanceIs
  <2>2. CASE PollPressed
    <3>1. pc = "poll" /\ pc' = "draw"
      BY <2>2 DEF PollPressed, Poll, CallMenuloop
    <3>2. Len(kq') < Len(kq) \/ kq' = kq
      BY <2>1, <2>2, ReadShortens DEF PollPressed, Poll
    <3> QED
      BY <2>1, <3>1, <3>2 DEF Distances
  <2>3. CASE PollAgain
    <3>1. pc = "poll" /\ pc' = "poll" /\ i' = i + 1
      BY <2>3 DEF PollAgain, Poll
    <3>2. Len(kq') < Len(kq) \/ kq' = kq
      BY <2>1, <2>3, ReadShortens DEF PollAgain, Poll
    <3>3. i \in Int /\ OpenPolls + MessagePolls \in Int
      BY <2>1, PollsAssumption DEF TypeOK
    <3> QED
      BY <2>1, <3>1, <3>2, <3>3 DEF Distances
  <2>4. CASE PollTimeout
    <3>1. pc = "poll" /\ pc' \in {"draw", "done"} /\ kq' = kq
      BY <2>4 DEF PollTimeout, PollsOver, CallMenuloop
    <3> QED
      BY <2>1, <3>1 DEF Distances
  <2>5. CASE DrawMenu \/ ChooseExit \/ ChooseRead \/ ViewDone \/ clear_ProcHot \/ set_ProcHot
    <3>1. kq' = kq /\ \/ pc = "draw" /\ pc' = "menu"
                      \/ pc = "choose" /\ pc' \in {"done", "view", "confirm"}
                      \/ pc = "view" /\ pc' = "draw"
      BY <2>5 DEF DrawMenu, Draw, ChooseExit, ChooseRead, ViewDone, clear_ProcHot,
                  set_ProcHot, Choose, CallMenuloop
    <3> QED
      BY <2>1, <3>1 DEF Distances
  <2>6. CASE MenuDigit \/ MenuUp \/ MenuDown \/ MenuEnter \/ MenuRedraw
    <3>1. PICK k : pc = "menu" /\ WaitForKey /\ ReadKeyStroke(key, k)
      BY <2>6 DEF MenuDigit, MenuUp, MenuDown, MenuEnter, MenuRedraw, MenuKey
    <3> QED
      BY <2>1, <3>1, ReadShortens DEF WaitForKey, ReadFailed
  <2>7. CASE ConfirmAbort \/ ConfirmWrite
    <3>1. PICK k : pc = "confirm" /\ WaitForKey /\ ReadKeyStroke(key, k)
      BY <2>7 DEF ConfirmAbort, ConfirmWrite, Answer
    <3> QED
      BY <2>1, <3>1, ReadShortens DEF WaitForKey, ReadFailed
  <2> QED
    BY <2>2, <2>3, <2>4, <2>5, <2>6, <2>7 DEF Program
<1> QED
  BY ProgramInvariant, <1>1, PTL DEF Spec, RunsToItsWait

(* The safety behind MessagesEnd, whatever is typed and whether or not the  *)
(* reads fail: a step of the program in the countdown or while a message is *)
(* shown ends it, or is one more of the polls it has, and nobody else       *)
(* prolongs it.                                                             *)
PollsRunOut ==
  [][pc = "poll" /\ pc' = "poll"
       => /\ msg' = msg
          /\ i' = i \/ (Program /\ i' = i + 1 /\ i' <= Polls)
          /\ Program => i' = i + 1]_vars

(* So a message, and the countdown at the start, end after as many polls   *)
(* as they have left, and no event starts one of them again.               *)
THEOREM MessagesRunOut == Spec => PollsRunOut
<1> DEFINE A == pc = "poll" /\ pc' = "poll"
                  => /\ msg' = msg
                     /\ i' = i \/ (Program /\ i' = i + 1 /\ i' <= Polls)
                     /\ Program => i' = i + 1
<1>1. IInv /\ [Next]_vars => [A]_vars
  <2> SUFFICES ASSUME IInv, [Next]_vars, pc = "poll", pc' = "poll"
               PROVE  /\ msg' = msg
                      /\ i' = i \/ (Program /\ i' = i + 1 /\ i' <= Polls)
                      /\ Program => i' = i + 1
    OBVIOUS
  <2>1. CASE Program
    <3>1. PollAgain
      BY <2>1 DEF Program, PollPressed, CallMenuloop, PollTimeout, PollsOver, DrawMenu,
                  Draw, MenuDigit, MenuUp, MenuDown, MenuEnter, MenuRedraw, MenuKey,
                  ChooseExit, ChooseRead, ViewDone, clear_ProcHot, set_ProcHot, Choose,
                  ConfirmAbort, ConfirmWrite, Answer
    <3>2. msg' = msg /\ i' = i + 1 /\ i < Polls
      BY <3>1 DEF PollAgain, Poll
    <3>3. i \in Int /\ Polls \in Int
      BY PollsAssumption DEF IInv, TypeOK, Polls
    <3> QED
      BY <2>1, <3>2, <3>3
  <2>2. CASE ~Program
    <3>1. UserTypes \/ Firmware \/ Terminated \/ UNCHANGED vars
      BY <2>2 DEF Next
    <3>2. msg' = msg /\ i' = i
      BY <3>1 DEF UserTypes, Firmware, Terminated, vars
    <3> QED
      BY <2>2, <3>2
  <2> QED
    BY <2>1, <2>2
<1> QED
  BY ProgramInvariant, <1>1, PTL DEF Spec, PollsRunOut
=============================================================================
