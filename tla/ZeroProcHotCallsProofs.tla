------------------------ MODULE ZeroProcHotCallsProofs ------------------------
(***************************************************************************)
(* The interactive program, call by call: that it implements ZeroProcHot,  *)
(* what its console shows at every moment, and so that the value shown     *)
(* above the question is the value written.  Proved for every keyboard,    *)
(* buffer size, residue of an unwritten key, reads that may fail, register *)
(* value, number of polls and set of bits the platform owns, and for every *)
(* console that the texts fit on.                                          *)
(***************************************************************************)
EXTENDS ZeroProcHotCalls, SequenceTheorems, TLAPS

(* A read takes the oldest key, or leaves the buffer and yields a key that *)
(* is zero, old or, in an unwritten variable, anything.                    *)
LEMMA ReadCases ==
  ASSUME kq \in Seq(Keyboard), NEW k, ReadKeyStroke(key, k)
  PROVE  \/ kq # <<>> /\ k = Head(kq) /\ kq' = Tail(kq) /\ k \in Keyboard /\ kq' # kq
         \/ kq' = kq
<1>1. CASE kq # <<>> /\ k = Head(kq) /\ kq' = Tail(kq)
  BY <1>1
<1>2. CASE kq' = kq
  BY <1>2
<1> QED
  BY <1>1, <1>2 DEF ReadKeyStroke

LEMMA ReadTyped ==
  ASSUME kq \in Seq(Keyboard), Len(kq) <= MaxQueue, NEW k, ReadKeyStroke(key, k)
  PROVE  kq' \in Seq(Keyboard) /\ Len(kq') <= MaxQueue
<1>1. CASE kq # <<>> /\ kq' = Tail(kq)
  BY <1>1, QueueAssumption
<1>2. CASE kq' = kq
  BY <1>2
<1> QED
  BY <1>1, <1>2, ReadCases

LEMMA HandoverInit == Init => Handover
BY QueueAssumption, PollsAssumption
   DEF Init, KeysInit, Handover, Controls, Polls

(* What CallToMsg and CallMenuloop hand over.                              *)
LEMMA CallHandover ==
  ASSUME Handover, kq' \in Seq(Keyboard) /\ Len(kq') <= MaxQueue, taken' = <<>>,
         CallMenuloop \/ \E m : CallToMsg(m)
  PROVE  Handover'
<1>1. CASE CallMenuloop
  BY <1>1 DEF CallMenuloop, Handover, Controls
<1>2. CASE \E m : CallToMsg(m)
  <2>1. pc' = "poll" /\ i' = 0
    BY <1>2 DEF CallToMsg
  <2>2. 0 < Polls'
    BY PollsAssumption DEF Polls
  <2> QED
    BY <2>1, <2>2 DEF Handover, Controls
<1> QED
  BY <1>1, <1>2

LEMMA HandoverNext == Handover /\ [Next]_vars => Handover'
<1> SUFFICES ASSUME Handover, [Next]_vars PROVE Handover'
  OBVIOUS
<1>1. CASE OutputNext
  BY <1>1 DEF OutputNext, Handover, Polls
<1>2. CASE Start
  BY <1>2, CallHandover DEF Start, Reached, Handover
<1>3. CASE Poll
  <2>1. PICK k \in KeyValue :
          /\ Reached("poll") /\ ReadKeyStroke(key, k)
          /\ \/ CallMenuloop
             \/ key' = k /\ pc' = "stall" /\ UNCHANGED <<out, msg, i, choice>>
          /\ taken' = taken
    BY <1>3 DEF Poll
  <2>2. kq' \in Seq(Keyboard) /\ Len(kq') <= MaxQueue
    BY <2>1, ReadTyped DEF Handover
  <2>3. pc = "poll" /\ taken = <<>>
    BY <2>1 DEF Reached, Handover
  <2>4. CASE CallMenuloop
    BY <2>1, <2>2, <2>3, <2>4, CallHandover
  <2>5. CASE pc' = "stall" /\ UNCHANGED <<msg, i>>
    BY <2>1, <2>2, <2>3, <2>5 DEF Handover, Controls, Polls
  <2> QED
    BY <2>1, <2>4, <2>5
<1>4. CASE Stall
  <2>1. /\ pc = "stall" /\ UNCHANGED <<kq, taken>>
        /\ kq \in Seq(Keyboard) /\ Len(kq) <= MaxQueue /\ taken = <<>> /\ i \in Nat
    BY <1>4 DEF Stall, Reached, Handover
  <2>2. CASE i + 1 < Polls /\ i' = i + 1 /\ pc' = "poll" /\ UNCHANGED <<msg, key, choice>>
    BY <2>1, <2>2 DEF Handover, Controls, Polls
  <2>3. CASE i' = i + 1 /\ pc' = "done"
    BY <2>1, <2>3 DEF Handover, Controls
  <2>4. CASE CallMenuloop
    BY <2>1, <2>4, CallHandover
  <2> QED
    BY <1>4, <2>2, <2>3, <2>4 DEF Stall
<1>5. CASE ClearForMenu \/ ReadHeader
  BY <1>5 DEF ClearForMenu, ReadHeader, Reached, Handover, Controls
<1>6. CASE WaitForEvent
  BY <1>6 DEF WaitForEvent, WaitForKey, Reached, Handover, Controls
<1>7. CASE MenuKey
  <2>1. PICK k \in KeyValue :
          /\ Reached("menukey") /\ ReadKeyStroke(key, k)
          /\ \/ pc' = "choose" /\ key' = Uninit
             \/ pc' = "menuloop"
          /\ UNCHANGED <<msg, i, taken>>
    BY <1>7 DEF MenuKey
  <2>2. kq' \in Seq(Keyboard) /\ Len(kq') <= MaxQueue
    BY <2>1, ReadTyped DEF Handover
  <2> QED
    BY <2>1, <2>2 DEF Handover, Controls, Reached
<1>8. CASE Exit \/ ReadToView \/ ReadToChange
  BY <1>8 DEF Exit, ReadToView, ReadToChange, Reached, Handover, Controls
<1>9. CASE ViewSeen
  BY <1>9, CallHandover DEF ViewSeen, Reached, Handover
<1>10. CASE ReadAnswer
  <2>1. PICK k \in KeyValue :
          /\ Reached("answer") /\ ReadKeyStroke(key, k) /\ key' = k /\ pc' = "answered"
          /\ taken' = (IF kq' = kq THEN <<>> ELSE <<k>>)
          /\ UNCHANGED <<msg, i>>
    BY <1>10 DEF ReadAnswer
  <2>2. kq' \in Seq(Keyboard) /\ Len(kq') <= MaxQueue
    BY <2>1, ReadTyped DEF Handover
  <2>3. key = Uninit /\ kq # <<>> /\ i \in Nat /\ kq \in Seq(Keyboard)
    BY <2>1 DEF Reached, Handover
  <2>4. \/ taken' = <<key'>> /\ key' \in Keyboard
        \/ taken' = <<>> /\ kq' # <<>> /\ ReadMayFail /\ (key' = NUL \/ key' \in Residue)
    <3>1. CASE k = Head(kq) /\ kq' = Tail(kq)
      BY <2>1, <2>3, <3>1
    <3>2. CASE ReadMayFail /\ kq' = kq /\ (k = NUL \/ k \in Residue)
      BY <2>1, <2>3, <3>2
    <3> QED
      BY <2>1, <2>3, <3>1, <3>2 DEF ReadKeyStroke
  <2> QED
    BY <2>1, <2>2, <2>3, <2>4 DEF Handover, Controls
<1>11. CASE ClearAndAbort \/ WriteMsr
  <2>1. /\ \E m : CallToMsg(m)
        /\ taken' = <<>> /\ kq' = kq
    BY <1>11 DEF ClearAndAbort, WriteMsr, Decided
  <2>2. kq' \in Seq(Keyboard) /\ Len(kq') <= MaxQueue
    BY <2>1 DEF Handover
  <2> QED
    BY <2>1, <2>2, CallHandover
<1>12. CASE ClearAndGoOn
  BY <1>12 DEF ClearAndGoOn, Reached, Handover, Controls, Refuses
<1>13. CASE UserTypes
  <2>1. PICK k \in Keyboard : Type(k)
    BY <1>13 DEF UserTypes
  <2>2. kq' \in Seq(Keyboard) /\ Len(kq') <= MaxQueue /\ kq' # <<>>
    BY <2>1, AppendProperties, QueueAssumption DEF Type, Handover
  <2>3. UNCHANGED <<pc, msg, i, key, choice, taken>>
    BY <1>13 DEF UserTypes
  <2> QED
    BY <2>2, <2>3 DEF Handover, Polls, Refuses
<1>14. CASE Firmware \/ Terminated \/ UNCHANGED vars
  BY <1>14 DEF Firmware, Terminated, vars, Handover, Polls, Refuses
<1> QED
  BY <1>1, <1>2, <1>3, <1>4, <1>5, <1>6, <1>7, <1>8, <1>9, <1>10, <1>11, <1>12,
     <1>13, <1>14 DEF Next, Program

(* What one call of the program leaves to the next, in every reachable     *)
(* state: see Handover.                                                    *)
THEOREM CallsHandOver == Spec => []Handover
BY HandoverInit, HandoverNext, PTL DEF Spec

-----------------------------------------------------------------------------
(* The two levels agree on the register, on keys and on what is read.      *)
LEMMA SameWords ==
  /\ \A r : Whole!AsmReadMsr64(r) = AsmReadMsr64(r)
  /\ \A r : Whole!AsmWriteMsr64(r) = AsmWriteMsr64(r)
  /\ \A d : Whole!strRow(d) = strRow(d)
  /\ Whole!SET_ZERO = SET_ZERO /\ Whole!CLEAR_ZERO = CLEAR_ZERO
BY DEF Whole!AsmReadMsr64, AsmReadMsr64, Whole!AsmWriteMsr64, AsmWriteMsr64,
       Whole!Join, Join, Whole!LowHalf, LowHalf, Whole!HighHalf, HighHalf,
       Whole!Word32, Word32, Whole!Word64, Word64, Whole!strRow, strRow,
       Whole!SET_ZERO, SET_ZERO, Whole!CLEAR_ZERO, CLEAR_ZERO

LEMMA SameKeys ==
  /\ Whole!KeyValue = KeyValue /\ Whole!Uninit = Uninit /\ Whole!NUL = NUL
  /\ \A k : Whole!EndsToMsg(k) <=> EndsToMsg(k)
  /\ \A k : Whole!Refuses(k) <=> Refuses(k)
  /\ Whole!Blank = Blank
BY DEF Whole!KeyValue, KeyValue, Whole!Uninit, Uninit, Whole!NUL, NUL, Whole!Char,
       Char, Whole!EndsToMsg, EndsToMsg, Whole!Refuses, Refuses, Whole!SCAN_ESC,
       SCAN_ESC, Whole!CHAR_CARRIAGE_RETURN, CHAR_CARRIAGE_RETURN, Whole!Blank, Blank

(* Outside ConfirmAndWrite's decision the buffers are the same, and a read *)
(* here is a read there.                                                   *)
LEMMA SameBuffer ==
  ASSUME Handover, ~Answered
  PROVE  taken = <<>> /\ WholeKq = kq /\ WholeKey = key
BY DEF Handover, Answered, WholeKq, WholeKey

LEMMA SameBufferNext ==
  ASSUME Handover', ~Answered'
  PROVE  taken' = <<>> /\ WholeKq' = kq' /\ WholeKey' = key'
BY DEF Handover, Answered, WholeKq, WholeKey

LEMMA SameRead ==
  ASSUME WholeKq = kq, WholeKq' = kq', NEW k, ReadKeyStroke(key, k)
  PROVE  Whole!ReadKeyStroke(key, k)
BY SameKeys DEF Whole!ReadKeyStroke, ReadKeyStroke

LEMMA WholeInit == Init => Whole!Init
<1> SUFFICES ASSUME Init PROVE Whole!Init
  OBVIOUS
<1>1. WholeKq = <<>> /\ WholePc = "poll" /\ WholeI = 0 /\ WholeKey = Uninit
  BY DEF Init, KeysInit, WholeKq, WholePc, WholeI, WholeKey, Answered
<1> QED
  BY <1>1, SameKeys DEF Init, Whole!Init, Whole!KeysInit

(* Calls to toMsg and menuloop at both levels.                             *)
LEMMA WholeCallMenuloop ==
  ASSUME CallMenuloop PROVE Whole!CallMenuloop
<1>1. WholePc' = "draw" /\ WholeI' = 0 /\ WholeKey' = Uninit
  BY DEF CallMenuloop, WholePc, WholeI, WholeKey, Answered
<1> QED
  BY <1>1, SameKeys DEF CallMenuloop, Whole!CallMenuloop

LEMMA WholeCallToMsg ==
  ASSUME NEW m, CallToMsg(m) PROVE Whole!CallToMsg(m)
<1>1. WholePc' = "poll" /\ WholeI' = 0 /\ WholeKey' = Uninit
  BY DEF CallToMsg, WholePc, WholeI, WholeKey, Answered
<1> QED
  BY <1>1, SameKeys DEF CallToMsg, Whole!CallToMsg

(* Printing, clearing, waiting and reading the answer change nothing that  *)
(* ZeroProcHot sees.                                                       *)
LEMMA SilentCalls ==
  ASSUME Handover, Handover',
         OutputNext \/ Start \/ ClearForMenu \/ WaitForEvent \/ ReadAnswer \/ ClearAndGoOn
  PROVE  UNCHANGED Whole!vars
<1>1. CASE OutputNext
  BY <1>1 DEF OutputNext, Whole!vars, WholeKq, WholePc, WholeI, WholeKey, Answered
<1>2. CASE Start
  <2>1. pc = "start" /\ msg = "interactive" /\ i = 0 /\ key = Uninit /\ choice = 1
    BY <1>2 DEF Start, Reached, Handover
  <2>2. /\ pc' = "poll" /\ msg' = "interactive" /\ i' = 0 /\ key' = Uninit /\ choice' = 1
        /\ UNCHANGED <<kq, reg, nval, drawn, taken>>
    BY <1>2 DEF Start, CallToMsg
  <2> QED
    BY <2>1, <2>2 DEF Whole!vars, WholeKq, WholePc, WholeI, WholeKey, Answered
<1>3. CASE ClearForMenu \/ WaitForEvent
  BY <1>3 DEF ClearForMenu, WaitForEvent, Reached, Whole!vars, WholeKq, WholePc,
              WholeI, WholeKey, Answered
<1>4. CASE ReadAnswer
  <2>1. PICK k \in KeyValue :
          /\ pc = "answer" /\ pc' = "answered" /\ ReadKeyStroke(key, k)
          /\ taken' = (IF kq' = kq THEN <<>> ELSE <<k>>)
          /\ UNCHANGED <<reg, msg, i, choice, nval, drawn>>
    BY <1>4 DEF ReadAnswer, Reached
  <2>2. taken = <<>> /\ key = Uninit /\ kq \in Seq(Keyboard)
    BY <2>1 DEF Handover
  <2>3. WholeKq' = WholeKq
    <3>1. CASE kq # <<>> /\ k = Head(kq) /\ kq' = Tail(kq) /\ k \in Keyboard /\ kq' # kq
      <4>1. WholeKq' = <<Head(kq)>> \o Tail(kq) /\ WholeKq = <<>> \o kq
        BY <2>1, <2>2, <3>1 DEF WholeKq
      <4> QED
        BY <2>2, <3>1, <4>1
    <3>2. CASE kq' = kq
      BY <2>1, <2>2, <3>2 DEF WholeKq
    <3> QED
      BY <2>1, <2>2, <3>1, <3>2, ReadCases
  <2>4. WholePc' = WholePc /\ WholeI' = WholeI /\ WholeKey' = WholeKey
    BY <2>1, <2>2 DEF WholePc, WholeI, WholeKey, Answered
  <2> QED
    BY <2>1, <2>3, <2>4 DEF Whole!vars
<1>5. CASE ClearAndGoOn
  BY <1>5 DEF ClearAndGoOn, Reached, Whole!vars, WholeKq, WholePc, WholeI, WholeKey,
              Answered
<1> QED
  BY <1>1, <1>2, <1>3, <1>4, <1>5

(* toMsg: the poll is the round, and the last Stall is its end.            *)
LEMMA PollStep ==
  ASSUME Handover, Handover', Poll
  PROVE  Whole!PollPressed \/ Whole!PollAgain
<1>1. PICK k \in KeyValue :
        /\ Reached("poll") /\ ReadKeyStroke(key, k)
        /\ \/ EndsToMsg(k) /\ CallMenuloop
           \/ /\ ~EndsToMsg(k) /\ key' = k /\ pc' = "stall"
              /\ UNCHANGED <<out, msg, i, choice>>
        /\ UNCHANGED <<con, reg, nval, drawn, taken>>
  BY DEF Poll
<1>2. pc = "poll" /\ pc' \in {"menuloop", "stall"}
  BY <1>1 DEF Reached, CallMenuloop
<1>3. WholeKq = kq /\ WholeKey = key /\ WholeKq' = kq' /\ WholeKey' = key'
  BY <1>2, SameBuffer, SameBufferNext DEF Answered
<1>4. Whole!Poll(k)
  <2>1. WholePc = "poll" /\ WholeI = i /\ i < Whole!Polls
    BY <1>2 DEF WholePc, WholeI, Handover, Polls, Whole!Polls
  <2> QED
    BY <1>1, <1>3, <2>1, SameRead DEF Whole!Poll
<1>5. CASE EndsToMsg(k) /\ CallMenuloop
  BY <1>1, <1>4, <1>5, SameKeys, WholeCallMenuloop DEF Whole!PollPressed
<1>6. CASE ~EndsToMsg(k) /\ key' = k /\ pc' = "stall" /\ UNCHANGED <<out, msg, i, choice>>
  <2>1. WholePc' = WholePc /\ WholeI' = WholeI + 1 /\ WholeKey' = k
    BY <1>2, <1>3, <1>6 DEF WholePc, WholeI
  <2> QED
    BY <1>1, <1>4, <1>6, <2>1, SameKeys DEF Whole!PollAgain
<1> QED
  BY <1>1, <1>5, <1>6

LEMMA StallStep ==
  ASSUME Handover, Handover', Stall
  PROVE  Whole!PollTimeout \/ UNCHANGED Whole!vars
<1>1. pc = "stall" /\ UNCHANGED <<kq, con, reg, nval, drawn, taken>> /\ i \in Nat
  BY DEF Stall, Reached, Handover
<1>2. pc' \in {"poll", "done", "menuloop"}
  BY DEF Stall, CallMenuloop
<1>3. WholeKq = kq /\ WholeKey = key /\ WholeKq' = kq /\ WholeKey' = key'
  BY <1>1, <1>2, SameBuffer, SameBufferNext DEF Answered
<1>4. WholePc = "poll" /\ WholeI = i + 1 /\ Whole!Polls = Polls
  BY <1>1 DEF WholePc, WholeI, Polls, Whole!Polls
<1>5. CASE i' = i + 1 /\ pc' = "poll" /\ UNCHANGED <<msg, key, choice>>
  BY <1>1, <1>3, <1>4, <1>5 DEF WholePc, WholeI, Whole!vars
<1>6. CASE /\ i + 1 >= Polls /\ msg = "interactive" /\ i' = i + 1 /\ pc' = "done"
           /\ UNCHANGED <<out, msg, key, choice>>
  <2>1. WholePc' = "done" /\ WholeI' = WholeI
    BY <1>4, <1>6 DEF WholePc, WholeI
  <2> QED
    BY <1>1, <1>3, <1>4, <1>6, <2>1 DEF Whole!PollTimeout, Whole!PollsOver
<1>7. CASE i + 1 >= Polls /\ msg # "interactive" /\ CallMenuloop
  BY <1>1, <1>3, <1>4, <1>7, WholeCallMenuloop DEF Whole!PollTimeout, Whole!PollsOver
<1> QED
  BY <1>5, <1>6, <1>7 DEF Stall

(* menuloop: what the header says is fixed by the one rdmsr.               *)
LEMMA ReadHeaderStep ==
  ASSUME Handover, Handover', ReadHeader
  PROVE  Whole!DrawMenu
<1>1. /\ pc = "header" /\ pc' = "menu"
      /\ UNCHANGED <<kq, reg, msg, i, key, choice, nval, taken>>
      /\ drawn' = [prochot |-> Bit(AsmReadMsr64(reg), 0)[1],
                   mark |-> (choice + 3) % 4, rows |-> <<>>]
  BY DEF ReadHeader, Reached
<1>2. WholeKq' = WholeKq /\ WholeKey' = WholeKey /\ WholeI' = WholeI
  BY <1>1 DEF WholeKq, WholeKey, WholeI, Answered
<1>3. WholePc = "draw" /\ WholePc' = "menu"
  BY <1>1 DEF WholePc
<1>4. Bit(AsmReadMsr64(reg), 0)[1]
        = IF 0 \in Whole!AsmReadMsr64(reg) THEN "1" ELSE "0"
  BY SameWords DEF Bit
<1> QED
  BY <1>1, <1>2, <1>3, <1>4 DEF Whole!DrawMenu, Whole!Draw

LEMMA MenuKeyStep ==
  ASSUME Handover, Handover', MenuKey
  PROVE  \/ Whole!MenuDigit \/ Whole!MenuUp \/ Whole!MenuDown
         \/ Whole!MenuEnter \/ Whole!MenuRedraw
<1> USE DEF Whole!IsItem, Whole!IsArrow, Whole!SCAN_UP, SCAN_UP, Whole!SCAN_DOWN,
            SCAN_DOWN, Whole!CHAR_CARRIAGE_RETURN, CHAR_CARRIAGE_RETURN
<1>1. PICK k \in KeyValue :
        /\ Reached("menukey") /\ ReadKeyStroke(key, k)
        /\ \/ /\ k.UnicodeChar \in 48..51
              /\ choice' = k.UnicodeChar - 48
              /\ pc' = "choose" /\ key' = Uninit
           \/ /\ k.UnicodeChar \notin 48..51
              /\ k.ScanCode \in {SCAN_UP, SCAN_DOWN}
              /\ choice' = (choice + (IF k.ScanCode = SCAN_UP THEN 3 ELSE 1)) % 4
              /\ pc' = "menuloop" /\ key' = k
           \/ /\ k.UnicodeChar \notin 48..51
              /\ k.ScanCode \notin {SCAN_UP, SCAN_DOWN}
              /\ IF k.UnicodeChar = CHAR_CARRIAGE_RETURN
                   THEN pc' = "choose" /\ key' = Uninit
                   ELSE pc' = "menuloop" /\ key' = k
              /\ UNCHANGED choice
        /\ UNCHANGED <<con, reg, out, msg, i, nval, drawn, taken>>
  BY DEF MenuKey
<1>2. pc = "menukey" /\ pc' \in {"choose", "menuloop"} /\ kq # <<>>
  BY <1>1 DEF Reached, Handover
<1>3. WholeKq = kq /\ WholeKey = key /\ WholeKq' = kq' /\ WholeKey' = key'
  BY <1>2, SameBuffer, SameBufferNext DEF Answered
<1>4. /\ WholePc = "menu" /\ WholeI' = WholeI
      /\ pc' = "choose" => WholePc' = "choose"
      /\ pc' = "menuloop" => WholePc' = "draw"
  BY <1>1, <1>2 DEF WholePc, WholeI
<1>5. Whole!MenuKey(k)
  BY <1>1, <1>2, <1>3, <1>4, SameRead DEF Whole!MenuKey, Whole!WaitForKey
<1>6. k \in Whole!KeyValue /\ Whole!Uninit = Uninit
  BY SameKeys
<1>7. CASE k.UnicodeChar \in 48..51
  BY <1>1, <1>3, <1>4, <1>5, <1>6, <1>7 DEF Whole!MenuDigit
<1>8. CASE k.UnicodeChar \notin 48..51 /\ k.ScanCode = SCAN_UP
  BY <1>1, <1>3, <1>4, <1>5, <1>6, <1>8 DEF Whole!MenuUp
<1>9. CASE k.UnicodeChar \notin 48..51 /\ k.ScanCode = SCAN_DOWN
  BY <1>1, <1>3, <1>4, <1>5, <1>6, <1>9 DEF Whole!MenuDown
<1>10. CASE /\ k.UnicodeChar \notin 48..51 /\ k.ScanCode \notin {SCAN_UP, SCAN_DOWN}
            /\ k.UnicodeChar = CHAR_CARRIAGE_RETURN
  BY <1>1, <1>3, <1>4, <1>5, <1>6, <1>10 DEF Whole!MenuEnter
<1>11. CASE /\ k.UnicodeChar \notin 48..51 /\ k.ScanCode \notin {SCAN_UP, SCAN_DOWN}
            /\ k.UnicodeChar # CHAR_CARRIAGE_RETURN
  BY <1>1, <1>3, <1>4, <1>5, <1>6, <1>11 DEF Whole!MenuRedraw
<1> QED
  BY <1>7, <1>8, <1>9, <1>10, <1>11

(* choose: each operation is one step from its rdmsr on.                   *)
LEMMA ChooseStep ==
  ASSUME Handover, Handover', Exit \/ ReadToView \/ ReadToChange
  PROVE  \/ Whole!ChooseExit \/ Whole!ChooseRead
         \/ Whole!clear_ProcHot \/ Whole!set_ProcHot
<1> USE DEF Whole!Choose, Whole!Show
<1>1. pc = "choose" /\ pc' \in {"done", "view", "confirm"}
      /\ UNCHANGED <<kq, reg, i, key, choice, taken>>
  BY DEF Exit, ReadToView, ReadToChange, Reached
<1>2. /\ WholePc = "choose" /\ WholePc' = pc'
      /\ WholeKq' = WholeKq /\ WholeKey' = WholeKey /\ WholeI' = WholeI
  BY <1>1 DEF WholePc, WholeKq, WholeKey, WholeI, Answered
<1>3. CASE Exit
  BY <1>1, <1>2, <1>3 DEF Exit, Whole!ChooseExit
<1>4. CASE ReadToView
  BY <1>1, <1>2, <1>4, SameWords DEF ReadToView, Whole!ChooseRead
<1>5. CASE ReadToChange /\ choice = 2
  <2>1. /\ pc' = "confirm" /\ msg' = "disabled"
        /\ nval' = AsmReadMsr64(reg) \cap CLEAR_ZERO
        /\ drawn' = [drawn EXCEPT !.rows = @ \o
             <<strRow(AsmReadMsr64(reg)), strRow(CLEAR_ZERO), strRow(nval')>>]
    BY <1>5 DEF ReadToChange
  <2> QED
    BY <1>1, <1>2, <1>5, <2>1, SameWords DEF Whole!clear_ProcHot
<1>6. CASE ReadToChange /\ choice = 3
  <2>1. /\ pc' = "confirm" /\ msg' = "enabled"
        /\ nval' = AsmReadMsr64(reg) \cup SET_ZERO
        /\ drawn' = [drawn EXCEPT !.rows = @ \o
             <<strRow(AsmReadMsr64(reg)), strRow(SET_ZERO), strRow(nval')>>]
    BY <1>6 DEF ReadToChange
  <2> QED
    BY <1>1, <1>2, <1>6, <2>1, SameWords DEF Whole!set_ProcHot
<1> QED
  BY <1>3, <1>4, <1>5, <1>6 DEF ReadToChange

LEMMA ViewStep ==
  ASSUME Handover, Handover', ViewSeen
  PROVE  Whole!ViewDone
<1>1. /\ pc = "view" /\ pc' = "menuloop" /\ kq # <<>>
      /\ UNCHANGED <<kq, reg, nval, drawn, taken>> /\ Whole!CallMenuloop
  BY WholeCallMenuloop DEF ViewSeen, Reached, WaitForKey, CallMenuloop
<1>2. WholePc = "view" /\ WholeKq = kq /\ WholeKq' = kq'
  BY <1>1, SameBuffer, SameBufferNext DEF WholePc, Answered
<1> QED
  BY <1>1, <1>2 DEF Whole!ViewDone, Whole!WaitForKey

(* ConfirmAndWrite: the answer that was put aside is read there now, and   *)
(* behind it stands what the user typed since.                             *)
LEMMA AnswerStep ==
  ASSUME Handover, Handover', ClearAndAbort \/ WriteMsr
  PROVE  Whole!ConfirmAbort \/ Whole!ConfirmWrite
<1>1. /\ pc \in {"answered", "wrmsr"} /\ pc' = "poll"
      /\ kq' = kq /\ nval' = {} /\ drawn' = Blank /\ taken' = <<>>
      /\ kq \in Seq(Keyboard)
  BY DEF ClearAndAbort, WriteMsr, Reached, Decided, CallToMsg, Handover
<1>2. WholePc = "confirm" /\ WholeKey = Uninit /\ WholeKq' = kq
  BY <1>1, SameBufferNext DEF WholePc, WholeKey, Answered
<1>3. key \in KeyValue /\ Whole!ReadKeyStroke(WholeKey, key) /\ WholeKq # <<>>
  <2>1. CASE taken = <<key>> /\ key \in Keyboard
    <3>1. WholeKq = <<key>> \o kq
      BY <2>1 DEF WholeKq
    <3>2. WholeKq # <<>> /\ Head(WholeKq) = key /\ Tail(WholeKq) = kq
      BY <1>1, <2>1, <3>1
    <3> QED
      BY <1>2, <2>1, <3>2 DEF Whole!ReadKeyStroke, KeyValue
  <2>2. CASE /\ taken = <<>> /\ kq # <<>> /\ ReadMayFail
             /\ key = NUL \/ key \in Residue
    <3>1. WholeKq = kq
      BY <1>1, <2>2 DEF WholeKq
    <3> QED
      BY <1>2, <2>2, <3>1, SameKeys DEF Whole!ReadKeyStroke, KeyValue
  <2> QED
    BY <1>1, <2>1, <2>2 DEF Handover
<1>4. Whole!Answer(key) /\ key \in Whole!KeyValue
  BY <1>1, <1>2, <1>3, SameKeys DEF Whole!Answer, Whole!WaitForKey
<1>5. CASE ClearAndAbort
  <2>1. Refuses(key) /\ CallToMsg("abort") /\ UNCHANGED reg
    BY <1>5 DEF ClearAndAbort
  <2> QED
    BY <1>4, <2>1, SameKeys, WholeCallToMsg DEF Whole!ConfirmAbort
<1>6. CASE WriteMsr
  <2>1. ~Refuses(key) /\ CallToMsg(msg) /\ reg' = AsmWriteMsr64(nval)
    BY <1>6 DEF WriteMsr, Reached, Handover
  <2> QED
    BY <1>4, <2>1, SameKeys, SameWords, WholeCallToMsg DEF Whole!ConfirmWrite
<1> QED
  BY <1>5, <1>6

LEMMA OthersStep ==
  ASSUME Handover, UserTypes \/ Firmware \/ Terminated \/ UNCHANGED vars
  PROVE  Whole!UserTypes \/ Whole!Firmware \/ UNCHANGED Whole!vars
<1>1. CASE UserTypes
  <2>1. PICK k \in Keyboard : Len(kq) < MaxQueue /\ kq' = Append(kq, k)
    BY <1>1 DEF UserTypes, Type
  <2>2. /\ pc # "done" /\ UNCHANGED <<reg, pc, msg, i, key, choice, nval, drawn, taken>>
        /\ kq \in Seq(Keyboard)
    BY <1>1 DEF UserTypes, Handover
  <2>3. Len(WholeKq) < MaxQueue + 1 /\ WholeKq' = Append(WholeKq, k)
    <3>1. CASE taken = <<key>> /\ key \in Keyboard
      BY <2>1, <2>2, <3>1, QueueAssumption DEF WholeKq
    <3>2. CASE taken = <<>>
      BY <2>1, <2>2, <3>2, QueueAssumption DEF WholeKq
    <3> QED
      BY <3>1, <3>2 DEF Handover
  <2>4. /\ WholePc # "done" /\ WholePc' = WholePc
        /\ WholeKey' = WholeKey /\ WholeI' = WholeI
    BY <2>2 DEF WholePc, WholeKey, WholeI, Answered
  <2> QED
    BY <2>1, <2>2, <2>3, <2>4 DEF Whole!UserTypes, Whole!Type
<1>2. CASE Firmware
  <2>1. /\ pc # "done" /\ UNCHANGED <<kq, pc, msg, i, key, choice, nval, drawn, taken>>
        /\ \E S \in SUBSET FirmwareBits : reg' = (reg \ FirmwareBits) \cup S
    BY <1>2 DEF Firmware
  <2>2. /\ WholePc # "done" /\ WholePc' = WholePc /\ WholeKq' = WholeKq
        /\ WholeKey' = WholeKey /\ WholeI' = WholeI
    BY <2>1 DEF WholePc, WholeKq, WholeKey, WholeI, Answered
  <2> QED
    BY <2>1, <2>2 DEF Whole!Firmware
<1>3. CASE Terminated \/ UNCHANGED vars
  BY <1>3 DEF Terminated, vars, Whole!vars, WholePc, WholeKq, WholeKey, WholeI, Answered
<1> QED
  BY <1>1, <1>2, <1>3

LEMMA WholeNext ==
  Handover /\ Handover' /\ [Next]_vars => [Whole!Next]_(Whole!vars)
<1> SUFFICES ASSUME Handover, Handover', [Next]_vars
             PROVE  Whole!Next \/ UNCHANGED Whole!vars
  OBVIOUS
<1>1. CASE OutputNext \/ Start \/ ClearForMenu \/ WaitForEvent \/ ReadAnswer \/ ClearAndGoOn
  BY <1>1, SilentCalls
<1>2. CASE Poll \/ Stall
  BY <1>2, PollStep, StallStep DEF Whole!Next, Whole!Program
<1>3. CASE ReadHeader \/ MenuKey
  BY <1>3, ReadHeaderStep, MenuKeyStep DEF Whole!Next, Whole!Program
<1>4. CASE Exit \/ ReadToView \/ ReadToChange \/ ViewSeen
  BY <1>4, ChooseStep, ViewStep DEF Whole!Next, Whole!Program
<1>5. CASE ClearAndAbort \/ WriteMsr
  BY <1>5, AnswerStep DEF Whole!Next, Whole!Program
<1>6. CASE UserTypes \/ Firmware \/ Terminated \/ UNCHANGED vars
  BY <1>6, OthersStep DEF Whole!Next
<1> QED
  BY <1>1, <1>2, <1>3, <1>4, <1>5, <1>6 DEF Next, Program

(* The program, call by call, implements ZeroProcHot: what the user and    *)
(* the platform do between two calls never shows anything that they could  *)
(* not bring about between two of its waits.                               *)
THEOREM CallsImplementWhole == Spec => ImplementsZeroProcHot
BY WholeInit, WholeNext, CallsHandOver, PTL
   DEF Spec, ImplementsZeroProcHot, Whole!Spec
-----------------------------------------------------------------------------
(* The console.  What the program prints is never covered again: the       *)
(* cursor is behind, or below, everything that stands on the screen.       *)
InFront(c) ==
  \A p \in c.texts : /\ p.text \in Printed
                     /\ \/ p.row < c.row
                        \/ p.row = c.row /\ p.to <= c.col

LEMMA TextsPrinted ==
  /\ \A s \in Printed : s \in STRING /\ s # CRLF /\ Width(s) \in Nat /\ Width(s) < Columns
  /\ CRLF \in STRING => Printed \cup {CRLF} \subseteq STRING
<1>1. CRLF \notin {"0", "1", ".", Header, Dashes, ProcHot, Title, Line, Arrow, NoArrow,
                   Equals, Question, PressEsc, Aborted, Enabled, Disabled}
  BY Zenon DEF CRLF, Header, Dashes, ProcHot, Title, Line, Arrow, NoArrow, Equals,
     Question, PressEsc, Aborted, Enabled, Disabled
<1>2. CRLF \notin RowHeads
  BY Zenon DEF CRLF, RowHeads, ValueHead, OrHead, AndHead, ResultHead
<1>3. CRLF \notin {Item[1], Item[2], Item[3], Item[4]}
  BY Zenon DEF CRLF, Item
<1>4. \A n \in 1..4 : n = 1 \/ n = 2 \/ n = 3 \/ n = 4
  OBVIOUS
<1>5. CRLF \notin Printed
  BY <1>1, <1>2, <1>3, <1>4 DEF Printed
<1> QED
  BY <1>5, WidthAssumption

(* A text goes beside what is there, a line end below it.                  *)
LEMMA TextAdded ==
  ASSUME NEW c \in Console, InFront(c), NEW s \in Printed
  PROVE  LET d == Screen(c.texts \cup {Text(c.row, c.col, s)}, c.row, c.col + Width(s))
         IN  Write(s)[c] = d /\ d \in Console /\ InFront(d)
<1>1. s \in STRING /\ s # CRLF /\ Width(s) \in Nat
  BY TextsPrinted
<1>2. c.row \in Nat /\ c.col \in Nat /\ c.texts \in SUBSET Piece
  BY DEF Console
<1>3. \A p \in c.texts : p \in Piece
  BY <1>2
<1>4. Remains(c, s) = c.texts
  <2>1. ASSUME NEW p \in c.texts, Covered(p, c, s) PROVE FALSE
    <3>1. /\ p.row = c.row /\ c.col < p.to
          /\ p.row < c.row \/ p.to <= c.col
      BY <2>1 DEF Covered, InFront
    <3>2. p.row \in Nat /\ p.to \in Nat
      BY <1>3 DEF Piece
    <3> QED
      BY <3>1, <3>2, <1>2
  <2>2. \A p \in c.texts : Spared(p, c, s) = {p}
    BY <2>1 DEF Spared
  <2> QED
    BY <2>2 DEF Remains
<1> DEFINE q == Text(c.row, c.col, s)
           T == c.texts \cup {q}
           d == Screen(T, c.row, c.col + Width(s))
<1>5. Write(s)[c] = d
  BY <1>1, <1>4 DEF Write
<1>6. /\ q \in Piece /\ q.row = c.row /\ q.text = s
      /\ q.to = c.col + Width(s)
  <2>1. c.col + Width(s) \in Nat
    BY <1>1, <1>2
  <2> QED
    BY <1>1, <1>2, <2>1 DEF Text, Piece
<1>7. d \in Console
  BY <1>1, <1>2, <1>6 DEF Screen, Console
<1>8. d.texts = T /\ d.row = c.row /\ d.col = c.col + Width(s)
  BY DEF Screen
<1> HIDE DEF d
<1>9. InFront(d)
  <2>1. ASSUME NEW p \in c.texts
        PROVE  /\ p.text \in Printed
               /\ \/ p.row < c.row
                  \/ p.row = c.row /\ p.to <= c.col + Width(s)
    <3>1. p.to \in Nat
      BY <1>3 DEF Piece
    <3> QED
      BY <3>1, <1>1, <1>2 DEF InFront
  <2> QED
    BY <2>1, <1>1, <1>2, <1>6, <1>8 DEF InFront
<1> QED
  BY <1>5, <1>7, <1>9 DEF d

LEMMA LineEnded ==
  ASSUME NEW c \in Console, InFront(c), c.row + 1 < Lines
  PROVE  LET d == Screen(c.texts, c.row + 1, 0)
         IN  Write(CRLF)[c] = d /\ d \in Console /\ InFront(d)
<1>1. /\ c.row \in Nat /\ c.texts \in SUBSET Piece
      /\ \A p \in c.texts : p.row \in Nat
  BY DEF Console, Piece
<1>2. Write(CRLF)[c] = Screen(c.texts, c.row + 1, 0)
  BY DEF Write, NewLine
<1> DEFINE d == Screen(c.texts, c.row + 1, 0)
<1>3. d \in Console /\ d.texts = c.texts /\ d.row = c.row + 1 /\ d.col = 0
  BY <1>1 DEF Screen, Console
<1> HIDE DEF d
<1>4. InFront(d)
  BY <1>1, <1>3 DEF InFront
<1> QED
  BY <1>2, <1>3, <1>4 DEF d

(* A string of at most four line ends and texts, part by part.             *)
After(c, s) ==
  CHOOSE r : r = [n \in 0..Len(s) |-> IF n = 0 THEN c ELSE Write(s[n])[r[n - 1]]]

LEMMA WrittenSteps ==
  ASSUME NEW c, NEW s, Len(s) \in Nat, NEW v,
         \A n \in 1..Len(s) : v[n] = Write(s[n])[IF n = 1 THEN c ELSE v[n - 1]]
  PROVE  /\ Written(c, s) = After(c, s)[Len(s)] /\ After(c, s)[0] = c
         /\ \A n \in 1..Len(s) : After(c, s)[n] = Write(s[n])[After(c, s)[n - 1]]
<1> DEFINE Loop(r) == r = [n \in 0..Len(s) |-> IF n = 0 THEN c ELSE Write(s[n])[r[n - 1]]]
           f == [n \in 0..Len(s) |-> IF n = 0 THEN c ELSE v[n]]
<1>1. Loop(f)
  OBVIOUS
<1>2. Loop(After(c, s))
  <2>1. Loop(CHOOSE r : Loop(r))
    BY <1>1
  <2> QED
    BY <2>1 DEF After
<1>3. Written(c, s) = After(c, s)[Len(s)]
  BY Zenon DEF Written, After
<1> QED
  BY <1>2, <1>3, SMTT(40)

LEMMA WrittenParts ==
  ASSUME NEW c, NEW s, Len(s) \in 0..4
  PROVE  /\ Len(s) = 0 => Written(c, s) = c
         /\ Len(s) = 1 => Written(c, s) = Write(s[1])[c]
         /\ Len(s) = 2 => Written(c, s) = Write(s[2])[Write(s[1])[c]]
         /\ Len(s) = 3 => Written(c, s) = Write(s[3])[Write(s[2])[Write(s[1])[c]]]
         /\ Len(s) = 4 =>
              Written(c, s) = Write(s[4])[Write(s[3])[Write(s[2])[Write(s[1])[c]]]]
<1> DEFINE c1 == Write(s[1])[c]
           c2 == Write(s[2])[c1]
           c3 == Write(s[3])[c2]
           c4 == Write(s[4])[c3]
           v == <<c1, c2, c3, c4>>
<1> HIDE DEF c1, c2, c3, c4
<1>1. \A n \in 1..Len(s) : n = 1 \/ n = 2 \/ n = 3 \/ n = 4
  <2>1. \A m \in 0..4 : \A n \in 1..m : n = 1 \/ n = 2 \/ n = 3 \/ n = 4
    OBVIOUS
  <2> QED
    BY <2>1, Zenon
<1>2. v[1] = c1 /\ v[2] = c2 /\ v[3] = c3 /\ v[4] = c4
  OBVIOUS
<1> HIDE DEF v
<1>3. ASSUME NEW n \in 1..Len(s)
      PROVE  v[n] = Write(s[n])[IF n = 1 THEN c ELSE v[n - 1]]
  <2>1. CASE n = 1
    BY <1>2, <2>1 DEF c1
  <2>2. CASE n = 2
    BY <1>2, <2>2 DEF c2
  <2>3. CASE n = 3
    BY <1>2, <2>3 DEF c3
  <2>4. CASE n = 4
    BY <1>2, <2>4 DEF c4
  <2> QED
    BY <1>1, <2>1, <2>2, <2>3, <2>4
<1>4. /\ Written(c, s) = After(c, s)[Len(s)] /\ After(c, s)[0] = c
      /\ \A n \in 1..Len(s) : After(c, s)[n] = Write(s[n])[After(c, s)[n - 1]]
  BY <1>3, WrittenSteps
<1> QED
  BY <1>4, SMTT(40)

(***************************************************************************)
(* The strings of o, printed one after the other, take the console from c  *)
(* to d, and on the way there is nothing on it that is not on d.           *)
(***************************************************************************)
Strings == Seq(Printed \cup {CRLF})

Prints(c, o, d) ==
  /\ o \in Seq(Strings)
  /\ \E f \in [0..Len(o) -> Console] :
       /\ f[0] = c /\ f[Len(o)] = d
       /\ \A n \in 1..Len(o) : f[n] = Written(f[n - 1], o[n])
       /\ \A n \in 0..Len(o) : f[n].texts \subseteq d.texts

LEMMA PrintsNothing ==
  ASSUME NEW c, NEW d
  PROVE  Prints(c, <<>>, d) <=> c = d /\ c \in Console
<1>1. Prints(c, <<>>, d) => c = d /\ c \in Console
  BY DEF Prints
<1>2. ASSUME c \in Console, c = d PROVE Prints(c, <<>>, d)
  <2> DEFINE f == [n \in 0..0 |-> c]
  <2>1. f \in [0..0 -> Console] /\ f[0] = c
    BY <1>2
  <2>2. <<>> \in Seq(Strings) /\ Len(<<>>) = 0
    OBVIOUS
  <2> HIDE DEF f
  <2>3. /\ \A n \in 1..0 : f[n] = Written(f[n - 1], <<>>[n])
        /\ \A n \in 0..0 : f[n].texts \subseteq d.texts
    BY <1>2, <2>1
  <2> QED
    BY <1>2, <2>1, <2>2, <2>3, Zenon DEF Prints
<1> QED
  BY <1>1, <1>2

LEMMA PrintsOne ==
  ASSUME NEW c \in Console, NEW d \in Console, NEW s \in Strings,
         Written(c, s) = d, c.texts \subseteq d.texts
  PROVE  Prints(c, <<s>>, d)
<1> DEFINE f == [n \in 0..1 |-> IF n = 0 THEN c ELSE d]
<1>1. f \in [0..1 -> Console] /\ f[0] = c /\ f[1] = d
  OBVIOUS
<1>2. <<s>> \in Seq(Strings) /\ Len(<<s>>) = 1 /\ <<s>>[1] = s
  OBVIOUS
<1> HIDE DEF f
<1>3. /\ \A n \in 1..1 : f[n] = Written(f[n - 1], <<s>>[n])
      /\ \A n \in 0..1 : f[n].texts \subseteq d.texts
  BY <1>1, <1>2
<1> QED
  BY <1>1, <1>2, <1>3, Zenon DEF Prints

Joint(f, g, m, k) == [n \in 0..(m + k) |-> IF n <= m THEN f[n] ELSE g[n - m]]

LEMMA Joined ==
  ASSUME NEW S, NEW m \in Nat, NEW k \in Nat,
         NEW f \in [0..m -> S], NEW g \in [0..k -> S], f[m] = g[0]
  PROVE  /\ Joint(f, g, m, k) \in [0..(m + k) -> S]
         /\ \A n \in 0..m : Joint(f, g, m, k)[n] = f[n]
         /\ \A n \in 0..k : Joint(f, g, m, k)[m + n] = g[n]
<1> DEFINE h == [n \in 0..(m + k) |-> IF n <= m THEN f[n] ELSE g[n - m]]
<1>1. h \in [0..(m + k) -> S]
  OBVIOUS
<1>2. \A n \in 0..m : h[n] = f[n]
  OBVIOUS
<1>3. \A n \in 0..k : h[m + n] = g[n]
  BY SMTT(40)
<1> HIDE DEF h
<1>4. Joint(f, g, m, k) = h
  BY DEF Joint, h
<1> QED
  BY <1>1, <1>2, <1>3, <1>4

LEMMA PrintsBoth ==
  ASSUME NEW c, NEW d, NEW e, NEW o, NEW u, Prints(c, o, d), Prints(d, u, e)
  PROVE  Prints(c, o \o u, e)
<1>1. PICK f \in [0..Len(o) -> Console] :
        /\ f[0] = c /\ f[Len(o)] = d
        /\ \A n \in 1..Len(o) : f[n] = Written(f[n - 1], o[n])
        /\ \A n \in 0..Len(o) : f[n].texts \subseteq d.texts
  BY DEF Prints
<1>2. PICK g \in [0..Len(u) -> Console] :
        /\ g[0] = d /\ g[Len(u)] = e
        /\ \A n \in 1..Len(u) : g[n] = Written(g[n - 1], u[n])
        /\ \A n \in 0..Len(u) : g[n].texts \subseteq e.texts
  BY DEF Prints
<1>3. /\ o \in Seq(Strings) /\ u \in Seq(Strings)
      /\ Len(o) \in Nat /\ Len(u) \in Nat
  BY DEF Prints
<1>4. /\ o \o u \in Seq(Strings) /\ Len(o \o u) = Len(o) + Len(u)
      /\ \A n \in 1..Len(o) : (o \o u)[n] = o[n]
      /\ \A n \in 1..Len(u) : (o \o u)[Len(o) + n] = u[n]
  BY <1>3
<1> DEFINE h == Joint(f, g, Len(o), Len(u))
<1>5. /\ h \in [0..(Len(o) + Len(u)) -> Console]
      /\ \A n \in 0..Len(o) : h[n] = f[n]
      /\ \A n \in 0..Len(u) : h[Len(o) + n] = g[n]
  <2>1. f[Len(o)] = g[0]
    BY <1>1, <1>2
  <2> QED
    BY <1>3, <2>1, Joined
<1> HIDE DEF h
<1>6. h[0] = c /\ h[Len(o) + Len(u)] = e
  <2>1. 0 \in 0..Len(o) /\ Len(u) \in 0..Len(u)
    BY <1>3
  <2> QED
    BY <1>1, <1>2, <1>5, <2>1, Zenon
<1>7. ASSUME NEW n \in 1..(Len(o) + Len(u))
      PROVE  h[n] = Written(h[n - 1], (o \o u)[n])
  <2>1. CASE n <= Len(o)
    <3>1. n \in 1..Len(o) /\ n - 1 \in 0..Len(o) /\ n \in 0..Len(o)
      BY <1>3, <2>1
    <3> QED
      BY <1>1, <1>4, <1>5, <3>1
  <2>2. CASE n > Len(o)
    <3> DEFINE k == n - Len(o)
    <3>1. /\ k \in 1..Len(u) /\ k - 1 \in 0..Len(u) /\ k \in 0..Len(u)
          /\ n = Len(o) + k /\ n - 1 = Len(o) + (k - 1)
      BY <1>3, <2>2
    <3> HIDE DEF k
    <3>2. h[n] = g[k] /\ h[n - 1] = g[k - 1] /\ (o \o u)[n] = u[k]
      BY <1>4, <1>5, <3>1
    <3> QED
      BY <1>2, <3>1, <3>2
  <2> QED
    BY <1>3, <2>1, <2>2
<1>8. ASSUME NEW n \in 0..(Len(o) + Len(u))
      PROVE  h[n].texts \subseteq e.texts
  <2>1. d.texts \subseteq e.texts
    BY <1>2, <1>3
  <2>2. CASE n <= Len(o)
    <3>1. n \in 0..Len(o)
      BY <1>3, <2>2
    <3> QED
      BY <1>1, <1>5, <2>1, <3>1
  <2>3. CASE n > Len(o)
    <3>1. n - Len(o) \in 0..Len(u) /\ n = Len(o) + (n - Len(o))
      BY <1>3, <2>3
    <3> QED
      BY <1>2, <1>5, <3>1
  <2> QED
    BY <1>3, <2>2, <2>3
<1> QED
  BY <1>4, <1>5, <1>6, <1>7, <1>8 DEF Prints

LEMMA PrintsNext ==
  ASSUME NEW c, NEW d, NEW o, o # <<>>, Prints(c, o, d)
  PROVE  /\ Prints(Written(c, Head(o)), Tail(o), d)
         /\ c \in Console /\ c.texts \subseteq d.texts
<1>1. PICK f \in [0..Len(o) -> Console] :
        /\ f[0] = c /\ f[Len(o)] = d
        /\ \A n \in 1..Len(o) : f[n] = Written(f[n - 1], o[n])
        /\ \A n \in 0..Len(o) : f[n].texts \subseteq d.texts
  BY DEF Prints
<1>2. /\ o \in Seq(Strings) /\ Len(o) \in Nat \ {0} /\ Head(o) = o[1]
      /\ Tail(o) \in Seq(Strings) /\ Len(Tail(o)) = Len(o) - 1
      /\ \A n \in 1..Len(o) - 1 : Tail(o)[n] = o[n + 1]
  BY DEF Prints
<1> DEFINE g == [n \in 0..(Len(o) - 1) |-> f[n + 1]]
<1>3. g \in [0..(Len(o) - 1) -> Console] /\ g[0] = f[1] /\ g[Len(o) - 1] = d
  BY <1>1, <1>2
<1>4. /\ \A n \in 1..(Len(o) - 1) : g[n] = Written(g[n - 1], Tail(o)[n])
      /\ \A n \in 0..(Len(o) - 1) : g[n].texts \subseteq d.texts
  BY <1>1, <1>2
<1>5. f[1] = Written(c, Head(o)) /\ c \in Console /\ c.texts \subseteq d.texts
  BY <1>1, <1>2
<1> HIDE DEF g
<1> QED
  BY <1>2, <1>3, <1>4, <1>5 DEF Prints

(***************************************************************************)
(* What the strings of the program do to a screen that has texts T and the *)
(* cursor behind them.                                                     *)
(***************************************************************************)
Ahead(T, row, col) == Screen(T, row, col) \in Console /\ InFront(Screen(T, row, col))

LEMMA TextAhead ==
  ASSUME NEW T, NEW row, NEW col, Ahead(T, row, col), NEW s \in Printed
  PROVE  /\ Write(s)[Screen(T, row, col)]
              = Screen(T \cup {Text(row, col, s)}, row, col + Width(s))
         /\ Ahead(T \cup {Text(row, col, s)}, row, col + Width(s))
<1>1. /\ Screen(T, row, col).texts = T
      /\ Screen(T, row, col).row = row /\ Screen(T, row, col).col = col
  BY DEF Screen
<1> QED
  BY <1>1, TextAdded DEF Ahead

LEMMA LineAhead ==
  ASSUME NEW T, NEW row, NEW col, Ahead(T, row, col), row + 1 < Lines
  PROVE  /\ Write(CRLF)[Screen(T, row, col)] = Screen(T, row + 1, 0)
         /\ Ahead(T, row + 1, 0)
<1>1. /\ Screen(T, row, col).texts = T
      /\ Screen(T, row, col).row = row /\ Screen(T, row, col).col = col
  BY DEF Screen
<1> QED
  BY <1>1, LineEnded DEF Ahead

LEMMA AheadPrints ==
  ASSUME NEW T, NEW row, NEW col, Ahead(T, row, col), NEW s \in Strings,
         NEW U, NEW y, NEW x, Ahead(U, y, x), T \subseteq U,
         Written(Screen(T, row, col), s) = Screen(U, y, x)
  PROVE  Prints(Screen(T, row, col), <<s>>, Screen(U, y, x))
<1>1. Screen(T, row, col).texts = T /\ Screen(U, y, x).texts = U
  BY DEF Screen
<1> QED
  BY <1>1, PrintsOne DEF Ahead

LEMMA PrintsText ==
  ASSUME NEW T, NEW row, NEW col, Ahead(T, row, col), NEW s \in Printed
  PROVE  LET U == T \cup {Text(row, col, s)} IN
         /\ Prints(Screen(T, row, col), << <<s>> >>, Screen(U, row, col + Width(s)))
         /\ Ahead(U, row, col + Width(s))
<1> DEFINE U == T \cup {Text(row, col, s)}
<1>1. <<s>> \in Strings /\ Len(<<s>>) = 1 /\ <<s>>[1] = s
  BY DEF Strings
<1>2. Written(Screen(T, row, col), <<s>>) = Write(s)[Screen(T, row, col)]
  BY <1>1, WrittenParts
<1>3. /\ Write(s)[Screen(T, row, col)] = Screen(U, row, col + Width(s))
      /\ Ahead(U, row, col + Width(s)) /\ T \subseteq U
  BY TextAhead
<1> QED
  BY <1>1, <1>2, <1>3, AheadPrints

LEMMA PrintsLine ==
  ASSUME NEW T, NEW row, NEW col, Ahead(T, row, col), row + 1 < Lines
  PROVE  /\ Prints(Screen(T, row, col), << <<CRLF>> >>, Screen(T, row + 1, 0))
         /\ Ahead(T, row + 1, 0)
<1>1. <<CRLF>> \in Strings /\ Len(<<CRLF>>) = 1 /\ <<CRLF>>[1] = CRLF
  BY DEF Strings
<1>2. Written(Screen(T, row, col), <<CRLF>>) = Write(CRLF)[Screen(T, row, col)]
  BY <1>1, WrittenParts
<1> QED
  BY <1>1, <1>2, LineAhead, AheadPrints

LEMMA PrintsLineText ==
  ASSUME NEW T, NEW row \in Nat, NEW col, Ahead(T, row, col), row + 1 < Lines,
         NEW s \in Printed
  PROVE  LET U == T \cup {Text(row + 1, 0, s)} IN
         /\ Prints(Screen(T, row, col), << <<CRLF, s>> >>, Screen(U, row + 1, Width(s)))
         /\ Ahead(U, row + 1, Width(s))
<1> DEFINE U == T \cup {Text(row + 1, 0, s)}
           w == <<CRLF, s>>
<1>1. w \in Strings /\ Len(w) = 2 /\ w[1] = CRLF /\ w[2] = s
  BY DEF Strings
<1> HIDE DEF w
<1>2. Written(Screen(T, row, col), w) = Write(s)[Write(CRLF)[Screen(T, row, col)]]
  BY <1>1, WrittenParts
<1>3. /\ Write(CRLF)[Screen(T, row, col)] = Screen(T, row + 1, 0)
      /\ Ahead(T, row + 1, 0)
  BY LineAhead
<1>4. /\ Write(s)[Screen(T, row + 1, 0)] = Screen(U, row + 1, 0 + Width(s))
      /\ Ahead(U, row + 1, 0 + Width(s)) /\ T \subseteq U /\ 0 + Width(s) = Width(s)
  BY <1>3, TextAhead, TextsPrinted
<1>5. Prints(Screen(T, row, col), <<w>>, Screen(U, row + 1, Width(s)))
  BY <1>1, <1>2, <1>3, <1>4, AheadPrints
<1> QED
  BY <1>4, <1>5 DEF w

LEMMA PrintsTextBetweenLines ==
  ASSUME NEW T, NEW row \in Nat, NEW col, Ahead(T, row, col), row + 2 < Lines,
         NEW s \in Printed
  PROVE  LET U == T \cup {Text(row + 1, 0, s)} IN
         /\ Prints(Screen(T, row, col), << <<CRLF, s, CRLF>> >>, Screen(U, row + 2, 0))
         /\ Ahead(U, row + 2, 0)
<1> DEFINE U == T \cup {Text(row + 1, 0, s)}
           w == <<CRLF, s, CRLF>>
<1>1. w \in Strings /\ Len(w) = 3 /\ w[1] = CRLF /\ w[2] = s /\ w[3] = CRLF
  BY DEF Strings
<1> HIDE DEF w
<1>2. Written(Screen(T, row, col), w)
        = Write(CRLF)[Write(s)[Write(CRLF)[Screen(T, row, col)]]]
  BY <1>1, WrittenParts
<1>3. row + 1 < Lines /\ row + 1 + 1 < Lines /\ row + 1 + 1 = row + 2
  BY ScreenAssumption
<1>4. /\ Write(CRLF)[Screen(T, row, col)] = Screen(T, row + 1, 0)
      /\ Ahead(T, row + 1, 0)
  BY <1>3, LineAhead
<1>5. /\ Write(s)[Screen(T, row + 1, 0)] = Screen(U, row + 1, 0 + Width(s))
      /\ Ahead(U, row + 1, 0 + Width(s)) /\ T \subseteq U
  BY <1>4, TextAhead
<1>6. /\ Write(CRLF)[Screen(U, row + 1, 0 + Width(s))] = Screen(U, row + 2, 0)
      /\ Ahead(U, row + 2, 0)
  BY <1>3, <1>5, LineAhead
<1>7. Prints(Screen(T, row, col), <<w>>, Screen(U, row + 2, 0))
  BY <1>1, <1>2, <1>4, <1>5, <1>6, AheadPrints
<1> QED
  BY <1>6, <1>7 DEF w

LEMMA PrintsTwoLinesText ==
  ASSUME NEW T, NEW row \in Nat, NEW col, Ahead(T, row, col), row + 2 < Lines,
         NEW s \in Printed
  PROVE  LET U == T \cup {Text(row + 2, 0, s)} IN
         /\ Prints(Screen(T, row, col), << <<CRLF, CRLF, s>> >>,
                   Screen(U, row + 2, Width(s)))
         /\ Ahead(U, row + 2, Width(s))
<1> DEFINE U == T \cup {Text(row + 2, 0, s)}
           w == <<CRLF, CRLF, s>>
<1>1. w \in Strings /\ Len(w) = 3 /\ w[1] = CRLF /\ w[2] = CRLF /\ w[3] = s
  BY DEF Strings
<1> HIDE DEF w
<1>2. Written(Screen(T, row, col), w)
        = Write(s)[Write(CRLF)[Write(CRLF)[Screen(T, row, col)]]]
  BY <1>1, WrittenParts
<1>3. row + 1 < Lines /\ row + 1 + 1 < Lines /\ row + 1 + 1 = row + 2
  BY ScreenAssumption
<1>4. /\ Write(CRLF)[Screen(T, row, col)] = Screen(T, row + 1, 0)
      /\ Ahead(T, row + 1, 0)
  BY <1>3, LineAhead
<1>5. /\ Write(CRLF)[Screen(T, row + 1, 0)] = Screen(T, row + 2, 0)
      /\ Ahead(T, row + 2, 0)
  BY <1>3, <1>4, LineAhead
<1>6. /\ Write(s)[Screen(T, row + 2, 0)] = Screen(U, row + 2, 0 + Width(s))
      /\ Ahead(U, row + 2, 0 + Width(s)) /\ T \subseteq U /\ 0 + Width(s) = Width(s)
  BY <1>5, TextAhead, TextsPrinted
<1>7. Prints(Screen(T, row, col), <<w>>, Screen(U, row + 2, Width(s)))
  BY <1>1, <1>2, <1>4, <1>5, <1>6, AheadPrints
<1> QED
  BY <1>6, <1>7 DEF w

LEMMA PrintsThreeLinesText ==
  ASSUME NEW T, NEW row \in Nat, NEW col, Ahead(T, row, col), row + 3 < Lines,
         NEW s \in Printed
  PROVE  LET U == T \cup {Text(row + 3, 0, s)} IN
         /\ Prints(Screen(T, row, col), << <<CRLF, CRLF, CRLF, s>> >>,
                   Screen(U, row + 3, Width(s)))
         /\ Ahead(U, row + 3, Width(s))
<1> DEFINE U == T \cup {Text(row + 3, 0, s)}
           w == <<CRLF, CRLF, CRLF, s>>
<1>1. /\ w \in Strings /\ Len(w) = 4
      /\ w[1] = CRLF /\ w[2] = CRLF /\ w[3] = CRLF /\ w[4] = s
  BY DEF Strings
<1> HIDE DEF w
<1>2. Written(Screen(T, row, col), w)
        = Write(s)[Write(CRLF)[Write(CRLF)[Write(CRLF)[Screen(T, row, col)]]]]
  BY <1>1, WrittenParts
<1>3. /\ row + 1 < Lines /\ row + 1 + 1 < Lines /\ row + 1 + 1 = row + 2
      /\ row + 2 + 1 < Lines /\ row + 2 + 1 = row + 3
  BY ScreenAssumption
<1>4. /\ Write(CRLF)[Screen(T, row, col)] = Screen(T, row + 1, 0)
      /\ Ahead(T, row + 1, 0)
  BY <1>3, LineAhead
<1>5. /\ Write(CRLF)[Screen(T, row + 1, 0)] = Screen(T, row + 2, 0)
      /\ Ahead(T, row + 2, 0)
  BY <1>3, <1>4, LineAhead
<1>6. /\ Write(CRLF)[Screen(T, row + 2, 0)] = Screen(T, row + 3, 0)
      /\ Ahead(T, row + 3, 0)
  BY <1>3, <1>5, LineAhead
<1>7. /\ Write(s)[Screen(T, row + 3, 0)] = Screen(U, row + 3, 0 + Width(s))
      /\ Ahead(U, row + 3, 0 + Width(s)) /\ T \subseteq U /\ 0 + Width(s) = Width(s)
  BY <1>6, TextAhead, TextsPrinted
<1>8. Prints(Screen(T, row, col), <<w>>, Screen(U, row + 3, Width(s)))
  BY <1>1, <1>2, <1>4, <1>5, <1>6, <1>7, AheadPrints
<1> QED
  BY <1>7, <1>8 DEF w

(* L"" prints nothing.                                                     *)
LEMMA PrintsEmpty ==
  ASSUME NEW c \in Console
  PROVE  Prints(c, << <<>> >>, c)
<1> DEFINE w == <<>>
<1>1. w \in Strings /\ Len(w) = 0
  BY DEF Strings
<1> HIDE DEF w
<1>2. Written(c, w) = c
  BY <1>1, WrittenParts
<1>3. Prints(c, <<w>>, c)
  BY <1>1, <1>2, PrintsOne
<1> QED
  BY <1>3 DEF w

(***************************************************************************)
(* The loop of strRow: 64 outputs of one digit each.                       *)
(***************************************************************************)
BitTexts(T, row, col, data, n) ==
  T \cup {Text(row, col + k - 1, strRow(data)[k]) : k \in 1..n}

LEMMA BitAhead ==
  ASSUME NEW T, NEW row, NEW col \in Nat, NEW data, NEW n \in 1..64,
         Ahead(BitTexts(T, row, col, data, n - 1), row, col + (n - 1))
  PROVE  /\ Written(Screen(BitTexts(T, row, col, data, n - 1), row, col + (n - 1)),
                    Bit(data, 64 - n))
              = Screen(BitTexts(T, row, col, data, n), row, col + n)
         /\ Ahead(BitTexts(T, row, col, data, n), row, col + n)
         /\ Bit(data, 64 - n) \in Strings
<1> DEFINE s == IF 64 - n \in data THEN "1" ELSE "0"
           U == BitTexts(T, row, col, data, n - 1)
<1>1. s \in Printed /\ Width(s) = 1 /\ s = strRow(data)[n]
  BY WidthAssumption DEF Printed, strRow
<1> HIDE DEF s
<1>2. BitTexts(T, row, col, data, n) = U \cup {Text(row, col + (n - 1), s)}
  <2>1. \A k : k \in 1..n <=> (k \in 1..(n - 1) \/ k = n)
    OBVIOUS
  <2>2. col + n - 1 = col + (n - 1)
    OBVIOUS
  <2> QED
    BY <1>1, <2>1, <2>2 DEF BitTexts
<1>3. col + (n - 1) + Width(s) = col + n
  BY <1>1
<1>4. Bit(data, 64 - n) = <<s>>
  BY DEF Bit, s
<1>5. <<s>> \in Strings /\ Len(<<s>>) = 1 /\ <<s>>[1] = s
  BY <1>1 DEF Strings
<1> HIDE DEF U
<1>6. Written(Screen(U, row, col + (n - 1)), <<s>>) = Write(s)[Screen(U, row, col + (n - 1))]
  BY <1>5, WrittenParts
<1>7. Ahead(U, row, col + (n - 1))
  BY DEF U
<1>8. /\ Write(s)[Screen(U, row, col + (n - 1))]
           = Screen(U \cup {Text(row, col + (n - 1), s)}, row, col + (n - 1) + Width(s))
      /\ Ahead(U \cup {Text(row, col + (n - 1), s)}, row, col + (n - 1) + Width(s))
  BY <1>1, <1>7, TextAhead
<1>9. /\ Written(Screen(U, row, col + (n - 1)), Bit(data, 64 - n))
           = Screen(BitTexts(T, row, col, data, n), row, col + n)
      /\ Ahead(BitTexts(T, row, col, data, n), row, col + n)
      /\ Bit(data, 64 - n) \in Strings
  BY <1>2, <1>3, <1>4, <1>5, <1>6, <1>8
<1> QED
  BY <1>9, Zenon DEF U

LEMMA BitsAhead ==
  ASSUME NEW T, NEW row \in Nat, NEW col \in Nat, Ahead(T, row, col), NEW data,
         NEW n \in 0..64
  PROVE  Ahead(BitTexts(T, row, col, data, n), row, col + n)
<1> DEFINE U == BitTexts(T, row, col, data, n)
           c == Screen(T, row, col)
           d == Screen(U, row, col + n)
<1>1. /\ T \in SUBSET Piece
      /\ \A p \in T : /\ p.row \in Nat /\ p.to \in Nat
                      /\ p.text \in Printed
                      /\ \/ p.row < row
                         \/ p.row = row /\ p.to <= col
  <2>1. c.texts = T /\ c.row = row /\ c.col = col
    BY DEF Screen
  <2> QED
    BY <2>1 DEF Ahead, InFront, Console, Piece
<1>2. ASSUME NEW k \in 1..n
      PROVE  LET p == Text(row, col + k - 1, strRow(data)[k]) IN
             /\ p \in Piece
             /\ p.text \in Printed /\ p.row = row /\ p.to <= col + n
  <2>1. /\ strRow(data)[k] \in Printed /\ strRow(data)[k] \in STRING
        /\ Width(strRow(data)[k]) = 1
    BY WidthAssumption DEF strRow, Printed
  <2> QED
    BY <2>1 DEF Text, Piece
<1>3. \A p \in U : \/ p \in T
                   \/ \E k \in 1..n : p = Text(row, col + k - 1, strRow(data)[k])
  BY DEF BitTexts
<1> HIDE DEF U
<1>4. d.texts = U /\ d.row = row /\ d.col = col + n
  BY DEF Screen
<1>5. U \in SUBSET Piece
  BY <1>1, <1>2, <1>3
<1>6. d \in Console
  BY <1>5 DEF Screen, Console
<1> HIDE DEF d
<1>7. ASSUME NEW p \in U
      PROVE  /\ p.text \in Printed
             /\ \/ p.row < row
                \/ p.row = row /\ p.to <= col + n
  <2>1. CASE p \in T
    BY <1>1, <2>1
  <2>2. CASE \E k \in 1..n : p = Text(row, col + k - 1, strRow(data)[k])
    BY <1>2, <2>2
  <2> QED
    BY <1>3, <2>1, <2>2
<1>8. InFront(d)
  BY <1>4, <1>7 DEF InFront
<1> QED
  BY <1>6, <1>8 DEF Ahead, d, U

LEMMA PrintsBits ==
  ASSUME NEW T, NEW row \in Nat, NEW col \in Nat, Ahead(T, row, col), NEW data
  PROVE  /\ Prints(Screen(T, row, col), [n \in 1..64 |-> Bit(data, 64 - n)],
                   Screen(BitTexts(T, row, col, data, 64), row, col + 64))
         /\ Ahead(BitTexts(T, row, col, data, 64), row, col + 64)
<1> DEFINE S(n) == Screen(BitTexts(T, row, col, data, n), row, col + n)
           o == [n \in 1..64 |-> Bit(data, 64 - n)]
           f == [n \in 0..64 |-> S(n)]
<1>1. \A n \in 0..64 : Ahead(BitTexts(T, row, col, data, n), row, col + n)
  BY BitsAhead
<1>2. \A n \in 0..64 : S(n) \in Console /\ S(n).texts = BitTexts(T, row, col, data, n)
  BY <1>1 DEF Ahead, Screen
<1>3. S(0) = Screen(T, row, col)
  <2>1. BitTexts(T, row, col, data, 0) = T /\ col + 0 = col
    BY DEF BitTexts
  <2> QED
    BY <2>1
<1>4. \A n \in 1..64 : Written(S(n - 1), Bit(data, 64 - n)) = S(n) /\ Bit(data, 64 - n) \in Strings
  BY <1>1, BitAhead
<1>5. \A n \in 0..64 : S(n).texts \subseteq S(64).texts
  <2>1. \A n \in 0..64 : BitTexts(T, row, col, data, n) \subseteq BitTexts(T, row, col, data, 64)
    BY DEF BitTexts
  <2> QED
    BY <1>2, <2>1, SMTT(40)
<1> HIDE DEF S
<1>6. f \in [0..64 -> Console] /\ \A n \in 0..64 : f[n] = S(n)
  BY <1>2
<1>7. o \in Seq(Strings) /\ Len(o) = 64 /\ \A n \in 1..64 : o[n] = Bit(data, 64 - n)
  BY <1>4
<1> HIDE DEF f, o
<1>8. /\ f[0] = Screen(T, row, col) /\ f[64] = S(64)
      /\ \A n \in 1..64 : f[n] = Written(f[n - 1], o[n])
      /\ \A n \in 0..64 : f[n].texts \subseteq S(64).texts
  <2>1. ASSUME NEW n \in 1..64 PROVE f[n] = Written(f[n - 1], o[n])
    <3>1. n \in 0..64 /\ n - 1 \in 0..64
      OBVIOUS
    <3>2. f[n] = S(n) /\ f[n - 1] = S(n - 1) /\ o[n] = Bit(data, 64 - n)
      BY <1>6, <1>7, <3>1
    <3> QED
      BY <1>4, <3>2
  <2>2. f[0] = S(0) /\ f[64] = S(64)
    BY <1>6
  <2>3. \A n \in 0..64 : f[n].texts \subseteq S(64).texts
    BY <1>5, <1>6
  <2> QED
    BY <1>3, <2>1, <2>2, <2>3
<1>9. Prints(Screen(T, row, col), o, S(64))
  <2>1. /\ f \in [0..Len(o) -> Console]
        /\ f[0] = Screen(T, row, col) /\ f[Len(o)] = S(64)
        /\ \A n \in 1..Len(o) : f[n] = Written(f[n - 1], o[n])
        /\ \A n \in 0..Len(o) : f[n].texts \subseteq S(64).texts
    BY <1>6, <1>7, <1>8
  <2> QED
    BY <1>7, <2>1, Zenon DEF Prints
<1> QED
  BY <1>1, <1>9 DEF o, S

(***************************************************************************)
(* The header, the menu and a row of bits, as they stand on the screen.    *)
(***************************************************************************)
HeaderTexts == {Text(0, 0, Header), Text(1, 0, Dashes), Text(3, 0, ProcHot)}

MenuRowTexts(mark, n) ==
  {Text(7 + n, 0, IF n = mark THEN Arrow ELSE NoArrow), Text(7 + n, 2, Item[n + 1])}
MenuTexts(bit, mark) ==
  HeaderTexts \cup {Text(3, 12, bit), Text(5, 0, Title), Text(6, 0, Line)}
    \cup MenuRowTexts(mark, 0) \cup MenuRowTexts(mark, 1)
    \cup MenuRowTexts(mark, 2) \cup MenuRowTexts(mark, 3)

LEMMA Concatenated ==
  ASSUME NEW a, NEW b
  PROVE  <<a>> \o <<b>> = <<a, b>>
<1> DEFINE S == {a, b}
           s == <<a>>
           t == <<b>>
           u == <<a, b>>
<1>1. s \in Seq(S) /\ t \in Seq(S) /\ u \in Seq(S)
  OBVIOUS
<1>2. Len(s) = 1 /\ Len(t) = 1 /\ Len(u) = 2
  OBVIOUS
<1>3. s[1] = a /\ t[1] = b /\ u[1] = a /\ u[2] = b
  OBVIOUS
<1> HIDE DEF s, t, u, S
<1>4. s \o t \in Seq(S) /\ Len(s \o t) = 2
  BY <1>1, <1>2, SMTT(40)
<1>5. \A k \in 1..2 : (s \o t)[k] = IF k <= Len(s) THEN s[k] ELSE t[k - Len(s)]
  BY <1>1, <1>2, ConcatProperties
<1>6. (s \o t)[1] = s[1] /\ (s \o t)[2] = t[1]
  BY <1>5, <1>2
<1>7. s \o t = u
  BY <1>1, <1>2, <1>3, <1>4, <1>6
<1> QED
  BY <1>7 DEF s, t, u

LEMMA PairsConcatenated ==
  ASSUME NEW a, NEW b, NEW c, NEW d
  PROVE  <<a, b>> \o <<c, d>> = <<a, b, c, d>>
<1> DEFINE S == {a, b, c, d}
           s == <<a, b>>
           t == <<c, d>>
           u == <<a, b, c, d>>
<1>1. s \in Seq(S) /\ t \in Seq(S) /\ u \in Seq(S)
  OBVIOUS
<1>2. Len(s) = 2 /\ Len(t) = 2 /\ Len(u) = 4
  OBVIOUS
<1>3. /\ s[1] = a /\ s[2] = b /\ t[1] = c /\ t[2] = d
      /\ u[1] = a /\ u[2] = b /\ u[3] = c /\ u[4] = d
  OBVIOUS
<1> HIDE DEF s, t, u, S
<1>4. /\ s \o t \in Seq(S) /\ Len(s \o t) = Len(s) + Len(t)
      /\ \A k \in 1..Len(s) + Len(t) :
           (s \o t)[k] = IF k <= Len(s) THEN s[k] ELSE t[k - Len(s)]
  BY <1>1, ConcatProperties, Zenon
<1>5. Len(s \o t) = 4
  BY <1>2, <1>4
<1>6. /\ (s \o t)[1] = s[1] /\ (s \o t)[2] = s[2]
      /\ (s \o t)[3] = t[1] /\ (s \o t)[4] = t[2]
  BY <1>2, <1>4
<1>7. s \o t = u
  BY <1>1, <1>2, <1>3, <1>4, <1>5, <1>6
<1> QED
  BY <1>7 DEF s, t, u

LEMMA ClearedAhead == Cleared(0) = Screen({}, 0, 0) /\ Ahead({}, 0, 0)
BY DEF Cleared, Ahead, Screen, Console, InFront

LEMMA HeaderPrinted ==
  /\ Prints(Cleared(0), <<HEAD0, HEAD1, <<CRLF>>, <<ProcHot>> >>, Screen(HeaderTexts, 3, 12))
  /\ Ahead(HeaderTexts, 3, 12)
<1> DEFINE T1 == {} \cup {Text(0, 0, Header)}
           T2 == T1 \cup {Text(0 + 1, 0, Dashes)}
           T3 == T2 \cup {Text(3, 0, ProcHot)}
           S0 == Screen({}, 0, 0)
           S1 == Screen(T1, 0, 0 + Width(Header))
           S2 == Screen(T2, 0 + 2, 0)
           S3 == Screen(T2, 0 + 2 + 1, 0)
           S4 == Screen(T3, 3, 0 + Width(ProcHot))
<1>1. Header \in Printed /\ Dashes \in Printed /\ ProcHot \in Printed
  BY DEF Printed
<1>2. 0 + 2 < Lines /\ 0 + 2 + 1 < Lines /\ 0 + 2 + 1 = 3
  BY LinesAssumption, ScreenAssumption
<1>3. Prints(S0, <<HEAD0>>, S1) /\ Ahead(T1, 0, 0 + Width(Header))
  BY <1>1, ClearedAhead, PrintsText DEF HEAD0
<1>4. Prints(S1, <<HEAD1>>, S2) /\ Ahead(T2, 0 + 2, 0)
  BY <1>1, <1>2, <1>3, PrintsTextBetweenLines DEF HEAD1
<1>5. Prints(S2, << <<CRLF>> >>, S3) /\ Ahead(T2, 0 + 2 + 1, 0)
  BY <1>2, <1>4, PrintsLine
<1>6. Prints(S3, << <<ProcHot>> >>, S4) /\ Ahead(T3, 3, 0 + Width(ProcHot))
  BY <1>1, <1>2, <1>5, PrintsText
<1>7. T3 = HeaderTexts /\ 0 + Width(ProcHot) = 12
  BY WidthAssumption DEF HeaderTexts
<1> HIDE DEF S0, S1, S2, S3, S4, T1, T2, T3
<1>8. Prints(S0, <<HEAD0, HEAD1>>, S2)
  BY <1>3, <1>4, PrintsBoth, Concatenated
<1>9. Prints(S2, << <<CRLF>>, <<ProcHot>> >>, S4)
  BY <1>5, <1>6, PrintsBoth, Concatenated
<1>10. Prints(S0, <<HEAD0, HEAD1>> \o << <<CRLF>>, <<ProcHot>> >>, S4)
  BY <1>8, <1>9, PrintsBoth
<1>11. Prints(S0, <<HEAD0, HEAD1, <<CRLF>>, <<ProcHot>> >>, S4)
  BY <1>10, PairsConcatenated
<1> QED
  BY <1>6, <1>7, <1>11, ClearedAhead DEF S0, S4

LEMMA MenuRowPrinted ==
  ASSUME NEW T, NEW mark, NEW n \in 0..3, NEW row, row = 7 + n, Ahead(T, row, 0),
         NEW next, next = row + 1
  PROVE  /\ Prints(Screen(T, row, 0), menuRow(mark, n),
                   Screen(T \cup MenuRowTexts(mark, n), next, 0))
         /\ Ahead(T \cup MenuRowTexts(mark, n), next, 0)
<1> DEFINE s == IF n = mark THEN Arrow ELSE NoArrow
           t == Item[n + 1]
           T1 == T \cup {Text(row, 0, s)}
           T2 == T1 \cup {Text(row, 2, t)}
           S0 == Screen(T, row, 0)
           S1 == Screen(T1, row, 0 + Width(s))
           S2 == Screen(T2, row, 2 + Width(t))
           S3 == Screen(T2, row + 1, 0)
<1>1. s \in Printed /\ Width(s) = 2 /\ 0 + Width(s) = 2
  BY WidthAssumption DEF Printed
<1>2. t \in Printed
  BY DEF Printed
<1>3. menuRow(mark, n) = << <<s>> >> \o << <<t>> >> \o << <<CRLF>> >>
  BY DEF menuRow
<1>4. T \cup MenuRowTexts(mark, n) = T2
  BY DEF MenuRowTexts
<1>5. row + 1 < Lines
  BY LinesAssumption, ScreenAssumption
<1> HIDE DEF s, t
<1>6. Prints(S0, << <<s>> >>, S1) /\ Ahead(T1, row, 0 + Width(s))
  BY <1>1, PrintsText
<1>7. Prints(S1, << <<t>> >>, S2) /\ Ahead(T2, row, 2 + Width(t))
  BY <1>1, <1>2, <1>6, PrintsText
<1>8. Prints(S2, << <<CRLF>> >>, S3) /\ Ahead(T2, row + 1, 0)
  BY <1>5, <1>7, PrintsLine
<1> HIDE DEF S0, S1, S2, S3, T1, T2
<1>9. Prints(S0, << <<s>> >> \o << <<t>> >> \o << <<CRLF>> >>, S3)
  BY <1>6, <1>7, <1>8, PrintsBoth
<1> QED
  BY <1>3, <1>4, <1>5, <1>8, <1>9 DEF S0, S3

LEMMA MenuPrinted ==
  ASSUME NEW data, NEW c
  PROVE  LET T == MenuTexts(Bit(data, 0)[1], (c + 3) % 4) IN
         /\ Prints(Screen(HeaderTexts, 3, 12), <<Bit(data, 0)>> \o menu(c), Screen(T, 11, 0))
         /\ Ahead(T, 11, 0)
<1> DEFINE b == Bit(data, 0)[1]
           m == (c + 3) % 4
           T1 == HeaderTexts \cup {Text(3, 12, b)}
           T2 == T1 \cup {Text(3 + 2, 0, Title)}
           T3 == T2 \cup {Text(5 + 1, 0, Line)}
           T4 == T3 \cup MenuRowTexts(m, 0)
           T5 == T4 \cup MenuRowTexts(m, 1)
           T6 == T5 \cup MenuRowTexts(m, 2)
           T7 == T6 \cup MenuRowTexts(m, 3)
           S0 == Screen(HeaderTexts, 3, 12)
           S1 == Screen(T1, 3, 12 + Width(b))
           S2 == Screen(T2, 3 + 2, Width(Title))
           S3 == Screen(T3, 7, 0)
           S4 == Screen(T4, 8, 0)
           S5 == Screen(T5, 9, 0)
           S6 == Screen(T6, 10, 0)
           S7 == Screen(T7, 11, 0)
<1>1. b \in Printed /\ Title \in Printed /\ Line \in Printed
  BY DEF Bit, Printed
<1>2. Bit(data, 0) = <<b>>
  BY DEF Bit
<1>3. /\ 3 + 2 < Lines /\ 5 + 2 < Lines /\ 3 + 2 = 5 /\ 5 + 2 = 7
      /\ 7 = 7 + 0 /\ 8 = 7 + 1 /\ 9 = 7 + 2 /\ 10 = 7 + 3
  BY LinesAssumption, ScreenAssumption
<1> HIDE DEF b, m
<1>4. /\ 0 \in 0..3 /\ 1 \in 0..3 /\ 2 \in 0..3 /\ 3 \in 0..3
       /\ 7 = 7 + 0 /\ 8 = 7 + 1 /\ 9 = 7 + 2 /\ 10 = 7 + 3
       /\ 8 = 7 + 1 /\ 9 = 8 + 1 /\ 10 = 9 + 1 /\ 11 = 10 + 1
  OBVIOUS
<1>5. Prints(S0, <<Bit(data, 0)>>, S1) /\ Ahead(T1, 3, 12 + Width(b))
  BY <1>1, <1>2, HeaderPrinted, PrintsText
<1>6. Prints(S1, << <<CRLF, CRLF, Title>> >>, S2) /\ Ahead(T2, 3 + 2, Width(Title))
  BY <1>1, <1>3, <1>5, PrintsTwoLinesText
<1>7. Prints(S2, << <<CRLF, Line, CRLF>> >>, S3) /\ Ahead(T3, 7, 0)
  BY <1>1, <1>3, <1>6, PrintsTextBetweenLines
<1> HIDE DEF T1, T2, T3
<1>8. Prints(S3, menuRow(m, 0), S4) /\ Ahead(T4, 8, 0)
  BY <1>4, <1>7, MenuRowPrinted, Zenon
<1>9. Prints(S4, menuRow(m, 1), S5) /\ Ahead(T5, 9, 0)
  BY <1>4, <1>8, MenuRowPrinted, Zenon
<1>10. Prints(S5, menuRow(m, 2), S6) /\ Ahead(T6, 10, 0)
  BY <1>4, <1>9, MenuRowPrinted, Zenon
<1>11. Prints(S6, menuRow(m, 3), S7) /\ Ahead(T7, 11, 0)
  BY <1>4, <1>10, MenuRowPrinted, Zenon
<1>12. T7 = MenuTexts(b, m)
  BY <1>3 DEF T1, T2, T3, MenuTexts
<1>13. menu(c) = << <<CRLF, CRLF, Title>>, <<CRLF, Line, CRLF>> >> \o menuRow(m, 0)
                   \o menuRow(m, 1) \o menuRow(m, 2) \o menuRow(m, 3)
  BY DEF menu, m
<1>14. << <<CRLF, CRLF, Title>> >> \o << <<CRLF, Line, CRLF>> >>
         = << <<CRLF, CRLF, Title>>, <<CRLF, Line, CRLF>> >>
  BY Concatenated, Zenon
<1> HIDE DEF T4, T5, T6, T7, S0, S1, S2, S3, S4, S5, S6, S7
<1>15. Prints(S1, << <<CRLF, CRLF, Title>>, <<CRLF, Line, CRLF>> >>, S3)
  BY <1>6, <1>7, <1>14, PrintsBoth
<1>16. Prints(S1, menu(c), S7)
  BY <1>8, <1>9, <1>10, <1>11, <1>13, <1>15, PrintsBoth
<1>17. Prints(S0, <<Bit(data, 0)>> \o menu(c), S7)
  BY <1>5, <1>16, PrintsBoth
<1>18. S7 = Screen(MenuTexts(b, m), 11, 0) /\ Ahead(MenuTexts(b, m), 11, 0)
  BY <1>3, <1>11, <1>12 DEF S7
<1> QED
  BY <1>17, <1>18 DEF S0, b, m

RowTexts(row, head, bits) ==
  {Text(row, 0, head)} \cup {Text(row, 7 + n, bits[n]) : n \in 1..64}

(* strRow after a line end and a head.                                     *)
LEMMA RowPrinted ==
  ASSUME NEW c, NEW T, NEW row \in Nat, NEW h \in RowHeads, NEW head, NEW data,
         LET U == T \cup {Text(row, 0, h)} IN
         Prints(c, << <<CRLF>>, head >>, Screen(U, row, 8)) /\ Ahead(U, row, 8)
  PROVE  LET U == T \cup RowTexts(row, h, strRow(data)) IN
         /\ Prints(c, RowOf(head, data), Screen(U, row, 72))
         /\ Ahead(U, row, 72)
<1> DEFINE T1 == T \cup {Text(row, 0, h)}
           U == T \cup RowTexts(row, h, strRow(data))
<1>1. /\ Prints(Screen(T1, row, 8), [n \in 1..64 |-> Bit(data, 64 - n)],
                Screen(BitTexts(T1, row, 8, data, 64), row, 8 + 64))
      /\ Ahead(BitTexts(T1, row, 8, data, 64), row, 8 + 64)
  BY PrintsBits
<1>2. BitTexts(T1, row, 8, data, 64) = U
  <2>1. {Text(row, 8 + k - 1, strRow(data)[k]) : k \in 1..64}
          = {Text(row, 7 + k, strRow(data)[k]) : k \in 1..64}
    <3>1. \A k \in 1..64 : 8 + k - 1 = 7 + k
      OBVIOUS
    <3> QED
      BY <3>1
  <2> QED
    BY <2>1, Zenon DEF BitTexts, RowTexts
<1>3. 8 + 64 = 72
  OBVIOUS
<1>4. RowOf(head, data) = << <<CRLF>>, head >> \o [n \in 1..64 |-> Bit(data, 64 - n)]
  BY Zenon DEF RowOf
<1>5. Prints(c, << <<CRLF>>, head >>, Screen(T1, row, 8))
  OBVIOUS
<1> HIDE DEF T1, U
<1>6. Prints(c, RowOf(head, data), Screen(U, row, 72))
  <2>1. Prints(Screen(T1, row, 8), [n \in 1..64 |-> Bit(data, 64 - n)], Screen(U, row, 72))
    BY <1>1, <1>2, <1>3
  <2> QED
    BY <1>4, <1>5, <2>1, PrintsBoth, Zenon
<1>7. Ahead(U, row, 72)
  BY <1>1, <1>2, <1>3
<1> QED
  BY <1>6, <1>7 DEF U

LEMMA TableRowPrinted ==
  ASSUME NEW T, NEW row \in Nat, NEW col, Ahead(T, row, col), NEW data,
         NEW h \in RowHeads, NEW next, next = row + 1, next < Lines
  PROVE  LET U == T \cup RowTexts(next, h, strRow(data)) IN
         /\ Prints(Screen(T, row, col), RowOf(<<h>>, data), Screen(U, next, 72))
         /\ Ahead(U, next, 72)
<1> DEFINE T1 == T \cup {Text(next, 0, h)}
           S0 == Screen(T, row, col)
           S1 == Screen(T, row + 1, 0)
           S2 == Screen(T1, next, 8)
<1>1. h \in Printed /\ 0 + Width(h) = 8
  BY WidthAssumption DEF Printed
<1>2. Prints(S0, << <<CRLF>> >>, S1) /\ Ahead(T, row + 1, 0)
  BY PrintsLine
<1>3. Prints(S1, << <<h>> >>, S2) /\ Ahead(T1, next, 8)
  BY <1>1, <1>2, PrintsText
<1> HIDE DEF S0, S1, S2, T1
<1>4. Prints(S0, << <<CRLF>>, <<h>> >>, S2)
  BY <1>2, <1>3, PrintsBoth, Concatenated
<1>5. next \in Nat
  OBVIOUS
<1> QED
  BY <1>3, <1>4, <1>5, RowPrinted, Zenon DEF T1, S0, S2

LEMMA ValuePrinted ==
  ASSUME NEW T, Ahead(T, 11, 0), NEW data
  PROVE  LET U == T \cup RowTexts(13, ValueHead, strRow(data)) IN
         /\ Prints(Screen(T, 11, 0), read_MSR(data), Screen(U, 13, 72))
         /\ Ahead(U, 13, 72)
<1> DEFINE T1 == T \cup {Text(12 + 1, 0, ValueHead)}
           S0 == Screen(T, 11, 0)
           S1 == Screen(T, 11 + 1, 0)
           S2 == Screen(T1, 12 + 1, Width(ValueHead))
<1>1. ValueHead \in Printed /\ ValueHead \in RowHeads /\ Width(ValueHead) = 8
  BY WidthAssumption DEF Printed, RowHeads
<1>2. 11 + 1 < Lines /\ 12 + 1 < Lines /\ 11 + 1 = 12 /\ 12 + 1 = 13
  BY LinesAssumption, ScreenAssumption
<1>3. Prints(S0, << <<CRLF>> >>, S1) /\ Ahead(T, 11 + 1, 0)
  BY <1>2, PrintsLine
<1>4. Prints(S1, << <<CRLF, ValueHead>> >>, S2) /\ Ahead(T1, 12 + 1, Width(ValueHead))
  BY <1>1, <1>2, <1>3, PrintsLineText
<1>5. S2 = Screen(T \cup {Text(13, 0, ValueHead)}, 13, 8)
  BY <1>1, <1>2
<1>6. Ahead(T \cup {Text(13, 0, ValueHead)}, 13, 8)
  BY <1>1, <1>2, <1>4
<1> HIDE DEF S0, S1, S2, T1
<1>7. Prints(S0, << <<CRLF>>, <<CRLF, ValueHead>> >>, S2)
  <2>1. Prints(S0, << <<CRLF>> >> \o << <<CRLF, ValueHead>> >>, S2)
    BY <1>3, <1>4, PrintsBoth, Zenon
  <2>2. << <<CRLF>> >> \o << <<CRLF, ValueHead>> >> = << <<CRLF>>, <<CRLF, ValueHead>> >>
    BY Concatenated, Zenon
  <2> QED
    BY <2>1, <2>2, Zenon
<1>8. 13 \in Nat
  OBVIOUS
<1> QED
  BY <1>1, <1>5, <1>6, <1>7, <1>8, RowPrinted, Zenon DEF S0, read_MSR

(* print_table, and ConfirmAndWrite's question.                            *)
TableTexts(h, mask, val) ==
  RowTexts(14, h, mask) \cup {Text(15, 0, Equals)} \cup RowTexts(16, ResultHead, val)
    \cup {Text(19, 0, Question)}

LEMMA TablePrinted ==
  ASSUME NEW T, Ahead(T, 13, 72), NEW h \in {OrHead, AndHead}, NEW mask, NEW val,
         NEW c, NEW o, Prints(c, o, Screen(T, 13, 72))
  PROVE  LET U == T \cup TableTexts(h, strRow(mask), strRow(val)) IN
         /\ Prints(c, o \o table(<<h>>, mask, val) \o <<MSG_CONFIRM>>,
                   Screen(U, 19, Width(Question)))
         /\ Ahead(U, 19, Width(Question))
<1> DEFINE T1 == T \cup RowTexts(14, h, strRow(mask))
           T2 == T1 \cup {Text(15, 0, Equals)}
           T3 == T2 \cup RowTexts(16, ResultHead, strRow(val))
           T4 == T3 \cup {Text(16 + 3, 0, Question)}
           S0 == Screen(T, 13, 72)
           S1 == Screen(T1, 14, 72)
           S2 == Screen(T1, 14 + 1, 0)
           S3 == Screen(T2, 15, 0 + Width(Equals))
           S4 == Screen(T3, 16, 72)
           S5 == Screen(T4, 16 + 3, Width(Question))
<1>1. /\ h \in RowHeads /\ ResultHead \in RowHeads
      /\ Equals \in Printed /\ Question \in Printed
  BY DEF RowHeads, Printed
<1>2. /\ 14 = 13 + 1 /\ 14 < Lines /\ 14 + 1 < Lines /\ 14 + 1 = 15
      /\ 16 = 15 + 1 /\ 16 < Lines /\ 16 + 3 < Lines /\ 16 + 3 = 19
      /\ 13 \in Nat /\ 15 \in Int
  BY LinesAssumption, ScreenAssumption
<1>3. Prints(S0, RowOf(<<h>>, mask), S1) /\ Ahead(T1, 14, 72)
  BY <1>1, <1>2, TableRowPrinted, Zenon
<1> HIDE DEF T1
<1>4. Prints(S1, << <<CRLF>> >>, S2) /\ Ahead(T1, 14 + 1, 0)
  BY <1>2, <1>3, PrintsLine
<1>5. Prints(S2, <<TBL_HL>>, S3) /\ Ahead(T2, 15, 0 + Width(Equals))
  BY <1>1, <1>2, <1>4, PrintsText DEF TBL_HL
<1> HIDE DEF T2
<1>6. Prints(S3, RowOf(<<ResultHead>>, val), S4) /\ Ahead(T3, 16, 72)
  BY <1>1, <1>2, <1>5, TableRowPrinted, Zenon
<1> HIDE DEF T3
<1>7. Prints(S4, <<MSG_CONFIRM>>, S5) /\ Ahead(T4, 16 + 3, Width(Question))
  BY <1>1, <1>2, <1>6, PrintsThreeLinesText DEF MSG_CONFIRM
<1> DEFINE U == T \cup TableTexts(h, strRow(mask), strRow(val))
<1>8. T4 = U
  BY <1>2 DEF T1, T2, T3, TableTexts
<1> HIDE DEF S0, S1, S2, S3, S4, S5, T4, U
<1>9. Prints(S1, << <<CRLF>>, TBL_HL >>, S3)
  BY <1>4, <1>5, PrintsBoth, Concatenated
<1>10. Prints(S0, table(<<h>>, mask, val), S4)
  BY <1>3, <1>6, <1>9, PrintsBoth, Zenon DEF table
<1>11. Prints(c, o, S0)
  BY DEF S0
<1>12. Prints(c, o \o table(<<h>>, mask, val), S4)
  BY <1>10, <1>11, PrintsBoth, Zenon
<1>13. Prints(c, o \o table(<<h>>, mask, val) \o <<MSG_CONFIRM>>, S5)
  BY <1>7, <1>12, PrintsBoth, Zenon
<1>14. S5 = Screen(U, 19, Width(Question)) /\ Ahead(U, 19, Width(Question))
  BY <1>2, <1>7, <1>8 DEF S5
<1> QED
  BY <1>13, <1>14 DEF U

(***************************************************************************)
(* What may stand where: only the header of the menu and the messages say  *)
(* something of BD_PROCHOT, and only bits have a head before them.         *)
(***************************************************************************)
Plain ==
  {Header, Dashes, Title, Line, NoArrow, Equals, Question, PressEsc, Aborted, "."}
    \cup RowHeads
Bits == {"0", "1"}
RowPlaces == {13, 14, 16}
End(p) == p.to

BitTrue(b, r) == 0 \notin FirmwareBits => (b = "1" => 0 \in r) /\ (b = "0" => 0 \notin r)

MayStand(p, bit, mark, r) ==
  /\ End(p) < Columns
  /\ \/ p.text \in Plain /\ p.row # 3 /\ (p.row \in RowPlaces => End(p) = 8)
     \/ p.text \in Bits /\ p.row \in RowPlaces
     \/ p = Text(3, 0, ProcHot)
     \/ p = Text(3, 12, bit) /\ bit \in Bits
     \/ p = Text(7 + mark, 0, Arrow) /\ mark \in 0..3
     \/ \E n \in 0..3 : p = Text(7 + n, 2, Item[n + 1])
     \/ p.text = Enabled /\ p.row = 1 /\ BitTrue("1", r)
     \/ p.text = Disabled /\ p.row = 1 /\ BitTrue("0", r)

LEMMA PlainTexts ==
  \A s \in Plain : /\ s \notin {ProcHot, "0", "1", Arrow, Enabled, Disabled}
                   /\ s \notin {Item[1], Item[2], Item[3], Item[4]}
<1>1. \A s \in RowHeads : /\ s \notin {ProcHot, "0", "1", Arrow, Enabled, Disabled}
                          /\ s \notin {Item[1], Item[2], Item[3], Item[4]}
  BY Zenon DEF RowHeads, ValueHead, OrHead, AndHead, ResultHead, ProcHot, Arrow, Enabled,
               Disabled, Item
<1>2. \A s \in {Header, Dashes, Title, Line, NoArrow, Equals, Question, PressEsc, Aborted,
                "."} :
        /\ s \notin {ProcHot, "0", "1", Arrow, Enabled, Disabled}
        /\ s \notin {Item[1], Item[2], Item[3], Item[4]}
  BY Zenon DEF Header, Dashes, Title, Line, NoArrow, Equals, Question, PressEsc, Aborted,
               ProcHot, Arrow, Enabled, Disabled, Item
<1> QED
  BY <1>1, <1>2, Zenon DEF Plain

LEMMA OtherTexts ==
  /\ "0" # "1"
  /\ ProcHot \notin {"0", "1", Arrow, Enabled, Disabled}
  /\ Arrow \notin {"0", "1", Enabled, Disabled}
  /\ Enabled \notin {"0", "1", Disabled} /\ Disabled \notin {"0", "1"}
  /\ \A s \in {Item[1], Item[2], Item[3], Item[4]} :
       s \notin {ProcHot, "0", "1", Arrow, Enabled, Disabled}
BY Zenon DEF ProcHot, Arrow, Enabled, Disabled, Item

LEMMA ItemsDiffer ==
  \A m, n \in 1..4 : Item[m] = Item[n] => m = n
<1>1. /\ Item[1] \notin {Item[2], Item[3], Item[4]}
      /\ Item[2] \notin {Item[3], Item[4]} /\ Item[3] # Item[4]
  BY Zenon DEF Item
<1>2. \A n \in 1..4 : n = 1 \/ n = 2 \/ n = 3 \/ n = 4
  OBVIOUS
<1> QED
  BY <1>1, <1>2, Zenon

LEMMA PlainStands ==
  ASSUME NEW row, NEW s \in Plain, row # 3, row \in RowPlaces => Width(s) = 8,
         NEW bit, NEW mark, NEW r
  PROVE  MayStand(Text(row, 0, s), bit, mark, r)
<1> DEFINE p == Text(row, 0, s)
<1>1. s \in Printed
  BY DEF Plain, Printed
<1>2. p.row = row /\ p.text = s /\ End(p) = Width(s) /\ Width(s) < Columns
  BY <1>1, TextsPrinted DEF Text, End
<1> HIDE DEF p
<1>3. MayStand(p, bit, mark, r)
  BY <1>2 DEF MayStand
<1> QED
  BY <1>3 DEF p

LEMMA HeaderStands ==
  ASSUME NEW bit, NEW mark, NEW r
  PROVE  \A p \in HeaderTexts : MayStand(p, bit, mark, r)
<1>1. Header \in Plain /\ Dashes \in Plain /\ 0 \notin RowPlaces /\ 1 \notin RowPlaces
  BY DEF Plain, RowPlaces
<1>2. 0 # 3 /\ 1 # 3
  OBVIOUS
<1>3. MayStand(Text(0, 0, Header), bit, mark, r) /\ MayStand(Text(1, 0, Dashes), bit, mark, r)
  BY <1>1, <1>2, PlainStands
<1>4. MayStand(Text(3, 0, ProcHot), bit, mark, r)
  <2>1. ProcHot \in Printed
    BY DEF Printed
  <2>2. End(Text(3, 0, ProcHot)) < Columns
    BY <2>1, TextsPrinted DEF End, Text
  <2> QED
    BY <2>2, Zenon DEF MayStand
<1> QED
  BY <1>3, <1>4 DEF HeaderTexts

LEMMA MenuStands ==
  ASSUME NEW bit \in Bits, NEW mark \in 0..3, NEW r
  PROVE  \A p \in MenuTexts(bit, mark) : MayStand(p, bit, mark, r)
<1>1. MayStand(Text(5, 0, Title), bit, mark, r) /\ MayStand(Text(6, 0, Line), bit, mark, r)
  <2>1. Title \in Plain /\ Line \in Plain /\ 5 \notin RowPlaces /\ 6 \notin RowPlaces
    BY DEF Plain, RowPlaces
  <2>2. 5 # 3 /\ 6 # 3
    OBVIOUS
  <2> QED
    BY <2>1, <2>2, PlainStands
<1>2. MayStand(Text(3, 12, bit), bit, mark, r)
  <2>1. End(Text(3, 12, bit)) < Columns
    BY WidthAssumption, ColumnsAssumption, ScreenAssumption DEF Bits, End, Text
  <2> QED
    BY <2>1, Zenon DEF MayStand
<1>3. ASSUME NEW n \in 0..3
      PROVE  \A p \in MenuRowTexts(mark, n) : MayStand(p, bit, mark, r)
  <2>1. MayStand(Text(7 + n, 0, IF n = mark THEN Arrow ELSE NoArrow), bit, mark, r)
    <3>1. CASE n = mark
      <4>1. Arrow \in Printed
        BY DEF Printed
      <4>2. End(Text(7 + mark, 0, Arrow)) < Columns
        BY <4>1, TextsPrinted DEF End, Text
      <4>3. MayStand(Text(7 + mark, 0, Arrow), bit, mark, r)
        BY <4>2, Zenon DEF MayStand
      <4> QED
        BY <3>1, <4>3
    <3>2. CASE n # mark
      <4>1. NoArrow \in Plain /\ 7 + n # 3 /\ 7 + n \notin RowPlaces
        BY DEF Plain, RowPlaces
      <4> QED
        BY <3>2, <4>1, PlainStands
    <3> QED
      BY <3>1, <3>2
  <2>2. MayStand(Text(7 + n, 2, Item[n + 1]), bit, mark, r)
    <3>1. n + 1 \in 1..4
      OBVIOUS
    <3>2. End(Text(7 + n, 2, Item[n + 1])) = 2 + Width(Item[n + 1])
      BY DEF End, Text
    <3>3. End(Text(7 + n, 2, Item[n + 1])) < Columns
      BY <3>1, <3>2, ColumnsAssumption
    <3> QED
      BY <3>3, Zenon DEF MayStand
  <2> QED
    BY <2>1, <2>2 DEF MenuRowTexts
<1>4. \A n \in {0, 1, 2, 3} : \A p \in MenuRowTexts(mark, n) : MayStand(p, bit, mark, r)
  BY <1>3
<1> QED
  BY <1>1, <1>2, <1>4, HeaderStands, Zenon DEF MenuTexts

LEMMA RowStands ==
  ASSUME NEW row \in RowPlaces, NEW h \in RowHeads, NEW bits \in [1..64 -> Bits],
         NEW bit, NEW mark, NEW r
  PROVE  \A p \in RowTexts(row, h, bits) : MayStand(p, bit, mark, r)
<1>1. MayStand(Text(row, 0, h), bit, mark, r)
  <2>1. h \in Plain /\ row # 3 /\ Width(h) = 8
    BY WidthAssumption DEF Plain, RowPlaces
  <2> QED
    BY <2>1, PlainStands
<1>2. ASSUME NEW n \in 1..64 PROVE MayStand(Text(row, 7 + n, bits[n]), bit, mark, r)
  <2> DEFINE p == Text(row, 7 + n, bits[n])
  <2>1. bits[n] \in Bits /\ Width(bits[n]) = 1
    BY WidthAssumption DEF Bits
  <2>2. p.row \in RowPlaces /\ p.text \in Bits /\ End(p) = 7 + n + 1
    BY <2>1 DEF Text, End
  <2>3. End(p) < Columns
    BY <2>2, ColumnsAssumption, ScreenAssumption
  <2> HIDE DEF p
  <2>4. MayStand(p, bit, mark, r)
    BY <2>2, <2>3, Zenon DEF MayStand
  <2> QED
    BY <2>4 DEF p
<1> QED
  BY <1>1, <1>2 DEF RowTexts

LEMMA TableStands ==
  ASSUME NEW h \in {OrHead, AndHead}, NEW mask \in [1..64 -> Bits],
         NEW val \in [1..64 -> Bits], NEW bit, NEW mark, NEW r
  PROVE  \A p \in TableTexts(h, mask, val) : MayStand(p, bit, mark, r)
<1>1. /\ 14 \in RowPlaces /\ 16 \in RowPlaces /\ 15 \notin RowPlaces /\ 19 \notin RowPlaces
      /\ h \in RowHeads /\ ResultHead \in RowHeads /\ Equals \in Plain /\ Question \in Plain
  BY DEF RowPlaces, RowHeads, Plain
<1>2. 15 # 3 /\ 19 # 3
  OBVIOUS
<1>3. /\ MayStand(Text(15, 0, Equals), bit, mark, r)
      /\ MayStand(Text(19, 0, Question), bit, mark, r)
  BY <1>1, <1>2, PlainStands
<1>4. /\ \A p \in RowTexts(14, h, mask) : MayStand(p, bit, mark, r)
      /\ \A p \in RowTexts(16, ResultHead, val) : MayStand(p, bit, mark, r)
  BY <1>1, RowStands
<1> QED
  BY <1>3, <1>4, Zenon DEF TableTexts

(***************************************************************************)
(* The messages of toMsg, and the dots behind the first one.               *)
(***************************************************************************)
Messages == {"interactive", "abort", "enabled", "disabled"}

MessagePage(d, m, n) ==
  /\ d \in Console /\ InFront(d)
  /\ m = "interactive" => d.row = 0 /\ d.col = Width(PressEsc) + 1 + n \div 5

LEMMA PageParts ==
  ASSUME NEW d \in Console
  PROVE  d = Screen(d.texts, d.row, d.col) /\ d.row \in Nat /\ d.col \in Nat
BY DEF Console, Screen

LEMMA DotStands ==
  ASSUME NEW col \in Nat, col + 1 < Columns, NEW bit, NEW mark, NEW r
  PROVE  MayStand(Text(0, col, "."), bit, mark, r)
<1> DEFINE p == Text(0, col, ".")
<1>1. p.text \in Plain /\ p.row # 3 /\ p.row \notin RowPlaces /\ End(p) = col + 1
  BY WidthAssumption DEF Plain, RowPlaces, Text, End
<1> HIDE DEF p
<1>2. MayStand(p, bit, mark, r)
  BY <1>1 DEF MayStand
<1> QED
  BY <1>2 DEF p

LEMMA OpeningPrinted ==
  ASSUME NEW bit, NEW mark, NEW r
  PROVE  \E d : /\ Prints(Cleared(0), <<Message["interactive"]>> \o Progress("interactive", 0), d)
                /\ MessagePage(d, "interactive", 0)
                /\ \A p \in d.texts : MayStand(p, bit, mark, r)
<1> DEFINE T1 == {} \cup {Text(0, 0, PressEsc)}
           T2 == T1 \cup {Text(0, 0 + Width(PressEsc), ".")}
           S0 == Screen({}, 0, 0)
           S1 == Screen(T1, 0, 0 + Width(PressEsc))
           S2 == Screen(T2, 0, 0 + Width(PressEsc) + Width("."))
<1>1. /\ PressEsc \in Printed /\ "." \in Printed
      /\ Width(".") = 1 /\ Width(PressEsc) \in Nat
  BY WidthAssumption DEF Printed
<1>2. Prints(S0, << <<PressEsc>> >>, S1) /\ Ahead(T1, 0, 0 + Width(PressEsc))
  BY <1>1, ClearedAhead, PrintsText
<1>3. /\ Prints(S1, << <<".">> >>, S2)
      /\ Ahead(T2, 0, 0 + Width(PressEsc) + Width("."))
  BY <1>1, <1>2, PrintsText
<1>4. S2.texts = T2 /\ S2.row = 0 /\ S2.col = Width(PressEsc) + 1
  BY <1>1 DEF Screen
<1>5. \A p \in T2 : MayStand(p, bit, mark, r)
  <2>1. MayStand(Text(0, 0, PressEsc), bit, mark, r)
    <3>1. PressEsc \in Plain /\ 0 \notin RowPlaces /\ 0 # 3
      BY DEF Plain, RowPlaces
    <3> QED
      BY <3>1, PlainStands
  <2>2. 0 + Width(PressEsc) + 1 < Columns
    BY <1>1, ColumnsAssumption, ScreenAssumption, PollsAssumption
  <2>3. MayStand(Text(0, 0 + Width(PressEsc), "."), bit, mark, r)
    BY <1>1, <2>2, DotStands
  <2> QED
    BY <2>1, <2>3
<1> HIDE DEF T1, T2, S0, S1, S2
<1>6. Prints(S0, << <<PressEsc>> >> \o << <<".">> >>, S2)
  BY <1>2, <1>3, PrintsBoth, Zenon
<1>7. <<Message["interactive"]>> = << <<PressEsc>> >> /\ Progress("interactive", 0) = << <<".">> >>
  BY DEF Message, Progress
<1>8. S2 \in Console /\ InFront(S2)
  BY <1>3 DEF Ahead, S2
<1>9. 0 \div 5 = 0 /\ Width(PressEsc) + 1 + 0 = Width(PressEsc) + 1
  BY <1>1
<1>10. MessagePage(S2, "interactive", 0)
  BY <1>4, <1>8, <1>9 DEF MessagePage
<1>11. Prints(Cleared(0), <<Message["interactive"]>> \o Progress("interactive", 0), S2)
  BY <1>6, <1>7, ClearedAhead, Zenon DEF S0
<1> QED
  BY <1>4, <1>5, <1>10, <1>11, Zenon

LEMMA OtherMessagePrinted ==
  ASSUME NEW m \in {"abort", "enabled", "disabled"}, NEW s \in {Aborted, Enabled, Disabled},
         Message[m] = <<CRLF, s>>, NEW bit, NEW mark, NEW r,
         s = Enabled => BitTrue("1", r), s = Disabled => BitTrue("0", r)
  PROVE  \E d : /\ Prints(Cleared(0), <<Message[m]>> \o Progress(m, 0), d)
                /\ MessagePage(d, m, 0)
                /\ \A p \in d.texts : MayStand(p, bit, mark, r)
<1> DEFINE T1 == {} \cup {Text(0 + 1, 0, s)}
           S0 == Screen({}, 0, 0)
           S1 == Screen(T1, 0 + 1, Width(s))
<1>1. s \in Printed /\ Width(s) < Columns
  BY TextsPrinted DEF Printed
<1>2. 0 + 1 < Lines /\ 0 + 1 = 1
  BY LinesAssumption, ScreenAssumption
<1>3. Prints(S0, << <<CRLF, s>> >>, S1) /\ Ahead(T1, 0 + 1, Width(s))
  BY <1>1, <1>2, ClearedAhead, PrintsLineText
<1>4. S1.texts = T1
  BY DEF Screen
<1>5. S1 \in Console /\ InFront(S1)
  BY <1>3 DEF Ahead
<1>6. \A p \in T1 : MayStand(p, bit, mark, r)
  <2>1. CASE s = Aborted
    <3>1. Aborted \in Plain /\ 1 \notin RowPlaces /\ 1 # 3
      BY DEF Plain, RowPlaces
    <3> QED
      BY <1>2, <2>1, <3>1, PlainStands
  <2>2. CASE s \in {Enabled, Disabled}
    <3> DEFINE p == Text(1, 0, s)
    <3>1. p.row = 1 /\ p.text = s /\ End(p) < Columns
      BY <1>1, TextsPrinted DEF Text, End
    <3> HIDE DEF p
    <3>2. MayStand(p, bit, mark, r)
      BY <2>2, <3>1, Zenon DEF MayStand
    <3> QED
      BY <1>2, <3>2 DEF p
  <2> QED
    BY <2>1, <2>2
<1> HIDE DEF T1, S0, S1
<1>7. Progress(m, 0) = << <<>> >>
  BY DEF Progress
<1>8. Prints(S1, << <<>> >>, S1)
  BY <1>5, PrintsEmpty
<1>9. Prints(S0, << <<CRLF, s>> >> \o << <<>> >>, S1)
  BY <1>3, <1>8, PrintsBoth, Zenon
<1>10. Prints(Cleared(0), <<Message[m]>> \o Progress(m, 0), S1)
  BY <1>7, <1>9, ClearedAhead, Zenon DEF S0
<1>11. m # "interactive"
  OBVIOUS
<1>12. MessagePage(S1, m, 0)
  BY <1>5, <1>11 DEF MessagePage
<1> QED
  BY <1>4, <1>6, <1>10, <1>12, Zenon

LEMMA MessagePrinted ==
  ASSUME NEW m \in Messages, NEW bit, NEW mark, NEW r,
         m = "enabled" => BitTrue("1", r), m = "disabled" => BitTrue("0", r)
  PROVE  \E d : /\ Prints(Cleared(0), <<Message[m]>> \o Progress(m, 0), d)
                /\ MessagePage(d, m, 0)
                /\ \A p \in d.texts : MayStand(p, bit, mark, r)
<1>1. Aborted # Enabled /\ Aborted # Disabled /\ Enabled # Disabled
  BY Zenon DEF Aborted, Enabled, Disabled
<1>2. /\ Message["abort"] = <<CRLF, Aborted>> /\ Message["enabled"] = <<CRLF, Enabled>>
      /\ Message["disabled"] = <<CRLF, Disabled>>
  BY DEF Message
<1>3. CASE m = "interactive"
  BY <1>3, OpeningPrinted
<1>4. CASE m = "abort"
  BY <1>1, <1>2, <1>4, OtherMessagePrinted
<1>5. CASE m = "enabled"
  BY <1>1, <1>2, <1>5, OtherMessagePrinted
<1>6. CASE m = "disabled"
  BY <1>1, <1>2, <1>6, OtherMessagePrinted
<1> QED
  BY <1>3, <1>4, <1>5, <1>6 DEF Messages

LEMMA ProgressPrinted ==
  ASSUME NEW d, NEW m \in Messages, NEW n \in Nat, MessagePage(d, m, n),
         m = "interactive" => n + 1 < OpenPolls,
         NEW bit, NEW mark, NEW r, \A p \in d.texts : MayStand(p, bit, mark, r)
  PROVE  \E e : /\ Prints(d, Progress(m, n + 1), e) /\ MessagePage(e, m, n + 1)
                /\ \A p \in e.texts : MayStand(p, bit, mark, r)
<1>1. d \in Console /\ InFront(d)
  BY DEF MessagePage
<1>2. CASE (n + 1) % 5 # 0
  <2>1. Progress(m, n + 1) = <<>>
    BY <1>2 DEF Progress
  <2>2. (n + 1) \div 5 = n \div 5
    BY <1>2
  <2>3. Prints(d, <<>>, d)
    BY <1>1, PrintsNothing
  <2>4. MessagePage(d, m, n + 1)
    BY <2>2, Zenon DEF MessagePage
  <2> QED
    BY <2>1, <2>3, <2>4, Zenon
<1>3. CASE (n + 1) % 5 = 0 /\ m # "interactive"
  <2>1. Progress(m, n + 1) = << <<>> >>
    BY <1>3 DEF Progress
  <2>2. Prints(d, << <<>> >>, d)
    BY <1>1, PrintsEmpty
  <2>3. MessagePage(d, m, n + 1)
    BY <1>1, <1>3, Zenon DEF MessagePage
  <2> QED
    BY <2>1, <2>2, <2>3, Zenon
<1>4. CASE (n + 1) % 5 = 0 /\ m = "interactive"
  <2> DEFINE T == d.texts \cup {Text(0, d.col, ".")}
             e == Screen(T, 0, d.col + Width("."))
  <2>1. Progress(m, n + 1) = << <<".">> >>
    BY <1>4 DEF Progress
  <2>2. (n + 1) \div 5 = n \div 5 + 1 /\ n \div 5 \in Nat
    BY <1>4
  <2>3. Width(PressEsc) \in Nat /\ Width(".") = 1 /\ "." \in Printed
    BY WidthAssumption DEF Printed
  <2>4. d.row = 0 /\ d.col = Width(PressEsc) + 1 + n \div 5 /\ d.col \in Nat
    BY <1>4, <2>2, <2>3 DEF MessagePage
  <2>5. d = Screen(d.texts, 0, d.col) /\ Ahead(d.texts, 0, d.col)
    <3>1. d = Screen(d.texts, 0, d.col)
      BY <1>1, <2>4, PageParts
    <3> QED
      BY <1>1, <3>1, Zenon DEF Ahead
  <2>6. Prints(d, << <<".">> >>, e) /\ Ahead(T, 0, d.col + Width("."))
    <3>1. /\ Prints(Screen(d.texts, 0, d.col), << <<".">> >>, e)
          /\ Ahead(T, 0, d.col + Width("."))
      BY <2>3, <2>5, PrintsText
    <3> QED
      BY <2>5, <3>1
  <2>7. e.texts = T /\ e.row = 0 /\ e.col = d.col + 1
    BY <2>3 DEF Screen
  <2>8. e \in Console /\ InFront(e)
    BY <2>6 DEF Ahead
  <2>9. d.col + 1 < Columns
    <3>1. (n + 1) \div 5 <= (OpenPolls - 1) \div 5
      BY <1>4, PollsAssumption
    <3>2. (OpenPolls - 1) \div 5 \in Int
      BY PollsAssumption
    <3> QED
      BY <2>2, <2>3, <2>4, <3>1, <3>2, ColumnsAssumption, ScreenAssumption
  <2>10. \A p \in T : MayStand(p, bit, mark, r)
    BY <2>4, <2>9, DotStands
  <2> HIDE DEF T, e
  <2>11. e.col = Width(PressEsc) + 1 + (n + 1) \div 5
    BY <2>2, <2>3, <2>4, <2>7
  <2>12. MessagePage(e, m, n + 1)
    BY <2>7, <2>8, <2>11, Zenon DEF MessagePage
  <2> QED
    BY <2>1, <2>6, <2>7, <2>10, <2>12, Zenon
<1> QED
  BY <1>2, <1>3, <1>4

(***************************************************************************)
(* The screen the program is printing: con, and what out adds to it.       *)
(***************************************************************************)
Drawing == [prochot : Bits \cup {""}, mark : Int, rows : Seq([1..64 -> Bits])]

ViewTexts(w) ==
  MenuTexts(w.prochot, w.mark) \cup RowTexts(13, ValueHead, w.rows[1])
ConfirmTexts(w, h) ==
  ViewTexts(w) \cup TableTexts(h, w.rows[2], w.rows[3])

Shows(d) ==
  /\ \A p \in d.texts : MayStand(p, drawn.prochot, drawn.mark, reg)
  /\ pc \in {"poll", "stall"} => MessagePage(d, msg, i)
  /\ pc = "header" => d = Screen(HeaderTexts, 3, 12)
  /\ pc \in {"menu", "menukey", "choose"} =>
       d = Screen(MenuTexts(drawn.prochot, drawn.mark), 11, 0)
  /\ pc = "view" => d = Screen(ViewTexts(drawn), 13, 72)
  /\ pc \in {"confirm", "answer", "answered"} =>
       \E h \in {OrHead, AndHead} :
         d = Screen(ConfirmTexts(drawn, h), 19, Width(Question))
  /\ pc = "wrmsr" => d = Cleared(0)

ConsoleShows == \E d : Prints(con, out, d) /\ Shows(d)

(* A message that is shown, or is to be shown after the write, is true.    *)
Told ==
  /\ pc \in {"poll", "stall"} =>
       /\ msg \in Messages
       /\ msg = "enabled" => BitTrue("1", reg)
       /\ msg = "disabled" => BitTrue("0", reg)
  /\ pc \in {"confirm", "answer", "answered", "wrmsr"} =>
       (msg = "enabled" /\ 0 \in nval) \/ (msg = "disabled" /\ 0 \notin nval)

Drawn ==
  /\ drawn \in Drawing /\ choice \in 0..3 /\ BitTrue(drawn.prochot, reg)
  /\ pc \in {"menu", "menukey", "choose", "view", "confirm", "answer", "answered"} =>
       drawn.prochot \in Bits /\ drawn.mark \in 0..3
  /\ pc \in {"menu", "menukey", "choose"} => drawn.rows = <<>>
  /\ pc = "view" => Len(drawn.rows) = 1
  /\ pc \in {"confirm", "answer", "answered"} => Len(drawn.rows) = 3

Screened == Told /\ Drawn /\ ConsoleShows

LEMMA PrintedAll ==
  ASSUME ConsoleShows, out = <<>>
  PROVE  con \in Console /\ Shows(con)
BY PrintsNothing DEF ConsoleShows

LEMMA BlankDrawn == Blank \in Drawing /\ \A r : BitTrue(Blank.prochot, r)
<1>1. Blank \in Drawing
  BY DEF Blank, Drawing, Bits
<1>2. Blank.prochot = "" /\ "" # "0" /\ "" # "1"
  BY DEF Blank
<1> QED
  BY <1>1, <1>2 DEF BitTrue

LEMMA RowsOfBits ==
  \A data : strRow(data) \in [1..64 -> Bits]
BY DEF strRow, Bits

LEMMA ScreenedInit == Init => Screened
<1> SUFFICES ASSUME Init PROVE Screened
  OBVIOUS
<1>1. /\ pc = "start" /\ out = <<>> /\ con = Cleared(0) /\ drawn = Blank /\ choice = 1
  BY DEF Init
<1>2. Cleared(0) \in Console /\ Cleared(0).texts = {}
  BY DEF Cleared, Screen, Console
<1>3. Prints(con, out, con)
  BY <1>1, <1>2, PrintsNothing
<1>4. Shows(con)
  BY <1>1, <1>2 DEF Shows
<1>5. Told /\ Drawn
  BY <1>1, BlankDrawn DEF Told, Drawn
<1> QED
  BY <1>3, <1>4, <1>5, Zenon DEF Screened, ConsoleShows

(* Steps that leave the screen, the register and what out adds alone.      *)
LEMMA SamePage ==
  ASSUME ConsoleShows, UNCHANGED <<con, out, drawn, reg>>,
         pc' \in {"poll", "stall"} => pc \in {"poll", "stall"} /\ msg' = msg /\ i' = i,
         pc' = "header" => pc = "header",
         pc' \in {"menu", "menukey", "choose"} => pc \in {"menu", "menukey", "choose"},
         pc' = "view" => pc = "view",
         pc' \in {"confirm", "answer", "answered"} => pc \in {"confirm", "answer", "answered"},
         pc' = "wrmsr" => pc = "wrmsr"
  PROVE  ConsoleShows'
<1>1. PICK d : Prints(con, out, d) /\ Shows(d)
  BY DEF ConsoleShows
<1>2. Prints(con', out', d)
  BY <1>1
<1>3. Shows(d)'
  BY <1>1, Zenon DEF Shows
<1> QED
  BY <1>2, <1>3, Zenon DEF ConsoleShows

LEMMA OutputScreened ==
  ASSUME Screened, OutputNext
  PROVE  Screened'
<1>1. /\ out # <<>> /\ con' = Written(con, Head(out)) /\ out' = Tail(out)
      /\ UNCHANGED <<kq, reg, pc, msg, i, key, choice, nval, drawn, taken>>
  BY DEF OutputNext, OutputString
<1>2. PICK d : Prints(con, out, d) /\ Shows(d)
  BY DEF Screened, ConsoleShows
<1>3. Prints(con', out', d)
  BY <1>1, <1>2, PrintsNext
<1>4. Shows(d)'
  BY <1>1, <1>2, Zenon DEF Shows
<1>5. Told' /\ Drawn'
  BY <1>1 DEF Screened, Told, Drawn
<1> QED
  BY <1>3, <1>4, <1>5, Zenon DEF Screened, ConsoleShows

(* toMsg shows its message on a screen that was cleared before.            *)
LEMMA CallToMsgShows ==
  ASSUME NEW m \in Messages, CallToMsg(m), con' = Cleared(0),
         m = "enabled" => BitTrue("1", reg'), m = "disabled" => BitTrue("0", reg')
  PROVE  ConsoleShows' /\ Told'
<1>1. /\ pc' = "poll" /\ msg' = m /\ i' = 0
      /\ out' = <<Message[m]>> \o Progress(m, 0)
  BY DEF CallToMsg
<1>2. PICK d : /\ Prints(Cleared(0), <<Message[m]>> \o Progress(m, 0), d)
               /\ MessagePage(d, m, 0)
               /\ \A p \in d.texts : MayStand(p, drawn'.prochot, drawn'.mark, reg')
  BY MessagePrinted
<1>3. Prints(con', out', d)
  BY <1>1, <1>2
<1>4. Shows(d)'
  BY <1>1, <1>2 DEF Shows
<1>5. Told'
  BY <1>1 DEF Told
<1> QED
  BY <1>3, <1>4, <1>5, Zenon DEF ConsoleShows

LEMMA StartScreened ==
  ASSUME Screened, Start
  PROVE  Screened'
<1>1. con' = Cleared(0) /\ CallToMsg("interactive") /\ UNCHANGED <<reg, drawn>>
  BY DEF Start, Reset
<1>2. ConsoleShows' /\ Told'
  BY <1>1, CallToMsgShows DEF Messages
<1>3. pc' = "poll" /\ choice' = 1
  BY <1>1 DEF CallToMsg
<1>4. Drawn'
  BY <1>1, <1>3 DEF Screened, Drawn
<1> QED
  BY <1>2, <1>4 DEF Screened

(* toMsg and menuloop, while nothing is printed.                           *)
LEMMA MenuloopScreened ==
  ASSUME Screened, CallMenuloop, out = <<>>, UNCHANGED <<con, reg, drawn>>
  PROVE  Screened'
<1>1. pc' = "menuloop" /\ choice' = 1 /\ out' = out
  BY DEF CallMenuloop
<1>2. ConsoleShows'
  BY <1>1, SamePage DEF Screened
<1>3. Told' /\ Drawn'
  BY <1>1 DEF Screened, Told, Drawn
<1> QED
  BY <1>2, <1>3 DEF Screened

LEMMA PollScreened ==
  ASSUME Screened, Poll
  PROVE  Screened'
<1>1. pc = "poll" /\ out = <<>> /\ UNCHANGED <<con, reg, drawn, nval>>
  BY DEF Poll, Reached
<1>2. CASE CallMenuloop
  BY <1>1, <1>2, MenuloopScreened
<1>3. CASE pc' = "stall" /\ UNCHANGED <<out, msg, i, choice>>
  <2>1. ConsoleShows'
    BY <1>1, <1>3, SamePage DEF Screened
  <2>2. Told' /\ Drawn'
    BY <1>1, <1>3 DEF Screened, Told, Drawn
  <2> QED
    BY <2>1, <2>2 DEF Screened
<1> QED
  BY <1>2, <1>3 DEF Poll

LEMMA StallScreened ==
  ASSUME Handover, Screened, Stall
  PROVE  Screened'
<1>1. pc = "stall" /\ out = <<>> /\ UNCHANGED <<con, reg, drawn, nval>> /\ i \in Nat
  BY DEF Stall, Reached, Handover
<1>2. CASE i + 1 >= Polls /\ msg # "interactive" /\ CallMenuloop
  BY <1>1, <1>2, MenuloopScreened
<1>3. CASE pc' = "done" /\ UNCHANGED <<out, msg, key, choice>>
  <2>1. ConsoleShows'
    BY <1>1, <1>3, SamePage DEF Screened
  <2>2. Told' /\ Drawn'
    BY <1>1, <1>3 DEF Screened, Told, Drawn
  <2> QED
    BY <2>1, <2>2 DEF Screened
<1>4. CASE /\ i + 1 < Polls /\ i' = i + 1 /\ pc' = "poll" /\ out' = Progress(msg, i + 1)
           /\ UNCHANGED <<msg, key, choice>>
  <2>1. con \in Console /\ Shows(con) /\ MessagePage(con, msg, i)
    BY <1>1, PrintedAll DEF Screened, Shows
  <2>2. msg \in Messages /\ (msg = "interactive" => i + 1 < OpenPolls)
    BY <1>1, <1>4 DEF Screened, Told, Polls
  <2>3. PICK d : /\ Prints(con, Progress(msg, i + 1), d) /\ MessagePage(d, msg, i + 1)
                 /\ \A p \in d.texts : MayStand(p, drawn.prochot, drawn.mark, reg)
    <3>1. \A p \in con.texts : MayStand(p, drawn.prochot, drawn.mark, reg)
      BY <2>1 DEF Shows
    <3> QED
      BY <1>1, <2>1, <2>2, <3>1, ProgressPrinted
  <2>4. Prints(con', out', d)
    BY <1>1, <1>4, <2>3
  <2>5. Shows(d)'
    BY <1>1, <1>4, <2>3 DEF Shows
  <2>6. Told' /\ Drawn'
    BY <1>1, <1>4 DEF Screened, Told, Drawn
  <2> QED
    BY <2>4, <2>5, <2>6, Zenon DEF Screened, ConsoleShows
<1> QED
  BY <1>2, <1>3, <1>4 DEF Stall

LEMMA ClearForMenuScreened ==
  ASSUME Screened, ClearForMenu
  PROVE  Screened'
<1>1. /\ pc' = "header" /\ con' = Cleared(0)
      /\ out' = <<HEAD0, HEAD1, <<CRLF>>, <<ProcHot>> >>
      /\ UNCHANGED <<kq, reg, msg, i, key, choice, nval, drawn, taken>>
  BY DEF ClearForMenu, Reset
<1> DEFINE d == Screen(HeaderTexts, 3, 12)
<1>2. Prints(con', out', d)
  BY <1>1, HeaderPrinted
<1>3. d.texts = HeaderTexts /\ d = Screen(HeaderTexts, 3, 12)
  BY DEF Screen
<1> HIDE DEF d
<1>4. Shows(d)'
  <2>1. \A p \in d.texts : MayStand(p, drawn'.prochot, drawn'.mark, reg')
    BY <1>3, HeaderStands
  <2> QED
    BY <1>1, <1>3, <2>1 DEF Shows
<1>5. Told' /\ Drawn'
  BY <1>1 DEF Screened, Told, Drawn
<1> QED
  BY <1>2, <1>4, <1>5, Zenon DEF Screened, ConsoleShows

(* menuloop after its rdmsr: header, menu and arrow are those of drawn.    *)
LEMMA ZeroBit ==
  ASSUME NEW r
  PROVE  /\ 0 \in AsmReadMsr64(r) <=> 0 \in r
         /\ 0 \in AsmWriteMsr64(r) <=> 0 \in r
BY DEF AsmReadMsr64, AsmWriteMsr64, Join, LowHalf, HighHalf, Word32, Word64

LEMMA ReadHeaderScreened ==
  ASSUME Screened, ReadHeader
  PROVE  Screened'
<1> DEFINE b == Bit(AsmReadMsr64(reg), 0)[1]
           m == (choice + 3) % 4
<1>1. /\ pc = "header" /\ out = <<>> /\ pc' = "menu"
      /\ out' = <<Bit(AsmReadMsr64(reg), 0)>> \o menu(choice)
      /\ drawn' = [prochot |-> b, mark |-> m, rows |-> <<>>]
      /\ UNCHANGED <<kq, con, reg, msg, i, key, choice, nval, taken>>
  BY DEF ReadHeader, Reached
<1>2. b \in Bits /\ BitTrue(b, reg)
  <2>1. b = IF 0 \in AsmReadMsr64(reg) THEN "1" ELSE "0"
    BY DEF Bit
  <2>2. 0 \in AsmReadMsr64(reg) <=> 0 \in reg
    BY ZeroBit
  <2>3. "0" # "1"
    OBVIOUS
  <2> HIDE DEF b
  <2> QED
    BY <2>1, <2>2, <2>3 DEF Bits, BitTrue
<1>3. m \in 0..3
  BY DEF Screened, Drawn
<1>4. con = Screen(HeaderTexts, 3, 12)
  BY <1>1, PrintedAll DEF Screened, Shows
<1>5. PICK d : d = Screen(MenuTexts(b, m), 11, 0)
  OBVIOUS
<1>6. Prints(con', out', d)
  BY <1>1, <1>4, <1>5, MenuPrinted
<1>7. d.texts = MenuTexts(b, m)
  BY <1>5 DEF Screen
<1> HIDE DEF b, m
<1>8. drawn'.prochot = b /\ drawn'.mark = m /\ drawn'.rows = <<>>
  BY <1>1
<1>9. Shows(d)'
  <2>1. \A p \in MenuTexts(b, m) : MayStand(p, b, m, reg)
    BY <1>2, <1>3, MenuStands
  <2>2. \A p \in d.texts : MayStand(p, drawn'.prochot, drawn'.mark, reg')
    BY <1>1, <1>8, <1>7, <2>1
  <2> QED
    BY <1>1, <1>5, <1>8, <2>2 DEF Shows
<1>10. Drawn'
  <2>1. b \in Bits \cup {""}
    BY <1>2, Zenon
  <2>2. m \in Int
    BY <1>3
  <2>3. <<>> \in Seq([1..64 -> Bits])
    OBVIOUS
  <2>4. drawn' \in Drawing
    BY <1>1, <2>1, <2>3, <2>2 DEF Drawing
  <2> QED
    BY <1>1, <1>2, <1>3, <1>8, <2>4 DEF Screened, Drawn
<1>11. Told'
  BY <1>1 DEF Told
<1> QED
  BY <1>6, <1>9, <1>10, <1>11, Zenon DEF Screened, ConsoleShows

(* Steps that only look at the keyboard or at the item.                    *)
LEMMA KeysScreened ==
  ASSUME Screened, WaitForEvent \/ MenuKey \/ Exit \/ ViewSeen \/ ReadAnswer
  PROVE  Screened'
<1>1. CASE WaitForEvent
  <2>1. /\ (pc = "menu" /\ pc' = "menukey") \/ (pc = "confirm" /\ pc' = "answer")
        /\ UNCHANGED <<con, reg, out, msg, i, choice, nval, drawn>>
    BY <1>1 DEF WaitForEvent, Reached
  <2>2. ConsoleShows'
    BY <2>1, SamePage DEF Screened
  <2>3. Told' /\ Drawn'
    BY <2>1 DEF Screened, Told, Drawn
  <2> QED
    BY <2>2, <2>3 DEF Screened
<1>2. CASE MenuKey
  <2>1. /\ pc = "menukey" /\ pc' \in {"choose", "menuloop"}
        /\ UNCHANGED <<con, reg, out, msg, i, nval, drawn>>
    BY <1>2 DEF MenuKey, Reached
  <2>2. choice' \in 0..3
    <3>1. choice \in 0..3
      BY DEF Screened, Drawn
    <3>2. \A u \in 48..51 : u - 48 \in 0..3
      OBVIOUS
    <3>3. (choice + 3) % 4 \in 0..3 /\ (choice + 1) % 4 \in 0..3
      BY <3>1
    <3>4. \/ choice' = choice \/ choice' = (choice + 3) % 4 \/ choice' = (choice + 1) % 4
          \/ \E u \in 48..51 : choice' = u - 48
      BY <1>2 DEF MenuKey
    <3> QED
      BY <3>1, <3>2, <3>3, <3>4
  <2>3. ConsoleShows'
    BY <2>1, SamePage DEF Screened
  <2>4. Told' /\ Drawn'
    BY <2>1, <2>2 DEF Screened, Told, Drawn
  <2> QED
    BY <2>3, <2>4 DEF Screened
<1>3. CASE Exit
  <2>1. pc' = "done" /\ UNCHANGED <<con, reg, out, msg, i, choice, nval, drawn>>
    BY <1>3 DEF Exit, Reached
  <2>2. ConsoleShows'
    BY <2>1, SamePage DEF Screened
  <2>3. Told' /\ Drawn'
    BY <2>1 DEF Screened, Told, Drawn
  <2> QED
    BY <2>2, <2>3 DEF Screened
<1>4. CASE ViewSeen
  BY <1>4, MenuloopScreened DEF ViewSeen, Reached
<1>5. CASE ReadAnswer
  <2>1. /\ pc = "answer" /\ pc' = "answered"
        /\ UNCHANGED <<con, reg, out, msg, i, choice, nval, drawn>>
    BY <1>5 DEF ReadAnswer, Reached
  <2>2. ConsoleShows'
    BY <2>1, SamePage DEF Screened
  <2>3. Told' /\ Drawn'
    BY <2>1 DEF Screened, Told, Drawn
  <2> QED
    BY <2>2, <2>3 DEF Screened
<1> QED
  BY <1>1, <1>2, <1>3, <1>4, <1>5

(* choose: the rows of drawn, below the menu.                              *)
LEMMA MenuOnScreen ==
  ASSUME Screened, pc = "choose", out = <<>>
  PROVE  /\ con = Screen(MenuTexts(drawn.prochot, drawn.mark), 11, 0)
         /\ Ahead(MenuTexts(drawn.prochot, drawn.mark), 11, 0)
         /\ drawn.prochot \in Bits /\ drawn.mark \in 0..3 /\ drawn.rows = <<>>
<1>1. con = Screen(MenuTexts(drawn.prochot, drawn.mark), 11, 0)
  BY PrintedAll DEF Screened, Shows
<1>2. drawn.prochot \in Bits /\ drawn.mark \in 0..3 /\ drawn.rows = <<>>
  BY DEF Screened, Drawn
<1>3. Ahead(MenuTexts(drawn.prochot, drawn.mark), 11, 0)
  <2> DEFINE data == IF drawn.prochot = "1" THEN {0} ELSE {}
             c == (drawn.mark + 1) % 4
  <2>1. Bit(data, 0)[1] = drawn.prochot
    BY <1>2 DEF Bit, Bits
  <2>2. (c + 3) % 4 = drawn.mark
    BY <1>2
  <2> HIDE DEF data, c
  <2> QED
    BY <2>1, <2>2, MenuPrinted
<1> QED
  BY <1>1, <1>2, <1>3

LEMMA ReadToViewScreened ==
  ASSUME Screened, ReadToView
  PROVE  Screened'
<1> DEFINE row == strRow(AsmReadMsr64(reg))
           T == MenuTexts(drawn.prochot, drawn.mark)
           U == T \cup RowTexts(13, ValueHead, row)
<1>1. /\ pc = "choose" /\ out = <<>> /\ pc' = "view"
      /\ out' = read_MSR(AsmReadMsr64(reg))
      /\ drawn' = [drawn EXCEPT !.rows = @ \o <<row>>]
      /\ UNCHANGED <<kq, con, reg, msg, i, key, choice, nval, taken>>
  BY DEF ReadToView, Reached
<1>2. /\ con = Screen(T, 11, 0) /\ Ahead(T, 11, 0)
      /\ drawn.prochot \in Bits /\ drawn.mark \in 0..3 /\ drawn.rows = <<>>
  BY <1>1, MenuOnScreen
<1>3. row \in [1..64 -> Bits]
  BY RowsOfBits
<1>4. PICK d : d = Screen(U, 13, 72)
  OBVIOUS
<1>5. Prints(con', out', d)
  BY <1>1, <1>2, <1>4, ValuePrinted
<1>6. /\ drawn' \in Drawing /\ drawn'.prochot = drawn.prochot /\ drawn'.mark = drawn.mark
      /\ drawn'.rows = <<row>>
  <2>1. <<row>> \in Seq([1..64 -> Bits])
    BY <1>3
  <2>2. <<>> \o <<row>> = <<row>>
    BY <2>1, ConcatEmptySeq, Zenon
  <2> HIDE DEF row
  <2>3. drawn \in Drawing
    BY DEF Screened, Drawn
  <2> QED
    BY <1>1, <1>2, <2>1, <2>3, <2>2 DEF Drawing
<1>7. <<row>>[1] = row /\ Len(<<row>>) = 1
  OBVIOUS
<1>8. d.texts = U
  BY <1>4 DEF Screen
<1>9. \A p \in U : MayStand(p, drawn.prochot, drawn.mark, reg)
  <2>1. 13 \in RowPlaces /\ ValueHead \in RowHeads
    BY DEF RowPlaces, RowHeads
  <2>2. \A p \in RowTexts(13, ValueHead, row) : MayStand(p, drawn.prochot, drawn.mark, reg)
    BY <1>3, <2>1, RowStands
  <2>3. \A p \in T : MayStand(p, drawn.prochot, drawn.mark, reg)
    BY <1>2, MenuStands
  <2> QED
    BY <2>2, <2>3, Zenon
<1>10. U = ViewTexts(drawn')
  BY <1>6, <1>7, Zenon DEF ViewTexts
<1> HIDE DEF row, T, U
<1>11. Shows(d)'
  BY <1>1, <1>6, <1>8, <1>9, <1>10, <1>4 DEF Shows
<1>12. Drawn'
  BY <1>1, <1>2, <1>6, <1>7 DEF Screened, Drawn
<1>13. Told'
  BY <1>1 DEF Told
<1> QED
  BY <1>5, <1>11, <1>12, <1>13, Zenon DEF Screened, ConsoleShows

LEMMA ThreeRows ==
  ASSUME NEW a, NEW b, NEW c, NEW S, a \in S, b \in S, c \in S
  PROVE  /\ <<a, b, c>> \in Seq(S) /\ Len(<<a, b, c>>) = 3
         /\ <<a, b, c>>[1] = a /\ <<a, b, c>>[2] = b /\ <<a, b, c>>[3] = c
         /\ <<>> \o <<a, b, c>> = <<a, b, c>>
<1>1. <<a, b, c>> \in Seq(S)
  OBVIOUS
<1>2. <<>> \o <<a, b, c>> = <<a, b, c>>
  BY <1>1, ConcatEmptySeq, Zenon
<1> QED
  BY <1>1, <1>2

LEMMA ReadToChangeScreened ==
  ASSUME Screened, ReadToChange
  PROVE  Screened'
<1> DEFINE val  == AsmReadMsr64(reg)
           mask == IF choice = 3 THEN SET_ZERO ELSE CLEAR_ZERO
           h    == IF choice = 3 THEN OrHead ELSE AndHead
           T    == MenuTexts(drawn.prochot, drawn.mark)
           T1   == T \cup RowTexts(13, ValueHead, strRow(val))
<1>1. /\ pc = "choose" /\ out = <<>> /\ choice \in {2, 3} /\ pc' = "confirm"
      /\ msg' = IF choice = 3 THEN "enabled" ELSE "disabled"
      /\ nval' = IF choice = 3 THEN val \cup mask ELSE val \cap mask
      /\ out' = read_MSR(val) \o table(HeadOf(choice), mask, nval') \o <<MSG_CONFIRM>>
      /\ drawn' = [drawn EXCEPT !.rows = @ \o <<strRow(val), strRow(mask), strRow(nval')>>]
      /\ UNCHANGED <<kq, con, reg, i, key, choice, taken>>
  BY DEF ReadToChange, Reached
<1>2. /\ con = Screen(T, 11, 0) /\ Ahead(T, 11, 0)
      /\ drawn.prochot \in Bits /\ drawn.mark \in 0..3 /\ drawn.rows = <<>>
  BY <1>1, MenuOnScreen
<1>3. Told'
  <2>1. CASE choice = 3
    BY <1>1, <2>1 DEF Told, SET_ZERO
  <2>2. CASE choice = 2
    BY <1>1, <2>2 DEF Told, CLEAR_ZERO
  <2> QED
    BY <1>1, <2>1, <2>2
<1>4. HeadOf(choice) = <<h>> /\ h \in {OrHead, AndHead}
  BY DEF HeadOf
<1>5. PICK nv : nv = nval'
  OBVIOUS
<1> DEFINE rows == <<strRow(val), strRow(mask), strRow(nv)>>
           U == T1 \cup TableTexts(h, strRow(mask), strRow(nv))
<1>6. PICK d : d = Screen(U, 19, Width(Question))
  OBVIOUS
<1>7. Prints(con', out', d)
  <2>1. Prints(con, read_MSR(val), Screen(T1, 13, 72)) /\ Ahead(T1, 13, 72)
    BY <1>2, ValuePrinted
  <2> HIDE DEF T1, T, val, mask, h
  <2>2. Prints(con, read_MSR(val) \o table(<<h>>, mask, nv) \o <<MSG_CONFIRM>>, d)
    BY <1>4, <1>6, <2>1, TablePrinted
  <2>3. con' = con /\ out' = read_MSR(val) \o table(<<h>>, mask, nv) \o <<MSG_CONFIRM>>
    BY <1>1, <1>4, <1>5
  <2> QED
    BY <2>2, <2>3
<1>8. /\ strRow(val) \in [1..64 -> Bits] /\ strRow(mask) \in [1..64 -> Bits]
      /\ strRow(nv) \in [1..64 -> Bits]
  BY RowsOfBits, Zenon
<1>9. /\ rows \in Seq([1..64 -> Bits]) /\ Len(rows) = 3 /\ <<>> \o rows = rows
      /\ rows[1] = strRow(val) /\ rows[2] = strRow(mask) /\ rows[3] = strRow(nv)
  BY <1>8, ThreeRows
<1>10. \A p \in U : MayStand(p, drawn.prochot, drawn.mark, reg)
  <2>1. 13 \in RowPlaces /\ ValueHead \in RowHeads
    BY DEF RowPlaces, RowHeads
  <2>2. /\ \A p \in RowTexts(13, ValueHead, strRow(val)) :
             MayStand(p, drawn.prochot, drawn.mark, reg)
        /\ \A p \in TableTexts(h, strRow(mask), strRow(nv)) :
             MayStand(p, drawn.prochot, drawn.mark, reg)
    BY <1>4, <1>8, <2>1, RowStands, TableStands, Zenon
  <2>3. \A p \in T : MayStand(p, drawn.prochot, drawn.mark, reg)
    BY <1>2, MenuStands
  <2> QED
    BY <2>2, <2>3, Zenon
<1>11. drawn' = [drawn EXCEPT !.rows = @ \o rows]
  BY <1>1, <1>5
<1> HIDE DEF val, mask, h, T, T1, rows
<1>12. /\ drawn' \in Drawing /\ drawn'.prochot = drawn.prochot /\ drawn'.mark = drawn.mark
       /\ drawn'.rows = rows
  <2>1. drawn \in Drawing
    BY DEF Screened, Drawn
  <2> QED
    BY <1>2, <1>9, <1>11, <2>1 DEF Drawing
<1>13. U = ConfirmTexts(drawn', h)
  BY <1>9, <1>12, Zenon DEF ConfirmTexts, ViewTexts, T, T1
<1> HIDE DEF U
<1>14. d.texts = U
  BY <1>6 DEF Screen
<1>15. Shows(d)'
  <2>1. \E k \in {OrHead, AndHead} : d = Screen(ConfirmTexts(drawn', k), 19, Width(Question))
    BY <1>4, <1>6, <1>13, Zenon
  <2>2. \A p \in d.texts : MayStand(p, drawn'.prochot, drawn'.mark, reg')
    BY <1>1, <1>10, <1>12, <1>14
  <2> QED
    BY <1>1, <2>1, <2>2 DEF Shows
<1>16. Drawn'
  BY <1>1, <1>2, <1>9, <1>12 DEF Screened, Drawn
<1> QED
  BY <1>3, <1>7, <1>15, <1>16, Zenon DEF Screened, ConsoleShows

(* ConfirmAndWrite clears the screen before it writes, and what toMsg says *)
(* after the write is what was written.                                    *)
LEMMA AbortScreened ==
  ASSUME Screened, ClearAndAbort
  PROVE  Screened'
<1>1. con' = Cleared(0) /\ CallToMsg("abort") /\ drawn' = Blank /\ reg' = reg
  BY DEF ClearAndAbort, Reset, Decided
<1>2. ConsoleShows' /\ Told'
  BY <1>1, CallToMsgShows DEF Messages
<1>3. pc' = "poll" /\ choice' = 1
  BY <1>1 DEF CallToMsg
<1>4. Drawn'
  BY <1>1, <1>3, BlankDrawn DEF Drawn
<1> QED
  BY <1>2, <1>4 DEF Screened

LEMMA GoOnScreened ==
  ASSUME Screened, ClearAndGoOn
  PROVE  Screened'
<1>1. /\ pc = "answered" /\ pc' = "wrmsr" /\ out = <<>> /\ con' = Cleared(0)
      /\ UNCHANGED <<kq, reg, out, msg, i, key, choice, nval, drawn, taken>>
  BY DEF ClearAndGoOn, Reached, Reset
<1>2. Cleared(0) \in Console /\ Cleared(0).texts = {}
  BY DEF Cleared, Screen, Console
<1>3. Prints(con', out', Cleared(0))
  BY <1>1, <1>2, PrintsNothing
<1>4. Shows(Cleared(0))'
  BY <1>1, <1>2 DEF Shows
<1>5. Told' /\ Drawn'
  BY <1>1 DEF Screened, Told, Drawn
<1> QED
  BY <1>3, <1>4, <1>5, Zenon DEF Screened, ConsoleShows

LEMMA WriteScreened ==
  ASSUME Screened, WriteMsr
  PROVE  Screened'
<1>1. /\ pc = "wrmsr" /\ out = <<>> /\ reg' = AsmWriteMsr64(nval) /\ CallToMsg(msg)
      /\ drawn' = Blank /\ con' = con
  BY DEF WriteMsr, Reached, Decided
<1>2. con' = Cleared(0)
  BY <1>1, PrintedAll DEF Screened, Shows
<1>3. 0 \in reg' <=> 0 \in nval
  BY <1>1, ZeroBit
<1>4. (msg = "enabled" /\ 0 \in reg') \/ (msg = "disabled" /\ 0 \notin reg')
  BY <1>1, <1>3 DEF Screened, Told
<1>5. /\ msg \in Messages
      /\ msg = "enabled" => BitTrue("1", reg')
      /\ msg = "disabled" => BitTrue("0", reg')
  <2>1. CASE msg = "enabled" /\ 0 \in reg'
    BY <2>1 DEF Messages, BitTrue
  <2>2. CASE msg = "disabled" /\ 0 \notin reg'
    BY <2>2 DEF Messages, BitTrue
  <2> QED
    BY <1>4, <2>1, <2>2
<1>6. ConsoleShows' /\ Told'
  BY <1>1, <1>2, <1>5, CallToMsgShows
<1>7. pc' = "poll" /\ choice' = 1
  BY <1>1 DEF CallToMsg
<1>8. Drawn'
  BY <1>1, <1>7, BlankDrawn DEF Drawn
<1> QED
  BY <1>6, <1>8 DEF Screened

(* The platform changes nothing the screen tells, unless bit 0 is its own. *)
LEMMA FirmwareScreened ==
  ASSUME Screened, Firmware
  PROVE  Screened'
<1>1. /\ UNCHANGED <<kq, con, pc, out, msg, i, key, choice, nval, drawn, taken>>
      /\ \E S \in SUBSET FirmwareBits : reg' = (reg \ FirmwareBits) \cup S
  BY DEF Firmware
<1>2. 0 \notin FirmwareBits => (0 \in reg' <=> 0 \in reg)
  BY <1>1
<1>3. \A b : BitTrue(b, reg') <=> BitTrue(b, reg)
  BY <1>2, Zenon DEF BitTrue
<1>4. \A p, bit, mark : MayStand(p, bit, mark, reg) => MayStand(p, bit, mark, reg')
  BY <1>3, ZenonT(60) DEF MayStand
<1>5. PICK d : Prints(con, out, d) /\ Shows(d)
  BY DEF Screened, ConsoleShows
<1>6. Prints(con', out', d)
  BY <1>1, <1>5
<1>7. Shows(d)'
  <2>1. \A p \in d.texts : MayStand(p, drawn.prochot, drawn.mark, reg')
    BY <1>4, <1>5, Zenon DEF Shows
  <2> QED
    BY <1>1, <1>5, <2>1 DEF Shows
<1>8. Told'
  BY <1>1, <1>3 DEF Screened, Told
<1>9. Drawn'
  BY <1>1, <1>3 DEF Screened, Drawn
<1> QED
  BY <1>6, <1>7, <1>8, <1>9, Zenon DEF Screened, ConsoleShows

LEMMA UnseenScreened ==
  ASSUME Screened,
         UNCHANGED <<con, reg, pc, out, msg, i, choice, nval, drawn>>
  PROVE  Screened'
<1>1. ConsoleShows'
  BY SamePage DEF Screened
<1>2. Told' /\ Drawn'
  BY DEF Screened, Told, Drawn
<1> QED
  BY <1>1, <1>2 DEF Screened

LEMMA ScreenedNext == Handover /\ Screened /\ [Next]_vars => Screened'
<1> SUFFICES ASSUME Handover, Screened, [Next]_vars
             PROVE  Screened'
  OBVIOUS
<1>1. CASE OutputNext \/ Start \/ Poll \/ Stall \/ ClearForMenu \/ ReadHeader
  BY <1>1, OutputScreened, StartScreened, PollScreened, StallScreened,
     ClearForMenuScreened, ReadHeaderScreened, Zenon
<1>2. CASE WaitForEvent \/ MenuKey \/ Exit \/ ViewSeen \/ ReadAnswer
  BY <1>2, KeysScreened, Zenon
<1>3. CASE ReadToView \/ ReadToChange \/ ClearAndAbort \/ ClearAndGoOn \/ WriteMsr
  BY <1>3, ReadToViewScreened, ReadToChangeScreened, AbortScreened, GoOnScreened,
     WriteScreened, Zenon
<1>4. CASE Firmware
  BY <1>4, FirmwareScreened
<1>5. CASE UserTypes \/ Terminated \/ UNCHANGED vars
  BY <1>5, UnseenScreened DEF UserTypes, Terminated, vars
<1> QED
  BY <1>1, <1>2, <1>3, <1>4, <1>5, Zenon DEF Next, Program

(* At every moment the screen is a part of what the program is drawing:    *)
(* its texts stand in their places, none over another, and the rest is     *)
(* what out still adds.                                                    *)
THEOREM ScreenIsDrawn == Spec => []Screened
BY ScreenedInit, ScreenedNext, CallsHandOver, PTL DEF Spec

(***************************************************************************)
(* What can be read on such a screen.                                      *)
(***************************************************************************)
LEMMA TextsStand ==
  ASSUME Screened
  PROVE  \A p \in con.texts : MayStand(p, drawn.prochot, drawn.mark, reg)
<1>1. PICK d : Prints(con, out, d) /\ Shows(d)
  BY DEF Screened, ConsoleShows
<1>2. con.texts \subseteq d.texts
  <2>1. CASE out = <<>>
    BY <1>1, <2>1, PrintsNothing
  <2>2. CASE out # <<>>
    BY <1>1, <2>2, PrintsNext
  <2> QED
    BY <2>1, <2>2
<1> QED
  BY <1>1, <1>2 DEF Shows

LEMMA ItemTexts ==
  \A n \in 0..3 : /\ Item[n + 1] \notin {ProcHot, "0", "1", Arrow, Enabled, Disabled}
                  /\ Item[n + 1] \notin Plain
<1>1. \A n \in 0..3 : Item[n + 1] \in {Item[1], Item[2], Item[3], Item[4]}
  OBVIOUS
<1> QED
  BY <1>1, PlainTexts, OtherTexts, Zenon

LEMMA StandsProcHot ==
  ASSUME NEW p, NEW bit, NEW mark, NEW r, MayStand(p, bit, mark, r), p.text = ProcHot
  PROVE  p = Text(3, 0, ProcHot)
BY PlainTexts, OtherTexts, ItemTexts DEF MayStand, Text, Bits

LEMMA StandsBit ==
  ASSUME NEW p, NEW bit, NEW mark, NEW r, MayStand(p, bit, mark, r), p.text \in Bits
  PROVE  p.row \in RowPlaces \/ p = Text(3, 12, bit)
BY PlainTexts, OtherTexts, ItemTexts DEF MayStand, Text, Bits

LEMMA StandsArrow ==
  ASSUME NEW p, NEW bit, NEW mark, NEW r, MayStand(p, bit, mark, r), p.text = Arrow
  PROVE  p = Text(7 + mark, 0, Arrow)
BY PlainTexts, OtherTexts, ItemTexts DEF MayStand, Text, Bits

LEMMA StandsItem ==
  ASSUME NEW p, NEW bit, NEW mark, NEW r, MayStand(p, bit, mark, r),
         NEW n \in 1..4, p.text = Item[n]
  PROVE  p = Text(7 + (n - 1), 2, Item[n])
<1>1. /\ Item[n] \notin {ProcHot, "0", "1", Arrow, Enabled, Disabled}
      /\ Item[n] \notin Plain
  <2>1. n - 1 \in 0..3 /\ (n - 1) + 1 = n
    OBVIOUS
  <2> QED
    BY <2>1, ItemTexts
<1>2. PICK k \in 0..3 : p = Text(7 + k, 2, Item[k + 1])
  BY <1>1 DEF MayStand, Text, Bits
<1>3. k + 1 = n
  <2>1. Item[k + 1] = Item[n] /\ k + 1 \in 1..4
    BY <1>2 DEF Text
  <2> QED
    BY <2>1, ItemsDiffer
<1> QED
  BY <1>2, <1>3

LEMMA StandsMessage ==
  ASSUME NEW p, NEW bit, NEW mark, NEW r, MayStand(p, bit, mark, r)
  PROVE  /\ p.text = Enabled => BitTrue("1", r)
         /\ p.text = Disabled => BitTrue("0", r)
BY PlainTexts, OtherTexts, ItemTexts DEF MayStand, Text, Bits

LEMMA StandsHead ==
  ASSUME NEW p, NEW q, NEW bit, NEW mark, NEW r,
         MayStand(p, bit, mark, r), MayStand(q, bit, mark, r),
         p.text \notin {"0", "1", ProcHot}, q.text \in Bits, q.row = p.row
  PROVE  p.row \in RowPlaces /\ p.text \in Plain /\ End(p) = 8
<1>1. p.row \in RowPlaces \/ p.row = 3
  BY StandsBit DEF Text
<1>2. p.row \notin {1, 7, 8, 9, 10}
  BY <1>1 DEF RowPlaces
<1>3. p.text \in Plain /\ p.row # 3 /\ (p.row \in RowPlaces => End(p) = 8)
  <2>1. ASSUME NEW n \in 0..3, p.row = 7 + n PROVE FALSE
    BY <1>2, <2>1
  <2>2. \A n \in 0..3 : p # Text(7 + n, 2, Item[n + 1])
    BY <2>1 DEF Text
  <2>3. mark \in 0..3 => p # Text(7 + mark, 0, Arrow)
    BY <2>1 DEF Text
  <2>4. p # Text(3, 0, ProcHot) /\ (bit \in Bits => p # Text(3, 12, bit))
    BY DEF Text, Bits
  <2>5. p.row # 1 /\ p.text \notin Bits
    BY <1>2 DEF Bits
  <2> QED
    BY <2>2, <2>3, <2>4, <2>5, Zenon DEF MayStand
<1> QED
  BY <1>1, <1>3

LEMMA HeadsStand ==
  ASSUME Screened
  PROVE  \A p \in Heads : /\ p \in con.texts /\ p.row \in RowPlaces
                          /\ p.text \in Plain /\ End(p) = 8
<1> SUFFICES ASSUME NEW p \in Heads
             PROVE  /\ p \in con.texts /\ p.row \in RowPlaces
                    /\ p.text \in Plain /\ End(p) = 8
  OBVIOUS
<1>1. PICK b \in {"0", "1"} : At(p.row, p.to, b)
  BY DEF Heads
<1>2. p \in con.texts /\ p.text \notin {"0", "1", ProcHot}
  BY DEF Heads
<1> DEFINE q == Text(p.row, p.to, b)
<1>3. q \in con.texts /\ q.text \in Bits /\ q.row = p.row
  BY <1>1 DEF At, Text, Bits
<1> HIDE DEF q
<1> QED
  BY <1>2, <1>3, TextsStand, StandsHead

LEMMA SaysBit ==
  ASSUME Screened, NEW b \in Bits, Says(ProcHot, b)
  PROVE  b = drawn.prochot
<1>1. PICK p \in con.texts : p.text = ProcHot /\ At(p.row, p.to, b)
  BY DEF Says, Text
<1>2. p = Text(3, 0, ProcHot)
  BY <1>1, TextsStand, StandsProcHot
<1>3. Text(3, 12, b) \in con.texts
  <2>1. p.row = 3 /\ p.to = 12
    BY <1>2, WidthAssumption DEF Text
  <2> QED
    BY <1>1, <2>1 DEF At
<1>4. Text(3, 12, b).row = 3 /\ Text(3, 12, b).text = b /\ 3 \notin RowPlaces
  BY DEF Text, RowPlaces
<1>5. Text(3, 12, b) = Text(3, 12, drawn.prochot)
  BY <1>3, <1>4, TextsStand, StandsBit
<1> QED
  BY <1>5 DEF Text

(* Whatever can be read of BD_PROCHOT is true, unless the platform changes *)
(* that bit itself.                                                        *)
THEOREM ShownIsTrue == Spec => []ShownBitTrue
<1>1. ASSUME Screened PROVE ShownBitTrue
  <2> SUFFICES ASSUME 0 \notin FirmwareBits
               PROVE  /\ Says(ProcHot, "1") => 0 \in reg
                      /\ Says(ProcHot, "0") => 0 \notin reg
                      /\ \A p \in con.texts : /\ p.text = Enabled  => 0 \in reg
                                              /\ p.text = Disabled => 0 \notin reg
    BY Zenon DEF ShownBitTrue
  <2>1. "1" \in Bits /\ "0" \in Bits /\ BitTrue(drawn.prochot, reg)
    BY <1>1 DEF Bits, Screened, Drawn
  <2>2. Says(ProcHot, "1") => 0 \in reg
    BY <1>1, <2>1, SaysBit DEF BitTrue
  <2>3. Says(ProcHot, "0") => 0 \notin reg
    BY <1>1, <2>1, SaysBit DEF BitTrue
  <2>4. BitTrue("1", reg) => 0 \in reg
    BY DEF BitTrue
  <2>5. BitTrue("0", reg) => 0 \notin reg
    BY DEF BitTrue
  <2>6. \A p \in con.texts : /\ p.text = Enabled  => 0 \in reg
                             /\ p.text = Disabled => 0 \notin reg
    BY <1>1, <2>4, <2>5, TextsStand, StandsMessage
  <2> QED
    BY <2>2, <2>3, <2>6
<1> QED
  BY <1>1, ScreenIsDrawn, PTL

(* Bits of the same weight stand below each other, at any moment.          *)
THEOREM ColumnsAligned == Spec => []BitsAligned
<1>1. ASSUME Screened PROVE BitsAligned
  BY <1>1, HeadsStand DEF BitsAligned, End
<1> QED
  BY <1>1, ScreenIsDrawn, PTL

(* While the program waits, the screen is the page it drew.                *)
LEMMA WaitingPage ==
  ASSUME Screened, Waiting
  PROVE  /\ drawn \in Drawing /\ drawn.prochot \in Bits /\ drawn.mark \in 0..3
         /\ MenuTexts(drawn.prochot, drawn.mark) \subseteq con.texts
         /\ \/ Len(drawn.rows) = 0 /\ con.texts = MenuTexts(drawn.prochot, drawn.mark)
            \/ Len(drawn.rows) = 1 /\ con.texts = ViewTexts(drawn)
            \/ /\ Len(drawn.rows) = 3
               /\ \E h \in {OrHead, AndHead} : con.texts = ConfirmTexts(drawn, h)
<1>1. drawn \in Drawing /\ drawn.prochot \in Bits /\ drawn.mark \in 0..3
  BY DEF Screened, Drawn, Waiting
<1>2. Shows(con)
  BY PrintedAll DEF Screened, Waiting
<1>3. CASE pc \in {"menu", "menukey", "choose"}
  <2>1. con.texts = MenuTexts(drawn.prochot, drawn.mark)
    BY <1>2, <1>3 DEF Shows, Screen
  <2>2. drawn.rows = <<>> /\ Len(<<>>) = 0
    BY <1>3 DEF Screened, Drawn
  <2>3. Len(drawn.rows) = 0
    BY <2>2
  <2> QED
    BY <1>1, <2>1, <2>3
<1>4. CASE pc = "view"
  <2>1. con.texts = ViewTexts(drawn) /\ Len(drawn.rows) = 1
    BY <1>2, <1>4 DEF Shows, Screen, Screened, Drawn
  <2>2. MenuTexts(drawn.prochot, drawn.mark) \subseteq ViewTexts(drawn)
    BY DEF ViewTexts
  <2> QED
    BY <1>1, <2>1, <2>2
<1>5. CASE pc \in {"confirm", "answer"}
  <2>1. PICK h \in {OrHead, AndHead} :
          con = Screen(ConfirmTexts(drawn, h), 19, Width(Question))
    BY <1>2, <1>5 DEF Shows
  <2>2. con.texts = ConfirmTexts(drawn, h) /\ Len(drawn.rows) = 3
    BY <1>5, <2>1 DEF Screen, Screened, Drawn
  <2>3. MenuTexts(drawn.prochot, drawn.mark) \subseteq ConfirmTexts(drawn, h)
    BY DEF ConfirmTexts, ViewTexts
  <2> QED
    BY <1>1, <2>2, <2>3
<1> QED
  BY <1>3, <1>4, <1>5 DEF Waiting

(* Nothing is cut off, and the header is on the first row.                 *)
THEOREM NothingCutOff == Spec => []OnScreen
<1>1. ASSUME Screened PROVE OnScreen
  <2>1. \A p \in con.texts : p.to < Columns
    BY <1>1, TextsStand DEF MayStand, End
  <2>2. Waiting => At(0, 0, Header)
    <3>1. Text(0, 0, Header) \in MenuTexts(drawn.prochot, drawn.mark)
      BY DEF MenuTexts, HeaderTexts
    <3> QED
      BY <1>1, <3>1, WaitingPage DEF At
  <2> QED
    BY <2>1, <2>2 DEF OnScreen
<1> QED
  BY <1>1, ScreenIsDrawn, PTL

(* The item with the arrow.                                                *)
LEMMA ArrowAtItem ==
  ASSUME Screened, Waiting, NEW n \in 1..4
  PROVE  Says(Arrow, Item[n]) <=> n = drawn.mark + 1
<1> DEFINE m == drawn.mark
<1>1. m \in 0..3 /\ MenuTexts(drawn.prochot, m) \subseteq con.texts
  BY WaitingPage
<1>2. Width(Arrow) = 2
  BY WidthAssumption
<1>3. ASSUME Says(Arrow, Item[n]) PROVE n = m + 1
  <2>1. PICK p \in con.texts : p.text = Arrow /\ At(p.row, p.to, Item[n])
    BY <1>3 DEF Says, Text
  <2>2. p = Text(7 + m, 0, Arrow)
    BY <2>1, TextsStand, StandsArrow
  <2>3. p.row = 7 + m
    BY <2>2 DEF Text
  <2> DEFINE q == Text(p.row, p.to, Item[n])
  <2>4. q \in con.texts /\ q.text = Item[n] /\ q.row = p.row
    BY <2>1 DEF At, Text
  <2> HIDE DEF q
  <2>5. q = Text(7 + (n - 1), 2, Item[n])
    BY <2>4, TextsStand, StandsItem
  <2>6. q.row = 7 + (n - 1)
    BY <2>5 DEF Text
  <2> QED
    BY <1>1, <2>3, <2>4, <2>6
<1>4. ASSUME n = m + 1 PROVE Says(Arrow, Item[n])
  <2> DEFINE p == Text(7 + m, 0, Arrow)
  <2>1. MenuRowTexts(m, m) \subseteq MenuTexts(drawn.prochot, m)
    BY <1>1 DEF MenuTexts
  <2>2. p \in con.texts /\ Text(7 + m, 2, Item[m + 1]) \in con.texts
    BY <1>1, <2>1 DEF MenuRowTexts
  <2>3. p = Text(p.row, p.col, Arrow) /\ p.row = 7 + m /\ p.to = 2
    BY <1>2 DEF Text
  <2> HIDE DEF p
  <2>4. At(p.row, p.to, Item[n])
    BY <1>4, <2>2, <2>3 DEF At
  <2> QED
    BY <2>2, <2>3, <2>4 DEF Says
<1> QED
  BY <1>3, <1>4

(* A row of the screen that holds a head and its bits, and nothing else.   *)
RowAlone(row, h, bits) ==
  /\ RowTexts(row, h, bits) \subseteq con.texts
  /\ \A p \in con.texts : p.row = row => p \in RowTexts(row, h, bits)

LEMMA BitAt ==
  ASSUME NEW row, NEW h, NEW bits, RowAlone(row, h, bits), NEW c \in 1..64, NEW b
  PROVE  At(row, 7 + c, b) <=> bits[c] = b
<1>1. Text(row, 7 + c, bits[c]) \in con.texts
  BY DEF RowAlone, RowTexts
<1>2. ASSUME Text(row, 7 + c, b) \in con.texts PROVE bits[c] = b
  <2>1. Text(row, 7 + c, b) \in RowTexts(row, h, bits)
    BY <1>2 DEF RowAlone, Text
  <2>2. Text(row, 7 + c, b) # Text(row, 0, h)
    BY DEF Text
  <2>3. PICK n \in 1..64 : Text(row, 7 + c, b) = Text(row, 7 + n, bits[n])
    BY <2>1, <2>2 DEF RowTexts
  <2>4. 7 + c = 7 + n /\ b = bits[n]
    BY <2>3 DEF Text
  <2>5. c = n
    BY <2>4
  <2> QED
    BY <2>4, <2>5
<1> QED
  BY <1>1, <1>2 DEF At

LEMMA RowSeen ==
  ASSUME Screened, NEW row \in RowPlaces, NEW h \in RowHeads,
         NEW bits \in [1..64 -> Bits], RowAlone(row, h, bits)
  PROVE  /\ Text(row, 0, h) \in Heads
         /\ \A p \in Heads : p.row = row => p = Text(row, 0, h)
         /\ BitsAfter(Text(row, 0, h)) = bits
<1> DEFINE p0 == Text(row, 0, h)
<1>1. /\ p0.row = row /\ p0.text = h /\ p0.to = 8
      /\ p0 \in con.texts /\ h \in Plain
  BY WidthAssumption DEF Text, RowAlone, RowTexts, Plain
<1>2. p0 \in Heads
  <2>1. At(row, 7 + 1, bits[1]) /\ bits[1] \in {"0", "1"}
    BY BitAt DEF Bits
  <2>2. h \notin {"0", "1", ProcHot}
    BY <1>1, PlainTexts
  <2>3. \E b \in {"0", "1"} : At(p0.row, p0.to, b)
    BY <1>1, <2>1
  <2> QED
    BY <1>1, <2>2, <2>3, Zenon DEF Heads
<1>3. ASSUME NEW p \in Heads, p.row = row PROVE p = p0
  <2>1. p \in RowTexts(row, h, bits) /\ p.text \in Plain
    BY <1>3, HeadsStand DEF RowAlone
  <2>2. \A n \in 1..64 : p # Text(row, 7 + n, bits[n])
    <3>1. \A n \in 1..64 : bits[n] \notin Plain
      BY PlainTexts DEF Bits
    <3> QED
      BY <2>1, <3>1 DEF Text
  <2> QED
    BY <2>1, <2>2, Zenon DEF RowTexts
<1>4. BitsAfter(p0) = bits
  <2>1. ASSUME NEW c \in 1..64
        PROVE  (IF At(p0.row, p0.to + c - 1, "1") THEN "1"
                ELSE IF At(p0.row, p0.to + c - 1, "0") THEN "0" ELSE "")
               = bits[c]
    <3>1. p0.to + c - 1 = 7 + c
      BY <1>1
    <3>2. /\ At(row, 7 + c, "1") <=> bits[c] = "1"
          /\ At(row, 7 + c, "0") <=> bits[c] = "0"
      BY BitAt
    <3>3. bits[c] \in {"0", "1"}
      BY DEF Bits
    <3> HIDE DEF p0
    <3> QED
      BY <1>1, <3>1, <3>2, <3>3
  <2> HIDE DEF p0
  <2> QED
    BY <2>1 DEF BitsAfter
<1> QED
  BY <1>2, <1>3, <1>4

Place(n)     == IF n = 1 THEN 13 ELSE IF n = 2 THEN 14 ELSE 16
HeadAt(n, h) == IF n = 1 THEN ValueHead ELSE IF n = 2 THEN h ELSE ResultHead

LEMMA RowOfBits ==
  ASSUME NEW row, NEW h, NEW bits
  PROVE  \A p \in RowTexts(row, h, bits) : p.row = row
BY DEF RowTexts, Text

LEMMA RowsOfMenu ==
  ASSUME NEW bit, NEW mark
  PROVE  \A p \in MenuTexts(bit, mark) : p.row \in {0, 1, 3, 5, 6, 7, 8, 9, 10}
<1>1. \A p \in HeaderTexts \cup {Text(3, 12, bit), Text(5, 0, Title), Text(6, 0, Line)} :
        p.row \in {0, 1, 3, 5, 6}
  BY DEF HeaderTexts, Text
<1>2. /\ \A p \in MenuRowTexts(mark, 0) : p.row = 7
      /\ \A p \in MenuRowTexts(mark, 1) : p.row = 8
      /\ \A p \in MenuRowTexts(mark, 2) : p.row = 9
      /\ \A p \in MenuRowTexts(mark, 3) : p.row = 10
  BY DEF MenuRowTexts, Text
<1> QED
  BY <1>1, <1>2 DEF MenuTexts

LEMMA ViewRows ==
  ASSUME con.texts = ViewTexts(drawn)
  PROVE  /\ RowAlone(13, ValueHead, drawn.rows[1])
         /\ \A p \in con.texts : p.row \in RowPlaces => p.row = 13
<1> DEFINE M == MenuTexts(drawn.prochot, drawn.mark)
           R == RowTexts(13, ValueHead, drawn.rows[1])
<1>1. con.texts = M \cup R
  BY Zenon DEF ViewTexts
<1>2. /\ \A p \in M : p.row \in {0, 1, 3, 5, 6, 7, 8, 9, 10}
      /\ \A p \in R : p.row = 13
  BY RowsOfMenu, RowOfBits, Zenon
<1> HIDE DEF M, R
<1>3. R \subseteq con.texts /\ \A p \in con.texts : p.row = 13 => p \in R
  BY <1>1, <1>2
<1>4. \A p \in con.texts : p.row \in RowPlaces => p.row = 13
  BY <1>1, <1>2 DEF RowPlaces
<1> QED
  BY <1>3, <1>4, Zenon DEF RowAlone, R

LEMMA ConfirmRows ==
  ASSUME NEW h, con.texts = ConfirmTexts(drawn, h)
  PROVE  /\ RowAlone(13, ValueHead, drawn.rows[1])
         /\ RowAlone(14, h, drawn.rows[2])
         /\ RowAlone(16, ResultHead, drawn.rows[3])
<1> DEFINE M == MenuTexts(drawn.prochot, drawn.mark)
           R == RowTexts(13, ValueHead, drawn.rows[1])
           S == RowTexts(14, h, drawn.rows[2])
           T == RowTexts(16, ResultHead, drawn.rows[3])
           O == {Text(15, 0, Equals), Text(19, 0, Question)}
<1>1. con.texts = M \cup R \cup S \cup T \cup O
  BY DEF ConfirmTexts, ViewTexts, TableTexts
<1>2. /\ \A p \in M : p.row \in {0, 1, 3, 5, 6, 7, 8, 9, 10}
      /\ \A p \in R : p.row = 13
      /\ \A p \in S : p.row = 14
      /\ \A p \in T : p.row = 16
  BY RowsOfMenu, RowOfBits, Zenon
<1>3. \A p \in O : p.row \in {15, 19}
  BY DEF Text
<1> HIDE DEF M, R, S, T, O
<1>4. R \subseteq con.texts /\ \A p \in con.texts : p.row = 13 => p \in R
  BY <1>1, <1>2, <1>3
<1>5. S \subseteq con.texts /\ \A p \in con.texts : p.row = 14 => p \in S
  BY <1>1, <1>2, <1>3
<1>6. T \subseteq con.texts /\ \A p \in con.texts : p.row = 16 => p \in T
  BY <1>1, <1>2, <1>3
<1> QED
  BY <1>4, <1>5, <1>6, Zenon DEF RowAlone, R, S, T

LEMMA PageRows ==
  ASSUME Screened, Waiting
  PROVE  \E h \in {OrHead, AndHead} :
           /\ \A n \in 1..Len(drawn.rows) : RowAlone(Place(n), HeadAt(n, h), drawn.rows[n])
           /\ \A p \in con.texts :
                p.row \in RowPlaces => \E n \in 1..Len(drawn.rows) : p.row = Place(n)
<1>1. CASE Len(drawn.rows) = 0 /\ con.texts = MenuTexts(drawn.prochot, drawn.mark)
  <2>1. \A p \in con.texts : p.row \in {0, 1, 3, 5, 6, 7, 8, 9, 10}
    BY <1>1, RowsOfMenu
  <2>2. \A p \in con.texts : p.row \notin RowPlaces
    BY <2>1 DEF RowPlaces
  <2>3. 1..Len(drawn.rows) = {}
    BY <1>1
  <2> QED
    BY <2>2, <2>3
<1>2. CASE Len(drawn.rows) = 1 /\ con.texts = ViewTexts(drawn)
  <2>1. 1..Len(drawn.rows) = {1}
    BY <1>2
  <2>2. Place(1) = 13 /\ \A h : HeadAt(1, h) = ValueHead
    BY DEF Place, HeadAt
  <2>3. /\ RowAlone(13, ValueHead, drawn.rows[1])
        /\ \A p \in con.texts : p.row \in RowPlaces => p.row = 13
    BY <1>2, ViewRows
  <2> QED
    BY <2>1, <2>2, <2>3
<1>3. CASE /\ Len(drawn.rows) = 3
           /\ \E h \in {OrHead, AndHead} : con.texts = ConfirmTexts(drawn, h)
  <2>1. PICK h \in {OrHead, AndHead} : con.texts = ConfirmTexts(drawn, h)
    BY <1>3
  <2>2. 1..Len(drawn.rows) = {1, 2, 3}
    BY <1>3
  <2>3. /\ Place(1) = 13 /\ Place(2) = 14 /\ Place(3) = 16 /\ HeadAt(1, h) = ValueHead
        /\ HeadAt(2, h) = h /\ HeadAt(3, h) = ResultHead
    BY DEF Place, HeadAt
  <2>4. /\ RowAlone(Place(1), HeadAt(1, h), drawn.rows[1])
        /\ RowAlone(Place(2), HeadAt(2, h), drawn.rows[2])
        /\ RowAlone(Place(3), HeadAt(3, h), drawn.rows[3])
    BY <2>1, <2>3, ConfirmRows
  <2>5. \A n \in 1..Len(drawn.rows) : RowAlone(Place(n), HeadAt(n, h), drawn.rows[n])
    BY <2>2, <2>4
  <2>6. \A p \in con.texts :
          p.row \in RowPlaces => \E n \in 1..Len(drawn.rows) : p.row = Place(n)
    BY <2>2, <2>3 DEF RowPlaces
  <2> QED
    BY <2>5, <2>6
<1> QED
  BY <1>1, <1>2, <1>3, WaitingPage

LEMMA DrawnRowsShown ==
  ASSUME Screened, Waiting
  PROVE  RowsShown(drawn.rows)
<1> DEFINE k == Len(drawn.rows)
<1>1. PICK h \in {OrHead, AndHead} :
        /\ \A n \in 1..k : RowAlone(Place(n), HeadAt(n, h), drawn.rows[n])
        /\ \A p \in con.texts : p.row \in RowPlaces => \E n \in 1..k : p.row = Place(n)
  BY PageRows
<1>2. k = 0 \/ k = 1 \/ k = 3
  BY WaitingPage, Zenon
<1>3. \A n \in 1..k : drawn.rows[n] \in [1..64 -> Bits]
  <2>1. drawn \in Drawing
    BY WaitingPage, Zenon
  <2>2. drawn.rows \in Seq([1..64 -> Bits])
    BY <2>1 DEF Drawing
  <2>3. drawn.rows \in [1..k -> [1..64 -> Bits]]
    BY <2>2, LenProperties, Zenon
  <2> QED
    BY <2>3, Zenon
<1> HIDE DEF k
<1> DEFINE head == [n \in 1..k |-> Text(Place(n), 0, HeadAt(n, h))]
<1>4. ASSUME NEW n \in 1..k
      PROVE  /\ Place(n) \in RowPlaces /\ HeadAt(n, h) \in RowHeads
             /\ \A m \in 1..k : m < n => Place(m) < Place(n)
  <2>1. \A m \in 1..k : m = 1 \/ m = 2 \/ m = 3
    BY <1>2
  <2>2. /\ Place(1) = 13 /\ Place(2) = 14 /\ Place(3) = 16 /\ HeadAt(1, h) = ValueHead
        /\ HeadAt(2, h) = h /\ HeadAt(3, h) = ResultHead
    BY DEF Place, HeadAt
  <2>3. Place(n) \in RowPlaces /\ HeadAt(n, h) \in RowHeads
    BY <2>1, <2>2 DEF RowPlaces, RowHeads
  <2>4. ASSUME NEW m \in 1..k, m < n PROVE Place(m) < Place(n)
    BY <2>1, <2>2, <2>4
  <2> QED
    BY <2>3, <2>4
<1>5. ASSUME NEW n \in 1..k
      PROVE  /\ Text(Place(n), 0, HeadAt(n, h)) \in Heads
             /\ \A p \in Heads : p.row = Place(n) => p = Text(Place(n), 0, HeadAt(n, h))
             /\ BitsAfter(Text(Place(n), 0, HeadAt(n, h))) = drawn.rows[n]
  BY <1>1, <1>3, <1>4, RowSeen, Zenon
<1>6. head \in [1..k -> Heads] /\ \A n \in 1..k : head[n] = Text(Place(n), 0, HeadAt(n, h))
  BY <1>5
<1> HIDE DEF head
<1>7. \A p \in Heads : \E n \in 1..k : head[n] = p
  <2> SUFFICES ASSUME NEW p \in Heads PROVE \E n \in 1..k : head[n] = p
    OBVIOUS
  <2>1. PICK n \in 1..k : p.row = Place(n)
    BY <1>1, HeadsStand
  <2>2. head[n] = p
    BY <1>5, <1>6, <2>1
  <2> QED
    BY <2>2
<1>8. \A m, n \in 1..k : m < n => head[m].row < head[n].row
  <2>1. ASSUME NEW n \in 1..k PROVE head[n].row = Place(n)
    <3>1. head[n] = Text(Place(n), 0, HeadAt(n, h))
      BY <1>6
    <3> QED
      BY <3>1 DEF Text
  <2> QED
    BY <1>4, <2>1
<1>9. \A n \in 1..k : BitsAfter(head[n]) = drawn.rows[n]
  BY <1>5, <1>6
<1> QED
  BY <1>6, <1>7, <1>8, <1>9, Zenon DEF RowsShown, k

(* While the program waits, what it computed at its rdmsr is what can be   *)
(* read: the bit, the item with the arrow, and 64 bits of every row.       *)
THEOREM WaitingScreenIsDrawn == Spec => []ScreenAsDrawn
<1>1. ASSUME Screened PROVE ScreenAsDrawn
  <2> SUFFICES ASSUME Waiting
               PROVE  /\ Says(ProcHot, drawn.prochot)
                      /\ \A n \in 1..4 : Says(Arrow, Item[n]) <=> n = drawn.mark + 1
                      /\ RowsShown(drawn.rows)
    BY Zenon DEF ScreenAsDrawn
  <2>1. Says(ProcHot, drawn.prochot)
    <3> DEFINE p == Text(3, 0, ProcHot)
    <3>1. p \in con.texts /\ Text(3, 12, drawn.prochot) \in con.texts
      BY <1>1, WaitingPage DEF MenuTexts, HeaderTexts
    <3>2. p = Text(p.row, p.col, ProcHot) /\ p.row = 3 /\ p.to = 12
      BY WidthAssumption DEF Text
    <3> HIDE DEF p
    <3> QED
      BY <3>1, <3>2 DEF Says, At
  <2> QED
    BY <1>1, <2>1, ArrowAtItem, DrawnRowsShown, Zenon
<1> QED
  BY <1>1, ScreenIsDrawn, PTL

-----------------------------------------------------------------------------
(* What is proved of the program from wait to wait holds of it call by     *)
(* call.  `Whole' once more, with the theorems; their assumptions are      *)
(* those of this module, the buffer one key longer.                        *)
Proved == INSTANCE ZeroProcHotProofs WITH
  MaxQueue <- MaxQueue + 1, kq <- WholeKq, pc <- WholePc, i <- WholeI,
  key <- WholeKey, screen <- drawn

LEMMA ProvedAssumptions ==
  /\ InitialValues \subseteq SUBSET Proved!Word64
  /\ FirmwareBits \subseteq Proved!Word64
  /\ Keyboard \subseteq Proved!InputKey
  /\ Residue \subseteq Proved!InputKey
  /\ MaxQueue + 1 \in Nat \ {0}
  /\ ReadMayFail \in BOOLEAN
  /\ OpenPolls \in Nat \ {0} /\ MessagePolls \in Nat \ {0}
<1>1. Proved!InputKey = InputKey
  BY DEF InputKey, Proved!InputKey
<1>2. Proved!Word64 = Word64
  BY Zenon DEF Word64, Proved!Word64
<1>3. MaxQueue + 1 \in Nat \ {0}
  BY QueueAssumption
<1> QED
  BY Zenon, <1>1, <1>2, <1>3, InitialAssumption, FirmwareAssumption,
     KeyboardAssumption, ResidueAssumption, FailureAssumption, PollsAssumption

LEMMA SameProgram == Whole!Spec => Proved!Spec
<1>1. Whole!Init <=> Proved!Init
  BY DEF Whole!Init, Proved!Init, Whole!KeysInit, Proved!KeysInit,
         Whole!Blank, Proved!Blank, Whole!Uninit, Proved!Uninit
<1>2. Whole!Next <=> Proved!Next
  BY Zenon
  DEF Whole!Next, Proved!Next, Whole!Program, Proved!Program,
      Whole!PollPressed, Proved!PollPressed, Whole!PollAgain,
      Proved!PollAgain, Whole!PollTimeout, Proved!PollTimeout,
      Whole!PollsOver, Proved!PollsOver, Whole!Poll, Proved!Poll, Whole!Polls,
      Proved!Polls, Whole!EndsToMsg, Proved!EndsToMsg, Whole!DrawMenu,
      Proved!DrawMenu, Whole!Draw, Proved!Draw, Whole!MenuDigit,
      Proved!MenuDigit, Whole!MenuUp, Proved!MenuUp, Whole!MenuDown,
      Proved!MenuDown, Whole!MenuEnter, Proved!MenuEnter, Whole!MenuRedraw,
      Proved!MenuRedraw, Whole!MenuKey, Proved!MenuKey, Whole!IsItem,
      Proved!IsItem, Whole!IsArrow, Proved!IsArrow, Whole!ChooseExit,
      Proved!ChooseExit, Whole!ChooseRead, Proved!ChooseRead, Whole!Choose,
      Proved!Choose, Whole!ViewDone, Proved!ViewDone, Whole!clear_ProcHot,
      Proved!clear_ProcHot, Whole!set_ProcHot, Proved!set_ProcHot, Whole!Show,
      Proved!Show, Whole!ConfirmAbort, Proved!ConfirmAbort,
      Whole!ConfirmWrite, Proved!ConfirmWrite, Whole!Answer, Proved!Answer,
      Whole!Refuses, Proved!Refuses, Whole!CallToMsg, Proved!CallToMsg,
      Whole!CallMenuloop, Proved!CallMenuloop, Whole!Blank, Proved!Blank,
      Whole!UserTypes, Proved!UserTypes, Whole!Firmware, Proved!Firmware,
      Whole!Terminated, Proved!Terminated, Whole!AsmReadMsr64,
      Proved!AsmReadMsr64, Whole!AsmWriteMsr64, Proved!AsmWriteMsr64,
      Whole!Join, Proved!Join, Whole!LowHalf, Proved!LowHalf, Whole!HighHalf,
      Proved!HighHalf, Whole!Word32, Proved!Word32, Whole!Word64,
      Proved!Word64, Whole!SET_ZERO, Proved!SET_ZERO, Whole!CLEAR_ZERO,
      Proved!CLEAR_ZERO, Whole!strRow, Proved!strRow, Whole!ReadKeyStroke,
      Proved!ReadKeyStroke, Whole!WaitForKey, Proved!WaitForKey, Whole!Type,
      Proved!Type, Whole!KeyValue, Proved!KeyValue, Whole!NUL, Proved!NUL,
      Whole!Char, Proved!Char, Whole!Uninit, Proved!Uninit,
      Whole!CHAR_CARRIAGE_RETURN, Proved!CHAR_CARRIAGE_RETURN, Whole!SCAN_ESC,
      Proved!SCAN_ESC, Whole!SCAN_UP, Proved!SCAN_UP, Whole!SCAN_DOWN,
      Proved!SCAN_DOWN, Whole!vars, Proved!vars
<1>3. [Whole!Next]_(Whole!vars) <=> [Proved!Next]_(Proved!vars)
  BY <1>2 DEF Whole!vars, Proved!vars
<1> QED
  BY <1>1, <1>3, PTL DEF Whole!Spec, Proved!Spec

LEMMA CallsMakeProgram == Spec => Proved!Spec
BY SameProgram, CallsImplementWhole DEF ImplementsZeroProcHot

(* Call by call, too, the program is the read-modify-write of              *)
(* ProcHotSwitch, with the user and the platform between any two calls.    *)
THEOREM CallsImplementSwitch == Spec => Whole!ImplementsSwitch
<1>1. Proved!Spec => Proved!ImplementsSwitch
  BY Zenon, ProvedAssumptions, Proved!ProgramImplementsSwitch
<1>2. Proved!ImplementsSwitch => Whole!ImplementsSwitch
  BY DEF Whole!ImplementsSwitch, Proved!ImplementsSwitch, Whole!Switch!Spec,
         Proved!Switch!Spec, Whole!Switch!Init, Proved!Switch!Init,
         Whole!Switch!Next, Proved!Switch!Next, Whole!Switch!vars,
         Proved!Switch!vars, Whole!Switch!Begin, Proved!Switch!Begin,
         Whole!Switch!Commit, Proved!Switch!Commit, Whole!Switch!Cancel,
         Proved!Switch!Cancel, Whole!Switch!Finish, Proved!Switch!Finish,
         Whole!Switch!Firmware, Proved!Switch!Firmware
<1> QED
  BY <1>1, <1>2, CallsMakeProgram

(* So no call changes a bit that is neither BD_PROCHOT nor the platform's. *)
THEOREM CallsKeepStableBits == Spec => Whole!StableBitsKept
<1>1. Proved!Spec => Proved!StableBitsKept
  BY Zenon, ProvedAssumptions, Proved!ProgramKeepsStableBits
<1>2. Proved!StableBitsKept => Whole!StableBitsKept
  BY DEF Whole!StableBitsKept, Proved!StableBitsKept,
         Whole!Switch!StableBitsKept, Proved!Switch!StableBitsKept,
         Whole!Switch!Stable, Proved!Switch!Stable, Whole!Switch!Word64,
         Proved!Switch!Word64, Whole!Switch!vars, Proved!Switch!vars
<1> QED
  BY <1>1, <1>2, CallsMakeProgram

(* wrmsr writes what the RESULT row was drawn from, although rdmsr, the    *)
(* printing, the wait, the read of the key and wrmsr are apart.            *)
THEOREM CallsWriteAsShown == Spec => Whole!ResultShownIsWritten
<1>1. Proved!Spec => Proved!ResultShownIsWritten
  BY Zenon, ProvedAssumptions, Proved!WrittenAsShown
<1>2. Proved!ResultShownIsWritten => Whole!ResultShownIsWritten
  BY DEF Whole!ResultShownIsWritten, Proved!ResultShownIsWritten,
         Whole!Writing, Proved!Writing, Whole!ShownValue, Proved!ShownValue,
         Whole!Word64, Proved!Word64, Whole!vars, Proved!vars
<1> QED
  BY <1>1, <1>2, CallsMakeProgram

(* While reads do not fail, wrmsr has an answer that was typed, the oldest *)
(* one not yet acted on, and it is not a refusal.                          *)
THEOREM CallsAnswerWrites == ReadMayFail = FALSE /\ Spec => Whole!WriteNeedsAnswer
<1>1. ReadMayFail = FALSE /\ Proved!Spec => Proved!WriteNeedsAnswer
  BY Zenon, ProvedAssumptions, Proved!AnswerWrites
<1>2. Proved!WriteNeedsAnswer => Whole!WriteNeedsAnswer
  BY DEF Whole!WriteNeedsAnswer, Proved!WriteNeedsAnswer, Whole!Writing,
         Proved!Writing, Whole!Refuses, Proved!Refuses, Whole!SCAN_ESC,
         Proved!SCAN_ESC, Whole!vars, Proved!vars
<1> QED
  BY <1>1, <1>2, CallsMakeProgram

(* The menu opens only if a key that ends the countdown was typed, while   *)
(* no unwritten key variable holds one.                                    *)
THEOREM CallsKeyOpensMenu ==
  (\A k \in Residue : ~Whole!EndsToMsg(k)) /\ Spec => Whole!InteractiveNeedsKey
<1>1. (\A k \in Residue : ~Proved!EndsToMsg(k)) /\ Proved!Spec
        => Proved!InteractiveNeedsKey
  BY Zenon, ProvedAssumptions, Proved!KeyOpensMenu
<1>2. Proved!InteractiveNeedsKey => Whole!InteractiveNeedsKey
  BY DEF Whole!InteractiveNeedsKey, Proved!InteractiveNeedsKey, Whole!EndsToMsg,
     Proved!EndsToMsg, Whole!CHAR_CARRIAGE_RETURN, Proved!CHAR_CARRIAGE_RETURN,
     Whole!SCAN_ESC, Proved!SCAN_ESC, Whole!vars, Proved!vars
<1>3. (\A k \in Residue : ~Whole!EndsToMsg(k))
        => \A k \in Residue : ~Proved!EndsToMsg(k)
  BY Zenon DEF Whole!EndsToMsg, Proved!EndsToMsg, Whole!CHAR_CARRIAGE_RETURN,
     Proved!CHAR_CARRIAGE_RETURN, Whole!SCAN_ESC, Proved!SCAN_ESC
<1> QED
  BY <1>1, <1>2, <1>3, CallsMakeProgram

(* An Esc typed in time stays in reach also if it arrives while the dots   *)
(* are printed or during a Stall.                                          *)
THEOREM CallsEscIsHonoured == ReadMayFail = FALSE /\ Spec => Proved!EscStaysInReach
<1>1. ReadMayFail = FALSE /\ Proved!Spec => Proved!EscStaysInReach
  BY Zenon, ProvedAssumptions, Proved!EscIsHonoured
<1> QED
  BY <1>1, CallsMakeProgram

LEMMA CallsPrompt == Spec => []Whole!PromptTrue
<1>1. Proved!Spec => []Proved!PromptTrue
  BY Zenon, ProvedAssumptions, Proved!PromptIsTrue
<1>2. Proved!PromptTrue <=> Whole!PromptTrue
  BY DEF Whole!PromptTrue, Proved!PromptTrue, Whole!ShownValue,
         Proved!ShownValue, Whole!Stable, Proved!Stable, Whole!Word64,
         Proved!Word64
<1> QED
  BY <1>1, <1>2, CallsMakeProgram, PTL

(* What the user reads when asked "Write Result to System?": there are     *)
(* three rows of bits on the console and no more; the last one is the      *)
(* value an answer will write, is the first combined with the mask in the  *)
(* second, and agrees with the register on every bit that is neither       *)
(* BD_PROCHOT nor the platform's, whatever happened since the rdmsr.       *)
Asks == out = <<>> /\ pc = "confirm"
TableTrue(head) ==
  LET row(n) == Whole!ShownValue(BitsAfter(head[n])) IN
  /\ row(3) = nval
  /\ \/ msg = "enabled"  /\ 0 \in nval    /\ nval = row(1) \cup row(2)
     \/ msg = "disabled" /\ 0 \notin nval /\ nval = row(1) \cap row(2)
PromptOnConsole ==
  Asks =>
    /\ \E head \in [1..3 -> Heads] :
         /\ \A p \in Heads : \E n \in 1..3 : head[n] = p
         /\ \A m, n \in 1..3 : m < n => head[m].row < head[n].row
         /\ TableTrue(head)
    /\ nval \cap Whole!Stable = reg \cap Whole!Stable

THEOREM PromptCanBeRead == Spec => []PromptOnConsole
<1>1. ASSUME ScreenAsDrawn, Whole!PromptTrue PROVE PromptOnConsole
  <2> SUFFICES ASSUME Asks
               PROVE  /\ \E head \in [1..3 -> Heads] :
                           /\ \A p \in Heads : \E n \in 1..3 : head[n] = p
                           /\ \A m, n \in 1..3 : m < n => head[m].row < head[n].row
                           /\ TableTrue(head)
                      /\ nval \cap Whole!Stable = reg \cap Whole!Stable
    BY DEF PromptOnConsole
  <2>1. Waiting /\ WholePc = "confirm"
    BY DEF Asks, Waiting, WholePc
  <2>2. /\ Len(drawn.rows) = 3
        /\ Whole!ShownValue(drawn.rows[3]) = nval
        /\ \/ /\ msg = "enabled" /\ 0 \in nval
              /\ nval = Whole!ShownValue(drawn.rows[1]) \cup Whole!ShownValue(drawn.rows[2])
           \/ /\ msg = "disabled" /\ 0 \notin nval
              /\ nval = Whole!ShownValue(drawn.rows[1]) \cap Whole!ShownValue(drawn.rows[2])
        /\ nval \cap Whole!Stable = reg \cap Whole!Stable
    BY <1>1, <2>1, Zenon DEF Whole!PromptTrue
  <2>3. RowsShown(drawn.rows)
    BY <1>1, <2>1, Zenon DEF ScreenAsDrawn
  <2>4. PICK head \in [1..3 -> Heads] :
          /\ \A p \in Heads : \E n \in 1..3 : head[n] = p
          /\ \A m, n \in 1..3 : m < n => head[m].row < head[n].row
          /\ \A n \in 1..3 : BitsAfter(head[n]) = drawn.rows[n]
    BY <2>2, <2>3 DEF RowsShown
  <2>5. 1 \in 1..3 /\ 2 \in 1..3 /\ 3 \in 1..3
    OBVIOUS
  <2>6. /\ BitsAfter(head[1]) = drawn.rows[1]
        /\ BitsAfter(head[2]) = drawn.rows[2]
        /\ BitsAfter(head[3]) = drawn.rows[3]
    BY <2>4, <2>5, Zenon
  <2>7. TableTrue(head)
    BY <2>2, <2>6, Zenon DEF TableTrue
  <2> QED
    BY <2>2, <2>4, <2>7, Zenon
<1> QED
  BY <1>1, WaitingScreenIsDrawn, CallsPrompt, PTL

-----------------------------------------------------------------------------
(* What is safe about the program getting on, call by call: every call     *)
(* leaves fewer keystrokes in the buffer, or as many and less of the way   *)
(* to the next wait or to the end, or the same way and fewer strings to    *)
(* print.  Only a read that fails where a keystroke was waited for may     *)
(* send it round.  MostPolls is more than any countdown takes.             *)
MostPolls == OpenPolls + MessagePolls
Way ==
  CASE pc = "done"                    -> 0
    [] pc \in {"menukey", "answer"}   -> 1
    [] pc \in {"menu", "confirm"}     -> 2
    [] pc = "header"                  -> 3
    [] pc = "menuloop"                -> 4
    [] pc = "view"                    -> 5
    [] pc = "choose"                  -> 6
    [] pc = "stall"                   -> 5 + 2 * (MostPolls - i)
    [] pc = "poll"                    -> 6 + 2 * (MostPolls - i)
    [] pc = "wrmsr"                   -> 7 + 2 * MostPolls
    [] pc \in {"start", "answered"}   -> 8 + 2 * MostPolls

CallFailed == ReadMayFail /\ pc \in {"menukey", "answer"} /\ kq' = kq

CallsRunToTheirWait ==
  [][Program => /\ Way \in Nat
                /\ \/ Len(kq') < Len(kq)
                   \/ kq' = kq /\ Way' < Way
                   \/ kq' = kq /\ Way' = Way /\ Len(out') < Len(out)
                   \/ CallFailed]_vars

LEMMA ReadShortens ==
  ASSUME Handover, NEW old, NEW k, ReadKeyStroke(old, k)
  PROVE  \/ Len(kq') < Len(kq)
         \/ kq' = kq /\ (kq = <<>> \/ ReadMayFail)
<1>1. CASE kq # <<>> /\ kq' = Tail(kq)
  <2>1. Len(kq') = Len(kq) - 1 /\ Len(kq) \in Nat
    BY <1>1 DEF Handover
  <2> QED
    BY <2>1
<1>2. CASE (kq = <<>> \/ ReadMayFail) /\ kq' = kq
  BY <1>2
<1> QED
  BY <1>1, <1>2 DEF ReadKeyStroke

(* How far each control point is from its wait.                            *)
Ways ==
  /\ Way \in Nat
  /\ pc = "done" => Way = 0
  /\ pc \in {"menukey", "answer"} => Way = 1
  /\ pc \in {"menu", "confirm"} => Way = 2
  /\ pc = "header" => Way = 3
  /\ pc = "menuloop" => Way = 4
  /\ pc = "view" => Way = 5
  /\ pc = "choose" => Way = 6
  /\ pc = "stall" => Way = 5 + 2 * (MostPolls - i) /\ Way >= 7
  /\ pc = "poll" => Way = 6 + 2 * (MostPolls - i) /\ Way >= 8
  /\ pc = "wrmsr" => Way = 7 + 2 * MostPolls
  /\ pc \in {"start", "answered"} => Way = 8 + 2 * MostPolls

LEMMA WaysAre == Handover => Ways
<1> SUFFICES ASSUME Handover PROVE Ways
  OBVIOUS
<1>1. /\ MostPolls \in Nat /\ i \in Nat /\ pc \in Controls
      /\ pc \in {"poll", "stall"} => i < MostPolls
  BY PollsAssumption DEF Handover, Polls, MostPolls
<1> QED
  BY <1>1 DEF Way, Ways, Controls

LEMMA WaysAreNext == Handover' => Ways'
BY WaysAre, PTL

(* One call at a time: printing; the polls; and everything else.           *)
LEMMA PrintingShortens ==
  ASSUME Screened, OutputNext
  PROVE  kq' = kq /\ Way' = Way /\ Len(out') < Len(out)
<1>1. out \in Seq(Strings)
  BY DEF Screened, ConsoleShows, Prints
<1>2. Len(out) \in Nat /\ Len(out') = Len(out) - 1
  BY <1>1 DEF OutputNext
<1>3. kq' = kq /\ UNCHANGED <<pc, i>>
  BY DEF OutputNext
<1> QED
  BY <1>2, <1>3 DEF Way

LEMMA PollingShortens ==
  ASSUME Handover, Ways, Ways', Poll \/ Stall
  PROVE  \/ Len(kq') < Len(kq)
         \/ kq' = kq /\ Way' < Way
<1>1. i \in Int /\ MostPolls \in Int
  BY PollsAssumption DEF Handover, MostPolls
<1>2. CASE Poll
  <2>1. PICK k : ReadKeyStroke(key, k)
    BY <1>2 DEF Poll
  <2>2. Len(kq') < Len(kq) \/ kq' = kq
    BY <2>1, ReadShortens
  <2>3. pc = "poll" /\ (pc' = "menuloop" \/ (pc' = "stall" /\ i' = i))
    BY <1>2 DEF Poll, Reached, CallMenuloop
  <2>4. Way' < Way
    <3>1. CASE pc' = "menuloop"
      BY <2>3, <3>1 DEF Ways
    <3>2. CASE pc' = "stall" /\ i' = i
      BY <1>1, <2>3, <3>2 DEF Ways
    <3> QED
      BY <2>3, <3>1, <3>2
  <2> QED
    BY <2>2, <2>4, Zenon
<1>3. CASE Stall
  <2>1. /\ pc = "stall" /\ kq' = kq
        /\ pc' \in {"menuloop", "done"} \/ (pc' = "poll" /\ i' = i + 1)
    BY <1>3 DEF Stall, Reached, CallMenuloop
  <2>2. CASE pc' \in {"menuloop", "done"}
    BY <2>1, <2>2 DEF Ways
  <2>3. CASE pc' = "poll" /\ i' = i + 1
    BY <1>1, <2>1, <2>3 DEF Ways
  <2> QED
    BY <2>1, <2>2, <2>3
<1> QED
  BY <1>2, <1>3

LEMMA QuietShortens ==
  ASSUME Handover, Ways, Ways',
         \/ Start \/ ClearForMenu \/ ReadHeader \/ WaitForEvent \/ Exit
         \/ ReadToView \/ ViewSeen \/ ReadToChange \/ ClearAndAbort
         \/ ClearAndGoOn \/ WriteMsr
  PROVE  kq' = kq /\ Way' < Way
<1>1. MostPolls \in Nat
  BY PollsAssumption DEF MostPolls
<1>2. CASE Start \/ ClearAndAbort \/ ClearAndGoOn \/ WriteMsr
  <2>1. /\ kq' = kq
        /\ \/ pc \in {"start", "answered", "wrmsr"} /\ pc' = "poll" /\ i' = 0
           \/ pc = "answered" /\ pc' = "wrmsr"
    BY <1>2 DEF Start, ClearAndAbort, ClearAndGoOn, WriteMsr, Reached, CallToMsg
  <2> QED
    BY <1>1, <2>1 DEF Ways
<1>3. CASE \/ ClearForMenu \/ ReadHeader \/ WaitForEvent \/ Exit
           \/ ReadToView \/ ViewSeen \/ ReadToChange
  <2>1. /\ kq' = kq
        /\ \/ pc = "menuloop" /\ pc' = "header"
           \/ pc = "header" /\ pc' = "menu"
           \/ pc = "menu" /\ pc' = "menukey"
           \/ pc = "confirm" /\ pc' = "answer"
           \/ pc = "choose" /\ pc' \in {"done", "view", "confirm"}
           \/ pc = "view" /\ pc' = "menuloop"
    BY <1>3 DEF ClearForMenu, ReadHeader, WaitForEvent, Exit, ReadToView, ViewSeen,
                ReadToChange, Reached, CallMenuloop
  <2> QED
    BY <2>1 DEF Ways
<1> QED
  BY <1>2, <1>3

LEMMA ReadingShortens ==
  ASSUME Handover, MenuKey \/ ReadAnswer
  PROVE  Len(kq') < Len(kq) \/ CallFailed
<1>1. PICK k : ReadKeyStroke(key, k) /\ pc \in {"menukey", "answer"}
  BY DEF MenuKey, ReadAnswer, Reached
<1>2. kq # <<>>
  BY <1>1 DEF Handover
<1> QED
  BY <1>1, <1>2, ReadShortens DEF CallFailed

(* So between two keystrokes of the user the program makes finitely many   *)
(* calls before it waits again or ends, whatever the platform does.        *)
THEOREM CallsGetToTheirWait == Spec => CallsRunToTheirWait
<1> DEFINE A == Program => /\ Way \in Nat
                           /\ \/ Len(kq') < Len(kq)
                              \/ kq' = kq /\ Way' < Way
                              \/ kq' = kq /\ Way' = Way /\ Len(out') < Len(out)
                              \/ CallFailed
<1>1. Handover /\ Handover' /\ Screened => [A]_vars
  <2> SUFFICES ASSUME Handover, Handover', Screened, Program
               PROVE  /\ Way \in Nat
                      /\ \/ Len(kq') < Len(kq)
                         \/ kq' = kq /\ Way' < Way
                         \/ kq' = kq /\ Way' = Way /\ Len(out') < Len(out)
                         \/ CallFailed
    OBVIOUS
  <2>1. Ways /\ Ways' /\ Way \in Nat
    BY WaysAre, WaysAreNext DEF Ways
  <2> QED
    BY <2>1, PrintingShortens, PollingShortens, QuietShortens, ReadingShortens, Zenon
       DEF Program
<1> QED
  BY CallsHandOver, ScreenIsDrawn, <1>1, PTL DEF Spec, CallsRunToTheirWait
=============================================================================
