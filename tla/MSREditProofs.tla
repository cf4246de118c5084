---------------------------- MODULE MSREditProofs ----------------------------
(***************************************************************************)
(* MSREdit's menu, with either HexBoard: what its item, its arrow and its  *)
(* screen are at every moment, for every keyboard, every residue of an     *)
(* unwritten key, reads that may fail, and every console the menu fits on. *)
(***************************************************************************)
EXTENDS MSREditScreen, SequenceTheorems, TLAPS

(* While HexBoard runs menu() holds one item, and with the library's       *)
(* HexBoard that item is always one of the menu.  With MSREdit.c's own     *)
(* HexBoard, which returns no 254 and no 255, menu() does not return.      *)
NeverReturns == board = "own" => pc \in {"select", "keyin"}

ArrowDrawn ==
  /\ pc = "keyin" => arrows = {current} \cap Items
  /\ board = "lib" /\ pc \in {"keyin", "poll", "done"} => arrows = {selected}

ItemInv ==
  /\ pc = "keyin" => selected = current
  /\ board = "lib" => current \in Items
  /\ NeverReturns

IInv == TypeOK /\ ArrowDrawn /\ ItemInv

LEMMA ReadTyped ==
  ASSUME KeysTypeOK, NEW old \in KeyValue \cup {Uninit},
         NEW k, ReadKeyStroke(old, k)
  PROVE  KeysTypeOK'
<1>1. CASE kq # <<>> /\ kq' = Tail(kq)
  BY <1>1, HeadTailProperties, QueueAssumption DEF KeysTypeOK
<1>2. CASE UNCHANGED kq
  BY <1>2 DEF KeysTypeOK
<1> QED
  BY <1>1, <1>2 DEF ReadKeyStroke

(* A digit, an arrow modulo five or the item again: below 16 in any case.  *)
LEMMA EditedRange ==
  ASSUME current \in 0..15, keyint \in 0..15, NEW k
  PROVE  Edited(k) \in 0..15
<1>1. ASSUME NEW c \in HexDigits
      PROVE  HexValue(c) \in 0..15
  BY DEF HexDigits, HexValue
<1>2. (keyint + max) % (max + 1) \in 0..15 /\ (keyint + 1) % (max + 1) \in 0..15
  BY DEF max
<1>3. CASE Meaning(k) = "digit"
  <2>1. k.UnicodeChar \in HexDigits
    BY <1>3 DEF Meaning
  <2> QED
    BY <1>1, <1>3, <2>1 DEF Edited
<1>4. CASE Meaning(k) = "up"
  BY <1>2, <1>4 DEF Edited
<1>5. CASE Meaning(k) = "down"
  BY <1>2, <1>5 DEF Edited
<1>6. CASE Meaning(k) \notin {"digit", "up", "down"}
  BY <1>6 DEF Edited
<1> QED
  BY <1>3, <1>4, <1>5, <1>6

LEMMA IInvInit == Init => IInv
<1> SUFFICES ASSUME Init PROVE IInv
  OBVIOUS
<1>1. KeysTypeOK
  BY EmptySeq, QueueAssumption DEF Init, KeysInit, KeysTypeOK
<1>2. TypeOK
  BY <1>1, PollsAssumption, LinkedAssumption DEF Init, TypeOK, Items
<1>3. ArrowDrawn /\ ItemInv
  BY DEF Init, ArrowDrawn, ItemInv, NeverReturns, Items
<1> QED
  BY <1>2, <1>3 DEF IInv

LEMMA SelectStep == ASSUME IInv, Select PROVE IInv'
<1> USE DEF IInv
<1>1. /\ pc' = "keyin" /\ selected' = current /\ keyint' = current
      /\ arrows' = Mark /\ UNCHANGED <<kq, board, current, i, key>>
  BY DEF Select
<1>2. Mark = {current} \cap Items
  BY DEF Mark
<1>3. TypeOK'
  BY <1>1, <1>2 DEF TypeOK, KeysTypeOK
<1>4. ArrowDrawn' /\ ItemInv'
  BY <1>1, <1>2 DEF ArrowDrawn, ItemInv, NeverReturns
<1> QED
  BY <1>3, <1>4

(* An item that HexBoard returns leads back to the menu; 254 and 255 end   *)
(* it with the item that has the arrow.                                    *)
LEMMA ReturnStep ==
  ASSUME IInv, pc = "keyin", KeysTypeOK', UNCHANGED <<board, arrows>>, keyint' = 0,
         NEW STATE item, item \in 0..15 \cup {254, 255}, Returned(item),
         board = "lib" => item \in Items \cup {254, 255},
         board = "own" => item \in 0..15
  PROVE  IInv'
<1> USE DEF IInv
<1>1. CASE item \in {254, 255}
  <2>1. board = "lib"
    BY <1>1 DEF TypeOK
  <2>2. /\ pc' = "poll" /\ i' = 0 /\ key' = Uninit
        /\ selected' = selected /\ current' = current
    BY <1>1 DEF Returned, EndMenu, ItemInv
  <2>3. TypeOK'
    BY <2>2, PollsAssumption DEF TypeOK
  <2> QED
    BY <2>1, <2>2, <2>3 DEF ArrowDrawn, ItemInv, NeverReturns
<1>2. CASE item \notin {254, 255}
  <2>1. /\ current' = item /\ pc' = "select"
        /\ UNCHANGED <<selected, i, key>>
    BY <1>2 DEF Returned
  <2>2. TypeOK'
    BY <1>2, <2>1 DEF TypeOK
  <2> QED
    BY <1>2, <2>1, <2>2 DEF ArrowDrawn, ItemInv, NeverReturns
<1> QED
  BY <1>1, <1>2

LEMMA HexBoardStep ==
  ASSUME IInv, OwnEdits \/ OwnReturns \/ LibRejects \/ LibReturns
  PROVE  IInv'
<1> USE DEF IInv
<1>1. PICK k \in KeyValue :
        /\ Press(k)
        /\ \/ Stays(k)
           \/ /\ board = "own" /\ keyint' = 0
              /\ Returned(keyint) \/ Returned(current)
           \/ board = "lib" /\ keyint' = 0 /\ ~Rejected(k) /\ Returned(LibItem(k))
  BY DEF OwnEdits, OwnReturns, LibRejects, LibReturns
<1>2. pc = "keyin" /\ KeysTypeOK' /\ UNCHANGED <<board, arrows>>
  BY <1>1, ReadTyped DEF Press, TypeOK
<1>3. current \in 0..15 /\ keyint \in 0..15 /\ Edited(k) \in 0..15
  BY EditedRange DEF TypeOK
<1>4. CASE Stays(k)
  <2>1. keyint' \in 0..15 /\ UNCHANGED <<pc, selected, current, i, key>>
    BY <1>3, <1>4 DEF Stays
  <2> QED
    BY <1>2, <2>1 DEF TypeOK, ArrowDrawn, ItemInv, NeverReturns
<1>5. CASE board = "own" /\ keyint' = 0 /\ Returned(keyint)
  BY <1>2, <1>3, <1>5, ReturnStep
<1>6. CASE board = "own" /\ keyint' = 0 /\ Returned(current)
  BY <1>2, <1>3, <1>6, ReturnStep
<1>7. CASE board = "lib" /\ keyint' = 0 /\ ~Rejected(k) /\ Returned(LibItem(k))
  <2>1. LibItem(k) \in 0..15 \cup {254, 255}
    BY <1>3 DEF LibItem
  <2>2. LibItem(k) \in Items \cup {254, 255}
    BY <1>7, <2>1 DEF Rejected, Items, max
  <2> QED
    BY <1>2, <1>7, <2>1, <2>2, ReturnStep
<1> QED
  BY <1>1, <1>4, <1>5, <1>6, <1>7

LEMMA TimeoutStep == ASSUME IInv, PollKey \/ PollOver PROVE IInv'
<1> USE DEF IInv
<1>1. CASE PollKey
  <2>1. PICK k \in KeyValue :
          /\ pc = "poll" /\ i < ExitPolls /\ ReadKeyStroke(key, k)
          /\ \/ pc' = "done" /\ UNCHANGED <<i, key>>
             \/ i' = i + 1 /\ key' = k /\ UNCHANGED pc
          /\ UNCHANGED <<board, selected, current, keyint, arrows>>
    BY <1>1 DEF PollKey
  <2>2. KeysTypeOK'
    BY <2>1, ReadTyped DEF TypeOK
  <2>3. i' \in 0..ExitPolls
    BY <2>1, PollsAssumption DEF TypeOK
  <2>4. key' \in KeyValue \cup {Uninit} /\ pc' \in {"poll", "done"}
    BY <2>1 DEF TypeOK
  <2>5. TypeOK'
    BY <2>1, <2>2, <2>3, <2>4 DEF TypeOK
  <2> QED
    BY <2>1, <2>4, <2>5 DEF ArrowDrawn, ItemInv, NeverReturns
<1>2. CASE PollOver
  BY <1>2 DEF PollOver, TypeOK, KeysTypeOK, ArrowDrawn, ItemInv, NeverReturns
<1> QED
  BY <1>1, <1>2

LEMMA OtherStep == ASSUME IInv, UserTypes \/ UNCHANGED vars PROVE IInv'
<1> USE DEF IInv
<1>1. CASE UserTypes
  <2>1. PICK k \in Keyboard : Type(k)
    BY <1>1 DEF UserTypes
  <2>2. KeysTypeOK'
    BY <2>1, AppendProperties, QueueAssumption DEF Type, TypeOK, KeysTypeOK
  <2>3. UNCHANGED <<board, pc, selected, current, keyint, arrows, i, key>>
    BY <1>1 DEF UserTypes
  <2> QED
    BY <2>2, <2>3 DEF TypeOK, ArrowDrawn, ItemInv, NeverReturns
<1>2. CASE UNCHANGED vars
  BY <1>2 DEF vars, TypeOK, KeysTypeOK, ArrowDrawn, ItemInv, NeverReturns
<1> QED
  BY <1>1, <1>2

LEMMA IInvNext == IInv /\ [Next]_vars => IInv'
BY SelectStep, HexBoardStep, TimeoutStep, OtherStep DEF Next, Program, Terminated

(* A step of either HexBoard that takes the item of the arrow.             *)
LEMMA ArrowStep ==
  ASSUME IInv, IInv', [Next]_vars
  PROVE  /\ board = "lib" /\ pc = "keyin" /\ pc' = "poll" => arrows = {selected'}
         /\ board = "own" /\ pc = "keyin" /\ EscRead =>
              pc' = "select" /\ arrows = {current'} \cap Items
<1>1. ASSUME board = "lib", pc = "keyin", pc' = "poll" PROVE arrows = {selected'}
  <2>1. OwnEdits \/ OwnReturns \/ LibRejects \/ LibReturns
    BY <1>1 DEF Next, Program, Select, PollKey, PollOver, UserTypes, Terminated, vars
  <2>2. arrows' = arrows /\ board' = board
    BY <2>1 DEF OwnEdits, OwnReturns, LibRejects, LibReturns, Press
  <2>3. arrows' = {selected'}
    BY <1>1, <2>2 DEF IInv, ArrowDrawn
  <2> QED
    BY <2>2, <2>3
<1>2. ASSUME board = "own", pc = "keyin", EscRead
      PROVE  pc' = "select" /\ arrows = {current'} \cap Items
  <2>1. kq # <<>> /\ kq' = Tail(kq) /\ Meaning(Head(kq)) = "esc" /\ KeysTypeOK
    BY <1>2 DEF EscRead, IInv, TypeOK
  <2>2. Len(kq') < Len(kq) /\ kq' # kq
    BY <2>1 DEF KeysTypeOK
  <2>3. ~UserTypes
    <3>1. ASSUME NEW k, kq' = Append(kq, k) PROVE FALSE
      <4>1. Len(kq') = Len(kq) + 1 /\ Len(kq) \in Nat
        BY <2>1, <3>1 DEF KeysTypeOK
      <4> QED
        BY <2>2, <4>1
    <3> QED
      BY <3>1 DEF UserTypes, Type
  <2>4. OwnEdits \/ OwnReturns
    BY <1>2, <2>2, <2>3 DEF Next, Program, Select, LibRejects, LibReturns, PollKey,
                            PollOver, Terminated, vars
  <2>5. PICK k \in KeyValue :
          /\ ReadKeyStroke(Uninit, k) /\ UNCHANGED arrows
          /\ \/ Meaning(k) \notin {"enter", "esc"}
             \/ Meaning(k) = "enter" /\ Returned(keyint)
             \/ Meaning(k) = "esc" /\ Returned(current)
    BY <2>4 DEF OwnEdits, OwnReturns, Press
  <2>6. k = Head(kq)
    BY <2>2, <2>5 DEF ReadKeyStroke
  <2>7. Returned(current)
    BY <2>1, <2>5, <2>6
  <2>8. current \in 0..15 /\ arrows = {current} \cap Items
    BY <1>2 DEF IInv, TypeOK, ArrowDrawn
  <2>9. pc' = "select" /\ current' = current
    BY <2>7, <2>8 DEF Returned
  <2> QED
    BY <2>8, <2>9
<1> QED
  BY <1>1, <1>2

(* The library's HexBoard ends menu() with the item that has the arrow.    *)
(* MSREdit.c's own returns that item for Esc, or the digit beyond the menu *)
(* that no arrow shows; what it returns for Enter need not be marked.      *)
THEOREM ArrowOnItem == Spec => ArrowIsTaken
BY ArrowStep, IInvInit, IInvNext, PTL DEF Spec, ArrowIsTaken

(* The items, wrapped around in either HexBoard, stay hexadecimal digits.  *)
THEOREM MenuTypes == Spec => []TypeOK
<1>1. IInv => TypeOK
  BY DEF IInv
<1> QED
  BY <1>1, IInvInit, IInvNext, PTL DEF Spec

(* MSREdit as it is built, with its own HexBoard, never leaves the menu:   *)
(* no key, Enter and Esc included, brings it to its last wait.             *)
THEOREM OwnMenuNeverEnds == Spec => []NeverReturns
<1>1. IInv => NeverReturns
  BY DEF IInv, ItemInv
<1> QED
  BY <1>1, IInvInit, IInvNext, PTL DEF Spec

-----------------------------------------------------------------------------
(* What is safe about KeysAreRead and LibMenuEnds.  Every step of the      *)
(* program takes a keystroke out of the buffer, or leaves it and shortens  *)
(* the way to the next wait in HexBoard or to the end; only a read that    *)
(* fails in HexBoard may be repeated without bound.                        *)
WayOn ==
  CASE pc = "poll"              -> 1 + ExitPolls - i
    [] pc = "select"            -> 1
    [] pc \in {"keyin", "done"} -> 0

RoundFailed == ReadMayFail /\ pc = "keyin" /\ kq' = kq

EditorGetsOn ==
  [][Program => /\ WayOn \in Nat
                /\ \/ Len(kq') < Len(kq)
                   \/ kq' = kq /\ WayOn' < WayOn
                   \/ RoundFailed]_vars

LEMMA ReadShortens ==
  ASSUME KeysTypeOK, NEW old, NEW k, ReadKeyStroke(old, k)
  PROVE  \/ Len(kq') < Len(kq)
         \/ kq' = kq /\ (kq = <<>> \/ ReadMayFail)
<1>1. CASE kq # <<>> /\ kq' = Tail(kq)
  <2>1. Len(kq') = Len(kq) - 1 /\ Len(kq) \in Nat
    BY <1>1 DEF KeysTypeOK
  <2> QED
    BY <2>1
<1>2. CASE (kq = <<>> \/ ReadMayFail) /\ kq' = kq
  BY <1>2
<1> QED
  BY <1>1, <1>2 DEF ReadKeyStroke

(* So between two keystrokes the program takes finitely many steps before  *)
(* it waits again or ends, whatever is typed meanwhile.                    *)
THEOREM ProgramGetsOn == Spec => EditorGetsOn
<1> DEFINE A == Program => /\ WayOn \in Nat
                           /\ \/ Len(kq') < Len(kq)
                              \/ kq' = kq /\ WayOn' < WayOn
                              \/ RoundFailed
<1>1. IInv /\ [Next]_vars => [A]_vars
  <2> SUFFICES ASSUME IInv, Program
               PROVE  /\ WayOn \in Nat
                      /\ \/ Len(kq') < Len(kq)
                         \/ kq' = kq /\ WayOn' < WayOn
                         \/ RoundFailed
    OBVIOUS
  <2>1. /\ KeysTypeOK /\ i \in 0..ExitPolls /\ ExitPolls \in Nat
        /\ pc \in {"select", "keyin", "poll", "done"}
    BY PollsAssumption DEF IInv, TypeOK
  <2>2. WayOn \in Nat
    BY <2>1 DEF WayOn
  <2>3. CASE Select
    <3>1. kq' = kq /\ pc = "select" /\ pc' = "keyin"
      BY <2>3 DEF Select
    <3> QED
      BY <2>2, <3>1 DEF WayOn
  <2>4. CASE OwnEdits \/ OwnReturns \/ LibRejects \/ LibReturns
    <3>1. PICK k : pc = "keyin" /\ WaitForKey /\ ReadKeyStroke(Uninit, k)
      BY <2>4 DEF OwnEdits, OwnReturns, LibRejects, LibReturns, Press
    <3> QED
      BY <2>1, <2>2, <3>1, ReadShortens DEF WaitForKey, RoundFailed
  <2>5. CASE PollKey
    <3>1. PICK k : ReadKeyStroke(key, k)
      BY <2>5 DEF PollKey
    <3>2. Len(kq') < Len(kq) \/ kq' = kq
      BY <2>1, <3>1, ReadShortens
    <3>3. /\ pc = "poll" /\ i < ExitPolls
          /\ pc' = "done" \/ (pc' = "poll" /\ i' = i + 1)
      BY <2>5 DEF PollKey
    <3>4. WayOn' < WayOn
      BY <2>1, <3>3 DEF WayOn
    <3> QED
      BY <2>2, <3>2, <3>4, Zenon
  <2>6. CASE PollOver
    <3>1. kq' = kq /\ pc = "poll" /\ pc' = "done"
      BY <2>6 DEF PollOver
    <3> QED
      BY <2>1, <2>2, <3>1 DEF WayOn
  <2> QED
    BY <2>3, <2>4, <2>5, <2>6 DEF Program
<1> QED
  BY <1>1, IInvInit, IInvNext, PTL DEF Spec, EditorGetsOn

(* With the library's HexBoard an Enter or Esc that was typed while the    *)
(* menu is open stays in the buffer, however the menu is redrawn and       *)
(* whatever else is typed, until it or another ends the menu.              *)
EndInReach == pc \in {"select", "keyin"} /\ \E n \in 1..Len(kq) : EndsMenu(kq[n])
EndStaysInReach ==
  [][board = "lib" /\ EndInReach => EndInReach' \/ pc' = "poll"]_vars

(* A key that is read leaves every other one in the buffer; and HexBoard   *)
(* never takes an Enter or Esc for an item of the menu.                    *)
LEMMA EndReadOrKept ==
  ASSUME KeysTypeOK, NEW k, ReadKeyStroke(Uninit, k), NEW n \in 1..Len(kq)
  PROVE  \/ k = kq[n]
         \/ \E m \in 1..Len(kq') : kq'[m] = kq[n]
<1>1. CASE kq # <<>> /\ k = Head(kq) /\ kq' = Tail(kq)
  <2>1. /\ Head(kq) = kq[1] /\ Len(Tail(kq)) = Len(kq) - 1
        /\ \A m \in 1..(Len(kq) - 1) : Tail(kq)[m] = kq[m + 1]
    BY <1>1 DEF KeysTypeOK
  <2>2. CASE n = 1
    BY <1>1, <2>1, <2>2
  <2>3. CASE n # 1
    <3>1. n - 1 \in 1..(Len(kq) - 1) /\ (n - 1) + 1 = n
      BY <2>3 DEF KeysTypeOK
    <3>2. kq'[n - 1] = kq[n] /\ n - 1 \in 1..Len(kq')
      BY <1>1, <2>1, <3>1
    <3> QED
      BY <3>2
  <2> QED
    BY <2>2, <2>3
<1>2. CASE kq' = kq
  BY <1>2
<1> QED
  BY <1>1, <1>2 DEF ReadKeyStroke

LEMMA EndEndsMenu ==
  ASSUME NEW k, EndsMenu(k), Rejected(k) \/ Returned(LibItem(k))
  PROVE  pc' = "poll"
<1>1. LibItem(k) \in {254, 255}
  BY DEF EndsMenu, LibItem
<1>2. ~Rejected(k)
  BY <1>1 DEF Rejected
<1> QED
  BY <1>1, <1>2 DEF Returned, EndMenu

(* With the library's HexBoard no Enter or Esc is lost, also when reads    *)
(* fail: it stays in the buffer until menu() has ended.                    *)
THEOREM EndIsTaken == Spec => EndStaysInReach
<1> DEFINE A == board = "lib" /\ EndInReach => EndInReach' \/ pc' = "poll"
<1>1. IInv /\ [Next]_vars => [A]_vars
  <2> SUFFICES ASSUME IInv, Next, board = "lib", EndInReach
               PROVE  EndInReach' \/ pc' = "poll"
    BY DEF vars, EndInReach
  <2>1. KeysTypeOK /\ pc \in {"select", "keyin"}
    BY DEF IInv, TypeOK, EndInReach
  <2>2. PICK n \in 1..Len(kq) : EndsMenu(kq[n])
    BY DEF EndInReach
  <2>3. board' = board
    BY DEF Next, Program, Select, OwnEdits, OwnReturns, LibRejects, LibReturns, Press,
           PollKey, PollOver, UserTypes, Terminated, vars
  <2>4. \A k : EndsMenu(k)' <=> EndsMenu(k)
    BY <2>3 DEF EndsMenu, Meaning
  <2>5. CASE Select
    <3>1. kq' = kq /\ pc' = "keyin"
      BY <2>5 DEF Select
    <3> QED
      BY <2>2, <2>4, <3>1 DEF EndInReach
  <2>6. CASE LibRejects \/ LibReturns
    <3>1. PICK k : /\ ReadKeyStroke(Uninit, k)
                   /\ Rejected(k) \/ Returned(LibItem(k))
                   /\ pc' = pc \/ Returned(LibItem(k))
      BY <2>6 DEF LibRejects, LibReturns, Press, Stays
    <3>2. pc' \in {"select", "keyin", "poll"}
      BY <2>1, <3>1 DEF Returned, EndMenu
    <3>3. CASE k = kq[n]
      BY <2>2, <3>1, <3>3, EndEndsMenu
    <3>4. CASE \E m \in 1..Len(kq') : kq'[m] = kq[n]
      BY <2>2, <2>4, <3>2, <3>4 DEF EndInReach
    <3> QED
      BY <2>1, <3>1, <3>3, <3>4, EndReadOrKept
  <2>7. CASE UserTypes
    <3>1. PICK k \in Keyboard : kq' = Append(kq, k)
      BY <2>7 DEF UserTypes, Type
    <3>2. n \in 1..Len(kq') /\ kq'[n] = kq[n]
      BY <2>1, <3>1 DEF KeysTypeOK
    <3>3. pc' = pc
      BY <2>7 DEF UserTypes
    <3> QED
      BY <2>1, <2>2, <2>4, <3>2, <3>3 DEF EndInReach
  <2>8. CASE OwnEdits \/ OwnReturns \/ PollKey \/ PollOver \/ Terminated
    BY <2>1, <2>8 DEF OwnEdits, OwnReturns, PollKey, PollOver, Terminated
  <2> QED
    BY <2>5, <2>6, <2>7, <2>8 DEF Next, Program
<1> QED
  BY <1>1, IInvInit, IInvNext, PTL DEF Spec, EndStaysInReach

-----------------------------------------------------------------------------
(* What is printed takes no part in the menu: on its console the program   *)
(* makes the steps of MSREdit, and drawing the menu is a stuttering one.   *)
THEOREM ScreenImplementsMenu == ScreenSpec => Spec
<1>1. ScreenInit => Init
  BY DEF ScreenInit
<1>2. [ScreenNext]_screenVars => [Next]_vars
  <2>1. Start \/ UNCHANGED screenVars => UNCHANGED vars
    BY DEF Start, vars, screenVars
  <2>2. SelectShown \/ KeyShown \/ Silent => Program
    BY DEF SelectShown, KeyShown, Silent, Program
  <2> QED
    BY <2>1, <2>2 DEF ScreenNext, ScreenProgram, Next
<1> QED
  BY <1>1, <1>2, PTL DEF ScreenSpec, Spec

(* Hence what menu() takes from its arrow it takes on its console, too.    *)
THEOREM ScreenArrow == ScreenSpec => []TypeOK /\ ArrowIsTaken
BY ScreenImplementsMenu, ArrowOnItem, MenuTypes, PTL

-----------------------------------------------------------------------------
(* What is left of a text under another: it, if that does not cover it,    *)
(* and else parts of it that stand beside the other.                       *)
LEMMA SparedParts ==
  ASSUME NEW c \in Console, NEW s, Width(s) \in Nat, NEW p \in Piece
  PROVE  /\ ~Covered(p, c, s) => Spared(p, c, s) = {p}
         /\ \A q \in Spared(p, c, s) :
              /\ q \in Piece /\ q.row = p.row
              /\ \/ q = p /\ ~Covered(p, c, s)
                 \/ /\ Covered(p, c, s)
                    /\ \A x \in Span(q) :
                         x \in Span(p) /\ x \notin c.col..(c.col + Width(s) - 1)
<1>1. /\ c.col \in Nat /\ p.from \in Nat /\ p.to \in Nat
      /\ p = [row |-> p.row, col |-> p.col, text |-> p.text, from |-> p.from, to |-> p.to]
      /\ p.row \in Nat /\ p.col \in Nat /\ p.text \in STRING
  BY DEF Console, Piece
<1>2. CASE ~Covered(p, c, s)
  BY <1>2 DEF Spared
<1>3. CASE Covered(p, c, s)
  <2> DEFINE left  == [p EXCEPT !.to = c.col]
             right == [p EXCEPT !.from = c.col + Width(s)]
  <2>1. p.row = c.row /\ p.from < c.col + Width(s) /\ c.col < p.to
    BY <1>3 DEF Covered
  <2>2. /\ left \in Piece /\ left.row = p.row /\ left.from = p.from /\ left.to = c.col
        /\ right \in Piece /\ right.row = p.row
        /\ right.from = c.col + Width(s) /\ right.to = p.to
    BY <1>1 DEF Piece
  <2> HIDE DEF left, right
  <2>3. \A x \in Span(left) : x \in Span(p) /\ x \notin c.col..(c.col + Width(s) - 1)
    BY <1>1, <2>1, <2>2 DEF Span
  <2>4. \A x \in Span(right) : x \in Span(p) /\ x \notin c.col..(c.col + Width(s) - 1)
    BY <1>1, <2>1, <2>2 DEF Span
  <2>5. Spared(p, c, s) \subseteq {left, right}
    BY <1>3 DEF Spared, left, right
  <2> QED
    BY <1>3, <2>2, <2>3, <2>4, <2>5
<1> QED
  BY <1>2, <1>3

(* What can be read after a text is printed: that text, and what is left   *)
(* of the others; on the other rows nothing has changed.                   *)
LEMMA WriteTexts ==
  ASSUME NEW c \in Console, NEW s \in STRING, s # CRLF, Width(s) \in Nat
  PROVE  /\ Write(s)[c] \in Console
         /\ Write(s)[c].row = c.row /\ Write(s)[c].col = c.col + Width(s)
         /\ \A q : q \in Write(s)[c].texts <=>
                     q = Text(c.row, c.col, s) \/ \E p \in c.texts : q \in Spared(p, c, s)
<1>1. c.row \in Nat /\ c.col \in Nat /\ c.texts \subseteq Piece
  BY DEF Console
<1>2. \A q : q \in Remains(c, s) <=> \E p \in c.texts : q \in Spared(p, c, s)
  BY Zenon DEF Remains
<1>3. Remains(c, s) \subseteq Piece
  BY <1>1, <1>2, SparedParts
<1>4. Text(c.row, c.col, s) \in Piece
  BY <1>1 DEF Text, Piece
<1>5. Write(s)[c] = Screen(Remains(c, s) \cup {Text(c.row, c.col, s)}, c.row, c.col + Width(s))
  BY DEF Write
<1> DEFINE after == Remains(c, s) \cup {Text(c.row, c.col, s)}
<1>6. after \in SUBSET Piece
  BY <1>3, <1>4
<1>7. \A q : q \in after <=> q = Text(c.row, c.col, s) \/ q \in Remains(c, s)
  BY Zenon
<1> HIDE DEF after
<1>8. /\ Write(s)[c].texts = after /\ Write(s)[c] \in Console
      /\ Write(s)[c].row = c.row /\ Write(s)[c].col = c.col + Width(s)
  BY <1>1, <1>5, <1>6 DEF Screen, Console, after
<1> QED
  BY <1>2, <1>7, <1>8, Zenon

(* The texts that are on a row, besides some of them, are on columns of A. *)
ShowsOnly(c, row, L, A) ==
  \A p \in c.texts : p.row = row => \A x \in Span(p) : p \in L \/ x \in A

LEMMA WriteShows ==
  ASSUME NEW c \in Console, NEW s \in STRING, s # CRLF, Width(s) \in Nat
  PROVE  /\ Text(c.row, c.col, s) \in Write(s)[c].texts
         /\ \A p \in c.texts : ~Covered(p, c, s) => p \in Write(s)[c].texts
         /\ \A q : q.row # c.row => (q \in Write(s)[c].texts <=> q \in c.texts)
         /\ \A L, A : /\ ShowsOnly(c, c.row, L, A)
                      /\ \A p \in L : ~Covered(p, c, s)
                      => ShowsOnly(Write(s)[c], c.row, L \cup {Text(c.row, c.col, s)},
                                   A \ (c.col..(c.col + Width(s) - 1)))
<1> DEFINE d == Write(s)[c]
           t == Text(c.row, c.col, s)
<1>1. /\ c.row \in Nat /\ c.col \in Nat /\ \A p \in c.texts : p \in Piece
      /\ t.row = c.row /\ Span(t) = c.col..(c.col + Width(s) - 1)
  BY DEF Console, Text, Span
<1>2. \A q : q \in d.texts <=> q = t \/ \E p \in c.texts : q \in Spared(p, c, s)
  BY WriteTexts
<1> HIDE DEF d, t
<1>3. ASSUME NEW p \in c.texts, ~Covered(p, c, s) PROVE p \in d.texts
  BY <1>1, <1>2, <1>3, SparedParts
<1>4. ASSUME NEW q, q.row # c.row PROVE q \in d.texts <=> q \in c.texts
  <2>1. ~Covered(q, c, s) /\ q # t
    BY <1>1, <1>4 DEF Covered
  <2>2. ASSUME NEW p \in c.texts, q \in Spared(p, c, s) PROVE q = p
    <3>1. p \in Piece /\ p.row = q.row
      BY <1>1, <2>2, SparedParts
    <3>2. ~Covered(p, c, s)
      BY <1>4, <3>1 DEF Covered
    <3> QED
      BY <2>2, <3>1, <3>2, SparedParts
  <2> QED
    BY <1>2, <1>3, <2>1, <2>2
<1>5. ASSUME NEW L, NEW A, ShowsOnly(c, c.row, L, A), \A p \in L : ~Covered(p, c, s),
             NEW q \in d.texts, q.row = c.row, NEW x \in Span(q)
      PROVE  q \in L \cup {t} \/ x \in A \ (c.col..(c.col + Width(s) - 1))
  <2>1. CASE q = t
    BY <2>1
  <2>2. ASSUME NEW p \in c.texts, q \in Spared(p, c, s)
        PROVE  q \in L \/ x \in A \ (c.col..(c.col + Width(s) - 1))
    <3>1. p \in Piece /\ q.row = p.row
      BY <1>1, <2>2, SparedParts
    <3>2. CASE q = p /\ ~Covered(p, c, s)
      <4>1. p.from >= c.col + Width(s) \/ c.col >= p.to
        BY <1>1, <1>5, <3>1, <3>2 DEF Covered, Piece
      <4>2. x \notin c.col..(c.col + Width(s) - 1)
        BY <1>1, <1>5, <3>1, <3>2, <4>1 DEF Span, Piece
      <4>3. p \in L \/ x \in A
        BY <1>5, <3>2 DEF ShowsOnly
      <4> QED
        BY <3>2, <4>2, <4>3
    <3>3. CASE /\ Covered(p, c, s)
               /\ x \in Span(p) /\ x \notin c.col..(c.col + Width(s) - 1)
      <4>1. p \notin L
        BY <1>5, <3>3
      <4>2. x \in A
        BY <1>5, <3>1, <3>3, <4>1 DEF ShowsOnly
      <4> QED
        BY <3>3, <4>2
    <3> QED
      BY <1>5, <2>2, <3>1, <3>2, <3>3, SparedParts
  <2> QED
    BY <1>2, <2>1, <2>2
<1>6. ASSUME NEW L, NEW A, ShowsOnly(c, c.row, L, A), \A p \in L : ~Covered(p, c, s)
      PROVE  ShowsOnly(d, c.row, L \cup {t}, A \ (c.col..(c.col + Width(s) - 1)))
  BY <1>5, <1>6, Zenon DEF ShowsOnly
<1>7. t \in d.texts
  BY <1>2
<1> QED
  BY <1>3, <1>4, <1>6, <1>7, Zenon DEF d, t

LEMMA NewLineType ==
  ASSUME NEW c \in Console
  PROVE  /\ NewLine(c) \in Console
         /\ c.row + 1 < Lines => NewLine(c).texts = c.texts
<1>1. c.row \in Nat /\ c.texts \in SUBSET Piece
  BY DEF Console
<1>2. Scrolled(c.texts) \in SUBSET Piece
  <2>1. ASSUME NEW p \in Piece, p.row > 0
        PROVE  [p EXCEPT !.row = @ - 1] \in Piece
    BY <2>1 DEF Piece
  <2> QED
    BY <1>1, <2>1 DEF Scrolled
<1> QED
  BY <1>1, <1>2 DEF NewLine, Screen, Console

(* A text at a place of the menu, beside texts L that end left of it or    *)
(* begin right of it: those stay, and it takes its columns from the rest.  *)
Printable(s) == s \in STRING /\ s # CRLF /\ Width(s) \in Nat
Beside(L, x, s) == \A p \in L : p \in Piece /\ (p.to <= x \/ x + Width(s) <= p.from)
Stands(c, y, L, A) == L \subseteq c.texts /\ ShowsOnly(c, y, L, A)
SameBut(c, d, y) == \A q : q.row # y => (q \in d.texts <=> q \in c.texts)
With(L, y, x, s) == L \cup {Text(y, x, s)}
Less(A, x, s) == A \ (x..(x + Width(s) - 1))

LEMMA WriteBeside ==
  ASSUME NEW c \in Console, NEW s, Printable(s), NEW L, Beside(L, c.col, s),
         NEW A, Stands(c, c.row, L, A)
  PROVE  /\ Write(s)[c] \in Console /\ Write(s)[c].row = c.row
         /\ Write(s)[c].col = c.col + Width(s)
         /\ SameBut(c, Write(s)[c], c.row)
         /\ Stands(Write(s)[c], c.row, With(L, c.row, c.col, s), Less(A, c.col, s))
<1> DEFINE d == Write(s)[c]
           t == Text(c.row, c.col, s)
<1>1. /\ d \in Console /\ d.row = c.row /\ d.col = c.col + Width(s)
      /\ t \in d.texts
      /\ \A p \in c.texts : ~Covered(p, c, s) => p \in d.texts
      /\ SameBut(c, d, c.row)
  BY WriteTexts, WriteShows DEF Printable, SameBut
<1>2. \A p \in L : ~Covered(p, c, s)
  BY DEF Printable, Beside, Covered, Console, Piece
<1>3. ShowsOnly(d, c.row, With(L, c.row, c.col, s), Less(A, c.col, s))
  BY <1>2, WriteShows, Zenon DEF Printable, Stands, With, Less
<1>4. With(L, c.row, c.col, s) \subseteq d.texts
  BY <1>1, <1>2 DEF Stands, With
<1> QED
  BY <1>1, <1>3, <1>4 DEF Stands

LEMMA PrintBeside ==
  ASSUME NEW c \in Console, NEW s, Printable(s), NEW x \in Nat, NEW y \in Nat,
         NEW L, Beside(L, x, s), NEW A, Stands(c, y, L, A)
  PROVE  /\ PrintXY(c, s, x, y) \in Console /\ PrintXY(c, s, x, y).row = y
         /\ PrintXY(c, s, x, y).col = x + Width(s)
         /\ SameBut(c, PrintXY(c, s, x, y), y)
         /\ Stands(PrintXY(c, s, x, y), y, With(L, y, x, s), Less(A, x, s))
<1> DEFINE m == MovedTo(c, x, y)
<1>1. m \in Console /\ m.texts = c.texts /\ m.row = y /\ m.col = x
  BY DEF MovedTo, Screen, Console
<1>2. PrintXY(c, s, x, y) = Write(s)[m]
  BY DEF PrintXY
<1> HIDE DEF m
<1>3. Beside(L, m.col, s) /\ Stands(m, m.row, L, A)
  BY <1>1 DEF ShowsOnly, Stands
<1>4. /\ Write(s)[m] \in Console /\ Write(s)[m].row = m.row
      /\ Write(s)[m].col = m.col + Width(s)
      /\ SameBut(m, Write(s)[m], m.row)
      /\ Stands(Write(s)[m], m.row, With(L, m.row, m.col, s), Less(A, m.col, s))
  BY <1>1, <1>3, WriteBeside
<1>5. SameBut(c, Write(s)[m], y)
  BY <1>1, <1>4 DEF SameBut
<1> QED
  BY <1>1, <1>2, <1>4, <1>5

LEMMA NoneKept ==
  ASSUME NEW c \in Console
  PROVE  /\ \A x, s : Beside({}, x, s)
         /\ \A y : Stands(c, y, {}, Nat)
BY DEF Beside, Stands, ShowsOnly, Console, Piece, Span

(* The texts of the menu, none of which is a line end.                     *)
LEMMA TextsPrinted ==
  /\ \A s \in Printed : s \in STRING /\ s # CRLF /\ Width(s) \in Nat
  /\ {HEAD0, Title, Dot, Blank, Arrow} \subseteq Printed
  /\ \A n \in Items : CHARSET[n] \in Printed /\ menu[n] \in Printed
  /\ \A n \in Items : Width(CHARSET[n]) = 1
  /\ Width(Arrow) = 2 /\ Width(Blank) = 2 /\ Width(Dot) = 2 /\ Arrow # Blank
<1>1. /\ HEAD0 # CRLF /\ Title # CRLF /\ Dot # CRLF /\ Blank # CRLF /\ Arrow # CRLF
      /\ Arrow # Blank
  BY Zenon DEF HEAD0, Title, Dot, Blank, Arrow, CRLF
<1>2. /\ CRLF \notin {Digit[1], Digit[2], Digit[3], Digit[4], Digit[5]}
      /\ CRLF \notin {Item[1], Item[2], Item[3], Item[4], Item[5]}
  BY Zenon DEF Digit, Item, CRLF
<1>3. ASSUME NEW n \in Items
      PROVE  CHARSET[n] # CRLF /\ menu[n] # CRLF
  <2>1. n = 0 \/ n = 1 \/ n = 2 \/ n = 3 \/ n = 4
    BY DEF Items
  <2>2. CHARSET[n] = Digit[n + 1] /\ menu[n] = Item[n + 1]
    BY DEF CHARSET, menu
  <2> QED
    BY <1>2, <2>1, <2>2
<1> QED
  BY <1>1, <1>3, WidthAssumption DEF Printed

(* What stands on the row of an item once printMenu has drawn it.  The     *)
(* rounds of the loops reach the rows of all items, each its own.          *)
Free(n) == {x \in Nat : x < 3 \/ x >= 6 + Width(menu[n])}
ItemOn(c, n) == Stands(c, Row(n), Labels(n), Free(n))
MenuOn(c) == \A n \in Items : ItemOn(c, n)

LEMMA RowsOfRounds ==
  /\ \A m \in 1..5 : m % 5 \in Items /\ Row(m % 5) = 9 + m
  /\ \A n \in Items : \E m \in 1..5 : n = m % 5
<1>1. 1 % 5 = 1 /\ 2 % 5 = 2 /\ 3 % 5 = 3 /\ 4 % 5 = 4 /\ 5 % 5 = 0
  OBVIOUS
<1>2. ASSUME NEW m \in 1..5 PROVE m % 5 \in Items /\ Row(m % 5) = 9 + m
  <2>1. m = 1 \/ m = 2 \/ m = 3 \/ m = 4 \/ m = 5
    OBVIOUS
  <2> QED
    BY <1>1, <2>1 DEF Items, Row
<1>3. ASSUME NEW n \in Items PROVE \E m \in 1..5 : n = m % 5
  <2>1. n = 0 \/ n = 1 \/ n = 2 \/ n = 3 \/ n = 4
    BY DEF Items
  <2> QED
    BY <1>1, <2>1
<1> QED
  BY <1>2, <1>3

LEMMA LabelTypes ==
  ASSUME NEW n \in Items
  PROVE  /\ Labels(n) \subseteq Piece
         /\ \A p \in Labels(n) : p.row = Row(n) /\ p.from \in Nat /\ p.from >= 3
<1>1. Row(n) \in Nat
  BY DEF Row, Items
<1>2. /\ \A s \in {CHARSET[n], Dot, menu[n]} : s \in STRING /\ Width(s) \in Nat
      /\ Labels(n) = {Text(Row(n), 3, CHARSET[n]), Text(Row(n), 4, Dot), Text(Row(n), 6, menu[n])}
  BY TextsPrinted DEF Labels
<1> QED
  BY <1>1, <1>2 DEF Text, Piece

(* What stands on a row depends on the texts of that row.                  *)
LEMMA ItemKept ==
  ASSUME NEW c, NEW d, NEW n \in Items,
         \A q : q.row = Row(n) => (q \in d.texts <=> q \in c.texts)
  PROVE  /\ ItemOn(c, n) => ItemOn(d, n)
         /\ \A L, A : ShowsOnly(c, Row(n), L, A) => ShowsOnly(d, Row(n), L, A)
<1>1. \A L, A : ShowsOnly(c, Row(n), L, A) => ShowsOnly(d, Row(n), L, A)
  BY DEF ShowsOnly
<1>2. Labels(n) \subseteq c.texts => Labels(n) \subseteq d.texts
  BY LabelTypes
<1> QED
  BY <1>1, <1>2 DEF ItemOn, Stands

(* A round of printMenu: the item can be read, whatever stood there, and   *)
(* other rows are as they were, for the line end comes too early to scroll.*)
LEMMA RowPrinted ==
  ASSUME NEW c \in Console, NEW m \in 1..5
  PROVE  /\ PrintRow(c, m) \in Console /\ SameBut(c, PrintRow(c, m), 9 + m)
         /\ ItemOn(PrintRow(c, m), m % 5)
<1> DEFINE n == m % 5
           y == 9 + m
           label == CHARSET[n]
           name  == menu[n]
           c1 == PrintXY(c, label, 3, y)
           c2 == Write(Dot)[c1]
           c3 == Write(name)[c2]
           L1 == With({}, y, 3, label)
           L2 == With(L1, y, 4, Dot)
           L3 == With(L2, y, 6, name)
           A1 == Less(Nat, 3, label)
           A2 == Less(A1, 4, Dot)
           A3 == Less(A2, 6, name)
<1>1. /\ Printable(label) /\ Printable(Dot) /\ Printable(name)
      /\ Width(label) = 1 /\ Width(Dot) = 2 /\ Width(name) \in Nat
      /\ n \in Items /\ Row(n) = y /\ y \in Nat /\ 3 \in Nat
  BY TextsPrinted, RowsOfRounds DEF Printable
<1>2. PrintRow(c, m) = Write(CRLF)[c3]
  BY DEF PrintRow
<1>3. L3 = Labels(n)
  BY <1>1 DEF Labels, With
<1>4. A3 = Free(n)
  <2> DEFINE w == Width(name)
  <2>1. w \in Nat
    BY <1>1
  <2> HIDE DEF w
  <2>2. \A x : x \in ((Nat \ (3..(3 + 1 - 1))) \ (4..(4 + 2 - 1))) \ (6..(6 + w - 1))
              <=> x \in Nat /\ (x < 3 \/ x >= 6 + w)
    BY <2>1
  <2>3. \A x : x \in A3 <=> x \in Nat /\ (x < 3 \/ x >= 6 + Width(name))
    BY <1>1, <2>2, Zenon DEF Less, w
  <2>4. \A x : x \in Free(n) <=> x \in Nat /\ (x < 3 \/ x >= 6 + Width(name))
    BY Zenon DEF Free
  <2> HIDE DEF A3
  <2> QED
    BY <2>3, <2>4, Zenon
<1>5. Beside(L1, 4, Dot) /\ Beside(L2, 6, name)
  BY <1>1 DEF Printable, Beside, With, Text, Piece
<1> HIDE DEF n, y, label, name, L1, L2, L3, A1, A2, A3
<1>6. /\ c1 \in Console /\ c1.row = y /\ c1.col = 4
      /\ SameBut(c, c1, y) /\ Stands(c1, y, L1, A1)
  <2>1. Beside({}, 3, label) /\ Stands(c, y, {}, Nat)
    BY NoneKept
  <2> QED
    BY <1>1, <2>1, PrintBeside DEF L1, A1
<1> HIDE DEF c1
<1>7. /\ c2 \in Console /\ c2.row = y /\ c2.col = 6
      /\ SameBut(c1, c2, y) /\ Stands(c2, y, L2, A2)
  BY <1>1, <1>5, <1>6, WriteBeside DEF L2, A2
<1> HIDE DEF c2
<1>8. /\ c3 \in Console /\ c3.row = y
      /\ SameBut(c2, c3, y) /\ Stands(c3, y, L3, A3)
  BY <1>1, <1>5, <1>7, WriteBeside DEF L3, A3
<1> HIDE DEF c3
<1>9. Write(CRLF)[c3] = NewLine(c3)
  BY <1>8 DEF Write
<1>10. NewLine(c3) \in Console /\ NewLine(c3).texts = c3.texts
  BY <1>8, NewLineType, RowsAssumption, ScreenAssumption DEF y
<1>11. ItemOn(PrintRow(c, m), n)
  BY <1>1, <1>2, <1>3, <1>4, <1>8, <1>9, <1>10 DEF ItemOn, Stands, ShowsOnly
<1>12. SameBut(c, PrintRow(c, m), y)
  BY <1>2, <1>6, <1>7, <1>8, <1>9, <1>10 DEF SameBut
<1> QED
  BY <1>2, <1>9, <1>10, <1>11, <1>12 DEF n, y

(* Five rounds one after the other.                                        *)
LEMMA RoundsOfMenu ==
  ASSUME NEW c
  PROVE  printMenu(c) =
           PrintRow(PrintRow(PrintRow(PrintRow(PrintRow(
             PrintXY(c, Title, 0, 8), 1), 2), 3), 4), 5)
<1> DEFINE c0 == PrintXY(c, Title, 0, 8)
           c1 == PrintRow(c0, 1)
           c2 == PrintRow(c1, 2)
           c3 == PrintRow(c2, 3)
           c4 == PrintRow(c3, 4)
           c5 == PrintRow(c4, 5)
           Loop(r) == r = [n \in 0..5 |-> IF n = 0 THEN c0 ELSE PrintRow(r[n - 1], n)]
           f == [n \in 0..5 |-> IF n = 0 THEN c0 ELSE IF n = 1 THEN c1 ELSE
                                IF n = 2 THEN c2 ELSE IF n = 3 THEN c3 ELSE
                                IF n = 4 THEN c4 ELSE c5]
<1> HIDE DEF c0
<1>1. Loop(f)
  <2> SUFFICES ASSUME NEW n \in 0..5
               PROVE  f[n] = IF n = 0 THEN c0 ELSE PrintRow(f[n - 1], n)
    OBVIOUS
  <2>1. n = 0 \/ n = 1 \/ n = 2 \/ n = 3 \/ n = 4 \/ n = 5
    OBVIOUS
  <2> QED
    BY <2>1
<1>2. PICK r : Loop(r) /\ printMenu(c) = r[5]
  <2>1. Loop(CHOOSE r : Loop(r))
    BY <1>1
  <2> QED
    BY <2>1 DEF printMenu, c0
<1>3. /\ r[0] = c0 /\ r[1] = PrintRow(r[0], 1) /\ r[2] = PrintRow(r[1], 2)
      /\ r[3] = PrintRow(r[2], 3) /\ r[4] = PrintRow(r[3], 4)
      /\ r[5] = PrintRow(r[4], 5)
  BY <1>2
<1> QED
  BY <1>2, <1>3 DEF c0

LEMMA RoundsOfArrows ==
  ASSUME NEW c
  PROVE  PrintArrows(c) =
           PrintArrow(PrintArrow(PrintArrow(PrintArrow(PrintArrow(c, 1), 2), 3), 4), 5)
<1> DEFINE c1 == PrintArrow(c, 1)
           c2 == PrintArrow(c1, 2)
           c3 == PrintArrow(c2, 3)
           c4 == PrintArrow(c3, 4)
           c5 == PrintArrow(c4, 5)
           Loop(r) == r = [n \in 0..5 |-> IF n = 0 THEN c ELSE PrintArrow(r[n - 1], n)]
           f == [n \in 0..5 |-> IF n = 0 THEN c ELSE IF n = 1 THEN c1 ELSE
                                IF n = 2 THEN c2 ELSE IF n = 3 THEN c3 ELSE
                                IF n = 4 THEN c4 ELSE c5]
<1>1. Loop(f)
  <2> SUFFICES ASSUME NEW n \in 0..5
               PROVE  f[n] = IF n = 0 THEN c ELSE PrintArrow(f[n - 1], n)
    OBVIOUS
  <2>1. n = 0 \/ n = 1 \/ n = 2 \/ n = 3 \/ n = 4 \/ n = 5
    OBVIOUS
  <2> QED
    BY <2>1
<1>2. PICK r : Loop(r) /\ PrintArrows(c) = r[5]
  <2>1. Loop(CHOOSE r : Loop(r))
    BY <1>1
  <2> QED
    BY <2>1 DEF PrintArrows
<1>3. /\ r[0] = c /\ r[1] = PrintArrow(r[0], 1) /\ r[2] = PrintArrow(r[1], 2)
      /\ r[3] = PrintArrow(r[2], 3) /\ r[4] = PrintArrow(r[3], 4)
      /\ r[5] = PrintArrow(r[4], 5)
  BY <1>2
<1> QED
  BY <1>2, <1>3

LEMMA MenuPrinted ==
  ASSUME NEW c \in Console
  PROVE  printMenu(c) \in Console /\ MenuOn(printMenu(c))
<1> DEFINE On(d, m) == ItemOn(d, m % 5)
<1>1. PrintXY(c, Title, 0, 8) \in Console
  <2>1. Printable(Title) /\ 0 \in Nat /\ 8 \in Nat
    BY TextsPrinted DEF Printable
  <2> QED
    BY <2>1, NoneKept, PrintBeside
<1>2. ASSUME NEW d \in Console, NEW m \in 1..5
      PROVE  /\ PrintRow(d, m) \in Console /\ On(PrintRow(d, m), m)
             /\ \A k \in 1..5 : k # m /\ On(d, k) => On(PrintRow(d, m), k)
  <2>1. /\ PrintRow(d, m) \in Console /\ On(PrintRow(d, m), m)
        /\ SameBut(d, PrintRow(d, m), 9 + m)
    BY RowPrinted
  <2>2. ASSUME NEW k \in 1..5, k # m, On(d, k)
        PROVE  On(PrintRow(d, m), k)
    <3>1. k % 5 \in Items /\ Row(k % 5) # 9 + m
      BY <2>2, RowsOfRounds
    <3> QED
      BY <2>1, <2>2, <3>1, ItemKept DEF SameBut
  <2> QED
    BY <2>1, <2>2
<1> HIDE DEF On
<1>3. PICK d : d = printMenu(c) /\ d \in Console
               /\ On(d, 1) /\ On(d, 2) /\ On(d, 3) /\ On(d, 4) /\ On(d, 5)
  <2> DEFINE c0 == PrintXY(c, Title, 0, 8)
             c1 == PrintRow(c0, 1)
             c2 == PrintRow(c1, 2)
             c3 == PrintRow(c2, 3)
             c4 == PrintRow(c3, 4)
             c5 == PrintRow(c4, 5)
  <2> HIDE DEF c0
  <2>1. c1 \in Console /\ On(c1, 1)
    BY <1>1, <1>2 DEF c0
  <2> HIDE DEF c1
  <2>2. c2 \in Console /\ On(c2, 1) /\ On(c2, 2)
    BY <1>2, <2>1
  <2> HIDE DEF c2
  <2>3. c3 \in Console /\ On(c3, 1) /\ On(c3, 2) /\ On(c3, 3)
    BY <1>2, <2>2
  <2> HIDE DEF c3
  <2>4. c4 \in Console /\ On(c4, 1) /\ On(c4, 2) /\ On(c4, 3) /\ On(c4, 4)
    BY <1>2, <2>3
  <2> HIDE DEF c4
  <2>5. c5 \in Console /\ On(c5, 1) /\ On(c5, 2) /\ On(c5, 3) /\ On(c5, 4) /\ On(c5, 5)
    BY <1>2, <2>4
  <2>6. c5 = printMenu(c)
    BY RoundsOfMenu DEF c4, c3, c2, c1, c0
  <2> QED
    BY <2>5, <2>6
<1>4. MenuOn(d)
  BY <1>3, RowsOfRounds DEF On, MenuOn
<1> QED
  BY <1>3, <1>4

(* A round of menu()'s loop: whatever stood there, the row has an arrow if *)
(* and only if its item is marked, and beside arrow and label it shows     *)
(* nothing but the column between them and what is right of the label.     *)
ArrowText(n) == Text(Row(n), 0, IF n \in Mark THEN Arrow ELSE Blank)
Between(n) == Free(n) \ (0..1)
Marked(c, n) == /\ Text(Row(n), 0, Arrow) \in c.texts <=> n \in Mark
                /\ ShowsOnly(c, Row(n), Labels(n) \cup {ArrowText(n)}, Between(n))

LEMMA MarkKept ==
  ASSUME NEW c, NEW d, NEW n \in Items, Marked(c, n),
         \A q : q.row = Row(n) => (q \in d.texts <=> q \in c.texts)
  PROVE  Marked(d, n)
<1>1. Text(Row(n), 0, Arrow).row = Row(n)
  BY DEF Text
<1> QED
  BY <1>1, ItemKept DEF Marked

LEMMA ArrowPrinted ==
  ASSUME NEW c \in Console, NEW m \in 1..5, ItemOn(c, m % 5)
  PROVE  /\ PrintArrow(c, m) \in Console
         /\ PrintArrow(c, m).row = 9 + m /\ PrintArrow(c, m).col = 2
         /\ SameBut(c, PrintArrow(c, m), 9 + m)
         /\ ItemOn(PrintArrow(c, m), m % 5) /\ Marked(PrintArrow(c, m), m % 5)
<1> DEFINE n == m % 5
           y == 9 + m
           s == IF n \in Mark THEN Arrow ELSE Blank
           d == PrintArrow(c, m)
<1>1. Printable(s) /\ Width(s) = 2 /\ Width(Arrow) = 2
  BY TextsPrinted DEF Printable
<1>2. d = PrintXY(c, s, 0, y)
  BY DEF PrintArrow
<1>3. 0 \in Nat /\ y \in Nat /\ n \in Items /\ Row(n) = y
  BY RowsOfRounds
<1>4. s = Arrow <=> n \in Mark
  BY TextsPrinted
<1>5. ArrowText(n) = Text(y, 0, s)
  BY <1>3 DEF ArrowText
<1>6. Stands(c, y, Labels(n), Free(n))
  BY <1>3 DEF ItemOn
<1> HIDE DEF s, d, n, y
<1>7. Beside(Labels(n), 0, s)
  BY <1>1, <1>3, LabelTypes DEF Beside
<1>8. /\ With(Labels(n), y, 0, s) = Labels(n) \cup {ArrowText(n)}
      /\ Less(Free(n), 0, s) = Between(n) /\ 0 + Width(s) = 2
  <2>1. 0 + Width(s) = 2 /\ 0 + Width(s) - 1 = 1
    BY <1>1
  <2>2. Less(Free(n), 0, s) = Between(n)
    <3>1. Less(Free(n), 0, s) = Free(n) \ (0..(0 + Width(s) - 1))
      BY DEF Less
    <3>2. 0..(0 + Width(s) - 1) = 0..1
      BY <2>1
    <3> QED
      BY <3>1, <3>2, Zenon DEF Between
  <2>3. With(Labels(n), y, 0, s) = Labels(n) \cup {ArrowText(n)}
    BY <1>5, Zenon DEF With
  <2> QED
    BY <2>1, <2>2, <2>3
<1>9. /\ d \in Console /\ d.row = y /\ d.col = 2 /\ SameBut(c, d, y)
      /\ Stands(d, y, Labels(n) \cup {ArrowText(n)}, Between(n))
  <2>1. /\ d \in Console /\ d.row = y /\ d.col = 0 + Width(s) /\ SameBut(c, d, y)
        /\ Stands(d, y, With(Labels(n), y, 0, s), Less(Free(n), 0, s))
    BY <1>1, <1>2, <1>3, <1>6, <1>7, PrintBeside
  <2> QED
    BY <1>8, <2>1, Zenon
<1>10. ItemOn(d, n)
  <2>1. \A x \in Span(ArrowText(n)) : x \in Free(n)
    BY <1>1, <1>5 DEF Span, Text, Free
  <2>2. ShowsOnly(d, y, Labels(n), Free(n))
    BY <1>9, <2>1 DEF Stands, ShowsOnly, Between
  <2> QED
    BY <1>3, <1>9, <2>2 DEF ItemOn, Stands
<1>11. Text(y, 0, Arrow) \in d.texts <=> n \in Mark
  <2>1. CASE n \in Mark
    BY <1>4, <1>5, <1>9, <2>1 DEF Stands
  <2>2. CASE n \notin Mark
    <3> DEFINE t == Text(y, 0, Arrow)
    <3>1. t.row = y /\ 0 \in Span(t) /\ t # ArrowText(n) /\ t \notin Labels(n)
      BY <1>1, <1>3, <1>4, <1>5, <2>2, LabelTypes DEF Text, Span
    <3>2. 0 \notin Between(n)
      BY DEF Between
    <3> HIDE DEF t
    <3>3. t \notin d.texts
      BY <1>9, <3>1, <3>2 DEF Stands, ShowsOnly
    <3> QED
      BY <2>2, <3>3 DEF t
  <2> QED
    BY <2>1, <2>2
<1> QED
  BY <1>3, <1>9, <1>10, <1>11 DEF Marked, Stands, n, y, d

LEMMA ArrowsPrinted ==
  ASSUME NEW c \in Console, MenuOn(c)
  PROVE  /\ PrintArrows(c) \in Console
         /\ PrintArrows(c).row = 14 /\ PrintArrows(c).col = 2
         /\ MenuOn(PrintArrows(c)) /\ \A n \in Items : Marked(PrintArrows(c), n)
<1> DEFINE On(d, m) == Marked(d, m % 5)
<1>1. ASSUME NEW d \in Console, MenuOn(d), NEW m \in 1..5
      PROVE  /\ PrintArrow(d, m) \in Console /\ MenuOn(PrintArrow(d, m))
             /\ PrintArrow(d, m).row = 9 + m /\ PrintArrow(d, m).col = 2
             /\ On(PrintArrow(d, m), m)
             /\ \A k \in 1..5 : k # m /\ On(d, k) => On(PrintArrow(d, m), k)
  <2> DEFINE e == PrintArrow(d, m)
  <2>1. ItemOn(d, m % 5)
    BY <1>1, RowsOfRounds DEF MenuOn
  <2>2. /\ e \in Console /\ e.row = 9 + m /\ e.col = 2
        /\ SameBut(d, e, 9 + m)
        /\ ItemOn(e, m % 5) /\ Marked(e, m % 5)
    BY <2>1, ArrowPrinted
  <2> HIDE DEF e
  <2>3. ASSUME NEW k \in 1..5, k # m
        PROVE  ItemOn(e, k % 5) /\ (On(d, k) => On(e, k))
    <3>1. k % 5 \in Items /\ Row(k % 5) # 9 + m
      BY <2>3, RowsOfRounds
    <3>2. ItemOn(d, k % 5)
      BY <1>1, <3>1 DEF MenuOn
    <3>3. \A q : q.row = Row(k % 5) => (q \in e.texts <=> q \in d.texts)
      BY <2>2, <3>1 DEF SameBut
    <3> QED
      BY <3>1, <3>2, <3>3, ItemKept, MarkKept
  <2>4. MenuOn(e)
    BY <2>2, <2>3, RowsOfRounds DEF MenuOn
  <2> QED
    BY <2>2, <2>3, <2>4 DEF e
<1> HIDE DEF On
<1>2. PICK d : /\ d = PrintArrows(c) /\ d \in Console /\ MenuOn(d)
               /\ d.row = 14 /\ d.col = 2
               /\ On(d, 1) /\ On(d, 2) /\ On(d, 3) /\ On(d, 4) /\ On(d, 5)
  <2> DEFINE c1 == PrintArrow(c, 1)
             c2 == PrintArrow(c1, 2)
             c3 == PrintArrow(c2, 3)
             c4 == PrintArrow(c3, 4)
             c5 == PrintArrow(c4, 5)
  <2>1. c1 \in Console /\ MenuOn(c1) /\ On(c1, 1)
    BY <1>1
  <2> HIDE DEF c1
  <2>2. c2 \in Console /\ MenuOn(c2) /\ On(c2, 1) /\ On(c2, 2)
    BY <1>1, <2>1
  <2> HIDE DEF c2
  <2>3. /\ c3 \in Console /\ MenuOn(c3)
        /\ On(c3, 1) /\ On(c3, 2) /\ On(c3, 3)
    BY <1>1, <2>2
  <2> HIDE DEF c3
  <2>4. /\ c4 \in Console /\ MenuOn(c4)
        /\ On(c4, 1) /\ On(c4, 2) /\ On(c4, 3) /\ On(c4, 4)
    BY <1>1, <2>3
  <2> HIDE DEF c4
  <2>5. /\ c5 \in Console /\ MenuOn(c5) /\ c5.row = 14 /\ c5.col = 2
        /\ On(c5, 1) /\ On(c5, 2) /\ On(c5, 3) /\ On(c5, 4)
        /\ On(c5, 5)
    BY <1>1, <2>4
  <2>6. c5 = PrintArrows(c)
    BY RoundsOfArrows DEF c4, c3, c2, c1
  <2> QED
    BY <2>5, <2>6
<1>3. \A n \in Items : Marked(d, n)
  BY <1>2, RowsOfRounds DEF On
<1> QED
  BY <1>2, <1>3

(* The menu stands on the console from the time it is drawn; the cursor is *)
(* left behind the last arrow, so that the result is printed between the   *)
(* arrow and the label of the row of item 0; only a menu that returned has *)
(* a result; and once the arrows are drawn the rows show what they leave.  *)
Texts(n, marks, results) ==
  Labels(n) \cup {Text(Row(n), 0, IF n \in marks THEN Arrow ELSE Blank)}
            \cup {Text(Row(0), 2, CHARSET[m]) : m \in results}
ArrowsOn(c, marks) == marks = {n \in Items : Text(Row(n), 0, Arrow) \in c.texts}
OnlyOn(c, marks, results) ==
  \A n \in Items : ShowsOnly(c, Row(n), Texts(n, marks, results), Between(n))

ScreenInv ==
  /\ con \in Console
  /\ ~shown => pc = "select"
  /\ shown => MenuOn(con)
  /\ pc = "keyin" => con.row = 14 /\ con.col = 2
  /\ pc # "select" => ArrowsOn(con, arrows)
  /\ pc = "keyin" => OnlyOn(con, arrows, {})
  /\ pc \in {"poll", "done"} => /\ selected \in Items
                                /\ Text(14, 2, CHARSET[selected]) \in con.texts
                                /\ OnlyOn(con, arrows, {selected})

LEMMA ScreenInvInit == ScreenInit => ScreenInv
BY ShellAssumption DEF ScreenInit, Init, ScreenInv

LEMMA StartStep == ASSUME ScreenInv, Start PROVE ScreenInv'
<1>1. con \in Console /\ ~shown /\ shown' = TRUE /\ pc = "select" /\ pc' = "select"
  BY DEF Start, ScreenInv, vars
<1>2. HEAD0 \in STRING /\ HEAD0 # CRLF /\ Width(HEAD0) \in Nat
  BY TextsPrinted
<1>3. Write(HEAD0)[con] \in Console
  BY <1>1, <1>2, WriteTexts
<1>4. Write(CRLF)[Write(HEAD0)[con]] \in Console
  BY <1>3, NewLineType DEF Write
<1>5. con' = printMenu(Write(CRLF)[Write(HEAD0)[con]])
  BY DEF Start
<1>6. con' \in Console /\ MenuOn(con')
  BY <1>4, <1>5, MenuPrinted
<1> QED
  BY <1>1, <1>6 DEF ScreenInv

LEMMA SelectShownStep == ASSUME IInv, ScreenInv, SelectShown PROVE ScreenInv'
<1>1. /\ shown /\ shown' = shown /\ pc' = "keyin" /\ arrows' = Mark
      /\ con' = PrintArrows(con) /\ con \in Console /\ MenuOn(con)
  BY DEF SelectShown, Select, ScreenInv
<1>2. /\ con' \in Console /\ MenuOn(con') /\ con'.row = 14 /\ con'.col = 2
      /\ \A n \in Items : Marked(con', n)
  BY <1>1, ArrowsPrinted
<1>3. ArrowsOn(con', Mark)
  BY <1>2 DEF ArrowsOn, Marked, Mark
<1>4. OnlyOn(con', Mark, {})
  <2>1. ASSUME NEW n \in Items
        PROVE  Texts(n, Mark, {}) = Labels(n) \cup {ArrowText(n)}
    BY Zenon DEF Texts, ArrowText
  <2> QED
    BY <1>2, <2>1, Zenon DEF OnlyOn, Marked
<1> QED
  BY <1>1, <1>2, <1>3, <1>4 DEF ScreenInv

(* Beside the arrow of the last row there is room for a label.             *)
LEMMA ItemPrinted ==
  ASSUME con \in Console, MenuOn(con), con.row = 14, con.col = 2, NEW k \in Items,
         NEW marks \in SUBSET Items, ArrowsOn(con, marks), OnlyOn(con, marks, {})
  PROVE  LET d == Write(CHARSET[k])[con] IN
         /\ d \in Console /\ MenuOn(d) /\ Text(14, 2, CHARSET[k]) \in d.texts
         /\ ArrowsOn(d, marks) /\ OnlyOn(d, marks, {k})
<1> DEFINE s == CHARSET[k]
           d == Write(s)[con]
           t == Text(14, 2, s)
           L == Texts(0, marks, {})
<1>1. Printable(s) /\ Width(s) = 1 /\ Width(Arrow) = 2 /\ Width(Blank) = 2
  BY TextsPrinted DEF Printable
<1>2. /\ 0 \in Items /\ Row(0) = 14 /\ \A n \in Items : n # 0 => Row(n) # 14
  BY DEF Row, Items
<1>3. /\ \A p \in L : p \in Piece /\ (p.from >= 3 \/ p.to = 2)
      /\ \A p \in L : 0 \in Span(p) => p = Text(14, 0, IF 0 \in marks THEN Arrow ELSE Blank)
      /\ L \cup {t} = Texts(0, marks, {k})
  <2> DEFINE pointer == Text(14, 0, IF 0 \in marks THEN Arrow ELSE Blank)
  <2>1. pointer \in Piece /\ pointer.to = 2
    BY <1>1, TextsPrinted DEF Text, Piece
  <2>2. L = Labels(0) \cup {pointer}
    BY <1>2, Zenon DEF Texts
  <2>3. Texts(0, marks, {k}) = (Labels(0) \cup {pointer}) \cup {t}
    BY <1>2, Zenon DEF Texts
  <2>4. \A p \in Labels(0) : p \in Piece /\ p.from \in Nat /\ p.from >= 3
    BY <1>2, LabelTypes
  <2>5. \A p \in Labels(0) : 0 \notin Span(p)
    BY <2>4 DEF Span
  <2> HIDE DEF pointer, t, L
  <2>6. /\ \A p \in L : p \in Piece /\ (p.from >= 3 \/ p.to = 2)
        /\ \A p \in L : 0 \in Span(p) => p = pointer
    BY <2>1, <2>2, <2>4, <2>5
  <2> QED
    BY <2>2, <2>3, <2>6, Zenon DEF pointer
<1>4. /\ t.row = 14 /\ t.from = 2 /\ Span(t) = 2..2
  BY <1>1 DEF Text, Span
<1>5. con.col + Width(s) = 3 /\ t = Text(con.row, con.col, s)
  BY <1>1
<1> HIDE DEF s, d, t, L
<1>6. /\ d \in Console /\ t \in d.texts
      /\ \A p \in con.texts : ~Covered(p, con, s) => p \in d.texts
      /\ \A q : q.row # 14 => (q \in d.texts <=> q \in con.texts)
  BY <1>1, <1>5, WriteTexts, WriteShows DEF Printable, d
(* On the last row t stands besides what stood there.                      *)
<1>7. ASSUME NEW M, \A p \in M : ~Covered(p, con, s), NEW A, ShowsOnly(con, 14, M, A)
      PROVE  ShowsOnly(d, 14, M \cup {t}, A)
  <2>1. ShowsOnly(d, con.row, M \cup {Text(con.row, con.col, s)},
                  A \ (con.col..(con.col + Width(s) - 1)))
    BY <1>1, <1>7, WriteShows DEF Printable, d
  <2> QED
    BY <1>5, <2>1 DEF ShowsOnly
<1>8. MenuOn(d)
  <2>1. \A n \in Items : n # 0 => ItemOn(d, n)
    BY <1>2, <1>6, ItemKept DEF MenuOn
  <2>2. Labels(0) \subseteq con.texts /\ ShowsOnly(con, 14, Labels(0), Free(0))
    BY <1>2 DEF MenuOn, ItemOn, Stands
  <2>3. \A p \in Labels(0) : ~Covered(p, con, s)
    BY <1>2, <1>5, LabelTypes DEF Covered
  <2>4. ShowsOnly(d, 14, Labels(0) \cup {t}, Free(0))
    BY <1>7, <2>2, <2>3
  <2>5. \A x \in Span(t) : x \in Free(0)
    BY <1>4 DEF Free
  <2>6. ShowsOnly(d, 14, Labels(0), Free(0))
    BY <2>4, <2>5 DEF ShowsOnly
  <2>7. ItemOn(d, 0)
    BY <1>2, <1>6, <2>2, <2>3, <2>6 DEF ItemOn, Stands
  <2> QED
    BY <2>1, <2>7 DEF MenuOn
<1>9. OnlyOn(d, marks, {k})
  <2>1. ASSUME NEW n \in Items, n # 0
        PROVE  ShowsOnly(d, Row(n), Texts(n, marks, {k}), Between(n))
    <3>1. ShowsOnly(d, Row(n), Texts(n, marks, {}), Between(n))
      BY <1>2, <1>6, <2>1, ItemKept DEF OnlyOn
    <3>2. \A p \in Texts(n, marks, {}) : p \in Texts(n, marks, {k})
      BY Zenon DEF Texts
    <3> QED
      BY <3>1, <3>2 DEF ShowsOnly
  <2>2. \A p \in L : ~Covered(p, con, s)
    BY <1>3, <1>5 DEF Covered, Piece
  <2>3. ShowsOnly(con, 14, L, Between(0))
    BY <1>2, Zenon DEF OnlyOn, L
  <2>4. ShowsOnly(d, 14, L \cup {t}, Between(0))
    BY <1>7, <2>2, <2>3
  <2>5. ShowsOnly(d, Row(0), Texts(0, marks, {k}), Between(0))
    BY <1>2, <1>3, <2>4, Zenon
  <2> QED
    BY <2>1, <2>5, Zenon DEF OnlyOn
<1>10. ASSUME NEW n \in Items
       PROVE  Text(Row(n), 0, Arrow) \in d.texts <=> Text(Row(n), 0, Arrow) \in con.texts
  <2> DEFINE a == Text(Row(n), 0, Arrow)
  <2>1. a.row = Row(n) /\ a.from = 0 /\ a.to = 2 /\ 0 \in Span(a) /\ a.text = Arrow
    BY <1>1 DEF Text, Span
  <2>2. a \in con.texts <=> n \in marks
    BY DEF ArrowsOn
  <2> HIDE DEF a
  <2>3. CASE n # 0
    BY <1>2, <1>6, <2>1, <2>3 DEF a
  <2>4. CASE n = 0
    <3>1. a \in con.texts => a \in d.texts
      BY <1>5, <1>6, <2>1 DEF Covered
    <3>2. ASSUME a \in d.texts PROVE a \in L \cup {t}
      <4>1. 0 \notin Between(0)
        BY DEF Between
      <4>2. ShowsOnly(d, Row(0), L \cup {t}, Between(0))
        BY <1>2, <1>3, <1>9, Zenon DEF OnlyOn
      <4> QED
        BY <2>1, <2>4, <3>2, <4>1, <4>2 DEF ShowsOnly
    <3>3. ASSUME a \in L PROVE n \in marks
      <4>1. a = Text(14, 0, IF 0 \in marks THEN Arrow ELSE Blank)
        BY <1>3, <2>1, <3>3
      <4>2. Arrow = IF 0 \in marks THEN Arrow ELSE Blank
        BY <2>1, <4>1 DEF Text
      <4> QED
        BY <2>4, <4>2, TextsPrinted
    <3>4. a # t
      BY <1>4, <2>1
    <3> QED
      BY <2>2, <3>1, <3>2, <3>3, <3>4 DEF a
  <2> QED
    BY <2>3, <2>4
<1>11. ArrowsOn(d, marks)
  BY <1>10 DEF ArrowsOn
<1> QED
  BY <1>6, <1>8, <1>9, <1>11 DEF d, t, s

(* HexBoard ends menu() only with a 254 or a 255, and menu() returns one   *)
(* of its items then.                                                      *)
LEMMA KeyOutcome ==
  ASSUME IInv, OwnEdits \/ OwnReturns \/ LibRejects \/ LibReturns
  PROVE  /\ pc = "keyin" /\ pc' \in {"keyin", "select", "poll"} /\ arrows' = arrows
         /\ pc' = "poll" => selected' \in Items
<1>1. PICK k \in KeyValue :
        /\ Press(k)
        /\ \/ Stays(k)
           \/ board = "own" /\ (Returned(keyint) \/ Returned(current))
           \/ board = "lib" /\ Returned(LibItem(k))
  BY DEF OwnEdits, OwnReturns, LibRejects, LibReturns
<1>2. pc = "keyin" /\ arrows' = arrows
  BY <1>1 DEF Press
<1>3. keyint \in 0..15 /\ current \in 0..15 /\ selected = current
  BY <1>2 DEF IInv, TypeOK, ItemInv
<1>4. CASE Stays(k)
  BY <1>2, <1>4 DEF Stays
<1>5. CASE board = "own" /\ (Returned(keyint) \/ Returned(current))
  <2>1. pc' = "select"
    BY <1>3, <1>5 DEF Returned
  <2> QED
    BY <1>2, <2>1
<1>6. CASE board = "lib" /\ Returned(LibItem(k))
  <2>1. current \in Items
    BY <1>6 DEF IInv, ItemInv
  <2>2. \/ pc' = "poll" /\ selected' = current
        \/ pc' = "select"
    BY <1>3, <1>6 DEF Returned, EndMenu
  <2> QED
    BY <1>2, <2>1, <2>2
<1> QED
  BY <1>1, <1>4, <1>5, <1>6

LEMMA KeyShownStep == ASSUME IInv, ScreenInv, KeyShown PROVE ScreenInv'
<1>1. /\ OwnEdits \/ OwnReturns \/ LibRejects \/ LibReturns
      /\ con' = (IF pc' = "poll" THEN Write(CHARSET[selected'])[con] ELSE con)
      /\ shown' = shown
  BY DEF KeyShown, PrintItem
<1>2. /\ pc = "keyin" /\ pc' \in {"keyin", "select", "poll"} /\ arrows' = arrows
      /\ pc' = "poll" => selected' \in Items
  BY <1>1, KeyOutcome
<1>3. /\ con \in Console /\ shown /\ MenuOn(con) /\ con.row = 14 /\ con.col = 2
      /\ ArrowsOn(con, arrows) /\ OnlyOn(con, arrows, {}) /\ arrows \in SUBSET Items
  BY <1>2 DEF ScreenInv, IInv, TypeOK
<1>4. CASE pc' = "poll"
  <2>1. con' = Write(CHARSET[selected'])[con] /\ selected' \in Items
    BY <1>1, <1>2, <1>4
  <2>2. /\ con' \in Console /\ MenuOn(con')
        /\ Text(14, 2, CHARSET[selected']) \in con'.texts
        /\ ArrowsOn(con', arrows) /\ OnlyOn(con', arrows, {selected'})
    BY <1>3, <2>1, ItemPrinted
  <2> QED
    BY <1>1, <1>2, <1>3, <1>4, <2>1, <2>2 DEF ScreenInv
<1>5. CASE pc' # "poll"
  <2>1. con' = con
    BY <1>1, <1>5
  <2> QED
    BY <1>1, <1>2, <1>3, <1>5, <2>1 DEF ScreenInv
<1> QED
  BY <1>4, <1>5

LEMMA ScreenInvNext == IInv /\ ScreenInv /\ [ScreenNext]_screenVars => ScreenInv'
<1> SUFFICES ASSUME IInv, ScreenInv, [ScreenNext]_screenVars PROVE ScreenInv'
  OBVIOUS
<1>1. CASE Silent
  <2>1. /\ pc = "poll" /\ pc' \in {"poll", "done"}
        /\ UNCHANGED <<con, shown, arrows, selected>>
    BY <1>1 DEF Silent, PollKey, PollOver
  <2> QED
    BY <2>1 DEF ScreenInv
<1>2. CASE UNCHANGED <<con, shown, pc, arrows, selected>>
  BY <1>2 DEF ScreenInv
<1>3. CASE UserTypes /\ UNCHANGED <<con, shown>>
  BY <1>2, <1>3 DEF UserTypes
<1>4. CASE Terminated /\ UNCHANGED <<con, shown>>
  BY <1>2, <1>4 DEF Terminated, vars
<1>5. CASE UNCHANGED screenVars
  BY <1>2, <1>5 DEF screenVars
<1> QED
  BY <1>1, <1>3, <1>4, <1>5, StartStep, SelectShownStep, KeyShownStep
     DEF ScreenNext, ScreenProgram

LEMMA ScreenInvariant == ScreenSpec => []ScreenInv
<1>1. Spec => []IInv
  BY IInvInit, IInvNext, PTL DEF Spec
<1> QED
  BY <1>1, ScreenImplementsMenu, ScreenInvInit, ScreenInvNext, PTL DEF ScreenSpec

(* Whatever console the shell handed over, the menu's labels can be read   *)
(* in every reachable state from the time they are drawn, and the result   *)
(* beside them is the item that menu() returned; but of what was on their  *)
(* rows before only the columns they and the arrows take are gone.         *)
THEOREM MenuStaysShown == ScreenSpec => []MenuShown /\ []RemainsBeside
<1>1. ScreenInv => MenuShown
  <2>1. Row(0) = 14
    BY DEF Row
  <2> QED
    BY <2>1 DEF ScreenInv, MenuShown, MenuOn, ItemOn, Stands, Labels, At
<1>2. IInv /\ ScreenInv => RemainsBeside
  <2> SUFFICES ASSUME IInv, ScreenInv, shown, NEW n \in Items, NEW p \in con.texts,
                      p.row = Row(n), NEW x \in Span(p), p \notin MenuTexts(n)
               PROVE  x = 2 \/ x >= 6 + Width(menu[n]) \/ (x < 2 /\ pc = "select")
    BY DEF RemainsBeside
  <2>1. CASE pc = "select"
    <3>1. p \notin Labels(n)
      BY DEF MenuTexts
    <3>2. x \in Free(n)
      BY <3>1 DEF ScreenInv, MenuOn, ItemOn, Stands, ShowsOnly
    <3> QED
      BY <2>1, <3>2 DEF Free
  <2>2. CASE pc # "select"
    <3>1. CASE pc = "keyin"
      <4>1. MenuTexts(n) = Texts(n, arrows, {})
        BY <3>1, Zenon DEF MenuTexts, Texts, Pointer, Results
      <4> QED
        BY <3>1, <4>1 DEF ScreenInv, OnlyOn, ShowsOnly, Between, Free
    <3>2. CASE pc \in {"poll", "done"}
      <4>1. selected \in Items /\ OnlyOn(con, arrows, {selected})
        BY <3>2 DEF ScreenInv
      <4>2. Results = {selected}
        BY <3>2, <4>1 DEF Results
      <4>3. MenuTexts(n) = Texts(n, arrows, {selected})
        BY <4>2, Zenon DEF MenuTexts, Texts, Pointer
      <4> QED
        BY <4>1, <4>3 DEF OnlyOn, ShowsOnly, Between, Free
    <3> QED
      BY <2>2, <3>1, <3>2 DEF IInv, TypeOK
  <2> QED
    BY <2>1, <2>2
<1>3. Spec => []IInv
  BY IInvInit, IInvNext, PTL DEF Spec
<1> QED
  BY <1>1, <1>2, <1>3, ScreenImplementsMenu, ScreenInvariant, PTL

(* The arrows that can be read are the ones menu() means to show.          *)
THEOREM ArrowsAreShown == ScreenSpec => []ArrowsShown
<1>1. ScreenInv => ArrowsShown
  BY DEF ScreenInv, ArrowsOn, ArrowsShown, At
<1> QED
  BY <1>1, ScreenInvariant, PTL
=============================================================================
