----------------------------- MODULE TestCharset -----------------------------
(***************************************************************************)
(* Charset() of test.c, which is to put characters and terminators into    *)
(* CHARSET in turn, and pointers to the characters into pCHRS.  A pointer  *)
(* is an index into CHARSET.                                               *)
(***************************************************************************)
EXTENDS Integers

NULL == -1                            \* a global pointer before it is set

VARIABLES pc, i, CHARSET, pCHRS

vars == <<pc, i, CHARSET, pCHRS>>

Init ==
  /\ pc = "loop" /\ i = 0
  /\ CHARSET = [n \in 0..255 |-> 0]
  /\ pCHRS = [n \in 0..127 |-> NULL]

IsCharSlot == ~(i # 0 /\ 1 # 0)       \* (i&&1) == 0

Store ==
  /\ pc = "loop" /\ i < 256
  /\ \/ /\ IsCharSlot
        /\ CHARSET' = [CHARSET EXCEPT ![i] = 48 + i]
        /\ pCHRS' = [pCHRS EXCEPT ![i \div 2] = i]
     \/ /\ ~IsCharSlot
        /\ CHARSET' = [CHARSET EXCEPT ![i] = 0]
        /\ UNCHANGED pCHRS
  /\ UNCHANGED pc

NextUint16 == i' = (i + 1) % 65536

Return ==
  /\ pc = "loop" /\ i >= 256
  /\ pc' = "returned"
  /\ UNCHANGED <<i, CHARSET, pCHRS>>

Returned == pc = "returned" /\ UNCHANGED vars

Next == (Store /\ NextUint16) \/ Return \/ Returned
-----------------------------------------------------------------------------
(* The comment on Charset: it initialises the character set and the array  *)
(* of pointers to its elements.                                            *)
PointersToElements ==
  pc = "returned" => \A n \in 0..127 : pCHRS[n] \in DOMAIN CHARSET
=============================================================================
