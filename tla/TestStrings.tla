----------------------------- MODULE TestStrings -----------------------------
(***************************************************************************)
(* uCase(MyString) and cat(str1, str2) of test.c.  A string is the         *)
(* sequence of the characters before its NUL; cat's result is an allocated *)
(* block whose elements hold anything (Garbage) until they are written.    *)
(***************************************************************************)
EXTENDS Integers, Sequences

CONSTANTS
  WideStrings,   \* strings of CHAR16 that are passed
  ByteStrings    \* strings of char that are passed, as bytes

NULL    == <<-1>>                     \* no string holds that character
Garbage == -1

VARIABLES
  pc, i,
  given,       \* the string that was passed to uCase, or str1 of cat
  MyString,    \* what it holds now
  str2,        \* str2 of cat
  result       \* the block of cat

vars == <<pc, i, given, MyString, str2, result>>

Init ==
  /\ i = 0 /\ result = <<>>
  /\ \/ pc = "uCase" /\ given \in WideStrings \cup {NULL} /\ str2 = <<>>
     \/ pc = "malloc" /\ given \in WideStrings /\ str2 \in ByteStrings
  /\ MyString = given

IsLower(c) == 97 <= c /\ c <= 122
AddCaseAll(c) == c - 65 + 97          \* a mutant: every character is changed
AddCase(c) == IF IsLower(c) THEN c - 65 + 97 ELSE c

uCase ==
  /\ pc = "uCase" /\ MyString # NULL /\ i < Len(MyString)
  /\ MyString' = [MyString EXCEPT ![i + 1] = AddCase(@) % 65536]
  /\ i' = i + 1
  /\ UNCHANGED <<pc, given, str2, result>>

uCaseReturn ==
  /\ pc = "uCase" /\ (MyString = NULL \/ i = Len(MyString))
  /\ pc' = "returned"
  /\ UNCHANGED <<i, given, MyString, str2, result>>

(* The block for both strings and a terminator, or no block.               *)
BlockWithoutNul == Len(given) + Len(str2)          \* a mutant: + 1 forgotten
Block           == Len(given) + Len(str2) + 1

mallocFails ==
  /\ pc = "malloc"
  /\ pc' = "returned" /\ result' = NULL
  /\ UNCHANGED <<i, given, MyString, str2>>

malloc ==
  /\ pc = "malloc"
  /\ pc' = "copy1" /\ result' = [n \in 1..Block |-> Garbage]
  /\ UNCHANGED <<i, given, MyString, str2>>

(* A write past the block changes none of its elements.                    *)
Put(n, c) == result' = [result EXCEPT ![n + 1] = c]

copy1 ==
  /\ pc = "copy1" /\ i < Len(given)
  /\ Put(i, given[i + 1]) /\ i' = i + 1
  /\ UNCHANGED <<pc, given, MyString, str2>>

copy1Ends ==
  /\ pc = "copy1" /\ i = Len(given)
  /\ pc' = "copy2" /\ i' = 0
  /\ UNCHANGED <<given, MyString, str2, result>>

(* (CHAR16) of a char, which is signed: the sign is extended.              *)
Signed(b)  == IF b < 128 THEN b ELSE b - 256
Widened(b) == Signed(b) % 65536

copy2 ==
  /\ pc = "copy2" /\ i < Len(str2)
  /\ Put(Len(given) + i, Widened(str2[i + 1])) /\ i' = i + 1
  /\ UNCHANGED <<pc, given, MyString, str2>>

terminate ==
  /\ pc = "copy2" /\ i = Len(str2)
  /\ Put(Len(given) + Len(str2), 0)
  /\ pc' = "returned"
  /\ UNCHANGED <<i, given, MyString, str2>>

Returned == pc = "returned" /\ UNCHANGED vars

Next == \/ uCase \/ uCaseReturn
        \/ mallocFails \/ malloc \/ copy1 \/ copy1Ends \/ copy2 \/ terminate
        \/ Returned
-----------------------------------------------------------------------------
(* cat returns no block, or one that is the two strings and a NUL from the *)
(* first to the last of its elements, and no element before it ends the    *)
(* string.  Beyond ASCII a char becomes a character from U+FF80 on.        *)
CatReturned == pc = "returned" /\ result # <<>>
Appended == [n \in 1..Len(str2) |-> IF str2[n] > 127 THEN 65280 + str2[n] ELSE str2[n]]
Concatenated ==
  CatReturned /\ result # NULL =>
    /\ result = given \o Appended \o <<0>>
    /\ \A n \in 1..(Len(result) - 1) : result[n] # 0

(* uCase leaves no lower-case letter behind and touches nothing else.      *)
LowerGone ==
  pc = "returned" /\ MyString # NULL /\ ~CatReturned =>
    \A n \in 1..Len(MyString) :
      /\ ~IsLower(MyString[n])
      /\ ~IsLower(given[n]) => MyString[n] = given[n]

(* The comment "Convert input string to all-uppercase": the letter that    *)
(* takes the place of a lower-case one is its capital.                     *)
AllUppercase ==
  pc = "returned" /\ MyString # NULL /\ ~CatReturned =>
    \A n \in 1..Len(MyString) :
      IsLower(given[n]) => MyString[n] = given[n] - 32
=============================================================================
