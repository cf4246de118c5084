------------------------------- MODULE Helpers -------------------------------
(***************************************************************************)
(* The functions that neither read keys nor registers: Charset of          *)
(* libMSREdit.c, StrToHex, uCase, cat and the other Charset, of test.c,    *)
(* and what main of t.c calls.  A program calls one of them, and it runs   *)
(* by itself.                                                              *)
(***************************************************************************)
EXTENDS Charset, Sequences

CONSTANTS
  Strings, Positions, Counts,   \* the arguments StrToHex is called with
  Width,                        \* hexadecimal digits in its result
  WideStrings, ByteStrings,     \* the strings uCase and cat are given
  Texts                         \* the literals t.c prints

(* The characters of strings, in which 0 is the terminator.                *)
Below(bound) == {c \in Nat \ {0} : c < bound}

ASSUME ArgumentsAssumption ==
  /\ Strings \cup WideStrings \subseteq Seq(Below(65536))
  /\ ByteStrings \subseteq Seq(Below(256)) /\ Texts \subseteq Seq(Below(128))
  /\ Positions \subseteq Nat /\ Counts \subseteq Nat /\ Width \in Nat \ {0}

VARIABLES
  callee,
  hexpc, Input, NumChars, from, Pos, NumDone, retval,      \* StrToHex
  textpc, textpos, given, MyString, str2, result,          \* uCase and cat
  setpc, setpos, SET, pCHRS,                               \* Charset of test.c
  scrpc, scrpos, text, TABLE, len, printed               \* main of t.c

hexVars  == <<hexpc, Input, NumChars, from, Pos, NumDone, retval>>
textVars == <<textpc, textpos, given, MyString, str2, result>>
setVars  == <<setpc, setpos, SET, pCHRS>>
scrVars  == <<scrpc, scrpos, text, TABLE, len, printed>>
allVars  == <<callee, vars, hexVars, textVars, setVars, scrVars>>

Hex  == INSTANCE StrToHex    WITH pc <- hexpc
Text == INSTANCE TestStrings WITH pc <- textpc, i <- textpos
Set  == INSTANCE TestCharset WITH pc <- setpc, i <- setpos, CHARSET <- SET
Scr  == INSTANCE ScratchPrint WITH pc <- scrpc, i <- scrpos, CHARSET <- TABLE

HexIdle  == /\ hexpc = "idle" /\ Input = <<>> /\ NumChars = 0 /\ from = 0
            /\ Pos = 0 /\ NumDone = 0 /\ retval = 0
TextIdle == /\ textpc = "idle" /\ textpos = 0 /\ given = <<>> /\ MyString = <<>>
            /\ str2 = <<>> /\ result = <<>>
ScrIdle  == /\ scrpc = "idle" /\ scrpos = 0 /\ text = <<>> /\ TABLE = <<>>
            /\ len = 0 /\ printed = <<>>

CallsInit ==
  /\ Init /\ Set!Init
  /\ \/ callee \in {"Charset", "test.c Charset"} /\ HexIdle /\ TextIdle /\ ScrIdle
     \/ callee = "StrToHex" /\ Hex!Init /\ TextIdle /\ ScrIdle
     \/ callee = "uCase or cat" /\ HexIdle /\ Text!Init /\ ScrIdle
     \/ callee = "t.c main" /\ HexIdle /\ TextIdle /\ Scr!Init

CallsNext ==
  /\ UNCHANGED callee
  /\ \/ /\ callee = "Charset" /\ Next
        /\ UNCHANGED <<hexVars, textVars, setVars, scrVars>>
     \/ /\ callee = "StrToHex" /\ Hex!Next
        /\ UNCHANGED <<vars, textVars, setVars, scrVars>>
     \/ /\ callee = "uCase or cat" /\ Text!Next
        /\ UNCHANGED <<vars, hexVars, setVars, scrVars>>
     \/ /\ callee = "test.c Charset" /\ Set!Next
        /\ UNCHANGED <<vars, hexVars, textVars, scrVars>>
     \/ /\ callee = "t.c main" /\ Scr!Next
        /\ UNCHANGED <<vars, hexVars, textVars, setVars>>

(* The processor keeps executing the function that was called.             *)
CallsSpec == CallsInit /\ [][CallsNext]_allVars /\ WF_allVars(CallsNext)

-----------------------------------------------------------------------------
(* StrToHex's value is that of the digits it was to read.                  *)
ValueOfDigits == Hex!ValueOfDigits

(* cat's block holds both strings and a terminator, to its last element.   *)
Concatenated == Text!Concatenated

(* uCase leaves no lower-case letter and touches nothing else.             *)
LowerGone == Text!LowerGone

(* The comment on uCase: lower-case letters become their capitals.         *)
AllUppercase == Text!AllUppercase

(* The comment on test.c's Charset: all its pointers are set.              *)
PointersToElements == callee = "test.c Charset" => Set!PointersToElements

(* t.c's print stays inside the string and shows all of it.                *)
PrintsText == callee = "t.c main" => Scr!PrintsText

(* Whatever string, position and count they are given, the functions leave *)
(* their loops: over a string and its terminator, over an array's elements.*)
CallReturned ==
  CASE callee = "Charset"        -> i = Slots
    [] callee = "StrToHex"       -> hexpc = "returned"
    [] callee = "uCase or cat"   -> textpc = "returned"
    [] callee = "test.c Charset" -> setpc = "returned"
    [] callee = "t.c main"       -> scrpc = "returned"
CallsReturn == <>CallReturned
=============================================================================
