---------------------------- MODULE HelpersProofs ----------------------------
(***************************************************************************)
(* The functions that only compute, for strings of every length: the table *)
(* of libMSREdit.c is complete and its strings end, uCase and cat of       *)
(* test.c change and copy what they should, StrToHex returns the number    *)
(* that its digits spell, test.c's Charset leaves one of its 128 strings,  *)
(* t.c's print gives out a text and no more, and every one of these calls  *)
(* comes to its end.                                                       *)
(***************************************************************************)
EXTENDS Helpers, SequenceTheorems, FiniteSetTheorems, WellFoundedInduction, TLAPS

(* What Charset()'s loop has done after i rounds.                          *)
LoopInv ==
  /\ i \in 0..Slots
  /\ CHARSETZERO \in [0..(2 * Slots - 1) -> Int]
  /\ CHARSET \in [0..(Slots - 1) -> Int]
  /\ \A n \in 0..(i - 1) : CHARSET[n] = 2 * n /\ CHARSETZERO[2 * n] = Character(n)
  /\ \A n \in 0..(Slots - 1) : CHARSETZERO[2 * n + 1] = 0

LEMMA CharacterType ==
  ASSUME NEW n \in Nat
  PROVE  Character(n) \in Int
BY DEF Character, In

LEMMA LoopInit == Init => LoopInv
BY SlotsAssumption DEF Init, LoopInv, NULL

LEMMA LoopNext == LoopInv /\ [Next]_vars => LoopInv'
<1> SUFFICES ASSUME LoopInv, [Next]_vars PROVE LoopInv'
  OBVIOUS
<1> USE SlotsAssumption
<1>1. CASE Store
  <2>1. /\ i \in 0..(Slots - 1) /\ i' = i + 1
        /\ 2 * i \in 0..(2 * Slots - 1)
        /\ CHARSETZERO' = [CHARSETZERO EXCEPT ![2 * i] = Character(i)]
        /\ CHARSET' = [CHARSET EXCEPT ![i] = 2 * i]
    BY <1>1 DEF Store, LoopInv
  <2>2. Character(i) \in Int /\ 2 * i \in Int
    BY <2>1, CharacterType
  <2>3. /\ i' \in 0..Slots
        /\ CHARSETZERO' \in [0..(2 * Slots - 1) -> Int]
        /\ CHARSET' \in [0..(Slots - 1) -> Int]
    BY <2>1, <2>2 DEF LoopInv
  <2>4. ASSUME NEW n \in 0..(i' - 1)
        PROVE  CHARSET'[n] = 2 * n /\ CHARSETZERO'[2 * n] = Character(n)
    <3>1. CASE n = i
      BY <2>1, <3>1 DEF LoopInv
    <3>2. CASE n # i
      <4>1. n \in 0..(i - 1) /\ n \in 0..(Slots - 1)
            /\ 2 * n \in 0..(2 * Slots - 1) /\ 2 * n # 2 * i
        BY <2>1, <2>4, <3>2
      <4> QED
        BY <2>1, <4>1 DEF LoopInv
    <3> QED
      BY <3>1, <3>2
  <2>5. ASSUME NEW n \in 0..(Slots - 1)
        PROVE  CHARSETZERO'[2 * n + 1] = 0
    <3>1. 2 * n + 1 \in 0..(2 * Slots - 1) /\ 2 * n + 1 # 2 * i
      BY <2>1
    <3> QED
      BY <2>1, <3>1 DEF LoopInv
  <2> QED
    BY <2>3, <2>4, <2>5 DEF LoopInv
<1>2. CASE Returned \/ UNCHANGED vars
  BY <1>2 DEF Returned, vars, LoopInv
<1> QED
  BY <1>1, <1>2 DEF Next

(* Whatever function is called, Charset's variables take its steps only.   *)
LEMMA LoopInvariant == CallsSpec => []LoopInv
<1>1. CallsInit => Init
  BY DEF CallsInit
<1>2. [CallsNext]_allVars => [Next]_vars
  <2>1. UNCHANGED allVars => UNCHANGED vars
    BY DEF allVars
  <2> QED
    BY <2>1 DEF CallsNext
<1> QED
  BY <1>1, <1>2, LoopInit, LoopNext, PTL DEF CallsSpec

(* Every pointer that is set leads to one character and a terminator.      *)
THEOREM StringsEnd == CallsSpec => []OneCharStrings
<1>1. LoopInv => OneCharStrings
  <2> SUFFICES ASSUME LoopInv, NEW n \in 0..(i - 1)
               PROVE  /\ CHARSET[n] \in 0..(2 * Slots - 2)
                      /\ CHARSETZERO[CHARSET[n]] = Character(n)
                      /\ CHARSETZERO[CHARSET[n] + 1] = 0
    BY DEF OneCharStrings
  <2>1. n \in 0..(Slots - 1) /\ 2 * n \in 0..(2 * Slots - 2)
    BY SlotsAssumption DEF LoopInv
  <2> QED
    BY <2>1 DEF LoopInv
<1> QED
  BY <1>1, LoopInvariant, PTL

-----------------------------------------------------------------------------
(* The seven ranges of the table meet without a gap or an overlap.         *)
LEMMA CharacterRanges ==
  ASSUME NEW n \in Nat
  PROVE  /\ n \in 0..9   => Character(n) = 48 + n
         /\ n \in 10..35 => Character(n) = 55 + n
         /\ n \in 36..61 => Character(n) = 61 + n
         /\ n \in 62..77 => Character(n) = n - 30
         /\ n \in 78..83 => Character(n) = 13 + n
         /\ n \in 84..87 => Character(n) = 39 + n
         /\ n \in 88..94 => Character(n) = n - 30
         /\ n > 94       => Character(n) = 0
BY DEF Character, In

LEMMA CharacterCovers ==
  ASSUME NEW c \in Printable
  PROVE  \E n \in 0..94 : Character(n) = c
<1> USE DEF Printable
<1>1. CASE c \in 48..57
  <2>1. c - 48 \in 0..94 /\ c - 48 \in Nat
    BY <1>1
  <2>2. Character(c - 48) = c
    BY <1>1, <2>1, CharacterRanges
  <2> QED
    BY <2>1, <2>2
<1>2. CASE c \in 65..90
  <2>1. c - 55 \in 0..94 /\ c - 55 \in Nat
    BY <1>2
  <2>2. Character(c - 55) = c
    BY <1>2, <2>1, CharacterRanges
  <2> QED
    BY <2>1, <2>2
<1>3. CASE c \in 97..122
  <2>1. c - 61 \in 0..94 /\ c - 61 \in Nat
    BY <1>3
  <2>2. Character(c - 61) = c
    BY <1>3, <2>1, CharacterRanges
  <2> QED
    BY <2>1, <2>2
<1>4. CASE c \in 32..47 \/ c \in 58..64
  <2>1. c + 30 \in 0..94 /\ c + 30 \in Nat
    BY <1>4
  <2>2. Character(c + 30) = c
    BY <1>4, <2>1, CharacterRanges
  <2> QED
    BY <2>1, <2>2
<1>5. CASE c \in 91..96
  <2>1. c - 13 \in 0..94 /\ c - 13 \in Nat
    BY <1>5
  <2>2. Character(c - 13) = c
    BY <1>5, <2>1, CharacterRanges
  <2> QED
    BY <2>1, <2>2
<1>6. CASE c \in 123..126
  <2>1. c - 39 \in 0..94 /\ c - 39 \in Nat
    BY <1>6
  <2>2. Character(c - 39) = c
    BY <1>6, <2>1, CharacterRanges
  <2> QED
    BY <2>1, <2>2
<1> QED
  BY <1>1, <1>2, <1>3, <1>4, <1>5, <1>6

LEMMA CharacterInjective ==
  ASSUME NEW m \in 0..94, NEW n \in 0..94, Character(m) = Character(n)
  PROVE  m = n
<1>1. ASSUME NEW j \in 0..94
      PROVE  \/ j \in 0..9   /\ Character(j) = 48 + j
             \/ j \in 10..35 /\ Character(j) = 55 + j
             \/ j \in 36..61 /\ Character(j) = 61 + j
             \/ j \in 62..77 /\ Character(j) = j - 30
             \/ j \in 78..83 /\ Character(j) = 13 + j
             \/ j \in 84..87 /\ Character(j) = 39 + j
             \/ j \in 88..94 /\ Character(j) = j - 30
  BY CharacterRanges
<1> QED
  BY <1>1

LEMMA CharacterIsLabel ==
  ASSUME NEW n \in 0..15
  PROVE  IsLabel(Character(n), n)
<1>1. CASE n <= 9
  <2>1. Character(n) = 48 + n
    BY <1>1, CharacterRanges
  <2> QED
    BY <1>1, <2>1 DEF IsLabel, HexDigits, HexValue
<1>2. CASE n > 9
  <2>1. Character(n) = 55 + n
    BY <1>2, CharacterRanges
  <2> QED
    BY <1>2, <2>1 DEF IsLabel, HexDigits, HexValue
<1> QED
  BY <1>1, <1>2

(* After the loop the table has every printable character exactly once,    *)
(* and a digit's label is the key for that digit.                          *)
THEOREM TableIsComplete == CallsSpec => []TableComplete
<1>1. LoopInv => TableComplete
  <2> SUFFICES ASSUME LoopInv, i = Slots PROVE TableComplete
    BY Zenon DEF TableComplete
  <2>1. \A n \in 0..(Slots - 1) : n \in Nat /\ CHARSETZERO[CHARSET[n]] = Character(n)
    BY DEF LoopInv
  <2>2. 0..94 \subseteq 0..(Slots - 1) /\ 0..15 \subseteq 0..94
    BY SlotsAssumption
  <2>3. \A c \in Printable : \E n \in 0..94 : CHARSETZERO[CHARSET[n]] = c
    BY <2>1, <2>2, CharacterCovers
  <2>4. \A m, n \in 0..94 : CHARSETZERO[CHARSET[m]] = CHARSETZERO[CHARSET[n]] => m = n
    BY <2>1, <2>2, CharacterInjective
  <2>5. \A n \in 95..(Slots - 1) : CHARSETZERO[CHARSET[n]] = 0
    <3> SUFFICES ASSUME NEW n \in 95..(Slots - 1)
                 PROVE  CHARSETZERO[CHARSET[n]] = 0
      OBVIOUS
    <3>1. n \in 0..(Slots - 1) /\ n > 94
      BY SlotsAssumption
    <3> QED
      BY <2>1, <3>1, CharacterRanges
  <2>6. \A n \in 0..15 : IsLabel(CHARSETZERO[CHARSET[n]], n)
    BY <2>1, <2>2, CharacterIsLabel
  <2> QED
    BY <2>3, <2>4, <2>5, <2>6, ZenonT(60) DEF TableComplete
<1> QED
  BY <1>1, LoopInvariant, PTL
-----------------------------------------------------------------------------
(* uCase and cat.  A call of uCase has no block; what is left of its       *)
(* string is as it was given.                                              *)
uCaseInv ==
  /\ textpc \in {"uCase", "returned"} /\ result = <<>>
  /\ MyString # <<-1>> =>
       /\ given \in Seq(Below(65536)) /\ MyString \in Seq(Nat)
       /\ Len(MyString) = Len(given) /\ textpos \in 0..Len(given)
       /\ textpc = "returned" => textpos = Len(given)
       /\ \A p \in 1..textpos : MyString[p] = Text!AddCase(given[p]) % 65536
       /\ \A p \in (textpos + 1)..Len(given) : MyString[p] = given[p]

Sized   == result \in Seq(Int) /\ Len(result) = Len(given) + Len(str2) + 1
FirstTo == /\ textpos \in 0..Len(given)
           /\ \A p \in 1..textpos : result[p] = given[p]
SecondTo == /\ textpos \in 0..Len(str2)
            /\ \A p \in 1..Len(given) : result[p] = given[p]
            /\ \A p \in 1..textpos : result[Len(given) + p] = Text!Appended[p]
Finished == /\ result # <<>>
            /\ result # <<-1>> => result = given \o Text!Appended \o <<0>>
CatInv ==
  /\ given \in Seq(Below(65536)) /\ str2 \in Seq(Below(256)) /\ MyString = given
  /\ textpc \in {"malloc", "copy1", "copy2", "returned"}
  /\ textpc = "malloc" => textpos = 0
  /\ textpc = "copy1" => Sized /\ FirstTo
  /\ textpc = "copy2" => Sized /\ SecondTo
  /\ textpc = "returned" => Finished

TextInv == textpc = "idle" \/ uCaseInv \/ CatInv

(* A concatenation, element by element.                                    *)
LEMMA Shifted ==
  ASSUME NEW m \in Nat, NEW k \in Nat, NEW p \in 1..k
  PROVE  m + p \in 1..(m + k) /\ ~(m + p <= m) /\ m + p - m = p
OBVIOUS

LEMMA Joined ==
  ASSUME NEW s \in Seq(Int), NEW t \in Seq(Int)
  PROVE  /\ s \o t \in Seq(Int) /\ Len(s \o t) = Len(s) + Len(t)
         /\ \A p \in 1..Len(s) : (s \o t)[p] = s[p]
         /\ \A p \in 1..Len(t) : (s \o t)[Len(s) + p] = t[p]
<1> DEFINE st == s \o t
<1>1. PICK m \in Nat : Len(s) = m
  BY LenProperties
<1>2. PICK k \in Nat : Len(t) = k
  BY LenProperties
<1>3. /\ st \in Seq(Int) /\ Len(st) = m + k
      /\ \A p \in 1..(m + k) : st[p] = IF p <= m THEN s[p] ELSE t[p - m]
  BY <1>1, <1>2, ConcatProperties
<1> HIDE DEF st
<1>4. ASSUME NEW p \in 1..m PROVE st[p] = s[p]
  <2>1. p \in 1..(m + k) /\ p <= m
    OBVIOUS
  <2> QED
    BY <1>3, <2>1
<1>5. ASSUME NEW p \in 1..k PROVE st[m + p] = t[p]
  <2>1. m + p \in 1..(m + k) /\ ~(m + p <= m) /\ m + p - m = p
    BY Shifted
  <2> QED
    BY <1>3, <2>1
<1> QED
  BY <1>1, <1>2, <1>3, <1>4, <1>5 DEF st

LEMMA Terminated ==
  ASSUME NEW s \in Seq(Int)
  PROVE  /\ s \o <<0>> \in Seq(Int) /\ Len(s \o <<0>>) = Len(s) + 1
         /\ \A p \in 1..Len(s) : (s \o <<0>>)[p] = s[p]
         /\ (s \o <<0>>)[Len(s) + 1] = 0
<1>1. s \o <<0>> = Append(s, 0)
  BY AppendIsConcat
<1> DEFINE e == Append(s, 0)
<1>2. /\ e \in Seq(Int) /\ Len(e) = Len(s) + 1
      /\ \A p \in 1..Len(s) : e[p] = s[p]
      /\ e[Len(s) + 1] = 0
  BY AppendProperties
<1> HIDE DEF e
<1> QED
  BY <1>1, <1>2 DEF e

(* A block that holds two strings and a NUL is the two and the NUL.        *)
LEMMA Assembled ==
  ASSUME NEW g \in Seq(Int), NEW a \in Seq(Int), NEW r \in Seq(Int),
         Len(r) = Len(g) + Len(a) + 1,
         \A p \in 1..Len(g) : r[p] = g[p],
         \A p \in 1..Len(a) : r[Len(g) + p] = a[p],
         r[Len(g) + Len(a) + 1] = 0
  PROVE  r = g \o a \o <<0>>
<1> DEFINE ga == g \o a
           whole == ga \o <<0>>
<1>m. PICK m \in Nat : Len(g) = m
  BY LenProperties
<1>k. PICK k \in Nat : Len(a) = k
  BY LenProperties
<1>r. /\ Len(r) = m + k + 1 /\ r[m + k + 1] = 0
      /\ \A p \in 1..m : r[p] = g[p]
      /\ \A p \in 1..k : r[m + p] = a[p]
  BY <1>m, <1>k
<1>1. /\ ga \in Seq(Int) /\ Len(ga) = Len(g) + Len(a)
      /\ \A p \in 1..Len(g) : ga[p] = g[p]
      /\ \A p \in 1..Len(a) : ga[Len(g) + p] = a[p]
  BY Joined
<1> HIDE DEF ga
<1>2. /\ whole \in Seq(Int) /\ Len(whole) = Len(ga) + 1
      /\ \A p \in 1..Len(ga) : whole[p] = ga[p]
      /\ whole[Len(ga) + 1] = 0
  BY <1>1, Terminated
<1> HIDE DEF whole
<1>3. /\ Len(whole) = m + k + 1 /\ whole[m + k + 1] = 0
      /\ \A p \in 1..(m + k) : whole[p] = ga[p]
      /\ \A p \in 1..m : ga[p] = g[p]
      /\ \A p \in 1..k : ga[m + p] = a[p]
  BY <1>1, <1>2, <1>m, <1>k
<1>4. ASSUME NEW p \in 1..(m + k + 1) PROVE r[p] = whole[p]
  <2>1. CASE p <= m
    <3>1. p \in 1..m /\ p \in 1..(m + k)
      BY <2>1
    <3> QED
      BY <1>3, <1>r, <3>1
  <2>2. CASE p > m /\ p <= m + k
    <3> DEFINE q == p - m
    <3>1. q \in 1..k /\ m + q = p /\ p \in 1..(m + k)
      BY <2>2
    <3> HIDE DEF q
    <3> QED
      BY <1>3, <1>r, <3>1
  <2>3. CASE p = m + k + 1
    BY <1>3, <1>r, <2>3
  <2> QED
    BY <2>1, <2>2, <2>3
<1>5. r = whole
  BY <1>2, <1>3, <1>4, <1>r, SeqEqual
<1> QED
  BY <1>5 DEF whole, ga

(* A char becomes the character of its signed value in sixteen bits.       *)
LEMMA WidenedValue ==
  ASSUME NEW b \in Below(256)
  PROVE  Text!Widened(b) = IF b > 127 THEN 65280 + b ELSE b
<1> b \in Nat /\ b > 0 /\ b < 256
  BY DEF Below
<1>1. CASE b > 127
  <2>1. (b - 256) % 65536 = 65280 + b
    BY <1>1
  <2> QED
    BY <1>1, <2>1 DEF Text!Widened, Text!Signed
<1>2. CASE b <= 127
  BY <1>2 DEF Text!Widened, Text!Signed
<1> QED
  BY <1>1, <1>2

LEMMA AppendedType ==
  ASSUME str2 \in Seq(Below(256))
  PROVE  /\ Text!Appended \in Seq(Nat \ {0}) /\ Len(Text!Appended) = Len(str2)
         /\ \A p \in 1..Len(str2) : Text!Appended[p] = Text!Widened(str2[p])
<1>1. \A p \in 1..Len(str2) : str2[p] \in Below(256)
  BY ElementOfSeq
<1>2. Len(str2) \in Nat
  BY LenProperties
<1>3. \A p \in 1..Len(str2) : Text!Appended[p] = Text!Widened(str2[p])
  BY <1>1, WidenedValue DEF Text!Appended
<1>4. Text!Appended \in [1..Len(str2) -> Nat \ {0}]
  BY <1>1 DEF Text!Appended, Below
<1> QED
  BY <1>2, <1>3, <1>4

LEMMA SmallModulo == ASSUME NEW c \in Nat, c < 65536 PROVE c % 65536 = c
OBVIOUS

(* What uCase makes of a character is one of sixteen bits, and no letter.  *)
LEMMA CaseAdded ==
  ASSUME NEW c \in Nat, c > 0, c < 65536
  PROVE  /\ Text!AddCase(c) % 65536 \in Nat
         /\ ~Text!IsLower(Text!AddCase(c) % 65536)
         /\ ~Text!IsLower(c) => Text!AddCase(c) % 65536 = c
<1>1. CASE Text!IsLower(c)
  <2>1. c + 32 \in Nat /\ c + 32 < 65536 /\ c + 32 > 122
    BY <1>1 DEF Text!IsLower
  <2>2. Text!AddCase(c) = c + 32
    BY <1>1 DEF Text!AddCase
  <2>3. Text!AddCase(c) % 65536 = c + 32
    BY <2>1, <2>2, SmallModulo
  <2> QED
    BY <1>1, <2>1, <2>3 DEF Text!IsLower
<1>2. CASE ~Text!IsLower(c)
  <2>1. Text!AddCase(c) % 65536 = c
    BY <1>2, SmallModulo DEF Text!AddCase
  <2> QED
    BY <1>2, <2>1
<1> QED
  BY <1>1, <1>2

LEMMA TextInit == CallsInit => TextInv
<1> SUFFICES ASSUME CallsInit PROVE TextInv
  OBVIOUS
<1>1. CASE TextIdle
  BY <1>1 DEF TextIdle, TextInv
<1>2. CASE Text!Init
  <2>1. CASE textpc = "uCase"
    <3>1. textpos = 0 /\ result = <<>> /\ MyString = given
          /\ given \in WideStrings \cup {<<-1>>}
      BY <1>2, <2>1 DEF Text!Init, Text!NULL
    <3>2. ASSUME MyString # <<-1>>
          PROVE  given \in Seq(Below(65536)) /\ given \in Seq(Nat) /\ Len(given) \in Nat
      <4>1. given \in Seq(Below(65536))
        BY <3>1, <3>2, ArgumentsAssumption
      <4> QED
        BY <4>1, SeqMonotonic, LenProperties DEF Below
    <3> QED
      BY <2>1, <3>1, <3>2 DEF TextInv, uCaseInv
  <2>2. CASE textpc = "malloc"
    BY <1>2, <2>2, ArgumentsAssumption DEF Text!Init, TextInv, CatInv
  <2> QED
    BY <1>2, <2>1, <2>2 DEF Text!Init
<1>3. TextIdle \/ Text!Init
  BY ZenonT(30) DEF CallsInit
<1> QED
  BY <1>1, <1>2, <1>3

(* A round of uCase writes one character of the string.                    *)
LEMMA uCaseWrites ==
  ASSUME uCaseInv, Text!uCase
  PROVE  /\ textpos + 1 \in 1..Len(given) /\ Len(given) \in Nat
         /\ MyString' \in Seq(Nat) /\ Len(MyString') = Len(given)
         /\ \A p \in 1..Len(given) :
              MyString'[p] = IF p = textpos + 1
                             THEN Text!AddCase(given[textpos + 1]) % 65536
                             ELSE MyString[p]
<1>1. /\ MyString # <<-1>> /\ textpos < Len(MyString)
      /\ MyString' = [MyString EXCEPT ![textpos + 1] = Text!AddCase(@) % 65536]
  BY DEF Text!uCase, Text!NULL
<1>2. /\ given \in Seq(Below(65536)) /\ MyString \in Seq(Nat)
      /\ Len(MyString) = Len(given) /\ textpos \in 0..Len(given)
      /\ Len(given) \in Nat
  BY <1>1, LenProperties DEF uCaseInv
<1>3. textpos + 1 \in 1..Len(given)
  BY <1>1, <1>2
<1>4. given[textpos + 1] \in Below(65536) /\ MyString[textpos + 1] = given[textpos + 1]
  BY <1>1, <1>2, <1>3, ElementOfSeq DEF uCaseInv
<1> DEFINE d == Text!AddCase(given[textpos + 1]) % 65536
<1>5. d \in Nat
  <2>1. given[textpos + 1] \in Nat /\ given[textpos + 1] > 0 /\ given[textpos + 1] < 65536
    BY <1>4 DEF Below
  <2> QED
    BY <2>1, CaseAdded
<1>6. MyString' = [MyString EXCEPT ![textpos + 1] = d]
  BY <1>1, <1>4
<1> HIDE DEF d
<1>7. /\ MyString' \in Seq(Nat) /\ Len(MyString') = Len(given)
      /\ \A p \in 1..Len(given) :
           MyString'[p] = IF p = textpos + 1 THEN d ELSE MyString[p]
  BY <1>2, <1>3, <1>5, <1>6, ExceptSeq
<1> QED
  BY <1>2, <1>3, <1>7 DEF d

LEMMA uCaseStep == ASSUME uCaseInv, Text!Next PROVE uCaseInv'
<1>1. CASE Text!uCase
  <2>1. /\ textpc = "uCase" /\ MyString # <<-1>>
        /\ textpos' = textpos + 1 /\ UNCHANGED <<textpc, given, str2, result>>
    BY <1>1 DEF Text!uCase, Text!NULL
  <2>2. /\ given \in Seq(Below(65536)) /\ textpos \in 0..Len(given)
    BY <2>1 DEF uCaseInv
  <2>3. /\ textpos + 1 \in 1..Len(given) /\ Len(given) \in Nat
        /\ MyString' \in Seq(Nat) /\ Len(MyString') = Len(given)
        /\ \A p \in 1..Len(given) :
             MyString'[p] = IF p = textpos + 1
                            THEN Text!AddCase(given[textpos + 1]) % 65536
                            ELSE MyString[p]
    BY <1>1, uCaseWrites
  <2>4. ASSUME NEW p \in 1..(textpos + 1)
        PROVE  MyString'[p] = Text!AddCase(given[p]) % 65536
    <3>1. \A q \in 1..textpos : MyString[q] = Text!AddCase(given[q]) % 65536
      BY <2>1 DEF uCaseInv
    <3>2. CASE p = textpos + 1
      BY <2>3, <3>2
    <3>3. CASE p # textpos + 1
      <4>1. p \in 1..textpos /\ p \in 1..Len(given)
        BY <2>2, <2>3, <3>3
      <4> QED
        BY <2>3, <3>1, <3>3, <4>1
    <3> QED
      BY <3>2, <3>3
  <2>5. ASSUME NEW p \in (textpos + 2)..Len(given)
        PROVE  MyString'[p] = given[p]
    BY <2>1, <2>2, <2>3 DEF uCaseInv
  <2> QED
    BY <2>1, <2>2, <2>3, <2>4, <2>5 DEF uCaseInv
<1>2. CASE Text!uCaseReturn
  BY <1>2 DEF Text!uCaseReturn, Text!NULL, uCaseInv
<1>3. CASE Text!Returned
  BY <1>3 DEF Text!Returned, Text!vars, uCaseInv
<1> QED
  BY <1>1, <1>2, <1>3 DEF Text!Next, uCaseInv, Text!mallocFails, Text!malloc,
     Text!copy1, Text!copy1Ends, Text!copy2, Text!terminate

(* Writing one element of a block.                                         *)
LEMMA OnePut ==
  ASSUME NEW r \in Seq(Int), NEW n \in Nat, NEW m \in Nat, Len(r) = m, n + 1 <= m,
         NEW c \in Int
  PROVE  /\ [r EXCEPT ![n + 1] = c] \in Seq(Int) /\ Len([r EXCEPT ![n + 1] = c]) = m
         /\ [r EXCEPT ![n + 1] = c][n + 1] = c
         /\ \A p \in 1..m : p # n + 1 => [r EXCEPT ![n + 1] = c][p] = r[p]
<1>1. n + 1 \in 1..Len(r)
  OBVIOUS
<1> QED
  BY <1>1, ExceptSeq

LEMMA CatTypes ==
  ASSUME CatInv
  PROVE  /\ given \in Seq(Int) /\ Len(given) \in Nat /\ Len(str2) \in Nat
         /\ \A p \in 1..Len(given) : given[p] \in Nat /\ given[p] # 0
         /\ Text!Appended \in Seq(Int) /\ Len(Text!Appended) = Len(str2)
         /\ \A p \in 1..Len(str2) :
              /\ Text!Appended[p] = Text!Widened(str2[p])
              /\ Text!Appended[p] \in Nat /\ Text!Appended[p] # 0
<1>1. given \in Seq(Below(65536)) /\ str2 \in Seq(Below(256))
  BY DEF CatInv
<1>2. Len(given) \in Nat /\ Len(str2) \in Nat
  BY <1>1, LenProperties
<1>3. \A p \in 1..Len(given) : given[p] \in Nat /\ given[p] # 0
  <2>1. \A p \in 1..Len(given) : given[p] \in Below(65536)
    BY <1>1, ElementOfSeq
  <2> QED
    BY <2>1 DEF Below
<1>4. given \in Seq(Int)
  <2>1. Below(65536) \subseteq Int
    BY DEF Below
  <2> QED
    BY <1>1, <2>1, SeqMonotonic
<1>5. /\ Text!Appended \in Seq(Nat \ {0}) /\ Len(Text!Appended) = Len(str2)
      /\ \A p \in 1..Len(str2) : Text!Appended[p] = Text!Widened(str2[p])
  BY <1>1, AppendedType
<1>6. \A p \in 1..Len(str2) : Text!Appended[p] \in Nat /\ Text!Appended[p] # 0
  <2>1. \A p \in 1..Len(Text!Appended) : Text!Appended[p] \in Nat \ {0}
    BY <1>5, ElementOfSeq
  <2> QED
    BY <1>5, <2>1
<1>7. Text!Appended \in Seq(Int)
  <2>1. Nat \ {0} \subseteq Int
    OBVIOUS
  <2> QED
    BY <1>5, <2>1, SeqMonotonic
<1> QED
  BY <1>2, <1>3, <1>4, <1>5, <1>6, <1>7

LEMMA CatStep == ASSUME CatInv, Text!Next PROVE CatInv'
<1>1. PICK m \in Nat : Len(given) = m
  BY CatTypes
<1>2. PICK k \in Nat : Len(str2) = k
  BY CatTypes
<1>3. CASE Text!mallocFails
  <2>1. <<-1>> # <<>>
    OBVIOUS
  <2> QED
    BY <1>3, <2>1 DEF Text!mallocFails, Text!NULL, CatInv, Finished
<1>4. CASE Text!malloc
  <2>1. /\ textpc = "malloc" /\ textpc' = "copy1" /\ textpos = 0
        /\ result' = [n \in 1..(m + k + 1) |-> -1]
        /\ UNCHANGED <<textpos, given, MyString, str2>>
    BY <1>1, <1>2, <1>4 DEF Text!malloc, Text!Block, Text!Garbage, CatInv
  <2>2. result' \in Seq(Int) /\ Len(result') = m + k + 1
    <3>1. m + k + 1 \in Nat
      OBVIOUS
    <3>2. result' \in [1..(m + k + 1) -> Int]
      BY <2>1
    <3> QED
      BY <2>1, <3>1, <3>2
  <2>3. Sized' /\ FirstTo'
    BY <1>1, <1>2, <2>1, <2>2 DEF Sized, FirstTo
  <2> QED
    BY <2>1, <2>3 DEF CatInv
<1>5. CASE Text!copy1
  <2>1. /\ textpc = "copy1" /\ textpos \in 0..m /\ textpos < m
        /\ result \in Seq(Int) /\ Len(result) = m + k + 1
        /\ \A p \in 1..textpos : result[p] = given[p]
    <3>1. textpc = "copy1" /\ textpos < m /\ Sized /\ FirstTo
      BY <1>1, <1>5 DEF Text!copy1, CatInv
    <3> QED
      BY <1>1, <1>2, <3>1 DEF Sized, FirstTo
  <2>2. /\ result' = [result EXCEPT ![textpos + 1] = given[textpos + 1]]
        /\ textpos' = textpos + 1 /\ UNCHANGED <<textpc, given, MyString, str2>>
    BY <1>5 DEF Text!copy1, Text!Put
  <2>3. given[textpos + 1] \in Int
    BY <1>1, <2>1, CatTypes
  <2>4. /\ result' \in Seq(Int) /\ Len(result') = m + k + 1
        /\ result'[textpos + 1] = given[textpos + 1]
        /\ \A p \in 1..(m + k + 1) : p # textpos + 1 => result'[p] = result[p]
    <3>1. textpos \in Nat /\ m + k + 1 \in Nat /\ textpos + 1 <= m + k + 1
      BY <2>1
    <3> QED
      BY <2>1, <2>2, <2>3, <3>1, OnePut
  <2>5. ASSUME NEW p \in 1..(textpos + 1) PROVE result'[p] = given[p]
    <3>1. p \in 1..(m + k + 1) /\ (p # textpos + 1 => p \in 1..textpos)
      BY <2>1
    <3> QED
      BY <2>1, <2>4, <3>1
  <2>6. FirstTo'
    <3>1. textpos + 1 \in 0..m
      BY <2>1
    <3> QED
      BY <1>1, <2>2, <2>5, <3>1 DEF FirstTo
  <2>7. Sized'
    BY <1>1, <1>2, <2>2, <2>4 DEF Sized
  <2> QED
    BY <2>1, <2>2, <2>6, <2>7 DEF CatInv
<1>6. CASE Text!copy1Ends
  <2>1. /\ textpc = "copy1" /\ textpc' = "copy2" /\ textpos = m /\ textpos' = 0
        /\ UNCHANGED <<given, MyString, str2, result>>
    BY <1>1, <1>6 DEF Text!copy1Ends
  <2>2. Sized /\ FirstTo
    BY <2>1 DEF CatInv
  <2>3. Sized'
    BY <2>1, <2>2 DEF Sized
  <2>4. SecondTo'
    BY <1>1, <1>2, <2>1, <2>2 DEF FirstTo, SecondTo
  <2> QED
    BY <2>1, <2>3, <2>4 DEF CatInv
<1>7. CASE Text!copy2
  <2>1. /\ textpc = "copy2" /\ textpos \in 0..k /\ textpos < k
        /\ result \in Seq(Int) /\ Len(result) = m + k + 1
        /\ \A p \in 1..m : result[p] = given[p]
        /\ \A p \in 1..textpos : result[m + p] = Text!Appended[p]
    <3>1. textpc = "copy2" /\ textpos < k /\ Sized /\ SecondTo
      BY <1>2, <1>7 DEF Text!copy2, CatInv
    <3> QED
      BY <1>1, <1>2, <3>1 DEF Sized, SecondTo
  <2>2. textpos + 1 \in 1..k /\ textpos \in Nat
    BY <2>1
  <2>3. /\ Text!Appended[textpos + 1] \in Int
        /\ Text!Appended[textpos + 1] = Text!Widened(str2[textpos + 1])
    BY <1>2, <2>2, CatTypes
  <2> DEFINE c == Text!Appended[textpos + 1]
  <2>4. /\ result' = [result EXCEPT ![m + textpos + 1] = c]
        /\ textpos' = textpos + 1 /\ UNCHANGED <<textpc, given, MyString, str2>>
    BY <1>1, <1>7, <2>3 DEF Text!copy2, Text!Put
  <2>5. UNCHANGED Text!Appended
    BY <2>4 DEF Text!Appended
  <2> HIDE DEF c
  <2>6. /\ result' \in Seq(Int) /\ Len(result') = m + k + 1
        /\ result'[m + textpos + 1] = c
        /\ \A p \in 1..(m + k + 1) : p # m + textpos + 1 => result'[p] = result[p]
    <3>1. m + textpos \in Nat /\ m + k + 1 \in Nat /\ m + textpos + 1 <= m + k + 1
      BY <2>2
    <3>2. c \in Int
      BY <2>3 DEF c
    <3> QED
      BY <2>1, <2>4, <3>1, <3>2, OnePut
  <2>7. ASSUME NEW p \in 1..m PROVE result'[p] = given[p]
    <3>1. p \in 1..(m + k + 1) /\ p # m + textpos + 1
      BY <2>2
    <3>2. result'[p] = result[p]
      BY <2>6, <3>1
    <3> QED
      BY <2>1, <3>2
  <2>8. ASSUME NEW p \in 1..(textpos + 1) PROVE result'[m + p] = Text!Appended[p]
    <3>1. CASE p = textpos + 1
      <4>1. m + p = m + textpos + 1
        BY <2>2, <3>1
      <4> QED
        BY <2>6, <3>1, <4>1 DEF c
    <3>2. CASE p # textpos + 1
      <4>1. p \in 1..textpos /\ m + p \in 1..(m + k + 1) /\ m + p # m + textpos + 1
        BY <2>2, <3>2
      <4> QED
        BY <2>1, <2>6, <4>1
    <3> QED
      BY <3>1, <3>2
  <2>9. SecondTo'
    <3>1. textpos + 1 \in 0..k
      BY <2>2
    <3> QED
      BY <1>1, <1>2, <2>4, <2>5, <2>7, <2>8, <3>1 DEF SecondTo
  <2>10. Sized'
    BY <1>1, <1>2, <2>4, <2>6 DEF Sized
  <2> QED
    BY <2>1, <2>4, <2>9, <2>10 DEF CatInv
<1>8. CASE Text!terminate
  <2>1. /\ textpc = "copy2" /\ textpos = k
        /\ result \in Seq(Int) /\ Len(result) = m + k + 1
        /\ \A p \in 1..m : result[p] = given[p]
        /\ \A p \in 1..k : result[m + p] = Text!Appended[p]
    <3>1. textpc = "copy2" /\ textpos = k /\ Sized /\ SecondTo
      BY <1>2, <1>8 DEF Text!terminate, CatInv
    <3> QED
      BY <1>1, <1>2, <3>1 DEF Sized, SecondTo
  <2>2. /\ result' = [result EXCEPT ![m + k + 1] = 0] /\ textpc' = "returned"
        /\ UNCHANGED <<textpos, given, MyString, str2>>
    BY <1>1, <1>2, <1>8 DEF Text!terminate, Text!Put
  <2>3. /\ result' \in Seq(Int) /\ Len(result') = m + k + 1
        /\ result'[m + k + 1] = 0
        /\ \A p \in 1..(m + k + 1) : p # m + k + 1 => result'[p] = result[p]
    <3>1. m + k \in Nat /\ m + k + 1 \in Nat /\ m + k + 1 <= m + k + 1 /\ 0 \in Int
      OBVIOUS
    <3> QED
      BY <2>1, <2>2, <3>1, OnePut
  <2>4. \A p \in 1..m : result'[p] = given[p]
    BY <2>1, <2>3
  <2>5. ASSUME NEW p \in 1..k PROVE result'[m + p] = Text!Appended[p]
    <3>1. m + p \in 1..(m + k + 1) /\ m + p # m + k + 1
      OBVIOUS
    <3> QED
      BY <2>1, <2>3, <3>1
  <2>6. /\ given \in Seq(Int) /\ Text!Appended \in Seq(Int)
        /\ Len(Text!Appended) = k
    BY <1>2, CatTypes
  <2>7. result' = given \o Text!Appended \o <<0>>
    <3> DEFINE a == Text!Appended
    <3>1. a \in Seq(Int) /\ Len(a) = k /\ \A p \in 1..k : result'[m + p] = a[p]
      BY <2>5, <2>6
    <3> HIDE DEF a
    <3>2. /\ Len(result') = Len(given) + Len(a) + 1
          /\ \A p \in 1..Len(given) : result'[p] = given[p]
          /\ \A p \in 1..Len(a) : result'[Len(given) + p] = a[p]
          /\ result'[Len(given) + Len(a) + 1] = 0
      BY <1>1, <2>3, <2>4, <3>1
    <3>3. result' = given \o a \o <<0>>
      BY <2>3, <2>6, <3>1, <3>2, Assembled
    <3> QED
      BY <3>3 DEF a
  <2>8. result' # <<>>
    BY <2>3, EmptySeq
  <2>9. UNCHANGED Text!Appended
    BY <2>2 DEF Text!Appended
  <2>10. Finished'
    BY <2>2, <2>7, <2>8, <2>9 DEF Finished
  <2> QED
    BY <2>2, <2>10 DEF CatInv
<1>9. CASE Text!Returned
  <2>1. UNCHANGED <<textpc, textpos, given, MyString, str2, result>>
    BY <1>9 DEF Text!Returned, Text!vars
  <2>2. UNCHANGED Text!Appended
    BY <2>1 DEF Text!Appended
  <2>3. Finished'
    BY <1>9, <2>1, <2>2 DEF Text!Returned, CatInv, Finished
  <2> QED
    BY <1>9, <2>1, <2>3 DEF Text!Returned, CatInv
<1> QED
  BY <1>3, <1>4, <1>5, <1>6, <1>7, <1>8, <1>9 DEF Text!Next, CatInv, Text!uCase,
     Text!uCaseReturn

LEMMA TextRuns == Text!Next => textpc # "idle"
BY DEF Text!Next, Text!uCase, Text!uCaseReturn, Text!mallocFails, Text!malloc,
   Text!copy1, Text!copy1Ends, Text!copy2, Text!terminate, Text!Returned

LEMMA TextNext == TextInv /\ [CallsNext]_allVars => TextInv'
<1> SUFFICES ASSUME TextInv, [CallsNext]_allVars PROVE TextInv'
  OBVIOUS
<1>1. CASE UNCHANGED textVars
  <2>1. UNCHANGED <<textpc, textpos, given, MyString, str2, result>>
    BY <1>1 DEF textVars
  <2>2. UNCHANGED Text!Appended
    BY <2>1 DEF Text!Appended
  <2>3. CatInv => CatInv'
    BY <2>1, <2>2 DEF CatInv, Sized, FirstTo, SecondTo, Finished
  <2>4. uCaseInv => uCaseInv'
    BY <2>1 DEF uCaseInv
  <2> QED
    BY <2>1, <2>3, <2>4 DEF TextInv
<1>2. CASE Text!Next
  BY <1>2, TextRuns, uCaseStep, CatStep DEF TextInv
<1>3. UNCHANGED textVars \/ Text!Next
  <2>1. UNCHANGED allVars => UNCHANGED textVars
    BY DEF allVars
  <2> QED
    BY <2>1 DEF CallsNext
<1> QED
  BY <1>1, <1>2, <1>3

LEMMA TextInvariant == CallsSpec => []TextInv
BY TextInit, TextNext, PTL DEF CallsSpec

(* cat's block is the two strings, the second widened, and a NUL that is   *)
(* the first one in it, for strings of every length.                       *)
THEOREM CatConcatenates == CallsSpec => []Concatenated
<1>1. TextInv => Concatenated
  <2> SUFFICES ASSUME TextInv, Text!CatReturned, result # <<-1>>
               PROVE  /\ result = given \o Text!Appended \o <<0>>
                      /\ \A n \in 1..(Len(result) - 1) : result[n] # 0
    BY DEF Concatenated, Text!Concatenated, Text!NULL
  <2>1. CatInv /\ Finished
    BY DEF TextInv, uCaseInv, CatInv, Text!CatReturned
  <2>2. result = given \o Text!Appended \o <<0>>
    BY <2>1 DEF Finished
  <2> DEFINE a == Text!Appended
             ga == given \o a
             whole == ga \o <<0>>
  <2>3. /\ given \in Seq(Int) /\ a \in Seq(Int)
        /\ \A p \in 1..Len(given) : given[p] # 0
        /\ \A p \in 1..Len(a) : a[p] # 0
    BY <2>1, CatTypes
  <2>4. result = whole
    BY <2>2
  <2> HIDE DEF a
  <2>5. /\ ga \in Seq(Int) /\ Len(ga) = Len(given) + Len(a)
        /\ \A p \in 1..Len(given) : ga[p] = given[p]
        /\ \A p \in 1..Len(a) : ga[Len(given) + p] = a[p]
    BY <2>3, Joined
  <2> HIDE DEF ga
  <2>6. /\ Len(whole) = Len(ga) + 1
        /\ \A p \in 1..Len(ga) : whole[p] = ga[p]
    BY <2>5, Terminated
  <2> HIDE DEF whole
  <2>7. PICK m \in Nat : Len(given) = m
    BY <2>3, LenProperties
  <2>8. PICK k \in Nat : Len(a) = k
    BY <2>3, LenProperties
  <2>9. ASSUME NEW n \in 1..(m + k) PROVE result[n] # 0
    <3>1. result[n] = ga[n]
      BY <2>4, <2>5, <2>6, <2>7, <2>8
    <3>2. CASE n <= m
      <4>1. n \in 1..m
        BY <3>2
      <4> QED
        BY <2>3, <2>5, <2>7, <3>1, <4>1
    <3>3. CASE n > m
      <4> DEFINE q == n - m
      <4>1. q \in 1..k /\ m + q = n
        BY <3>3
      <4> HIDE DEF q
      <4>2. ga[n] = a[q]
        BY <2>5, <2>7, <2>8, <4>1
      <4> QED
        BY <2>3, <2>8, <3>1, <4>1, <4>2
    <3> QED
      BY <3>2, <3>3
  <2>10. Len(result) - 1 = m + k
    BY <2>4, <2>5, <2>6, <2>7, <2>8
  <2> QED
    BY <2>2, <2>9, <2>10
<1> QED
  BY <1>1, TextInvariant, PTL

(* After uCase no lower-case letter is left and every other character is   *)
(* the one that was passed, for strings of every length.                   *)
THEOREM UpperChangesOnlyLower == CallsSpec => []LowerGone
<1>1. TextInv => LowerGone
  <2> SUFFICES ASSUME TextInv, textpc = "returned", MyString # <<-1>>,
                      ~Text!CatReturned, NEW n \in 1..Len(MyString)
               PROVE  /\ ~Text!IsLower(MyString[n])
                      /\ ~Text!IsLower(given[n]) => MyString[n] = given[n]
    BY DEF LowerGone, Text!LowerGone, Text!NULL
  <2>1. uCaseInv
    BY DEF TextInv, CatInv, Finished, Text!CatReturned
  <2>2. /\ n \in 1..Len(given) /\ given \in Seq(Below(65536))
        /\ MyString[n] = Text!AddCase(given[n]) % 65536
    BY <2>1 DEF uCaseInv
  <2>3. given[n] \in Nat /\ given[n] > 0 /\ given[n] < 65536
    <3>1. given[n] \in Below(65536)
      BY <2>2, ElementOfSeq
    <3> QED
      BY <3>1 DEF Below
  <2> QED
    BY <2>2, <2>3, CaseAdded
<1> QED
  BY <1>1, TextInvariant, PTL

-----------------------------------------------------------------------------
(* test.c's Charset: the condition i&&1 lets only the first round store a  *)
(* character and a pointer, and every later round a terminator.            *)
SetInv ==
  /\ setpc \in {"loop", "returned"} /\ setpos \in 0..256
  /\ SET \in [0..255 -> Int] /\ pCHRS \in [0..127 -> Int]
  /\ \A n \in 1..255 : SET[n] = 0
  /\ \A n \in 1..127 : pCHRS[n] = -1
  /\ setpos > 0 => pCHRS[0] = 0 /\ SET[0] = 48
  /\ setpc = "returned" => setpos > 0

LEMMA SetInit == Set!Init => SetInv
BY DEF Set!Init, Set!NULL, SetInv

LEMMA SetStep == ASSUME SetInv, Set!Next PROVE SetInv'
<1>1. CASE Set!Store /\ Set!NextUint16
  <2>1. /\ setpc = "loop" /\ setpos < 256 /\ setpos \in 0..255 /\ setpc' = setpc
        /\ setpos' = setpos + 1
    <3>1. setpc = "loop" /\ setpos < 256 /\ setpc' = setpc
          /\ setpos' = (setpos + 1) % 65536
      BY <1>1 DEF Set!Store, Set!NextUint16
    <3>2. setpos \in Nat /\ setpos + 1 \in Nat /\ setpos + 1 < 65536
      BY <3>1 DEF SetInv
    <3>3. (setpos + 1) % 65536 = setpos + 1
      BY <3>2, SmallModulo
    <3> QED
      BY <3>1, <3>2, <3>3
  <2>2. CASE setpos = 0
    <3>1. /\ SET' = [SET EXCEPT ![0] = 48]
          /\ pCHRS' = [pCHRS EXCEPT ![0] = 0]
      BY <1>1, <2>2 DEF Set!Store, Set!IsCharSlot
    <3> QED
      BY <2>1, <2>2, <3>1 DEF SetInv
  <2>3. CASE setpos # 0
    <3>1. SET' = [SET EXCEPT ![setpos] = 0] /\ pCHRS' = pCHRS
      BY <1>1, <2>3 DEF Set!Store, Set!IsCharSlot
    <3>2. setpos > 0 /\ setpos + 1 > 0 /\ setpos + 1 \in 0..256
      BY <2>1, <2>3
    <3> QED
      BY <2>1, <2>3, <3>1, <3>2 DEF SetInv
  <2> QED
    BY <2>2, <2>3
<1>2. CASE Set!Return
  BY <1>2 DEF Set!Return, SetInv
<1>3. CASE Set!Returned
  BY <1>3 DEF Set!Returned, Set!vars, SetInv
<1> QED
  BY <1>1, <1>2, <1>3 DEF Set!Next

LEMMA SetInvariant == CallsSpec => []SetInv
<1>1. CallsInit => SetInv
  BY SetInit DEF CallsInit
<1>2. SetInv /\ [CallsNext]_allVars => SetInv'
  <2>1. ASSUME SetInv, UNCHANGED setVars PROVE SetInv'
    BY <2>1 DEF setVars, SetInv
  <2>2. [CallsNext]_allVars => Set!Next \/ UNCHANGED setVars
    <3>1. UNCHANGED allVars => UNCHANGED setVars
      BY DEF allVars
    <3> QED
      BY <3>1 DEF CallsNext
  <2> QED
    BY <2>1, <2>2, SetStep
<1> QED
  BY <1>1, <1>2, PTL DEF CallsSpec

(* What test.c's Charset leaves when it returns is one string, that of the *)
(* character 0: no other pointer is set and no other character is there,   *)
(* against the comment on it.                                              *)
SetLeaves ==
  callee = "test.c Charset" /\ setpc = "returned" =>
    /\ pCHRS = [n \in 0..127 |-> IF n = 0 THEN 0 ELSE Set!NULL]
    /\ SET = [n \in 0..255 |-> IF n = 0 THEN 48 ELSE 0]

THEOREM TestCharsetLeaves == CallsSpec => []SetLeaves
<1>1. SetInv => SetLeaves
  <2> SUFFICES ASSUME SetInv, setpc = "returned"
               PROVE  /\ pCHRS = [n \in 0..127 |-> IF n = 0 THEN 0 ELSE Set!NULL]
                      /\ SET = [n \in 0..255 |-> IF n = 0 THEN 48 ELSE 0]
    BY DEF SetLeaves
  <2>1. \A n \in 0..127 : pCHRS[n] = IF n = 0 THEN 0 ELSE Set!NULL
    BY DEF SetInv, Set!NULL
  <2>2. \A n \in 0..255 : SET[n] = IF n = 0 THEN 48 ELSE 0
    BY DEF SetInv
  <2> QED
    BY <2>1, <2>2 DEF SetInv
<1> QED
  BY <1>1, SetInvariant, PTL

-----------------------------------------------------------------------------
(* t.c: len steps over the second unit of each character, and stops at the *)
(* terminator; print then gives out the units before it, one a round.  i   *)
(* is 16 bits wide: a longer string is printed for ever.                   *)
ScrInv ==
  /\ text \in Seq(Below(128))
  /\ \E m \in 0..Len(text) : len = 2 * m
  /\ printed \in Seq(Nat) /\ scrpos \in Nat /\ scrpos < 65536
  /\ scrpc \in {"generate", "length"} => printed = <<>>
  /\ scrpc = "length" => scrpos = 0
  /\ scrpc \in {"generate", "length", "print", "returned"}
  /\ scrpc \in {"print", "returned"} =>
       /\ len = 2 * Len(text)
       /\ len <= 65535 =>
            /\ scrpos <= len /\ Len(printed) = scrpos
            /\ \A n \in 1..scrpos : printed[n] = Scr!Unit(n - 1)
  /\ scrpc = "returned" => scrpos >= len

LEMMA Units ==
  ASSUME text \in Seq(Below(128)), NEW m \in 0..Len(text)
  PROVE  /\ Scr!Unit(2 * m) = 0 <=> m = Len(text)
         /\ m < Len(text) => Scr!Unit(2 * m) = text[m + 1]
         /\ Scr!Unit(2 * m + 1) = 0
<1>1. (2 * m) % 2 = 0 /\ (2 * m) \div 2 = m /\ (2 * m + 1) % 2 = 1
  OBVIOUS
<1>2. ASSUME m < Len(text) PROVE text[m + 1] # 0
  <2>1. m + 1 \in 1..Len(text)
    BY <1>2
  <2>2. text[m + 1] \in Below(128)
    BY <2>1, ElementOfSeq
  <2> QED
    BY <2>2 DEF Below
<1>3. Scr!Unit(2 * m) = IF m < Len(text) THEN text[m + 1] ELSE 0
  BY <1>1 DEF Scr!Unit
<1>4. Scr!Unit(2 * m + 1) = 0
  BY <1>1 DEF Scr!Unit
<1>5. m < Len(text) \/ m = Len(text)
  OBVIOUS
<1> QED
  BY <1>2, <1>3, <1>4, <1>5

LEMMA UnitType ==
  ASSUME text \in Seq(Below(128)), NEW n \in Nat
  PROVE  Scr!Unit(n) \in Nat
<1>1. CASE n % 2 = 0 /\ n \div 2 < Len(text)
  <2>1. n \div 2 + 1 \in 1..Len(text)
    BY <1>1
  <2>2. text[n \div 2 + 1] \in Below(128)
    BY <2>1, ElementOfSeq
  <2> QED
    BY <1>1, <2>2 DEF Scr!Unit, Below
<1>2. CASE ~(n % 2 = 0 /\ n \div 2 < Len(text))
  BY <1>2 DEF Scr!Unit
<1> QED
  BY <1>1, <1>2

LEMMA ScrInit == Scr!Init => ScrInv
<1> SUFFICES ASSUME Scr!Init PROVE ScrInv
  OBVIOUS
<1>1. text \in Seq(Below(128)) /\ len = 0 /\ printed = <<>> /\ scrpos = 0
      /\ scrpc = "generate"
  BY ArgumentsAssumption DEF Scr!Init
<1>2. 0 \in 0..Len(text) /\ len = 2 * 0
  BY <1>1
<1>3. printed \in Seq(Nat)
  BY <1>1
<1> QED
  BY <1>1, <1>2, <1>3 DEF ScrInv

LEMMA ScrStep == ASSUME ScrInv, Scr!Next PROVE ScrInv'
<1> USE DEF ScrInv
<1>1. CASE Scr!GENERATE_CHARSET
  <2>1. scrpc = "generate" /\ UNCHANGED <<text, len, printed>>
    BY <1>1 DEF Scr!GENERATE_CHARSET
  <2>2. \/ scrpc' = "generate" /\ scrpos' = scrpos + 1 /\ scrpos < 128
        \/ scrpc' = "length" /\ scrpos' = 0
    BY <1>1, <2>1 DEF Scr!GENERATE_CHARSET
  <2>3. scrpos' \in Nat /\ scrpos' < 65536
    BY <2>2
  <2> QED
    BY <2>1, <2>2, <2>3
<1>2. CASE Scr!length
  <2>1. /\ scrpc = "length" /\ scrpc' = "length" /\ Scr!Unit(len) # 0
        /\ len' = len + 2 /\ UNCHANGED <<scrpos, text, printed>>
    BY <1>2 DEF Scr!length, Scr!StepOf
  <2>2. PICK m \in 0..Len(text) : len = 2 * m
    OBVIOUS
  <2>3. m # Len(text)
    BY <2>1, <2>2, Units
  <2>4. m + 1 \in 0..Len(text) /\ len' = 2 * (m + 1)
    BY <2>1, <2>2, <2>3
  <2> QED
    BY <2>1, <2>4
<1>3. CASE Scr!lengthEnds
  <2>1. /\ scrpc = "length" /\ scrpc' = "print" /\ Scr!Unit(len) = 0
        /\ UNCHANGED <<scrpos, text, len, printed>>
    BY <1>3 DEF Scr!lengthEnds
  <2>2. PICK m \in 0..Len(text) : len = 2 * m
    OBVIOUS
  <2>3. m = Len(text)
    BY <2>1, <2>2, Units
  <2>4. Len(printed) = 0 /\ scrpos = 0 /\ 1..0 = {}
    BY <2>1
  <2> QED
    BY <2>1, <2>2, <2>3, <2>4
<1>4. CASE Scr!print
  <2>1. /\ scrpc = "print" /\ scrpc' = "print" /\ scrpos < len
        /\ printed' = Append(printed, Scr!Unit(scrpos))
        /\ scrpos' = (scrpos + 1) % 65536
        /\ UNCHANGED <<text, len>>
    BY <1>4 DEF Scr!print
  <2>2. \A n : Scr!Unit(n)' = Scr!Unit(n)
    BY <2>1 DEF Scr!Unit
  <2>3. Scr!Unit(scrpos) \in Nat
    <3>1. text \in Seq(Below(128)) /\ scrpos \in Nat
      OBVIOUS
    <3> HIDE DEF ScrInv
    <3> QED
      BY <3>1, UnitType
  <2>4. /\ printed' \in Seq(Nat) /\ Len(printed') = Len(printed) + 1
        /\ \A n \in 1..Len(printed) : printed'[n] = printed[n]
        /\ printed'[Len(printed) + 1] = Scr!Unit(scrpos)
    BY <2>1, <2>3, AppendProperties
  <2>5. scrpos' \in Nat /\ scrpos' < 65536
    BY <2>1
  <2>6. ASSUME len <= 65535
        PROVE  /\ scrpos' <= len /\ Len(printed') = scrpos'
               /\ \A n \in 1..scrpos' : printed'[n] = Scr!Unit(n - 1)
    <3>1. scrpos' = scrpos + 1 /\ scrpos' <= len /\ len \in Nat
      <4>1. len \in Nat
        OBVIOUS
      <4>2. scrpos + 1 \in Nat /\ scrpos + 1 < 65536 /\ scrpos + 1 <= len
        BY <2>1, <2>6, <4>1
      <4>3. (scrpos + 1) % 65536 = scrpos + 1
        BY <4>2, SmallModulo
      <4> QED
        BY <2>1, <4>1, <4>2, <4>3
    <3>2. Len(printed) = scrpos /\ \A n \in 1..scrpos : printed[n] = Scr!Unit(n - 1)
      BY <2>1, <2>6
    <3>3. ASSUME NEW n \in 1..scrpos' PROVE printed'[n] = Scr!Unit(n - 1)
      <4>1. CASE n \in 1..scrpos
        BY <2>4, <3>2, <4>1
      <4>2. CASE n = scrpos + 1
        BY <2>4, <3>2, <4>2
      <4> QED
        BY <3>1, <4>1, <4>2
    <3> QED
      BY <2>4, <3>1, <3>2, <3>3
  <2> QED
    BY <2>1, <2>2, <2>4, <2>5, <2>6
<1>5. CASE Scr!Return
  <2>1. /\ scrpc = "print" /\ scrpc' = "returned" /\ scrpos >= len
        /\ UNCHANGED <<scrpos, text, len, printed>>
    BY <1>5 DEF Scr!Return
  <2>2. \A n : Scr!Unit(n)' = Scr!Unit(n)
    BY <2>1 DEF Scr!Unit
  <2> QED
    BY <2>1, <2>2
<1>6. CASE Scr!Returned
  <2>1. UNCHANGED <<scrpc, scrpos, text, len, printed>>
    BY <1>6 DEF Scr!Returned, Scr!vars
  <2>2. \A n : Scr!Unit(n)' = Scr!Unit(n)
    BY <2>1 DEF Scr!Unit
  <2> QED
    BY <2>1, <2>2
<1> QED
  BY <1>1, <1>2, <1>3, <1>4, <1>5, <1>6 DEF Scr!Next

LEMMA ScrInvariant == CallsSpec => [](callee = "t.c main" => ScrInv)
<1> DEFINE Inv == callee = "t.c main" => ScrInv
<1>1. CallsInit => Inv
  BY ScrInit DEF CallsInit
<1>2. Inv /\ [CallsNext]_allVars => Inv'
  <2>1. ASSUME ScrInv, UNCHANGED scrVars PROVE ScrInv'
    <3>1. UNCHANGED <<scrpc, scrpos, text, len, printed>>
      BY <2>1 DEF scrVars
    <3>2. \A n : Scr!Unit(n)' = Scr!Unit(n)
      BY <3>1 DEF Scr!Unit
    <3> QED
      BY <2>1, <3>1, <3>2 DEF ScrInv
  <2>2. [CallsNext]_allVars => (Scr!Next \/ UNCHANGED scrVars) /\ UNCHANGED callee
    <3>1. UNCHANGED allVars => UNCHANGED scrVars /\ UNCHANGED callee
      BY DEF allVars
    <3> QED
      BY <3>1 DEF CallsNext
  <2> QED
    BY <2>1, <2>2, ScrStep
<1> QED
  BY <1>1, <1>2, PTL DEF CallsSpec

(* t.c's print stays inside the literal and gives out each character and a *)
(* NUL, for every ASCII text.                                              *)
THEOREM PrintShowsText == CallsSpec => []PrintsText
<1>1. (callee = "t.c main" => ScrInv) => PrintsText
  <2> SUFFICES ASSUME ScrInv PROVE Scr!PrintsText
    BY DEF PrintsText
  <2>1. Scr!InText(len)
    BY DEF ScrInv, Scr!InText
  <2>2. ASSUME scrpc = "returned"
        PROVE  /\ Len(printed) = 2 * Len(text)
               /\ \A n \in 1..Len(text) :
                    printed[2 * n - 1] = text[n] /\ printed[2 * n] = 0
    <3>1. /\ len = 2 * Len(text) /\ scrpos = len /\ Len(printed) = len
          /\ \A n \in 1..len : printed[n] = Scr!Unit(n - 1)
          /\ text \in Seq(Below(128)) /\ Len(text) \in Nat
      BY <2>2 DEF ScrInv
    <3>2. ASSUME NEW n \in 1..Len(text)
          PROVE  printed[2 * n - 1] = text[n] /\ printed[2 * n] = 0
      <4>1. 2 * n - 1 \in 1..len /\ 2 * n \in 1..len /\ n - 1 \in 0..Len(text)
            /\ n - 1 < Len(text)
        BY <3>1
      <4>2. (2 * n - 1) - 1 = 2 * (n - 1) /\ 2 * n - 1 = 2 * (n - 1) + 1
            /\ (n - 1) + 1 = n
        OBVIOUS
      <4>3. Scr!Unit(2 * (n - 1)) = text[n] /\ Scr!Unit(2 * (n - 1) + 1) = 0
        BY <3>1, <4>1, <4>2, Units
      <4>4. /\ printed[2 * n - 1] = Scr!Unit((2 * n - 1) - 1)
            /\ printed[2 * n] = Scr!Unit(2 * n - 1)
        <5> DEFINE m == 2 * n - 1
        <5> DEFINE k == 2 * n
        <5>1. m \in 1..len /\ k \in 1..len /\ k - 1 = m
          BY <4>1
        <5> HIDE DEF m, k
        <5>2. printed[m] = Scr!Unit(m - 1) /\ printed[k] = Scr!Unit(k - 1)
          BY <3>1, <5>1
        <5>3. printed[k] = Scr!Unit(m)
          BY <5>1, <5>2
        <5> QED
          BY <5>2, <5>3 DEF m, k
      <4> QED
        BY <4>2, <4>3, <4>4
    <3> QED
      BY <3>1, <3>2
  <2> QED
    BY <2>1, <2>2, Zenon DEF Scr!PrintsText
<1> QED
  BY <1>1, ScrInvariant, PTL

-----------------------------------------------------------------------------
(* StrToHex: the value it has reached is that of the digits it has passed.  *)
(* What has been found of them is counted by places, not by steps.          *)
Taken    == {p \in Hex!DigitPlaces : p <= Pos}
Readable == Input \in Seq(Below(65536))
Reached  == IF Pos <= Len(Input) THEN Pos ELSE Len(Input)

HexInv ==
  /\ from \in Nat /\ NumChars \in Nat /\ NumDone \in Nat /\ Pos \in Nat /\ retval \in Nat
  /\ hexpc \in {"call", "loop", "returned"}
  /\ hexpc = "call" => Pos = from /\ NumDone = 0 /\ retval = 0
  /\ Hex!Rejected  => hexpc # "loop" /\ retval = 0
  /\ ~Hex!Rejected => /\ Readable /\ from <= Pos
                      /\ NumDone <= NumChars /\ NumDone = Cardinality(Taken)
                      /\ retval = Hex!Spelled[Reached] /\ retval < Hex!Power[NumDone]
  /\ hexpc = "returned" /\ ~Hex!Rejected => NumDone = NumChars \/ Pos > Len(Input)

LEMMA DigitRange ==
  ASSUME NEW c, c \in Hex!HexDigits
  PROVE  c \in Nat \ {0} /\ Hex!HexValue(c) \in 0..15
BY DEF Hex!HexDigits, Hex!HexValue

(* Among natural numbers there is a least one: induction, without a         *)
(* predicate to pass.                                                       *)
LEMMA NatMin ==
  ASSUME NEW T, T \subseteq Nat, T # {}
  PROVE  \E x \in T : \A y \in T : x <= y
<1> DEFINE R == OpToRel(<, Nat)
<1>1. IsWellFoundedOn(R, Nat)
  BY NatLessThanWellFounded, Zenon
<1>2. ASSUME NEW x \in Nat, NEW y \in Nat, x < y PROVE <<x, y>> \in R
  <2>1. <<x, y>> \in {ss \in Nat \X Nat : ss[1] < ss[2]}
    BY <1>2
  <2> QED
    BY <2>1, Zenon DEF OpToRel
<1> HIDE DEF R
<1>3. PICK x \in T : \A y \in T : ~ (<<y, x>> \in R)
  BY <1>1, WFMin
<1>4. ASSUME NEW y \in T PROVE x <= y
  <2>1. x \in Nat /\ y \in Nat
    OBVIOUS
  <2>2. ~(y < x)
    BY <1>2, <1>3, <2>1
  <2> QED
    BY <2>1, <2>2
<1> QED
  BY <1>4

(* A function defined along 0..N by its first value and by a step.          *)
Values(v, N) == v \in [0..N -> Nat]
FunctionOn(v, N) == v = [n \in 0..N |-> v[n]]
StepOn(step, N) == step \in [(1..N) \X Nat -> Nat]
Follows(v, step, N) ==
  Values(v, N) /\ \A n \in 1..N : v[n] = step[<<n, v[n - 1]>>]
ValuesWith(v2, v, N, r) ==
  Values(v2, N + 1) /\ v2[N + 1] = r /\ \A n \in 0..N : v2[n] = v[n]

LEMMA ValueAdded ==
  ASSUME NEW N \in Nat, NEW v, Values(v, N), NEW r \in Nat
  PROVE  \E v2 : ValuesWith(v2, v, N, r)
<1> DEFINE v2 == [n \in 0..(N + 1) |-> IF n = N + 1 THEN r ELSE v[n]]
<1>1. v2 \in [0..(N + 1) -> Nat] /\ v2[N + 1] = r /\ \A n \in 0..N : v2[n] = v[n]
  BY DEF Values
<1> HIDE DEF v2
<1> QED
  BY <1>1 DEF ValuesWith, Values

(* There is one: the least N without would be one step behind one with.     *)
LEMMA RecursionDefines ==
  ASSUME NEW N \in Nat, NEW base \in Nat, NEW step, StepOn(step, N)
  PROVE  \E v : v[0] = base /\ Follows(v, step, N)
<1> DEFINE Defined(m) == \E v : v[0] = base /\ Follows(v, step, m)
           T == {m \in Nat : m <= N /\ ~Defined(m)}
<1>1. Defined(0)
  <2> DEFINE v == [n \in 0..0 |-> base]
  <2>1. Values(v, 0) /\ v[0] = base
    BY DEF Values
  <2> HIDE DEF v
  <2> QED
    BY <2>1 DEF Follows
<1>2. ASSUME NEW m \in Nat, m + 1 <= N, Defined(m) PROVE Defined(m + 1)
  <2>1. PICK v : v[0] = base /\ Follows(v, step, m)
    BY <1>2
  <2> DEFINE r == step[<<m + 1, v[m]>>]
  <2>2. Values(v, m) /\ v[m] \in Nat
    BY <2>1 DEF Follows, Values
  <2>3. r \in Nat
    BY <1>2, <2>2 DEF StepOn
  <2>4. PICK v2 : ValuesWith(v2, v, m, r)
    <3> HIDE DEF r
    <3> QED
      BY <2>2, <2>3, ValueAdded
  <2>5. Values(v2, m + 1) /\ v2[m + 1] = r /\ \A n \in 0..m : v2[n] = v[n]
    BY <2>4 DEF ValuesWith
  <2>6. ASSUME NEW n \in 1..(m + 1) PROVE v2[n] = step[<<n, v2[n - 1]>>]
    <3>1. CASE n \in 1..m
      <4>1. v2[n] = v[n] /\ v2[n - 1] = v[n - 1]
        BY <2>5, <3>1
      <4>2. v[n] = step[<<n, v[n - 1]>>]
        BY <2>1, <3>1 DEF Follows
      <4> QED
        BY <4>1, <4>2
    <3>2. CASE n = m + 1
      <4>1. v2[n - 1] = v[m]
        BY <2>5, <3>2
      <4> QED
        BY <2>5, <3>2, <4>1
    <3> QED
      BY <3>1, <3>2
  <2>7. v2[0] = base
    BY <2>1, <2>5
  <2> QED
    BY <2>5, <2>6, <2>7 DEF Follows
<1>3. T = {}
  <2> SUFFICES ASSUME T # {} PROVE FALSE
    OBVIOUS
  <2>1. PICK m \in T : \A k \in T : m <= k
    <3>1. T \subseteq Nat
      OBVIOUS
    <3> HIDE DEF T
    <3> QED
      BY <3>1, NatMin
  <2>2. m \in Nat /\ m <= N /\ ~Defined(m) /\ m # 0
    BY <1>1, <2>1
  <2>3. m - 1 \in Nat /\ m - 1 <= N /\ (m - 1) + 1 = m /\ m - 1 \notin T
    BY <2>1, <2>2
  <2>4. Defined(m - 1)
    BY <2>3
  <2> HIDE DEF Defined, T
  <2> QED
    BY <1>2, <2>2, <2>3, <2>4
<1>4. Defined(N)
  BY <1>3
<1> QED
  BY <1>4

(* Values that never fall on the way from a to b, or that stay the same.    *)
LEMMA NeverFalls ==
  ASSUME NEW N \in Nat, NEW v, Values(v, N), NEW a \in 0..N, NEW b \in 0..N, a <= b,
         \A n \in (a + 1)..b : v[n - 1] <= v[n]
  PROVE  v[a] <= v[b]
<1> DEFINE T == {n \in Nat : a <= n /\ n <= b /\ ~(v[a] <= v[n])}
<1>1. T = {}
  <2> SUFFICES ASSUME T # {} PROVE FALSE
    OBVIOUS
  <2>1. PICK m \in T : \A k \in T : m <= k
    <3>1. T \subseteq Nat
      OBVIOUS
    <3> HIDE DEF T
    <3> QED
      BY <3>1, NatMin
  <2>2. m \in Nat /\ a <= m /\ m <= b /\ ~(v[a] <= v[m]) /\ v[a] \in Nat /\ v[m] \in Nat
    BY <2>1 DEF Values
  <2>3. m # a
    BY <2>2
  <2>4. m - 1 \in Nat /\ a <= m - 1 /\ m \in (a + 1)..b /\ m - 1 \notin T
    BY <2>1, <2>2, <2>3
  <2>5. v[a] <= v[m - 1] /\ v[m - 1] <= v[m]
    BY <2>2, <2>4
  <2>6. v[m - 1] \in Nat
    BY <2>2, <2>4 DEF Values
  <2> QED
    BY <2>2, <2>5, <2>6
<1> QED
  BY <1>1

LEMMA StaysSame ==
  ASSUME NEW N \in Nat, NEW v, Values(v, N), NEW a \in 0..N, NEW b \in 0..N, a <= b,
         \A n \in (a + 1)..b : v[n] = v[n - 1]
  PROVE  v[b] = v[a]
<1> DEFINE T == {n \in Nat : a <= n /\ n <= b /\ v[n] # v[a]}
<1>1. T = {}
  <2> SUFFICES ASSUME T # {} PROVE FALSE
    OBVIOUS
  <2>1. PICK m \in T : \A k \in T : m <= k
    <3>1. T \subseteq Nat
      OBVIOUS
    <3> HIDE DEF T
    <3> QED
      BY <3>1, NatMin
  <2>2. m \in Nat /\ a <= m /\ m <= b /\ v[m] # v[a]
    BY <2>1
  <2>3. m - 1 \in Nat /\ a <= m - 1 /\ m \in (a + 1)..b /\ m - 1 \notin T
    BY <2>1, <2>2
  <2>4. v[m - 1] = v[a] /\ v[m] = v[m - 1]
    BY <2>2, <2>3
  <2> QED
    BY <2>2, <2>4
<1> QED
  BY <1>1

LEMMA StaysNatural ==
  ASSUME NEW N \in Nat, NEW v, FunctionOn(v, N), v[0] \in Nat,
         \A n \in 1..N : v[n - 1] \in Nat => v[n] \in Nat
  PROVE  Values(v, N)
<1> DEFINE T == {n \in Nat : n <= N /\ v[n] \notin Nat}
<1>1. T = {}
  <2> SUFFICES ASSUME T # {} PROVE FALSE
    OBVIOUS
  <2>1. PICK m \in T : \A k \in T : m <= k
    <3>1. T \subseteq Nat
      OBVIOUS
    <3> HIDE DEF T
    <3> QED
      BY <3>1, NatMin
  <2>2. m \in Nat /\ m <= N /\ v[m] \notin Nat /\ m # 0
    BY <2>1
  <2>3. m \in 1..N /\ m - 1 \in Nat /\ m - 1 <= N /\ m - 1 \notin T
    BY <2>1, <2>2
  <2> QED
    BY <2>2, <2>3
<1>2. ASSUME NEW n \in 0..N PROVE v[n] \in Nat
  <2>1. n \in Nat /\ n <= N /\ n \notin T
    BY <1>1
  <2> QED
    BY <2>1
<1> QED
  BY <1>2 DEF Values, FunctionOn

(* What the two recursive definitions of StrToHex say.                      *)
LEMMA PowersOf16 ==
  /\ Values(Hex!Power, Width) /\ Hex!Power[0] = 1
  /\ \A n \in 1..Width : Hex!Power[n] = 16 * Hex!Power[n - 1]
<1> DEFINE step == [w \in (1..Width) \X Nat |-> 16 * w[2]]
           Is(v) == v = [n \in 0..Width |-> IF n = 0 THEN 1 ELSE 16 * v[n - 1]]
<1>1. Width \in Nat
  BY ArgumentsAssumption
<1>2. StepOn(step, Width)
  BY <1>1 DEF StepOn
<1>3. \A n \in 1..Width, r \in Nat : step[<<n, r>>] = 16 * r
  OBVIOUS
<1>4. PICK v : v[0] = 1 /\ Follows(v, step, Width)
  <2> HIDE DEF step
  <2> QED
    BY <1>1, <1>2, RecursionDefines
<1> HIDE DEF step
<1>5. Values(v, Width) /\ \A n \in 1..Width : v[n] = 16 * v[n - 1]
  <2>1. Values(v, Width)
    BY <1>4 DEF Follows
  <2>2. ASSUME NEW n \in 1..Width PROVE v[n] = 16 * v[n - 1]
    <3>1. v[n - 1] \in Nat
      BY <1>1, <2>1 DEF Values
    <3> QED
      BY <1>3, <1>4, <3>1 DEF Follows
  <2> QED
    BY <2>1, <2>2
<1>6. Is(v)
  <2>1. \A n \in 0..Width : v[n] = IF n = 0 THEN 1 ELSE 16 * v[n - 1]
    BY <1>1, <1>4, <1>5
  <2> QED
    BY <1>5, <2>1 DEF Values
<1>7. Hex!Power = CHOOSE f : Is(f)
  BY DEF Hex!Power
<1>8. Is(Hex!Power)
  <2> HIDE DEF Is
  <2> QED
    BY <1>6, <1>7, Zenon
<1>9. /\ Hex!Power[0] = 1
      /\ \A n \in 1..Width : Hex!Power[n] = 16 * Hex!Power[n - 1]
  BY <1>1, <1>8
<1>10. Values(Hex!Power, Width)
  <2> DEFINE f == Hex!Power
  <2>1. FunctionOn(f, Width)
    BY <1>8 DEF FunctionOn
  <2>2. f[0] \in Nat /\ \A n \in 1..Width : f[n - 1] \in Nat => f[n] \in Nat
    BY <1>9
  <2> HIDE DEF f
  <2>3. Values(f, Width)
    BY <1>1, <2>1, <2>2, StaysNatural
  <2> QED
    BY <2>3 DEF f
<1> QED
  BY <1>9, <1>10

(* Any such function will do for the CHOOSE a recursive definition stands    *)
(* for: what it chooses is one.                                             *)
SpelledStep(p, r) ==
  IF p \in Hex!Wanted THEN 16 * r + Hex!HexValue(Input[p]) ELSE r
IsSpelled(v) ==
  v = [p \in 0..Len(Input) |-> IF p = 0 THEN 0 ELSE SpelledStep(p, v[p - 1])]

LEMMA SpelledDefined ==
  ASSUME NEW v, IsSpelled(v)
  PROVE  IsSpelled(Hex!Spelled)
BY Zenon DEF IsSpelled, SpelledStep, Hex!Spelled

LEMMA StepNatural ==
  ASSUME Readable, NEW p \in 1..Len(Input), NEW r \in Nat
  PROVE  SpelledStep(p, r) \in Nat
<1>1. CASE p \in Hex!Wanted
  <2> DEFINE c == Input[p]
             h == Hex!HexValue(c)
  <2>1. c \in Hex!HexDigits
    BY <1>1 DEF Hex!Wanted, Hex!DigitPlaces
  <2>2. h \in 0..15
    <3> HIDE DEF c
    <3> QED
      BY <2>1, DigitRange
  <2>3. SpelledStep(p, r) = 16 * r + h
    BY <1>1 DEF SpelledStep
  <2>4. 16 * r + h \in Nat
    <3> HIDE DEF h
    <3> QED
      BY <2>2
  <2> QED
    BY <2>3, <2>4
<1>2. CASE p \notin Hex!Wanted
  BY <1>2 DEF SpelledStep
<1> QED
  BY <1>1, <1>2

SpelledFrom(f) ==
  /\ Values(f, Len(Input)) /\ f[0] = 0
  /\ \A p \in 1..Len(Input) : f[p] = SpelledStep(p, f[p - 1])

LEMMA SpelledFound ==
  ASSUME Readable
  PROVE  \E v : SpelledFrom(v)
<1> DEFINE L == Len(Input)
           step == [w \in (1..L) \X Nat |-> SpelledStep(w[1], w[2])]
<1>1. L \in Nat
  OBVIOUS
<1>2. StepOn(step, L)
  <2>1. ASSUME NEW w \in (1..L) \X Nat PROVE SpelledStep(w[1], w[2]) \in Nat
    BY StepNatural
  <2> QED
    BY <2>1 DEF StepOn
<1>3. \A p \in 1..L, r \in Nat : step[<<p, r>>] = SpelledStep(p, r)
  OBVIOUS
<1> HIDE DEF step, L
<1>4. PICK v : v[0] = 0 /\ Follows(v, step, L)
  BY <1>1, <1>2, RecursionDefines
<1>5. Values(v, L)
  BY <1>4 DEF Follows
<1>6. ASSUME NEW p \in 1..L PROVE v[p] = SpelledStep(p, v[p - 1])
  <2>1. v[p - 1] \in Nat
    BY <1>1, <1>5 DEF Values
  <2>2. v[p] = step[<<p, v[p - 1]>>]
    BY <1>4 DEF Follows
  <2> QED
    BY <1>3, <2>1, <2>2
<1> QED
  BY <1>4, <1>5, <1>6 DEF L, SpelledFrom

LEMMA SpelledIs ==
  ASSUME Len(Input) \in Nat, NEW f, SpelledFrom(f)
  PROVE  IsSpelled(f)
<1> DEFINE L == Len(Input)
           g == [p \in 0..L |-> IF p = 0 THEN 0 ELSE SpelledStep(p, f[p - 1])]
<1>1. \A p \in 0..L : f[p] = g[p]
  BY DEF SpelledFrom
<1> HIDE DEF g
<1>2. f \in [0..L -> Nat]
  BY DEF SpelledFrom, Values
<1>3. f = g
  BY <1>1, <1>2 DEF g
<1> QED
  BY <1>3 DEF g, IsSpelled

LEMMA IsSpelledFrom ==
  ASSUME Readable, NEW f, IsSpelled(f)
  PROVE  SpelledFrom(f)
<1> DEFINE L == Len(Input)
           g == [p \in 0..L |-> IF p = 0 THEN 0 ELSE SpelledStep(p, f[p - 1])]
<1>1. L \in Nat
  OBVIOUS
<1>2. f = g
  BY DEF IsSpelled
<1>3. g[0] = 0 /\ \A p \in 1..L : g[p] = SpelledStep(p, f[p - 1])
  BY <1>1
<1>4. FunctionOn(g, L)
  BY <1>1 DEF FunctionOn
<1> HIDE DEF g, L
<1>5. ASSUME NEW p \in 1..L, f[p - 1] \in Nat PROVE f[p] \in Nat
  <2> DEFINE r == f[p - 1]
  <2>1. f[p] = SpelledStep(p, r)
    BY <1>2, <1>3
  <2>2. r \in Nat
    BY <1>5
  <2> HIDE DEF r
  <2>3. SpelledStep(p, r) \in Nat
    BY <2>2, StepNatural DEF L
  <2> QED
    BY <2>1, <2>3
<1>6. FunctionOn(f, L) /\ f[0] \in Nat
  BY <1>2, <1>3, <1>4
<1>7. Values(f, L)
  BY <1>1, <1>5, <1>6, StaysNatural
<1> QED
  BY <1>2, <1>3, <1>7 DEF L, SpelledFrom

LEMMA SpelledValues ==
  ASSUME Readable
  PROVE  SpelledFrom(Hex!Spelled)
BY SpelledFound, SpelledIs, SpelledDefined, IsSpelledFrom

LEMMA SpelledSteady ==
  ASSUME Readable, NEW a \in 0..Len(Input), NEW b \in 0..Len(Input),
         a <= b, \A p \in (a + 1)..b : p \notin Hex!Wanted
  PROVE  Hex!Spelled[b] = Hex!Spelled[a]
<1> DEFINE f == Hex!Spelled
           L == Len(Input)
<1>1. SpelledFrom(f) /\ L \in Nat
  BY SpelledValues
<1>2. ASSUME NEW p \in (a + 1)..b PROVE f[p] = f[p - 1]
  <2>1. p \in 1..L
    BY <1>1
  <2> HIDE DEF f
  <2> QED
    BY <1>1, <2>1 DEF SpelledFrom, SpelledStep
<1>3. Values(f, L)
  BY <1>1 DEF SpelledFrom
<1> HIDE DEF f, L
<1>4. f[b] = f[a]
  <2>1. a \in 0..L /\ b \in 0..L
    BY DEF L
  <2> QED
    BY <1>1, <1>2, <1>3, <2>1, StaysSame
<1> QED
  BY <1>4 DEF f

LEMMA DigitSpelled ==
  ASSUME Readable, NEW p \in 1..Len(Input), p \in Hex!Wanted
  PROVE  Hex!Spelled[p] = 16 * Hex!Spelled[p - 1] + Hex!HexValue(Input[p])
<1> DEFINE f == Hex!Spelled
<1>1. SpelledFrom(f)
  BY SpelledValues
<1> HIDE DEF f
<1>2. f[p] = 16 * f[p - 1] + Hex!HexValue(Input[p])
  BY <1>1 DEF SpelledFrom, SpelledStep
<1> QED
  BY <1>2 DEF f

(* The digits up to any place are finitely many.                            *)
LEMMA PlacesCounted ==
  ASSUME Readable, from \in Nat
  PROVE  /\ IsFiniteSet(Hex!DigitPlaces)
         /\ \A S \in SUBSET Hex!DigitPlaces : IsFiniteSet(S) /\ Cardinality(S) \in Nat
         /\ Hex!DigitPlaces \subseteq (from + 1)..Len(Input)
<1>1. Hex!DigitPlaces \subseteq (from + 1)..Len(Input)
  BY DEF Hex!DigitPlaces
<1>2. IsFiniteSet((from + 1)..Len(Input))
  <2>1. from + 1 \in Int /\ Len(Input) \in Int
    OBVIOUS
  <2> QED
    BY <2>1, FS_Interval
<1>3. IsFiniteSet(Hex!DigitPlaces)
  <2> DEFINE I == (from + 1)..Len(Input)
             D == Hex!DigitPlaces
  <2>1. IsFiniteSet(I) /\ D \in SUBSET I
    BY <1>1, <1>2
  <2> HIDE DEF D, I
  <2>2. IsFiniteSet(D)
    BY <2>1, FS_Subset
  <2> QED
    BY <2>2 DEF D
<1>4. ASSUME NEW S \in SUBSET Hex!DigitPlaces
      PROVE  IsFiniteSet(S) /\ Cardinality(S) \in Nat
  <2> DEFINE D == Hex!DigitPlaces
  <2>1. IsFiniteSet(D) /\ S \in SUBSET D
    BY <1>3
  <2> HIDE DEF D
  <2>2. IsFiniteSet(S)
    BY <2>1, FS_Subset
  <2> QED
    BY <2>2, FS_CardinalityType
<1> QED
  BY <1>1, <1>3, <1>4

LEMMA HexInit == Hex!Init => HexInv
<1> SUFFICES ASSUME Hex!Init PROVE HexInv
  OBVIOUS
<1>1. /\ hexpc = "call" /\ Input \in Strings \cup {Hex!NULL} /\ NumChars \in Nat
      /\ from \in Nat /\ Pos = from /\ NumDone = 0 /\ retval = 0
  BY ArgumentsAssumption DEF Hex!Init
<1>2. ~Hex!Rejected => Readable
  BY <1>1, ArgumentsAssumption DEF Hex!Rejected, Readable
<1>3. ASSUME ~Hex!Rejected
      PROVE  /\ NumDone = Cardinality(Taken) /\ retval = Hex!Spelled[Reached]
             /\ retval < Hex!Power[NumDone]
  <2>1. Readable /\ Len(Input) \in Nat
    BY <1>2, <1>3 DEF Readable
  <2>2. Hex!DigitPlaces \subseteq (from + 1)..Len(Input)
    BY <1>1, <2>1, PlacesCounted
  <2>3. Taken = {}
    <3> SUFFICES ASSUME NEW p \in Taken PROVE FALSE
      OBVIOUS
    <3>1. p \in Hex!DigitPlaces /\ p <= Pos
      BY DEF Taken
    <3>2. p \in (from + 1)..Len(Input)
      BY <2>2, <3>1
    <3> QED
      BY <1>1, <2>1, <3>1, <3>2
  <2>4. Cardinality(Taken) = 0
    BY <2>3, FS_EmptySet
  <2> DEFINE r == Reached
  <2>5. r \in 0..Len(Input) /\ r <= from
    BY <1>1, <2>1 DEF Reached
  <2>6. ASSUME NEW p \in (0 + 1)..r PROVE p \notin Hex!Wanted
    BY <1>1, <2>1, <2>2, <2>5 DEF Hex!Wanted
  <2> HIDE DEF r
  <2>7. Hex!Spelled[r] = Hex!Spelled[0]
    <3>1. 0 \in 0..Len(Input) /\ 0 <= r
      BY <2>1, <2>5
    <3> QED
      BY <2>1, <2>5, <2>6, <3>1, SpelledSteady
  <2>8. Hex!Spelled[0] = 0
    BY <2>1, SpelledValues DEF SpelledFrom
  <2>9. retval < Hex!Power[NumDone]
    BY <1>1, PowersOf16
  <2> QED
    BY <1>1, <2>4, <2>7, <2>8, <2>9 DEF r
<1> QED
  BY <1>1, <1>2, <1>3 DEF HexInv, Hex!Rejected

(* A digit is worth less than 16, so that the value of NumDone digits fits *)
(* in NumDone digits: the modulus changes nothing.                         *)
LEMMA DigitFits ==
  ASSUME NEW n \in Nat, n < Width, NEW r \in Nat, r < Hex!Power[n], NEW h \in 0..15
  PROVE  /\ (r * 16 + h) % Hex!Power[Width] = 16 * r + h
         /\ 16 * r + h < Hex!Power[n + 1]
<1> DEFINE f == Hex!Power
           P == f[n]
           Q == f[n + 1]
           W == f[Width]
<1>1. Width \in Nat /\ n \in 0..Width /\ n + 1 \in 1..Width
  BY ArgumentsAssumption
<1>2. Values(f, Width) /\ \A k \in 1..Width : f[k] = 16 * f[k - 1]
  BY PowersOf16
<1> HIDE DEF f
<1>3. \A k \in 0..Width : f[k] \in Nat
  BY <1>2 DEF Values
<1>4. P \in Nat /\ Q = 16 * P /\ W \in Nat
  <2>1. Q = 16 * f[(n + 1) - 1]
    BY <1>1, <1>2
  <2>2. (n + 1) - 1 = n
    OBVIOUS
  <2> QED
    BY <1>1, <1>3, <2>1, <2>2
<1>5. ASSUME NEW k \in (n + 1 + 1)..Width PROVE f[k - 1] <= f[k]
  <2>1. k \in 1..Width /\ k - 1 \in 0..Width
    BY <1>1, <1>5
  <2> DEFINE a == f[k - 1]
             b == f[k]
  <2>2. a \in Nat /\ b = 16 * a
    BY <1>2, <1>3, <2>1
  <2> HIDE DEF a, b
  <2>3. a <= b
    BY <2>2
  <2> QED
    BY <2>3 DEF a, b
<1>6. Q <= W
  <2>1. n + 1 \in 0..Width /\ Width \in 0..Width /\ n + 1 <= Width
    BY <1>1
  <2> QED
    BY <1>1, <1>2, <1>5, <2>1, NeverFalls
<1>7. r < P
  BY DEF f
<1> HIDE DEF P, Q, W
<1>8. 16 * r + h \in Nat /\ 16 * r + h < Q /\ r * 16 + h = 16 * r + h
  BY <1>4, <1>7
<1>9. (16 * r + h) % W = 16 * r + h
  BY <1>4, <1>6, <1>8
<1> QED
  BY <1>8, <1>9 DEF Q, W, f

LEMMA HexCardinality ==
  ASSUME NEW S
  PROVE  Hex!Cardinality(S) = Cardinality(S)
BY DEF Hex!Cardinality, Cardinality

Before(q) == {p \in Hex!DigitPlaces : p < q}

LEMMA WantedMeans ==
  ASSUME NEW q, q \in Hex!DigitPlaces
  PROVE  q \in Hex!Wanted <=> Cardinality(Before(q)) < NumChars
<1>1. Hex!Cardinality(Before(q)) = Cardinality(Before(q))
  BY HexCardinality
<1>2. q \in Hex!Wanted <=> Hex!Cardinality(Before(q)) < NumChars
  BY Zenon DEF Hex!Wanted, Before
<1> QED
  BY <1>1, <1>2, Zenon

(* One more place looked at: a digit is the next one, anything else leaves  *)
(* what has been counted and spelled as it was.                             *)
LEMMA DigitCounted ==
  ASSUME HexInv, Readable, from <= Pos, Pos < Len(Input),
         Input[Pos + 1] \in Hex!HexDigits, NumDone < NumChars,
         NumDone = Cardinality(Taken)
  PROVE  /\ Pos + 1 \in Hex!Wanted
         /\ Cardinality({p \in Hex!DigitPlaces : p <= Pos + 1}) = NumDone + 1
<1> DEFINE D == Hex!DigitPlaces
           T == Taken
           q == Pos + 1
<1>1. Pos \in Nat /\ from \in Nat /\ NumDone \in Nat /\ Len(Input) \in Nat
  BY DEF HexInv
<1>2. q \in D /\ D \subseteq Nat
  <2>1. D \subseteq (from + 1)..Len(Input)
    BY <1>1, PlacesCounted
  <2>2. q \in D
    BY <1>1 DEF Hex!DigitPlaces
  <2> HIDE DEF D
  <2> QED
    BY <1>1, <2>1, <2>2
<1>3. T \in SUBSET D /\ \A p \in D : p \in T <=> p <= Pos
  BY DEF Taken
<1>4. IsFiniteSet(T) /\ NumDone = Cardinality(T)
  BY <1>1, <1>3, PlacesCounted
<1>5. q \notin T
  BY <1>1 DEF Taken
<1>6. {p \in D : p < q} = T /\ {p \in D : p <= q} = T \cup {q}
  <2>1. ASSUME NEW p \in D
        PROVE  (p < q <=> p <= Pos) /\ (p <= q <=> p <= Pos \/ p = q)
    <3> HIDE DEF D
    <3> QED
      BY <1>1, <1>2
  <2> HIDE DEF D, T, q
  <2> QED
    BY <1>2, <1>3, <2>1, Zenon
<1>7. q \in Hex!Wanted
  <2>1. Before(q) = T
    BY <1>6 DEF Before
  <2> HIDE DEF q, T
  <2> QED
    BY <1>2, <1>4, <2>1, WantedMeans
<1>8. Cardinality(T \cup {q}) = NumDone + 1
  <2> HIDE DEF q, T
  <2> QED
    BY <1>4, <1>5, FS_AddElement
<1> QED
  BY <1>6, <1>7, <1>8, Zenon

(* With NumChars digits taken, no later digit is wanted.                    *)
LEMMA NoMoreWanted ==
  ASSUME HexInv, Readable, NumDone = NumChars,
         NumDone = Cardinality(Taken), NEW q \in Hex!DigitPlaces, Pos < q
  PROVE  q \notin Hex!Wanted
<1> DEFINE D == Hex!DigitPlaces
           T == Taken
           B == Before(q)
<1>1. Pos \in Nat /\ from \in Nat /\ NumChars \in Nat /\ Len(Input) \in Nat
  BY DEF HexInv
<1>2. D \subseteq Nat /\ q \in D
  <2>1. D \subseteq (from + 1)..Len(Input)
    BY <1>1, PlacesCounted
  <2> HIDE DEF D
  <2> QED
    BY <1>1, <2>1 DEF D
<1>3. T \subseteq B
  <2>1. ASSUME NEW p \in T PROVE p \in B
    <3>1. p \in D /\ p <= Pos
      BY DEF Taken
    <3>2. p < q
      <4> HIDE DEF D
      <4> QED
        BY <1>1, <1>2, <3>1
    <3> QED
      BY <3>1, <3>2 DEF Before
  <2> QED
    BY <2>1
<1>4. IsFiniteSet(B) /\ Cardinality(B) \in Nat
  <2>1. B \in SUBSET D
    BY DEF Before
  <2> HIDE DEF B
  <2> QED
    BY <1>1, <2>1, PlacesCounted
<1>5. ~(Cardinality(B) < NumChars)
  <2>1. Cardinality(T) = NumChars
    OBVIOUS
  <2> HIDE DEF B, T
  <2> DEFINE c == Cardinality(B)
  <2>2. Cardinality(T) <= c
    BY <1>3, <1>4, FS_Subset
  <2>3. c \in Nat /\ NumChars <= c
    BY <1>4, <2>1, <2>2
  <2> HIDE DEF c
  <2>4. ~(c < NumChars)
    BY <1>1, <2>3
  <2> QED
    BY <2>4 DEF c
<1> QED
  BY <1>2, <1>5, WantedMeans

(* What does not concern the digits leaves them.                            *)
LEMMA DigitsKept ==
  ASSUME UNCHANGED <<Input, NumChars, from>>
  PROVE  /\ Hex!DigitPlaces' = Hex!DigitPlaces /\ Hex!Spelled' = Hex!Spelled
         /\ (Hex!Rejected' <=> Hex!Rejected) /\ (Readable' <=> Readable)
<1>1. Hex!DigitPlaces' = Hex!DigitPlaces
  BY DEF Hex!DigitPlaces
<1>2. Hex!Wanted' = Hex!Wanted
  BY <1>1 DEF Hex!Wanted
<1>3. Hex!Spelled' = Hex!Spelled
  BY <1>2, Zenon DEF Hex!Spelled
<1>4. (Hex!Rejected' <=> Hex!Rejected) /\ (Readable' <=> Readable)
  BY DEF Hex!Rejected, Readable
<1> QED
  BY <1>1, <1>3, <1>4

LEMMA DigitTaken ==
  ASSUME HexInv, Hex!Digit
  PROVE  HexInv'
<1>1. /\ hexpc = "loop" /\ hexpc' = "loop" /\ Pos <= Len(Input) /\ NumDone < NumChars
      /\ Hex!CharAtPos \in Hex!HexDigits
      /\ retval' = (retval * 16 + Hex!HexValue(Hex!CharAtPos)) % Hex!Power[Width]
      /\ NumDone' = NumDone + 1 /\ Pos' = Pos + 1
      /\ UNCHANGED <<Input, NumChars, from>>
  BY DEF Hex!Digit, Hex!Looping
<1>2. ~Hex!Rejected /\ NumChars <= Width
  BY <1>1, ArgumentsAssumption DEF HexInv, Hex!Rejected
<1>3. /\ Readable /\ from <= Pos /\ NumDone = Cardinality(Taken)
      /\ retval = Hex!Spelled[Reached] /\ retval < Hex!Power[NumDone]
      /\ from \in Nat /\ NumChars \in Nat /\ NumDone \in Nat /\ Pos \in Nat /\ retval \in Nat
  BY <1>2 DEF HexInv
<1>4. Len(Input) \in Nat
  BY <1>3 DEF Readable
<1>5. Pos < Len(Input) /\ Hex!CharAtPos = Input[Pos + 1]
  <2>1. 0 \notin Hex!HexDigits
    BY DEF Hex!HexDigits
  <2> QED
    BY <1>1, <1>3, <1>4, <2>1 DEF Hex!CharAtPos
<1> DEFINE h == Hex!HexValue(Hex!CharAtPos)
<1>6. h \in 0..15
  BY <1>1, DigitRange
<1>7. Pos + 1 \in Hex!Wanted
      /\ Cardinality({p \in Hex!DigitPlaces : p <= Pos + 1}) = NumDone + 1
  BY <1>1, <1>3, <1>5, DigitCounted
<1>8. NumDone' = Cardinality(Taken')
  <2>1. Taken' = {p \in Hex!DigitPlaces : p <= Pos + 1}
    BY <1>1, DigitsKept DEF Taken
  <2> QED
    BY <1>1, <1>7, <2>1
<1>9. Hex!Spelled[Pos + 1] = 16 * retval + h
  <2>1. Pos + 1 \in 1..Len(Input) /\ (Pos + 1) - 1 = Pos
    BY <1>3, <1>4, <1>5
  <2>2. retval = Hex!Spelled[Pos]
    BY <1>1, <1>3 DEF Reached
  <2> QED
    BY <1>3, <1>5, <1>7, <2>1, <2>2, DigitSpelled
<1>10. retval' = 16 * retval + h /\ 16 * retval + h < Hex!Power[NumDone + 1]
  <2>1. NumDone < Width
    BY <1>1, <1>2, <1>3, ArgumentsAssumption
  <2>2. retval' = (retval * 16 + h) % Hex!Power[Width]
    BY <1>1
  <2> HIDE DEF h
  <2> QED
    BY <1>3, <1>6, <2>1, <2>2, DigitFits
<1>11. 16 * retval + h \in Nat
  <2> HIDE DEF h
  <2> QED
    BY <1>3, <1>6
<1> HIDE DEF h
<1>12. retval' = (Hex!Spelled[Reached])'
  <2>1. Reached' = Pos + 1
    BY <1>1, <1>3, <1>4, <1>5 DEF Reached
  <2>2. Hex!Spelled' = Hex!Spelled
    BY <1>1, DigitsKept
  <2> QED
    BY <1>9, <1>10, <2>1, <2>2
<1>13. (retval < Hex!Power[NumDone])'
  <2>1. (Hex!Power)' = Hex!Power
    BY DEF Hex!Power
  <2> QED
    BY <1>1, <1>10, <2>1
<1>14. ~Hex!Rejected' /\ Readable'
  BY <1>1, <1>2, <1>3, DigitsKept
<1>15. /\ from' \in Nat /\ NumChars' \in Nat /\ NumDone' \in Nat /\ Pos' \in Nat
       /\ retval' \in Nat /\ from' <= Pos' /\ NumDone' <= NumChars'
  BY <1>1, <1>3, <1>10, <1>11
<1> QED
  BY <1>1, <1>8, <1>12, <1>13, <1>14, <1>15 DEF HexInv

(* A step that changes at most the position and the point of execution, and *)
(* passes no digit.                                                         *)
LEMMA NoDigitPassed ==
  ASSUME HexInv, ~Hex!Rejected, UNCHANGED <<Input, NumChars, from, NumDone, retval>>,
         \/ Pos' = Pos
         \/ /\ Pos' = Pos + 1 /\ Pos <= Len(Input)
            /\ Pos < Len(Input) => Input[Pos + 1] \notin Hex!HexDigits
  PROVE  /\ Readable' /\ ~Hex!Rejected' /\ (from <= Pos)' /\ (NumDone <= NumChars)'
         /\ NumDone' = Cardinality(Taken') /\ retval' = (Hex!Spelled[Reached])'
         /\ (retval < Hex!Power[NumDone])' /\ Pos' \in Nat
<1>1. /\ Readable /\ from <= Pos /\ NumDone <= NumChars /\ NumDone = Cardinality(Taken)
      /\ retval = Hex!Spelled[Reached] /\ retval < Hex!Power[NumDone]
      /\ from \in Nat /\ NumChars \in Nat /\ NumDone \in Nat /\ Pos \in Nat /\ retval \in Nat
  BY DEF HexInv
<1>2. Len(Input) \in Nat
  BY <1>1 DEF Readable
<1>3. Readable' /\ ~Hex!Rejected' /\ Hex!Spelled' = Hex!Spelled
      /\ Hex!DigitPlaces' = Hex!DigitPlaces
  BY <1>1, DigitsKept
<1>4. Pos' \in Nat /\ Pos <= Pos' /\ (from <= Pos)' /\ (NumDone <= NumChars)'
  BY <1>1
<1>5. (retval < Hex!Power[NumDone])'
  <2>1. (Hex!Power)' = Hex!Power
    BY DEF Hex!Power
  <2> QED
    BY <1>1, <2>1
<1>6. Taken' = Taken
  <2> DEFINE D == Hex!DigitPlaces
  <2>1. ASSUME NEW p \in D PROVE p <= Pos' <=> p <= Pos
    <3>1. p \in (from + 1)..Len(Input) /\ Input[p] \in Hex!HexDigits
      BY DEF Hex!DigitPlaces
    <3>2. p \in Nat /\ p <= Len(Input)
      BY <1>1, <1>2, <3>1
    <3>3. Pos' = Pos + 1 => p # Pos + 1
      BY <1>1, <1>2, <3>1, <3>2
    <3> HIDE DEF D
    <3> QED
      BY <1>1, <3>2, <3>3
  <2>2. Taken' = {p \in D : p <= Pos'}
    BY <1>3 DEF Taken
  <2> HIDE DEF D
  <2> QED
    BY <2>1, <2>2 DEF Taken, D
<1>7. Hex!Spelled[Reached'] = Hex!Spelled[Reached]
  <2> DEFINE a == Reached
             b == Reached'
  <2>1. a \in 0..Len(Input) /\ b \in 0..Len(Input) /\ a <= b
    BY <1>1, <1>2, <1>4 DEF Reached
  <2>2. ASSUME NEW p \in (a + 1)..b PROVE p \notin Hex!Wanted
    <3>1. p = Pos + 1 /\ Pos < Len(Input) /\ Pos' = Pos + 1
      BY <1>1, <1>2, <2>1 DEF Reached
    <3>2. p \notin Hex!DigitPlaces
      BY <3>1 DEF Hex!DigitPlaces
    <3> QED
      BY <3>2 DEF Hex!Wanted
  <2> HIDE DEF a, b
  <2>3. Hex!Spelled[b] = Hex!Spelled[a]
    BY <1>1, <2>1, <2>2, SpelledSteady
  <2> QED
    BY <2>3 DEF a, b
<1> QED
  BY <1>1, <1>3, <1>4, <1>5, <1>6, <1>7

LEMMA HexStep == ASSUME HexInv, Hex!Next PROVE HexInv'
<1>1. CASE Hex!Reject
  BY <1>1 DEF Hex!Reject, Hex!Rejected, HexInv
<1>2. CASE Hex!Enter
  <2>1. /\ hexpc = "call" /\ hexpc' = "loop" /\ ~Hex!Rejected
        /\ UNCHANGED <<Input, NumChars, from, Pos, NumDone, retval>>
    BY <1>2 DEF Hex!Enter
  <2> QED
    BY <2>1, NoDigitPassed DEF HexInv
<1>3. CASE Hex!Digit
  BY <1>3, DigitTaken
<1>4. CASE Hex!Ignore
  <2>1. /\ hexpc = "loop" /\ hexpc' = "loop" /\ Pos <= Len(Input)
        /\ Hex!CharAtPos \notin Hex!HexDigits /\ Pos' = Pos + 1
        /\ UNCHANGED <<Input, NumChars, from, NumDone, retval>>
    BY <1>4 DEF Hex!Ignore, Hex!Looping
  <2>2. ~Hex!Rejected
    BY <2>1 DEF HexInv
  <2>3. Pos < Len(Input) => Input[Pos + 1] \notin Hex!HexDigits
    BY <2>1 DEF Hex!CharAtPos
  <2> QED
    BY <2>1, <2>2, <2>3, NoDigitPassed DEF HexInv
<1>5. CASE Hex!Return
  <2>1. /\ hexpc = "loop" /\ hexpc' = "returned"
        /\ UNCHANGED <<Input, NumChars, from, Pos, NumDone, retval>>
        /\ Pos > Len(Input) \/ ~(NumDone < NumChars)
    BY <1>5 DEF Hex!Return, Hex!Looping, HexInv
  <2>2. ~Hex!Rejected
    BY <2>1 DEF HexInv
  <2> QED
    BY <2>1, <2>2, NoDigitPassed DEF HexInv
<1>6. CASE UNCHANGED <<hexpc, Input, NumChars, from, Pos, NumDone, retval>>
  <2>1. CASE Hex!Rejected
    BY <1>6, <2>1, DigitsKept DEF HexInv
  <2>2. CASE ~Hex!Rejected
    BY <1>6, <2>2, NoDigitPassed DEF HexInv
  <2> QED
    BY <2>1, <2>2
<1>7. Hex!Returned => UNCHANGED <<hexpc, Input, NumChars, from, Pos, NumDone, retval>>
  BY DEF Hex!Returned, Hex!vars
<1> QED
  BY <1>1, <1>2, <1>3, <1>4, <1>5, <1>6, <1>7 DEF Hex!Next, Hex!Program

(* At the return every wanted digit has been passed: none is left after the *)
(* position, or none that is still to be taken.                             *)
LEMMA AllSpelled ==
  ASSUME HexInv, hexpc = "returned", ~Hex!Rejected
  PROVE  retval = Hex!Spelled[Len(Input)]
<1>1. /\ Readable /\ NumDone = Cardinality(Taken) /\ retval = Hex!Spelled[Reached]
      /\ Pos \in Nat /\ (NumDone = NumChars \/ Pos > Len(Input))
  BY DEF HexInv
<1>2. Len(Input) \in Nat
  BY <1>1 DEF Readable
<1> DEFINE a == Reached
<1>3. a \in 0..Len(Input) /\ Len(Input) \in 0..Len(Input) /\ a <= Len(Input)
  BY <1>1, <1>2 DEF Reached
<1>4. ASSUME NEW p \in (a + 1)..Len(Input) PROVE p \notin Hex!Wanted
  <2>1. Pos < p
    BY <1>1, <1>2 DEF Reached
  <2>2. NumDone = NumChars
    BY <1>1, <1>2, <2>1
  <2>3. CASE p \in Hex!DigitPlaces
    BY <1>1, <2>1, <2>2, <2>3, NoMoreWanted
  <2> QED
    BY <2>3 DEF Hex!Wanted
<1> HIDE DEF a
<1>5. Hex!Spelled[Len(Input)] = Hex!Spelled[a]
  BY <1>1, <1>3, <1>4, SpelledSteady
<1> QED
  BY <1>1, <1>5 DEF a

(* StrToHex runs in its own call only.                                    *)
HexOrIdle ==
  /\ callee = "StrToHex"  => HexInv
  /\ callee # "StrToHex" => hexpc = "idle"

LEMMA HexInvariant == CallsSpec => []HexOrIdle
<1>1. CallsInit => HexOrIdle
  BY HexInit DEF CallsInit, HexIdle, HexOrIdle
<1>2. HexOrIdle /\ [CallsNext]_allVars => HexOrIdle'
  <2>1. ASSUME HexInv, UNCHANGED hexVars PROVE HexInv'
    <3>1. UNCHANGED <<hexpc, Input, NumChars, from, Pos, NumDone, retval>>
      BY <2>1 DEF hexVars
    <3>2. CASE Hex!Rejected
      BY <2>1, <3>1, <3>2, DigitsKept DEF HexInv
    <3>3. CASE ~Hex!Rejected
      BY <2>1, <3>1, <3>3, NoDigitPassed DEF HexInv
    <3> QED
      BY <3>2, <3>3
  <2>2. [CallsNext]_allVars =>
          /\ UNCHANGED callee
          /\ UNCHANGED hexVars \/ (callee = "StrToHex" /\ Hex!Next)
    <3>1. UNCHANGED allVars => UNCHANGED hexVars /\ UNCHANGED callee
      BY DEF allVars
    <3> QED
      BY <3>1, Zenon DEF CallsNext
  <2>3. UNCHANGED hexVars => UNCHANGED hexpc
    BY DEF hexVars
  <2> QED
    BY <2>1, <2>2, <2>3, HexStep DEF HexOrIdle
<1> QED
  BY <1>1, <1>2, PTL DEF CallsSpec

(* StrToHex returns the number that the first NumChars hexadecimal digits at *)
(* or after the position spell, for every string, position and count: no     *)
(* digit is taken twice or passed over, and none is lost to an overflow.     *)
THEOREM StrToHexReadsDigits == CallsSpec => []ValueOfDigits
<1>1. HexOrIdle => ValueOfDigits
  <2> SUFFICES ASSUME HexOrIdle, hexpc = "returned"
               PROVE  retval = IF Hex!Rejected THEN 0 ELSE Hex!Spelled[Len(Input)]
    BY Zenon DEF ValueOfDigits, Hex!ValueOfDigits
  <2>1. HexInv
    BY DEF HexOrIdle
  <2>2. CASE Hex!Rejected
    BY <2>1, <2>2 DEF HexInv
  <2>3. CASE ~Hex!Rejected
    BY <2>1, <2>3, AllSpelled
  <2> QED
    BY <2>2, <2>3
<1> QED
  BY <1>1, HexInvariant, PTL

-----------------------------------------------------------------------------
(* What is safe about CallsReturn: every step of the function that was     *)
(* called shortens what is left of its loops, down to its return.  t.c's   *)
(* counter of 16 bits has to reach the units of the text.                  *)
Rest(n, bound) == IF n < bound THEN bound - n ELSE 0

LeftOfHex ==
  CASE hexpc = "call"  -> 2 + (IF Hex!Rejected THEN 0 ELSE Rest(Pos, Len(Input) + 1))
    [] hexpc = "loop"  -> 1 + Rest(Pos, Len(Input) + 1)
    [] OTHER           -> 0
LeftOfText ==
  CASE textpc = "uCase" ->
         1 + (IF MyString = Text!NULL THEN 0 ELSE Rest(textpos, Len(MyString)))
    [] textpc = "malloc" -> 3 + Len(given) + Len(str2)
    [] textpc = "copy1"  -> 2 + Rest(textpos, Len(given)) + Len(str2)
    [] textpc = "copy2"  -> 1 + Rest(textpos, Len(str2))
    [] OTHER             -> 0
LeftOfSet == IF setpc = "loop" THEN 1 + Rest(setpos, 256) ELSE 0
LeftOfScr ==
  CASE scrpc = "generate" -> 3 + Rest(scrpos, 128) + 4 * Len(text)
    [] scrpc = "length"   -> 2 + Rest(len, 2 * Len(text)) + 2 * Len(text)
    [] scrpc = "print"    -> 1 + Rest(scrpos, len)
    [] OTHER              -> 0

Left == CASE callee = "Charset"        -> Rest(i, Slots)
          [] callee = "StrToHex"       -> LeftOfHex
          [] callee = "uCase or cat"   -> LeftOfText
          [] callee = "test.c Charset" -> LeftOfSet
          [] callee = "t.c main"       -> LeftOfScr

ShortTexts == \A t \in Texts : 2 * Len(t) <= 65535

LoopsRunOut ==
  [][/\ Left \in Nat /\ Left' \in Nat /\ Left' < Left
     /\ Left' = 0 <=> CallReturned']_allVars

LEMMA RestFalls ==
  ASSUME NEW n \in Int, NEW b \in Int
  PROVE  /\ Rest(n, b) \in Nat /\ (Rest(n, b) = 0 <=> n >= b)
         /\ n < b => Rest(n + 1, b) = Rest(n, b) - 1
BY DEF Rest

(* One callee after the other: what is left is a number, 0 at the return   *)
(* and nowhere else, and every step leaves less.                           *)
LEMMA HexLeft == HexInv => LeftOfHex \in Nat /\ (LeftOfHex = 0 <=> hexpc = "returned")
<1> SUFFICES ASSUME HexInv
             PROVE  LeftOfHex \in Nat /\ (LeftOfHex = 0 <=> hexpc = "returned")
  OBVIOUS
<1>1. hexpc \in {"call", "loop", "returned"} /\ (Hex!Rejected => hexpc # "loop")
  BY DEF HexInv
<1>2. ASSUME ~Hex!Rejected PROVE Rest(Pos, Len(Input) + 1) \in Nat
  <2>1. Len(Input) + 1 \in Int /\ Pos \in Int
    BY <1>2 DEF HexInv, Readable
  <2> QED
    BY <2>1, RestFalls
<1> QED
  BY <1>1, <1>2 DEF LeftOfHex

LEMMA HexShortens ==
  ASSUME HexInv, HexInv', Hex!Program
  PROVE  LeftOfHex' < LeftOfHex
<1>1. LeftOfHex \in Nat /\ (LeftOfHex = 0 <=> hexpc = "returned")
  BY HexLeft
<1>2. CASE Hex!Reject \/ Hex!Return
  <2>1. hexpc # "returned" /\ hexpc' = "returned"
    BY <1>2 DEF Hex!Reject, Hex!Return
  <2>2. LeftOfHex' = 0
    BY <2>1 DEF LeftOfHex
  <2> QED
    BY <1>1, <2>1, <2>2
<1>3. CASE Hex!Enter \/ Hex!Digit \/ Hex!Ignore
  <2>1. ~Hex!Rejected
    BY <1>3 DEF Hex!Enter, Hex!Digit, Hex!Ignore, Hex!Looping, HexInv
  <2> DEFINE end == Len(Input) + 1
  <2>2. end \in Int /\ Pos \in Int /\ end' = end
    BY <1>3, <2>1 DEF HexInv, Readable, Hex!Enter, Hex!Digit, Hex!Ignore
  <2>3. CASE Hex!Enter
    <3>1. hexpc = "call" /\ hexpc' = "loop" /\ Pos' = Pos
      BY <2>3 DEF Hex!Enter
    <3>2. LeftOfHex = 2 + Rest(Pos, end) /\ LeftOfHex' = 1 + Rest(Pos', end')
      BY <2>1, <3>1 DEF LeftOfHex
    <3> HIDE DEF end
    <3>3. Rest(Pos', end') = Rest(Pos, end) /\ Rest(Pos, end) \in Nat
      BY <2>2, <3>1, RestFalls
    <3> QED
      BY <3>2, <3>3
  <2>4. CASE Hex!Digit \/ Hex!Ignore
    <3>1. hexpc = "loop" /\ hexpc' = "loop" /\ Pos < end /\ Pos' = Pos + 1
      BY <2>2, <2>4 DEF Hex!Digit, Hex!Ignore, Hex!Looping
    <3>2. LeftOfHex = 1 + Rest(Pos, end) /\ LeftOfHex' = 1 + Rest(Pos', end')
      BY <3>1 DEF LeftOfHex
    <3> HIDE DEF end
    <3>3. Rest(Pos', end') = Rest(Pos, end) - 1 /\ Rest(Pos, end) \in Nat
      BY <2>2, <3>1, RestFalls
    <3> QED
      BY <3>2, <3>3
  <2> QED
    BY <1>3, <2>3, <2>4
<1> QED
  BY <1>2, <1>3 DEF Hex!Program

LEMMA TextLeft ==
  uCaseInv \/ CatInv => LeftOfText \in Nat /\ (LeftOfText = 0 <=> textpc = "returned")
<1>1. ASSUME uCaseInv
      PROVE  LeftOfText \in Nat /\ (LeftOfText = 0 <=> textpc = "returned")
  <2>1. textpc \in {"uCase", "returned"}
    BY <1>1 DEF uCaseInv
  <2>2. MyString # Text!NULL => textpos \in Int /\ Len(MyString) \in Int
    BY <1>1 DEF uCaseInv, Text!NULL
  <2>3. MyString # Text!NULL => Rest(textpos, Len(MyString)) \in Nat
    BY <2>2, RestFalls
  <2> QED
    BY <2>1, <2>3 DEF LeftOfText
<1>2. ASSUME CatInv
      PROVE  LeftOfText \in Nat /\ (LeftOfText = 0 <=> textpc = "returned")
  <2> DEFINE a == Len(given)
             b == Len(str2)
  <2>1. a \in Nat /\ b \in Nat /\ textpc \in {"malloc", "copy1", "copy2", "returned"}
    BY <1>2 DEF CatInv
  <2>2. ASSUME textpc = "copy1" PROVE textpos \in Int
    BY <1>2, <2>1, <2>2 DEF CatInv, FirstTo
  <2>3. ASSUME textpc = "copy2" PROVE textpos \in Int
    BY <1>2, <2>1, <2>3 DEF CatInv, SecondTo
  <2>4. /\ textpc = "malloc" => LeftOfText = 3 + a + b
        /\ textpc = "copy1" => LeftOfText = 2 + Rest(textpos, a) + b
        /\ textpc = "copy2" => LeftOfText = 1 + Rest(textpos, b)
        /\ textpc = "returned" => LeftOfText = 0
    BY DEF LeftOfText
  <2> HIDE DEF a, b
  <2> QED
    BY <2>1, <2>2, <2>3, <2>4 DEF Rest
<1> QED
  BY <1>1, <1>2

LEMMA uCaseShortens ==
  ASSUME uCaseInv, Text!Next
  PROVE  LeftOfText' < LeftOfText \/ UNCHANGED Text!vars
<1>1. LeftOfText \in Nat /\ (LeftOfText = 0 <=> textpc = "returned")
  BY TextLeft
<1>2. CASE Text!uCaseReturn
  <2>1. textpc # "returned" /\ textpc' = "returned"
    BY <1>2 DEF Text!uCaseReturn
  <2>2. LeftOfText' = 0
    BY <2>1 DEF LeftOfText
  <2> QED
    BY <1>1, <2>1, <2>2
<1>3. CASE Text!uCase
  <2>1. /\ textpc = "uCase" /\ textpc' = "uCase" /\ MyString # Text!NULL
        /\ textpos < Len(MyString) /\ textpos' = textpos + 1
    BY <1>3 DEF Text!uCase
  <2>2. MyString \in Seq(Nat) /\ textpos \in Int
    BY <2>1 DEF uCaseInv, Text!NULL
  <2>3. MyString' # Text!NULL /\ Len(MyString') = Len(MyString)
    <3>1. MyString' \in Seq(Nat) /\ Len(MyString') = Len(given)
      BY <1>3, uCaseWrites
    <3>2. <<-1>> \notin Seq(Nat)
      <4> SUFFICES ASSUME <<-1>> \in Seq(Nat) PROVE FALSE
        OBVIOUS
      <4>1. <<-1>>[1] \in Nat /\ <<-1>>[1] = -1
        BY ElementOfSeq
      <4> QED
        BY <4>1
    <3>3. Len(MyString) = Len(given)
      BY <2>1 DEF uCaseInv, Text!NULL
    <3> QED
      BY <3>1, <3>2, <3>3 DEF Text!NULL
  <2> DEFINE end == Len(MyString)
  <2>4. end \in Int /\ end' = end
    BY <2>2, <2>3
  <2>5. LeftOfText = 1 + Rest(textpos, end) /\ LeftOfText' = 1 + Rest(textpos', end')
    BY <2>1, <2>3 DEF LeftOfText
  <2>6. textpos < end
    BY <2>1
  <2> HIDE DEF end
  <2>7. Rest(textpos', end') = Rest(textpos, end) - 1 /\ Rest(textpos, end) \in Nat
    BY <2>1, <2>2, <2>4, <2>6, RestFalls
  <2> QED
    BY <2>5, <2>7
<1>4. textpc \in {"uCase", "returned"}
  BY DEF uCaseInv
<1> QED
  BY <1>2, <1>3, <1>4 DEF Text!Next, Text!mallocFails, Text!malloc, Text!copy1,
     Text!copy1Ends, Text!copy2, Text!terminate, Text!Returned

LEMMA CatShortens ==
  ASSUME CatInv, Text!Next
  PROVE  LeftOfText' < LeftOfText \/ UNCHANGED Text!vars
<1>1. LeftOfText \in Nat /\ (LeftOfText = 0 <=> textpc = "returned")
  BY TextLeft
<1> DEFINE a == Len(given)
           b == Len(str2)
<1>2. a \in Nat /\ b \in Nat /\ textpc \in {"malloc", "copy1", "copy2", "returned"}
  BY DEF CatInv
<1>3. CASE Text!mallocFails \/ Text!terminate
  <2>1. textpc # "returned" /\ textpc' = "returned"
    BY <1>3 DEF Text!mallocFails, Text!terminate
  <2>2. LeftOfText' = 0
    BY <2>1 DEF LeftOfText
  <2> QED
    BY <1>1, <2>1, <2>2
<1>4. ASSUME UNCHANGED <<given, str2>> PROVE a' = a /\ b' = b
  BY <1>4
<1>5. ASSUME textpc = "copy1" PROVE textpos \in Int
  BY <1>2, <1>5 DEF CatInv, FirstTo
<1>6. ASSUME textpc = "copy2" PROVE textpos \in Int
  BY <1>2, <1>6 DEF CatInv, SecondTo
<1>7. /\ textpc = "malloc" => LeftOfText = 3 + a + b /\ textpos = 0
      /\ textpc = "copy1" => LeftOfText = 2 + Rest(textpos, a) + b
      /\ textpc = "copy2" => LeftOfText = 1 + Rest(textpos, b)
      /\ textpc' = "copy1" => LeftOfText' = 2 + Rest(textpos', a') + b'
      /\ textpc' = "copy2" => LeftOfText' = 1 + Rest(textpos', b')
  BY DEF LeftOfText, CatInv
<1>8. CASE Text!malloc
  <2>1. /\ textpc = "malloc" /\ textpc' = "copy1" /\ textpos' = textpos
        /\ UNCHANGED <<given, str2>>
    BY <1>8 DEF Text!malloc
  <2>2. a' = a /\ b' = b
    BY <1>4, <2>1
  <2> HIDE DEF a, b
  <2>3. Rest(0, a) = a
    BY <1>2 DEF Rest
  <2> QED
    BY <1>2, <1>7, <2>1, <2>2, <2>3
<1>9. CASE Text!copy1 \/ Text!copy1Ends
  <2>1. /\ textpc = "copy1" /\ UNCHANGED <<given, str2>>
        /\ \/ textpos < a /\ textpos' = textpos + 1 /\ textpc' = "copy1"
           \/ textpos = a /\ textpos' = 0 /\ textpc' = "copy2"
    BY <1>9 DEF Text!copy1, Text!copy1Ends
  <2>2. a' = a /\ b' = b /\ textpos \in Int
    BY <1>4, <1>5, <2>1
  <2> HIDE DEF a, b
  <2>3. /\ Rest(textpos, a) \in Nat /\ Rest(0, b) = b
        /\ textpos < a => Rest(textpos + 1, a) = Rest(textpos, a) - 1
    BY <1>2, <2>2 DEF Rest
  <2> QED
    BY <1>2, <1>7, <2>1, <2>2, <2>3
<1>10. CASE Text!copy2
  <2>1. /\ textpc = "copy2" /\ UNCHANGED <<given, str2>> /\ textpc' = "copy2"
        /\ textpos < b /\ textpos' = textpos + 1
    BY <1>10 DEF Text!copy2
  <2>2. b' = b /\ textpos \in Int
    BY <1>4, <1>6, <2>1
  <2> HIDE DEF a, b
  <2>3. Rest(textpos, b) \in Nat /\ Rest(textpos + 1, b) = Rest(textpos, b) - 1
    BY <1>2, <2>1, <2>2, RestFalls
  <2> QED
    BY <1>7, <2>1, <2>2, <2>3
<1> QED
  BY <1>2, <1>3, <1>8, <1>9, <1>10 DEF Text!Next, Text!uCase, Text!uCaseReturn,
     Text!Returned

LEMMA SetLeft == SetInv => LeftOfSet \in Nat /\ (LeftOfSet = 0 <=> setpc = "returned")
BY DEF SetInv, LeftOfSet, Rest

LEMMA SetShortens ==
  ASSUME SetInv, Set!Next
  PROVE  LeftOfSet' < LeftOfSet \/ UNCHANGED Set!vars
<1>1. CASE Set!Store /\ Set!NextUint16
  <2>1. setpc = "loop" /\ setpc' = "loop" /\ setpos \in 0..255
    BY <1>1 DEF Set!Store, SetInv
  <2>2. setpos' = setpos + 1
    BY <1>1, <2>1, SmallModulo DEF Set!NextUint16
  <2> QED
    BY <2>1, <2>2 DEF LeftOfSet, Rest
<1>2. CASE Set!Return
  BY <1>2, SetLeft DEF Set!Return, LeftOfSet
<1>3. CASE Set!Returned
  BY <1>3 DEF Set!Returned
<1> QED
  BY <1>1, <1>2, <1>3 DEF Set!Next

LEMMA ScrLeft == ScrInv => LeftOfScr \in Nat /\ (LeftOfScr = 0 <=> scrpc = "returned")
<1> SUFFICES ASSUME ScrInv
             PROVE  LeftOfScr \in Nat /\ (LeftOfScr = 0 <=> scrpc = "returned")
  OBVIOUS
<1> DEFINE a == Len(text)
<1>1. a \in Nat /\ len \in Nat /\ scrpos \in Nat
      /\ scrpc \in {"generate", "length", "print", "returned"}
  BY DEF ScrInv
<1>2. /\ scrpc = "generate" => LeftOfScr = 3 + Rest(scrpos, 128) + 4 * a
      /\ scrpc = "length" => LeftOfScr = 2 + Rest(len, 2 * a) + 2 * a
      /\ scrpc = "print" => LeftOfScr = 1 + Rest(scrpos, len)
      /\ scrpc = "returned" => LeftOfScr = 0
  BY DEF LeftOfScr
<1> HIDE DEF a
<1> QED
  BY <1>1, <1>2 DEF Rest

LEMMA ScrShortens ==
  ASSUME ScrInv, 2 * Len(text) <= 65535, Scr!Next
  PROVE  LeftOfScr' < LeftOfScr \/ UNCHANGED Scr!vars
<1> DEFINE a == Len(text)
<1>1. a \in Nat /\ len \in Nat /\ scrpos \in Nat
  BY DEF ScrInv
<1>2. /\ scrpc = "generate" => LeftOfScr = 3 + Rest(scrpos, 128) + 4 * a
      /\ scrpc = "length" => LeftOfScr = 2 + Rest(len, 2 * a) + 2 * a
      /\ scrpc = "print" => LeftOfScr = 1 + Rest(scrpos, len)
      /\ scrpc' = "generate" => LeftOfScr' = 3 + Rest(scrpos', 128) + 4 * a'
      /\ scrpc' = "length" => LeftOfScr' = 2 + Rest(len', 2 * a') + 2 * a'
      /\ scrpc' = "print" => LeftOfScr' = 1 + Rest(scrpos', len')
      /\ scrpc' = "returned" => LeftOfScr' = 0
  BY DEF LeftOfScr
<1>3. ASSUME text' = text PROVE a' = a
  BY <1>3
<1>4. CASE Scr!GENERATE_CHARSET
  <2>1. /\ scrpc = "generate" /\ len' = len /\ a' = a
        /\ \/ scrpos < 128 /\ scrpos' = scrpos + 1 /\ scrpc' = "generate"
           \/ scrpc' = "length"
    BY <1>3, <1>4 DEF Scr!GENERATE_CHARSET
  <2>2. Rest(len, 2 * a) <= 2 * a /\ Rest(len, 2 * a) \in Nat
    BY <1>1 DEF Rest
  <2> HIDE DEF a
  <2> QED
    BY <1>1, <1>2, <2>1, <2>2 DEF Rest
<1>5. CASE Scr!length \/ Scr!lengthEnds
  <2>1. /\ scrpc = "length" /\ a' = a /\ scrpos' = scrpos
        /\ \/ Scr!Unit(len) # 0 /\ scrpc' = "length" /\ len' = len + 2
           \/ scrpc' = "print" /\ len' = len
    BY <1>3, <1>5 DEF Scr!length, Scr!lengthEnds, Scr!StepOf
  <2>2. PICK m \in 0..a : len = 2 * m
    BY DEF ScrInv
  <2>3. Scr!Unit(len) # 0 => m # a
    BY <2>2, Units DEF ScrInv
  <2>4. scrpos = 0
    BY <2>1 DEF ScrInv
  <2> HIDE DEF a
  <2>5. CASE Scr!Unit(len) # 0 /\ scrpc' = "length" /\ len' = len + 2
    <3>1. len < 2 * a /\ len + 2 <= 2 * a
      BY <1>1, <2>2, <2>3, <2>5
    <3> QED
      BY <1>1, <1>2, <2>1, <2>5, <3>1 DEF Rest
  <2>6. CASE scrpc' = "print" /\ len' = len
    <3>1. len <= 2 * a
      BY <1>1, <2>2
    <3> QED
      BY <1>1, <1>2, <2>1, <2>4, <2>6, <3>1 DEF Rest
  <2> QED
    BY <2>1, <2>5, <2>6
<1>6. CASE Scr!print
  <2>1. /\ scrpc = "print" /\ scrpc' = "print" /\ len' = len /\ scrpos < len
        /\ scrpos' = (scrpos + 1) % 65536
    BY <1>6 DEF Scr!print
  <2>2. len <= 65535
    BY <2>1 DEF ScrInv
  <2>3. scrpos' = scrpos + 1
    BY <1>1, <2>1, <2>2, SmallModulo
  <2> HIDE DEF a
  <2> QED
    BY <1>1, <1>2, <2>1, <2>3 DEF Rest
<1>7. CASE Scr!Return
  <2>1. scrpc = "print" /\ scrpc' = "returned"
    BY <1>7 DEF Scr!Return
  <2> HIDE DEF a
  <2> QED
    BY <1>1, <1>2, <2>1 DEF Rest
<1>8. CASE Scr!Returned
  BY <1>8 DEF Scr!Returned
<1> QED
  BY <1>4, <1>5, <1>6, <1>7, <1>8 DEF Scr!Next

LEMMA TextOfTexts == CallsSpec => [](callee = "t.c main" => text \in Texts)
<1>1. CallsInit => (callee = "t.c main" => text \in Texts)
  BY DEF CallsInit, Scr!Init
<1>2. (callee = "t.c main" => text \in Texts) /\ [CallsNext]_allVars
        => (callee = "t.c main" => text \in Texts)'
  <2>1. [CallsNext]_allVars => UNCHANGED <<callee, text>>
    <3>1. UNCHANGED allVars => UNCHANGED <<callee, scrVars>>
      BY DEF allVars
    <3>2. UNCHANGED scrVars => text' = text
      BY DEF scrVars
    <3>3. Scr!Next => text' = text
      BY DEF Scr!Next, Scr!GENERATE_CHARSET, Scr!length, Scr!lengthEnds, Scr!print,
             Scr!Return, Scr!Returned, Scr!vars
    <3> QED
      BY <3>1, <3>2, <3>3 DEF CallsNext
  <2> QED
    BY <2>1
<1> QED
  BY <1>1, <1>2, PTL DEF CallsSpec

CallsInv ==
  /\ LoopInv /\ HexOrIdle /\ TextInv /\ SetInv
  /\ callee = "t.c main" => ScrInv /\ text \in Texts

(* A step of the call is a step of its function that changes something.    *)
TableCall ==
  /\ callee = "Charset" /\ Left = Rest(i, Slots) /\ Left' = Rest(i', Slots)
  /\ i < Slots /\ i' = i + 1 /\ (CallReturned' <=> i' = Slots)
HexCall ==
  /\ callee = "StrToHex" /\ Left = LeftOfHex /\ Left' = LeftOfHex'
  /\ Hex!Program /\ (CallReturned' <=> hexpc' = "returned")
TextCall ==
  /\ callee = "uCase or cat" /\ Left = LeftOfText /\ Left' = LeftOfText'
  /\ Text!Next /\ ~UNCHANGED Text!vars /\ (CallReturned' <=> textpc' = "returned")
SetCall ==
  /\ callee = "test.c Charset" /\ Left = LeftOfSet /\ Left' = LeftOfSet'
  /\ Set!Next /\ ~UNCHANGED Set!vars /\ (CallReturned' <=> setpc' = "returned")
ScrCall ==
  /\ callee = "t.c main" /\ Left = LeftOfScr /\ Left' = LeftOfScr'
  /\ Scr!Next /\ ~UNCHANGED Scr!vars /\ (CallReturned' <=> scrpc' = "returned")

LEMMA CallSteps ==
  ASSUME CallsNext, allVars' # allVars
  PROVE  callee' = callee /\ (TableCall \/ HexCall \/ TextCall \/ SetCall \/ ScrCall)
<1>1. callee' = callee
  BY DEF CallsNext
<1>2. CASE callee = "Charset" /\ Next /\ UNCHANGED <<hexVars, textVars, setVars, scrVars>>
  <2>1. Store
    BY <1>1, <1>2, Zenon DEF allVars, Next, Returned
  <2>2. i < Slots /\ i' = i + 1
    BY <2>1 DEF Store
  <2>3. Left = Rest(i, Slots) /\ Left' = Rest(i', Slots) /\ (CallReturned' <=> i' = Slots)
    BY <1>1, <1>2 DEF Left, CallReturned
  <2>4. TableCall
    BY <1>2, <2>2, <2>3, Zenon DEF TableCall
  <2> QED
    BY <1>1, <2>4, Zenon
<1>3. CASE callee = "StrToHex" /\ Hex!Next /\ UNCHANGED <<vars, textVars, setVars, scrVars>>
  <2>1. ~UNCHANGED hexVars
    BY <1>1, <1>3, Zenon DEF allVars
  <2>2. Hex!Program
    BY <1>3, <2>1, Zenon DEF hexVars, Hex!vars, Hex!Next, Hex!Returned
  <2>3. /\ Left = LeftOfHex /\ Left' = LeftOfHex'
        /\ (CallReturned' <=> hexpc' = "returned")
    BY <1>1, <1>3 DEF Left, CallReturned
  <2>4. HexCall
    BY <1>3, <2>2, <2>3, Zenon DEF HexCall
  <2> QED
    BY <1>1, <2>4, Zenon
<1>4. CASE callee = "uCase or cat" /\ Text!Next
             /\ UNCHANGED <<vars, hexVars, setVars, scrVars>>
  <2>1. ~UNCHANGED Text!vars
    BY <1>1, <1>4, Zenon DEF allVars, textVars, Text!vars
  <2>2. /\ Left = LeftOfText /\ Left' = LeftOfText'
        /\ (CallReturned' <=> textpc' = "returned")
    BY <1>1, <1>4 DEF Left, CallReturned
  <2>3. TextCall
    BY <1>4, <2>1, <2>2, Zenon DEF TextCall
  <2> QED
    BY <1>1, <2>3, Zenon
<1>5. CASE callee = "test.c Charset" /\ Set!Next
             /\ UNCHANGED <<vars, hexVars, textVars, scrVars>>
  <2>1. ~UNCHANGED Set!vars
    BY <1>1, <1>5, Zenon DEF allVars, setVars, Set!vars
  <2>2. /\ Left = LeftOfSet /\ Left' = LeftOfSet'
        /\ (CallReturned' <=> setpc' = "returned")
    BY <1>1, <1>5 DEF Left, CallReturned
  <2>3. SetCall
    BY <1>5, <2>1, <2>2, Zenon DEF SetCall
  <2> QED
    BY <1>1, <2>3, Zenon
<1>6. CASE callee = "t.c main" /\ Scr!Next
             /\ UNCHANGED <<vars, hexVars, textVars, setVars>>
  <2>1. ~UNCHANGED Scr!vars
    BY <1>1, <1>6, Zenon DEF allVars, scrVars, Scr!vars
  <2>2. /\ Left = LeftOfScr /\ Left' = LeftOfScr'
        /\ (CallReturned' <=> scrpc' = "returned")
    BY <1>1, <1>6 DEF Left, CallReturned
  <2>3. ScrCall
    BY <1>6, <2>1, <2>2, Zenon DEF ScrCall
  <2> QED
    BY <1>1, <2>3, Zenon
<1> QED
  BY <1>2, <1>3, <1>4, <1>5, <1>6, Zenon DEF CallsNext

(* Whatever string, position and count they are given, the functions come  *)
(* to the end of their loops: no step leaves as much to do as there was,   *)
(* and nothing is left exactly at the return.                              *)
THEOREM CallsRunOut == ShortTexts /\ CallsSpec => LoopsRunOut
<1> SUFFICES ASSUME ShortTexts PROVE CallsSpec => LoopsRunOut
  OBVIOUS
<1> DEFINE Shorter == /\ Left \in Nat /\ Left' \in Nat /\ Left' < Left
                      /\ Left' = 0 <=> CallReturned'
<1>1. CallsInv /\ CallsInv' /\ [CallsNext]_allVars => [Shorter]_allVars
  <2> SUFFICES ASSUME CallsInv, CallsInv', CallsNext, allVars' # allVars PROVE Shorter
    BY Zenon
  <2>1. CASE TableCall
    <3>1. LoopInv /\ (CallReturned' <=> i' = Slots)
      BY <2>1, Zenon DEF CallsInv, TableCall
    <3>2. i \in Int /\ i < Slots /\ i' = i + 1 /\ Slots \in Int
      <4>1. i \in Int /\ Slots \in Int
        BY <3>1, SlotsAssumption DEF LoopInv
      <4> QED
        BY <2>1, <4>1, Zenon DEF TableCall
    <3>3. Left = Rest(i, Slots) /\ Left' = Rest(i', Slots)
      BY <2>1, Zenon DEF TableCall
    <3>4. /\ Rest(i, Slots) \in Nat /\ Rest(i', Slots) \in Nat
          /\ Rest(i', Slots) < Rest(i, Slots) /\ (Rest(i', Slots) = 0 <=> i' = Slots)
      BY <3>2 DEF Rest
    <3> QED
      BY <3>1, <3>3, <3>4, Zenon
  <2>2. CASE HexCall
    <3>1. HexInv' => (LeftOfHex \in Nat /\ (LeftOfHex = 0 <=> hexpc = "returned"))'
      BY HexLeft, PTL
    <3>2. HexInv /\ HexInv'
      BY <2>2, CallSteps, Zenon DEF HexCall, CallsInv, HexOrIdle
    <3>3. LeftOfHex \in Nat /\ LeftOfHex' < LeftOfHex
      BY <2>2, <3>2, HexLeft, HexShortens, Zenon DEF HexCall
    <3> QED
      BY <2>2, <3>1, <3>2, <3>3, Zenon DEF HexCall
  <2>3. CASE TextCall
    <3>1. (uCaseInv \/ CatInv)'
            => (LeftOfText \in Nat /\ (LeftOfText = 0 <=> textpc = "returned"))'
      BY TextLeft, PTL
    <3>2. textpc # "idle"
      BY <2>3, TextRuns, Zenon DEF TextCall
    <3>3. uCaseInv \/ CatInv
      BY <3>2, Zenon DEF CallsInv, TextInv
    <3>4. (uCaseInv \/ CatInv)'
      BY <2>3, <3>3, uCaseStep, CatStep, Zenon DEF TextCall
    <3>5. LeftOfText \in Nat /\ LeftOfText' < LeftOfText
      BY <2>3, <3>3, TextLeft, uCaseShortens, CatShortens, Zenon DEF TextCall
    <3> QED
      BY <2>3, <3>1, <3>4, <3>5, Zenon DEF TextCall
  <2>4. CASE SetCall
    <3>1. SetInv' => (LeftOfSet \in Nat /\ (LeftOfSet = 0 <=> setpc = "returned"))'
      BY SetLeft, PTL
    <3>2. LeftOfSet \in Nat /\ LeftOfSet' < LeftOfSet
      BY <2>4, SetLeft, SetShortens, Zenon DEF SetCall, CallsInv
    <3> QED
      BY <2>4, <3>1, <3>2, Zenon DEF SetCall, CallsInv
  <2>5. CASE ScrCall
    <3>1. ScrInv' => (LeftOfScr \in Nat /\ (LeftOfScr = 0 <=> scrpc = "returned"))'
      BY ScrLeft, PTL
    <3>2. ScrInv /\ text \in Texts
      BY <2>5, Zenon DEF ScrCall, CallsInv
    <3>3. ScrInv'
      <4>1. callee' = "t.c main"
        BY <2>5, CallSteps, Zenon DEF ScrCall
      <4> QED
        BY <4>1, Zenon DEF CallsInv
    <3>4. 2 * Len(text) <= 65535
      BY <3>2, SMT DEF ShortTexts
    <3>5. Scr!Next /\ ~UNCHANGED Scr!vars
      BY <2>5, Zenon DEF ScrCall
    <3>6. LeftOfScr' < LeftOfScr
      BY <3>2, <3>4, <3>5, ScrShortens, SMT
    <3>7. LeftOfScr \in Nat /\ LeftOfScr' \in Nat /\ (LeftOfScr' = 0 <=> scrpc' = "returned")
      BY <3>1, <3>2, <3>3, ScrLeft, Zenon
    <3>8. Left = LeftOfScr /\ Left' = LeftOfScr' /\ (CallReturned' <=> scrpc' = "returned")
      BY <2>5, Zenon DEF ScrCall
    <3> QED
      BY <3>6, <3>7, <3>8, Zenon
  <2> QED
    BY <2>1, <2>2, <2>3, <2>4, <2>5, CallSteps, Zenon
<1>2. CallsSpec => []CallsInv
  BY LoopInvariant, HexInvariant, TextInvariant, SetInvariant, ScrInvariant, TextOfTexts,
     PTL DEF CallsInv
<1> QED
  BY <1>1, <1>2, PTL DEF CallsSpec, LoopsRunOut
=============================================================================
