----------------------------- MODULE ConsoleInput -----------------------------
(***************************************************************************)
(* The firmware's console input as the programs use it through             *)
(* SIMPLE_INPUT_INTERFACE: a bounded buffer of keystrokes that the user    *)
(* fills and ReadKeyStroke empties, one keystroke a call, without waiting. *)
(* External: the code is the firmware's, the behaviour is the one the      *)
(* callers rely on.                                                        *)
(***************************************************************************)
EXTENDS Integers, Sequences

CONSTANTS
  Keyboard,     \* the keystrokes the user may type
  Residue,      \* what an EFI_INPUT_KEY on the stack may hold unwritten
  MaxQueue,     \* capacity of the firmware's keystroke buffer
  ReadMayFail   \* whether ReadKeyStroke may return EFI_DEVICE_ERROR

VARIABLE kq     \* keystrokes typed and not read yet, oldest first

(* An EFI_INPUT_KEY; a keystroke has a character or a scan code.           *)
InputKey == [ScanCode : 0..65535, UnicodeChar : 0..65535]
Char(c)  == [ScanCode |-> 0, UnicodeChar |-> c]
Scan(s)  == [ScanCode |-> s, UnicodeChar |-> 0]
NUL      == Char(0)

(* A local EFI_INPUT_KEY that no call has written.                         *)
Uninit == [ScanCode |-> -1, UnicodeChar |-> -1]

CHAR_CARRIAGE_RETURN == 13
SCAN_UP   == 1
SCAN_DOWN == 2
SCAN_ESC  == 23

ASSUME KeyboardAssumption == Keyboard \subseteq InputKey
ASSUME ResidueAssumption  == Residue \subseteq InputKey
ASSUME QueueAssumption    == MaxQueue \in Nat \ {0}
ASSUME FailureAssumption  == ReadMayFail \in BOOLEAN

KeysInit == kq = <<>>

KeysTypeOK == kq \in Seq(Keyboard) /\ Len(kq) <= MaxQueue

(* The user types; a keystroke that finds the buffer full is dropped.      *)
Type(k) == Len(kq) < MaxQueue /\ kq' = Append(kq, k)

(* WaitForEvent on WaitForKey returns once a keystroke is buffered, and    *)
(* leaves it there.                                                        *)
WaitForKey == kq # <<>>

(* ReadKeyStroke leaves k in a key variable that held old: the oldest      *)
(* keystroke, or, with EFI_NOT_READY or EFI_DEVICE_ERROR, what was there   *)
(* or zero.  No caller looks at the status.                                *)
ReadKeyStroke(old, k) ==
  \/ kq # <<>> /\ k = Head(kq) /\ kq' = Tail(kq)
  \/ /\ kq = <<>> \/ ReadMayFail
     /\ k = NUL \/ (IF old = Uninit THEN k \in Residue ELSE k = old)
     /\ UNCHANGED kq

(* The values a key variable may hold after a read.                        *)
KeyValue == Keyboard \cup Residue \cup {NUL}
=============================================================================
