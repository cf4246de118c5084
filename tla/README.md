# ZeroProcHot in TLA+

ZeroProcHot is a family of small UEFI programs that read and write bit 0
(BD_PROCHOT) of the model specific register `0x1FC`. This directory holds TLA+
models of them, TLC configurations that check the models on small instances,
and TLAPS proofs of what matters most for every value of the constants.

Run everything from this directory:

    tlc -workers 2 -config ZPH_program.cfg MCZeroProcHot
    tlapm ZeroProcHotProofs.tla

## 1. The system

| Component | Source | State it keeps | Operations |
|---|---|---|---|
| Interactive program | `ZeroProcHot_tmp.c` (`ZeroProcHot.c` is a later edit of it that does not compile: `void print()` at line 39 lacks its semicolon and its definition) | MSR 0x1FC, the locals of the function that runs (`key`, `i`, `choice`, `val`/`nval`), the screen | countdown `toMsg`, `menuloop`/`menu`, `choose`, `read_0x1fc`, `set_ProcHot`, `clear_ProcHot`, `ConfirmAndWrite` |
| MSR access | `AsmReadMsr64`, `AsmWriteMsr64`, `strRow`, the masks | none | split a 64-bit value in `edx:eax`, join it, mask it, print its bits |
| Fast driver | `ZeroProcHot_fast.c` | MSR 0x1FC, globals `low`, `high` | `rdmsr`, test, `wrmsr`, `rdmsr` |
| Console input (external) | used through `SIMPLE_INPUT_INTERFACE`, `WaitForEvent` | the firmware's bounded keystroke buffer | the user types, `WaitForKey`, `ReadKeyStroke` |
| Console output (external) | used through `SIMPLE_TEXT_OUTPUT_INTERFACE` | the texts on the screen, or what is left of them, and the cursor | `OutputString`, `SetCursorPosition`, `Reset`, scrolling |
| MSREdit | `MSREdit.c`, `libMSREdit.c` | `selected`, `current`, `keyint`, the arrows, the poll counter | `menu`, `printMenu`, `PrintXY`, two versions of `HexBoard`, `KeyTimeout` |
| Character table | `Charset()` in `MSREdit.c`, `libMSREdit.c` | `CHARSETZERO`, `CHARSET` | one loop that stores characters and pointers |
| test.c helpers | `test.c` | `CHARSET`, `pCHRS`, `rMenu` | `StrToHex`, `uCase`, `cat`, `Charset`, `menu` |
| Build and install scripts | `build*.sh`, `as`, `makefile` | the `.o`, `.so`, `.efi` files and the installed image | `gcc`, `ld`, `objcopy`, `cp` |
| Scratch program | `t.c` | `CHARSET`, a loop's index | `GENERATE_CHARSET`, `print` |
| Experiments | `fuck.c`, `idiotic.c`, `sprintest.c`, `double.c`, `float.c` | none that lasts | print fixed text |
| Vendored headers | `headers/` | none | declarations |

How they interact. Each UEFI program is one thread of control. It shares two things
with others: the keystroke buffer, which the firmware fills whenever the user
types and from which the program takes keys at four different places, and the
register, which system management code may change between any two
instructions. There is no other memory, nothing is persisted and nothing is
locked. The build scripts run one at a time on the developer's machine and
interact through the files they leave: three of them write the same
`ZeroProcHot.c.o`, two the same image, and two install under the same name.

What is hard, with the lines in `PROJECT.json` under `hazards`:

- *a stale read-modify-write*: `set_ProcHot` and `clear_ProcHot` read 64 bits,
  wait for a keystroke as long as the user likes, and write the old value back;
- *type-ahead*: keys are consumed by whichever wait comes next, so a key may
  answer a prompt that was not on the screen when it was typed, and the key that
  dismisses the value view is left in the buffer and becomes a menu command;
- *unchecked reads*: no caller looks at the status of `ReadKeyStroke`; an
  unwritten or old key variable is tested as if it were a key;
- *printing takes time*: the register is read once and then up to four rows of 64
  bits are printed one character at a time; a key may arrive during a stall, and
  the register may change, between any two of these calls;
- *a screen that is not the program's*: the interactive program clears the
  screen before it writes to the register, MSREdit never clears it and prints at
  fixed places over what the shell left;
- *timeouts racing keys*: a countdown that samples the keyboard ten times and
  then decides;
- *two residues of the same number*: the marked row is `(choice+3)%4`, the item
  that runs is `choice`; in MSREdit a digit may lie beyond the modulus;
- *scripts that do not stop*: a failed command leaves an old file, or none, under
  a name that the next command, or another script, then takes as its input;
- *widths*: 64-bit values in 32-bit halves, 32- and 64-bit masks, an `int` shift
  where `1ULL` is needed.

What makes each component correct:

- interactive program: it changes no bit but BD_PROCHOT; what it shows (header,
  arrow, table, messages) is true at every moment it can be read, complete and
  aligned; it writes what it showed; waits and messages end;
- fast driver: the bit is clear on return and the other bits are kept;
- MSREdit: there is one arrow on the screen, and with the library's `HexBoard` the
  item under it is the one returned (with the program's own only for Esc, since Up and
  Down do not move the arrow there); the menu's labels stand whole; every keystroke is
  read; the user can leave;
- character table: one string per printable character, each terminated, with
  labels that are the keys they stand for;
- test.c helpers: the number the digits spell, a block that is filled to its last
  element, no lower-case letter left, and loops that end;
- build scripts: a script without a failed command installs what it compiled; no
  interruption puts an older image in the place of a newer one, and a failure only
  where scripts make the same file in different ways.

## 2. The modules

| Module | Models | Notes |
|---|---|---|
| `MsrWord` | MSR access and masks | a value is the set of its 1-bits, so 64-bit words need no big integers |
| `ConsoleInput` | the firmware's keystroke buffer | external: modelled from how the programs use it |
| `ConsoleOutput` | the firmware's text console | external: texts at places, what is left of one when another is written over it, scrolling at the last line |
| `MsrRegister` | MSR 0x1FC: the values it may start with, the platform's bits | the constants shared by the next four |
| `ProcHotSwitch` | the abstract promise: read, fix a target, write it or give up | what both programs implement |
| `ZeroProcHot` | `ZeroProcHot_tmp.c` | `EXTENDS MsrRegister, ConsoleInput`; refinement mapping `Switch` |
| `ZeroProcHotCalls` | `ZeroProcHot.c`, call by call | `EXTENDS MsrRegister, ConsoleInput, ConsoleOutput`; refinement mapping `Whole` to `ZeroProcHot` |
| `ZeroProcHotFast` | `ZeroProcHot_fast.c` | `EXTENDS MsrRegister`; refinement mapping `Switch` |
| `HexDigit` | the digits `HexBoard` accepts | shared by `MSREdit`, `Charset` and `StrToHex` |
| `MSREdit` | `menu`, `HexBoard`, `KeyTimeout` | `board`, chosen from `Linked`, is the `HexBoard` it is linked with |
| `MSREditScreen` | what `MSREdit.c` prints, and where | `EXTENDS MSREdit, ConsoleOutput`; every step of the menu with its output |
| `CharsetTable` | the character of a slot | shared by `Charset` and `ScratchPrint` |
| `Charset` | `Charset()` | one action per round of the loop |
| `StrToHex` | `StrToHex` of `test.c` | one action per character |
| `TestStrings` | `uCase` and `cat` of `test.c` | one action per element |
| `TestCharset` | `Charset` of `test.c` | `(i&&1)` as written |
| `ScratchPrint` | `t.c` | the units of a wide literal, one action per unit |
| `Helpers` | a call of one of these five | composes them; the functions that are not called do not move |
| `BuildInstall` | the build scripts, `as` included | one action for each kind of command, its failure, an interruption, an edit |
| `MC*` | instances for TLC | keyboards, register values, strings, sets of scripts |
| `*Proofs` | theorems and proofs | one per component |

Definitions called "a mutant" in a comment are not part of a specification:
each is what a plausible mistake would make of the definition after it, and
`PROJECT.json` names the property that then fails.

**ZeroProcHot.** `pc` says which function waits or runs: `poll` (the loop of
`toMsg`), `draw` and `menu` (`menuloop` before and at its wait), `choose`,
`view` (the wait of `choose(1)`), `confirm` (the wait of `ConfirmAndWrite`) and
`done`. Every stretch of code between two points where the user or the
platform can be noticed is one action: reading a key and branching on it is one
action, and so is reading the register, computing and printing the table.
`ConfirmWrite` includes `wrmsr` and the entry into `toMsg`. The key variables
are locals: each call starts with `Uninit`, and `ReadKeyStroke` without a key
yields the old content, zero, or for an unwritten variable any value of
`Residue`. The menu item that `choose` receives and the one of `menuloop` are
the same variable because one is the result of the other. Stalls and texts are
left out, `i%5` dots included; the one piece of text that is kept is the rows of
bits, because a property is about them.

**ZeroProcHotCalls.** The same program, from `ZeroProcHot.c`, with every call that
others can act before or after as a step: each `OutputString`, `rdmsr`, `wrmsr`,
`WaitForEvent`, `ReadKeyStroke`, `Reset` and `Stall`. The strings that a function
prints are put in `out` by the step that fixes them, and `OutputNext` prints one at a
time; control goes on when `out` is empty. `con` is the console. The texts the
program prints have names (`Printed`); how wide each is on the console is the
constant operator `Width`, of which `WidthAssumption` says what the layout depends
on: every text fits on a line, a bit is one column, the heads of the rows are equally
wide. `LinesAssumption` asks for the 20 lines that the menu, the table and the
question take: on fewer, the console scrolls and the rows are not where the program
puts them. The refinement
mapping takes each call to the stretch of `ZeroProcHot` it belongs to. Three things
in it are worth knowing. `screen` of `ZeroProcHot` says what is shown as if printing
took no time; here it is `drawn`, a history variable that is set by `rdmsr`, and
`ScreenAsDrawn` says that the console catches up with it. An answer that was read
from the buffer and not acted on yet is, abstractly, still in the buffer
(`WholeKq == taken \o kq`), because `ZeroProcHot` reads, decides and writes in one
step; so the abstract buffer holds one key more. And a poll that is over and
stalls is, abstractly, the next one.

**ZeroProcHotFast.** `rdmsr`, the test, `wrmsr` and the second `rdmsr` are three
actions with room for the platform between them.

**ProcHotSwitch.** `Begin(o)` reads the register and fixes `target`; `Commit`
writes it; `Cancel` forgets it; `Firmware` gives the bits of `FirmwareBits` any
value. A bit of the platform that changes between `Begin` and `Commit` is put
back to its old value: this is the lost update that the programs allow, and
stating it here keeps it in sight. All other bits are never changed.

**MSREdit.** `menu()` in `MSREdit.c` leaves its loop on 254 or 255, which the
`HexBoard` of `libMSREdit.c` returns for Esc and Enter. The `HexBoard` of
`MSREdit.c`, which is the one that is linked, never returns them. Both are
modelled behind the same `menu()`. Line 125 of `MSREdit.c` names an undeclared
`select`; it is read as the array `slct` declared a few lines above for this
use.

**MSREditScreen.** The steps of `MSREdit` joined with what they print. Nothing clears
the screen, so `Shell` is the set of consoles the program may be started on, those
with prompts on the menu's rows included; the menu is drawn by `Start`, the arrows by
each `SelectShown`, and the result by the key that ends the menu, wherever the cursor
stands. A text takes only the columns it is printed on: what the shell had there, or
`HEAD0` where it was printed on a row of the menu, stays readable beside it, so that row
14 may read `F0. ExitEdit.efi`. `MenuShown` says that the labels and the result stand
whole, `RemainsBeside` where the rest may stand: behind a label, and in the column
between the arrow and the digit. As the program never clears that, it is there to stay.
`Charset()` is a table here (`CHARSET`), since `Charset` is about how it is made.

**StrToHex, TestStrings, TestCharset, ScratchPrint, Helpers.** Each loop is an action per
round. A C string is the sequence of its characters before the terminator; an
index equal to its length is the terminator, and `StrToHex` reads it as one more
character that is no digit. The two `if`s for `a..f` and `A..F` exclude each
other and are one action with that of the digits. What it should return is stated apart
from the loop: `Wanted` is the set of places of the first `NumChars` digits at or after
`Pos`, and `Spelled` the number that they spell. `malloc` may fail; the block
holds `Garbage` until it is written. `cat` widens `char`, which is signed with
gcc on x86: bytes beyond 127 become characters from U+FF80 on. `t.c` passes a
literal of four-byte characters as one of two-byte units, and `print` adds the size
of a unit to an index: the two make up for each other, which `PrintsText` says. The
index of `print` is a `UINT16` and wraps: a literal of more than 65535 bytes would be
printed for ever, and `PrintsText` is about those that end.

**BuildInstall.** A script is the list of the files it writes (`chain`), each made
from the one before: `gcc`, then `ld`, `objcopy`, and one or two `cp`. A file
holds the source it was compiled from and when. A command succeeds (`gcc`,
`Convert`, `cp`) or fails (`Fail`), and the script goes on in either case, as
scripts without `set -e` do; it may be interrupted before any command, and the
developer may edit the sources at any time, also between two commands. What a
failing tool leaves behind is external; the model allows that it keeps the old
output, removes it, or, for `cp`, spoils it. The second `cp` of `build.zig.sh`
reads the image back from the partition, so that it is one more link of the
chain. The partition's directory of `build.c.sh` and the one given to
`build.zig.sh` as `$1` are taken to be different.

## 3. The runs

| Run | Instance | Shows |
|---|---|---|
| `zph_program` | all 12 keys, buffer of 1, reads may fail, any residue, 4 register values, platform bits 1 and 32, 2 polls | the inductive invariant, `MenuScreenTrue`, `MessageTrue`, `PromptTrue`, `ResultShownIsWritten`, `ImplementsSwitch`, `StableBitsKept` |
| `zph_calls` | 6 keys, buffer of 1, platform bit 33, 6 and 2 polls, 80 x 25, fair | `Handover`, `ShownBitTrue`, `ScreenAsDrawn`, `BitsAligned`, `OnScreen`, `ImplementsZeroProcHot`, `EscWithinReach` |
| `zph_live` | 5 keys, buffer of 2, 2 polls, fair | `MessagesEnd`, `BufferDrains`, `EscWithinReach`, `ViewKeyIsCommand` |
| `zph_uninit` | Esc only, residue may look like Esc | *violation*: the menu opens without a key |
| `zph_noanswer` | reads may fail | *violation*: the register is written without an answer |
| `fast` | every value over 6 bits, platform bits 1 and 33, fair | `EndsCleared`, `ImplementsSwitch`, `Returns` |
| `edit_menu` | 11 keys, buffer of 2, either `HexBoard`, 80 x 25, a shell used for 1, 12 or 24 rows, fair | `MenuShown`, `RemainsBeside`, `ArrowsShown`, `ArrowIsTaken`, `KeysAreRead`, `LibMenuEnds` |
| `edit_exit` | 6 keys, the `HexBoard` of `MSREdit.c`, fair | *violation*: the menu never ends |
| `helpers` | the 128 and 256 slots of the code; hexadecimal strings of up to 4 characters, texts of up to 3, bytes on both sides of the sign | `OneCharStrings`, `TableComplete`, `ValueOfDigits`, `Concatenated`, `LowerGone`, `PrintsText`, `CallsReturn` |
| `helpers_upper` | the same | *violation*: `uCase` does not make capitals |
| `helpers_pointers` | the same | *violation*: `Charset` of `test.c` sets one of its pointers |
| `build_shared` | `build.tmp.sh`, `build.zig.sh`, `build.c.sh ZeroProcHot`; 2 states of the sources | the inductive invariant, `SuccessIsFresh`, `NeverOlder`, `OlderOnlyAfterFailure` |

Bounds, and why they are enough.

- `MaxQueue` is 1 or 2. The program takes one key at a time and never looks
  further; with one slot a key can already be waiting before every prompt
  (type-ahead), and two are needed only where keys queue behind each other
  (`EscWithinReach`, `LibMenuEnds`).
- `OpenPolls` and `MessagePolls` are 1 or 2 instead of 10 and 20, `ExitPolls` 2
  instead of 1000: first poll, later poll and the exhausted loop all occur. In
  `zph_calls` the countdown has 6, one more than the 5 after which it prints a dot.
- `Columns` and `Lines` are those of the console's mode 0, and a text takes as many
  columns as it has characters. `zph_calls` has one initial register value, but
  the program sets and clears bit 0 and the platform bit 33, so that header and rows
  show every combination; reads do not fail there, since `zph_program` has that.
- A shell used for 1, 12 or 24 rows leaves the cursor above the menu, on it, or on
  the last line, with prompts on none, some or all of the menu's rows.
- Register values contain bit 0 or not and the bits at the borders of the halves
  (1, 31, 32, 33, 63). Rows and masks are checked at their full 64 columns.
- Keys: one for each way the code branches, and `Y` for all the others.
- `Width` is 3 hexadecimal digits instead of 16, with counts from 0 to 4: a count
  of none, some, all, and one too many. Strings are made of the characters at the
  borders of each range; no function looks at two of them together.
- `MaxTime` is 2: old and new are all the properties tell apart.
- `build_shared` runs two scripts that share an object and two that install the same
  file from different objects. `as`, which shares the object and the image of
  `build.zig.sh`, is left out: with four scripts TLC needs much longer than the five
  minutes a run should take. The theorems `BuildSuccess`, `BuildOlderOnlyAfterFailure` and
  `ZigNeverOlder` hold with it.

Most of the proofs have none of these bounds; each theorem says what it is for.

**Fairness.** `FairSpec` is weak fairness of the program's own actions: the
processor keeps executing it. Nothing is assumed of the user or the platform, so
that the liveness properties hold for a user who never types, and stalls are
finite. Waits are actions that are not enabled, hence not owed, until a key is
there. `FairScreenSpec` and the `FairSpec` of `ZeroProcHotCalls` say the same of the
programs with their output; printing is the program's own step. `CallsSpec` asks it
of the function that was called. The build
scripts have no fairness: the developer may stop at any point.

**What the violations say.** Five places where the code does something else than
its own texts say; all are listed under `findings` with the line and the
quotation: `toMsg` tests a key that was never written, `ConfirmAndWrite` takes a
failed read for a yes, MSREdit's menu cannot be left, `uCase` adds the
distance between the cases instead of subtracting it, and in `Charset` of `test.c`
`(i&&1)`, true from the second round on, leaves 127 of the 128 pointers unset.

**What holds only in part.** `build.c.sh ZeroProcHot` and `build.tmp.sh` install under the
same name from different objects, so that a failed compilation in the first may put
an older image over the second's. `NeverOlder` is about the files of `Sole`, where the
scripts agree, and that file is not one of them; `OlderOnlyAfterFailure` is about every
file, and says that only a run with a failed command does this.
With the `HexBoard` that MSREdit.c is linked with, the item Enter returns need not be the
one under the arrow; `ArrowIsTaken` states what is left, and no text in the repository
says what should be.
An Esc that is typed in the last 100 ms of the countdown, when no poll is left, is not
honoured; `EscWithinReach` is about those that come earlier.

## 4. The proofs

All are checked by `tlapm` to the last leaf. Assumptions are the named `ASSUME`s
of the modules: keys are keys, the buffer has at least one slot, poll counts are
positive, register values and platform bits are within 64 bits, and the console is
large enough for the texts (`WidthAssumption`, `ColumnsAssumption`, `LinesAssumption`
and `RowsAssumption`, which TLC evaluates for 80 x 25). The shell starts MSREdit with the
cursor where `HEAD0` fits on the line (`ShellAssumption`).

- `MsrWordProofs`: splitting and joining loses nothing (`SplitJoin`,
  `ReadWriteExact`), the 32-bit mask in the low half clears bit 0 of the whole
  (`MaskLowHalf`), a printed row shows its value (`RowShowsValue`).
- `ProcHotSwitchProofs`: `Spec => []IInv` and `Spec => StableBitsKept`. That a
  write keeps the stable bits is not visible from `Commit`; it needs that the
  target stayed fresh on them (`TargetFresh`), which every step, the platform's
  included, preserves.
- `ZeroProcHotProofs`: the invariant `IInv` is `TypeOK`, the three statements
  about what is shown, and `RowsCleared`. `PromptTrue` alone is not inductive:
  that the table has exactly three rows needs that the screen was cleared
  before (`RowsCleared`), and `MessageTrue` after a write needs that the waiting
  value has the bit its message announces, which is part of `PromptTrue`. From
  `IInv` follow `MenuIsTrue`, `MessageIsTrue`, `PromptIsTrue`, `WrittenAsShown`, `ProgramImplementsSwitch` and
  `ProgramKeepsStableBits`. They hold with reads that fail and with any stack
  residue.

  Two theorems say how far the violations of section 3 reach. `AnswerWrites`: while
  reads do not fail, every write takes an answer off the keyboard, and not a refusal; so
  what `zph_noanswer` finds needs a failing read. `KeyOpensMenu`: while no unwritten key
  variable holds a key that ends the countdown, the menu opens for a typed key only,
  even when reads fail; so what `zph_uninit` finds needs such a residue. Its invariant
  is `KeyPassedOver`: a key that the countdown goes on with did not end it.

  Four more are the safety behind liveness properties. `EscIsHonoured`: while reads do not
  fail, an Esc that has fewer keys before it than polls are left stays within reach of them,
  whatever is typed behind it, until it opens the menu (for `EscWithinReach`). `ViewLeavesKey`: the
  key that ends the value view is neither read nor overtaken before the menu waits for
  one (for `ViewKeyIsCommand`). `MessagesRunOut`: a step of the program in a countdown is
  one more of its polls or its end, and nothing that is typed prolongs it (for
  `MessagesEnd`). `ProgramRunsToItsWait`: each step of the program takes a keystroke out
  of the buffer, or leaves the buffer and comes nearer to the next wait or to the end;
  only a read that fails at a wait sends it round (for `BufferDrains`).
- `ZeroProcHotCallsProofs`, in four parts.
  *The calls implement the program.* `CallsHandOver` is the invariant `Handover`, which is
  inductive as it stands: an event that was waited for has its key in the buffer, so
  the read that follows succeeds or fails for another reason than an empty buffer,
  and an answer that was taken is the key that is tested. It is what
  `CallsImplementWhole` needs: each call is a step of `ZeroProcHot` or none, and
  the one hard step is `wrmsr`, which the mapping makes read, decide and write at
  once.
  *The console.* `ScreenIsDrawn` is the inductive invariant `Screened`, for every
  register value and every console that is large enough. `ConsoleShows` says, for each
  place in the program, which texts the console will hold when `out` is printed, and
  where the cursor will be: it is about what is to come, so that it can be kept by each
  `OutputNext` without naming how far printing has got. `Drawn` and `Told` relate what is
  drawn and what the message says to the register and to the value that waits. Lemmas on
  `Write` (a text behind the last one adds itself and takes nothing from the others; a line feed moves to
  a new row; a row of 64 bits, printed one by one, stands there whole) carry it through
  the steps. From it follow `ShownIsTrue`, `ColumnsAligned`, `NothingCutOff` and
  `WaitingScreenIsDrawn`.
  *What is proved of the program holds for the calls.* `Proved` instantiates
  `ZeroProcHotProofs` under the refinement mapping; its theorems become
  `CallsImplementSwitch`, `CallsKeepStableBits`, `CallsWriteAsShown`, `CallsAnswerWrites`,
  `CallsKeyOpensMenu` and `CallsEscIsHonoured`. `Whole` being `ZeroProcHot` under that
  mapping, these speak of `reg`, and of the buffer with the answer that is in hand.
  `CallsGetToTheirWait` is `ProgramRunsToItsWait` for the calls, the printed strings
  counted in. It does not follow under the mapping, where a call may be no step at all, and
  has a measure of its own (`Way`).
  *Together*, `PromptCanBeRead` is the statement a user would ask for: whenever the
  question is on the console, so are three rows of 64 bits; the third is the value that
  a yes writes, it is the OR, or the AND, of the other two, it has the bit its message will
  announce, and it agrees with the register on every bit that is neither BD_PROCHOT nor
  the platform's.
- `ZeroProcHotFastProofs`: `DriverEndsCleared`, `DriverTypes` and `DriverImplementsSwitch`.
- `MSREditProofs`: `ArrowOnItem` is `ArrowIsTaken`, with the strengthening that while
  `HexBoard` runs the arrow is on the item it was called with, that this is `selected`,
  and one of the menu's with the library's version; `MenuTypes` from the same invariant.
  `ScreenImplementsMenu`: on its console the program makes the menu's steps, so that
  `ScreenArrow` follows. `OwnMenuNeverEnds`: with the `HexBoard` of `MSREdit.c` the menu
  never returns, on any keyboard; it is why `edit_exit` fails, and no longer a matter of
  its six keys. `MenuStaysShown` (`MenuShown` and `RemainsBeside`) and `ArrowsAreShown`
  hold on a console with 16 lines or more that the texts fit on, started on any that a
  shell may leave: `RowPrinted` says that a row printed with `PrintXY` stands there
  whatever stood there before, that what else is on the row is beside it, and that the
  other rows are left alone; five of them make the menu (`MenuPrinted`) and the arrows
  (`ArrowsPrinted`), and `ScreenInv` adds that no result is printed while the menu runs,
  and where it goes when it ends.
  Two theorems are the safety behind `KeysAreRead` and `LibMenuEnds`: by `ProgramGetsOn`
  every step takes a keystroke out of the buffer or comes nearer to the next wait, unless
  a read fails; by `EndIsTaken` an Enter or Esc typed while the library's menu is open
  stays in the buffer until the menu ends, even when reads fail.
- `HelpersProofs`, for strings of every length: a loop invariant gives `StringsEnd`;
  `CharacterRanges` reduces the sum of products to seven lines, from which
  `TableIsComplete`. For `cat` (`CatInv`) the block has its full length from `malloc`
  on and is right up to the index, the second string behind the first; `Assembled`
  turns this, element by element, into the concatenation, and `CatConcatenates` adds
  that no element before the last is zero. For `uCase` (`uCaseInv`) the string is
  changed before the index and as given from it on; `CaseAdded` shows that what takes
  a letter's place is none, and fits in sixteen bits (`UpperChangesOnlyLower`).
  `SetInv` says which pointer of test.c's `Charset` is set, and `TestCharsetLeaves` what
  the function leaves: the first pointer on its character, the other 127 null, and no
  second character in the array. For t.c, `ScrInv` says that `len` stands on the first unit of a
  character until it finds the terminator, and that the units before the index have been
  given out; `PrintShowsText` follows. For `StrToHex`, `HexInv` says that the digits taken
  so far are the wanted ones up to the place it has reached, as many as it has counted,
  and that the value is what they spell (`Spelled`), which is below `Power` of their
  number, so that the modulus never cuts anything off; `StrToHexReadsDigits`, which is
  `ValueOfDigits`, is this at the return. That `Power` and `Spelled` are what their
  equations say is shown by taking a least place where they are not (`NatMin`).
  `CallsRunOut` is the safety behind `CallsReturn`: every step of the function that was
  called leaves less to do (`Left`), and nothing is left exactly at its return. Its
  hypothesis `ShortTexts`, that a literal has at most 65535 bytes, is what the 16 bits of
  t.c's counter need.
- `BuildInstallProofs`: `BuildSuccess` is `SuccessIsFresh` for any set of scripts,
  any names they share, and any history. At the end of a script it speaks of one
  file; the invariant (`FreshSoFar`) is about every file the script has written so
  far, since each is made from the one before. `BuildNeverOlder` needs `Layered`:
  in a chain to a file of `Sole` nothing is younger than what it is made from,
  unless that is missing. This is kept only if scripts that share a file of the
  chain agree on how it is made back to the compilation (`SolePrivate`), which is
  an assumption of the theorem; `ZigPrivate` proves it of the repository's scripts,
  `build.c.sh` run for any programs, and `ZigNeverOlder` concludes that what
  `build.zig.sh` installs never goes back to an older image. `BuildIInv` is the
  whole invariant. `BuildOlderOnlyAfterFailure` needs no `SolePrivate`: while no command of
  a script has failed, what it writes comes from its own compilation (`FreshSoFar`), and
  no file anywhere is newer than that, since scripts run one at a time (`NoneNewer`).

Only model-checked:

- every liveness property, `MessagesEnd`, `BufferDrains`, `EscWithinReach`,
  `ViewKeyIsCommand`, `Returns`, `KeysAreRead`, `LibMenuEnds` and `CallsReturn`: fairness
  and `ENABLED` are outside the prover. For all but `Returns`, which is about three
  reads and writes in a row, the safety part is proved (above): what a step of the program
  shortens or must leave alone, for every keyboard and every string. That the steps
  are taken is what is left to TLC;
- the five violations, with the theorems above on what four of them depend on.

## 5. What is not modelled

- `test.c`: `efi_main` prints through a local `pCHRS` that hides the global one
  and is never set, so its behaviour is undefined from the first call on; `menu`,
  which nothing calls, fills eleven elements of an array of ten: the
  write past it is undefined, and no state after it can be modelled.
- The options of the compilers and linkers; `makefile`, whose first rule names a
  source that is not in the tree; `build.simple.sh`, which compiles and runs one
  scratch program.
- The experiments but `t.c`: nothing in them has a state worth a property.
- `headers/`: third-party declarations without behaviour, which are more than half
  of the lines of the sources and why the map covers few of them: it names nearly
  every line of the programs that runs.
- The program in comments at the end of `libMSREdit.c`, functions that nothing calls,
  and `print_head`, the one line the fast driver prints.
- Exceptions: `rdmsr` on a processor without MSR 0x1FC faults; the firmware then
  stops the machine, and no property is about that.

## 6. Plan

1. (done) `ConsoleInput`, `MsrWord`, `ProcHotSwitch`, `ZeroProcHot`,
   `ZeroProcHotFast`, with refinement and proofs.
2. (done) `HexDigit`, `MSREdit`, `Charset`, with proofs.
3. (done) `BuildInstall`, with proofs.
4. (done) `StrToHex`, `TestStrings`, `TestCharset`, composed in `Helpers`.
5. (done) Invariants for `cat` and `uCase`, with `cat` for bytes beyond ASCII, and
   `OlderOnlyAfterFailure` for any scripts, as theorems in `HelpersProofs` and
   `BuildInstallProofs`.
6. (done) `ConsoleOutput`, `ZeroProcHotCalls` and its refinement of `ZeroProcHot`,
   `MSREditScreen`, `ScratchPrint`.
7. (done) The console as theorems: what `ZeroProcHotCalls` and `MSREditScreen` show, for
   every register value, shell and console; what is proved of `ZeroProcHot` carried over to
   the calls; what the violations depend on; `print` of t.c and `StrToHex`.
8. (done) The safety parts of the liveness properties, and `ValueOfDigits` for every
   string.
