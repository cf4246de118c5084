---------------------------- MODULE BuildInstall ----------------------------
(***************************************************************************)
(* The build scripts.  Each compiles one source file, links it, converts   *)
(* it to an EFI image and copies the image to the EFI system partition.    *)
(* No script stops at a command that fails: the commands after it work on  *)
(* whatever file of that name an earlier run has left.  The scripts share  *)
(* some of the names.                                                      *)
(***************************************************************************)
EXTENDS Integers, Sequences

CONSTANTS
  Jobs,       \* the scripts the developer runs, one at a time, in any order
  Sole,       \* installed files of which no two scripts disagree how to make them
  MaxTime     \* bound on the developer's edits

ASSUME TimeAssumption == MaxTime \in Nat \ {0}

(* A file is named by its directory, the program in its name and the rest. *)
(* A chain lists the files a script writes, in order: the first with gcc,  *)
(* the second with ld, the third with objcopy, and the others with cp,     *)
(* each from the one before.                                               *)
Installed(name) == <<"drivers_x64", name, "_x64.efi">>

(* build.c.sh name, and the two copies of it for one program each.         *)
BuildC(name) ==
  [source |-> name,
   chain  |-> << <<"build", name, ".o">>, <<"build", name, ".so">>,
                 <<"build/bin", name, "_0v401_x64.efi">>, Installed(name) >>]
BuildTest    == BuildC("test")
BuildMSREdit == BuildC("MSREdit")

Object == <<".", "ZeroProcHot", ".c.o">>
Shared == <<".", "ZeroProcHot", ".c.so">>

BuildTmp ==
  [source |-> "ZeroProcHot_tmp",
   chain  |-> << Object, Shared, <<".", "ZeroProcHot", "_0v401_x64.efi">>,
                 Installed("ZeroProcHot") >>]

BuildZigOwn ==                 \* a mutant: an object name of its own
  [source |-> "ZeroProcHot_tmp",
   chain  |-> << <<".", "ZeroProcHot", ".zig.o">>, Shared,
                 <<".", "ZeroProcHot", "_x64.efi">>,
                 <<"boot", "ZeroProcHot", "_x64.efi">>,
                 <<"boot", "bootx64", ".efi">> >>]

BuildZig ==
  [source |-> "ZeroProcHot_tmp",
   chain  |-> << Object, Shared, <<".", "ZeroProcHot", "_x64.efi">>,
                 <<"boot", "ZeroProcHot", "_x64.efi">>,
                 <<"boot", "bootx64", ".efi">> >>]

BuildAs ==
  [source |-> "ZeroProcHot",
   chain  |-> << Object, Shared, <<".", "ZeroProcHot", "_x64.efi">>,
                 <<"qemu", "ZeroProcHot", "_x64.efi">> >>]

Fast(rest) == <<".", "ZeroProcHot_fast", rest>>

BuildFast ==
  [source |-> "ZeroProcHot_fast",
   chain  |-> << Fast(".o"), Fast(".so"), Fast("_x64.efi"),
                 <<"qemu", "ZeroProcHot_fast", "_x64.efi">> >>]

Scripts(names) == {BuildC(name) : name \in names} \cup
                  {BuildTest, BuildMSREdit, BuildTmp, BuildZig, BuildAs, BuildFast}

NoJob == [source |-> "none", chain |-> <<>>]

(* Every script writes four files or more, no two of them alike.           *)
ASSUME JobsAssumption ==
  \A j \in Jobs :
    /\ Len(j.chain) \in Nat /\ Len(j.chain) >= 4
    /\ \A k, l \in 1..Len(j.chain) : j.chain[k] = j.chain[l] => k = l

Files == UNION {{j.chain[k] : k \in 1..Len(j.chain)} : j \in Jobs}

VARIABLES
  file,     \* what is in each file: the source it was compiled from, and when
  time,     \* counts the states of the sources
  job,      \* the script that runs
  step,     \* its next command
  failed,   \* whether one of its commands has failed
  began     \* when its gcc succeeded, while none has failed

vars == <<file, time, job, step, failed, began>>

Absent  == [source |-> "absent", time |-> 0]
Damaged == [source |-> "damaged", time |-> 0]

Init ==
  /\ file = [f \in Files |-> Absent]
  /\ time = 1 /\ job = NoJob /\ step = 1 /\ failed = FALSE /\ began = 0

(* The developer changes the sources, at any time.                         *)
Edit ==
  /\ time < MaxTime /\ time' = time + 1
  /\ UNCHANGED <<file, job, step, failed, began>>

Start(j) ==
  /\ job = NoJob
  /\ job' = j /\ step' = 1 /\ failed' = FALSE /\ began' = 0
  /\ UNCHANGED <<file, time>>

Running == job # NoJob /\ step <= Len(job.chain)
Target  == job.chain[step]
Input   == file[job.chain[step - 1]]

Makes(image) ==
  /\ file' = [file EXCEPT ![Target] = image]
  /\ step' = step + 1
  /\ UNCHANGED <<time, job, failed>>

gccOnlyIfMissing ==            \* a mutant: an object that is there is kept
  /\ Running /\ step = 1
  /\ Makes(IF file[Target] \in {Absent, Damaged}
             THEN [source |-> job.source, time |-> time] ELSE file[Target])
  /\ began' = time

gcc ==
  /\ Running /\ step = 1
  /\ Makes([source |-> job.source, time |-> time])
  /\ began' = time

(* ld and objcopy need an input they can read; cp copies anything.         *)
Convert ==
  /\ Running /\ step \in 2..3 /\ Input \notin {Absent, Damaged}
  /\ Makes(Input)
  /\ UNCHANGED began

cpNoClobber ==                 \* a mutant: cp -n
  /\ Running /\ step >= 4 /\ Input # Absent
  /\ Makes(IF file[Target] = Absent THEN Input ELSE file[Target])
  /\ UNCHANGED began

cp ==
  /\ Running /\ step >= 4 /\ Input # Absent
  /\ Makes(Input)
  /\ UNCHANGED began

(* What a command that does not succeed leaves: gcc, ld and objcopy keep   *)
(* or remove an old output, cp keeps it or has overwritten some of it.     *)
Leaves(image) == image \in {file[Target], IF step >= 4 THEN Damaged ELSE Absent}

(* A command fails and the script goes on.                                 *)
Fail ==
  /\ Running
  /\ \E image \in {file[Target], Absent, Damaged} :
       Leaves(image) /\ file' = [file EXCEPT ![Target] = image]
  /\ step' = step + 1 /\ failed' = TRUE /\ began' = 0
  /\ UNCHANGED <<time, job>>

Stop == job' = NoJob /\ step' = 1 /\ failed' = FALSE /\ began' = 0

(* The developer interrupts the script; a command that is interrupted half *)
(* way fails first.                                                        *)
Interrupt == Running /\ Stop /\ UNCHANGED <<file, time>>

Ended == job # NoJob /\ step = Len(job.chain) + 1

Exit == Ended /\ Stop /\ UNCHANGED <<file, time>>

Next ==
  \/ Edit \/ (\E j \in Jobs : Start(j))
  \/ gcc \/ Convert \/ cp \/ Fail \/ Interrupt \/ Exit

Spec == Init /\ [][Next]_vars
-----------------------------------------------------------------------------
Image == [source : {j.source : j \in Jobs} \cup {"absent", "damaged"},
          time : 0..time]

TypeOK ==
  /\ time \in 1..MaxTime
  /\ file \in [Files -> Image]
  /\ job \in Jobs \cup {NoJob}
  /\ step \in 1..(Len(job.chain) + 1)
  /\ failed \in BOOLEAN
  /\ began \in 0..time

(* While no command of a script has failed, every file it was to have      *)
(* written holds the source that its own gcc compiled.                     *)
FreshSoFar ==
  job # NoJob /\ ~failed =>
    \A k \in 1..(step - 1) :
      file[job.chain[k]] = [source |-> job.source, time |-> began]

(* Scripts that write a file of a given script agree with it on how that   *)
(* file is made, back to the compilation.                                  *)
SharesOnlyStart(j) ==
  \A i \in Jobs : \A k \in 1..Len(i.chain), l \in 1..Len(j.chain) :
    i.chain[k] = j.chain[l] =>
      k = l /\ \A n \in 1..k : i.chain[n] = j.chain[n]

SoleJobs == {j \in Jobs : \E k \in 1..Len(j.chain) : j.chain[k] \in Sole}

(* In a chain that leads to a file of Sole, a later file is never newer    *)
(* than an earlier one: whatever is missing, nothing is younger than what  *)
(* it is made from.                                                        *)
Layered ==
  \A j \in SoleJobs : \A k, l \in 1..Len(j.chain) :
    LET earlier == file[j.chain[k]].time
        later   == file[j.chain[l]].time
    IN  k < l => earlier = 0 \/ later <= earlier

(* The inductive invariant.                                                *)
IInv == TypeOK /\ FreshSoFar /\ Layered

(* A script that ends with no failed command has installed what its source *)
(* was when its gcc ran, whatever runs that failed or were interrupted had *)
(* left under the names it uses.                                           *)
SuccessIsFresh ==
  Ended /\ ~failed =>
    file[job.chain[Len(job.chain)]] = [source |-> job.source, time |-> began]

(* No run, with whatever failures and interruptions, puts an older image   *)
(* in the place of a newer one in the files of Sole.                       *)
NeverOlder ==
  [][\A f \in Sole : file'[f].time = 0 \/ file'[f].time >= file[f].time]_vars

(* A file only goes back to an older image in a run that has had a failed  *)
(* command: not in one that shares an object with the others or installs   *)
(* the file from an object of its own, if all its commands succeed.        *)
OlderOnlyAfterFailure ==
  [][\A f \in Files :
       file'[f].time # 0 /\ file'[f].time < file[f].time => failed]_vars
=============================================================================
