------------------------- MODULE BuildInstallProofs -------------------------
(***************************************************************************)
(* What the build scripts promise, proved for every set of scripts.        *)
(***************************************************************************)
EXTENDS BuildInstall, TLAPS

(* A running script is one of Jobs, its next file is one of Files and so   *)
(* is the one before.                                                      *)
LEMMA RunningJob ==
  ASSUME TypeOK, Running
  PROVE  /\ job \in Jobs /\ Len(job.chain) \in Nat /\ step \in 1..Len(job.chain)
         /\ Target \in Files
         /\ step > 1 => step - 1 \in 1..Len(job.chain) /\ job.chain[step - 1] \in Files
<1>1. job \in Jobs
  BY DEF TypeOK, Running
<1>2. Len(job.chain) \in Nat /\ step \in 1..Len(job.chain)
  BY <1>1, JobsAssumption DEF TypeOK, Running
<1>3. \A k \in 1..Len(job.chain) : job.chain[k] \in Files
  BY <1>1 DEF Files
<1>4. step > 1 => step - 1 \in 1..Len(job.chain)
  BY <1>2
<1> QED
  BY <1>1, <1>2, <1>3, <1>4 DEF Target

(* A command that succeeds or fails writes an image that has the type.     *)
LEMMA WriteType ==
  ASSUME TypeOK, Running, NEW image \in Image,
         file' = [file EXCEPT ![Target] = image], UNCHANGED time
  PROVE  file' \in [Files -> Image']
BY RunningJob DEF TypeOK, Image

LEMMA NoImage ==
  ASSUME TypeOK
  PROVE  Absent \in Image /\ Damaged \in Image
<1>1. 0 \in 0..time
  BY TimeAssumption DEF TypeOK
<1> QED
  BY <1>1 DEF Absent, Damaged, Image

LEMMA LeavesType ==
  ASSUME TypeOK, Running, NEW image, Leaves(image)
  PROVE  image \in Image
<1>1. file[Target] \in Image
  BY RunningJob DEF TypeOK
<1> QED
  BY <1>1, NoImage DEF Leaves

(* What ld, objcopy and cp copy has the type.                              *)
LEMMA InputType ==
  ASSUME TypeOK, Running, step > 1
  PROVE  Input \in Image
BY RunningJob DEF TypeOK, Input

-----------------------------------------------------------------------------
(* Nothing that a script has written so far without a failure is touched   *)
(* by its next command.                                                    *)
LEMMA EarlierKept ==
  ASSUME TypeOK, Running, NEW image,
         file' = [file EXCEPT ![Target] = image],
         NEW k \in 1..(step - 1)
  PROVE  file'[job.chain[k]] = file[job.chain[k]]
<1>1. k \in 1..Len(job.chain) /\ k # step
  BY RunningJob
<1>2. job.chain[k] # job.chain[step]
  BY <1>1, RunningJob, JobsAssumption
<1>3. job.chain[k] \in Files
  BY <1>1, RunningJob DEF Files
<1> QED
  BY <1>2, <1>3 DEF Target, TypeOK

LEMMA WrittenIsImage ==
  ASSUME TypeOK, Running, NEW image, file' = [file EXCEPT ![Target] = image]
  PROVE  file'[job.chain[step]] = image
BY RunningJob DEF Target, TypeOK
-----------------------------------------------------------------------------
(* A successful command with its input copied: the type and freshness.     *)
LEMMA CopyKeeps ==
  ASSUME TypeOK, FreshSoFar, Running, step > 1, Makes(Input), UNCHANGED began
  PROVE  TypeOK' /\ FreshSoFar'
<1>1. Input \in Image /\ UNCHANGED time
  BY InputType DEF Makes
<1>2. file' \in [Files -> Image']
  BY <1>1, WriteType DEF Makes
<1>3. step \in 1..Len(job.chain) /\ Len(job.chain) \in Nat
  BY RunningJob
<1>4. step' \in 1..(Len(job'.chain) + 1)
  BY <1>3 DEF Makes
<1>5. TypeOK'
  BY <1>1, <1>2, <1>4 DEF TypeOK, Makes
<1>6. ASSUME ~failed, NEW k \in 1..step
      PROVE  file'[job.chain[k]] = [source |-> job.source, time |-> began]
  <2>1. file[job.chain[step - 1]] = [source |-> job.source, time |-> began]
    BY <1>3, <1>6 DEF FreshSoFar, Running
  <2>2. CASE k = step
    BY <2>1, <2>2, WrittenIsImage DEF Makes, Input
  <2>3. CASE k \in 1..(step - 1)
    BY <1>6, <2>3, EarlierKept DEF Makes, FreshSoFar, Running
  <2> QED
    BY <1>3, <2>2, <2>3
<1>7. FreshSoFar'
  BY <1>3, <1>6 DEF FreshSoFar, Makes
<1> QED
  BY <1>5, <1>7

(* What a failed command leaves has the type.                              *)
LEMMA FailureType ==
  ASSUME TypeOK, Running, UNCHANGED time,
         \E image \in {file[Target], Absent, Damaged} :
           Leaves(image) /\ file' = [file EXCEPT ![Target] = image]
  PROVE  file' \in [Files -> Image']
BY LeavesType, WriteType

LEMMA BuildInit == Init => TypeOK /\ FreshSoFar
<1> SUFFICES ASSUME Init PROVE TypeOK /\ FreshSoFar
  OBVIOUS
<1>1. Len(NoJob.chain) = 0
  BY DEF NoJob
<1>2. Absent \in Image
  BY DEF Init, Absent, Image
<1>3. step \in 1..(Len(job.chain) + 1)
  BY <1>1 DEF Init
<1>4. time \in 1..MaxTime /\ began \in 0..time
  BY TimeAssumption DEF Init
<1>5. file \in [Files -> Image]
  BY <1>2 DEF Init
<1> QED
  BY <1>3, <1>4, <1>5 DEF Init, TypeOK, FreshSoFar

LEMMA BuildNext == TypeOK /\ FreshSoFar /\ [Next]_vars => TypeOK' /\ FreshSoFar'
<1> SUFFICES ASSUME TypeOK, FreshSoFar, [Next]_vars
             PROVE  TypeOK' /\ FreshSoFar'
  OBVIOUS
<1>1. CASE Edit
  <2>1. time' \in 1..MaxTime /\ \A t \in 0..time : t \in 0..time'
    BY <1>1, TimeAssumption DEF Edit, TypeOK
  <2>2. \A image \in Image : image \in Image'
    BY <2>1 DEF Image
  <2>3. file' \in [Files -> Image'] /\ began' \in 0..time'
    BY <1>1, <2>1, <2>2 DEF Edit, TypeOK
  <2>4. TypeOK'
    BY <1>1, <2>1, <2>3 DEF Edit, TypeOK
  <2> QED
    BY <1>1, <2>4 DEF Edit, FreshSoFar
<1>2. ASSUME NEW j \in Jobs, Start(j)
      PROVE  TypeOK' /\ FreshSoFar'
  <2>1. Len(j.chain) \in Nat
    BY JobsAssumption
  <2>2. step' \in 1..(Len(job'.chain) + 1)
    BY <1>2, <2>1 DEF Start
  <2>3. file' \in [Files -> Image'] /\ time' \in 1..MaxTime
    BY <1>2 DEF Start, TypeOK, Image
  <2>4. began' \in 0..time'
    BY <1>2, <2>3, TimeAssumption DEF Start
  <2>5. TypeOK'
    BY <1>2, <2>2, <2>3, <2>4 DEF Start, TypeOK
  <2> QED
    BY <1>2, <2>5 DEF Start, FreshSoFar
<1>3. CASE gcc
  <2> DEFINE image == [source |-> job.source, time |-> time]
  <2>1. Running /\ step = 1 /\ Makes(image) /\ began' = time /\ UNCHANGED time
    BY <1>3 DEF gcc, Makes
  <2>2. image \in Image
    BY <2>1, RunningJob, TimeAssumption DEF TypeOK, Image
  <2>3. file' \in [Files -> Image']
    BY <2>1, <2>2, WriteType DEF Makes
  <2>4. Len(job.chain) \in Nat /\ step \in 1..Len(job.chain)
    BY <2>1, RunningJob
  <2>5. TypeOK'
    BY <2>1, <2>3, <2>4, TimeAssumption DEF TypeOK, Makes
  <2>6. file'[job.chain[1]] = image
    BY <2>1, WrittenIsImage DEF Makes
  <2>7. FreshSoFar'
    BY <2>1, <2>6 DEF FreshSoFar, Makes
  <2> QED
    BY <2>5, <2>7
<1>4. CASE Convert \/ cp
  <2>1. Running /\ step \in Int /\ step > 1 /\ Makes(Input) /\ UNCHANGED began
    BY <1>4 DEF Convert, cp, Running, TypeOK
  <2> QED
    BY <2>1, CopyKeeps
<1>5. CASE Fail
  <2>1. file' \in [Files -> Image']
    BY <1>5, FailureType DEF Fail
  <2>2. Len(job.chain) \in Nat /\ step \in 1..Len(job.chain)
    BY <1>5, RunningJob DEF Fail
  <2>3. time' \in 1..MaxTime /\ began' \in 0..time'
    BY <1>5, TimeAssumption DEF Fail, TypeOK
  <2>4. TypeOK'
    BY <1>5, <2>1, <2>2, <2>3 DEF Fail, TypeOK
  <2> QED
    BY <1>5, <2>4 DEF Fail, FreshSoFar
<1>6. CASE Interrupt \/ Exit
  <2>1. file' \in [Files -> Image'] /\ UNCHANGED time /\ Stop
    BY <1>6 DEF Interrupt, Exit, TypeOK, Image
  <2>2. Len(NoJob.chain) = 0
    BY DEF NoJob
  <2>3. step' \in 1..(Len(job'.chain) + 1)
    BY <2>1, <2>2 DEF Stop
  <2>4. began' \in 0..time'
    BY <2>1, TimeAssumption DEF Stop, TypeOK
  <2>5. TypeOK'
    BY <2>1, <2>3, <2>4 DEF TypeOK, Stop
  <2> QED
    BY <2>1, <2>5 DEF Stop, FreshSoFar
<1>7. CASE UNCHANGED vars
  BY <1>7 DEF vars, TypeOK, Image, FreshSoFar
<1> QED
  BY <1>1, <1>2, <1>3, <1>4, <1>5, <1>6, <1>7 DEF Next

LEMMA BuildInvariant == Spec => [](TypeOK /\ FreshSoFar)
BY BuildInit, BuildNext, PTL DEF Spec

(* A script none of whose commands failed has installed what it compiled,  *)
(* for any scripts, any names they share and any history of failures.      *)
THEOREM BuildSuccess == Spec => []SuccessIsFresh
<1>1. TypeOK /\ FreshSoFar => SuccessIsFresh
  <2> SUFFICES ASSUME TypeOK, FreshSoFar, Ended, ~failed
               PROVE  file[job.chain[Len(job.chain)]]
                        = [source |-> job.source, time |-> began]
    BY DEF SuccessIsFresh
  <2>1. job \in Jobs
    BY DEF TypeOK, Ended
  <2>2. Len(job.chain) \in 1..(step - 1)
    BY <2>1, JobsAssumption DEF Ended
  <2> QED
    BY <2>2 DEF FreshSoFar, Ended
<1> QED
  BY <1>1, BuildInvariant, PTL
-----------------------------------------------------------------------------
(* The scripts that make the files of Sole share no more than the start of *)
(* their chains with other scripts.                                        *)
SolePrivate == \A j \in SoleJobs : SharesOnlyStart(j)

(* What a command may put into its file.                                   *)
Puts(image) ==
  \/ image.time = 0
  \/ image = file[Target]
  \/ step = 1 /\ image.time = time
  \/ step > 1 /\ image = Input

LEMMA WritePuts ==
  ASSUME TypeOK, Running, gcc \/ Convert \/ cp \/ Fail
  PROVE  \E image : Puts(image) /\ file' = [file EXCEPT ![Target] = image]
<1>1. Absent.time = 0 /\ Damaged.time = 0
  BY DEF Absent, Damaged
<1>2. CASE gcc
  BY <1>2 DEF gcc, Makes, Puts
<1>3. CASE Convert \/ cp
  <2>1. step > 1 /\ Makes(Input)
    BY <1>3, RunningJob DEF Convert, cp
  <2> QED
    BY <2>1 DEF Makes, Puts
<1>4. CASE Fail
  BY <1>1, <1>4 DEF Fail, Puts
<1> QED
  BY <1>2, <1>3, <1>4

(* The time of a file is a number no larger than the present.              *)
LEMMA FileTimes ==
  ASSUME TypeOK, NEW f \in Files
  PROVE  file[f].time \in 0..time /\ time \in Nat
BY TimeAssumption DEF TypeOK, Image

LEMMA WriteLayered ==
  ASSUME SolePrivate, TypeOK, Layered, Running, NEW image, Puts(image),
         file' = [file EXCEPT ![Target] = image]
  PROVE  Layered'
<1> SUFFICES ASSUME NEW j \in SoleJobs,
                    NEW k \in 1..Len(j.chain), NEW l \in 1..Len(j.chain), k < l
             PROVE  \/ file'[j.chain[k]].time = 0
                    \/ file'[j.chain[l]].time <= file'[j.chain[k]].time
  BY DEF Layered, SoleJobs
<1>1. j \in Jobs /\ SharesOnlyStart(j)
  BY DEF SoleJobs, SolePrivate
<1>2. /\ job \in Jobs /\ Len(job.chain) \in Nat /\ Len(j.chain) \in Nat
      /\ step \in 1..Len(job.chain) /\ Target \in Files
  BY <1>1, RunningJob, JobsAssumption
<1>3. \A n \in 1..Len(j.chain) : j.chain[n] \in Files
  BY <1>1 DEF Files
<1>4. \A f \in Files : file'[f] = IF f = Target THEN image ELSE file[f]
  BY DEF TypeOK
<1>5. \A m, n \in 1..Len(j.chain) :
        m < n => file[j.chain[m]].time = 0
                 \/ file[j.chain[n]].time <= file[j.chain[m]].time
  BY DEF Layered
<1>6. \A n \in 1..Len(j.chain) : file[j.chain[n]].time \in 0..time /\ time \in Nat
  BY <1>3, FileTimes
<1>7. CASE \A n \in 1..Len(j.chain) : j.chain[n] # Target
  BY <1>3, <1>4, <1>5, <1>7
<1>8. ASSUME NEW n \in 1..Len(j.chain), j.chain[n] = Target
      PROVE  \/ file'[j.chain[k]].time = 0
             \/ file'[j.chain[l]].time <= file'[j.chain[k]].time
  <2>1. n = step /\ \A m \in 1..step : job.chain[m] = j.chain[m]
    BY <1>1, <1>2, <1>8 DEF SharesOnlyStart, Target
  <2>2. \A m \in 1..Len(j.chain) : m # n => j.chain[m] # Target
    BY <1>1, <1>8, JobsAssumption
  <2>3. step > 1 => /\ step - 1 \in 1..Len(j.chain)
                    /\ Input = file[j.chain[step - 1]]
    BY <1>2, <2>1 DEF Input
  <2>4. CASE k # n /\ l # n
    BY <1>3, <1>4, <1>5, <2>2, <2>4
  <2>5. CASE k = n
    <3>1. /\ file'[j.chain[k]] = image
          /\ file'[j.chain[l]] = file[j.chain[l]]
      BY <1>3, <1>4, <1>8, <2>2, <2>5
    <3>2. CASE image.time = 0
      BY <3>1, <3>2
    <3>3. CASE image = file[Target]
      BY <1>5, <1>8, <2>5, <3>1, <3>3
    <3>4. CASE step = 1 /\ image.time = time
      BY <1>6, <3>1, <3>4
    <3>5. CASE step > 1 /\ image = Input
      <4>1. step - 1 < l
        BY <2>1, <2>5, <3>5
      <4> QED
        BY <1>5, <2>3, <3>1, <3>5, <4>1
    <3> QED
      BY <3>2, <3>3, <3>4, <3>5 DEF Puts
  <2>6. CASE l = n
    <3>1. /\ file'[j.chain[l]] = image
          /\ file'[j.chain[k]] = file[j.chain[k]]
      BY <1>3, <1>4, <1>8, <2>2, <2>6
    <3>2. CASE image.time = 0
      BY <1>6, <3>1, <3>2
    <3>3. CASE image = file[Target]
      BY <1>5, <1>8, <2>6, <3>1, <3>3
    <3>4. CASE step > 1 /\ image = Input
      <4>1. CASE k = step - 1
        BY <1>6, <2>3, <3>1, <3>4, <4>1
      <4>2. CASE k < step - 1
        BY <1>5, <2>3, <3>1, <3>4, <4>2
      <4> QED
        BY <2>1, <2>6, <4>1, <4>2
    <3>5. step # 1
      BY <2>1, <2>6
    <3> QED
      BY <3>2, <3>3, <3>4, <3>5 DEF Puts
  <2> QED
    BY <2>4, <2>5, <2>6
<1> QED
  BY <1>7, <1>8

(* A command of any script leaves a file of Sole missing, damaged or at    *)
(* least as new as it was.                                                 *)
LEMMA WriteNotOlder ==
  ASSUME SolePrivate, TypeOK, Layered, Running, NEW image, Puts(image),
         file' = [file EXCEPT ![Target] = image], Sole \subseteq Files,
         NEW f \in Sole
  PROVE  file'[f].time = 0 \/ file'[f].time >= file[f].time
<1>1. f \in Files /\ file[f].time \in 0..time /\ time \in Nat
  BY FileTimes
<1>2. file'[f] = IF f = Target THEN image ELSE file[f]
  BY <1>1 DEF TypeOK
<1>3. CASE f # Target \/ image = file[Target] \/ image.time = 0
  BY <1>1, <1>2, <1>3
<1>4. CASE f = Target /\ step = 1 /\ image.time = time
  BY <1>1, <1>2, <1>4
<1>5. CASE f = Target /\ step > 1 /\ image = Input
  <2>1. /\ job \in Jobs /\ Len(job.chain) \in Nat
        /\ step \in 1..Len(job.chain) /\ step - 1 \in 1..Len(job.chain)
        /\ job.chain[step] = f /\ job.chain[step - 1] \in Files
    BY <1>5, RunningJob DEF Target
  <2>2. job \in SoleJobs
    BY <2>1 DEF SoleJobs
  <2>3. \/ file[job.chain[step - 1]].time = 0
        \/ file[job.chain[step]].time <= file[job.chain[step - 1]].time
    BY <2>1, <2>2 DEF Layered
  <2>4. file[job.chain[step - 1]].time \in 0..time
    BY <2>1, FileTimes
  <2> QED
    BY <1>1, <1>2, <1>5, <2>1, <2>3, <2>4 DEF Input
<1> QED
  BY <1>3, <1>4, <1>5 DEF Puts

LEMMA LayeredNext ==
  ASSUME SolePrivate, Sole \subseteq Files, TypeOK, Layered, [Next]_vars
  PROVE  /\ Layered'
         /\ \A f \in Sole : file'[f].time = 0 \/ file'[f].time >= file[f].time
<1>1. CASE UNCHANGED file
  <2>1. \A f \in Sole : file[f].time \in Nat
    BY FileTimes
  <2> QED
    BY <1>1, <2>1 DEF Layered
<1>2. CASE gcc \/ Convert \/ cp \/ Fail
  <2>1. Running
    BY <1>2 DEF gcc, Convert, cp, Fail
  <2> QED
    BY <1>2, <2>1, WritePuts, WriteLayered, WriteNotOlder
<1>3. gcc \/ Convert \/ cp \/ Fail \/ UNCHANGED file
  BY DEF Next, Edit, Start, Interrupt, Exit, vars
<1> QED
  BY <1>1, <1>2, <1>3

LEMMA LayeredInit == Init => Layered
<1>1. ASSUME Init, NEW j \in SoleJobs, NEW k \in 1..Len(j.chain)
      PROVE  file[j.chain[k]].time = 0
  BY <1>1 DEF Init, SoleJobs, Files, Absent
<1> QED
  BY <1>1 DEF Layered

(* Scripts that share only the start of their chains never put an older    *)
(* image in the place of a newer one, whatever fails or is interrupted.    *)
THEOREM BuildNeverOlder ==
  ASSUME SolePrivate, Sole \subseteq Files
  PROVE  Spec => NeverOlder
<1>1. TypeOK /\ Layered /\ [Next]_vars => Layered'
  BY LayeredNext
<1>2. Spec => []Layered
  BY <1>1, LayeredInit, BuildInvariant, PTL DEF Spec
<1>3. TypeOK /\ Layered /\ [Next]_vars =>
        [\A f \in Sole : file'[f].time = 0 \/ file'[f].time >= file[f].time]_vars
  BY LayeredNext
<1> QED
  BY <1>2, <1>3, BuildInvariant, PTL DEF Spec, NeverOlder
(* Under the same conditions the whole inductive invariant holds.          *)
THEOREM BuildIInv ==
  ASSUME SolePrivate, Sole \subseteq Files
  PROVE  Spec => []IInv
<1>1. TypeOK /\ FreshSoFar /\ Layered /\ [Next]_vars => Layered'
  BY LayeredNext
<1>2. TypeOK /\ FreshSoFar /\ Layered <=> IInv
  BY DEF IInv
<1> QED
  BY <1>1, <1>2, LayeredInit, BuildInvariant, PTL DEF Spec
-----------------------------------------------------------------------------
(* The copies of build.c.sh are build.c.sh for one program.                *)
LEMMA ScriptKinds ==
  ASSUME NEW Names, NEW j \in Scripts(Names)
  PROVE  \/ \E name \in Names \cup {"test", "MSREdit"} : j = BuildC(name)
         \/ j \in {BuildTmp, BuildZig, BuildAs, BuildFast}
BY DEF Scripts, BuildTest, BuildMSREdit

(* The scripts of the repository, build.c.sh run for any programs, are     *)
(* such scripts for what build.zig.sh installs.                            *)
LEMMA ZigPrivate ==
  ASSUME NEW Names, Jobs \subseteq Scripts(Names),
         BuildZig \in Jobs,
         Sole = {<<"boot", "ZeroProcHot", "_x64.efi">>,
                 <<"boot", "bootx64", ".efi">>}
  PROVE  SolePrivate
<1> DEFINE All == Names \cup {"test", "MSREdit"}
<1>b. \A j \in Jobs : \/ \E name \in All : j = BuildC(name)
                      \/ j \in {BuildTmp, BuildZig, BuildAs, BuildFast}
  BY ScriptKinds
<1> HIDE DEF All
<1>1. \A name \in All : /\ Len(BuildC(name).chain) = 4
                          /\ \A k \in 1..4 : BuildC(name).chain[k][1] \notin {"boot", "."}
  BY DEF BuildC, Installed
<1>2. /\ Len(BuildTmp.chain) = 4
      /\ BuildTmp.chain[1] = Object /\ BuildTmp.chain[2] = Shared
      /\ \A k \in 3..4 : BuildTmp.chain[k][3] = "_0v401_x64.efi"
                         \/ BuildTmp.chain[k][1] = "drivers_x64"
  BY DEF BuildTmp, Installed
<1>3. /\ Len(BuildFast.chain) = 4
      /\ \A k \in 1..4 : BuildFast.chain[k][2] = "ZeroProcHot_fast"
  BY DEF BuildFast, Fast
<1>4. /\ Len(BuildZig.chain) = 5
      /\ BuildZig.chain[1] = Object /\ BuildZig.chain[2] = Shared
      /\ \A k \in 3..5 : BuildZig.chain[k][3] \in {"_x64.efi", ".efi"}
      /\ \A k \in 1..5 : /\ BuildZig.chain[k][1] \in {"boot", "."}
                         /\ BuildZig.chain[k][2] # "ZeroProcHot_fast"
  BY DEF BuildZig, Object, Shared
<1>5. Object[1] = "." /\ Object[3] = ".c.o" /\ Shared[1] = "." /\ Shared[3] = ".c.so"
  BY DEF Object, Shared
<1>6. \A f \in Sole : f[1] = "boot" /\ f[2] # "ZeroProcHot_fast" /\ f[3] \in {"_x64.efi", ".efi"}
  OBVIOUS
<1>a. /\ Len(BuildAs.chain) = 4
      /\ \A k \in 1..3 : BuildAs.chain[k] = BuildZig.chain[k]
      /\ \A k \in 1..3 : BuildAs.chain[k][1] = "."
      /\ BuildAs.chain[4][1] = "qemu"
  BY DEF BuildAs, BuildZig, Object, Shared
<1>7. BuildTmp \notin SoleJobs /\ BuildFast \notin SoleJobs /\ BuildAs \notin SoleJobs
  <2>1. \A k \in 1..4 : BuildTmp.chain[k] \notin Sole
    <3> SUFFICES ASSUME NEW k \in 1..4 PROVE BuildTmp.chain[k] \notin Sole
      OBVIOUS
    <3>1. k = 1 \/ k = 2 \/ k \in 3..4
      OBVIOUS
    <3> QED
      BY <1>2, <1>5, <1>6, <3>1
  <2>2. \A k \in 1..4 : BuildFast.chain[k] \notin Sole
    BY <1>3, <1>6
  <2>3. \A k \in 1..4 : BuildAs.chain[k] \notin Sole
    BY <1>6, <1>a
  <2> QED
    BY <1>2, <1>3, <1>a, <2>1, <2>2, <2>3 DEF SoleJobs
<1>8. \A name \in All : BuildC(name) \notin SoleJobs
  BY <1>1, <1>6 DEF SoleJobs
<1>9. \A j \in SoleJobs : j = BuildZig
  BY <1>7, <1>8, <1>b DEF SoleJobs
<1>10. ASSUME NEW i \in Jobs, NEW k \in 1..Len(i.chain), NEW l \in 1..5,
              i.chain[k] = BuildZig.chain[l]
       PROVE  k = l /\ \A n \in 1..k : i.chain[n] = BuildZig.chain[n]
  <2>1. ASSUME NEW name \in All, i = BuildC(name)
        PROVE  FALSE
    BY <1>1, <1>4, <1>10, <2>1
  <2>2. CASE i = BuildTmp
    <3>1. k = 1 \/ k = 2 \/ k \in 3..4
      BY <1>2, <1>10, <2>2
    <3>2. l = 1 \/ l = 2 \/ l \in 3..5
      BY <1>10
    <3>3. k = l /\ k \in 1..2
      BY <1>2, <1>4, <1>5, <1>10, <2>2, <3>1, <3>2, SMTT(40)
    <3>4. \A n \in 1..k : n = 1 \/ n = 2
      BY <3>3
    <3> QED
      BY <1>2, <1>4, <2>2, <3>3, <3>4
  <2>3. CASE i = BuildZig
    BY <1>4, <1>10, <2>3, JobsAssumption
  <2>4. CASE i = BuildFast
    BY <1>3, <1>4, <1>10, <2>4
  <2>5. CASE i = BuildAs
    <3>1. k # 4
      BY <1>4, <1>10, <1>a, <2>5
    <3>2. k \in 1..3
      BY <1>10, <1>a, <2>5, <3>1
    <3>3. BuildZig.chain[k] = BuildZig.chain[l] /\ k \in 1..5
      BY <1>10, <1>a, <2>5, <3>2
    <3>4. k = l
      BY <1>4, <3>3, JobsAssumption
    <3> QED
      BY <1>a, <2>5, <3>2, <3>4
  <2> QED
    BY <1>b, <2>1, <2>2, <2>3, <2>4, <2>5
<1>11. SharesOnlyStart(BuildZig)
  BY <1>4, <1>10 DEF SharesOnlyStart
<1> QED
  BY <1>9, <1>11 DEF SolePrivate

(* So what build.zig.sh installs, the image the firmware boots included,   *)
(* never goes back to an older one, whichever scripts run before it.       *)
THEOREM ZigNeverOlder ==
  ASSUME NEW Names, Jobs \subseteq Scripts(Names),
         BuildZig \in Jobs,
         Sole = {<<"boot", "ZeroProcHot", "_x64.efi">>,
                 <<"boot", "bootx64", ".efi">>}
  PROVE  Spec => NeverOlder
<1>1. \A k \in 1..Len(BuildZig.chain) : BuildZig.chain[k] \in Files
  BY DEF Files
<1>2. /\ 4 \in 1..Len(BuildZig.chain) /\ 5 \in 1..Len(BuildZig.chain)
      /\ BuildZig.chain[4] = <<"boot", "ZeroProcHot", "_x64.efi">>
      /\ BuildZig.chain[5] = <<"boot", "bootx64", ".efi">>
  BY DEF BuildZig
<1>3. Sole \subseteq Files
  BY <1>1, <1>2
<1> QED
  BY <1>3, ZigPrivate, BuildNeverOlder
-----------------------------------------------------------------------------
(* Once the gcc of a script has succeeded, and while nothing has failed,   *)
(* no file anywhere is newer than what gcc compiled: one script runs at a  *)
(* time, and only gcc makes anything new.                                  *)
NoneNewer ==
  job # NoJob /\ ~failed /\ step > 1 => \A f \in Files : file[f].time <= began

(* A command that succeeds after gcc puts that source into its file.       *)
LEMMA SucceedsFresh ==
  ASSUME TypeOK, FreshSoFar, Convert \/ cp, ~failed
  PROVE  Input.time = began /\ Running /\ step > 1 /\ Makes(Input)
<1>1. Running /\ step > 1 /\ Makes(Input)
  BY RunningJob DEF Convert, cp
<1>2. step - 1 \in 1..(step - 1) /\ job # NoJob
  BY <1>1, RunningJob DEF Running
<1>3. Input = [source |-> job.source, time |-> began]
  BY <1>2 DEF FreshSoFar, Input
<1> QED
  BY <1>1, <1>3

LEMMA NoneNewerNext ==
  ASSUME TypeOK, FreshSoFar, NoneNewer, [Next]_vars
  PROVE  NoneNewer'
<1>1. began \in 0..time /\ time \in Nat
  BY TimeAssumption DEF TypeOK
<1>2. \A f \in Files : file[f].time \in 0..time
  BY FileTimes
<1>3. CASE gcc
  <2>1. PICK image : /\ image.time = time /\ began' = time
                     /\ file' = [file EXCEPT ![Target] = image]
    BY <1>3 DEF gcc, Makes
  <2>2. \A f \in Files : file'[f] = IF f = Target THEN image ELSE file[f]
    BY <2>1 DEF TypeOK
  <2>3. \A f \in Files : file'[f].time <= began'
    BY <1>1, <1>2, <2>1, <2>2
  <2> QED
    BY <2>3 DEF NoneNewer
<1>4. CASE (Convert \/ cp) /\ ~failed
  <2>1. Input.time = began /\ Running /\ step > 1 /\ Makes(Input)
    BY <1>4, SucceedsFresh
  <2>2. \A f \in Files : file'[f] = IF f = Target THEN Input ELSE file[f]
    BY <2>1 DEF TypeOK, Makes
  <2>3. \A f \in Files : file[f].time <= began
    BY <1>4, <2>1 DEF NoneNewer, Running
  <2>4. began' = began
    BY <1>4 DEF Convert, cp
  <2>5. \A f \in Files : file'[f].time <= began'
    BY <1>1, <2>1, <2>2, <2>3, <2>4
  <2> QED
    BY <2>5 DEF NoneNewer
<1>5. CASE (Convert \/ cp) /\ failed
  BY <1>5 DEF Convert, cp, Makes, NoneNewer
<1>6. CASE Fail
  BY <1>6 DEF Fail, NoneNewer
<1>7. ASSUME NEW j \in Jobs, Start(j) PROVE NoneNewer'
  BY <1>7 DEF Start, NoneNewer
<1>8. CASE Interrupt \/ Exit
  BY <1>8 DEF Interrupt, Exit, Stop, NoneNewer
<1>9. CASE Edit \/ UNCHANGED vars
  BY <1>9 DEF Edit, vars, NoneNewer
<1> QED
  BY <1>3, <1>4, <1>5, <1>6, <1>7, <1>8, <1>9 DEF Next

(* A file that goes back to an older image is written by ld, objcopy or cp *)
(* in a run in which a command has failed.                                 *)
LEMMA OlderStep ==
  ASSUME TypeOK, FreshSoFar, NoneNewer, [Next]_vars, NEW f \in Files,
         file'[f].time # 0, file'[f].time < file[f].time
  PROVE  failed
<1>1. file[f].time \in 0..time /\ time \in Nat /\ began \in 0..time
  BY FileTimes DEF TypeOK
<1>2. gcc \/ Convert \/ cp \/ Fail
  BY <1>1 DEF Next, Edit, Start, Interrupt, Exit, vars
<1>3. CASE gcc
  <2>1. PICK image : image.time = time /\ file' = [file EXCEPT ![Target] = image]
    BY <1>3 DEF gcc, Makes
  <2>2. file'[f] = IF f = Target THEN image ELSE file[f]
    BY <2>1 DEF TypeOK
  <2> QED
    BY <1>1, <2>1, <2>2
<1>4. CASE Convert \/ cp
  <2> SUFFICES ASSUME ~failed PROVE FALSE
    OBVIOUS
  <2>1. Input.time = began /\ Running /\ step > 1 /\ Makes(Input)
    BY <1>4, SucceedsFresh
  <2>2. file'[f] = IF f = Target THEN Input ELSE file[f]
    BY <2>1 DEF TypeOK, Makes
  <2>3. file[f].time <= began
    BY <2>1 DEF NoneNewer, Running
  <2> QED
    BY <1>1, <2>1, <2>2, <2>3
<1>5. CASE Fail
  <2>1. PICK image : /\ image = file[Target] \/ image.time = 0
                     /\ file' = [file EXCEPT ![Target] = image]
    BY <1>5 DEF Fail, Absent, Damaged
  <2>2. file'[f] = IF f = Target THEN image ELSE file[f]
    BY <2>1 DEF TypeOK
  <2> QED
    BY <1>1, <2>1, <2>2
<1> QED
  BY <1>2, <1>3, <1>4, <1>5

(* Whatever scripts there are and whatever names they share, no file goes  *)
(* back to an older image in a run all of whose commands have succeeded.   *)
THEOREM BuildOlderOnlyAfterFailure == Spec => OlderOnlyAfterFailure
<1>1. Init => NoneNewer
  BY DEF Init, NoneNewer
<1>2. TypeOK /\ FreshSoFar /\ NoneNewer /\ [Next]_vars => NoneNewer'
  BY NoneNewerNext
<1>3. TypeOK /\ FreshSoFar /\ NoneNewer /\ [Next]_vars =>
        [\A f \in Files :
           file'[f].time # 0 /\ file'[f].time < file[f].time => failed]_vars
  BY OlderStep
<1> QED
  BY <1>1, <1>2, <1>3, BuildInvariant, PTL DEF Spec, OlderOnlyAfterFailure
=============================================================================
