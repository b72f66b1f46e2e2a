---------------------------- MODULE ResumeProofs ----------------------------
(***************************************************************************)
(* Proofs about Resume, for any set of test cases, crashes and builds and   *)
(* any number of kills, exits and fresh starts.                            *)
(*                                                                         *)
(* What a session had is in one place: in _resume/ when that directory is  *)
(* in the way of the next rename, in queue/ otherwise.  The invariant says *)
(* so of every point at which the process may be killed; the phases of the *)
(* start differ only in which of the two copies is complete.  A start that *)
(* fails by itself does so for a reason the next one no longer has.        *)
(***************************************************************************)
EXTENDS Resume, FiniteSetTheorems, TLAPS

\* Phases
Clearing == {"clear", "backup", "mkdir"}
Preparing == {"hash", "open", "read"}
Starting == {"move", "pivot", "nuke", "load"} \cup Clearing \cup Preparing
Running == {"fuzz", "exit"}

\* The directories and the phases: what a missing directory holds, and when
\* queue/ exists and is empty.
Layout ==
  /\ "queue" \notin dirs => queue = {}
  /\ "_resume" \notin dirs => resume = {}
  /\ pc \in {"hash", "open", "read", "pivot", "nuke", "load", "fuzz", "exit"}
       => "queue" \in dirs
  /\ pc \in {"backup", "mkdir", "hash", "open", "read"} => queue = {}
  /\ pc = "pivot" /\ in_place => queue \cup todo = resume
  /\ pc = "load" /\ in_place => "_resume" \notin dirs
  /\ pc \in {"open", "nuke"} => in_place

\* A fresh start has nothing to keep.
Fresh == ~in_place /\ pc \in Starting => found = {} /\ crashed = {}

\* Where the entries of the session are.
Kept ==
  ~spoiled =>
    /\ pc \in {"down", "move"} =>
         IF ResumeInTheWay THEN found \subseteq resume ELSE found \subseteq queue
    /\ in_place /\ pc \in Clearing \cup Preparing \cup {"pivot"} =>
         found \subseteq resume /\ (ResumeInTheWay \/ found = {})
    /\ pc = "nuke" => found \subseteq queue /\ (state => found \subseteq resume)
    /\ pc = "load" => found \subseteq queue
    /\ pc \in Running => found \subseteq queue /\ ~ResumeInTheWay

\* What fastresume.bin, or what was read from it, is about.
Saved == IF ResumeInTheWay THEN resume ELSE queue

Dumped ==
  /\ pc \in {"open", "read", "pivot", "nuke", "load", "fuzz", "exit"}
       => target_hash = target
  /\ fast_resume # NoFile => pc = "down" \/ in_place
  /\ pc \in {"move", "hash", "open"} \cup Clearing => fast_resume = NoFile
  /\ ~passed =>
       /\ pc \in {"read", "pivot", "nuke", "load", "fuzz"} => fastresume = NoFile
       /\ ~spoiled /\ fastresume # NoFile
            => fastresume.target = target_hash /\ Saved \subseteq fastresume.items
       /\ ~spoiled /\ fast_resume # NoFile =>
            /\ pc \in {"read", "pivot", "nuke", "load"}
                 => fast_resume.target = target
            /\ pc = "read" => resume \subseteq fast_resume.items
            /\ pc = "pivot" => queue \cup todo \subseteq fast_resume.items
            /\ pc \in {"nuke", "load"} => queue \subseteq fast_resume.items

\* The inductive invariant.
IInv == TypeOK /\ Layout /\ Fresh /\ CrashesAreKept /\ Kept /\ Dumped

USE DEF files, process, bounds, history, Starting, Clearing, Preparing, Running

----------------------------------------------------------------------------
(* Each action keeps the invariant *)

\* An in-place start changes no file.
LEMMA StartInPlaceKeeps ==
  ASSUME IInv, StartInPlace
  PROVE  IInv'
<1>1. TypeOK'
  BY Zenon, ResumeAssumption DEF IInv, TypeOK, Dump, NoFile, StartInPlace, Started
<1>2. Layout' /\ Fresh'
  BY DEF IInv, TypeOK, Layout, Fresh, StartInPlace, Started
<1>3. CrashesAreKept'
  BY DEF IInv, CrashesAreKept, Fresh, StartInPlace, Started
<1>4. Kept'
  BY DEF IInv, TypeOK, Layout, Fresh, Kept, ResumeInTheWay, StartInPlace,
     Started
<1>5. Dumped'
  BY ResumeAssumption DEF IInv, TypeOK, Layout, Kept, Dumped, Saved,
     ResumeInTheWay, NoFile, Dump, StartInPlace, Started
<1>6. QED
  BY <1>1, <1>2, <1>3, <1>4, <1>5 DEF IInv

\* A fresh start gives up what the directory holds.
LEMMA StartAfreshKeeps ==
  ASSUME IInv, StartAfresh
  PROVE  IInv'
<1>a. exits' \in 0 .. MaxExits
  BY ResumeAssumption DEF IInv, TypeOK, StartAfresh, Started
<1>1. TypeOK'
  BY Zenon, <1>a DEF IInv, TypeOK, Dump, NoFile, StartAfresh, Started
<1>2. Layout' /\ Fresh'
  BY DEF IInv, TypeOK, Layout, Fresh, StartAfresh, Started
<1>3. CrashesAreKept'
  BY DEF IInv, CrashesAreKept, Fresh, StartAfresh, Started
<1>4. Kept'
  BY DEF IInv, TypeOK, Layout, Fresh, Kept, ResumeInTheWay, StartAfresh,
     Started
<1>5. Dumped'
  BY ResumeAssumption DEF IInv, TypeOK, Layout, Kept, Dumped, Saved,
     ResumeInTheWay, NoFile, Dump, StartAfresh, Started
<1>6. QED
  BY <1>1, <1>2, <1>3, <1>4, <1>5 DEF IInv

\* After the rename, or where it fails, _resume/ holds the session's entries.
LEMMA MoveQueueKeeps ==
  ASSUME IInv, MoveQueue
  PROVE  IInv'
<1>1. TypeOK'
  BY ZenonT(30), ResumeAssumption DEF IInv, TypeOK, Dump, NoFile, MoveQueue, Moves
<1>2. Layout' /\ Fresh'
  BY DEF IInv, TypeOK, Layout, Fresh, MoveQueue, Moves
<1>3. CrashesAreKept'
  BY DEF IInv, CrashesAreKept, Fresh, MoveQueue, Moves
<1>4. Kept'
  BY DEF IInv, TypeOK, Layout, Fresh, Kept, ResumeInTheWay, MoveQueue, Moves
<1>5. Dumped'
  BY ResumeAssumption DEF IInv, TypeOK, Layout, Kept, Dumped, Saved,
     ResumeInTheWay, NoFile, Dump, MoveQueue, Moves
<1>6. QED
  BY <1>1, <1>2, <1>3, <1>4, <1>5 DEF IInv

\* What delete_files takes from queue/ is in _resume/, or was given up.
LEMMA ClearQueueKeeps ==
  ASSUME IInv, ClearQueue
  PROVE  IInv'
<1>a. queue' \subseteq Case
  BY DEF IInv, TypeOK, ClearQueue
<1>1. TypeOK'
  BY Zenon, <1>a DEF IInv, TypeOK, ClearQueue
<1>2. Layout' /\ Fresh'
  BY DEF IInv, TypeOK, Layout, Fresh, ClearQueue
<1>3. CrashesAreKept'
  BY DEF IInv, CrashesAreKept, Fresh, ClearQueue
<1>4. Kept'
  BY DEF IInv, TypeOK, Layout, Fresh, Kept, ResumeInTheWay, ClearQueue
<1>5. Dumped'
  BY ResumeAssumption DEF IInv, TypeOK, Layout, Kept, Dumped, Saved,
     ResumeInTheWay, NoFile, Dump, ClearQueue
<1>6. QED
  BY <1>1, <1>2, <1>3, <1>4, <1>5 DEF IInv

\* The crashes of a session that is resumed are in the backup.
LEMMA BackUpCrashesKeeps ==
  ASSUME IInv, BackUpCrashes
  PROVE  IInv'
<1>1. TypeOK'
  BY ResumeAssumption DEF IInv, TypeOK, Dump, NoFile, BackUpCrashes, BacksUp
<1>2. Layout' /\ Fresh'
  BY DEF IInv, TypeOK, Layout, Fresh, BackUpCrashes, BacksUp
<1>3. CrashesAreKept'
  BY DEF IInv, CrashesAreKept, Fresh, BackUpCrashes, BacksUp
<1>4. Kept'
  BY DEF IInv, TypeOK, Layout, Fresh, Kept, ResumeInTheWay, BackUpCrashes,
     BacksUp
<1>5. Dumped'
  BY ResumeAssumption DEF IInv, TypeOK, Layout, Kept, Dumped, Saved,
     ResumeInTheWay, NoFile, Dump, BackUpCrashes, BacksUp
<1>6. QED
  BY <1>1, <1>2, <1>3, <1>4, <1>5 DEF IInv

\* mkdir() touches no entry.
LEMMA MakeDirsKeeps ==
  ASSUME IInv, MakeDirs
  PROVE  IInv'
<1>1. TypeOK'
  BY ZenonT(30), ResumeAssumption DEF IInv, TypeOK, Dump, NoFile, MakeDirs
<1>2. Layout' /\ Fresh'
  BY DEF IInv, TypeOK, Layout, Fresh, MakeDirs
<1>3. CrashesAreKept'
  BY DEF IInv, CrashesAreKept, Fresh, MakeDirs
<1>4. Kept'
  BY DEF IInv, TypeOK, Layout, Fresh, Kept, ResumeInTheWay, MakeDirs
<1>5. Dumped'
  BY ResumeAssumption DEF IInv, TypeOK, Layout, Kept, Dumped, Saved,
     ResumeInTheWay, NoFile, Dump, MakeDirs
<1>6. QED
  BY <1>1, <1>2, <1>3, <1>4, <1>5 DEF IInv

\* From here on target_hash names the build of the process.
LEMMA WriteHashKeeps ==
  ASSUME IInv, WriteHash
  PROVE  IInv'
<1>1. TypeOK'
  BY ResumeAssumption DEF IInv, TypeOK, Dump, NoFile, WriteHash,
     MayFastResume
<1>2. Layout' /\ Fresh'
  BY DEF IInv, TypeOK, Layout, Fresh, WriteHash, MayFastResume
<1>3. CrashesAreKept'
  BY DEF IInv, CrashesAreKept, Fresh, WriteHash, MayFastResume
<1>4. Kept'
  BY DEF IInv, TypeOK, Layout, Fresh, Kept, ResumeInTheWay, WriteHash,
     MayFastResume
<1>5. Dumped'
  BY Zenon, ResumeAssumption DEF IInv, TypeOK, Layout, Kept, Dumped, Saved,
     ResumeInTheWay, NoFile, Dump, WriteHash, MayFastResume
<1>6. QED
  BY <1>1, <1>2, <1>3, <1>4, <1>5 DEF IInv

\* The dump that is opened is about what _resume/ holds.
LEMMA OpenFastResumeKeeps ==
  ASSUME IInv, OpenFastResume
  PROVE  IInv'
<1>a. fast_resume' \in Dump /\ fastresume' \in Dump
  BY DEF IInv, TypeOK, Dump, NoFile, OpenFastResume, Unlink
<1>b. torn' \in BOOLEAN /\ partial' \in BOOLEAN
  BY Zenon DEF IInv, TypeOK, OpenFastResume, Unlink
<1>1. TypeOK'
  BY <1>a, <1>b DEF IInv, TypeOK, OpenFastResume, Unlink
<1>2. Layout' /\ Fresh'
  BY DEF IInv, TypeOK, Layout, Fresh, OpenFastResume, Unlink
<1>3. CrashesAreKept'
  BY DEF IInv, CrashesAreKept, Fresh, OpenFastResume, Unlink
<1>4. Kept'
  BY DEF IInv, TypeOK, Layout, Fresh, Kept, ResumeInTheWay, OpenFastResume,
     Unlink
<1>5. Dumped'
  <2>1. fastresume' = NoFile /\ pc = "open" /\ pc' = "read"
    BY DEF OpenFastResume, Unlink
  <2>2. fast_resume' # NoFile => fast_resume' = fastresume
    BY DEF OpenFastResume
  <2>3. UNCHANGED <<queue, resume, in_place, target, target_hash, passed, spoiled>>
    BY DEF OpenFastResume
  <2>4. target_hash = target /\ (fast_resume' # NoFile => in_place)
    BY <2>1 DEF IInv, Layout, Dumped
  <2>5. ASSUME ~passed, ~spoiled, fastresume # NoFile
        PROVE  fastresume.target = target /\ resume \subseteq fastresume.items
    <3>1. fastresume.target = target /\ Saved \subseteq fastresume.items
      BY <2>4, <2>5 DEF IInv, Dumped
    <3>2. ~ResumeInTheWay => resume = {}
      BY DEF IInv, Layout, ResumeInTheWay
    <3>3. QED
      BY <3>1, <3>2 DEF Saved
  <2>6. QED
    BY <2>1, <2>2, <2>3, <2>4, <2>5 DEF Dumped
<1>6. QED
  BY <1>1, <1>2, <1>3, <1>4, <1>5 DEF IInv

\* A session that is resumed imports _resume/.
LEMMA ReadTestcasesKeeps ==
  ASSUME IInv, ReadTestcases
  PROVE  IInv'
<1>1. TypeOK'
  BY ResumeAssumption DEF IInv, TypeOK, Dump, NoFile, ReadTestcases
<1>2. Layout' /\ Fresh'
  BY DEF IInv, TypeOK, Layout, Fresh, ReadTestcases
<1>3. CrashesAreKept'
  BY DEF IInv, CrashesAreKept, Fresh, ReadTestcases
<1>4. Kept'
  BY DEF IInv, TypeOK, Layout, Fresh, Kept, ResumeInTheWay, ReadTestcases
<1>5. Dumped'
  BY ResumeAssumption DEF IInv, TypeOK, Layout, Kept, Dumped, Saved,
     ResumeInTheWay, NoFile, Dump, ReadTestcases
<1>6. QED
  BY <1>1, <1>2, <1>3, <1>4, <1>5 DEF IInv

\* What is left to import and what has been is _resume/ as a whole.
LEMMA PivotInputsKeeps ==
  ASSUME IInv, PivotInputs
  PROVE  IInv'
<1>1. TypeOK'
  BY ResumeAssumption DEF IInv, TypeOK, Dump, NoFile, PivotInputs
<1>2. Layout' /\ Fresh'
  BY DEF IInv, TypeOK, Layout, Fresh, PivotInputs
<1>3. CrashesAreKept'
  BY DEF IInv, CrashesAreKept, Fresh, PivotInputs
<1>4. Kept'
  BY DEF IInv, TypeOK, Layout, Fresh, Kept, ResumeInTheWay, PivotInputs
<1>5. Dumped'
  BY ResumeAssumption DEF IInv, TypeOK, Layout, Kept, Dumped, Saved,
     ResumeInTheWay, NoFile, Dump, PivotInputs
<1>6. QED
  BY <1>1, <1>2, <1>3, <1>4, <1>5 DEF IInv

\* Once files of _resume/ are deleted, queue/ is complete.
LEMMA NukeResumeDirKeeps ==
  ASSUME IInv, NukeResumeDir
  PROVE  IInv'
<1>a. resume' \subseteq Case /\ state' \in BOOLEAN
  BY Zenon DEF IInv, TypeOK, NukeResumeDir
<1>1. TypeOK'
  BY Zenon, <1>a DEF IInv, TypeOK, NukeResumeDir
<1>2. Layout' /\ Fresh'
  BY DEF IInv, TypeOK, Layout, Fresh, NukeResumeDir
<1>3. CrashesAreKept'
  BY DEF IInv, CrashesAreKept, Fresh, NukeResumeDir
<1>4. Kept'
  BY DEF IInv, TypeOK, Layout, Fresh, Kept, ResumeInTheWay, NukeResumeDir
<1>5. Dumped'
  BY ResumeAssumption DEF IInv, TypeOK, Layout, Kept, Dumped, Saved,
     ResumeInTheWay, NoFile, Dump, NukeResumeDir
<1>6. QED
  BY <1>1, <1>2, <1>3, <1>4, <1>5 DEF IInv

\* The history starts anew from what was loaded.
LEMMA LoadSeedsKeeps ==
  ASSUME IInv, LoadSeeds
  PROVE  IInv'
<1>a. spoiled' \in BOOLEAN
  BY Zenon DEF IInv, TypeOK, ResumeInTheWay, LoadSeeds
<1>1. TypeOK'
  BY <1>a DEF IInv, TypeOK, LoadSeeds
<1>2. Layout' /\ Fresh'
  BY DEF IInv, TypeOK, Layout, Fresh, LoadSeeds
<1>3. CrashesAreKept'
  BY DEF IInv, CrashesAreKept, Fresh, LoadSeeds
<1>4. Kept'
  BY Zenon DEF IInv, TypeOK, Layout, Fresh, Kept, ResumeInTheWay, LoadSeeds
<1>5. Dumped'
  BY ResumeAssumption DEF IInv, TypeOK, Layout, Kept, Dumped, Saved,
     ResumeInTheWay, NoFile, Dump, LoadSeeds
<1>6. QED
  BY <1>1, <1>2, <1>3, <1>4, <1>5 DEF IInv

\* A new entry joins queue/.
LEMMA SaveCaseKeeps ==
  ASSUME IInv, NEW c \in Case, SaveCase(c)
  PROVE  IInv'
<1>1. TypeOK'
  BY ResumeAssumption DEF IInv, TypeOK, Dump, NoFile, SaveCase
<1>2. Layout' /\ Fresh'
  BY DEF IInv, TypeOK, Layout, Fresh, SaveCase
<1>3. CrashesAreKept'
  BY DEF IInv, CrashesAreKept, Fresh, SaveCase
<1>4. Kept'
  BY DEF IInv, TypeOK, Layout, Fresh, Kept, ResumeInTheWay, SaveCase
<1>5. Dumped'
  BY ResumeAssumption DEF IInv, TypeOK, Layout, Kept, Dumped, Saved,
     ResumeInTheWay, NoFile, Dump, SaveCase
<1>6. QED
  BY <1>1, <1>2, <1>3, <1>4, <1>5 DEF IInv

\* A new crash joins crashes/.
LEMMA SaveCrashKeeps ==
  ASSUME IInv, NEW k \in Crash, SaveCrash(k)
  PROVE  IInv'
<1>1. TypeOK'
  BY ResumeAssumption DEF IInv, TypeOK, Dump, NoFile, SaveCrash
<1>2. Layout' /\ Fresh'
  BY DEF IInv, TypeOK, Layout, Fresh, SaveCrash
<1>3. CrashesAreKept'
  BY DEF IInv, CrashesAreKept, Fresh, SaveCrash
<1>4. Kept'
  BY DEF IInv, TypeOK, Layout, Fresh, Kept, ResumeInTheWay, SaveCrash
<1>5. Dumped'
  BY ResumeAssumption DEF IInv, TypeOK, Layout, Kept, Dumped, Saved,
     ResumeInTheWay, NoFile, Dump, SaveCrash
<1>6. QED
  BY <1>1, <1>2, <1>3, <1>4, <1>5 DEF IInv

\* The dump is about queue/ as it is at the end.
LEMMA BeginExitKeeps ==
  ASSUME IInv, BeginExit
  PROVE  IInv'
<1>a. exits' \in 0 .. MaxExits
  BY ResumeAssumption DEF IInv, TypeOK, BeginExit
<1>b. fastresume' \in Dump
  BY DEF IInv, TypeOK, Dump, BeginExit
<1>c. partial' \in BOOLEAN /\ passed' \in BOOLEAN
  BY Zenon DEF IInv, TypeOK, BeginExit
<1>1. TypeOK'
  BY <1>a, <1>b, <1>c DEF IInv, TypeOK, BeginExit
<1>2. Layout' /\ Fresh'
  BY DEF IInv, TypeOK, Layout, Fresh, BeginExit
<1>3. CrashesAreKept'
  BY DEF IInv, CrashesAreKept, Fresh, BeginExit
<1>4. Kept'
  BY DEF IInv, TypeOK, Layout, Fresh, Kept, ResumeInTheWay, BeginExit
<1>5. Dumped'
  BY ResumeAssumption DEF IInv, TypeOK, Layout, Kept, Dumped, Saved,
     ResumeInTheWay, NoFile, Dump, BeginExit
<1>6. QED
  BY <1>1, <1>2, <1>3, <1>4, <1>5 DEF IInv

\* Completing the dump changes nothing else.
LEMMA EndExitKeeps ==
  ASSUME IInv, EndExit
  PROVE  IInv'
<1>1. TypeOK'
  BY Zenon, ResumeAssumption DEF IInv, TypeOK, Dump, NoFile, EndExit
<1>2. Layout' /\ Fresh'
  BY DEF IInv, TypeOK, Layout, Fresh, EndExit
<1>3. CrashesAreKept'
  BY DEF IInv, CrashesAreKept, Fresh, EndExit
<1>4. Kept'
  BY DEF IInv, TypeOK, Layout, Fresh, Kept, ResumeInTheWay, EndExit
<1>5. Dumped'
  BY ResumeAssumption DEF IInv, TypeOK, Layout, Kept, Dumped, Saved,
     ResumeInTheWay, NoFile, Dump, EndExit
<1>6. QED
  BY <1>1, <1>2, <1>3, <1>4, <1>5 DEF IInv

\* A kill leaves the entries complete in _resume/ or in queue/, or spoils them.
LEMMA KillKeeps ==
  ASSUME IInv, Kill
  PROVE  IInv'
<1>1. TypeOK'
  BY ResumeAssumption DEF IInv, TypeOK, Dump, NoFile, Kill, HalfNuked
<1>2. Layout' /\ Fresh'
  BY DEF IInv, TypeOK, Layout, Fresh, Kill, HalfNuked
<1>3. CrashesAreKept'
  BY DEF IInv, CrashesAreKept, Fresh, Kill, HalfNuked
<1>4. Kept'
  BY DEF IInv, TypeOK, Layout, Fresh, Kept, ResumeInTheWay, Kill, HalfNuked
<1>5. Dumped'
  BY ResumeAssumption DEF IInv, TypeOK, Layout, Kept, Dumped, Saved,
     ResumeInTheWay, NoFile, Dump, Kill, HalfNuked
<1>6. QED
  BY <1>1, <1>2, <1>3, <1>4, <1>5 DEF IInv

----------------------------------------------------------------------------
(* The theorems *)

\* A new output directory satisfies the invariant.
LEMMA ResumeStarts == Init => IInv
<1> SUFFICES ASSUME Init PROVE IInv
  OBVIOUS
<1>a. NoFile \in Dump
  BY DEF NoFile, Dump
<1>b. /\ state \in BOOLEAN /\ partial \in BOOLEAN /\ torn \in BOOLEAN
      /\ in_place \in BOOLEAN /\ no_fastresume \in BOOLEAN
      /\ spoiled \in BOOLEAN /\ passed \in BOOLEAN
  BY Zenon DEF Init
<1>c. kills \in 0 .. MaxKills /\ exits \in 0 .. MaxExits
  BY ResumeAssumption DEF Init
<1>d. /\ dirs \subseteq {"queue", "_resume", "crashes"}
      /\ queue \subseteq Case /\ resume \subseteq Case
      /\ todo \subseteq Case /\ found \subseteq Case
      /\ crashes \subseteq Crash /\ backups \subseteq Crash /\ crashed \subseteq Crash
  BY DEF Init
<1>1. TypeOK
  BY <1>a, <1>b, <1>c, <1>d DEF Init, TypeOK
<1>2. Layout /\ Fresh /\ CrashesAreKept /\ Kept /\ Dumped
  BY DEF Init, Layout, Fresh, CrashesAreKept, Kept, Dumped, NoFile, ResumeInTheWay
<1>3. QED
  BY <1>1, <1>2 DEF IInv

\* A step that changes nothing keeps it.
LEMMA ResumeStutters == IInv /\ UNCHANGED vars => IInv'
  BY DEF IInv, TypeOK, Layout, Fresh, CrashesAreKept, Kept, Dumped, Saved,
         ResumeInTheWay, vars

\* Wherever a start of afl-fuzz is cut short, and however often, the output
\* directory satisfies the invariant: handle_existing_out_dir, pivot_inputs and
\* nuke_resume_dir keep one complete copy of the entries at every step.
THEOREM ResumeKeeps == Spec => []IInv
<1>1. IInv /\ [Next]_vars => IInv'
  <2> SUFFICES ASSUME IInv, [Next]_vars PROVE IInv'
    OBVIOUS
  <2>1. CASE StartInPlace \/ StartAfresh
    BY <2>1, StartInPlaceKeeps, StartAfreshKeeps
  <2>2. CASE MoveQueue \/ ClearQueue \/ BackUpCrashes \/ MakeDirs \/ WriteHash
    BY <2>2, MoveQueueKeeps, ClearQueueKeeps, BackUpCrashesKeeps, MakeDirsKeeps,
       WriteHashKeeps
  <2>3. CASE OpenFastResume \/ ReadTestcases \/ PivotInputs \/ NukeResumeDir
               \/ LoadSeeds
    BY <2>3, OpenFastResumeKeeps, ReadTestcasesKeeps, PivotInputsKeeps,
       NukeResumeDirKeeps, LoadSeedsKeeps
  <2>4. CASE Session
    BY <2>4, SaveCaseKeeps, SaveCrashKeeps, BeginExitKeeps DEF Session
  <2>5. CASE EndExit \/ Kill
    BY <2>5, EndExitKeeps, KillKeeps
  <2>6. CASE UNCHANGED vars
    BY <2>6, ResumeStutters
  <2>7. QED
    BY <2>1, <2>2, <2>3, <2>4, <2>5, <2>6 DEF Next, StartUp
<1>2. QED
  BY <1>1, ResumeStarts, PTL DEF Spec

\* The files and the process hold values of their types.
THEOREM ResumeTypes == Spec => []TypeOK
<1>1. IInv => TypeOK
  BY DEF IInv
<1>2. QED
  BY <1>1, ResumeKeeps, PTL

\* No crash that was saved is lost by resuming: handle_existing_out_dir deletes
\* crashes/ only after it has renamed a directory that holds some.
THEOREM CrashesSurvive == Spec => []CrashesAreKept
<1>1. IInv => CrashesAreKept
  BY DEF IInv
<1>2. QED
  BY <1>1, ResumeKeeps, PTL

\* A session resumed in place has every entry it had, whatever was cut short
\* before, unless _resume/ was spoiled.
THEOREM EntriesSurvive == Spec => FoundIsKept
<1> DEFINE Step == pc = "load" /\ pc' = "fuzz" /\ in_place /\ ~spoiled
                     => found \subseteq queue'
<1>1. IInv /\ [Next]_vars => [Step]_vars
  <2> SUFFICES ASSUME IInv, Next, pc = "load", pc' = "fuzz", ~spoiled
               PROVE  found \subseteq queue'
    OBVIOUS
  <2>1. LoadSeeds
    BY Zenon DEF Next, StartInPlace, StartAfresh, Started, StartUp, Session, MoveQueue,
           ClearQueue, BackUpCrashes, MakeDirs, WriteHash, OpenFastResume,
           ReadTestcases, PivotInputs, NukeResumeDir, SaveCase, SaveCrash,
           BeginExit, EndExit, Kill
  <2>2. QED
    BY <2>1 DEF IInv, Kept, LoadSeeds
<1>2. QED
  BY <1>1, ResumeKeeps, PTL DEF Spec, FoundIsKept

\* A dump that is loaded is about the build that runs and about exactly the
\* entries in queue/: afl_load_seeds compares only their numbers, which is
\* enough because what was imported is part of what was dumped.
THEOREM DumpsFit == Spec => FastResumeFits
<1> DEFINE Step == pc = "load" /\ pc' = "fuzz" /\ fast_resume # NoFile /\ ~passed
                     /\ ~spoiled
                     => fast_resume = [target |-> target, items |-> queue']
<1>1. IInv /\ [Next]_vars => [Step]_vars
  <2> SUFFICES ASSUME IInv, Next, pc = "load", pc' = "fuzz",
                      fast_resume # NoFile, ~passed, ~spoiled
               PROVE  fast_resume = [target |-> target, items |-> queue']
    OBVIOUS
  <2>1. LoadSeeds
    BY Zenon DEF Next, StartInPlace, StartAfresh, Started, StartUp, Session, MoveQueue,
           ClearQueue, BackUpCrashes, MakeDirs, WriteHash, OpenFastResume,
           ReadTestcases, PivotInputs, NukeResumeDir, SaveCase, SaveCrash,
           BeginExit, EndExit, Kill
  <2>2. queue' = queue /\ Cardinality(fast_resume.items) = Cardinality(queue)
    BY <2>1 DEF LoadSeeds, DumpFits
  <2>3. fast_resume.target = target /\ queue \subseteq fast_resume.items
    BY DEF IInv, Dumped
  <2>4. fast_resume \in Dump
    BY DEF IInv, TypeOK
  <2>5. IsFiniteSet(fast_resume.items)
    BY <2>4, ResumeAssumption, FS_Subset DEF Dump
  <2>6. queue = fast_resume.items
    BY <2>2, <2>3, <2>5, FS_Subset, FS_CardinalityType
  <2>7. QED
    BY <2>2, <2>3, <2>4, <2>6 DEF Dump
<1>2. QED
  BY <1>1, ResumeKeeps, PTL DEF Spec, FastResumeFits

----------------------------------------------------------------------------
(* A start that fails *)

\* What a start finds: nothing where it makes its directories, and a dump, taken
\* out of the directory, that is about the entries of the session.
Importing == {"read", "pivot", "nuke", "load"}

Begun ==
  /\ pc \in {"backup", "mkdir"} => "queue" \notin dirs
  /\ pc = "mkdir" => "crashes" \notin dirs
  /\ pc \in Running => found = queue
  /\ pc \in Importing /\ fast_resume # NoFile => fastresume = NoFile
  /\ ~passed /\ found # {} =>
       /\ fastresume # NoFile => fastresume.items = found
       /\ pc \in Importing /\ fast_resume # NoFile => fast_resume.items = found

\* A start that was not killed ends for one of two reasons: there is nothing in
\* _resume/, and the session had nothing or _resume/ is spoiled; or the dump does
\* not fit, and then it is gone and the next start does without it.
FailsForCause ==
  StartUp /\ pc' = "down" =>
    \/ pc = "read" /\ in_place /\ (found = {} \/ spoiled)
    \/ /\ pc = "load" /\ fast_resume # NoFile /\ fastresume = NoFile
       /\ torn \/ passed \/ spoiled \/ found = {}

\* Every step keeps what a start finds.
LEMMA BegunKept ==
  ASSUME IInv, Begun, [Next]_vars
  PROVE  Begun'
<1> USE DEF Begun, Importing
<1>1. CASE StartInPlace BY <1>1 DEF StartInPlace, Started
<1>2. CASE StartAfresh BY <1>2 DEF StartAfresh, Started
<1>3. CASE MoveQueue BY <1>3 DEF MoveQueue
<1>4. CASE ClearQueue BY <1>4 DEF ClearQueue
<1>5. CASE BackUpCrashes BY <1>5 DEF BackUpCrashes
<1>6. CASE MakeDirs BY <1>6 DEF MakeDirs
<1>7. CASE WriteHash
  <2>1. fast_resume = NoFile BY <1>7 DEF WriteHash, IInv, Dumped
  <2> QED BY Zenon, <1>7, <2>1 DEF WriteHash
<1>8. CASE OpenFastResume BY <1>8 DEF OpenFastResume, Unlink
<1>9. CASE ReadTestcases BY <1>9 DEF ReadTestcases
<1>10. CASE PivotInputs BY <1>10 DEF PivotInputs
<1>11. CASE NukeResumeDir BY <1>11 DEF NukeResumeDir
<1>12. CASE LoadSeeds
  <2>1. ~passed => fastresume = NoFile BY <1>12 DEF LoadSeeds, IInv, Dumped
  <2> QED BY <1>12, <2>1 DEF LoadSeeds
<1>13. CASE \E c \in Case : SaveCase(c)
  <2>1. ~passed => fastresume = NoFile BY <1>13 DEF SaveCase, IInv, Dumped
  <2> QED BY <1>13, <2>1 DEF SaveCase
<1>14. CASE \E k \in Crash : SaveCrash(k) BY <1>14 DEF SaveCrash
<1>15. CASE BeginExit BY <1>15 DEF BeginExit
<1>16. CASE EndExit BY <1>16 DEF EndExit
<1>17. CASE Kill BY <1>17 DEF Kill
<1>18. CASE UNCHANGED vars BY <1>18 DEF vars
<1> QED
  BY Zenon, <1>1, <1>2, <1>3, <1>4, <1>5, <1>6, <1>7, <1>8, <1>9, <1>10, <1>11, <1>12,
     <1>13, <1>14, <1>15, <1>16, <1>17, <1>18
  DEF Next, StartUp, Session

\* afl-fuzz -i -: no mkdir() fails, and read_testcases finds the entries, over
\* whatever an interrupted start left behind; only a dump that stops short, or
\* was passed by, makes a start end, and none does so twice.
THEOREM StartsFailForCause == Spec => [][FailsForCause]_vars
<1>1. Init => Begun
  BY DEF Init, Begun, Importing
<1>2. IInv /\ Begun /\ [Next]_vars => Begun'
  BY BegunKept
<1>3. ASSUME IInv, Begun PROVE FailsForCause
  <2> SUFFICES ASSUME StartUp, pc' = "down"
               PROVE  \/ pc = "read" /\ in_place /\ (found = {} \/ spoiled)
                      \/ /\ pc = "load" /\ fast_resume # NoFile
                         /\ fastresume = NoFile
                         /\ torn \/ passed \/ spoiled \/ found = {}
    BY DEF FailsForCause
  <2>1. MakeDirs \/ ReadTestcases \/ LoadSeeds
    BY Zenon, <1>3
    DEF StartUp, MoveQueue, ClearQueue, BackUpCrashes, WriteHash,
        OpenFastResume, PivotInputs, NukeResumeDir
  <2>2. ~MakeDirs
    BY Zenon, <1>3 DEF MakeDirs, Begun
  <2>3. CASE ReadTestcases
    <3>1. in_place /\ resume = {}
      BY <2>3, ResumeAssumption DEF ReadTestcases
    <3>2. ~spoiled => found = {}
      BY <1>3, <2>3, <3>1 DEF ReadTestcases, IInv, Kept
    <3> QED BY <2>3, <3>1, <3>2 DEF ReadTestcases
  <2>4. CASE LoadSeeds
    <3>1. pc = "load" /\ fast_resume # NoFile /\ ~DumpFits
      BY <2>4 DEF LoadSeeds
    <3>2. fastresume = NoFile
      BY <1>3, <3>1 DEF Begun, Importing
    <3>3. ASSUME ~passed, ~spoiled, found # {}
          PROVE  torn
      <4>1. fast_resume.items = found
        BY <1>3, <3>1, <3>3 DEF Begun, Importing
      <4>2. found \subseteq queue /\ queue \subseteq fast_resume.items
        BY <1>3, <3>1, <3>3 DEF IInv, Kept, Dumped
      <4> QED BY <3>1, <4>1, <4>2 DEF DumpFits
    <3> QED BY <1>3, <3>1, <3>2, <3>3 DEF IInv, TypeOK
  <2> QED BY <2>1, <2>2, <2>3, <2>4
<1>4. IInv /\ Begun => FailsForCause
  BY <1>3
<1> QED BY <1>1, <1>2, <1>4, ResumeKeeps, PTL DEF Spec

============================================================================
