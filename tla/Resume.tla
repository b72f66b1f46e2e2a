------------------------------- MODULE Resume -------------------------------
(***************************************************************************)
(* Starting afl-fuzz on an output directory an earlier session left there, *)
(* afresh or in place (-i -, AFL_AUTORESUME): what handle_existing_out_dir *)
(* moves, backs up and deletes, how pivot_inputs fills the new queue/ from *)
(* _resume/ and nuke_resume_dir removes the latter, and which fast resume  *)
(* file is loaded.  The process can be killed between any two of these     *)
(* steps; only the files survive.  Two in-place starts are at least a      *)
(* second apart, so that the names of the backups differ.                  *)
(***************************************************************************)
EXTENDS Integers, FiniteSets

CONSTANTS
  Case,      \* test cases
  Seeds,     \* those in the input directory of a fresh start
  Crash,     \* crashing inputs
  Target,    \* builds of the target
  MaxKills,  \* bound: times the process is killed
  MaxExits   \* bound: sessions that end by themselves, or fresh starts

ASSUME ResumeAssumption ==
  /\ IsFiniteSet(Case)             \* files of at most MAX_FILE bytes
  /\ Seeds \subseteq Case /\ Seeds # {} /\ "none" \notin Target
  /\ MaxKills \in Nat /\ MaxExits \in Nat

NoFile == [target |-> "none", items |-> {}]

VARIABLES
  \* the output directory
  dirs,         \* which of queue/, _resume/ and crashes/ exist
  queue,        \* test cases in queue/
  resume,       \* test cases in _resume/
  state,        \* _resume/.state exists
  crashes,      \* files in crashes/
  backups,      \* files in crashes.<date>/
  target_hash,  \* the build named in the file target_hash, or "none"
  fastresume,   \* fastresume.bin: the build and the entries it is about
  partial,      \* fastresume.bin has not been written to its end
  \* the process
  pc, in_place, target,
  no_fastresume,   \* AFL_NO_FASTRESUME
  todo,         \* test cases to import, or to delete
  fast_resume,  \* the contents of the open fastresume.bin, or NoFile
  torn,         \* those contents stop short
  kills, exits,
  \* history
  found,        \* the entries the session has had in its queue
  crashed,      \* the crashing inputs it has saved
  spoiled,      \* what is in _resume/ is not what the session had
  passed        \* a session has passed fastresume.bin by

files == <<dirs, queue, resume, state, crashes, backups, target_hash,
           fastresume, partial>>
process == <<in_place, target, no_fastresume, todo, fast_resume, torn>>
bounds == <<kills, exits>>
history == <<found, crashed, spoiled, passed>>
vars == <<files, pc, process, bounds, history>>

Dump == [target : Target \cup {"none"}, items : SUBSET Case]

TypeOK ==
  /\ dirs \subseteq {"queue", "_resume", "crashes"}
  /\ queue \subseteq Case /\ resume \subseteq Case
  /\ todo \subseteq Case /\ found \subseteq Case
  /\ crashes \subseteq Crash /\ backups \subseteq Crash /\ crashed \subseteq Crash
  /\ target_hash \in Target \cup {"none"}
  /\ target \in Target
  /\ fastresume \in Dump /\ fast_resume \in Dump
  /\ state \in BOOLEAN /\ partial \in BOOLEAN /\ torn \in BOOLEAN
  /\ in_place \in BOOLEAN /\ no_fastresume \in BOOLEAN
  /\ spoiled \in BOOLEAN /\ passed \in BOOLEAN
  /\ pc \in {"down", "move", "clear", "backup", "mkdir", "hash", "open", "read",
             "pivot", "nuke", "load", "fuzz", "exit"}
  /\ kills \in 0 .. MaxKills /\ exits \in 0 .. MaxExits

\* rename() replaces an empty directory and fails on one that is not
ResumeInTheWay == "_resume" \in dirs /\ (resume # {} \/ state)

----------------------------------------------------------------------------
(* handle_existing_out_dir *)

\* a process starts, with its options, on whatever build there is
Started(again) ==
  /\ pc = "down"
  /\ pc' = "move"
  /\ in_place' = again
  /\ target' \in Target
  /\ no_fastresume' \in BOOLEAN
  /\ todo' = {} /\ fast_resume' = NoFile /\ torn' = FALSE
  /\ UNCHANGED files

\* -i -, or AFL_AUTORESUME with a fuzzer_stats file in place
StartInPlace == Started(TRUE) /\ UNCHANGED <<bounds, history>>

\* A fresh start.  "At-risk data found" refuses it when fuzzer_stats tells of
\* more than OUTPUT_GRACE minutes of work; here it is granted, and what the
\* directory held is no longer wanted
StartAfresh ==
  /\ Started(FALSE)
  /\ exits < MaxExits
  /\ exits' = exits + 1
  /\ found' = {} /\ crashed' = {}
  /\ UNCHANGED <<kills, spoiled, passed>>

MovesOver == in_place /\ "queue" \in dirs                       \* mutant

Moves == in_place /\ "queue" \in dirs /\ ~ResumeInTheWay

\* rename(queue, _resume), "and we let rename() fail silently"
MoveQueue ==
  /\ pc = "move"
  /\ pc' = "clear"
  /\ IF Moves
     THEN /\ dirs' = (dirs \ {"queue"}) \cup {"_resume"}
          /\ resume' = queue
          /\ queue' = {}
          /\ state' = TRUE
     ELSE UNCHANGED <<dirs, queue, resume, state>>
  /\ UNCHANGED <<crashes, backups, target_hash, fastresume, partial, process,
                 bounds, history>>

\* delete_files(queue): one file after the other, then the directory
ClearQueue ==
  /\ pc = "clear"
  /\ \/ /\ \E c \in queue : queue' = queue \ {c}
        /\ UNCHANGED <<pc, dirs>>
     \/ /\ queue = {}
        /\ dirs' = dirs \ {"queue"}
        /\ pc' = "backup"
        /\ UNCHANGED queue
  /\ UNCHANGED <<resume, state, crashes, backups, target_hash,
                 fastresume, partial, process, bounds, history>>

BacksUpAfresh == ~in_place /\ crashes # {}                       \* mutant

BacksUp == in_place /\ crashes # {}

\* crashes/ is renamed, when resuming and not empty, or else deleted; hangs/
\* goes the same way
BackUpCrashes ==
  /\ pc = "backup"
  /\ IF BacksUp
     THEN backups' = backups \cup crashes
     ELSE UNCHANGED backups
  /\ crashes' = {}
  /\ dirs' = dirs \ {"crashes"}
  /\ pc' = "mkdir"
  /\ UNCHANGED <<queue, resume, state, target_hash, fastresume, partial, process,
                 bounds, history>>

----------------------------------------------------------------------------
(* setup_dirs_fds and main *)

\* each mkdir() must create its directory, or the process ends
MakeDirs ==
  /\ pc = "mkdir"
  /\ IF dirs \cap {"queue", "crashes"} = {}
     THEN pc' = "hash" /\ dirs' = dirs \cup {"queue", "crashes"}
     ELSE pc' = "down" /\ UNCHANGED dirs
  /\ UNCHANGED <<queue, resume, state, crashes, backups, target_hash, fastresume,
                 partial, process, bounds, history>>

AnyBuild == in_place /\ ~no_fastresume                           \* mutant

MayFastResume == in_place /\ ~no_fastresume /\ target_hash = target

\* prev_target_hash is read and compared, and write_setup_file replaces it
WriteHash ==
  /\ pc = "hash"
  /\ pc' = IF MayFastResume THEN "open" ELSE "read"
  /\ target_hash' = target
  /\ passed' = (passed \/ (pc' = "read" /\ fastresume # NoFile))
  /\ UNCHANGED <<dirs, queue, resume, state, crashes, backups, fastresume,
                 partial, process, bounds, found, crashed, spoiled>>

Keep(file) == file                                                \* mutant

Unlink(file) == NoFile

\* "If the fast resume file is not valid we will be unable to start, so we
\* remove the file but keep the file descriptor open."  A file too short for its
\* version is ignored
OpenFastResume ==
  /\ pc = "open"
  /\ \/ fast_resume' = fastresume /\ torn' = partial
     \/ partial /\ fast_resume' = NoFile /\ torn' = FALSE
  /\ fastresume' = Unlink(fastresume)
  /\ partial' = (partial /\ fastresume' # NoFile)
  /\ pc' = "read"
  /\ UNCHANGED <<dirs, queue, resume, state, crashes, backups, target_hash,
                 in_place, target, no_fastresume, todo, bounds, history>>

\* read_testcases, from _resume/ or the input directory
ReadTestcases ==
  /\ pc = "read"
  /\ todo' = IF in_place THEN resume ELSE Seeds
  /\ pc' = IF todo' = {} THEN "down" ELSE "pivot"
  /\ UNCHANGED <<files, in_place, target, no_fastresume, fast_resume, torn,
                 bounds, history>>

\* pivot_inputs, one link after the other
PivotInputs ==
  /\ pc = "pivot"
  /\ \/ /\ \E c \in todo : queue' = queue \cup {c} /\ todo' = todo \ {c}
        /\ UNCHANGED pc
     \/ /\ todo = {}
        /\ pc' = IF in_place THEN "nuke" ELSE "load"
        /\ UNCHANGED <<queue, todo>>
  /\ UNCHANGED <<dirs, resume, state, crashes, backups, target_hash, fastresume,
                 partial, in_place, target, no_fastresume, fast_resume, torn,
                 bounds, history>>

\* nuke_resume_dir: .state, then one file after the other, then the directory
NukeResumeDir ==
  /\ pc = "nuke"
  /\ \/ /\ state
        /\ state' = FALSE
        /\ UNCHANGED <<pc, dirs, resume>>
     \/ /\ ~state
        /\ \E c \in resume : resume' = resume \ {c}
        /\ UNCHANGED <<pc, dirs, state>>
     \/ /\ ~state /\ resume = {}
        /\ dirs' = dirs \ {"_resume"}
        /\ pc' = "load"
        /\ UNCHANGED <<resume, state>>
  /\ UNCHANGED <<queue, crashes, backups, target_hash, fastresume,
                 partial, process, bounds, history>>

\* the dump is read, one record for each entry of the queue, or the process
\* ends; without one all entries are calibrated
DumpFits == ~torn /\ Cardinality(fast_resume.items) = Cardinality(queue)

LoadSeeds ==
  /\ pc = "load"
  /\ IF fast_resume # NoFile /\ ~DumpFits
     THEN pc' = "down" /\ UNCHANGED <<found, spoiled>>
     ELSE /\ pc' = "fuzz"
          /\ found' = queue
          /\ spoiled' = ResumeInTheWay
  /\ UNCHANGED <<dirs, queue, resume, state, crashes, backups, target_hash,
                 fastresume, partial, process, bounds, crashed, passed>>

----------------------------------------------------------------------------
(* The session, and its end *)

SaveCase(c) ==
  /\ pc = "fuzz"
  /\ queue' = queue \cup {c}
  /\ found' = found \cup {c}
  /\ UNCHANGED <<dirs, resume, state, crashes, backups, target_hash,
                 fastresume, partial, pc, process, bounds, crashed, spoiled,
                 passed>>

SaveCrash(k) ==
  /\ pc = "fuzz"
  /\ k \notin backups
  /\ crashes' = crashes \cup {k}
  /\ crashed' = crashed \cup {k}
  /\ UNCHANGED <<dirs, queue, resume, state, backups, target_hash,
                 fastresume, partial, pc, process, bounds, found, spoiled,
                 passed>>

\* stop_soon: fastresume.bin is begun, if it is wanted
BeginExit ==
  /\ pc = "fuzz"
  /\ exits < MaxExits
  /\ exits' = exits + 1
  /\ IF no_fastresume
     THEN pc' = "down" /\ UNCHANGED <<fastresume, partial, passed>>
     ELSE /\ pc' = "exit"
          /\ fastresume' = [target |-> target, items |-> queue]
          /\ partial' = TRUE
          /\ passed' = FALSE
  /\ UNCHANGED <<dirs, queue, resume, state, crashes, backups, target_hash, process,
                 kills, found, crashed, spoiled>>

EndExit ==
  /\ pc = "exit"
  /\ pc' = "down"
  /\ partial' = FALSE
  /\ UNCHANGED <<dirs, queue, resume, state, crashes, backups, target_hash,
                 fastresume, process, bounds, history>>

\* what _resume/ still holds would be taken for the whole queue
HalfNuked == pc = "nuke" /\ resume # {} /\ ~(queue \subseteq resume)

Kill ==
  /\ pc # "down"
  /\ kills < MaxKills
  /\ kills' = kills + 1
  /\ pc' = "down"
  /\ spoiled' = (spoiled \/ HalfNuked)
  /\ UNCHANGED <<files, process, exits, found, crashed, passed>>

----------------------------------------------------------------------------
(* The specification *)

Init ==
  /\ dirs = {} /\ queue = {} /\ resume = {} /\ state = FALSE
  /\ crashes = {} /\ backups = {}
  /\ target_hash = "none"
  /\ fastresume = NoFile /\ partial = FALSE
  /\ pc = "mkdir" /\ in_place = FALSE /\ no_fastresume \in BOOLEAN
  /\ target \in Target
  /\ todo = {} /\ fast_resume = NoFile /\ torn = FALSE
  /\ kills = 0 /\ exits = 0
  /\ found = {} /\ crashed = {} /\ spoiled = FALSE /\ passed = FALSE

StartUp ==
  \/ MoveQueue \/ ClearQueue \/ BackUpCrashes \/ MakeDirs \/ WriteHash
  \/ OpenFastResume \/ ReadTestcases \/ PivotInputs \/ NukeResumeDir \/ LoadSeeds

Session ==
  \/ \E c \in Case : SaveCase(c)
  \/ \E k \in Crash : SaveCrash(k)
  \/ BeginExit

Next == StartInPlace \/ StartAfresh \/ StartUp \/ Session \/ EndExit \/ Kill

Spec == Init /\ [][Next]_vars

\* a process that has begun to start goes on, and the user does resume
FairSpec == Spec /\ WF_vars(StartUp) /\ WF_vars(StartInPlace) /\ WF_vars(EndExit)

----------------------------------------------------------------------------
(* Properties *)

\* A session resumed in place goes on with every test case it had, wherever
\* earlier attempts to resume it were killed: after MoveQueue, while queue/ was
\* being cleared or filled.  Two things spoil _resume/: a process killed while
\* it deletes the files in it, and a fresh session that leaves it lying there.
FoundIsKept ==
  [][pc = "load" /\ pc' = "fuzz" /\ in_place /\ ~spoiled
       => found \subseteq queue']_vars

\* handle_existing_out_dir: "we temporarily move the old queue/ to a new
\* location that gets deleted once import to the new queue/ is finished".  The
\* same without the two exceptions.
FoundIsAlwaysKept ==
  [][pc = "load" /\ pc' = "fuzz" /\ in_place => found \subseteq queue']_vars

\* No crashing input the session saved is deleted by resuming it: it stays in
\* crashes/ or in one of its backups.
CrashesAreKept == crashed \subseteq crashes \cup backups

\* A dump of entries and coverage is loaded only on top of the queue, and for
\* the build, it was written for; unless a session that was not to use it, or
\* not for its build, has passed it by without replacing it, or _resume/ is
\* spoiled.
FastResumeFits ==
  [][pc = "load" /\ pc' = "fuzz" /\ fast_resume # NoFile /\ ~passed /\ ~spoiled
       => fast_resume = [target |-> target, items |-> queue']]_vars

\* A session that has something to resume does resume: whatever was half done
\* when the process was killed, mkdir, a dump that stops short or a directory
\* in the way does not keep it from starting for ever.
ResumeWorks ==
  pc = "down" /\ found # {} ~> pc = "fuzz" \/ found = {} \/ spoiled

============================================================================
