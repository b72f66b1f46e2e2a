------------------------------ MODULE MainNode ------------------------------
(***************************************************************************)
(* Which instance of a parallel campaign is the main node.  Instances meet *)
(* only in the directory afl->sync_dir: each has an output directory there *)
(* and a main node keeps a file is_main_node in its own.  An instance      *)
(* started with -M is a main node for good.  One started with -S, finding  *)
(* no such file in check_sync_fuzzers or sync_fuzzers, makes itself a      *)
(* temporary main node, until it meets another one.                        *)
(*                                                                         *)
(* Directories and files survive the process; the flag afl->is_main_node   *)
(* does not.  Each system call is one action.  The locals of the two       *)
(* functions are reset when the function returns.                          *)
(***************************************************************************)
EXTENDS FiniteSets, Naturals

CONSTANTS
  Mains,        \* instances started with -M
  Secondaries,  \* instances started with -S
  MaxStarts     \* bound: how often an instance is started

Nodes == Mains \cup Secondaries

ASSUME NodesAssumption ==
  /\ Mains \cap Secondaries = {}
  /\ IsFiniteSet(Nodes)
  /\ MaxStarts \in Nat

VARIABLES
  pc,            \* where each instance is
  is_main_node,  \* afl->is_main_node
  todo,          \* the entries readdir has still to return
  have_main,     \* check_sync_fuzzers has met a main node
  synced,        \* sync_fuzzers: synced > 0 (entries > 0: todo was not empty)
  starts,        \* how often each instance was started
  dirs,          \* the output directories in sync_dir
  marker,        \* the directories that hold a file is_main_node
  killed         \* history: the instances that were killed at least once

local == <<pc, is_main_node, todo, have_main, synced, starts>>
vars  == <<local, dirs, marker, killed>>

Up(n) == pc[n] # "down"
Goto(n, l) == pc' = [pc EXCEPT ![n] = l]

Init ==
  /\ pc = [n \in Nodes |-> "down"]
  /\ is_main_node = [n \in Nodes |-> FALSE]
  /\ todo = [n \in Nodes |-> {}]
  /\ have_main = [n \in Nodes |-> FALSE]
  /\ synced = [n \in Nodes |-> FALSE]
  /\ starts = [n \in Nodes |-> 0]
  /\ dirs = {} /\ marker = {} /\ killed = {}

-----------------------------------------------------------------------------
(* Start and end of an instance                                            *)

(* The command line is parsed and the output directory created or reused.  *)
(* A directory scan in progress may or may not return a new directory.     *)
StartDirs(n) == dirs \cup {n}

Start(n) ==
  /\ pc[n] = "down" /\ starts[n] < MaxStarts
  /\ starts' = [starts EXCEPT ![n] = @ + 1]
  /\ is_main_node' = [is_main_node EXCEPT ![n] = n \in Mains]
  /\ dirs' = StartDirs(n)
  /\ \E S \in SUBSET {m \in Nodes : n \notin dirs /\ pc[m] \in {"check", "sync"}} :
       todo' = [m \in Nodes |-> IF m \in S THEN todo[m] \cup {n} ELSE todo[m]]
  /\ Goto(n, "setup")
  /\ UNCHANGED <<have_main, synced, marker, killed>>

(* setup_dirs_fds: a main node leaves its mark.  Unless the session is     *)
(* resumed in place, check_sync_fuzzers follows.                           *)
SetupMark(n) == IF is_main_node[n] THEN marker \cup {n} ELSE marker

Setup(n) ==
  /\ pc[n] = "setup"
  /\ marker' = SetupMark(n)
  /\ \/ /\ Goto(n, "check")
        /\ have_main' = [have_main EXCEPT ![n] = is_main_node[n]]
        /\ todo' = [todo EXCEPT ![n] = dirs \ {n}]
     \/ /\ starts[n] > 1                                \* in_place_resume
        /\ Goto(n, "idle")
        /\ UNCHANGED <<have_main, todo>>
  /\ UNCHANGED <<is_main_node, synced, starts, dirs, killed>>

(* stop_fuzzing, after a stop signal as well: a main node removes its      *)
(* mark.                                                                   *)
KeepsMark(n) == marker                                            \* mutant
ExitMark(n) == IF is_main_node[n] THEN marker \ {n} ELSE marker

Exit(n) ==
  /\ pc[n] \in {"setup", "idle"}
  /\ marker' = ExitMark(n)
  /\ is_main_node' = [is_main_node EXCEPT ![n] = FALSE]
  /\ Goto(n, "down")
  /\ UNCHANGED <<todo, have_main, synced, starts, dirs, killed>>

(* SIGKILL, a FATAL, a power failure: nothing is removed.                  *)
Crash(n) ==
  /\ Up(n)
  /\ killed' = killed \cup {n}
  /\ is_main_node' = [is_main_node EXCEPT ![n] = FALSE]
  /\ todo' = [todo EXCEPT ![n] = {}]
  /\ have_main' = [have_main EXCEPT ![n] = FALSE]
  /\ synced' = [synced EXCEPT ![n] = FALSE]
  /\ Goto(n, "down")
  /\ UNCHANGED <<starts, dirs, marker>>

-----------------------------------------------------------------------------
(* check_sync_fuzzers, once at the start                                   *)

CheckEntry(n, m) ==
  /\ pc[n] = "check" /\ m \in todo[n]
  /\ todo' = [todo EXCEPT ![n] = @ \ {m}]
  /\ have_main' = [have_main EXCEPT ![n] = @ \/ m \in marker]
  /\ UNCHANGED <<pc, is_main_node, synced, starts, dirs, marker, killed>>

CheckEnd(n) ==
  /\ pc[n] = "check" /\ todo[n] = {}
  /\ is_main_node' = [is_main_node EXCEPT ![n] = @ \/ ~have_main[n]]
  /\ have_main' = [have_main EXCEPT ![n] = FALSE]
  /\ Goto(n, IF have_main[n] THEN "idle" ELSE "mark")
  /\ UNCHANGED <<todo, synced, starts, dirs, marker, killed>>

-----------------------------------------------------------------------------
(* sync_fuzzers, again and again                                           *)

SyncStart(n) ==
  /\ pc[n] = "idle"
  /\ todo' = [todo EXCEPT ![n] = dirs \ {n}]
  /\ Goto(n, IF dirs = {n} THEN "idle" ELSE "sync")
  /\ UNCHANGED <<is_main_node, have_main, synced, starts, dirs, marker, killed>>

(* A secondary node imports from main nodes only; a temporary main node    *)
(* that meets another main node steps down.                                *)
PullsFrom(n, m) == n \in Mains \/ is_main_node[n] \/ m \in marker

NeverStepsDown(n, m) == FALSE                                     \* mutant
StepsDown(n, m) == n \in Secondaries /\ is_main_node[n] /\ m \in marker

SyncEntry(n, m) ==
  /\ pc[n] = "sync" /\ m \in todo[n]
  /\ todo' = [todo EXCEPT ![n] = @ \ {m}]
  /\ synced' = [synced EXCEPT ![n] = @ \/ PullsFrom(n, m)]
  /\ is_main_node' = [is_main_node EXCEPT ![n] = @ /\ ~StepsDown(n, m)]
  /\ Goto(n, IF StepsDown(n, m) THEN "unmark" ELSE "sync")
  /\ UNCHANGED <<have_main, starts, dirs, marker, killed>>

Unmark(n) ==
  /\ pc[n] = "unmark"
  /\ marker' = marker \ {n}
  /\ Goto(n, "sync")
  /\ UNCHANGED <<is_main_node, todo, have_main, synced, starts, dirs, killed>>

(* Nobody to import from: become the main node.                            *)
WaitsForMain(n) == FALSE                                          \* mutant
Elects(n) == n \in Secondaries /\ ~synced[n]

SyncEnd(n) ==
  /\ pc[n] = "sync" /\ todo[n] = {}
  /\ is_main_node' = [is_main_node EXCEPT ![n] = @ \/ Elects(n)]
  /\ synced' = [synced EXCEPT ![n] = FALSE]
  /\ Goto(n, IF Elects(n) THEN "mark" ELSE "idle")
  /\ UNCHANGED <<todo, have_main, starts, dirs, marker, killed>>

ForgetsMark(n) ==                                                 \* mutant
  /\ pc[n] = "mark"
  /\ Goto(n, "idle")
  /\ UNCHANGED <<marker, is_main_node, todo, have_main, synced, starts, dirs,
                 killed>>

Mark(n) ==
  /\ pc[n] = "mark"
  /\ marker' = marker \cup {n}
  /\ Goto(n, "idle")
  /\ UNCHANGED <<is_main_node, todo, have_main, synced, starts, dirs, killed>>

-----------------------------------------------------------------------------
Step(n) ==
  \/ Setup(n) \/ CheckEnd(n) \/ SyncStart(n) \/ Unmark(n) \/ SyncEnd(n) \/ Mark(n)
  \/ \E m \in Nodes : CheckEntry(n, m) \/ SyncEntry(n, m)

Next == \E n \in Nodes : Step(n) \/ Start(n) \/ Exit(n) \/ Crash(n)

Spec == Init /\ [][Next]_vars

(* A running instance goes on running: sync_fuzzers is called every few    *)
(* minutes.  Nobody has to start an instance, or to stop one.              *)
FairSpec == Spec /\ \A n \in Nodes : WF_vars(Step(n))

-----------------------------------------------------------------------------
(* Properties                                                              *)

TypeOK ==
  /\ pc \in [Nodes -> {"down", "setup", "check", "idle", "sync", "mark", "unmark"}]
  /\ is_main_node \in [Nodes -> BOOLEAN]
  /\ todo \in [Nodes -> SUBSET Nodes]
  /\ have_main \in [Nodes -> BOOLEAN] /\ synced \in [Nodes -> BOOLEAN]
  /\ starts \in [Nodes -> 0 .. MaxStarts]
  /\ dirs \subseteq Nodes /\ marker \subseteq dirs /\ killed \subseteq dirs

(* An instance that believes it is a main node can be seen to be one.      *)
MainIsMarked == \A n \in Nodes :
  is_main_node[n] => n \in marker \/ pc[n] \in {"setup", "mark"}

(* The mark of an instance that was never killed is true: the instance     *)
(* runs as a main node, or is about to remove the mark.                    *)
MarkIsTrue == \A n \in marker \ killed :
  Up(n) /\ (is_main_node[n] \/ pc[n] = "unmark")

MainUp == \E n \in Nodes : Up(n) /\ is_main_node[n]
Company == \E n \in Nodes : Up(n) /\ dirs # {n}
AllDown == \A n \in Nodes : ~Up(n)

(* A mark nobody stands behind, left by an instance that was killed.       *)
StaleMark == \E n \in marker \cap killed : ~is_main_node[n]

(* Among at least two instances a main node that is gone is replaced: the  *)
(* only thing in the way is the mark of one that was killed.               *)
MainReturns ==
  (~MainUp /\ Company) ~> (MainUp \/ StaleMark \/ AllDown)

(* Once a -M instance runs for good, the temporary main nodes step down    *)
(* for good.                                                               *)
RealMainWins ==
  \A r \in Mains :
    <>[](pc[r] \notin {"down", "setup"}) =>
      <>[](\A n \in Secondaries : ~is_main_node[n])
=============================================================================
