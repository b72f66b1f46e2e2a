--------------------------- MODULE MainNodeProofs ---------------------------
(***************************************************************************)
(* The flag is_main_node and the file is_main_node agree, for any number   *)
(* of instances, starts and crashes.  MainIsMarked and MarkIsTrue need each*)
(* other and three facts on where an instance is in its two functions.     *)
(* A real main node, once it has prevailed, is not challenged again, and   *)
(* where there is no main node nothing keeps one from being elected.       *)
(***************************************************************************)
EXTENDS MainNode, TLAPS

(* What the program counter says about the flag and the directory.         *)
Places == \A n \in Nodes :
  /\ pc[n] = "mark" => is_main_node[n]
  /\ pc[n] \in {"down", "unmark"} => ~is_main_node[n]
  /\ Up(n) => n \in dirs

IInv == TypeOK /\ Places /\ MainIsMarked /\ MarkIsTrue

(* The instance that takes a step; the others are not touched by it.       *)
Acts(n) == Step(n) \/ Start(n) \/ Exit(n) \/ Crash(n)

-----------------------------------------------------------------------------
(* Every step of an instance keeps the types.                              *)
LEMMA TypeKept ==
  ASSUME TypeOK, Places, NEW n \in Nodes, Acts(n)
  PROVE  TypeOK'
<1> USE DEF TypeOK
<1>1. CASE Setup(n)        BY <1>1, NodesAssumption DEF Setup, SetupMark, Goto, Places, Up
<1>2. CASE CheckEnd(n)     BY <1>2 DEF CheckEnd, Goto
<1>3. CASE SyncStart(n)    BY <1>3 DEF SyncStart, Goto
<1>4. CASE Unmark(n)       BY <1>4 DEF Unmark, Goto
<1>5. CASE SyncEnd(n)      BY <1>5 DEF SyncEnd, Elects, Goto
<1>6. CASE Mark(n)         BY <1>6 DEF Mark, Goto, Places, Up
<1>7. CASE \E m \in Nodes : CheckEntry(n, m)
  BY <1>7 DEF CheckEntry
<1>8. CASE \E m \in Nodes : SyncEntry(n, m)
  <2> PICK m \in Nodes : SyncEntry(n, m)
    BY <1>8
  <2> QED BY DEF SyncEntry, StepsDown, PullsFrom, Goto
<1>9. CASE Start(n)
  <2>1. starts' \in [Nodes -> 0 .. MaxStarts]
    BY <1>9, NodesAssumption DEF Start
  <2>2. todo' \in [Nodes -> SUBSET Nodes]
    BY <1>9 DEF Start
  <2> QED BY <1>9, <2>1, <2>2 DEF Start, StartDirs, Goto
<1>10. CASE Exit(n)        BY <1>10 DEF Exit, ExitMark, Goto
<1>11. CASE Crash(n)       BY <1>11 DEF Crash, Goto, Places, Up
<1> QED BY <1>1, <1>2, <1>3, <1>4, <1>5, <1>6, <1>7, <1>8, <1>9, <1>10, <1>11 DEF Acts, Step

(* Every step of an instance keeps the program counter honest.             *)
LEMMA PlacesKept ==
  ASSUME TypeOK, Places, NEW n \in Nodes, Acts(n)
  PROVE  Places'
<1> USE DEF TypeOK, Places, Up, Goto
<1>1. CASE Setup(n)        BY <1>1 DEF Setup
<1>2. CASE CheckEnd(n)     BY Zenon, <1>2 DEF CheckEnd
<1>3. CASE SyncStart(n)    BY <1>3 DEF SyncStart
<1>4. CASE Unmark(n)       BY <1>4 DEF Unmark
<1>5. CASE SyncEnd(n)      BY Zenon, <1>5 DEF SyncEnd
<1>6. CASE Mark(n)         BY <1>6 DEF Mark
<1>7. CASE \E m \in Nodes : CheckEntry(n, m)
  BY <1>7 DEF CheckEntry
<1>8. CASE \E m \in Nodes : SyncEntry(n, m)
  <2> PICK m \in Nodes : SyncEntry(n, m)
    BY <1>8
  <2> QED BY Zenon DEF SyncEntry, StepsDown
<1>9. CASE Start(n)        BY <1>9 DEF Start, StartDirs
<1>10. CASE Exit(n)        BY <1>10 DEF Exit
<1>11. CASE Crash(n)       BY <1>11 DEF Crash
<1> QED BY <1>1, <1>2, <1>3, <1>4, <1>5, <1>6, <1>7, <1>8, <1>9, <1>10, <1>11 DEF Acts, Step

(* No step leaves a main node without its mark: it is set before, or right *)
(* after, the flag, and removed only with the flag down.                   *)
LEMMA MarkedKept ==
  ASSUME TypeOK, Places, MainIsMarked, NEW n \in Nodes, Acts(n)
  PROVE  MainIsMarked'
<1> USE DEF TypeOK, MainIsMarked, Goto
<1>1. CASE Setup(n)        BY <1>1 DEF Setup, SetupMark
<1>2. CASE CheckEnd(n)     BY <1>2 DEF CheckEnd
<1>3. CASE SyncStart(n)    BY <1>3 DEF SyncStart
<1>4. CASE Unmark(n)       BY <1>4 DEF Unmark, Places
<1>5. CASE SyncEnd(n)      BY <1>5 DEF SyncEnd
<1>6. CASE Mark(n)         BY <1>6 DEF Mark
<1>7. CASE \E m \in Nodes : CheckEntry(n, m)
  BY <1>7 DEF CheckEntry
<1>8. CASE \E m \in Nodes : SyncEntry(n, m)
  BY <1>8 DEF SyncEntry
<1>9. CASE Start(n)        BY <1>9 DEF Start
<1>10. CASE Exit(n)        BY <1>10 DEF Exit, ExitMark
<1>11. CASE Crash(n)       BY <1>11 DEF Crash
<1> QED BY <1>1, <1>2, <1>3, <1>4, <1>5, <1>6, <1>7, <1>8, <1>9, <1>10, <1>11 DEF Acts, Step

(* No step but a kill leaves a mark behind.                                *)
LEMMA TrueKept ==
  ASSUME TypeOK, Places, MarkIsTrue, NEW n \in Nodes, Acts(n)
  PROVE  MarkIsTrue'
<1> USE DEF TypeOK, MarkIsTrue, Places, Up, Goto
<1>1. CASE Setup(n)        BY <1>1 DEF Setup, SetupMark
<1>2. CASE CheckEnd(n)     BY <1>2 DEF CheckEnd
<1>3. CASE SyncStart(n)    BY <1>3 DEF SyncStart
<1>4. CASE Unmark(n)       BY <1>4 DEF Unmark
<1>5. CASE SyncEnd(n)      BY <1>5 DEF SyncEnd
<1>6. CASE Mark(n)         BY <1>6 DEF Mark
<1>7. CASE \E m \in Nodes : CheckEntry(n, m)
  BY <1>7 DEF CheckEntry
<1>8. CASE \E m \in Nodes : SyncEntry(n, m)
  BY <1>8 DEF SyncEntry
<1>9. CASE Start(n)        BY <1>9 DEF Start
<1>10. CASE Exit(n)        BY <1>10 DEF Exit, ExitMark
<1>11. CASE Crash(n)       BY <1>11 DEF Crash
<1> QED BY <1>1, <1>2, <1>3, <1>4, <1>5, <1>6, <1>7, <1>8, <1>9, <1>10, <1>11 DEF Acts, Step

-----------------------------------------------------------------------------
(* The invariant holds at first and every step keeps it.                   *)
THEOREM Honest == Spec => []IInv
<1>1. Init => IInv
  BY NodesAssumption DEF Init, IInv, TypeOK, Places, Up, MainIsMarked, MarkIsTrue
<1>2. IInv /\ [Next]_vars => IInv'
  <2> SUFFICES ASSUME IInv, [Next]_vars PROVE IInv'
    OBVIOUS
  <2>1. CASE Next
    <3> PICK n \in Nodes : Acts(n)
      BY <2>1 DEF Next, Acts
    <3> QED BY TypeKept, PlacesKept, MarkedKept, TrueKept DEF IInv
  <2>2. CASE UNCHANGED vars
    BY <2>2 DEF vars, local, IInv, TypeOK, Places, Up, MainIsMarked, MarkIsTrue
  <2> QED BY <2>1, <2>2
<1> QED BY <1>1, <1>2, PTL DEF Spec

(* check_sync_fuzzers and sync_fuzzers: whoever believes to be a main node *)
(* can be seen to be one, outside the moments where the file is written.   *)
THEOREM MainsAreSeen == Spec => []MainIsMarked
<1>1. IInv => MainIsMarked
  BY DEF IInv
<1> QED BY <1>1, Honest, PTL

(* Whoever else is killed, the file is_main_node of an instance that never *)
(* was belongs to one that runs as a main node or is about to remove it.   *)
THEOREM MarksAreTrue == Spec => []MarkIsTrue
<1>1. IInv => MarkIsTrue
  BY DEF IInv
<1> QED BY <1>1, Honest, PTL

(* The types of the election's state.                                      *)
THEOREM MainTypes == Spec => []TypeOK
<1>1. IInv => TypeOK
  BY DEF IInv
<1> QED BY <1>1, Honest, PTL

-----------------------------------------------------------------------------
(* The real main node and the temporary ones                               *)

(* A real main node has never to be told that it is one: it steps down     *)
(* only to end, and no election concerns it.                               *)
RealMain == \A r \in Mains :
  /\ Up(r) => is_main_node[r]
  /\ pc[r] = "check" => have_main[r]
  /\ pc[r] # "mark"

(* A real main node that has left its mark.                                *)
Runs(r) == pc[r] \notin {"down", "setup"}

(* No secondary node is a main node, and none that is scanning the         *)
(* directory can come to its end without having met r.                     *)
Settled(r) == \A n \in Secondaries :
  /\ ~is_main_node[n]
  /\ pc[n] = "check" => r \in todo[n] \/ have_main[n]
  /\ pc[n] \in {"sync", "unmark"} => r \in todo[n] \/ synced[n]

(* Once that is so, it stays so as long as r runs.                         *)
StaysSettled(r) == Settled(r) /\ Runs(r) => Settled(r)'

(* Every step keeps what is said of real main nodes.                       *)
LEMMA RealKept ==
  ASSUME TypeOK, Places, RealMain, NEW n \in Nodes, Acts(n)
  PROVE  RealMain'
<1> USE NodesAssumption DEF TypeOK, RealMain, Nodes, Up, Goto
<1>1. CASE Setup(n)        BY <1>1 DEF Setup
<1>2. CASE CheckEnd(n)     BY <1>2 DEF CheckEnd
<1>3. CASE SyncStart(n)    BY <1>3 DEF SyncStart
<1>4. CASE Unmark(n)       BY <1>4 DEF Unmark
<1>5. CASE SyncEnd(n)      BY <1>5 DEF SyncEnd, Elects
<1>6. CASE Mark(n)         BY <1>6 DEF Mark
<1>7. CASE \E m \in Nodes : CheckEntry(n, m)
  BY <1>7 DEF CheckEntry
<1>8. CASE \E m \in Nodes : SyncEntry(n, m)
  BY <1>8 DEF SyncEntry, StepsDown
<1>9. CASE Start(n)        BY Zenon, <1>9 DEF Start
<1>10. CASE Exit(n)        BY <1>10 DEF Exit
<1>11. CASE Crash(n)       BY <1>11 DEF Crash
<1> QED BY <1>1, <1>2, <1>3, <1>4, <1>5, <1>6, <1>7, <1>8, <1>9, <1>10, <1>11 DEF Acts, Step

(* No step of any instance, r itself included, unsettles the others.       *)
LEMMA SettledKept ==
  ASSUME IInv, RealMain, NEW n \in Nodes, Acts(n),
         NEW r \in Mains, Settled(r), Runs(r)
  PROVE  Settled(r)'
<1>1. r \in Nodes /\ r \notin Secondaries
  BY NodesAssumption DEF Nodes
<1>2. r \in marker /\ r \in dirs
  BY <1>1 DEF IInv, Places, MainIsMarked, RealMain, Runs, Up
<1>3. TypeOK /\ Secondaries \subseteq Nodes
  BY DEF IInv, Nodes
<1> USE <1>1, <1>2, <1>3 DEF TypeOK, Settled, Goto
<1>4. CASE Setup(n)        BY <1>4 DEF Setup
<1>5. CASE CheckEnd(n)     BY <1>5 DEF CheckEnd
<1>6. CASE SyncStart(n)    BY <1>6 DEF SyncStart
<1>7. CASE Unmark(n)       BY <1>7 DEF Unmark
<1>8. CASE SyncEnd(n)      BY <1>8 DEF SyncEnd, Elects
<1>9. CASE Mark(n)         BY <1>9 DEF Mark
<1>10. CASE \E m \in Nodes : CheckEntry(n, m)
  <2> PICK m \in Nodes : CheckEntry(n, m)
    BY <1>10
  <2>1. r \in todo[n] => r \in todo'[n] \/ have_main'[n]
    BY Zenon DEF CheckEntry
  <2>2. have_main[n] => have_main'[n]
    BY DEF CheckEntry
  <2> QED BY <2>1, <2>2 DEF CheckEntry
<1>11. CASE \E m \in Nodes : SyncEntry(n, m)
  <2> PICK m \in Nodes : SyncEntry(n, m)
    BY <1>11
  <2>1. r \in todo[n] => r \in todo'[n] \/ synced'[n]
    BY Zenon DEF SyncEntry, PullsFrom
  <2>2. synced[n] => synced'[n]
    BY DEF SyncEntry
  <2>3. n \in Secondaries => ~StepsDown(n, m)
    BY DEF StepsDown
  <2>4. n \in Secondaries => pc' = pc /\ is_main_node' = is_main_node
    BY <2>3 DEF SyncEntry
  <2>5. \A k \in Nodes \ {n} : /\ pc'[k] = pc[k] /\ is_main_node'[k] = is_main_node[k]
                               /\ todo'[k] = todo[k] /\ synced'[k] = synced[k]
                               /\ have_main'[k] = have_main[k]
    BY DEF SyncEntry
  <2>6. pc[n] = "sync" /\ have_main' = have_main
    BY DEF SyncEntry
  <2> QED BY <2>1, <2>2, <2>4, <2>5, <2>6
<1>12. CASE Start(n)
  <2>1. \A k \in Nodes : todo[k] \subseteq todo'[k]
    BY <1>12 DEF Start
  <2>2. /\ pc' = [pc EXCEPT ![n] = "setup"] /\ have_main' = have_main /\ synced' = synced
        /\ is_main_node' = [is_main_node EXCEPT ![n] = n \in Mains]
    BY <1>12 DEF Start
  <2>3. n \in Secondaries => n \notin Mains
    BY NodesAssumption
  <2> QED BY <2>1, <2>2, <2>3
<1>13. CASE Exit(n)        BY <1>13 DEF Exit
<1>14. CASE Crash(n)       BY <1>14 DEF Crash
<1> QED BY <1>4, <1>5, <1>6, <1>7, <1>8, <1>9, <1>10, <1>11, <1>12, <1>13, <1>14 DEF Acts, Step

(* check_sync_fuzzers and sync_fuzzers: once the temporary main nodes have *)
(* stepped down for a real one, no start, stop, crash or election makes a  *)
(* secondary node a main node again as long as the real one runs.          *)
THEOREM RealMainStays == ASSUME NEW r \in Mains PROVE Spec => [][StaysSettled(r)]_vars
<1>1. Init => RealMain
  BY NodesAssumption DEF Init, RealMain, Up, Nodes
<1>2. IInv /\ RealMain /\ [Next]_vars => RealMain'
  <2> SUFFICES ASSUME IInv, RealMain, [Next]_vars PROVE RealMain'
    OBVIOUS
  <2>1. CASE Next
    <3> PICK n \in Nodes : Acts(n)
      BY <2>1 DEF Next, Acts
    <3> QED BY RealKept DEF IInv
  <2>2. CASE UNCHANGED vars
    BY <2>2 DEF vars, local, RealMain, Up
  <2> QED BY <2>1, <2>2
<1>3. IInv /\ RealMain /\ Next => StaysSettled(r)
  <2> SUFFICES ASSUME IInv, RealMain, Next, Settled(r), Runs(r) PROVE Settled(r)'
    BY DEF StaysSettled
  <2> PICK n \in Nodes : Acts(n)
    BY DEF Next, Acts
  <2> QED BY SettledKept
<1> QED BY <1>1, <1>2, <1>3, Honest, PTL DEF Spec

-----------------------------------------------------------------------------
(* The election of a temporary main node                                   *)

(* synced, a local variable of sync_fuzzers, is 0 when that is called.     *)
Unsynced == \A n \in Nodes : synced[n] => pc[n] \in {"sync", "unmark"}

(* There is no main node and nothing that looks like one.                  *)
Vacant == marker = {} /\ ~MainUp

(* n goes through the directory and has not met a main node so far.        *)
Seeks(n) == pc[n] = "sync" /\ ~synced[n]

(* Without a main node and without the mark of a killed one, the last      *)
(* marks are about to go.  From then on, whoever starts, exits or is       *)
(* killed: no mark comes up but for a main node; a scan that a secondary   *)
(* node n begins finds none, and each step of it leaves fewer directories  *)
(* to look at or makes n a main node.                                      *)
Fills(n) ==
  /\ ~MainUp /\ ~StaleMark => \A m \in marker : pc[m] = "unmark"
  /\ Vacant => Vacant' \/ MainUp'
  /\ Vacant /\ pc[n] = "idle" /\ pc'[n] = "sync" => Seeks(n)'
  /\ Vacant /\ Seeks(n) => Seeks(n)' \/ MainUp' \/ ~Up(n)'
  /\ Vacant /\ Seeks(n) /\ Step(n) =>
       MainUp' \/ (todo'[n] \subseteq todo[n] /\ todo'[n] # todo[n])

(* Every step leaves synced at 0 outside sync_fuzzers.                     *)
LEMMA UnsyncedKept ==
  ASSUME TypeOK, Unsynced, NEW n \in Nodes, Acts(n)
  PROVE  Unsynced'
<1> USE DEF TypeOK, Unsynced, Goto
<1>1. CASE Setup(n)        BY <1>1 DEF Setup
<1>2. CASE CheckEnd(n)     BY <1>2 DEF CheckEnd
<1>3. CASE SyncStart(n)    BY <1>3 DEF SyncStart
<1>4. CASE Unmark(n)       BY <1>4 DEF Unmark
<1>5. CASE SyncEnd(n)      BY <1>5 DEF SyncEnd
<1>6. CASE Mark(n)         BY <1>6 DEF Mark
<1>7. CASE \E m \in Nodes : CheckEntry(n, m)
  BY <1>7 DEF CheckEntry
<1>8. CASE \E m \in Nodes : SyncEntry(n, m)
  <2> PICK m \in Nodes : SyncEntry(n, m)
    BY <1>8
  <2>1. /\ pc' \in [Nodes -> {"down", "setup", "check", "idle", "sync", "mark", "unmark"}]
        /\ pc'[n] \in {"sync", "unmark"}
        /\ \A k \in Nodes \ {n} : pc'[k] = pc[k] /\ synced'[k] = synced[k]
    BY DEF SyncEntry
  <2> QED BY <2>1
<1>9. CASE Start(n)        BY <1>9 DEF Start
<1>10. CASE Exit(n)        BY <1>10 DEF Exit
<1>11. CASE Crash(n)       BY <1>11 DEF Crash
<1> QED BY <1>1, <1>2, <1>3, <1>4, <1>5, <1>6, <1>7, <1>8, <1>9, <1>10, <1>11 DEF Acts, Step

(* Where there is no mark and no main node, no step makes a mark.          *)
LEMMA VacantKept ==
  ASSUME TypeOK, Places, NEW k \in Nodes, Acts(k), Vacant
  PROVE  Vacant' \/ MainUp'
<1> SUFFICES marker' = {}
  BY DEF Vacant
<1>1. marker = {} /\ (Up(k) => ~is_main_node[k])
  BY DEF Vacant, MainUp
<1>2. CASE Setup(k)        BY <1>1, <1>2 DEF Setup, SetupMark, Up
<1>3. CASE Mark(k)         BY <1>1, <1>3 DEF Mark, Places, Up
<1>4. CASE Exit(k)         BY <1>1, <1>4 DEF Exit, ExitMark
<1>5. CASE Unmark(k)       BY <1>1, <1>5 DEF Unmark
<1>6. CASE ~Setup(k) /\ ~Mark(k) /\ ~Exit(k) /\ ~Unmark(k)
  <2>1. UNCHANGED marker
    BY <1>6 DEF Acts, Step, CheckEnd, SyncStart, SyncEnd, CheckEntry, SyncEntry, Start, Crash
  <2> QED BY <1>1, <2>1
<1> QED BY <1>2, <1>3, <1>4, <1>5, <1>6

(* The scan of a secondary node meets no main node and ends in election.   *)
LEMMA SeekingKept ==
  ASSUME TypeOK, NEW n \in Secondaries, NEW k \in Nodes, Acts(k), Vacant, Seeks(n)
  PROVE  /\ Seeks(n)' \/ MainUp' \/ ~Up(n)'
         /\ k = n => \/ MainUp' \/ ~Step(n)
                     \/ todo'[n] \subseteq todo[n] /\ todo'[n] # todo[n]
<1>0. n \in Nodes /\ n \notin Mains /\ pc[n] = "sync" /\ ~synced[n]
  BY NodesAssumption DEF Nodes, Seeks
<1>1. marker = {} /\ ~is_main_node[n]
  BY <1>0 DEF Vacant, MainUp, Up
<1> USE <1>0 DEF TypeOK, Goto
<1>2. CASE k # n
  <2>1. pc'[n] = pc[n]
    BY <1>2 DEF Acts, Step, Setup, CheckEnd, SyncStart, Unmark, SyncEnd, Mark, CheckEntry,
                SyncEntry, Start, Exit, Crash
  <2>2. synced'[n] = synced[n]
    BY <1>2 DEF Acts, Step, Setup, CheckEnd, SyncStart, Unmark, SyncEnd, Mark, CheckEntry,
                SyncEntry, Start, Exit, Crash
  <2> QED BY <1>2, <2>1, <2>2 DEF Seeks
<1>3. CASE k = n
  <2>1. CASE \E m \in Nodes : SyncEntry(n, m)
    <3> PICK m \in Nodes : SyncEntry(n, m)
      BY <2>1
    <3>1. ~PullsFrom(n, m) /\ ~StepsDown(n, m)
      BY <1>1 DEF PullsFrom, StepsDown
    <3>2. pc'[n] = "sync" /\ ~synced'[n]
      BY <3>1 DEF SyncEntry
    <3>3. todo'[n] = todo[n] \ {m} /\ m \in todo[n]
      BY DEF SyncEntry
    <3> QED BY <3>2, <3>3 DEF Seeks
  <2>2. CASE SyncEnd(n)
    <3>1. Elects(n)
      BY DEF Elects
    <3>2. is_main_node'[n] /\ pc'[n] = "mark"
      BY Zenon, <2>2, <3>1 DEF SyncEnd
    <3> QED BY <3>2 DEF MainUp, Up
  <2>3. CASE Crash(n)
    <3>1. pc'[n] = "down"
      BY <2>3 DEF Crash
    <3>2. ~Step(n) \/ MainUp' \/ (todo'[n] \subseteq todo[n] /\ todo'[n] # todo[n])
      BY Zenon, <2>1, <2>2, <2>3, <3>1
      DEF Step, Setup, CheckEnd, SyncStart, Unmark, Mark, CheckEntry, SyncEntry, SyncEnd
    <3> QED BY <3>1, <3>2 DEF Up
  <2> QED BY Zenon, <1>3, <2>1, <2>2, <2>3
      DEF Acts, Step, Setup, CheckEnd, SyncStart, Unmark, Mark, CheckEntry, Start, Exit
<1> QED BY <1>2, <1>3

(* Without a main node, only a mark that is about to be removed or that a  *)
(* killed instance left is there.                                          *)
LEMMA MarksGo ==
  ASSUME IInv, ~MainUp, ~StaleMark, NEW m \in marker
  PROVE  pc[m] = "unmark"
<1>1. m \in Nodes /\ TypeOK
  BY DEF IInv, TypeOK
<1>2. ~is_main_node[m]
  BY <1>1, NodesAssumption DEF IInv, Places, MainUp, Up
<1>3. m \notin killed
  BY <1>2 DEF StaleMark
<1> QED BY <1>2, <1>3 DEF IInv, MarkIsTrue

(* sync_fuzzers: where no main node runs, nothing but the mark of a killed *)
(* one keeps a secondary node that imports from being elected.             *)
THEOREM VacancyIsFilled == ASSUME NEW n \in Secondaries PROVE Spec => [][Fills(n)]_vars
<1>0. n \in Nodes
  BY DEF Nodes
<1>1. Init => Unsynced
  BY DEF Init, Unsynced
<1>2. IInv /\ Unsynced /\ [Next]_vars => Unsynced'
  <2> SUFFICES ASSUME IInv, Unsynced, [Next]_vars PROVE Unsynced'
    OBVIOUS
  <2>1. CASE Next
    <3> PICK k \in Nodes : Acts(k)
      BY <2>1 DEF Next, Acts
    <3> QED BY UnsyncedKept DEF IInv
  <2>2. CASE UNCHANGED vars
    BY <2>2 DEF vars, local, Unsynced
  <2> QED BY <2>1, <2>2
<1>3. IInv /\ Unsynced /\ Unsynced' /\ Next => Fills(n)
  <2> SUFFICES ASSUME IInv, Unsynced, Unsynced', Next PROVE Fills(n)
    OBVIOUS
  <2>0. TypeOK /\ Places
    BY DEF IInv
  <2> PICK k \in Nodes : Acts(k)
    BY DEF Next, Acts
  <2>1. Vacant => Vacant' \/ MainUp'
    BY <2>0, VacantKept
  <2>2. pc[n] = "idle" /\ pc'[n] = "sync" => Seeks(n)'
    <3> SUFFICES ASSUME pc[n] = "idle", pc'[n] = "sync" PROVE ~synced'[n]
      BY DEF Seeks
    <3>1. ~synced[n]
      BY <1>0 DEF Unsynced
    <3>2. CASE k # n
      BY <1>0, <2>0, <3>2
      DEF TypeOK, Goto, Acts, Step, Setup, CheckEnd, SyncStart, Unmark, SyncEnd, Mark,
          CheckEntry, SyncEntry, Start, Exit, Crash
    <3>3. CASE k = n
      <4>1. SyncStart(n)
        BY <1>0, <2>0, <3>3
        DEF TypeOK, Goto, Acts, Step, Setup, CheckEnd, Unmark, SyncEnd, Mark,
            CheckEntry, SyncEntry, Start, Exit, Crash
      <4> QED BY <3>1, <4>1 DEF SyncStart
    <3> QED BY <3>2, <3>3
  <2>3. Vacant /\ Seeks(n) => Seeks(n)' \/ MainUp' \/ ~Up(n)'
    BY <2>0, SeekingKept
  <2>4. Vacant /\ Seeks(n) /\ Step(n) =>
          MainUp' \/ (todo'[n] \subseteq todo[n] /\ todo'[n] # todo[n])
    BY <1>0, <2>0, SeekingKept DEF Acts
  <2>5. ~MainUp /\ ~StaleMark => \A m \in marker : pc[m] = "unmark"
    BY MarksGo
  <2> QED BY <2>1, <2>2, <2>3, <2>4, <2>5 DEF Fills
<1> QED BY <1>1, <1>2, <1>3, Honest, PTL DEF Spec
=============================================================================
