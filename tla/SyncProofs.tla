----------------------------- MODULE SyncProofs -----------------------------
(***************************************************************************)
(* What the counters of sync_fuzzers guarantee as long as the peer is not  *)
(* started afresh, for any number of test cases, of stops and of fresh     *)
(* starts of ours.  Its files are then numbered without gaps, the listing  *)
(* we work through is an old copy of the directory, and everything at or   *)
(* below the id in .max came from an earlier life.  None of the peer's own *)
(* finds is passed over in any life, .max lasts as long as it must, and    *)
(* only the newest file can be met empty.  The last section is about any   *)
(* peer: an import catches up with the directory it has listed.            *)
(***************************************************************************)
EXTENDS Sync, SequenceTheorems, TLAPS

(* The sizes that keep the counters within their types.                    *)
Bounds ==
  /\ Len(queue) <= made /\ Len(names) <= made
  /\ pc \in {"idle", "down"} => names = <<>> /\ next_min_accept = 0
  /\ pc \in {"idle", "down", "stamp"} => max_start_id = 0

(* The files of the peer are numbered from the first one on.               *)
Numbered ==
  /\ made = Len(queue)
  /\ \A i \in 1 .. Len(queue) : queue[i].case = i /\ queue[i].from <= life
  /\ executed \subseteq 1 .. made

(* The listing shows the first files of the directory.                     *)
Copied ==
  /\ Len(names) <= Len(queue)
  /\ \A i \in 1 .. Len(names) : names[i].case = i /\ names[i].from = queue[i].from

(* The counters stay within the directory.                                 *)
Counted ==
  /\ synced <= Len(queue) /\ next_min_accept <= Len(queue)
  /\ max < Len(queue) /\ max_start_id <= Len(queue)

(* The files counted at our fresh start are older than it.                 *)
Dated == \A i \in 1 .. Len(queue) :
  i <= max + 1 \/ i <= max_start_id => queue[i].from < life

(* What a counter has passed was passed for a reason.                      *)
Passed == \A i \in 1 .. Len(queue) :
  i <= synced \/ i <= next_min_accept =>
    queue[i].case \in executed \cup missed \/ queue[i].from # 0

Steady == Numbered /\ Copied /\ Counted /\ Dated /\ NoEcho /\ Passed

IInv == TypeOK /\ Bounds /\ (restarts = 0 => Steady)

-----------------------------------------------------------------------------
(* PeerCreate appends one file, PeerWrite changes only its content.        *)
LEMMA PeerQueue ==
  ASSUME TypeOK, Bounds
  PROVE  /\ PeerCreate => \E from \in {0, life} :
              LET e == [case |-> made + 1, from |-> from, full |-> FALSE] IN
              /\ e \in Entry
              /\ queue' \in Seq(Entry) /\ Len(queue') = Len(queue) + 1
              /\ queue'[Len(queue) + 1] = e
              /\ \A i \in 1 .. Len(queue) : queue'[i] = queue[i]
         /\ PeerWrite =>
              /\ queue' \in Seq(Entry) /\ Len(queue') = Len(queue)
              /\ \A i \in 1 .. Len(queue) :
                   queue'[i].case = queue[i].case /\ queue'[i].from = queue[i].from
<1>1. ASSUME PeerCreate
      PROVE  \E from \in {0, life} :
              LET e == [case |-> made + 1, from |-> from, full |-> FALSE] IN
              /\ e \in Entry
              /\ queue' \in Seq(Entry) /\ Len(queue') = Len(queue) + 1
              /\ queue'[Len(queue) + 1] = e
              /\ \A i \in 1 .. Len(queue) : queue'[i] = queue[i]
  <2> PICK from \in {0, life} :
        queue' = Append(queue, [case |-> made + 1, from |-> from, full |-> FALSE])
    BY Zenon, <1>1 DEF PeerCreate
  <2> DEFINE e == [case |-> made + 1, from |-> from, full |-> FALSE]
  <2>1. e \in Entry
    BY <1>1, SyncAssumption DEF PeerCreate, TypeOK, Entry
  <2> HIDE DEF e
  <2>2. queue' = Append(queue, e) /\ queue \in Seq(Entry)
    BY DEF TypeOK, e
  <2>3. /\ queue' \in Seq(Entry) /\ Len(queue') = Len(queue) + 1
        /\ queue'[Len(queue) + 1] = e
        /\ \A i \in 1 .. Len(queue) : queue'[i] = queue[i]
    BY <2>1, <2>2, AppendProperties
  <2> QED BY Zenon, <2>1, <2>3 DEF e
<1>2. ASSUME PeerWrite
      PROVE  /\ queue' \in Seq(Entry) /\ Len(queue') = Len(queue)
             /\ \A i \in 1 .. Len(queue) :
                  queue'[i].case = queue[i].case /\ queue'[i].from = queue[i].from
  <2> DEFINE n == Len(queue)
             e == [queue[n] EXCEPT !.full = TRUE]
  <2>1. queue \in Seq(Entry) /\ queue # <<>> /\ queue' = [queue EXCEPT ![n] = e]
    BY <1>2 DEF PeerWrite, TypeOK
  <2>2. n \in 1 .. Len(queue) /\ queue[n] \in Entry
    BY <2>1
  <2>3. e \in Entry /\ e.case = queue[n].case /\ e.from = queue[n].from
    BY Zenon, <2>2 DEF Entry
  <2> HIDE DEF e
  <2>4. queue' \in Seq(Entry) /\ Len(queue') = Len(queue) /\ queue'[n] = e
    BY <2>1, <2>2, <2>3, ExceptSeq
  <2>5. \A i \in 1 .. Len(queue) : i # n => queue'[i] = queue[i]
    BY <2>1
  <2> QED BY <2>3, <2>4, <2>5
<1> QED BY <1>1, <1>2

(* Every step keeps the types and the sizes.                               *)
LEMMA TypeKept ==
  ASSUME TypeOK, Bounds, Next
  PROVE  TypeOK' /\ Bounds'
<1> USE SyncAssumption DEF TypeOK, Bounds
<1>1. CASE Tick          BY <1>1 DEF Tick, peer, local, files, past
<1>2. CASE PeerCreate
  <2>1. queue' \in Seq(Entry) /\ Len(queue') = Len(queue) + 1
    BY <1>2, PeerQueue
  <2> QED BY <1>2, <2>1 DEF PeerCreate, local, files, past
<1>3. CASE PeerWrite
  BY Zenon, <1>3, PeerQueue DEF PeerWrite, local, files, past
<1>4. CASE PeerRestart   BY <1>4 DEF PeerRestart, local, files, past
<1>5. CASE PeerUp        BY <1>5 DEF PeerUp, local, files, past
<1>6. CASE Scan          BY <1>6 DEF Scan, peer, files, past
<1>7. CASE Stamp
  <2>1. CASE Restarted   BY <1>7, <2>1 DEF Stamp, Done, peer, past
  <2>2. CASE ~Restarted  BY <1>7, <2>2 DEF Stamp, peer, local, past
  <2> QED BY Zenon, <2>1, <2>2
<1>8. CASE Seek
  <2>1. max' \in -1 .. MaxCases
    BY <1>8 DEF Seek, NoFile
  <2>2. CASE next_min_accept >= Len(names)
    BY <1>8, <2>1, <2>2 DEF Seek, Done, peer, past
  <2>3. CASE ~(next_min_accept >= Len(names))
    BY <1>8, <2>1, <2>3 DEF Seek, StartId, NoFile, peer, past
  <2> QED BY Zenon, <2>2, <2>3
<1>9. CASE File
  <2> DEFINE e == names[next_min_accept + 1]
  <2>1. e \in Entry
    BY <1>9 DEF File
  <2>2. e.case \in 1 .. MaxCases
    BY <2>1 DEF Entry
  <2>3. executed' \subseteq 1 .. MaxCases /\ missed' \subseteq 1 .. MaxCases
    BY Zenon, <1>9, <2>2 DEF File
  <2> HIDE DEF e
  <2> QED BY <1>9, <2>3 DEF File, peer, files
<1>10. CASE Save         BY <1>10 DEF Save, Done, peer, past
<1>11. CASE Stop         BY <1>11 DEF Stop, StopCounter, peer, past
<1>12. CASE Resume       BY <1>12 DEF Resume, peer, local, files, past
<1>13. CASE StartAfresh  BY <1>13 DEF StartAfresh, peer, local
<1> QED BY Zenon, <1>1, <1>2, <1>3, <1>4, <1>5, <1>6, <1>7, <1>8, <1>9, <1>10, <1>11, <1>12, <1>13
        DEF Next, Peer, SyncStep

-----------------------------------------------------------------------------
(* A new file of the peer is beyond every counter and was not run.         *)
LEMMA SteadyCreate ==
  ASSUME TypeOK, Bounds, restarts = 0, Steady, PeerCreate
  PROVE  Steady'
<1> PICK from \in {0, life} :
      /\ Len(queue') = Len(queue) + 1
      /\ queue'[Len(queue) + 1].case = made + 1
      /\ queue'[Len(queue) + 1].from = from
      /\ \A i \in 1 .. Len(queue) : queue'[i] = queue[i]
  BY PeerQueue
<1>1. /\ UNCHANGED <<life, names, next_min_accept, max_start_id, synced, max>>
      /\ UNCHANGED <<restarts, executed, missed>> /\ made' = made + 1
  BY DEF PeerCreate, local, files, past
<1>2. from \in Nat /\ from <= life
  BY DEF TypeOK
<1>3. Numbered'
  <2> DEFINE k == Len(queue) + 1
  <2>1. \A i \in 1 .. Len(queue) : queue'[i].case = i /\ queue'[i].from <= life
    BY DEF Steady, Numbered
  <2>2. queue'[k].case = k /\ queue'[k].from <= life
    BY <1>2 DEF Steady, Numbered
  <2>3. made' = k /\ Len(queue') = k /\ Len(queue) \in Nat
    BY <1>1 DEF Steady, Numbered, TypeOK
  <2>4. \A i \in 1 .. k : i \in 1 .. Len(queue) \/ i = k
    BY <2>3
  <2>5. executed' \subseteq 1 .. made'
    BY <1>1, <2>3 DEF Steady, Numbered
  <2> HIDE DEF k
  <2> QED BY <1>1, <2>1, <2>2, <2>3, <2>4, <2>5 DEF Numbered
<1>4. Copied'
  <2>1. Len(names) <= Len(queue) /\ Len(names) \in Nat /\ Len(queue) \in Nat
    BY DEF Steady, Copied, TypeOK
  <2>2. \A i \in 1 .. Len(names) : i \in 1 .. Len(queue)
    BY <2>1
  <2>3. \A i \in 1 .. Len(names) : names[i].case = i /\ names[i].from = queue'[i].from
    BY <2>2 DEF Steady, Copied
  <2>4. Len(names) <= Len(queue')
    BY <2>1
  <2> QED BY <1>1, <2>3, <2>4 DEF Copied
<1>5. Counted'   BY <1>1 DEF Steady, Counted, TypeOK
<1>6. Dated'
  <2> SUFFICES ASSUME NEW i \in 1 .. Len(queue) + 1, i <= max + 1 \/ i <= max_start_id
               PROVE  queue'[i].from < life
    BY <1>1 DEF Dated
  <2>1. i \in 1 .. Len(queue)
    BY DEF Steady, Counted, TypeOK
  <2> QED BY <2>1 DEF Steady, Dated
<1>7. NoEcho'
  <2> SUFFICES ASSUME NEW i \in 1 .. Len(queue) + 1, queue'[i].from = life
               PROVE  queue'[i].case \notin executed
    BY <1>1 DEF NoEcho
  <2>1. CASE i \in 1 .. Len(queue)
    BY <2>1 DEF Steady, NoEcho
  <2>2. CASE i = Len(queue) + 1
    BY <2>2 DEF Steady, Numbered, TypeOK
  <2> QED BY <2>1, <2>2
<1>8. Passed'
  <2> SUFFICES ASSUME NEW i \in 1 .. Len(queue) + 1,
                      i <= synced \/ i <= next_min_accept
               PROVE  queue'[i].case \in executed \cup missed \/ queue'[i].from # 0
    BY <1>1 DEF Passed
  <2>1. i \in 1 .. Len(queue)
    BY DEF Steady, Counted, TypeOK
  <2> QED BY <2>1 DEF Steady, Passed
<1> QED BY <1>3, <1>4, <1>5, <1>6, <1>7, <1>8 DEF Steady

(* One file of the listing: it is run only if it comes from the peer or    *)
(* from an earlier life of ours, and passed only if it was run, could not  *)
(* be read, or came from us.                                               *)
LEMMA SteadyFile ==
  ASSUME TypeOK, Bounds, restarts = 0, Steady, File
  PROVE  Steady'
<1> DEFINE j == next_min_accept + 1
           e == names[j]
<1>1. /\ j \in 1 .. Len(names) /\ j \in 1 .. Len(queue)
      /\ e.case = j /\ queue[j].case = j /\ e.from = queue[j].from
  BY DEF File, Steady, Numbered, Copied, TypeOK
<1>2. /\ UNCHANGED <<queue, made, restarts, life, names, max_start_id, synced, max>>
      /\ next_min_accept' = j
  BY DEF File, peer, files
<1>3. /\ executed' = executed \cup {x \in {j} : Readable(e) /\ Wanted(e)}
      /\ missed' = missed \cup {x \in {j} : ~Readable(e)}
  BY <1>1 DEF File
<1>4. queue[j].from \in Nat /\ queue[j].from <= life /\ life \in Nat \ {0}
  <2>1. queue[j] \in Entry
    BY <1>1 DEF TypeOK
  <2>2. queue[j].from \in 0 .. MaxLives
    BY <2>1 DEF Entry
  <2> QED BY <1>1, <2>2, SyncAssumption DEF Steady, Numbered, TypeOK
<1>5. Wanted(e) => queue[j].from # life
  <2>1. CASE j < max_start_id
    <3>1. queue[j].from < life
      BY <1>1, <2>1 DEF Steady, Dated, TypeOK
    <3> QED BY <1>4, <3>1
  <2>2. CASE ~is_known_case(e)
    BY <1>1, <1>4, <2>2 DEF is_known_case
  <2> QED BY <2>1, <2>2 DEF Wanted
<1>6. ~Wanted(e) => queue[j].from # 0
  BY <1>1 DEF Wanted, is_known_case
<1> HIDE DEF e
<1>7. Numbered'  BY Zenon, <1>1, <1>2, <1>3 DEF Steady, Numbered, TypeOK
<1>8. Copied'    BY <1>2 DEF Steady, Copied
<1>9. Counted'   BY <1>1, <1>2 DEF Steady, Counted
<1>10. Dated'    BY <1>2 DEF Steady, Dated
<1>11. NoEcho'
  BY <1>1, <1>2, <1>3, <1>5 DEF Steady, Numbered, NoEcho
<1>12. Passed'
  <2> SUFFICES ASSUME NEW i \in 1 .. Len(queue), i <= synced \/ i <= j
               PROVE  queue[i].case \in executed' \cup missed' \/ queue[i].from # 0
    BY <1>2 DEF Passed
  <2>1. CASE i = j
    BY <1>1, <1>3, <1>6, <2>1
  <2>2. CASE i # j
    <3>1. i <= synced \/ i <= next_min_accept
      BY <2>2 DEF TypeOK
    <3> QED BY <1>3, <3>1 DEF Steady, Passed
  <2> QED BY <2>1, <2>2
<1> QED BY <1>7, <1>8, <1>9, <1>10, <1>11, <1>12 DEF Steady

(* Every step keeps the books straight while the peer is not restarted.    *)
LEMMA SteadyKept ==
  ASSUME IInv, Next, restarts' = 0
  PROVE  Steady'
<1> USE DEF TypeOK
<1>0. TypeOK /\ Bounds /\ restarts = 0 /\ Steady
  <2>1. restarts = 0
    BY SMTT(30) DEF IInv, Next, Peer, SyncStep, Tick, PeerCreate, PeerWrite, PeerRestart, PeerUp, Scan,
           Stamp, Seek, File, Save, Stop, Resume, StartAfresh, peer
  <2> QED BY <2>1 DEF IInv
<1>1. CASE Tick \/ PeerUp \/ Resume
  <2>1. UNCHANGED <<queue, made, restarts, life, local, files, past>>
    BY <1>1 DEF Tick, PeerUp, Resume, peer
  <2> QED BY <1>0, <2>1 DEF local, files, past, Steady, Numbered, Copied, Counted, Dated, NoEcho,
                            Passed
<1>2. CASE PeerCreate
  BY <1>0, <1>2, SteadyCreate
<1>3. CASE PeerWrite
  <2>1. /\ Len(queue') = Len(queue)
        /\ \A i \in 1 .. Len(queue) :
             queue'[i].case = queue[i].case /\ queue'[i].from = queue[i].from
    BY <1>0, <1>3, PeerQueue
  <2>2. UNCHANGED <<made, restarts, life, local, files, past>>
    BY <1>3 DEF PeerWrite
  <2> USE <1>0, <2>1, <2>2 DEF local, files, past, Steady
  <2>3. Numbered'             BY DEF Numbered
  <2>4. Copied'
    <3>1. \A i \in 1 .. Len(names) : i \in 1 .. Len(queue)
      BY DEF Copied
    <3> QED BY <3>1 DEF Copied
  <2>5. Counted' /\ Dated'    BY Zenon DEF Counted, Dated
  <2>6. NoEcho'               BY Zenon DEF NoEcho
  <2>7. Passed'               BY Zenon DEF Passed
  <2> QED BY <2>3, <2>4, <2>5, <2>6, <2>7
<1>4. CASE PeerRestart
  BY <1>0, <1>4 DEF PeerRestart
<1>5. CASE Scan
  BY <1>0, <1>5 DEF Scan, peer, files, past, Bounds, Steady, Numbered, Copied, Counted, Dated,
                    NoEcho, Passed
<1>6. CASE Stamp
  BY <1>0, <1>6, SMTT(30) DEF Stamp, Done, peer, local, past, Steady, Numbered, Copied, Counted, Dated,
                    NoEcho, Passed
<1>7. CASE Seek
  BY <1>0, <1>7, SMTT(30) DEF Seek, StartId, NoFile, Done, peer, past, Steady, Numbered, Copied, Counted,
                    Dated, NoEcho, Passed
<1>8. CASE File
  BY <1>0, <1>8, SteadyFile
<1>9. CASE Save
  BY <1>0, <1>9, SMTT(30) DEF Save, Done, peer, past, Steady, Numbered, Copied, Counted, Dated, NoEcho,
                    Passed
<1>10. CASE Stop
  BY <1>0, <1>10, SMTT(30) DEF Stop, StopCounter, peer, past, Steady, Numbered, Copied, Counted, Dated,
                     NoEcho, Passed
<1>11. CASE StartAfresh
  <2>1. /\ UNCHANGED <<queue, made, names, next_min_accept, max_start_id>>
        /\ life' = life + 1 /\ synced' = 0 /\ max' = Len(queue) - 1 /\ executed' = {}
    BY <1>11 DEF StartAfresh, peer, local
  <2>2. names = <<>> /\ next_min_accept = 0 /\ max_start_id = 0
    BY <1>0, <1>11 DEF StartAfresh, Bounds
  <2>3. life \in Nat \ {0} /\ \A i \in 1 .. Len(queue) : queue[i].from \in Nat
    <3>1. \A i \in 1 .. Len(queue) : queue[i] \in Entry
      BY <1>0
    <3> QED BY <1>0, <3>1, SyncAssumption DEF Entry
  <2> USE <1>0, <2>1, <2>2, <2>3 DEF Steady
  <2>4. Numbered' /\ Dated'    BY DEF Numbered, Dated
  <2>5. Copied' /\ Counted'    BY DEF Copied, Counted
  <2>6. NoEcho' /\ Passed'     BY DEF NoEcho, Passed
  <2> QED BY <2>4, <2>5, <2>6
<1> QED BY <1>1, <1>2, <1>3, <1>4, <1>5, <1>6, <1>7, <1>8, <1>9, <1>10, <1>11
        DEF Next, Peer, SyncStep

-----------------------------------------------------------------------------
(* The invariant holds at first and every step keeps it.                   *)
THEOREM Bookkeeping == Spec => []IInv
<1>1. Init => IInv
  BY SyncAssumption DEF Init, NoFile, IInv, TypeOK, Bounds, Steady, Numbered, Copied, Counted,
                        Dated, NoEcho, Passed
<1>2. IInv /\ [Next]_vars => IInv'
  <2> SUFFICES ASSUME IInv, [Next]_vars PROVE IInv'
    OBVIOUS
  <2>1. CASE Next
    BY <2>1, TypeKept, SteadyKept DEF IInv
  <2>2. CASE UNCHANGED vars
    BY Zenon, <2>2 DEF vars, peer, local, files, past, IInv, TypeOK, Bounds, Steady, Numbered, Copied,
                Counted, Dated, NoEcho, Passed
  <2> QED BY <2>1, <2>2
<1> QED BY <1>1, <1>2, PTL DEF Spec

(* sync_fuzzers and is_known_case: a test case given to a peer that is not *)
(* restarted does not come back to us within the same life.                *)
THEOREM GiftsStayAway == Spec => []NoEcho
<1>1. IInv => NoEcho
  BY DEF IInv, Steady, NoEcho
<1> QED BY <1>1, Bookkeeping, PTL

(* sync_fuzzers: until the peer is restarted or we are started afresh, a   *)
(* file below the counter was run, unreadable or ours, however often an    *)
(* import was stopped and resumed.                                         *)
THEOREM SkippedOnlyForCause == Spec => []SkippedForCause
<1>1. ASSUME IInv, restarts = 0, life = 1, NEW i \in 1 .. Len(queue), i <= synced
      PROVE  queue[i].case \in executed \cup missed \/ queue[i].from = life
  <2>1. queue[i] \in Entry
    BY <1>1 DEF IInv, TypeOK
  <2>2. queue[i].from \in Nat
    BY <2>1, SyncAssumption DEF Entry
  <2> QED BY <1>1, <2>2 DEF IInv, Steady, Numbered, Passed
<1>2. IInv => SkippedForCause
  BY <1>1 DEF SkippedForCause
<1> QED BY <1>2, Bookkeeping, PTL

(* The types of the import's state.                                        *)
THEOREM SyncTypes == Spec => []TypeOK
<1>1. IInv => TypeOK
  BY DEF IInv
<1> QED BY <1>1, Bookkeeping, PTL

-----------------------------------------------------------------------------
(* Every life                                                              *)

(* What the peer found itself and a counter has passed was run, or could   *)
(* not be read, in our present life, whichever it is.                      *)
OwnFindsSeen ==
  restarts = 0 =>
    \A i \in 1 .. Len(queue) :
      i <= synced /\ queue[i].from = 0 => queue[i].case \in executed \cup missed

(* sync_fuzzers: a test case of a peer that is not restarted is not passed *)
(* over, however often we are stopped, resumed and started afresh.         *)
THEOREM OwnFindsAreSeen == Spec => []OwnFindsSeen
<1>1. IInv => OwnFindsSeen
  BY DEF IInv, Steady, Passed, OwnFindsSeen
<1> QED BY <1>1, Bookkeeping, PTL

(* File i of the queue has the id i - 1, and .max holds the id of the last *)
(* file at our start.  While .max is there, whatever a counter has passed  *)
(* of the files before the last two was run, or could not be read, be it   *)
(* ours or not.                                                            *)
Regained ==
  restarts = 0 /\ max # NoFile =>
    /\ pc = "file" => max_start_id = max
    /\ \A i \in 1 .. Len(queue) :
         i < max /\ (i <= synced \/ i <= next_min_accept) =>
           queue[i].case \in executed \cup missed

(* .max goes only when all these files are passed.                         *)
MaxOutlived ==
  restarts = 0 /\ max # NoFile /\ max' = NoFile =>
    \A i \in 1 .. Len(queue) : i < max => queue[i].case \in executed \cup missed

(* Every step keeps what is said of .max.                                  *)
LEMMA RegainedKept ==
  ASSUME IInv, IInv', Regained, Next
  PROVE  Regained'
<1> SUFFICES ASSUME restarts' = 0, max' # NoFile
             PROVE  /\ pc' = "file" => max_start_id' = max'
                    /\ \A i \in 1 .. Len(queue') :
                         i < max' /\ (i <= synced' \/ i <= next_min_accept') =>
                           queue'[i].case \in executed' \cup missed'
  BY DEF Regained
<1>0. TypeOK /\ Bounds /\ restarts = 0 /\ Steady
  <2>1. restarts = 0
    BY SMTT(30) DEF IInv, TypeOK, Next, Peer, SyncStep, Tick, PeerCreate, PeerWrite, PeerRestart,
           PeerUp, Scan, Stamp, Seek, File, Save, Stop, Resume, StartAfresh, peer
  <2> QED BY <2>1 DEF IInv
<1> USE <1>0 DEF TypeOK, Regained
<1>1. CASE Tick \/ PeerUp \/ Resume
  BY <1>1 DEF Tick, PeerUp, Resume, peer, local, files, past
<1>2. CASE PeerCreate
  <2>1. /\ Len(queue') = Len(queue) + 1
        /\ \A i \in 1 .. Len(queue) : queue'[i] = queue[i]
    BY <1>2, PeerQueue
  <2>2. UNCHANGED <<pc, next_min_accept, max_start_id, synced, max, executed, missed>>
    BY <1>2 DEF PeerCreate, local, files, past
  <2>3. \A i \in 1 .. Len(queue) + 1 : i < max => i \in 1 .. Len(queue)
    BY DEF Steady, Counted
  <2> QED BY Zenon, <2>1, <2>2, <2>3
<1>3. CASE PeerWrite
  <2>1. /\ Len(queue') = Len(queue)
        /\ \A i \in 1 .. Len(queue) : queue'[i].case = queue[i].case
    BY <1>3, PeerQueue
  <2>2. UNCHANGED <<pc, next_min_accept, max_start_id, synced, max, executed, missed>>
    BY <1>3 DEF PeerWrite, local, files, past
  <2> QED BY <2>1, <2>2
<1>4. CASE PeerRestart
  BY <1>4 DEF PeerRestart
<1>5. CASE Scan
  BY <1>5 DEF Scan, peer, files, past
<1>6. CASE Stamp
  <2>1. CASE Restarted   BY <1>6, <2>1 DEF Stamp, Done, peer, past
  <2>2. CASE ~Restarted  BY <1>6, <2>2 DEF Stamp, peer, local, past
  <2> QED BY Zenon, <2>1, <2>2
<1>7. CASE Seek
  <2>1. max' = max /\ synced' = synced /\ UNCHANGED <<queue, executed, missed>>
    BY <1>7 DEF Seek, peer, past
  <2>2. next_min_accept' \in {0, next_min_accept}
    BY <1>7 DEF Seek, Done
  <2>3. pc' = "file" => max_start_id' = max
    BY <1>7, <2>1 DEF Seek, Done, StartId
  <2> QED BY <2>1, <2>2, <2>3
<1>8. CASE File
  <2> DEFINE j == next_min_accept + 1
             e == names[j]
  <2>1. /\ UNCHANGED <<queue, pc, max_start_id, synced, max>> /\ next_min_accept' = j
        /\ pc = "file"
    BY <1>8 DEF File, peer, files
  <2>2. j \in 1 .. Len(names) /\ e.case = j /\ \A i \in 1 .. Len(queue) : queue[i].case = i
    BY <1>8 DEF File, Steady, Numbered, Copied
  <2>3. j < max => Wanted(e)
    BY <2>1 DEF Wanted
  <2>4. /\ executed' = executed \cup {x \in {j} : Readable(e) /\ Wanted(e)}
        /\ missed' = missed \cup {x \in {j} : ~Readable(e)}
    BY <1>8, <2>2 DEF File
  <2> HIDE DEF e
  <2>5. j < max => j \in executed' \cup missed'
    BY <2>3, <2>4
  <2>6. executed \subseteq executed' /\ missed \subseteq missed'
    BY <2>4
  <2>7. \A i \in 1 .. Len(queue) : i <= j => i <= next_min_accept \/ i = j
    OBVIOUS
  <2> HIDE DEF j
  <2> QED BY <2>1, <2>2, <2>5, <2>6, <2>7
<1>9. CASE Save
  BY <1>9 DEF Save, Done, peer, past
<1>10. CASE Stop
  BY <1>10 DEF Stop, StopCounter, peer, past
<1>11. CASE StartAfresh
  BY <1>11 DEF StartAfresh, peer, local, Bounds
<1> QED BY Zenon, <1>1, <1>2, <1>3, <1>4, <1>5, <1>6, <1>7, <1>8, <1>9, <1>10, <1>11
        DEF Next, Peer, SyncStep

(* check_sync_fuzzers and sync_fuzzers: the file .max, which makes us run  *)
(* again what a peer imported from an earlier life of ours, is not removed *)
(* before all but the last two files the peer had at our start were run or *)
(* could not be read.  (The counter is incremented before the comparison,  *)
(* and the id that was noted counts from 0: hence the last two.)           *)
THEOREM MaxIsOutlived == Spec => [][MaxOutlived]_vars
<1>1. Init => Regained
  BY DEF Init, Regained
<1>2. IInv /\ IInv' /\ Regained /\ [Next]_vars => Regained'
  <2>1. UNCHANGED vars /\ Regained => Regained'
    BY DEF vars, peer, local, files, past, Regained
  <2> QED BY <2>1, RegainedKept
<1>3. IInv /\ Regained /\ Next => MaxOutlived
  <2> SUFFICES ASSUME IInv, Regained, Next, restarts = 0, max # NoFile, max' = NoFile
               PROVE  \A i \in 1 .. Len(queue) : i < max => queue[i].case \in executed \cup missed
    BY DEF MaxOutlived
  <2>1. CASE Seek
    <3>1. max < next_min_accept
      BY <2>1 DEF Seek
    <3>2. max \in Int /\ next_min_accept \in Int /\ Len(queue) \in Nat
      BY <3>1 DEF IInv, TypeOK
    <3> QED BY <3>1, <3>2 DEF Regained
  <2>2. CASE StartAfresh
    <3>1. Len(queue) = 0
      BY <2>2 DEF StartAfresh, NoFile, IInv, TypeOK
    <3> QED BY <3>1
  <2>3. CASE ~Seek /\ ~StartAfresh
    <3>1. max' = max
      BY <2>3, SMTT(30) DEF Next, Peer, SyncStep, Tick, PeerCreate, PeerWrite, PeerRestart,
           PeerUp, Scan, Stamp, File, Save, Stop, Resume, files
    <3> QED BY <3>1
  <2> QED BY <2>1, <2>2, <2>3
<1> QED BY <1>1, <1>2, <1>3, Bookkeeping, PTL DEF Spec

-----------------------------------------------------------------------------
(* Files met while empty                                                   *)

(* The peer writes a file before it creates the next one.                  *)
Written == restarts = 0 => \A i \in 1 .. Len(queue) : i < Len(queue) => queue[i].full

(* Every step keeps that.                                                  *)
LEMMA WrittenKept ==
  ASSUME IInv, Written, Next
  PROVE  Written'
<1>0. TypeOK /\ Bounds /\ queue \in Seq(Entry) /\ Len(queue) \in Nat
  BY DEF IInv, TypeOK
<1>1. CASE PeerCreate
  <2>1. /\ Len(queue') = Len(queue) + 1 /\ restarts' = restarts
        /\ \A i \in 1 .. Len(queue) : queue'[i] = queue[i]
    BY <1>0, <1>1, PeerQueue DEF PeerCreate
  <2>2. Len(queue) > 0 => queue[Len(queue)].full
    BY <1>0, <1>1 DEF PeerCreate, Last
  <2> QED BY <1>0, <2>1, <2>2 DEF Written
<1>2. CASE PeerWrite
  <2>1. /\ Len(queue') = Len(queue) /\ restarts' = restarts
        /\ \A i \in 1 .. Len(queue) : i < Len(queue) => queue'[i] = queue[i]
    BY <1>0, <1>2, PeerQueue DEF PeerWrite
  <2> QED BY <2>1 DEF Written
<1>3. CASE PeerRestart
  BY <1>3 DEF PeerRestart, Written
<1>4. CASE Tick \/ PeerUp \/ SyncStep \/ Stop \/ Resume \/ StartAfresh
  <2>1. UNCHANGED <<queue, restarts>>
    BY <1>4, SMTT(30) DEF Tick, PeerUp, SyncStep, Scan, Stamp, Seek, File, Save, Stop, Resume,
         StartAfresh, peer
  <2> QED BY <2>1 DEF Written
<1> QED BY <1>1, <1>2, <1>3, <1>4 DEF Next, Peer

(* sync_fuzzers: a file of a peer that is not restarted is passed by       *)
(* because it is empty only if it is the newest one of the peer at that    *)
(* moment; every older one was written before.                             *)
THEOREM MissedWhileWritten == Spec => OnlyNewestMissed
<1> DEFINE A == restarts' = 0 => missed' \subseteq missed \cup {made}
<1>1. Init => Written
  BY DEF Init, Written
<1>2. IInv /\ Written /\ [Next]_vars => Written'
  <2>1. UNCHANGED vars /\ Written => Written'
    BY DEF vars, peer, Written
  <2> QED BY <2>1, WrittenKept
<1>3. IInv /\ Written /\ [Next]_vars => [A]_vars
  <2> SUFFICES ASSUME IInv, Written, Next, restarts' = 0
               PROVE  missed' \subseteq missed \cup {made}
    OBVIOUS
  <2>1. CASE File
    <3> DEFINE j == next_min_accept + 1
               e == names[j]
    <3>1. restarts = 0 /\ TypeOK /\ Steady
      BY <2>1 DEF File, peer, IInv
    <3>2. j \in 1 .. Len(queue) /\ e.case = j /\ queue[j].case = j /\ made = Len(queue)
      BY <2>1, <3>1 DEF File, Steady, Numbered, Copied, TypeOK
    <3>3. j < Len(queue) => Readable(e)
      BY <3>1, <3>2 DEF Written, Readable
    <3>4. missed' = missed \cup {x \in {j} : ~Readable(e)}
      BY <2>1, <3>2 DEF File
    <3> HIDE DEF e
    <3>5. ~Readable(e) => j = made
      BY <3>1, <3>2, <3>3 DEF TypeOK
    <3> QED BY <3>4, <3>5
  <2>2. CASE ~File
    <3>1. missed' \in {missed, {}}
      BY <2>2, SMTT(30) DEF Next, Peer, SyncStep, Tick, PeerCreate, PeerWrite, PeerRestart,
           PeerUp, Scan, Stamp, Seek, Save, Stop, Resume, StartAfresh, past
    <3> QED BY <3>1
  <2> QED BY <2>1, <2>2
<1> QED BY <1>1, <1>2, <1>3, Bookkeeping, PTL DEF Spec, OnlyNewestMissed

-----------------------------------------------------------------------------
(* Progress of the counter                                                 *)

(* Where a pass over the files of the peer stands.                         *)
Pass ==
  /\ cmdline <= now
  /\ pc \in {"stamp", "seek"} => next_min_accept = synced
  /\ pc = "file" => synced <= next_min_accept /\ next_min_accept <= Len(names)

(* A pass that is neither stopped nor broken off as coming after a restart *)
(* leaves the counter beyond all files it was to look at.  The counter     *)
(* goes back only when we start afresh, or in the very second in which the *)
(* peer wrote its cmdline.                                                 *)
CatchesUp ==
  /\ pc \in {"seek", "file"} /\ pc' = "idle" => synced' >= Len(names)
  /\ synced' < synced => life' # life \/ (pc = "stamp" /\ cmdline = now)

(* Every step keeps it.                                                    *)
LEMMA PassKept ==
  ASSUME TypeOK, Pass, Next
  PROVE  Pass' /\ CatchesUp
<1> USE SyncAssumption DEF TypeOK, Pass, CatchesUp, peer, local, files, past, NoFile
<1>1. CASE Tick          BY <1>1 DEF Tick
<1>2. CASE Peer
  BY <1>2, SMTT(30) DEF Peer, PeerCreate, PeerWrite, PeerRestart, PeerUp
<1>3. CASE Scan          BY <1>3 DEF Scan
<1>4. CASE Stamp
  <2>1. CASE Restarted   BY <1>4, <2>1 DEF Stamp, Done, Restarted
  <2>2. CASE ~Restarted  BY <1>4, <2>2 DEF Stamp
  <2> QED BY <2>1, <2>2
<1>5. CASE Seek
  <2>1. CASE next_min_accept >= Len(names)
    BY <1>5, <2>1 DEF Seek, Done
  <2>2. CASE ~(next_min_accept >= Len(names))
    BY <1>5, <2>2 DEF Seek
  <2> QED BY <2>1, <2>2
<1>6. CASE File
  <2>1. /\ UNCHANGED <<now, queue, cmdline, pc, life, names, synced>>
        /\ next_min_accept' = next_min_accept + 1 /\ next_min_accept < Len(names)
        /\ pc = "file"
    BY <1>6 DEF File
  <2> QED BY <2>1
<1>7. CASE Save          BY <1>7 DEF Save, Done
<1>8. CASE Stop
  <2>1. UNCHANGED <<now, cmdline, life, synced>> /\ pc' = "down"
    BY <1>8 DEF Stop, StopCounter
  <2> QED BY <2>1
<1>9. CASE Resume        BY <1>9 DEF Resume
<1>10. CASE StartAfresh  BY <1>10 DEF StartAfresh
<1> QED BY <1>1, <1>2, <1>3, <1>4, <1>5, <1>6, <1>7, <1>8, <1>9, <1>10 DEF Next, SyncStep

(* sync_fuzzers, whoever was restarted: an import catches up with the      *)
(* peer's directory as it was listed, and a restart of the peer, which is  *)
(* to send the counter back to 0, is noticed only in the second of the     *)
(* restart, because .last is touched just before the comparison.           *)
THEOREM ImportsCatchUp == Spec => [][CatchesUp]_vars
<1>1. Init => Pass
  BY DEF Init, Pass
<1>2. TypeOK /\ Pass /\ [Next]_vars => Pass'
  <2>1. UNCHANGED vars /\ Pass => Pass'
    BY DEF vars, peer, local, files, Pass
  <2> QED BY <2>1, PassKept
<1>3. TypeOK /\ Pass /\ Next => CatchesUp
  BY PassKept
<1> QED BY <1>1, <1>2, <1>3, SyncTypes, PTL DEF Spec
=============================================================================
