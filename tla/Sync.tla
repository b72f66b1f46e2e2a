-------------------------------- MODULE Sync --------------------------------
(***************************************************************************)
(* How one instance ("we") imports the test cases of another (the peer) in *)
(* sync_fuzzers.  The peer adds files id:000000, id:000001, ... to its     *)
(* queue directory, some of them imported from us.  We remember in files   *)
(* below .synced how far we have read:                                     *)
(*   .synced/PEER       the id to go on with,                              *)
(*   .synced/PEER.last  touched whenever we look at the peer,              *)
(*   .synced/PEER.max   the last id the peer had when we were started.     *)
(* The two processes share nothing but the file system.                    *)
(***************************************************************************)
EXTENDS Integers, Sequences, SequencesExt

CONSTANTS
  MaxCases,      \* bound: test cases the peer finds
  PeerRestarts,  \* bound: how often the peer is started afresh
  MaxLives,      \* bound: how often we are started afresh
  MaxTime        \* bound: the seconds that pass

NoFile == -1     \* a file that does not exist

ASSUME SyncAssumption ==
  /\ MaxCases \in Nat /\ PeerRestarts \in Nat /\ MaxTime \in Nat
  /\ MaxLives \in Nat \ {0}

VARIABLES
  now,              \* the clock, in seconds
  queue,            \* the peer's queue directory, in the order of the ids
  made,             \* how many test cases the peer has made
  restarts,         \* how often the peer was started afresh
  cmdline,          \* modification time of the peer's file cmdline
  pc,               \* where we are
  life,             \* how often we were started afresh
  names,            \* sync_fuzzers: namelist
  next_min_accept,  \* sync_fuzzers: the id of the next file
  max_start_id,     \* sync_fuzzers: what .synced/PEER.max held
  synced,           \* the file .synced/PEER (0: none yet)
  max,              \* the file .synced/PEER.max
  executed,         \* history: the test cases run in this life
  missed            \* history: files met while empty or gone

peer  == <<queue, made, restarts, cmdline>>
local == <<names, next_min_accept, max_start_id>>
files == <<synced, max>>
past  == <<executed, missed>>
vars  == <<now, peer, pc, life, local, files, past>>

(* A file of the queue: the test case, the life of ours it was imported    *)
(* from (0 when the peer found it), and whether its content was written.   *)
Entry == [case : 1 .. MaxCases, from : 0 .. MaxLives, full : BOOLEAN]

Init ==
  /\ now = 0 /\ queue = <<>> /\ made = 0 /\ restarts = 0 /\ cmdline = 0
  /\ pc = "idle" /\ life = 1
  /\ names = <<>> /\ next_min_accept = 0 /\ max_start_id = 0
  /\ synced = 0 /\ max = NoFile
  /\ executed = {} /\ missed = {}

Tick ==
  /\ now < MaxTime
  /\ now' = now + 1
  /\ UNCHANGED <<peer, pc, life, local, files, past>>

-----------------------------------------------------------------------------
(* The peer                                                                *)

(* save_if_interesting creates the file of a new test case ...             *)
PeerCreate ==
  /\ cmdline # NoFile /\ made < MaxCases
  /\ queue # <<>> => Last(queue).full
  /\ \E from \in {0, life} :
       queue' = Append(queue, [case |-> made + 1, from |-> from, full |-> FALSE])
  /\ made' = made + 1
  /\ UNCHANGED <<now, restarts, cmdline, pc, life, local, files, past>>

(* ... and then writes it.                                                 *)
PeerWrite ==
  /\ queue # <<>> /\ ~Last(queue).full
  /\ queue' = [queue EXCEPT ![Len(queue)].full = TRUE]
  /\ UNCHANGED <<now, made, restarts, cmdline, pc, life, local, files, past>>

(* The peer is started afresh: handle_existing_out_dir empties its output  *)
(* directory ...                                                           *)
PeerRestart ==
  /\ restarts < PeerRestarts /\ cmdline # NoFile
  /\ restarts' = restarts + 1
  /\ queue' = <<>> /\ cmdline' = NoFile
  /\ UNCHANGED <<now, made, pc, life, local, files, past>>

(* ... and setup_cmdline_file writes cmdline again.                        *)
PeerUp ==
  /\ cmdline = NoFile /\ now < MaxTime
  /\ cmdline' = now
  /\ UNCHANGED <<now, queue, made, restarts, pc, life, local, files, past>>

-----------------------------------------------------------------------------
(* sync_fuzzers, for this one peer                                         *)

(* scandir of the peer's queue; the id to go on with is read.              *)
Scan ==
  /\ pc = "idle"
  /\ names' = queue
  /\ next_min_accept' = synced
  /\ pc' = "stamp"
  /\ UNCHANGED <<now, peer, life, max_start_id, files, past>>

(* .last is touched and its time, which is now, compared with cmdline's: a *)
(* peer not older than that was restarted, and we start from its first     *)
(* file the next time.                                                     *)
AlwaysRestarted == cmdline # NoFile                               \* mutant
Restarted == cmdline # NoFile /\ now <= cmdline

Done ==
  /\ pc' = "idle"
  /\ names' = <<>> /\ next_min_accept' = 0 /\ max_start_id' = 0

Stamp ==
  /\ pc = "stamp"
  /\ IF Restarted
       THEN synced' = 0 /\ Done
       ELSE pc' = "seek" /\ UNCHANGED <<synced, local>>
  /\ UNCHANGED <<now, peer, life, max, past>>

(* .max is read, and removed once we are beyond it.  If no file has the id *)
(* we are waiting for, nothing is new.                                     *)
StartId == IF max = NoFile THEN 0 ELSE max

Seek ==
  /\ pc = "seek"
  /\ max' = IF max < next_min_accept THEN NoFile ELSE max
  /\ IF next_min_accept >= Len(names)
       THEN Done
       ELSE /\ max_start_id' = StartId
            /\ pc' = "file"
            /\ UNCHANGED <<names, next_min_accept>>
  /\ UNCHANGED <<now, peer, life, synced, past>>

(* is_known_case: the name says that the file was imported from us.        *)
is_known_case(e) == e.from # 0

SizeWhenListed(e) ==                                              \* mutant
  e.full /\ \E i \in 1 .. Len(queue) : queue[i].case = e.case
(* The file can still be opened, and it is not empty.                      *)
Readable(e) ==
  \E i \in 1 .. Len(queue) : queue[i].case = e.case /\ queue[i].full

WantsAll(e) == TRUE                                               \* mutant
Wanted(e) == next_min_accept + 1 < max_start_id \/ ~is_known_case(e)

(* One file: run it, unless it cannot be read or is ours.  It counts as    *)
(* seen in any case.                                                       *)
File ==
  /\ pc = "file" /\ next_min_accept < Len(names)
  /\ LET e == names[next_min_accept + 1] IN
       /\ executed' = executed \cup {x \in {e.case} : Readable(e) /\ Wanted(e)}
       /\ missed' = missed \cup {x \in {e.case} : ~Readable(e)}
  /\ next_min_accept' = next_min_accept + 1
  /\ UNCHANGED <<now, peer, pc, life, names, max_start_id, files>>

Save ==
  /\ pc = "file" /\ next_min_accept = Len(names)
  /\ synced' = next_min_accept /\ Done
  /\ UNCHANGED <<now, peer, life, max, past>>

-----------------------------------------------------------------------------
(* Stop and start of our instance                                          *)

(* A stop signal.  Amid the files, the test case that was running is not   *)
(* looked at and the counter is not saved.                                 *)
CountsStopped == synced' = Len(names)                             \* mutant
StopCounter == synced' = synced

Stop ==
  /\ \/ pc = "idle" /\ UNCHANGED synced
     \/ /\ pc = "file" /\ next_min_accept < Len(names)
        /\ LET e == names[next_min_accept + 1] IN Readable(e) /\ Wanted(e)
        /\ StopCounter
  /\ pc' = "down"
  /\ names' = <<>> /\ next_min_accept' = 0 /\ max_start_id' = 0
  /\ UNCHANGED <<now, peer, life, max, past>>

(* In-place resume keeps the queue and .synced.                            *)
Resume ==
  /\ pc = "down"
  /\ pc' = "idle"
  /\ UNCHANGED <<now, peer, life, local, files, past>>

(* A fresh start removes both; check_sync_fuzzers then notes the last id   *)
(* of the peer.                                                            *)
StartAfresh ==
  /\ pc = "down" /\ life < MaxLives
  /\ life' = life + 1
  /\ synced' = 0
  /\ max' = Len(queue) - 1
  /\ executed' = {} /\ missed' = {}
  /\ pc' = "idle"
  /\ UNCHANGED <<now, peer, local>>

-----------------------------------------------------------------------------
Peer == PeerCreate \/ PeerWrite \/ PeerRestart \/ PeerUp
SyncStep == Scan \/ Stamp \/ Seek \/ File \/ Save
Next == Tick \/ Peer \/ SyncStep \/ Stop \/ Resume \/ StartAfresh

Spec == Init /\ [][Next]_vars

(* Time passes, the peer finishes the file it is writing, and an instance  *)
(* that runs goes on syncing.  Nobody has to find, stop or start anything. *)
FairSpec ==
  Spec /\ WF_vars(Tick) /\ WF_vars(PeerWrite) /\ WF_vars(PeerUp) /\ WF_vars(SyncStep)

-----------------------------------------------------------------------------
(* Properties                                                              *)

(* The types of the state; no counter of files exceeds the files made.     *)
TypeOK ==
  /\ now \in 0 .. MaxTime /\ made \in 0 .. MaxCases
  /\ queue \in Seq(Entry) /\ names \in Seq(Entry)
  /\ restarts \in 0 .. PeerRestarts
  /\ cmdline \in 0 .. MaxTime \cup {NoFile}
  /\ pc \in {"idle", "stamp", "seek", "file", "down"} /\ life \in 1 .. MaxLives
  /\ next_min_accept \in 0 .. MaxCases /\ max_start_id \in 0 .. MaxCases
  /\ synced \in 0 .. MaxCases /\ max \in -1 .. MaxCases
  /\ executed \subseteq 1 .. MaxCases /\ missed \subseteq 1 .. MaxCases

(* In our first life, with a peer that was not restarted: a file we shall  *)
(* not look at again was run, or could not be read when we came to it, or  *)
(* holds a test case we gave to the peer.                                  *)
SkippedForCause ==
  restarts = 0 /\ life = 1 =>
    \A i \in 1 .. Len(queue) :
      i <= synced => \/ queue[i].case \in executed \cup missed
                     \/ queue[i].from = life

(* Unless the peer was restarted, no test case we gave to it in this life  *)
(* is run again.                                                           *)
NoEcho ==
  restarts = 0 =>
    \A i \in 1 .. Len(queue) : queue[i].from = life => queue[i].case \notin executed

(* The only file of a peer that was not restarted that can be met empty,   *)
(* and is passed by for good, is the newest one: it is looked at when its  *)
(* turn comes, not when the directory is read.                             *)
OnlyNewestMissed == [][restarts' = 0 => missed' \subseteq missed \cup {made}]_vars

(* Whoever was restarted: a file beyond the counter is reached, as long as *)
(* we run and it exists.                                                   *)
NeverStuck ==
  \A i \in 1 .. MaxCases :
    <>[](pc # "down" /\ Len(queue) >= i) => <>(synced >= i)

Queued(c) == \E i \in 1 .. Len(queue) : queue[i].case = c /\ queue[i].from = 0

(* If we are not stopped, we come to every test case of the peer's own     *)
(* that stays in its queue, in this life.                                  *)
CaseSeen(c) ==
  <>[](pc # "down" /\ Queued(c)) => <>[](c \in executed \cup missed)

(* That is so for every test case of a peer that is not restarted, however *)
(* often we are stopped, resumed and started afresh.                       *)
EveryCaseSeen == [](restarts = 0) => \A c \in 1 .. MaxCases : CaseSeen(c)

(* A restart of the peer between two imports is noticed and the counter    *)
(* reset: it is so for the test cases of such a peer, too.                 *)
RestartNoticed ==
  [](cmdline = NoFile => pc = "idle") => \A c \in 1 .. MaxCases : CaseSeen(c)
=============================================================================
