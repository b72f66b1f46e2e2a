------------------------------- MODULE Queue -------------------------------
(***************************************************************************)
(* The queue of test cases of one afl-fuzz process: which entry is best    *)
(* for each slot of the coverage map (update_bitmap_score), which entries  *)
(* are favored because together they cover the map (cull_queue), which one *)
(* is fuzzed next (afl_fuzz_queue in src/afl-main.c), and the counters all *)
(* of these steer by.  The process is sequential: an action is one step of *)
(* the main loop with everything it calls.  The target is deterministic:   *)
(* a test case always has the same trace.                                  *)
(***************************************************************************)
EXTENDS Integers, FiniteSets, FiniteSetsExt

CONSTANTS
  MapSize,          \* fsrv.map_size
  MaxSeeds,         \* bound: the seeds
  MaxItems,         \* bound: seeds and finds together
  MaxFactor,        \* bound: values of fav_factor that are told apart
  MaxRounds,        \* bound: calls of fuzz_one that do not skip their entry
  MaxLevel,         \* bound: values of fuzz_level that are told apart
  MaxResumes,       \* bound: restarts from fastresume.bin
  UINT_MAX,         \* the largest u32, (u32)-1; above MaxItems
  CAL_CHANCES,      \* config.h: 3
  SkipAbove,        \* 10 in fuzz_one_original: a shorter queue is not thinned
  NovelCycles,      \* 3 in cull_queue: how long tightness_novel lasts
  LevelCounts,      \* the schedule compares fuzz_level (not one of FAST..QUAD)
  CycleSchedules,   \* AFL_CYCLE_SCHEDULES
  DisableRedundant, \* AFL_DISABLE_REDUNDANT
  Tightness,        \* -l M
  CustomMutator     \* a custom mutator may refuse an entry

ASSUME QueueAssumption ==
  /\ {MapSize, MaxSeeds, MaxItems, MaxFactor, CAL_CHANCES} \subseteq Nat \ {0}
  /\ {MaxRounds, MaxLevel, MaxResumes, SkipAbove, NovelCycles} \subseteq Nat
  /\ UINT_MAX \in Nat /\ UINT_MAX > MaxItems
  /\ {LevelCounts, CycleSchedules, DisableRedundant, Tightness,
      CustomMutator} \subseteq BOOLEAN

VARIABLES
  pc,                     \* where the main loop is
  queued_items,
  q,                      \* queue_buf: see Entry
  tc_ref, trace_mini,     \* of each entry: slots it holds, trace if kept
  top_rated,              \* the best entry of each slot
  score_changed, pending_favored, pending_not_fuzzed, active_items,
  smallest_favored, queue_cur, queue_cycle, runs_in_current_cycle,
  scored,                 \* the entries listed in top_rated_candidates
  last_scored_idx,
  trace_bits,             \* the shared map, as recalculate_all_scores left it
  todo,                   \* recalculate_all_scores: candidates to compare yet
  rounds, resumes,
  rescored                \* history: recalculate_all_scores has been at work

Item  == 0 .. MaxItems - 1
Slot  == 0 .. MapSize - 1
None  == -1
Trace == SUBSET Slot

Entry == [trace : Trace, fav_factor : Nat, fuzz_level : Nat, cal_failed : Nat,
          trim_done : BOOLEAN, was_fuzzed : BOOLEAN, favored : BOOLEAN,
          fs_redundant : BOOLEAN, disabled : BOOLEAN,
          tightness_novel : BOOLEAN, tightness_novel_cycle : Nat]

(* struct queue_entry as add_to_queue leaves it *)
Fresh(t, f) ==
  [trace |-> t, fav_factor |-> f, fuzz_level |-> 0, cal_failed |-> 0,
   trim_done |-> FALSE, was_fuzzed |-> FALSE, favored |-> FALSE,
   fs_redundant |-> FALSE, disabled |-> FALSE,
   tightness_novel |-> FALSE, tightness_novel_cycle |-> 0]

scores    == <<tc_ref, trace_mini, top_rated, score_changed>>
selection == <<pending_favored, smallest_favored>>
totals    == <<pending_not_fuzzed, active_items>>
cycle     == <<queue_cycle, runs_in_current_cycle>>
rescore   == <<scored, last_scored_idx, trace_bits, todo, rescored>>
vars == <<pc, queued_items, q, scores, selection, totals, queue_cur, cycle,
          rescore, rounds, resumes>>

Queued   == 0 .. queued_items - 1
Active   == {e \in Queued : ~q[e].disabled}
Unfuzzed == {e \in Queued : ~q[e].was_fuzzed}
Pending  == {e \in Unfuzzed : q[e].favored}
Holds(e) == {i \in Slot : top_rated[i] = e}

ReducedBelowZero(n) == n - 1   \* mutant
NotReduced(n)       == n       \* mutant
Reduced(n) == IF n > 0 THEN n - 1 ELSE n

Init ==
  /\ pc = "dry_run" /\ queued_items = 0
  /\ q = [e \in Item |-> Fresh({}, 1)]
  /\ tc_ref = [e \in Item |-> 0] /\ trace_mini = [e \in Item |-> {}]
  /\ top_rated = [i \in Slot |-> None] /\ score_changed = FALSE
  /\ pending_favored = 0 /\ smallest_favored = None
  /\ pending_not_fuzzed = 0 /\ active_items = 0
  /\ queue_cur = None /\ queue_cycle = 0
  /\ runs_in_current_cycle = UINT_MAX
  /\ scored = {} /\ last_scored_idx = -1 /\ trace_bits = {} /\ todo = {}
  /\ rescored = FALSE /\ rounds = 0 /\ resumes = 0

-----------------------------------------------------------------------------
(* Scores                                                                  *)

FuzzP2(r, e) == IF LevelCounts THEN r[e].fuzz_level ELSE 0

(* Entry e takes a slot from entry p: it was not fuzzed more often, and it *)
(* is not slower or longer.                                                *)
Beats(r, e, p) ==
  /\ FuzzP2(r, e) <= FuzzP2(r, p)
  /\ r[e].fav_factor <= r[p].fav_factor

Won(r, e) ==
  IF r[e].disabled THEN {}
  ELSE {i \in r[e].trace :
          top_rated[i] = None \/ Beats(r, e, top_rated[i])}

LoserStaysCounted(e, W, t) ==                                     \* mutant
  /\ top_rated' = [i \in Slot |-> IF i \in W THEN e ELSE top_rated[i]]
  /\ tc_ref' = [tc_ref EXCEPT ![e] = @ + Cardinality(W)]
  /\ trace_mini' = [trace_mini EXCEPT ![e] = IF W = {} THEN @ ELSE t]
  /\ score_changed' = (score_changed \/ W # {})
LoserKeepsTrace(e, W, t) ==                                       \* mutant
  /\ top_rated' = [i \in Slot |-> IF i \in W THEN e ELSE top_rated[i]]
  /\ tc_ref' = [p \in Item |->
       tc_ref[p] - Cardinality(W \cap Holds(p))
         + (IF p = e THEN Cardinality(W) ELSE 0)]
  /\ trace_mini' = [trace_mini EXCEPT ![e] = IF W = {} THEN @ ELSE t]
  /\ score_changed' = (score_changed \/ W # {})
(* update_bitmap_score: e takes the slots W.  Who lost its last slot gives *)
(* up its trace_mini; e itself does so, for a moment, when it retakes its  *)
(* only slot before it takes another.                                      *)
Take(e, W, t) ==
  /\ top_rated' = [i \in Slot |-> IF i \in W THEN e ELSE top_rated[i]]
  /\ tc_ref' = [p \in Item |->
       tc_ref[p] - Cardinality(W \cap Holds(p))
         + (IF p = e THEN Cardinality(W) ELSE 0)]
  /\ trace_mini' = [p \in Item |->
       IF p = e
       THEN IF W # {} /\ (trace_mini[e] = {}
                           \/ (tc_ref[e] = 1 /\ top_rated[Min(W)] = e))
            THEN t ELSE trace_mini[e]
       ELSE IF W \cap Holds(p) # {} /\ tc_ref'[p] = 0
            THEN {} ELSE trace_mini[p]]
  /\ score_changed' = (score_changed \/ W # {})

update_bitmap_score(r, e) == Take(e, Won(r, e), r[e].trace)

(* calibrate_case without and with a failure *)
Calibrated(r, e, f) == [r EXCEPT ![e].cal_failed = 0, ![e].fav_factor = f]
CalFailed(r, e)     == [r EXCEPT ![e].cal_failed = @ + 1]

-----------------------------------------------------------------------------
(* New entries                                                             *)

(* perform_dry_run of the next seed: calibrated, or disabled because it    *)
(* crashes or times out.                                                   *)
SeedWorks ==
  /\ pc = "dry_run" /\ queued_items < MaxSeeds /\ queued_items < MaxItems
  /\ \E t \in Trace \ {{}}, f \in 1 .. MaxFactor :
       LET e == queued_items
           r == [q EXCEPT ![e] = Fresh(t, f)]
       IN /\ q' = r
          /\ update_bitmap_score(r, e)
  /\ queued_items' = queued_items + 1
  /\ pending_not_fuzzed' = pending_not_fuzzed + 1
  /\ active_items' = active_items + 1
  /\ UNCHANGED <<pc, selection, queue_cur, cycle, rescore, rounds, resumes>>

SeedFails ==
  /\ pc = "dry_run" /\ queued_items < MaxSeeds /\ queued_items < MaxItems
  /\ q' = [q EXCEPT ![queued_items] = [Fresh({}, 1) EXCEPT
             !.cal_failed = 1, !.disabled = TRUE, !.was_fuzzed = TRUE]]
  /\ queued_items' = queued_items + 1
  /\ UNCHANGED <<pc, scores, selection, totals, queue_cur, cycle, rescore,
                 rounds, resumes>>

(* The end of the dry run: of the seeds with the same trace one is kept,   *)
(* the shortest, which need not be the one with the best fav_factor.       *)
Working == {e \in Active : q[e].cal_failed = 0}
Duplicates(K) ==
  {e \in Working \ K : \E k \in K : q[k].trace = q[e].trace}
EndDryRun ==
  /\ pc = "dry_run" /\ Working # {}
  /\ \E K \in SUBSET Working :
       /\ \A e \in Working : \E k \in K : q[k].trace = q[e].trace
       /\ \A j, k \in K : q[j].trace = q[k].trace => j = k
       /\ LET D == Duplicates(K) IN
            /\ q' = [e \in Item |-> IF e \in D
                       THEN [q[e] EXCEPT !.disabled = TRUE,
                                         !.was_fuzzed = TRUE]
                       ELSE q[e]]
            /\ pending_not_fuzzed' = pending_not_fuzzed - Cardinality(D)
            /\ active_items' = active_items - Cardinality(D)
  /\ pc' = "cull"
  /\ UNCHANGED <<queued_items, scores, selection, queue_cur, cycle, rescore,
                 rounds, resumes>>

(* "We need at least one valid input seed that does not crash!" *)
NoSeeds ==
  /\ pc = "dry_run" /\ queued_items > 0 /\ Working = {}
  /\ pc' = "fatal"
  /\ UNCHANGED <<queued_items, q, scores, selection, totals, queue_cur, cycle,
                 rescore, rounds, resumes>>

(* save_if_interesting for a find of the fuzzer's own or of a peer:        *)
(* add_to_queue, calibrate_case.  An entry that could not be calibrated    *)
(* has no exec_us, hence the fav_factor 0.                                 *)
Find ==
  /\ pc \in {"fuzz", "sync"} /\ queued_items < MaxItems
  /\ \E t \in Trace \ {{}}, f \in 0 .. MaxFactor :
       LET e == queued_items
           r == [q EXCEPT ![e] = Fresh(t, f)]
       IN \/ /\ f > 0
             /\ q' = r
             /\ update_bitmap_score(r, e)
          \/ /\ f = 0
             /\ q' = CalFailed(r, e)
             /\ UNCHANGED scores
  /\ queued_items' = queued_items + 1
  /\ pending_not_fuzzed' = pending_not_fuzzed + 1
  /\ active_items' = active_items + 1
  /\ UNCHANGED <<pc, selection, queue_cur, cycle, rescore, rounds, resumes>>

-----------------------------------------------------------------------------
(* cull_queue                                                              *)

WholeByteCovered(s, i) ==                                         \* mutant
  LET e == top_rated[i] IN
    IF e # None /\ i \in s.temp_v /\ trace_mini[e] # {}
    THEN [temp_v |-> {}, picked |-> s.picked \cup {e}]
    ELSE s
(* One step of the loop over top_rated: temp_v holds the slots that are    *)
(* not covered yet, picked the entries used to cover.                      *)
Visit(s, i) ==
  LET e == top_rated[i] IN
    IF e # None /\ i \in s.temp_v /\ trace_mini[e] # {}
    THEN [temp_v |-> s.temp_v \ trace_mini[e], picked |-> s.picked \cup {e}]
    ELSE s

(* The loop before it comes to slot i *)
Sweep[i \in 0 .. MapSize] ==
  IF i = 0 THEN [temp_v |-> Slot, picked |-> {}] ELSE Visit(Sweep[i - 1], i - 1)

(* tightness_novel after its decay *)
StillNovel(e) ==
  q[e].tightness_novel /\ queue_cycle - q[e].tightness_novel_cycle < NovelCycles

Cull ==
  /\ pc = "cull" /\ score_changed
  /\ LET picked  == {e \in Queued : /\ e \in Sweep[MapSize].picked
                                    /\ ~q[e].disabled}
         favored == picked \cup {e \in Queued : StillNovel(e)}
         pending == {e \in picked : ~StillNovel(e) /\ ~q[e].was_fuzzed}
         (* mark_as_redundant: for entries that are not disabled *)
         freshly == {e \in Queued \ favored :
                       ~q[e].disabled /\ ~q[e].fs_redundant}
     IN /\ q' = [e \in Item |-> IF e \notin Queued THEN q[e]
                  ELSE [q[e] EXCEPT
                    !.favored = e \in favored,
                    !.fs_redundant = IF q[e].disabled THEN @ ELSE e \notin favored,
                    !.disabled = @ \/ (DisableRedundant /\ e \in freshly),
                    !.tightness_novel = StillNovel(e),
                    !.tightness_novel_cycle = IF StillNovel(e) THEN @ ELSE 0]]
        /\ trace_mini' = [e \in Item |->
                            IF e \in freshly THEN {} ELSE trace_mini[e]]
        /\ pending_favored' = Cardinality(pending)
        /\ smallest_favored' \in
             IF pending = {} THEN {None}
             ELSE {e \in pending : \A d \in pending : e <= d}
  /\ score_changed' = FALSE
  /\ pc' = "cycle"
  /\ UNCHANGED <<queued_items, tc_ref, top_rated, totals, queue_cur, cycle,
                 rescore, rounds, resumes>>

NothingToCull ==
  /\ pc = "cull" /\ ~score_changed
  /\ pc' = "cycle"
  /\ UNCHANGED <<queued_items, q, scores, selection, totals, queue_cur, cycle,
                 rescore, rounds, resumes>>

-----------------------------------------------------------------------------
(* afl_advance_queue_cycle                                                 *)

SameCycle ==
  /\ pc = "cycle" /\ runs_in_current_cycle <= queued_items
  /\ runs_in_current_cycle' = (runs_in_current_cycle + 1) % (UINT_MAX + 1)
  /\ pc' = "select"
  /\ UNCHANGED <<queued_items, q, scores, selection, totals, queue_cur,
                 queue_cycle, rescore, rounds, resumes>>

(* A new cycle.  With AFL_CYCLE_SCHEDULES recalculate_all_scores runs the  *)
(* entries it has not run yet and lists them as candidates of the slots in *)
(* their traces, then compares all candidates again.                       *)
NewCycle ==
  /\ pc = "cycle" /\ runs_in_current_cycle > queued_items
  /\ queue_cycle' = queue_cycle + 1
  /\ runs_in_current_cycle' = 0
  /\ IF CycleSchedules
     THEN LET new == {e \in last_scored_idx + 1 .. queued_items - 1 :
                        ~q[e].disabled}
          IN /\ scored' = scored \cup new
             /\ last_scored_idx' = queued_items - 1
             /\ trace_bits' \in Trace \ {{}}
             /\ \A e \in new : (\A d \in new : d <= e) => trace_bits' = q[e].trace
             /\ todo' = {x \in Slot \X scored' : x[1] \in q[x[2]].trace}
             /\ pc' = "rescore"
             /\ UNCHANGED rescored
     ELSE /\ pc' = "select"
          /\ UNCHANGED rescore
  /\ UNCHANGED <<queued_items, q, scores, selection, totals, queue_cur,
                 rounds, resumes>>

(* update_bitmap_rescore for the next candidate, by slot and by id.  A     *)
(* winner without trace_mini is given what trace_bits holds, which is the  *)
(* trace of the entry run last.                                            *)
Sooner(x, y) == x[1] < y[1] \/ (x[1] = y[1] /\ x[2] <= y[2])
Rescore ==
  /\ pc = "rescore" /\ todo # {}
  /\ \E x \in todo :
       /\ \A y \in todo : Sooner(x, y)
       /\ Take(x[2], Won(q, x[2]) \cap {x[1]}, trace_bits)
       /\ todo' = todo \ {x}
  /\ rescored' = TRUE
  /\ UNCHANGED <<pc, queued_items, q, selection, totals, queue_cur, cycle,
                 scored, last_scored_idx, trace_bits, rounds, resumes>>

EndRescore ==
  /\ pc = "rescore" /\ todo = {}
  /\ trace_bits' = {}     \* the next run of the target overwrites it
  /\ pc' = "select"
  /\ UNCHANGED <<queued_items, q, scores, selection, totals, queue_cur, cycle,
                 scored, last_scored_idx, todo, rescored, rounds, resumes>>

-----------------------------------------------------------------------------
(* afl_fuzz_queue and fuzz_one_original                                    *)

Favorite == pending_favored > 0 /\ smallest_favored # None
SelectFavorite ==
  /\ pc = "select" /\ rounds < MaxRounds /\ Favorite
  /\ queue_cur' = smallest_favored
  /\ pc' = "chosen"
  /\ UNCHANGED <<queued_items, q, scores, selection, totals, cycle, rescore,
                 rounds, resumes>>

(* The alias table never yields a disabled entry. *)
SelectAlias ==
  /\ pc = "select" /\ rounds < MaxRounds /\ ~Favorite
  /\ queue_cur' \in Active
  /\ pc' = "chosen"
  /\ UNCHANGED <<queued_items, q, scores, selection, totals, cycle, rescore,
                 rounds, resumes>>

(* create_alias_table finds no active entry: stop_soon = 2 *)
NothingActive ==
  /\ pc = "select" /\ ~Favorite /\ Active = {}
  /\ pc' = "stopped"
  /\ UNCHANGED <<queued_items, q, scores, selection, totals, queue_cur, cycle,
                 rescore, rounds, resumes>>

SmallestNotReset(r, skipped) ==                                   \* mutant
  LET e == queue_cur
      first == r[e].cal_failed = 0 /\ ~r[e].was_fuzzed /\ ~r[e].disabled
  IN /\ q' = [r EXCEPT ![e].was_fuzzed = @ \/ first,
                        ![e].fuzz_level = IF @ < MaxLevel THEN @ + 1 ELSE @]
     /\ pending_not_fuzzed' = IF first THEN Reduced(pending_not_fuzzed)
                                       ELSE pending_not_fuzzed
     /\ UNCHANGED selection
     /\ rounds' = IF skipped THEN rounds ELSE rounds + 1
     /\ pc' = IF skipped THEN "select" ELSE "sync"
(* abandon_entry, with q = r so far.  A skipped entry makes afl_fuzz_queue *)
(* choose again.                                                           *)
abandon_entry(r, skipped) ==
  LET e == queue_cur
      first == r[e].cal_failed = 0 /\ ~r[e].was_fuzzed /\ ~r[e].disabled
  IN /\ q' = [r EXCEPT ![e].was_fuzzed = @ \/ first,
                        ![e].fuzz_level = IF @ < MaxLevel THEN @ + 1 ELSE @]
     /\ pending_not_fuzzed' = IF first THEN Reduced(pending_not_fuzzed)
                                       ELSE pending_not_fuzzed
     /\ IF first /\ r[e].favored
        THEN /\ pending_favored' = Reduced(pending_favored)
             /\ smallest_favored' = None
        ELSE UNCHANGED selection
     /\ rounds' = IF skipped THEN rounds ELSE rounds + 1
     /\ pc' = IF skipped THEN "select" ELSE "sync"

RefusesWithoutAbandon ==                                          \* mutant
  /\ pc = "chosen" /\ CustomMutator
  /\ pc' = "select"
  /\ UNCHANGED <<queued_items, q, scores, selection, totals, queue_cur, cycle,
                 rescore, rounds, resumes>>
(* afl_custom_queue_get, asked first, refuses the entry. *)
CustomRefuses ==
  /\ pc = "chosen" /\ CustomMutator
  /\ abandon_entry(q, TRUE)
  /\ UNCHANGED <<queued_items, scores, active_items, queue_cur, cycle, rescore,
                 resumes>>

(* It accepts, or there is none. *)
CustomAccepts ==
  /\ pc = "chosen"
  /\ pc' = "dice"
  /\ UNCHANGED <<queued_items, q, scores, selection, totals, queue_cur, cycle,
                 rescore, rounds, resumes>>

(* The dice decide against the entry: fuzz_one returns at once. *)
MayBeSkipped(e) ==
  IF pending_favored > 0 THEN q[e].fuzz_level > 0 \/ ~q[e].favored
  ELSE ~q[e].favored /\ queued_items > SkipAbove
Skip ==
  /\ pc = "dice" /\ MayBeSkipped(queue_cur)
  /\ pc' = "select"
  /\ UNCHANGED <<queued_items, q, scores, selection, totals, queue_cur, cycle,
                 rescore, rounds, resumes>>

(* An entry that was never calibrated gets another chance first; when that *)
(* fails, or shows nothing new (FSRV_RUN_NOBITS), or the chances are used  *)
(* up, the entry is abandoned.                                             *)
Recalibrate ==
  /\ pc = "dice" /\ q[queue_cur].cal_failed \in 1 .. CAL_CHANCES - 1
  /\ \/ /\ abandon_entry(CalFailed(q, queue_cur), TRUE)
        /\ UNCHANGED scores
     \/ \E f \in 1 .. MaxFactor :
          LET r == Calibrated(q, queue_cur, f) IN
            /\ update_bitmap_score(r, queue_cur)
            /\ \/ abandon_entry(r, TRUE)
               \/ /\ q' = r /\ pc' = "trim"
                  /\ UNCHANGED <<selection, pending_not_fuzzed, rounds>>
  /\ UNCHANGED <<queued_items, active_items, queue_cur, cycle, rescore,
                 resumes>>

OutOfChances ==
  /\ pc = "dice" /\ q[queue_cur].cal_failed >= CAL_CHANCES
  /\ abandon_entry(q, TRUE)
  /\ UNCHANGED <<queued_items, scores, active_items, queue_cur, cycle, rescore,
                 resumes>>

Proceed ==
  /\ pc = "dice" /\ q[queue_cur].cal_failed = 0
  /\ pc' = "trim"
  /\ UNCHANGED <<queued_items, q, scores, selection, totals, queue_cur, cycle,
                 rescore, rounds, resumes>>

(* trim_case, once for each entry: a shorter test case with the same trace *)
(* is scored again.                                                        *)
Trim ==
  /\ pc = "trim"
  /\ LET e == queue_cur IN
       \/ /\ ~q[e].trim_done
          /\ \E f \in 1 .. q[e].fav_factor - 1 :
               LET r == [q EXCEPT ![e].fav_factor = f, ![e].trim_done = TRUE]
               IN q' = r /\ update_bitmap_score(r, e)
       \/ /\ q' = [q EXCEPT ![e].trim_done = TRUE]
          /\ UNCHANGED scores
  /\ pc' = "fuzz"
  /\ UNCHANGED <<queued_items, selection, totals, queue_cur, cycle, rescore,
                 rounds, resumes>>

(* collect_tightness_minima finds a new minimum for the current entry. *)
Novel ==
  /\ pc = "fuzz" /\ Tightness
  /\ q' = [q EXCEPT ![queue_cur].tightness_novel = TRUE,
                    ![queue_cur].tightness_novel_cycle = queue_cycle,
                    ![queue_cur].favored = TRUE]
  /\ UNCHANGED <<pc, queued_items, scores, selection, totals, queue_cur, cycle,
                 rescore, rounds, resumes>>

(* The stages are over, or (perf_score 0, skip requested) were not gone    *)
(* through.                                                                *)
EndFuzz ==
  /\ pc = "fuzz"
  /\ \E skipped \in BOOLEAN : abandon_entry(q, skipped)
  /\ UNCHANGED <<queued_items, scores, active_items, queue_cur, cycle, rescore,
                 resumes>>

EndRound ==
  /\ pc = "sync"
  /\ pc' = "cull"
  /\ UNCHANGED <<queued_items, q, scores, selection, totals, queue_cur, cycle,
                 rescore, rounds, resumes>>

-----------------------------------------------------------------------------
(* Stop and restart                                                        *)

(* The user stops the fuzzer in the middle of a stage: the entry is        *)
(* abandoned, and counts as not fuzzed.                                    *)
StopsInStage ==
  /\ pc \in {"trim", "fuzz"}
  /\ q' = [q EXCEPT ![queue_cur].fuzz_level = IF @ < MaxLevel THEN @ + 1 ELSE @]
  /\ pc' = "stopped"
  /\ UNCHANGED <<queued_items, scores, selection, totals, queue_cur, cycle,
                 rescore, rounds, resumes>>

(* The user stops the fuzzer between two entries. *)
Stop ==
  /\ pc \in {"cull", "select"}
  /\ pc' = "stopped"
  /\ UNCHANGED <<queued_items, q, scores, selection, totals, queue_cur, cycle,
                 rescore, rounds, resumes>>

(* afl_load_seeds from fastresume.bin: the entries come back with tc_ref   *)
(* and trace_mini, the slots they held do not (update_bitmap_score without *)
(* a trace does nothing), and the counters are counted again.              *)
FastResume ==
  /\ pc = "stopped" /\ resumes < MaxResumes
  /\ resumes' = resumes + 1
  /\ q' = [e \in Item |-> [q[e] EXCEPT !.tightness_novel_cycle = 0]]
  /\ top_rated' = [i \in Slot |-> None] /\ score_changed' = FALSE
  /\ pending_favored' = Cardinality(Pending) /\ smallest_favored' = None
  /\ pending_not_fuzzed' = Cardinality(Unfuzzed \cap Active)
  /\ active_items' = Cardinality(Active)
  /\ queue_cur' = None /\ queue_cycle' = 0
  /\ runs_in_current_cycle' = UINT_MAX
  /\ scored' = {} /\ last_scored_idx' = -1 /\ trace_bits' = {}
  /\ pc' = "cull"
  /\ UNCHANGED <<queued_items, tc_ref, trace_mini, todo, rescored, rounds>>

Next ==
  \/ SeedWorks \/ SeedFails \/ EndDryRun \/ NoSeeds \/ Find
  \/ Cull \/ NothingToCull
  \/ SameCycle \/ NewCycle \/ Rescore \/ EndRescore
  \/ SelectFavorite \/ SelectAlias \/ NothingActive
  \/ CustomRefuses \/ CustomAccepts \/ Skip \/ Recalibrate \/ OutOfChances
  \/ Proceed \/ Trim \/ Novel \/ EndFuzz \/ EndRound
  \/ Stop \/ StopsInStage \/ FastResume

Spec == Init /\ [][Next]_vars

(* The main loop goes on as long as it can, a stage ends, and the dice do  *)
(* not decide against an entry for ever; a custom mutator may refuse one   *)
(* for ever.                                                               *)
FairSpec ==
  /\ Spec /\ WF_vars(Next) /\ WF_vars(EndFuzz)
  /\ SF_vars(Recalibrate \/ OutOfChances \/ Proceed)

-----------------------------------------------------------------------------
(* Properties                                                              *)

TypeOK ==
  /\ pc \in {"dry_run", "fatal", "cull", "cycle", "rescore", "select",
             "chosen", "dice", "trim", "fuzz", "sync", "stopped"}
  /\ queued_items \in 0 .. MaxItems
  /\ q \in [Item -> Entry]
  /\ tc_ref \in [Item -> Nat] /\ trace_mini \in [Item -> Trace]
  /\ top_rated \in [Slot -> Item \cup {None}] /\ score_changed \in BOOLEAN
  /\ {pending_favored, pending_not_fuzzed, active_items, queue_cycle,
      runs_in_current_cycle, rounds, resumes} \subseteq Nat
  /\ {smallest_favored, queue_cur, last_scored_idx} \subseteq Item \cup {None}
  /\ scored \subseteq Item /\ trace_bits \in Trace
  /\ todo \subseteq Slot \X Item /\ rescored \in BOOLEAN

(* tc_ref never counts fewer slots than the entry holds, so that it cannot *)
(* wrap and trace_mini is not given up too early; until a fast resume,     *)
(* which restores tc_ref without the slots, it counts them exactly.        *)
TcRefCountsSlots ==
  \A e \in Item :
    /\ tc_ref[e] >= Cardinality(Holds(e))
    /\ resumes = 0 => tc_ref[e] = Cardinality(Holds(e))

(* A trace is kept only for an entry that holds a slot, and it is the      *)
(* trace of that entry as long as recalculate_all_scores, which copies the *)
(* trace of another, has not been at work.                                 *)
MiniKept ==
  \A e \in Item : trace_mini[e] # {} =>
    tc_ref[e] > 0 /\ (~rescored => trace_mini[e] = q[e].trace)

(* smallest_favored, which afl_fuzz_queue prefers to everything else, is a *)
(* favored entry that was not fuzzed yet, and as long as it is set         *)
(* pending_favored counts such entries; only those favored for their       *)
(* tightness may be missing from the count.                                *)
SmallestIsPending ==
  LET counted == {e \in Pending : ~q[e].tightness_novel} IN
    smallest_favored # None =>
      /\ smallest_favored \in Pending \cap Active
      /\ \A e \in counted : smallest_favored <= e
      /\ pending_favored \in Cardinality(counted) .. Cardinality(Pending)

Spared == {e \in Queued : q[e].disabled /\ q[e].fs_redundant}

(* pending_not_fuzzed and active_items, which the statistics and           *)
(* fuzz_one's perf_score rule read, agree with the flags of the entries.   *)
(* Entries that AFL_DISABLE_REDUNDANT disables stay in both counts until a *)
(* fast resume counts again.                                               *)
CountsAgree ==
  /\ pending_not_fuzzed \in
       Cardinality(Unfuzzed \cap Active) .. Cardinality(Unfuzzed)
  /\ active_items \in Cardinality(Active) .. Cardinality(Active \cup Spared)
  /\ resumes = 0 => /\ pending_not_fuzzed = Cardinality(Unfuzzed)
                    /\ active_items = Cardinality(Active \cup Spared)

(* cull_queue leaves no slot uncovered whose best entry still has its      *)
(* trace: that entry is favored, or the kept trace of a favored entry      *)
(* covers the slot; a disabled entry may take the place of a favored one.  *)
CullCovers ==
  [][pc = "cull" /\ score_changed /\ pc' = "cycle" =>
       \A i \in Slot :
         top_rated[i] # None /\ trace_mini[top_rated[i]] # {} =>
           \E e \in Queued : /\ top_rated[i] = e \/ i \in trace_mini[e]
                             /\ q'[e].favored \/ q[e].disabled]_vars

Insists(e) == pc = "select" /\ Favorite /\ smallest_favored = e

(* A calibrated entry that afl_fuzz_queue insists on (smallest_favored) is *)
(* fuzzed, whatever the dice and the custom mutator say.                   *)
ChosenIsFuzzed ==
  \A e \in Item :
    Insists(e) /\ q[e].cal_failed = 0
      ~> q[e].was_fuzzed \/ pc = "stopped"

(* The same of every entry: fuzz_one abandons what it does not fuzz, so    *)
(* that afl_fuzz_queue is not caught in an infinite loop over              *)
(* smallest_favored (comment at afl-fuzz-one.c:348).                       *)
NoSpinning ==
  \A e \in Item : Insists(e) ~> q[e].was_fuzzed \/ pc = "stopped"

=============================================================================
