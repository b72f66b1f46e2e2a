--------------------------- MODULE TestcaseCache ---------------------------
(***************************************************************************)
(* The test case cache of afl-fuzz: an array of queue entries whose files  *)
(* are kept in memory.  queue_testcase_get() returns the bytes of an entry *)
(* and may load them into the cache, evicting others; the main loop,       *)
(* fuzz_one() and trim_case() hold the pointer it returned while other     *)
(* entries are loaded, stored, shortened or evicted.                       *)
(*                                                                         *)
(* The eviction loop of queue_testcase_get() takes one step per eviction.  *)
(* Bytes are abstracted to lengths, a pointer to where it points, and the  *)
(* weight create_alias_table gives an entry to a choice at each get.       *)
(***************************************************************************)
EXTENDS Integers, FiniteSets, FiniteSetsExt

CONSTANTS
  MaxItems,     \* bound: entries the queue may come to hold
  MaxLen,       \* MAX_FILE: the longest test case
  NewLens,      \* bound: the lengths of seeds and finds
  Page,         \* 4096: buffers shortened by no more than this stay as they are
  MaxSize,      \* q_testcase_max_cache_size
  MaxEntries,   \* bound: q_testcase_max_cache_entries as configured
  SizeMod,      \* 2^64: q_testcase_cache_size is an unsigned number
  Trimmers,     \* the ways to trim the session may be configured for
  PostGrows     \* may a post-processor return more than the entry had?

ASSUME CacheAssumption ==
  /\ MaxItems \in Nat \ {0}
  /\ MaxLen \in Nat \ {0}
  /\ NewLens \subseteq 1 .. MaxLen
  /\ Page \in Nat
  /\ MaxSize \in Nat
  /\ MaxSize # 0 => MaxSize >= 2 * MaxLen
  /\ MaxEntries \in Nat
  /\ SizeMod \in Nat \ {0}
  /\ Trimmers \subseteq {"builtin", "custom"}
  /\ PostGrows \in BOOLEAN

\* queued_items is a u32 and MAX_FILE is 2^20, so all test cases of a queue, counted
\* twice, are far from 2^64 bytes
ASSUME SizeAssumption == SizeMod > 2 * (MaxItems * MaxLen)

VARIABLES
  queued_items,     \* the entries are 1 .. queued_items
  len,              \* q->len
  trim_done,        \* the entries fuzz_one has trimmed
  testcase_buf,     \* the entries whose q->testcase_buf is not NULL
  cache,            \* q_testcase_cache: slot -> entry, 0 for NULL
  cache_size, cache_count, max_cache_count, max_cache_entries,
  smallest_free, do_once,
  queue_cur,        \* the entry being fuzzed, 0 for NULL
  in_buf,           \* where fuzz_one's in_buf points
  stage,            \* where the main loop and fuzz_one are
  want, tid,        \* queue_testcase_get: the entry it loads (0: none), its tid
  trimmer           \* the session's way to trim

book == <<cache, cache_size, cache_count, max_cache_count, smallest_free,
          testcase_buf>>
limit == <<max_cache_entries, do_once>>
queue == <<queued_items, len, trim_done, trimmer>>
vars == <<book, limit, queue, queue_cur, in_buf, stage, want, tid>>

Entry == 1 .. MaxItems
Slot == 0 .. MaxEntries - 1
Queued == 1 .. queued_items
Len == 1 .. MaxLen

TypeOK ==
  /\ queued_items \in Entry
  /\ len \in [Entry -> Len]
  /\ trim_done \subseteq Queued
  /\ testcase_buf \subseteq Queued
  /\ cache \in [Slot -> Queued \cup {0}]
  /\ cache_size \in 0 .. SizeMod - 1
  /\ cache_count \in 0 .. MaxEntries
  /\ max_cache_count \in 0 .. MaxEntries
  /\ max_cache_entries \in 0 .. MaxEntries
  /\ smallest_free \in 0 .. MaxEntries
  /\ do_once \in BOOLEAN
  /\ queue_cur \in Queued \cup {0}
  /\ in_buf \in {"none", "cached", "own", "freed"}
  /\ stage \in {"select", "start", "got", "retaken", "fuzz"}
  /\ want \in Queued \cup {0}
  /\ tid \in 0 .. MaxEntries
  /\ trimmer \in Trimmers

----------------------------------------------------------------------------
(* Slots. *)

Occupied == {t \in Slot : cache[t] # 0}

\* where a search that starts at slot t ends: at the first slot that is free,
\* or at n, the number of slots in use
FirstFree(t, n) ==
  {u \in t .. t + n : /\ u >= n \/ cache[u] = 0
                      /\ \A v \in t .. u - 1 : v < n /\ cache[v] # 0}

PlaceUnseen(t, n) == {IF t >= n THEN smallest_free ELSE t}           \* mutant

\* the slots to put an entry into, from slot t on ("uh we were full")
Place(t, n) == FirstFree(IF t >= n THEN smallest_free ELSE t, n)

\* the entry q, of length l, is put into slot u
Register(q, u, l) ==
  /\ testcase_buf' = testcase_buf \cup {q}
  /\ cache' = [cache EXCEPT ![u] = q]
  /\ cache_size' = (cache_size + l) % SizeMod
  /\ cache_count' = cache_count + 1
  /\ max_cache_count' = IF u >= max_cache_count THEN u + 1 ELSE max_cache_count
  /\ smallest_free' = IF u < max_cache_count /\ u = smallest_free
                      THEN u + 1 ELSE smallest_free

CountFull == max_cache_entries > 0 /\ cache_count >= max_cache_entries - 1
SizeFull(l) == cache_size + l >= MaxSize

----------------------------------------------------------------------------
(* queue_testcase_get *)

\* the entries the caller may ask for: fuzz_one its own, before and after
\* trimming; splicing, the custom mutators and frameshift any;
\* recalculate_all_scores any
Wanted ==
  CASE stage \in {"start", "retaken"} -> {queue_cur}
    [] stage \in {"select", "fuzz"} -> Queued
    [] OTHER -> {}

\* the caller goes on with the bytes it asked for
Returned(b) ==
  /\ stage' = CASE stage = "start" -> "got"
                [] stage = "retaken" -> "fuzz"
                [] OTHER -> stage
  /\ in_buf' = IF stage \in {"start", "retaken"} THEN b ELSE in_buf

GetCached ==
  /\ want = 0
  /\ Wanted \cap testcase_buf # {}
  /\ Returned("cached")
  /\ UNCHANGED <<book, limit, queue, queue_cur, want, tid>>

\* no cache, or the entry's weight is below 1.0: a buffer of the caller's
GetUncached ==
  /\ want = 0
  /\ Wanted \ testcase_buf # {}
  /\ Returned("own")
  /\ UNCHANGED <<book, limit, queue, queue_cur, want, tid>>

GetMiss ==
  /\ want = 0
  /\ MaxSize # 0
  /\ want' \in Wanted \ testcase_buf
  /\ tid' = max_cache_count
  /\ UNCHANGED <<book, limit, queue, queue_cur, in_buf, stage>>

\* the condition of the eviction loop
MustEvict ==
  \/ SizeFull(len[want]) /\ cache_count > 1
  \/ CountFull

\* "once the cache is filled by size - that is the max"
Learns ==
  /\ SizeFull(len[want])
  /\ cache_count < max_cache_entries
  /\ max_cache_count < max_cache_entries
  /\ ~do_once

LearnedEntries ==
  IF Learns
  THEN 1 + (IF max_cache_count > cache_count THEN max_cache_count
            ELSE cache_count)
  ELSE max_cache_entries

AnyCached == {t \in Slot : t < max_cache_count /\ cache[t] # 0}     \* mutant

\* the slots the random search, or the scan after it, may come up with
Evictable == {t \in Slot : t < max_cache_count /\ cache[t] \notin {0, queue_cur}}

HintStays(t) == smallest_free                                        \* mutant

LowestFree(t) == IF t < smallest_free THEN t ELSE smallest_free

Evict ==
  /\ want # 0
  /\ MustEvict
  /\ max_cache_entries' = LearnedEntries
  /\ do_once' = (do_once \/ Learns)
  /\ \E t \in Evictable :
       /\ tid' = t
       /\ testcase_buf' = testcase_buf \ {cache[t]}
       /\ in_buf' = IF cache[t] = queue_cur /\ in_buf = "cached"
                    THEN "freed" ELSE in_buf
       /\ cache_size' = (cache_size - len[cache[t]]) % SizeMod
       /\ cache' = [cache EXCEPT ![t] = 0]
       /\ smallest_free' = LowestFree(t)
  /\ cache_count' = cache_count - 1
  /\ UNCHANGED <<max_cache_count, queue, queue_cur, stage, want>>

\* the entry is put into a slot found from slot t on, or read into a buffer of
\* the caller's when there is none
Load(t, n) ==
  /\ \E u \in Place(t, n) :
       \/ u >= n /\ Returned("own") /\ UNCHANGED book
       \/ u < n /\ Returned("cached") /\ Register(want, u, len[want])
  /\ want' = 0
  /\ tid' = 0
  /\ UNCHANGED <<queue, queue_cur>>

LoadIntoSpace ==
  /\ want # 0
  /\ ~MustEvict
  /\ Load(tid, max_cache_entries)
  /\ UNCHANGED limit

SearchesAgain ==                                                     \* mutant
  want # 0 /\ MustEvict /\ Evictable = {} /\ UNCHANGED vars

\* "Only queue_cur is cached; nothing to evict": tid is the last random slot
NothingToEvict ==
  /\ want # 0
  /\ MustEvict
  /\ Evictable = {}
  /\ max_cache_entries' = LearnedEntries
  /\ do_once' = (do_once \/ Learns)
  /\ \E t \in 0 .. (IF max_cache_count = 0 THEN 0 ELSE max_cache_count - 1) :
       Load(t, LearnedEntries)

----------------------------------------------------------------------------
(* trim_case and the two ways it has the cache follow *)

\* fuzz_one has trimmed its entry to length l; afterwards it asks for the
\* bytes again
Trimmed(l) ==
  /\ want = 0
  /\ stage = "got"
  /\ queue_cur \notin trim_done
  /\ len' = [len EXCEPT ![queue_cur] = l]
  /\ trim_done' = trim_done \cup {queue_cur}
  /\ stage' = "retaken"
  /\ UNCHANGED <<queued_items, trimmer, limit, queue_cur, want, tid, cache,
                 cache_count, max_cache_count, smallest_free, testcase_buf>>

GrowsUncounted(l) ==                                                 \* mutant
  /\ cache_size' = (cache_size + (IF l > len[queue_cur] THEN 0
                                  ELSE l - len[queue_cur])) % SizeMod
  /\ in_buf' = IF in_buf = "cached" THEN "freed" ELSE in_buf

\* the entry's buffer has been reallocated: where it was is no longer valid
Reallocated(l) ==
  /\ cache_size' = (cache_size + l - len[queue_cur]) % SizeMod
  /\ in_buf' = IF in_buf = "cached" THEN "freed" ELSE in_buf

\* in_buf is shortened in place.  When it is the entry's buffer,
\* queue_testcase_retake_mem finds in == q->testcase_buf and does nothing; so
\* it does when the entry is not cached
TrimInPlace(l) ==
  /\ trimmer = "builtin"
  /\ Trimmed(l)
  /\ l <= len[queue_cur]
  /\ UNCHANGED <<cache_size, in_buf>>

\* a post-processor put what the built-in trimmer left into another buffer:
\* queue_testcase_retake_mem copies it, reallocating if that saves memory
TrimPostProcessed(l) ==
  /\ trimmer = "builtin"
  /\ Trimmed(l)
  /\ l <= len[queue_cur] \/ PostGrows
  /\ IF queue_cur \in testcase_buf /\ l + Page < len[queue_cur]
     THEN Reallocated(l)
     ELSE UNCHANGED <<cache_size, in_buf>>

\* a custom mutator wrote another file, of any length: queue_testcase_retake
TrimCustom(l) ==
  /\ trimmer = "custom"
  /\ Trimmed(l)
  /\ IF /\ queue_cur \in testcase_buf
        /\ l > len[queue_cur] \/ l + Page < len[queue_cur]
     THEN Reallocated(l)
     ELSE UNCHANGED <<cache_size, in_buf>>

----------------------------------------------------------------------------
(* The main loop and fuzz_one *)

\* afl_fuzz_queue takes an entry
Choose ==
  /\ want = 0
  /\ stage = "select"
  /\ queue_cur' \in Queued
  /\ stage' = "start"
  /\ UNCHANGED <<book, limit, queue, in_buf, want, tid>>

\* the entry has been trimmed in an earlier round
AlreadyTrimmed ==
  /\ want = 0
  /\ stage = "got"
  /\ queue_cur \in trim_done
  /\ stage' = "fuzz"
  /\ UNCHANGED <<book, limit, queue, queue_cur, in_buf, want, tid>>

\* abandon_entry, after a failed calibration or at the end of fuzz_one
Abandon ==
  /\ want = 0
  /\ stage \in {"got", "fuzz"}
  /\ stage' = "select"
  /\ in_buf' = "none"
  /\ UNCHANGED <<book, limit, queue, queue_cur, want, tid>>

\* save_if_interesting, of a mutation or of a test case of another node, adds
\* an entry of length l; queue_testcase_store_mem caches it if there is space
Store(l) ==
  /\ want = 0
  /\ stage \in {"select", "fuzz"}
  /\ queued_items < MaxItems
  /\ queued_items' = queued_items + 1
  /\ len' = [len EXCEPT ![queued_items + 1] = l]
  /\ IF MaxSize = 0 \/ SizeFull(l) \/ CountFull
     THEN UNCHANGED book
     ELSE \E u \in Place(max_cache_count, max_cache_entries) :
            \/ u >= max_cache_entries /\ UNCHANGED book
            \/ u < max_cache_entries /\ Register(queued_items + 1, u, l)
  /\ UNCHANGED <<limit, trim_done, trimmer, queue_cur, in_buf, stage, want, tid>>

----------------------------------------------------------------------------
(* The specification *)

Init ==
  /\ queued_items = 1
  /\ \E l \in NewLens : len = [e \in Entry |-> l]
  /\ trim_done = {}
  /\ testcase_buf = {}
  /\ cache = [t \in Slot |-> 0]
  /\ cache_size = 0 /\ cache_count = 0 /\ max_cache_count = 0
  /\ smallest_free = 0
  /\ max_cache_entries \in 0 .. MaxEntries /\ do_once = FALSE
  /\ queue_cur = 0 /\ in_buf = "none" /\ stage = "select"
  /\ want = 0 /\ tid = 0
  /\ trimmer \in Trimmers

queue_testcase_get ==
  GetCached \/ GetUncached \/ GetMiss \/ Evict \/ LoadIntoSpace \/ NothingToEvict

trim_case == \E l \in Len : TrimInPlace(l) \/ TrimPostProcessed(l) \/ TrimCustom(l)

Next ==
  \/ queue_testcase_get
  \/ trim_case
  \/ Choose \/ AlreadyTrimmed \/ Abandon
  \/ \E l \in NewLens : Store(l)

Spec == Init /\ [][Next]_vars

\* a call of queue_testcase_get runs on
FairSpec == Spec /\ WF_vars(Evict \/ LoadIntoSpace \/ NothingToEvict)

----------------------------------------------------------------------------
(* Properties *)

\* The array of slots and the entries' pointers tell the same story: an entry
\* has a buffer exactly when one slot, and only one, names it, and
\* q_testcase_cache_count is the number of such slots.  queue_testcase_get,
\* the eviction in it and queue_testcase_store_mem keep the three apart.
SlotsMatchBuffers ==
  /\ \A e \in Queued : e \in testcase_buf <=> \E t \in Slot : cache[t] = e
  /\ \A s, t \in Occupied : cache[s] = cache[t] => s = t
  /\ cache_count = Cardinality(Occupied)

\* The two hints that spare a search are right: no slot from
\* q_testcase_max_cache_count on is in use, so that the random search for a
\* victim sees every candidate and the array, reallocated when its size is
\* learned, holds them all; and no slot below q_testcase_smallest_free is free.
HintsAreRight ==
  /\ max_cache_count <= max_cache_entries
  /\ \A t \in Occupied : t < max_cache_count
  /\ \A t \in Slot : t < smallest_free => t \in Occupied

\* The buffer fuzz_one works on stays: however many other entries are loaded,
\* stored or evicted meanwhile, and whatever trimming did to it, in_buf points
\* to the buffer of queue_cur or to one of fuzz_one's own.
InBufLives ==
  stage \in {"got", "fuzz"} =>
    \/ in_buf = "own"
    \/ in_buf = "cached" /\ queue_cur \in testcase_buf

\* q_testcase_cache_size never runs below what is in the cache, so that no
\* eviction takes it below zero (u64), however entries were trimmed while cached.
SizeCovers ==
  cache_size >= MapThenSumSet(LAMBDA e : len[e], testcase_buf)

\* Every call of queue_testcase_get that begins to load an entry ends: the
\* eviction loop stops even if all that is cached is the entry in use.
LoadEnds == want # 0 ~> want = 0

============================================================================
