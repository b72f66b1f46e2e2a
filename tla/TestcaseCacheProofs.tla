------------------------ MODULE TestcaseCacheProofs ------------------------
(***************************************************************************)
(* Proofs, for queues, caches and test cases of any size, that the slots   *)
(* of the test case cache and the entries' buffers agree, that the hints   *)
(* the searches start from are right, that the buffer fuzz_one works on is *)
(* never taken from it, that the size does not run below what is cached,   *)
(* and that a load comes to its end.                                       *)
(***************************************************************************)
EXTENDS TestcaseCache, FiniteSetTheorems, WellFoundedInduction, TLAPS

\* Where a call of queue_testcase_get is made from: the main loop has an entry
\* while it is in fuzz_one; what is being loaded is not in the cache; fuzz_one
\* waits for its own entry before and after trimming, for none in between.
Sites ==
  /\ stage # "select" => queue_cur \in Queued
  /\ want # 0 => want \notin testcase_buf /\ stage # "got"
  /\ want # 0 /\ stage \in {"start", "retaken"} => want = queue_cur

\* The inductive invariant.
IInv == TypeOK /\ SlotsMatchBuffers /\ HintsAreRight /\ InBufLives /\ Sites

----------------------------------------------------------------------------
(* Counting slots *)

\* A set of slots is finite and no larger than the array.
LEMMA SlotsFinite ==
  ASSUME NEW S, S \subseteq Slot
  PROVE  IsFiniteSet(S) /\ Cardinality(S) \in 0 .. MaxEntries
<1>1. MaxEntries \in Nat /\ 0 \in Int /\ MaxEntries - 1 \in Int
  BY CacheAssumption
<1>2. IsFiniteSet(0 .. MaxEntries - 1)
  BY <1>1, FS_Interval
<1>3. Cardinality(0 .. MaxEntries - 1) = MaxEntries
  <2>1. Cardinality(0 .. MaxEntries - 1) =
          IF 0 > MaxEntries - 1 THEN 0 ELSE (MaxEntries - 1) - 0 + 1
    BY <1>1, FS_Interval
  <2> QED BY <2>1, <1>1
<1>4. S \subseteq 0 .. MaxEntries - 1
  BY DEF Slot
<1>5. IsFiniteSet(S) /\ Cardinality(S) <= Cardinality(0 .. MaxEntries - 1)
  BY Zenon, <1>2, <1>4, FS_Subset
<1>6. Cardinality(S) \in Nat
  BY <1>5, FS_CardinalityType
<1> QED BY <1>1, <1>3, <1>5, <1>6

\* One slot more or less is one more or less to count.
LEMMA OneSlot ==
  ASSUME NEW S, S \subseteq Slot, NEW t
  PROVE  /\ t \notin S => Cardinality(S \cup {t}) = Cardinality(S) + 1
         /\ t \in S => Cardinality(S \ {t}) = Cardinality(S) - 1
<1>1. IsFiniteSet(S)
  BY SlotsFinite
<1>2. t \notin S => Cardinality(S \cup {t}) = Cardinality(S) + 1
  BY <1>1, FS_AddElement
<1>3. t \in S => Cardinality(S \ {t}) = Cardinality(S) - 1
  BY <1>1, FS_RemoveElement
<1> QED BY <1>2, <1>3

\* q_testcase_cache_size, an unsigned number, stays one.
LEMMA Wraps ==
  ASSUME NEW x \in Int
  PROVE  x % SizeMod \in 0 .. SizeMod - 1
<1>1. SizeMod \in Int /\ SizeMod > 0
  BY CacheAssumption
<1> QED BY <1>1

----------------------------------------------------------------------------
(* Searching and filling slots *)

\* A search for a slot ends at one that is free, or at the limit or above.
LEMMA PlaceIsFree ==
  ASSUME TypeOK, NEW t \in Nat, NEW n \in 0 .. MaxEntries, NEW u \in Place(t, n)
  PROVE  /\ u \in Nat
         /\ u < n => u \in Slot /\ cache[u] = 0
<1>1. smallest_free \in Nat /\ n \in Nat /\ MaxEntries \in Nat /\ n <= MaxEntries
  BY CacheAssumption DEF TypeOK
<1> QED BY <1>1 DEF Place, FirstFree, Slot

\* Putting an entry that is not cached, old or just added, into a free slot
\* keeps the cache in order.
LEMMA Registered ==
  ASSUME IInv, NEW q, NEW u \in Slot, NEW l \in Len,
         queued_items' \in Entry, queued_items <= queued_items',
         max_cache_entries' \in 0 .. MaxEntries,
         u < max_cache_entries', max_cache_count <= max_cache_entries',
         q \in Queued', q \notin testcase_buf, cache[u] = 0, Register(q, u, l)
  PROVE  /\ testcase_buf' \subseteq Queued'
         /\ cache' \in [Slot -> Queued' \cup {0}]
         /\ cache_size' \in 0 .. SizeMod - 1
         /\ cache_count' \in 0 .. MaxEntries
         /\ max_cache_count' \in 0 .. MaxEntries
         /\ smallest_free' \in 0 .. MaxEntries
         /\ SlotsMatchBuffers'
         /\ HintsAreRight'
<1>0. /\ TypeOK /\ SlotsMatchBuffers /\ HintsAreRight
      /\ MaxEntries \in Nat /\ MaxItems \in Nat
  BY CacheAssumption DEF IInv
<1>1. Queued \subseteq Queued' /\ 0 \notin Queued' /\ q # 0
  BY <1>0 DEF TypeOK, Queued, Entry
<1>2. testcase_buf' \subseteq Queued' /\ cache' \in [Slot -> Queued' \cup {0}]
  BY <1>0, <1>1 DEF TypeOK, Register
<1>3. cache_size' \in 0 .. SizeMod - 1
  <2>1. cache_size + l \in Int
    BY <1>0, CacheAssumption DEF TypeOK, Len
  <2> QED BY <2>1, Wraps DEF Register
<1>4. /\ max_cache_count' \in 0 .. MaxEntries
      /\ smallest_free' \in 0 .. MaxEntries
  BY <1>0 DEF TypeOK, Register, Slot
<1>5. Occupied' = Occupied \cup {u} /\ u \notin Occupied
  BY <1>0, <1>1 DEF TypeOK, Register, Occupied
<1>6. /\ cache_count' = Cardinality(Occupied')
      /\ cache_count' \in 0 .. MaxEntries
  <2>1. Occupied \subseteq Slot /\ Occupied' \subseteq Slot
    BY DEF Occupied
  <2>2. Cardinality(Occupied \cup {u}) = Cardinality(Occupied) + 1
    BY <1>5, <2>1, OneSlot
  <2>3. Cardinality(Occupied') = Cardinality(Occupied \cup {u})
    BY <1>5, Zenon
  <2>4. Cardinality(Occupied') \in 0 .. MaxEntries
    BY <2>1, SlotsFinite
  <2>5. cache_count' = Cardinality(Occupied) + 1
    BY <1>0 DEF Register, SlotsMatchBuffers
  <2> QED BY <2>2, <2>3, <2>4, <2>5
<1>7. \A e \in Queued' : e \in testcase_buf' <=> \E t \in Slot : cache'[t] = e
  <2> SUFFICES ASSUME NEW e \in Queued'
               PROVE  e \in testcase_buf' <=> \E t \in Slot : cache'[t] = e
    OBVIOUS
  <2>1. \A t \in Slot : cache'[t] = IF t = u THEN q ELSE cache[t]
    BY <1>0 DEF TypeOK, Register
  <2>2. CASE e = q
    BY <2>1, <2>2 DEF Register
  <2>3. CASE e # q
    <3>1. e \in testcase_buf' <=> e \in testcase_buf
      BY <2>3 DEF Register
    <3>2. e \in testcase_buf <=> \E t \in Slot : cache[t] = e
      <4>1. CASE e \in Queued
        BY <1>0, <4>1 DEF SlotsMatchBuffers
      <4>2. CASE e \notin Queued
        BY <1>0, <1>1, <4>2 DEF TypeOK
      <4> QED BY <4>1, <4>2
    <3>3. e # 0
      BY <1>1
    <3> QED BY <2>1, <2>3, <3>1, <3>2, <3>3
  <2> QED BY <2>2, <2>3
<1>8. \A r, t \in Occupied' : cache'[r] = cache'[t] => r = t
  <2>1. \A t \in Occupied : cache[t] # q /\ cache'[t] = cache[t]
    BY <1>0, <1>5 DEF TypeOK, SlotsMatchBuffers, Occupied, Register
  <2>2. cache'[u] = q
    BY <1>0 DEF TypeOK, Register
  <2> QED BY <1>0, <1>5, <2>1, <2>2 DEF SlotsMatchBuffers
<1>9. SlotsMatchBuffers'
  BY <1>6, <1>7, <1>8 DEF SlotsMatchBuffers
<1>10. HintsAreRight'
  <2>1. /\ u \in Int /\ max_cache_count \in Int /\ smallest_free \in Int
        /\ max_cache_entries' \in Int /\ \A t \in Slot : t \in Int
    BY <1>0 DEF TypeOK, Slot
  <2>2. max_cache_count' = IF u >= max_cache_count THEN u + 1 ELSE max_cache_count
    BY DEF Register
  <2>3. max_cache_count' <= max_cache_entries'
    BY <2>1, <2>2
  <2>4. \A t \in Occupied' : t < max_cache_count'
    <3>1. \A t \in Occupied : t < max_cache_count /\ t \in Int
      BY <1>0, <2>1 DEF HintsAreRight, Occupied
    <3> QED BY <1>5, <2>1, <2>2, <3>1
  <2>5. \A t \in Slot : t < smallest_free' => t \in Occupied'
    <3>1. smallest_free' \in {smallest_free, u + 1}
      BY DEF Register
    <3>2. smallest_free' = u + 1 => u = smallest_free \/ smallest_free' = smallest_free
      BY <2>1 DEF Register
    <3> QED BY <1>0, <1>5, <2>1, <3>1, <3>2 DEF HintsAreRight
  <2> QED BY <2>3, <2>4, <2>5 DEF HintsAreRight
<1> QED BY <1>2, <1>3, <1>4, <1>6, <1>9, <1>10

\* Evicting an entry keeps the cache in order.
LEMMA Evicted ==
  ASSUME IInv, NEW t \in Evictable,
         testcase_buf' = testcase_buf \ {cache[t]},
         cache_size' = (cache_size - len[cache[t]]) % SizeMod,
         cache' = [cache EXCEPT ![t] = 0],
         smallest_free' = LowestFree(t),
         cache_count' = cache_count - 1,
         max_cache_count' = max_cache_count,
         max_cache_entries' \in 0 .. MaxEntries,
         max_cache_count <= max_cache_entries',
         queued_items' = queued_items
  PROVE  /\ testcase_buf' \subseteq Queued
         /\ cache' \in [Slot -> Queued \cup {0}]
         /\ cache_size' \in 0 .. SizeMod - 1
         /\ cache_count' \in 0 .. MaxEntries
         /\ smallest_free' \in 0 .. MaxEntries
         /\ SlotsMatchBuffers'
         /\ HintsAreRight'
<1>0. /\ TypeOK /\ SlotsMatchBuffers /\ HintsAreRight
      /\ MaxEntries \in Nat /\ t \in Slot /\ cache[t] # 0 /\ Queued' = Queued
      /\ cache[t] \in Queued
  BY CacheAssumption DEF IInv, Evictable, Queued, TypeOK
<1>1. testcase_buf' \subseteq Queued /\ cache' \in [Slot -> Queued \cup {0}]
  BY <1>0 DEF TypeOK
<1>2. cache_size' \in 0 .. SizeMod - 1
  <2>1. len[cache[t]] \in Len
    BY <1>0, CacheAssumption DEF TypeOK, Queued, Entry
  <2>2. cache_size - len[cache[t]] \in Int
    BY <1>0, <2>1, CacheAssumption DEF TypeOK, Len
  <2> QED BY <2>2, Wraps
<1>3. smallest_free' \in 0 .. MaxEntries
  BY <1>0 DEF TypeOK, LowestFree, Slot
<1>4. Occupied' = Occupied \ {t} /\ t \in Occupied
  BY <1>0 DEF TypeOK, Occupied
<1>5. cache_count' = Cardinality(Occupied') /\ cache_count' \in 0 .. MaxEntries
  <2>1. Occupied \subseteq Slot /\ Occupied' \subseteq Slot
    BY DEF Occupied
  <2>2. Cardinality(Occupied \ {t}) = Cardinality(Occupied) - 1
    BY <1>4, <2>1, OneSlot
  <2>3. Cardinality(Occupied') = Cardinality(Occupied \ {t})
    BY <1>4, Zenon
  <2>4. Cardinality(Occupied') \in 0 .. MaxEntries
    BY <2>1, SlotsFinite
  <2>5. cache_count' = Cardinality(Occupied) - 1
    BY <1>0 DEF SlotsMatchBuffers
  <2> QED BY <2>2, <2>3, <2>4, <2>5
<1>6. \A r \in Slot : cache'[r] = IF r = t THEN 0 ELSE cache[r]
  BY <1>0 DEF TypeOK
<1>7. \A e \in Queued : e \in testcase_buf' <=> \E r \in Slot : cache'[r] = e
  <2> SUFFICES ASSUME NEW e \in Queued
               PROVE  e \in testcase_buf' <=> \E r \in Slot : cache'[r] = e
    OBVIOUS
  <2>1. e # 0
    BY <1>0 DEF TypeOK, Queued, Entry
  <2>2. e \in testcase_buf <=> \E r \in Slot : cache[r] = e
    BY <1>0 DEF SlotsMatchBuffers
  <2>3. \A r \in Slot : cache[r] = cache[t] => r = t
    BY <1>0 DEF SlotsMatchBuffers, Occupied
  <2> QED BY <1>0, <1>6, <2>1, <2>2, <2>3
<1>8. \A r, v \in Occupied' : cache'[r] = cache'[v] => r = v
  BY <1>0, <1>4, <1>6 DEF SlotsMatchBuffers, Occupied
<1>9. SlotsMatchBuffers'
  BY <1>0, <1>5, <1>7, <1>8 DEF SlotsMatchBuffers
<1>10. HintsAreRight'
  BY <1>0, <1>3, <1>4 DEF HintsAreRight, TypeOK, LowestFree, Slot
<1> QED BY <1>1, <1>2, <1>3, <1>5, <1>9, <1>10

----------------------------------------------------------------------------
(* Every action preserves the invariant *)

\* What a step that leaves the cache and the queue alone has to show.
LEMMA CacheKept ==
  ASSUME IInv, UNCHANGED <<book, limit, queue>>,
         queue_cur' \in Queued \cup {0},
         in_buf' \in {"none", "cached", "own", "freed"},
         stage' \in {"select", "start", "got", "retaken", "fuzz"},
         want' \in Queued \cup {0},
         tid' \in 0 .. MaxEntries
  PROVE  TypeOK' /\ SlotsMatchBuffers' /\ HintsAreRight'
<1>1. TypeOK /\ SlotsMatchBuffers /\ HintsAreRight
  BY DEF IInv
<1>2. Queued' = Queued /\ Occupied' = Occupied
  BY DEF book, queue, Queued, Occupied
<1>3. TypeOK'
  BY <1>1, <1>2 DEF TypeOK, book, limit, queue
<1>4. SlotsMatchBuffers'
  BY <1>1, <1>2 DEF SlotsMatchBuffers, book
<1>5. HintsAreRight'
  BY <1>1, <1>2 DEF HintsAreRight, book, limit
<1> QED BY <1>3, <1>4, <1>5

\* The calls of queue_testcase_get that find what they want, do without the
\* cache, or begin to load.
LEMMA GetSteps ==
  ASSUME IInv, GetCached \/ GetUncached \/ GetMiss
  PROVE  IInv'
<1>0. TypeOK /\ InBufLives /\ Sites
  BY DEF IInv
<1>1. CASE GetCached
  <2>1. TypeOK' /\ SlotsMatchBuffers' /\ HintsAreRight'
    BY <1>0, <1>1, CacheKept DEF GetCached, Returned, TypeOK
  <2>2. stage \in {"start", "retaken"} => queue_cur \in testcase_buf
    BY <1>1 DEF GetCached, Wanted
  <2>3. InBufLives' /\ Sites'
    BY <1>0, <1>1, <2>2
       DEF GetCached, Returned, InBufLives, Sites, TypeOK, Queued, book, queue
  <2> QED BY <2>1, <2>3 DEF IInv
<1>2. CASE GetUncached
  <2>1. TypeOK' /\ SlotsMatchBuffers' /\ HintsAreRight'
    BY <1>0, <1>2, CacheKept DEF GetUncached, Returned, TypeOK
  <2>2. InBufLives' /\ Sites'
    BY <1>0, <1>2
       DEF GetUncached, Returned, InBufLives, Sites, TypeOK, Queued, book, queue
  <2> QED BY <2>1, <2>2 DEF IInv
<1>3. CASE GetMiss
  <2>1. Wanted \subseteq Queued
    BY <1>0 DEF Wanted, Sites, TypeOK
  <2>2. TypeOK' /\ SlotsMatchBuffers' /\ HintsAreRight'
    BY <1>0, <1>3, <2>1, CacheKept DEF GetMiss, TypeOK
  <2>3. stage # "got" /\ (stage \in {"start", "retaken"} => want' = queue_cur)
    BY <1>3 DEF GetMiss, Wanted
  <2>4. InBufLives' /\ Sites'
    BY <1>0, <1>3, <2>3
       DEF GetMiss, InBufLives, Sites, TypeOK, Queued, book, queue
  <2> QED BY <2>2, <2>4 DEF IInv
<1> QED BY <1>1, <1>2, <1>3

\* The limit the cache learns is one it does not exceed.
LEMMA Learned ==
  ASSUME IInv
  PROVE  /\ LearnedEntries \in 0 .. MaxEntries
         /\ max_cache_count <= LearnedEntries
<1>1. /\ MaxEntries \in Nat /\ max_cache_entries \in 0 .. MaxEntries
      /\ max_cache_count \in 0 .. MaxEntries /\ cache_count \in 0 .. MaxEntries
      /\ max_cache_count <= max_cache_entries
  BY CacheAssumption DEF IInv, TypeOK, HintsAreRight
<1> QED BY <1>1 DEF LearnedEntries, Learns

\* One turn of the eviction loop.
LEMMA EvictStep ==
  ASSUME IInv, Evict
  PROVE  IInv'
<1>0. TypeOK /\ InBufLives /\ Sites
  BY DEF IInv
<1>1. PICK t \in Evictable :
        /\ tid' = t
        /\ testcase_buf' = testcase_buf \ {cache[t]}
        /\ in_buf' = IF cache[t] = queue_cur /\ in_buf = "cached"
                     THEN "freed" ELSE in_buf
        /\ cache_size' = (cache_size - len[cache[t]]) % SizeMod
        /\ cache' = [cache EXCEPT ![t] = 0]
        /\ smallest_free' = LowestFree(t)
  BY Zenon DEF Evict
<1>2. /\ want # 0 /\ cache_count' = cache_count - 1
      /\ max_cache_entries' = LearnedEntries
      /\ do_once' \in BOOLEAN
      /\ UNCHANGED <<max_cache_count, queue, queue_cur, stage, want>>
  BY <1>0 DEF Evict, TypeOK, Learns
<1>3. queued_items' = queued_items /\ Queued' = Queued
  BY <1>2 DEF queue, Queued
<1>4. max_cache_entries' \in 0 .. MaxEntries /\ max_cache_count <= max_cache_entries'
  BY <1>2, Learned
<1>5. /\ testcase_buf' \subseteq Queued
      /\ cache' \in [Slot -> Queued \cup {0}]
      /\ cache_size' \in 0 .. SizeMod - 1
      /\ cache_count' \in 0 .. MaxEntries
      /\ smallest_free' \in 0 .. MaxEntries
      /\ SlotsMatchBuffers'
      /\ HintsAreRight'
  <2>1. max_cache_count' = max_cache_count
    BY <1>2
  <2> QED BY Zenon, <1>1, <1>2, <1>3, <1>4, <2>1, Evicted
<1>6. t \in 0 .. MaxEntries /\ cache[t] # queue_cur
  BY CacheAssumption DEF Evictable, Slot
<1>7. TypeOK'
  BY <1>0, <1>1, <1>2, <1>3, <1>4, <1>5, <1>6 DEF TypeOK, queue
<1>8. InBufLives' /\ Sites'
  BY <1>0, <1>1, <1>2, <1>3, <1>6 DEF InBufLives, Sites
<1> QED BY <1>5, <1>7, <1>8 DEF IInv

\* The end of a call that loads: the entry has a slot, or its caller a copy.
LEMMA LoadStep ==
  ASSUME IInv, want # 0, NEW t \in Nat, NEW n \in 0 .. MaxEntries, Load(t, n),
         max_cache_entries' = n, max_cache_count <= n, do_once' \in BOOLEAN
  PROVE  IInv'
<1>0. TypeOK /\ SlotsMatchBuffers /\ HintsAreRight /\ InBufLives /\ Sites
  BY DEF IInv
<1>1. PICK u \in Place(t, n) :
        \/ u >= n /\ Returned("own") /\ UNCHANGED book
        \/ u < n /\ Returned("cached") /\ Register(want, u, len[want])
  BY DEF Load
<1>2. /\ want' = 0 /\ tid' = 0 /\ queue_cur' = queue_cur
      /\ queued_items' = queued_items /\ len' = len /\ trim_done' = trim_done
      /\ trimmer' = trimmer /\ Queued' = Queued
  BY DEF Load, queue, Queued
<1>3. /\ want \in Queued /\ want \notin testcase_buf /\ stage # "got"
      /\ stage \in {"start", "retaken"} => want = queue_cur
  BY <1>0 DEF TypeOK, Sites
<1>4. 0 \in 0 .. MaxEntries
  BY CacheAssumption
<1>5. CASE u >= n /\ Returned("own") /\ UNCHANGED book
  <2>1. TypeOK'
    BY <1>0, <1>2, <1>4, <1>5 DEF TypeOK, book, Returned
  <2>2. Occupied' = Occupied
    BY <1>5 DEF book, Occupied
  <2>3. SlotsMatchBuffers' /\ HintsAreRight'
    BY <1>0, <1>2, <1>5, <2>2 DEF SlotsMatchBuffers, HintsAreRight, book
  <2>4. InBufLives' /\ Sites'
    BY <1>0, <1>2, <1>3, <1>5 DEF InBufLives, Sites, Returned, TypeOK, book
  <2> QED BY <2>1, <2>3, <2>4 DEF IInv
<1>6. CASE u < n /\ Returned("cached") /\ Register(want, u, len[want])
  <2>1. u \in Slot /\ cache[u] = 0
    BY <1>0, <1>6, PlaceIsFree
  <2>2. len[want] \in Len /\ queued_items' \in Entry /\ queued_items <= queued_items'
    BY <1>0, <1>2, <1>3, CacheAssumption DEF TypeOK, Queued, Entry
  <2>3. /\ testcase_buf' \subseteq Queued'
        /\ cache' \in [Slot -> Queued' \cup {0}]
        /\ cache_size' \in 0 .. SizeMod - 1
        /\ cache_count' \in 0 .. MaxEntries
        /\ max_cache_count' \in 0 .. MaxEntries
        /\ smallest_free' \in 0 .. MaxEntries
        /\ SlotsMatchBuffers'
        /\ HintsAreRight'
    BY <1>2, <1>3, <1>6, <2>1, <2>2, Registered
  <2>4. TypeOK'
    BY <1>0, <1>2, <1>4, <1>6, <2>3 DEF TypeOK, Returned
  <2>5. testcase_buf' = testcase_buf \cup {want}
    BY <1>6 DEF Register
  <2>6. InBufLives' /\ Sites'
    BY <1>0, <1>2, <1>3, <1>6, <2>5 DEF InBufLives, Sites, Returned, TypeOK
  <2> QED BY <2>3, <2>4, <2>6 DEF IInv
<1> QED BY <1>1, <1>5, <1>6

\* Both ways to leave the eviction loop.
LEMMA LoadSteps ==
  ASSUME IInv, LoadIntoSpace \/ NothingToEvict
  PROVE  IInv'
<1>0. TypeOK /\ HintsAreRight /\ MaxEntries \in Nat
  BY CacheAssumption DEF IInv
<1>1. CASE LoadIntoSpace
  <2>1. /\ want # 0 /\ Load(tid, max_cache_entries)
        /\ max_cache_entries' = max_cache_entries /\ do_once' \in BOOLEAN
        /\ tid \in Nat /\ max_cache_entries \in 0 .. MaxEntries
        /\ max_cache_count <= max_cache_entries
    BY <1>0, <1>1 DEF LoadIntoSpace, limit, TypeOK, HintsAreRight
  <2> QED BY <2>1, LoadStep
<1>2. CASE NothingToEvict
  <2>1. PICK t \in 0 .. (IF max_cache_count = 0 THEN 0 ELSE max_cache_count - 1) :
          Load(t, LearnedEntries)
    BY <1>2 DEF NothingToEvict
  <2>2. t \in Nat
    BY <1>0 DEF TypeOK
  <2>3. want # 0 /\ max_cache_entries' = LearnedEntries /\ do_once' \in BOOLEAN
    BY <1>0, <1>2 DEF NothingToEvict, TypeOK, Learns
  <2>4. LearnedEntries \in 0 .. MaxEntries /\ max_cache_count <= LearnedEntries
    BY Learned
  <2> QED BY <2>1, <2>2, <2>3, <2>4, LoadStep
<1> QED BY <1>1, <1>2

\* Trimming, however it is done, touches the length, the size and in_buf only.
LEMMA TrimSteps ==
  ASSUME IInv, NEW l \in Len, TrimInPlace(l) \/ TrimPostProcessed(l) \/ TrimCustom(l)
  PROVE  IInv'
<1>0. TypeOK /\ SlotsMatchBuffers /\ HintsAreRight /\ Sites
  BY DEF IInv
<1>1. /\ Trimmed(l)
      /\ \/ UNCHANGED <<cache_size, in_buf>>
         \/ Reallocated(l)
  BY DEF TrimInPlace, TrimPostProcessed, TrimCustom
<1>2. queue_cur \in Queued /\ queue_cur \in Entry
  BY <1>0, <1>1, CacheAssumption DEF Trimmed, Sites, TypeOK, Queued, Entry
<1>3. cache_size' \in 0 .. SizeMod - 1
  <2>1. cache_size + l - len[queue_cur] \in Int
    BY <1>0, <1>2, CacheAssumption DEF TypeOK, Len
  <2>2. (cache_size + l - len[queue_cur]) % SizeMod \in 0 .. SizeMod - 1
    BY <2>1, Wraps
  <2> QED BY <1>0, <1>1, <2>2 DEF Reallocated, TypeOK
<1>4. in_buf' \in {"none", "cached", "own", "freed"}
  BY <1>0, <1>1 DEF Reallocated, TypeOK
<1>5. Queued' = Queued /\ Occupied' = Occupied
  BY <1>1 DEF Trimmed, Queued, Occupied
<1>6. TypeOK'
  BY <1>0, <1>1, <1>2, <1>3, <1>4, <1>5 DEF Trimmed, TypeOK, limit
<1>7. SlotsMatchBuffers' /\ HintsAreRight'
  BY <1>0, <1>1, <1>5 DEF Trimmed, SlotsMatchBuffers, HintsAreRight, limit
<1>8. InBufLives' /\ Sites'
  BY <1>0, <1>1, <1>2, <1>5 DEF Trimmed, InBufLives, Sites
<1> QED BY <1>6, <1>7, <1>8 DEF IInv

\* The steps of the main loop that only move it on.
LEMMA MainLoopSteps ==
  ASSUME IInv, Choose \/ AlreadyTrimmed \/ Abandon
  PROVE  IInv'
<1>0. TypeOK /\ InBufLives /\ Sites
  BY DEF IInv
<1>1. TypeOK' /\ SlotsMatchBuffers' /\ HintsAreRight'
  <2>1. UNCHANGED <<book, limit, queue>> /\ want' = want /\ tid' = tid
    BY DEF Choose, AlreadyTrimmed, Abandon
  <2>2. queue_cur' \in Queued \cup {0}
    BY <1>0 DEF Choose, AlreadyTrimmed, Abandon, TypeOK
  <2>3. /\ in_buf' \in {"none", "cached", "own", "freed"}
        /\ stage' \in {"select", "start", "got", "retaken", "fuzz"}
    BY <1>0 DEF Choose, AlreadyTrimmed, Abandon, TypeOK
  <2> QED BY <1>0, <2>1, <2>2, <2>3, CacheKept DEF TypeOK
<1>2. Queued' = Queued /\ testcase_buf' = testcase_buf
  BY DEF Choose, AlreadyTrimmed, Abandon, Queued, queue, book
<1>3. InBufLives' /\ Sites'
  BY <1>0, <1>2 DEF Choose, AlreadyTrimmed, Abandon, InBufLives, Sites
<1> QED BY <1>1, <1>3 DEF IInv

\* A find is added and, if there is space, cached.
LEMMA StoreStep ==
  ASSUME IInv, NEW l \in Len, Store(l)
  PROVE  IInv'
<1>0. TypeOK /\ SlotsMatchBuffers /\ HintsAreRight /\ InBufLives /\ Sites
  BY DEF IInv
<1> DEFINE e == queued_items + 1
<1>1. /\ queued_items' = e /\ e \in Entry /\ e \notin Queued /\ queued_items \in Nat
      /\ Queued \subseteq Queued' /\ e \in Queued' /\ queued_items <= queued_items'
  BY <1>0, CacheAssumption DEF Store, TypeOK, Queued, Entry
<1>2. /\ len' = [len EXCEPT ![e] = l]
      /\ UNCHANGED <<limit, trim_done, trimmer, queue_cur, in_buf, stage, want, tid>>
      /\ want = 0
  BY DEF Store
<1>3. len' \in [Entry -> Len]
  BY <1>0, <1>1, <1>2 DEF TypeOK
<1>4. CASE UNCHANGED book
  <2>1. TypeOK'
    BY Zenon, <1>0, <1>1, <1>2, <1>3, <1>4 DEF TypeOK, book, limit
  <2>2. Occupied' = Occupied
    BY <1>4 DEF book, Occupied
  <2>3. \A d \in Queued' : d \in testcase_buf' <=> \E t \in Slot : cache'[t] = d
    <3> SUFFICES ASSUME NEW d \in Queued'
                 PROVE  d \in testcase_buf <=> \E t \in Slot : cache[t] = d
      BY <1>4 DEF book
    <3>1. CASE d \in Queued
      BY <1>0, <3>1 DEF SlotsMatchBuffers
    <3>2. CASE d \notin Queued
      <4>1. d # 0
        BY <1>1 DEF Queued
      <4> QED BY <1>0, <3>2, <4>1 DEF TypeOK
    <3> QED BY <3>1, <3>2
  <2>4. SlotsMatchBuffers' /\ HintsAreRight'
    BY <1>0, <1>2, <1>4, <2>2, <2>3 DEF SlotsMatchBuffers, HintsAreRight, book, limit
  <2>5. InBufLives' /\ Sites'
    BY <1>0, <1>1, <1>2, <1>4 DEF InBufLives, Sites, book
  <2> QED BY <2>1, <2>4, <2>5 DEF IInv
<1>5. CASE ~UNCHANGED book
  <2>1. PICK u \in Place(max_cache_count, max_cache_entries) :
          u < max_cache_entries /\ Register(e, u, l)
    BY <1>5 DEF Store
  <2>2. /\ max_cache_count \in Nat /\ max_cache_entries \in 0 .. MaxEntries
        /\ max_cache_entries' = max_cache_entries
        /\ max_cache_count <= max_cache_entries
    BY <1>0, <1>2 DEF TypeOK, HintsAreRight, limit
  <2>3. u \in Slot /\ cache[u] = 0
    BY <1>0, <2>1, <2>2, PlaceIsFree
  <2>4. e \notin testcase_buf
    BY <1>0, <1>1 DEF TypeOK
  <2>5. /\ testcase_buf' \subseteq Queued'
        /\ cache' \in [Slot -> Queued' \cup {0}]
        /\ cache_size' \in 0 .. SizeMod - 1
        /\ cache_count' \in 0 .. MaxEntries
        /\ max_cache_count' \in 0 .. MaxEntries
        /\ smallest_free' \in 0 .. MaxEntries
        /\ SlotsMatchBuffers'
        /\ HintsAreRight'
    BY <1>1, <2>1, <2>2, <2>3, <2>4, Registered
  <2>6. TypeOK'
    BY <1>0, <1>1, <1>2, <1>3, <2>5 DEF TypeOK, limit
  <2>7. testcase_buf' = testcase_buf \cup {e}
    BY <2>1 DEF Register
  <2>8. InBufLives' /\ Sites'
    BY <1>0, <1>1, <1>2, <2>7 DEF InBufLives, Sites
  <2> QED BY <2>5, <2>6, <2>8 DEF IInv
<1> QED BY <1>4, <1>5

----------------------------------------------------------------------------
(* The theorems *)

\* The session begins with a queue on disk and nothing in memory.
LEMMA CacheStarts == Init => IInv
<1> SUFFICES ASSUME Init PROVE IInv
  OBVIOUS
<1>1. /\ MaxItems \in Nat \ {0} /\ MaxEntries \in Nat /\ SizeMod \in Nat \ {0}
      /\ NewLens \subseteq Len
  BY CacheAssumption DEF Len
<1>2. TypeOK
  <2>1. queued_items \in Entry
    BY <1>1 DEF Init, Entry
  <2>2. len \in [Entry -> Len]
    BY <1>1 DEF Init
  <2>3. cache \in [Slot -> Queued \cup {0}]
    BY DEF Init
  <2>4. cache_size \in 0 .. SizeMod - 1 /\ 0 \in 0 .. MaxEntries
    BY <1>1 DEF Init
  <2> QED BY Zenon, <2>1, <2>2, <2>3, <2>4 DEF Init, TypeOK
<1>3. Occupied = {}
  BY DEF Init, Occupied
<1>4. SlotsMatchBuffers
  <2>1. Cardinality(Occupied) = Cardinality({})
    BY <1>3, Zenon
  <2>2. Cardinality({}) = 0
    BY FS_EmptySet
  <2> QED BY <1>3, <2>1, <2>2 DEF Init, SlotsMatchBuffers, Queued
<1>5. HintsAreRight
  BY <1>1, <1>3 DEF Init, HintsAreRight, Slot
<1>6. InBufLives /\ Sites
  BY DEF Init, InBufLives, Sites
<1> QED BY <1>2, <1>4, <1>5, <1>6 DEF IInv

\* A stuttering step.
LEMMA CacheStutters ==
  ASSUME IInv, UNCHANGED vars
  PROVE  IInv'
<1>1. /\ UNCHANGED <<book, limit, queue>>
      /\ UNCHANGED <<queue_cur, in_buf, stage, want, tid>>
      /\ UNCHANGED <<queued_items, testcase_buf>>
  BY DEF vars, book, queue
<1>2. TypeOK' /\ SlotsMatchBuffers' /\ HintsAreRight'
  BY <1>1, CacheKept DEF IInv, TypeOK
<1>3. InBufLives' /\ Sites'
  BY <1>1 DEF IInv, InBufLives, Sites, Queued
<1> QED BY <1>2, <1>3 DEF IInv

\* The inductive invariant holds in every state.
THEOREM CacheKeeps == Spec => []IInv
<1>1. IInv /\ [Next]_vars => IInv'
  <2> SUFFICES ASSUME IInv, [Next]_vars PROVE IInv'
    OBVIOUS
  <2>1. CASE queue_testcase_get
    BY <2>1, GetSteps, EvictStep, LoadSteps DEF queue_testcase_get
  <2>2. CASE trim_case
    BY <2>2, TrimSteps DEF trim_case
  <2>3. CASE Choose \/ AlreadyTrimmed \/ Abandon
    BY <2>3, MainLoopSteps
  <2>4. CASE \E l \in NewLens : Store(l)
    BY <2>4, StoreStep, CacheAssumption DEF Len
  <2>5. CASE UNCHANGED vars
    BY <2>5, CacheStutters
  <2> QED BY <2>1, <2>2, <2>3, <2>4, <2>5 DEF Next
<1> QED BY <1>1, CacheStarts, PTL DEF Spec

\* The cache's variables keep their types: no count or hint leaves the array.
THEOREM CacheTypes == Spec => []TypeOK
<1>1. IInv => TypeOK
  BY DEF IInv
<1> QED BY <1>1, CacheKeeps, PTL

\* The slots, the entries' buffers and q_testcase_cache_count always agree.
THEOREM SlotsAndBuffersAgree == Spec => []SlotsMatchBuffers
<1>1. IInv => SlotsMatchBuffers
  BY DEF IInv
<1> QED BY <1>1, CacheKeeps, PTL

\* q_testcase_max_cache_count and q_testcase_smallest_free never mislead the
\* searches that start from them.
THEOREM HintsStayRight == Spec => []HintsAreRight
<1>1. IInv => HintsAreRight
  BY DEF IInv
<1> QED BY <1>1, CacheKeeps, PTL

\* No eviction and no reallocation takes the buffer fuzz_one works on.
THEOREM InBufIsSafe == Spec => []InBufLives
<1>1. IInv => InBufLives
  BY DEF IInv
<1> QED BY <1>1, CacheKeeps, PTL

----------------------------------------------------------------------------
(* Adding up what is cached *)

\* A set of numbers has a least one, and a set that holds 0 and with every
\* number the next one holds all of them.
LEMMA Least ==
  ASSUME NEW T \in SUBSET Nat, T # {}
  PROVE  \E n \in T : \A m \in T : n <= m
<1> DEFINE R == OpToRel(<, Nat)
<1>1. IsWellFoundedOn(R, Nat)
  BY NatLessThanWellFounded
<1>2. \A m, n \in Nat : m < n => <<m, n>> \in R
  BY DEF OpToRel
<1> HIDE DEF R
<1>3. \E n \in T : \A m \in T : ~ (<<m, n>> \in R)
  BY Zenon, <1>1, WFMin
<1>4. PICK n \in T : \A m \in T : ~ (<<m, n>> \in R)
  BY <1>3
<1>5. ASSUME NEW m \in T PROVE n <= m
  <2>1. m \in Nat /\ n \in Nat
    OBVIOUS
  <2>2. ~ (m < n)
    BY Zenon, <1>2, <1>4, <2>1
  <2> QED BY <2>1, <2>2
<1> QED BY <1>5

\* A set with 0 and the successors of its numbers has all numbers.
LEMMA Induction ==
  ASSUME NEW S, 0 \in S, \A n \in Nat : n \in S => n + 1 \in S
  PROVE  Nat \subseteq S
<1> SUFFICES ASSUME NEW k \in Nat, k \notin S PROVE FALSE
  OBVIOUS
<1> DEFINE T == {n \in Nat : n \notin S}
<1>1. T \in SUBSET Nat /\ T # {}
  OBVIOUS
<1>2. PICK n \in T : \A m \in T : n <= m
  BY Zenon, <1>1, Least
<1>3. n # 0 /\ n - 1 \in Nat
  OBVIOUS
<1>4. n - 1 \in S
  BY <1>2, <1>3
<1> QED BY <1>3, <1>4

\* The sums of w[1], ..., w[n], and the sum of all of w.
Sums(w) ==
  CHOOSE g : g = [n \in 0 .. MaxItems |-> IF n = 0 THEN 0 ELSE g[n - 1] + w[n]]
Total(w) == Sums(w)[MaxItems]

\* The recursion that defines Sums has a solution, so Sums satisfies it.
LEMMA SumsRecursion ==
  ASSUME NEW w
  PROVE  /\ Sums(w)[0] = 0
         /\ \A n \in 0 .. MaxItems - 1 : Sums(w)[n + 1] = Sums(w)[n] + w[n + 1]
<1> DEFINE P(g, n) == g = [i \in 0 .. n |-> IF i = 0 THEN 0 ELSE g[i - 1] + w[i]]
           S == {n \in Nat : \E g : P(g, n)}
<1>1. 0 \in S
  <2> DEFINE g == [i \in 0 .. 0 |-> 0]
  <2>1. \A i \in 0 .. 0 : i = 0
    OBVIOUS
  <2>2. P(g, 0)
    BY <2>1
  <2> QED BY Zenon, <2>2
<1>2. ASSUME NEW n \in Nat, n \in S PROVE n + 1 \in S
  <2>1. PICK g : P(g, n)
    BY <1>2
  <2> DEFINE h == [i \in 0 .. n + 1 |-> IF i = n + 1 THEN g[n] + w[n + 1] ELSE g[i]]
  <2>2. ASSUME NEW i \in 0 .. n + 1
        PROVE  h[i] = IF i = 0 THEN 0 ELSE h[i - 1] + w[i]
    <3>1. CASE i = n + 1
      BY <3>1
    <3>2. CASE i # n + 1
      BY <3>2, <2>1
    <3> QED BY <3>1, <3>2
  <2>3. P(h, n + 1)
    BY <2>2
  <2> HIDE DEF h
  <2> QED BY <2>3
<1> HIDE DEF S
<1>3. MaxItems \in S
  BY <1>1, <1>2, CacheAssumption, Induction
<1>4. Sums(w) = [n \in 0 .. MaxItems |-> IF n = 0 THEN 0 ELSE Sums(w)[n - 1] + w[n]]
  BY Zenon, <1>3 DEF Sums, S
<1>5. Sums(w)[0] = 0
  BY <1>4, CacheAssumption
<1>6. ASSUME NEW n \in 0 .. MaxItems - 1 PROVE Sums(w)[n + 1] = Sums(w)[n] + w[n + 1]
  BY <1>4, CacheAssumption
<1> QED BY <1>5, <1>6

\* A sum of natural numbers is one.
LEMMA TotalType ==
  ASSUME NEW w \in [Entry -> Nat]
  PROVE  Total(w) \in Nat
<1> DEFINE S == {n \in Nat : n <= MaxItems => Sums(w)[n] \in Nat}
<1>1. 0 \in S
  BY SumsRecursion
<1>2. ASSUME NEW n \in Nat, n \in S PROVE n + 1 \in S
  <2> SUFFICES ASSUME n + 1 <= MaxItems PROVE Sums(w)[n + 1] \in Nat
    OBVIOUS
  <2>1. n \in 0 .. MaxItems - 1 /\ n + 1 \in Entry
    BY CacheAssumption DEF Entry
  <2>2. Sums(w)[n + 1] = Sums(w)[n] + w[n + 1]
    BY <2>1, SumsRecursion
  <2> QED BY <1>2, <2>1, <2>2, CacheAssumption
<1> HIDE DEF S
<1>3. MaxItems \in S
  BY <1>1, <1>2, CacheAssumption, Induction
<1> QED BY <1>3, CacheAssumption DEF S, Total

\* What replacing one summand does to the sum.
LEMMA TotalUpdate ==
  ASSUME NEW w \in [Entry -> Nat], NEW e \in Entry, NEW x \in Nat
  PROVE  Total([w EXCEPT ![e] = x]) = Total(w) - w[e] + x
<1> DEFINE v == [w EXCEPT ![e] = x]
           change(n) == IF n < e THEN 0 ELSE x - w[e]
           S == {n \in Nat : n <= MaxItems =>
                   Sums(w)[n] \in Int /\ Sums(v)[n] = Sums(w)[n] + change(n)}
<1>0. /\ v \in [Entry -> Nat] /\ e \in Nat \ {0} /\ e <= MaxItems
      /\ \A d \in Entry : v[d] = IF d = e THEN x ELSE w[d]
  BY CacheAssumption DEF Entry
<1> HIDE DEF v
<1>1. 0 \in S
  BY SumsRecursion, <1>0
<1>2. ASSUME NEW n \in Nat, n \in S PROVE n + 1 \in S
  <2> SUFFICES ASSUME n + 1 <= MaxItems
               PROVE  /\ Sums(w)[n + 1] \in Int
                      /\ Sums(v)[n + 1] = Sums(w)[n + 1] + change(n + 1)
    OBVIOUS
  <2>1. n \in 0 .. MaxItems - 1 /\ n + 1 \in Entry
    BY CacheAssumption DEF Entry
  <2>2. /\ Sums(w)[n + 1] = Sums(w)[n] + w[n + 1]
        /\ Sums(v)[n + 1] = Sums(v)[n] + v[n + 1]
    BY <2>1, SumsRecursion
  <2>3. /\ w[n + 1] \in Nat /\ w[e] \in Nat
        /\ v[n + 1] = IF n + 1 = e THEN x ELSE w[n + 1]
    BY <1>0, <2>1
  <2>4. Sums(w)[n] \in Int /\ Sums(v)[n] = Sums(w)[n] + change(n)
    BY <1>2, CacheAssumption
  <2>5. CASE n + 1 < e
    BY <2>1, <2>2, <2>3, <2>4, <2>5, <1>0
  <2>6. CASE n + 1 = e
    BY <2>1, <2>2, <2>3, <2>4, <2>6, <1>0
  <2>7. CASE n + 1 > e
    BY <2>1, <2>2, <2>3, <2>4, <2>7, <1>0
  <2> QED BY <2>5, <2>6, <2>7, <1>0
<1> HIDE DEF S
<1>3. MaxItems \in S
  BY <1>1, <1>2, CacheAssumption, Induction
<1> QED BY <1>3, <1>0, CacheAssumption DEF S, Total, v

\* A sum of bounded numbers is bounded.
LEMMA TotalBound ==
  ASSUME NEW B \in Nat, NEW w \in [Entry -> 0 .. B]
  PROVE  Total(w) \in 0 .. MaxItems * B
<1> DEFINE S == {n \in Nat : n <= MaxItems =>
                   Sums(w)[n] \in Nat /\ Sums(w)[n] <= n * B}
<1>1. 0 \in S
  BY SumsRecursion
<1>2. ASSUME NEW n \in Nat, n \in S PROVE n + 1 \in S
  <2> SUFFICES ASSUME n + 1 <= MaxItems
               PROVE  Sums(w)[n + 1] \in Nat /\ Sums(w)[n + 1] <= (n + 1) * B
    OBVIOUS
  <2>1. n \in 0 .. MaxItems - 1 /\ n + 1 \in Entry
    BY CacheAssumption DEF Entry
  <2>2. Sums(w)[n + 1] = Sums(w)[n] + w[n + 1]
    BY <2>1, SumsRecursion
  <2>3. w[n + 1] \in 0 .. B
    BY <2>1
  <2>4. Sums(w)[n] \in Nat /\ Sums(w)[n] <= n * B
    BY <1>2, <2>1, CacheAssumption
  <2>5. (n + 1) * B = n * B + B /\ n * B \in Nat
    OBVIOUS
  <2> QED BY <2>2, <2>3, <2>4, <2>5
<1> HIDE DEF S
<1>3. MaxItems \in S
  BY <1>1, <1>2, CacheAssumption, Induction
<1> QED BY <1>3, CacheAssumption DEF S, Total

\* What f gives for the entries of s, and nothing for others.
Only(f, s) == [e \in Entry |-> IF e \in s THEN f[e] ELSE 0]

\* The library's sum over a set, which takes its elements in an order of its own,
\* is the sum in the order of the entries.
LEMMA SumIsTotal ==
  ASSUME NEW f \in [Entry -> Nat], NEW S \in SUBSET Entry
  PROVE  MapThenSumSet(LAMBDA e : f[e], S) = Total(Only(f, S))
<1> DEFINE pick(s) == CHOOSE x \in s : TRUE
           Step(g, s) == IF s = {} THEN 0 ELSE f[pick(s)] + g[s \ {pick(s)}]
           iter == CHOOSE g : g = [s \in SUBSET S |-> Step(g, s)]
           tot == [s \in SUBSET S |-> Total(Only(f, s))]
<1>0. IsFiniteSet(Entry)
  BY CacheAssumption, FS_Interval DEF Entry
<1>1. MapThenSumSet(LAMBDA e : f[e], S) = iter[S]
  BY DEF MapThenSumSet, MapThenFoldSet
<1>2. ASSUME NEW s \in SUBSET S
      PROVE  tot[s] = Step(tot, s)
  <2>1. CASE s = {}
    <3>1. Only(f, s) \in [Entry -> 0 .. 0]
      BY <2>1 DEF Only
    <3>2. Total(Only(f, s)) \in 0 .. MaxItems * 0
      BY <3>1, TotalBound
    <3>3. MaxItems * 0 = 0
      BY CacheAssumption
    <3>4. Total(Only(f, s)) = 0
      BY <3>2, <3>3
    <3>5. tot[s] = 0
      BY <3>4
    <3> HIDE DEF tot
    <3> QED BY <2>1, <3>5
  <2>2. CASE s # {}
    <3> DEFINE x == pick(s)
               t == s \ {x}
    <3>1. x \in s
      BY <2>2
    <3> HIDE DEF x
    <3>2. t \in SUBSET S /\ s \in SUBSET Entry /\ x \in Entry
      BY <3>1
    <3>3. Only(f, s) \in [Entry -> Nat] /\ Only(f, t) \in [Entry -> Nat]
      BY DEF Only
    <3>4. Only(f, s) = [Only(f, t) EXCEPT ![x] = f[x]] /\ Only(f, t)[x] = 0
      BY Zenon, <3>1, <3>2 DEF Only
    <3>5. Total(Only(f, t)) \in Nat /\ f[x] \in Nat
      BY <3>2, <3>3, TotalType
    <3> HIDE DEF t
    <3>6. Total([Only(f, t) EXCEPT ![x] = f[x]])
            = Total(Only(f, t)) - Only(f, t)[x] + f[x]
      BY Zenon, <3>2, <3>3, <3>5, TotalUpdate
    <3>7. Total(Only(f, s)) = f[x] + Total(Only(f, t))
      BY <3>4, <3>5, <3>6
    <3>8. tot[t] = Total(Only(f, t))
      BY <3>2
    <3>9. tot[s] = f[x] + tot[t]
      BY <3>7, <3>8
    <3> QED BY <3>9, <2>2 DEF x, t
  <2> QED BY <2>1, <2>2
<1>3. tot = [s \in SUBSET S |-> Step(tot, s)]
  BY Zenon, <1>2
<1>4. iter = [s \in SUBSET S |-> Step(iter, s)]
  <2> HIDE DEF tot, Step
  <2> QED BY <1>3
<1> HIDE DEF iter, tot
<1>5. ASSUME NEW s \in SUBSET S PROVE iter[s] = Step(iter, s)
  BY <1>4
<1> DEFINE C == {n \in Nat : \A s \in SUBSET S : Cardinality(s) = n => iter[s] = tot[s]}
<1>6. \A s \in SUBSET S : IsFiniteSet(s) /\ Cardinality(s) \in Nat
  BY <1>0, FS_Subset, FS_CardinalityType
<1>7. 0 \in C
  <2> SUFFICES ASSUME NEW s \in SUBSET S, Cardinality(s) = 0 PROVE iter[s] = tot[s]
    OBVIOUS
  <2>1. s = {}
    BY <1>6, FS_EmptySet
  <2> QED BY Zenon, <2>1, <1>2, <1>5
<1>8. ASSUME NEW n \in Nat, n \in C PROVE n + 1 \in C
  <2> SUFFICES ASSUME NEW s \in SUBSET S, Cardinality(s) = n + 1 PROVE iter[s] = tot[s]
    OBVIOUS
  <2> DEFINE x == pick(s)
             t == s \ {x}
  <2>1. s # {}
    BY FS_EmptySet
  <2>2. x \in s
    BY <2>1
  <2> HIDE DEF x
  <2>3. Cardinality(t) = n /\ t \in SUBSET S
    BY <1>6, <2>2, FS_RemoveElement
  <2>4. iter[t] = tot[t]
    BY <1>8, <2>3
  <2>5. iter[s] = f[x] + iter[t]
    BY <1>5, <2>1 DEF x
  <2>6. tot[s] = f[x] + tot[t]
    BY <1>2, <2>1 DEF x
  <2> QED BY <2>4, <2>5, <2>6
<1> HIDE DEF C
<1>9. Cardinality(S) \in C
  BY <1>6, <1>7, <1>8, Induction
<1>10. iter[S] = tot[S]
  BY <1>9 DEF C
<1> QED BY <1>1, <1>10 DEF tot

----------------------------------------------------------------------------
(* The size of the cache *)

\* What the cached entries take, and what trimming may have saved without being
\* counted: at most MAX_FILE for every entry that was trimmed, once.
Held   == Only(len, testcase_buf)
Shrunk == Only([e \in Entry |-> MaxLen], trim_done)

\* The strengthening of SizeCovers: the count is above what is cached by no more
\* than what trimming saved, and therefore never reaches SizeMod.
SizeInv ==
  /\ Total(Held) <= cache_size
  /\ cache_size <= Total(Held) + Total(Shrunk)

\* A sum of lengths is far from SizeMod.
LEMMA SumIsSmall ==
  ASSUME NEW f \in [Entry -> Len], NEW S
  PROVE  /\ Only(f, S) \in [Entry -> Nat]
         /\ Total(Only(f, S)) \in Nat
         /\ 2 * Total(Only(f, S)) < SizeMod
<1>1. MaxLen \in Nat /\ MaxItems \in Nat /\ SizeMod \in Nat
  BY CacheAssumption
<1>2. Only(f, S) \in [Entry -> 0 .. MaxLen]
  BY <1>1 DEF Only, Len
<1>3. Total(Only(f, S)) \in 0 .. MaxItems * MaxLen
  BY <1>1, <1>2, TotalBound
<1>4. MaxItems * MaxLen \in Nat
  BY <1>1
<1>5. Only(f, S) \in [Entry -> Nat]
  BY <1>2
<1> QED BY <1>1, <1>3, <1>4, <1>5, SizeAssumption

\* The longest test case is one.
LEMMA LongestIsLength == [e \in Entry |-> MaxLen] \in [Entry -> Len]
BY CacheAssumption DEF Len

\* Where the count before it is reduced modulo SizeMod is within the bounds, the
\* reduction does nothing.
LEMMA SizeFits ==
  ASSUME TypeOK', NEW x \in Int, cache_size' = x % SizeMod,
         Total(Held') <= x, x <= Total(Held') + Total(Shrunk')
  PROVE  SizeInv'
<1>1. /\ Total(Held') \in Nat /\ Total(Shrunk') \in Nat
      /\ Total(Held') + Total(Shrunk') < SizeMod
  <2>1. len' \in [Entry -> Len]
    BY DEF TypeOK
  <2>2. Total(Held') \in Nat /\ 2 * Total(Held') < SizeMod
    BY <2>1, SumIsSmall DEF Held
  <2>3. Total(Shrunk') \in Nat /\ 2 * Total(Shrunk') < SizeMod
    BY LongestIsLength, SumIsSmall DEF Shrunk
  <2> QED BY <2>2, <2>3, CacheAssumption
<1>2. x \in 0 .. SizeMod - 1 /\ SizeMod \in Nat \ {0}
  BY <1>1, CacheAssumption
<1>3. x % SizeMod = x
  BY <1>2
<1> QED BY <1>3 DEF SizeInv

\* Before the step, too, the sums are numbers.
LEMMA SumTypes ==
  ASSUME TypeOK
  PROVE  /\ Held \in [Entry -> Nat] /\ Shrunk \in [Entry -> Nat]
         /\ Total(Held) \in Nat /\ Total(Shrunk) \in Nat
         /\ cache_size \in Nat
<1>1. Held \in [Entry -> Nat] /\ Total(Held) \in Nat
  BY SumIsSmall DEF TypeOK, Held
<1>2. Shrunk \in [Entry -> Nat] /\ Total(Shrunk) \in Nat
  BY LongestIsLength, SumIsSmall DEF Shrunk
<1>3. cache_size \in Nat
  BY DEF TypeOK
<1> QED BY <1>1, <1>2, <1>3

\* An entry that is put into the cache adds its length.
LEMMA RegisterSize ==
  ASSUME TypeOK, TypeOK', SizeInv, NEW q \in Entry \ testcase_buf, NEW u, NEW l \in Len,
         Register(q, u, l), len'[q] = l, \A e \in Entry \ {q} : len'[e] = len[e],
         trim_done' = trim_done
  PROVE  SizeInv'
<1>1. l \in Nat
  BY DEF Len
<1>2. Held' = [Held EXCEPT ![q] = l] /\ Held[q] = 0 /\ Shrunk' = Shrunk
  BY Zenon DEF Held, Shrunk, Only, Register
<1>3. Total(Held') = Total(Held) - Held[q] + l
  BY Zenon, <1>1, <1>2, SumTypes, TotalUpdate
<1>4. /\ cache_size + l \in Int /\ Total(Held') <= cache_size + l
      /\ cache_size + l <= Total(Held') + Total(Shrunk')
  BY <1>1, <1>2, <1>3, SumTypes DEF SizeInv
<1>5. cache_size' = (cache_size + l) % SizeMod
  BY DEF Register
<1> QED BY <1>4, <1>5, SizeFits

\* An eviction takes the length away that the entry has now.
LEMMA EvictSize ==
  ASSUME IInv, TypeOK', SizeInv, Evict
  PROVE  SizeInv'
<1>0. TypeOK /\ SlotsMatchBuffers
  BY DEF IInv
<1>1. PICK t \in Evictable :
        /\ testcase_buf' = testcase_buf \ {cache[t]}
        /\ cache_size' = (cache_size - len[cache[t]]) % SizeMod
  BY DEF Evict
<1> DEFINE e == cache[t]
<1>2. t \in Slot /\ e \in Queued /\ e \in testcase_buf /\ e \in Entry
  <2>1. t \in Slot /\ e # 0
    BY DEF Evictable
  <2>2. e \in Queued
    BY <1>0, <2>1 DEF TypeOK
  <2>3. e \in testcase_buf
    BY <1>0, <2>1, <2>2 DEF SlotsMatchBuffers
  <2>4. Queued \subseteq Entry
    BY <1>0, CacheAssumption DEF TypeOK, Queued, Entry
  <2> QED BY Zenon, <2>1, <2>2, <2>3, <2>4
<1> HIDE DEF e
<1>3. len' = len /\ trim_done' = trim_done
  BY DEF Evict, queue
<1>4. Held' = [Held EXCEPT ![e] = 0] /\ Held[e] = len[e] /\ Shrunk' = Shrunk
  BY <1>1, <1>2, <1>3 DEF Held, Shrunk, Only, e
<1>5. Total(Held') = Total(Held) - Held[e] + 0
  BY Zenon, <1>0, <1>2, <1>4, SumTypes, TotalUpdate
<1>6. len[e] \in Nat
  BY <1>0, <1>2 DEF TypeOK, Len
<1>7. /\ cache_size - len[e] \in Int /\ Total(Held') <= cache_size - len[e]
      /\ cache_size - len[e] <= Total(Held') + Total(Shrunk')
  BY <1>0, <1>4, <1>5, <1>6, SumTypes DEF SizeInv
<1>8. cache_size' = (cache_size - len[e]) % SizeMod
  BY <1>1 DEF e
<1> QED BY <1>7, <1>8, SizeFits

\* The end of a call that loads.
LEMMA LoadSize ==
  ASSUME IInv, TypeOK', SizeInv, want # 0, NEW t, NEW n, Load(t, n)
  PROVE  SizeInv'
<1>0. TypeOK /\ Sites
  BY DEF IInv
<1>1. PICK u : UNCHANGED book \/ Register(want, u, len[want])
  BY DEF Load
<1>2. len' = len /\ trim_done' = trim_done
  BY DEF Load, queue
<1>3. CASE UNCHANGED book
  <2>1. Held' = Held /\ Shrunk' = Shrunk /\ cache_size' = cache_size
    BY <1>2, <1>3 DEF Held, Shrunk, book
  <2> QED BY <2>1 DEF SizeInv
<1>4. CASE Register(want, u, len[want])
  <2>1. want \in Entry \ testcase_buf
    BY <1>0, CacheAssumption DEF TypeOK, Sites, Queued, Entry
  <2>2. len[want] \in Len
    BY <1>0, <2>1 DEF TypeOK
  <2> QED BY <1>0, <1>2, <1>4, <2>1, <2>2, RegisterSize
<1> QED BY <1>1, <1>3, <1>4

\* A find is cached with the length it has.
LEMMA StoreSize ==
  ASSUME IInv, TypeOK', SizeInv, NEW l \in Len, Store(l)
  PROVE  SizeInv'
<1>0. TypeOK
  BY DEF IInv
<1> DEFINE e == queued_items + 1
<1>1. e \in Entry \ testcase_buf
  BY <1>0, CacheAssumption DEF Store, TypeOK, Queued, Entry
<1>2. len' = [len EXCEPT ![e] = l] /\ trim_done' = trim_done
  BY DEF Store
<1>3. PICK u : UNCHANGED book \/ Register(e, u, l)
  BY DEF Store
<1> HIDE DEF e
<1>4. len'[e] = l /\ \A d \in Entry \ {e} : len'[d] = len[d]
  BY <1>0, <1>1, <1>2 DEF TypeOK
<1>5. CASE UNCHANGED book
  <2>1. testcase_buf' = testcase_buf /\ cache_size' = cache_size
    BY <1>5 DEF book
  <2>2. Held' = Held
    BY <1>1, <1>4, <2>1 DEF Held, Only
  <2>3. Shrunk' = Shrunk
    BY <1>2 DEF Shrunk
  <2> QED BY <2>1, <2>2, <2>3 DEF SizeInv
<1>6. CASE Register(e, u, l)
  BY <1>0, <1>1, <1>2, <1>4, <1>6, RegisterSize
<1> QED BY <1>3, <1>5, <1>6

\* Trimming: what is cached changes by what the entry's length changes, the count
\* by as much or, when the entry became shorter, by nothing.
LEMMA TrimSize ==
  ASSUME ~PostGrows, IInv, TypeOK', SizeInv, NEW l \in Len,
         TrimInPlace(l) \/ TrimPostProcessed(l) \/ TrimCustom(l)
  PROVE  SizeInv'
<1> DEFINE e == queue_cur
<1>0. TypeOK /\ Sites /\ l \in Nat /\ l <= MaxLen /\ MaxLen \in Nat
  BY CacheAssumption DEF IInv, Len
<1>1. /\ Trimmed(l)
      /\ \/ cache_size' = cache_size /\ (e \in testcase_buf => l <= len[e])
         \/ e \in testcase_buf /\ Reallocated(l)
  <2>1. CASE TrimInPlace(l)
    BY <2>1 DEF TrimInPlace
  <2>2. CASE TrimPostProcessed(l)
    BY <2>2 DEF TrimPostProcessed
  <2>3. CASE TrimCustom(l)
    <3>1. e \in testcase_buf => e \in Entry
      BY <1>0, CacheAssumption DEF TypeOK, Queued, Entry
    <3>2. e \in testcase_buf => len[e] \in Nat
      BY <1>0, <3>1 DEF TypeOK, Len
    <3> QED BY <1>0, <2>3, <3>2 DEF TrimCustom
  <2> QED BY <2>1, <2>2, <2>3
<1>2. e \in Entry /\ e \notin trim_done
  BY <1>0, <1>1, CacheAssumption DEF Trimmed, Sites, TypeOK, Queued, Entry
<1>3. /\ len' = [len EXCEPT ![e] = l] /\ trim_done' = trim_done \cup {e}
      /\ testcase_buf' = testcase_buf
  BY <1>1 DEF Trimmed
<1>4. len[e] \in Nat /\ len[e] <= MaxLen /\ len \in [Entry -> Len]
  BY <1>0, <1>2 DEF TypeOK, Len
<1>5. Reallocated(l) => cache_size' = (cache_size + l - len[e]) % SizeMod
  BY DEF Reallocated
<1> HIDE DEF e
<1>6. Total(Shrunk') = Total(Shrunk) + MaxLen
  <2>1. Shrunk' = [Shrunk EXCEPT ![e] = MaxLen] /\ Shrunk[e] = 0
    BY Zenon, <1>2, <1>3 DEF Shrunk, Only
  <2>2. Total(Shrunk') = Total(Shrunk) - Shrunk[e] + MaxLen
    BY Zenon, <1>0, <1>2, <2>1, SumTypes, TotalUpdate
  <2> QED BY <1>0, <2>1, <2>2, SumTypes
<1>7. CASE e \notin testcase_buf
  <2>1. Held' = Held
    BY <1>2, <1>3, <1>4, <1>7 DEF Held, Only
  <2>2. cache_size' = cache_size
    BY <1>1, <1>7
  <2> QED BY <1>0, <1>6, <2>1, <2>2, SumTypes DEF SizeInv
<1>8. CASE e \in testcase_buf
  <2>1. Held' = [Held EXCEPT ![e] = l] /\ Held[e] = len[e]
    BY Zenon, <1>2, <1>3, <1>4, <1>8 DEF Held, Only
  <2>2. Total(Held') = Total(Held) - len[e] + l
    <3>1. Held \in [Entry -> Nat] /\ e \in Entry /\ l \in Nat
      BY <1>0, <1>2, SumTypes
    <3>2. Total([Held EXCEPT ![e] = l]) = Total(Held) - Held[e] + l
      BY Zenon, <3>1, TotalUpdate
    <3> QED BY <2>1, <3>2
  <2>3. CASE cache_size' = cache_size /\ l <= len[e]
    BY <1>0, <1>4, <1>6, <2>2, <2>3, SumTypes DEF SizeInv
  <2>4. CASE Reallocated(l)
    <3>1. /\ cache_size + l - len[e] \in Int
          /\ Total(Held') <= cache_size + l - len[e]
          /\ cache_size + l - len[e] <= Total(Held') + Total(Shrunk')
      BY <1>0, <1>4, <1>6, <2>2, SumTypes DEF SizeInv
    <3> QED BY <1>5, <2>4, <3>1, SizeFits
  <2> QED BY <1>1, <1>8, <2>3, <2>4
<1> QED BY <1>7, <1>8

\* Nothing is cached at first, and nothing has been trimmed.
LEMMA SizeStarts ==
  ASSUME Init
  PROVE  SizeInv
<1>1. TypeOK
  BY CacheStarts DEF IInv
<1>2. Held \in [Entry -> 0 .. 0] /\ Shrunk \in [Entry -> Nat]
  BY <1>1, SumTypes DEF Init, Held, Only
<1>3. Total(Held) \in 0 .. MaxItems * 0 /\ Total(Shrunk) \in Nat
  BY <1>1, <1>2, TotalBound, SumTypes
<1>4. MaxItems * 0 = 0
  BY CacheAssumption
<1>5. Total(Held) = 0
  BY <1>3, <1>4
<1> QED BY <1>3, <1>5 DEF Init, SizeInv

\* Unless a post-processor may return more than the entry had, q_testcase_cache_size
\* never runs below what is in the cache, for any queue and any order of loads,
\* evictions, stores and trims.
THEOREM SizeIsEnough ==
  ASSUME ~PostGrows
  PROVE  Spec => []SizeCovers
<1>1. ASSUME IInv, IInv', SizeInv, [Next]_vars PROVE SizeInv'
  <2>0. TypeOK'
    BY <1>1 DEF IInv
  <2>1. CASE \/ GetCached \/ GetUncached \/ GetMiss
             \/ Choose \/ AlreadyTrimmed \/ Abandon \/ UNCHANGED vars
    <3>1. UNCHANGED <<book, queue>>
      BY <2>1 DEF GetCached, GetUncached, GetMiss, Choose, AlreadyTrimmed, Abandon, vars
    <3>2. Held' = Held /\ Shrunk' = Shrunk /\ cache_size' = cache_size
      BY <3>1 DEF Held, Shrunk, book, queue
    <3> QED BY <1>1, <3>2 DEF SizeInv
  <2>2. CASE Evict
    BY <1>1, <2>0, <2>2, EvictSize
  <2>3. CASE LoadIntoSpace
    BY <1>1, <2>0, <2>3, LoadSize DEF LoadIntoSpace
  <2>4. CASE NothingToEvict
    BY <1>1, <2>0, <2>4, LoadSize DEF NothingToEvict
  <2>5. CASE trim_case
    BY <1>1, <2>0, <2>5, TrimSize DEF trim_case
  <2>6. CASE \E l \in NewLens : Store(l)
    BY <1>1, <2>0, <2>6, StoreSize, CacheAssumption DEF Len
  <2> QED BY <1>1, <2>1, <2>2, <2>3, <2>4, <2>5, <2>6 DEF Next, queue_testcase_get
<1>2. Init => SizeInv
  BY SizeStarts
<1>3. ASSUME IInv, SizeInv PROVE SizeCovers
  <2>1. len \in [Entry -> Nat] /\ testcase_buf \in SUBSET Entry /\ TypeOK
    BY <1>3, CacheAssumption DEF IInv, TypeOK, Len, Queued, Entry
  <2>2. MapThenSumSet(LAMBDA e : len[e], testcase_buf) = Total(Held)
    BY Zenon, <2>1, SumIsTotal DEF Held
  <2> QED BY <1>3, <2>1, <2>2, SumTypes DEF SizeInv, SizeCovers
<1> QED BY <1>1, <1>2, <1>3, CacheKeeps, PTL DEF Spec

----------------------------------------------------------------------------
(* The end of a load *)

\* The search for a slot comes to an end, wherever it starts.
LEMMA SearchEnds ==
  ASSUME TypeOK, NEW t \in Nat, NEW n \in 0 .. MaxEntries
  PROVE  Place(t, n) # {}
<1> DEFINE s == IF t >= n THEN smallest_free ELSE t
           T == {u \in Nat : u >= s /\ (u >= n \/ cache[u] = 0)}
<1>1. s \in Nat /\ n \in Nat
  BY CacheAssumption DEF TypeOK
<1> HIDE DEF s
<1>2. s + n \in T
  BY <1>1
<1>3. PICK m \in T : \A u \in T : m <= u
  <2>1. T \in SUBSET Nat /\ T # {}
    BY <1>2
  <2> HIDE DEF T
  <2> QED BY <2>1, Least
<1>4. m \in s .. s + n /\ (m >= n \/ cache[m] = 0)
  BY <1>1, <1>2, <1>3
<1>5. ASSUME NEW v \in s .. m - 1 PROVE v < n /\ cache[v] # 0
  BY <1>1, <1>3, <1>5
<1>6. m \in FirstFree(s, n)
  BY <1>4, <1>5 DEF FirstFree
<1> QED BY <1>6 DEF Place, s

\* "Only queue_cur is cached; nothing to evict": what the comment says is so.
OnlyCurrentCached ==
  want # 0 /\ MustEvict /\ Evictable = {} =>
    testcase_buf \subseteq {queue_cur} /\ cache_count <= 1

\* Wherever a load is, its next step can be taken: an entry to evict, a slot for
\* the one it loads, or the end of the slots.
LoadGoesOn ==
  want # 0 =>
    \/ ~MustEvict /\ Place(tid, max_cache_entries) # {}
    \/ MustEvict /\ Evictable # {}
    \/ /\ MustEvict /\ Evictable = {}
       /\ \A t \in 0 .. max_cache_count : Place(t, LearnedEntries) # {}

\* A load is over, or goes on for the same entry with one entry less in the cache.
LoadShrinks ==
  want # 0 => want' = 0 \/ (want' = want /\ cache_count' = cache_count - 1)

\* All that is cached is in a slot the eviction sees, and queue_cur in one only.
LEMMA CachedIsSeen ==
  ASSUME IInv, Evictable = {}
  PROVE  testcase_buf \subseteq {queue_cur} /\ cache_count <= 1
<1>0. TypeOK /\ SlotsMatchBuffers /\ HintsAreRight
  BY DEF IInv
<1>1. \A t \in Occupied : cache[t] = queue_cur
  BY <1>0 DEF Evictable, HintsAreRight, Occupied
<1>2. testcase_buf \subseteq {queue_cur}
  <2> SUFFICES ASSUME NEW e \in testcase_buf PROVE e = queue_cur
    OBVIOUS
  <2>1. e \in Queued /\ e # 0
    BY <1>0 DEF TypeOK, Queued
  <2>2. PICK t \in Slot : cache[t] = e
    BY <1>0, <2>1 DEF SlotsMatchBuffers
  <2> QED BY <1>1, <2>1, <2>2 DEF Occupied
<1>3. cache_count <= 1
  <2>1. \A s, t \in Occupied : s = t
    BY <1>0, <1>1 DEF SlotsMatchBuffers
  <2>2. CASE Occupied = {}
    BY <1>0, <2>2, FS_EmptySet DEF SlotsMatchBuffers
  <2>3. CASE Occupied # {}
    <3>1. PICK t \in Occupied : Occupied = {t}
      BY <2>1, <2>3
    <3>2. Cardinality({t}) = 1
      BY FS_Singleton
    <3> QED BY <1>0, <3>1, <3>2 DEF SlotsMatchBuffers
  <2> QED BY <2>2, <2>3
<1> QED BY <1>2, <1>3

\* queue_testcase_get: when the scan after the random search finds nothing, then
\* at most the entry in use is cached; so the size limit alone, which asks for
\* more than one entry, always finds a victim.
THEOREM OnlyCurrentIsSpared == Spec => []OnlyCurrentCached
<1>1. IInv => OnlyCurrentCached
  BY CachedIsSeen DEF OnlyCurrentCached
<1> QED BY <1>1, CacheKeeps, PTL

\* queue_testcase_get: neither of its two loops, nor the searches in them, comes to
\* a point where it cannot go on.
THEOREM LoadNeverBlocks == Spec => []LoadGoesOn
<1>1. ASSUME IInv PROVE LoadGoesOn
  <2>0. TypeOK
    BY <1>1 DEF IInv
  <2>1. /\ tid \in Nat /\ max_cache_entries \in 0 .. MaxEntries
        /\ \A t \in 0 .. max_cache_count : t \in Nat
    BY <2>0, CacheAssumption DEF TypeOK
  <2>2. LearnedEntries \in 0 .. MaxEntries
    BY <1>1, Learned
  <2>3. Place(tid, max_cache_entries) # {}
    BY <2>0, <2>1, SearchEnds
  <2>4. \A t \in 0 .. max_cache_count : Place(t, LearnedEntries) # {}
    BY <2>0, <2>1, <2>2, SearchEnds
  <2> QED BY <2>3, <2>4 DEF LoadGoesOn
<1> QED BY <1>1, CacheKeeps, PTL

\* Nothing else happens while an entry is being loaded, and each step that does not
\* end the load takes one entry out of the cache: with cache_count for a variant,
\* the loop of queue_testcase_get ends.
THEOREM LoadsShrink == Spec => [][LoadShrinks]_vars
<1>1. ASSUME IInv, Next PROVE LoadShrinks
  <2>0. SUFFICES ASSUME want # 0
                 PROVE  want' = 0 \/ (want' = want /\ cache_count' = cache_count - 1)
    BY DEF LoadShrinks
  <2>1. Evict \/ LoadIntoSpace \/ NothingToEvict
    BY Zenon, <1>1, <2>0 DEF Next, queue_testcase_get, GetCached, GetUncached, GetMiss, trim_case,
         TrimInPlace, TrimPostProcessed, TrimCustom, Trimmed, Choose, AlreadyTrimmed,
         Abandon, Store
  <2> QED BY <2>1 DEF Evict, LoadIntoSpace, NothingToEvict, Load
<1>2. Spec => [][LoadShrinks]_vars
  BY <1>1, CacheKeeps, PTL DEF Spec
<1> QED BY <1>2
============================================================================
