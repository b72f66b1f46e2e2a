---------------------------- MODULE QueueProofs ----------------------------
(***************************************************************************)
(* The bookkeeping of the queue, for a map and a queue of any size, any    *)
(* number of rounds and restarts and all options: who holds a slot is      *)
(* counted, who is counted keeps its trace, and the counters agree with    *)
(* the flags; culling leaves no slot uncovered, and the entry the loop     *)
(* prefers is worked on alone and until it counts as fuzzed, or is left    *)
(* for one of two causes.                                                  *)
(***************************************************************************)
EXTENDS Queue, FiniteSetTheorems, WellFoundedInduction, TLAPS

(* Entries that hold no slot keep no trace, and neither do entries to come. *)
Traces ==
  /\ \A e \in Item : trace_mini[e] # {} => tc_ref[e] > 0
  /\ \A e \in Item \ Queued : trace_mini[e] = {}
  /\ ~rescored => \A e \in Item : trace_mini[e] \in {{}, q[e].trace}

(* Where the main loop works on an entry, there is one.                    *)
Current ==
  /\ pc \in {"chosen", "dice", "trim", "fuzz"} => queue_cur \in Queued
  /\ scored \subseteq Queued /\ todo \subseteq Slot \X Queued

(* Before the first round nothing is favored, redundant or fuzzed.         *)
Dry == pc = "dry_run" =>
  /\ smallest_favored = None /\ resumes = 0
  /\ \A e \in Item : /\ ~q[e].fs_redundant
                     /\ q[e].disabled \/ ~q[e].was_fuzzed

IInv == /\ TypeOK /\ TcRefCountsSlots /\ Traces /\ Current /\ Dry
        /\ SmallestIsPending /\ CountsAgree

-----------------------------------------------------------------------------
(* Cardinalities                                                           *)

(* Slots, entries and all sets of them are finite.                         *)
LEMMA Finite ==
  /\ IsFiniteSet(Slot) /\ IsFiniteSet(Item)
  /\ \A S \in SUBSET Slot : IsFiniteSet(S) /\ Cardinality(S) \in Nat
  /\ \A S \in SUBSET Item : IsFiniteSet(S) /\ Cardinality(S) \in Nat
<1>1. MapSize - 1 \in Int /\ MaxItems - 1 \in Int
  BY QueueAssumption
<1>2. IsFiniteSet(Slot) /\ IsFiniteSet(Item)
  BY <1>1, FS_Interval DEF Slot, Item
<1>. QED
  BY <1>2, FS_Subset, FS_CardinalityType

(* A set of entries has no more elements than one that contains it.        *)
LEMMA Larger ==
  ASSUME NEW T \in SUBSET Item, NEW S \in SUBSET T
  PROVE  Cardinality(S) <= Cardinality(T)
BY Finite, FS_Subset

(* One entry more counts for one.                                          *)
LEMMA OneMore ==
  ASSUME NEW S \in SUBSET Item, NEW x \in Item \ S
  PROVE  Cardinality(S \cup {x}) = Cardinality(S) + 1
BY Finite, FS_AddElement

(* One entry less counts for one.                                          *)
LEMMA OneLess ==
  ASSUME NEW S \in SUBSET Item, NEW x \in S
  PROVE  Cardinality(S \ {x}) = Cardinality(S) - 1 /\ Cardinality(S) > 0
<1>1. IsFiniteSet(S) /\ Cardinality(S) \in Nat /\ S # {}
  BY Finite
<1>. QED
  BY <1>1, FS_RemoveElement, FS_EmptySet

-----------------------------------------------------------------------------
(* The slots change hands: every count stays right, and whoever is left    *)
(* without a slot is left without a trace.                                 *)
LEMMA TakeCounts ==
  ASSUME TypeOK, TcRefCountsSlots, NEW e \in Item, NEW W \in SUBSET Slot,
         NEW t \in Trace, Take(e, W, t), resumes' = resumes
  PROVE  /\ top_rated' \in [Slot -> Item \cup {None}]
         /\ tc_ref' \in [Item -> Nat]
         /\ TcRefCountsSlots'
<1>1. top_rated' \in [Slot -> Item \cup {None}]
  BY DEF Take, TypeOK
<1> DEFINE H(p) == {i \in Slot : top_rated'[i] = p}
<1>2. ASSUME NEW p \in Item
      PROVE  /\ tc_ref'[p] \in Nat
             /\ tc_ref'[p] - Cardinality(H(p)) = tc_ref[p] - Cardinality(Holds(p))
  <2>1. /\ W \cap Holds(p) \in SUBSET Slot /\ Holds(p) \in SUBSET Slot
        /\ H(p) \in SUBSET Slot
    BY DEF Holds
  <2>2. /\ Cardinality(W) \in Nat /\ Cardinality(Holds(p)) \in Nat
        /\ Cardinality(W \cap Holds(p)) \in Nat
        /\ Cardinality(W \cap Holds(p)) <= Cardinality(W)
        /\ Cardinality(W \cap Holds(p)) <= Cardinality(Holds(p))
        /\ IsFiniteSet(W) /\ IsFiniteSet(Holds(p)) /\ Cardinality(H(p)) \in Nat
    BY <2>1, Finite, FS_Intersection, Zenon
  <2>3. tc_ref[p] \in Nat /\ tc_ref[p] >= Cardinality(Holds(p))
    BY DEF TypeOK, TcRefCountsSlots
  <2>4. tc_ref'[p] = tc_ref[p] - Cardinality(W \cap Holds(p))
                       + (IF p = e THEN Cardinality(W) ELSE 0)
    BY DEF Take
  <2>5. Cardinality(H(p)) = Cardinality(Holds(p)) - Cardinality(W \cap Holds(p))
                              + (IF p = e THEN Cardinality(W) ELSE 0)
    <3>0. Holds(p) \cap W = W \cap Holds(p)
      OBVIOUS
    <3>1. Cardinality(Holds(p) \cap W) = Cardinality(W \cap Holds(p))
      BY <3>0, Zenon
    <3>2. CASE p = e
      <4>1. H(p) = Holds(p) \cup W
        BY <3>2 DEF Take, Holds
      <4>2. Cardinality(Holds(p) \cup W) =
              Cardinality(Holds(p)) + Cardinality(W) - Cardinality(Holds(p) \cap W)
        BY <2>2, FS_Union
      <4>3. Cardinality(H(p)) = Cardinality(Holds(p) \cup W)
        BY <4>1, Zenon
      <4>. HIDE DEF H
      <4>. QED
        BY <2>2, <3>1, <3>2, <4>2, <4>3
    <3>3. CASE p # e
      <4>1. H(p) = Holds(p) \ W
        BY <3>3 DEF Take, Holds
      <4>2. Cardinality(Holds(p) \ W) =
              Cardinality(Holds(p)) - Cardinality(Holds(p) \cap W)
        BY <2>2, FS_Difference, Zenon
      <4>3. Cardinality(H(p)) = Cardinality(Holds(p) \ W)
        BY <4>1, Zenon
      <4>. HIDE DEF H
      <4>. QED
        BY <2>2, <3>1, <3>3, <4>2, <4>3
    <3>. QED
      BY <3>2, <3>3
  <2>. HIDE DEF H
  <2>6. CASE p = e
    BY <2>2, <2>3, <2>4, <2>5, <2>6
  <2>7. CASE p # e
    BY <2>2, <2>3, <2>4, <2>5, <2>7
  <2>. QED
    BY <2>6, <2>7
<1>3. tc_ref' = [p \in Item |-> tc_ref'[p]]
  BY DEF Take
<1>4. \A p \in Item : Cardinality(H(p)) \in Nat /\ Cardinality(Holds(p)) \in Nat
  BY Finite DEF Holds
<1>5. TcRefCountsSlots'
  <2>1. ASSUME NEW p \in Item
        PROVE  /\ tc_ref'[p] >= Cardinality(Holds(p)')
               /\ resumes' = 0 => tc_ref'[p] = Cardinality(Holds(p)')
    <3>1. Holds(p)' = H(p)
      BY DEF Holds
    <3>2. /\ tc_ref[p] \in Nat /\ tc_ref[p] >= Cardinality(Holds(p))
          /\ resumes = 0 => tc_ref[p] = Cardinality(Holds(p))
      BY DEF TcRefCountsSlots, TypeOK
    <3>. HIDE DEF H
    <3>. QED
      BY <1>2, <1>4, <3>1, <3>2
  <2>. QED
    BY <2>1 DEF TcRefCountsSlots
<1>. QED
  BY <1>1, <1>2, <1>3, <1>5, Zenon

(* Who takes slots keeps a trace, and who loses its last slot keeps none.  *)
LEMMA TakeTraces ==
  ASSUME TypeOK, TcRefCountsSlots, NEW e \in Item, NEW W \in SUBSET Slot,
         NEW t \in Trace, Take(e, W, t),
         \A p \in Item : trace_mini[p] # {} => tc_ref[p] > 0
  PROVE  /\ trace_mini' \in [Item -> Trace] /\ score_changed' \in BOOLEAN
         /\ \A p \in Item : trace_mini'[p] # {} => tc_ref'[p] > 0
         /\ \A p \in Item \ {e} : trace_mini'[p] \in {{}, trace_mini[p]}
         /\ trace_mini'[e] \in {t, trace_mini[e]}
<1>1. trace_mini' \in [Item -> Trace] /\ score_changed' \in BOOLEAN
  BY DEF Take, TypeOK, Trace
<1>2. /\ \A p \in Item \ {e} : trace_mini'[p] \in {{}, trace_mini[p]}
      /\ trace_mini'[e] \in {t, trace_mini[e]}
  BY DEF Take
<1>3. ASSUME NEW p \in Item, trace_mini'[p] # {}
      PROVE  tc_ref'[p] > 0
  <2>1. /\ W \cap Holds(p) \in SUBSET Slot /\ Holds(p) \in SUBSET Slot
    BY DEF Holds
  <2>2. /\ Cardinality(W) \in Nat /\ Cardinality(W \cap Holds(p)) \in Nat
        /\ Cardinality(W \cap Holds(p)) <= Cardinality(Holds(p))
        /\ Cardinality(Holds(p)) \in Nat
        /\ W # {} => Cardinality(W) > 0
        /\ W \cap Holds(p) = {} => Cardinality(W \cap Holds(p)) = 0
        /\ W = {} => Cardinality(W) = 0
    BY <2>1, Finite, FS_Intersection, FS_EmptySet
  <2>3. /\ tc_ref[p] \in Nat /\ tc_ref[p] >= Cardinality(Holds(p))
        /\ trace_mini[p] # {} => tc_ref[p] > 0
    BY DEF TypeOK, TcRefCountsSlots
  <2>4. tc_ref'[p] = tc_ref[p] - Cardinality(W \cap Holds(p))
                       + (IF p = e THEN Cardinality(W) ELSE 0)
    BY DEF Take
  <2>5. CASE p = e /\ W # {}
    BY <2>2, <2>3, <2>4, <2>5
  <2>6. CASE p = e /\ W = {}
    <3>1. trace_mini'[p] = trace_mini[p]
      BY <2>6 DEF Take
    <3>2. W \cap Holds(p) = {}
      BY <2>6
    <3>. QED
      BY <1>3, <2>2, <2>3, <2>4, <2>6, <3>1, <3>2
  <2>7. CASE p # e /\ W \cap Holds(p) = {}
    <3>1. trace_mini'[p] = trace_mini[p]
      BY <2>7 DEF Take
    <3>. QED
      BY <1>3, <2>2, <2>3, <2>4, <2>7, <3>1
  <2>8. CASE p # e /\ W \cap Holds(p) # {}
    <3>1. tc_ref'[p] # 0
      BY <1>3, <2>8 DEF Take
    <3>. QED
      BY <2>2, <2>3, <2>4, <2>8, <3>1
  <2>. QED
    BY <2>5, <2>6, <2>7, <2>8
<1>. QED
  BY <1>1, <1>2, <1>3

-----------------------------------------------------------------------------
(* What the counters depend on                                             *)

SameFlags(r) == \A e \in Item :
  /\ r[e].trace = q[e].trace /\ r[e].was_fuzzed = q[e].was_fuzzed
  /\ r[e].favored = q[e].favored /\ r[e].fs_redundant = q[e].fs_redundant
  /\ r[e].disabled = q[e].disabled
  /\ r[e].tightness_novel = q[e].tightness_novel

(* The entries in the queue are the numbers below queued_items.            *)
LEMMA QueuedItems ==
  ASSUME TypeOK
  PROVE  /\ queued_items \in Nat
         /\ Queued \subseteq Item /\ \A e \in Item : e \in Queued <=> e < queued_items
         /\ Item \subseteq Nat /\ None \notin Item
<1>1. queued_items \in Nat /\ queued_items <= MaxItems /\ MaxItems \in Nat
  BY QueueAssumption DEF TypeOK
<1>. QED
  BY <1>1 DEF Queued, Item, None

(* Steps that leave the flags alone keep the counters right.               *)
LEMMA FlagsKept ==
  ASSUME TypeOK, SameFlags(q'), SmallestIsPending, CountsAgree,
         UNCHANGED <<queued_items, selection, totals, resumes>>
  PROVE  SmallestIsPending' /\ CountsAgree'
<1>0. Queued' = Queued /\ Queued \subseteq Item
  BY QueuedItems DEF Queued
<1>1. /\ Unfuzzed' = Unfuzzed /\ Active' = Active /\ Spared' = Spared
      /\ Pending' = Pending
      /\ {e \in Pending : ~q[e].tightness_novel}' =
           {e \in Pending : ~q[e].tightness_novel}
  BY <1>0 DEF SameFlags, Unfuzzed, Active, Spared, Pending
<1>2. SmallestIsPending'
  BY <1>1, Zenon DEF SmallestIsPending, selection
<1>3. CountsAgree'
  BY <1>1, Zenon DEF CountsAgree, totals
<1>. QED
  BY <1>2, <1>3

(* A new entry is either counted, or disabled and fuzzed.                  *)
LEMMA NewEntry ==
  ASSUME IInv, NEW n \in Entry, queued_items < MaxItems,
         q' = [q EXCEPT ![queued_items] = n], queued_items' = queued_items + 1,
         ~n.favored, ~n.fs_redundant, n.disabled = n.was_fuzzed,
         pending_not_fuzzed' = pending_not_fuzzed + (IF n.disabled THEN 0 ELSE 1),
         active_items' = active_items + (IF n.disabled THEN 0 ELSE 1),
         UNCHANGED <<selection, resumes>>
  PROVE  /\ q' \in [Item -> Entry] /\ queued_items' \in 0 .. MaxItems
         /\ Queued \subseteq Queued' /\ queued_items \in Item \ Queued
         /\ SmallestIsPending' /\ CountsAgree'
<1> DEFINE e == queued_items
<1>. USE DEF IInv
<1>0. e \in Item /\ e \notin Queued /\ Queued' = Queued \cup {e} /\ Queued \subseteq Item
  <2>1. queued_items \in Nat /\ MaxItems \in Nat
    BY QueuedItems, QueueAssumption
  <2>. QED
    BY <2>1 DEF Queued, Item
<1>1. q' \in [Item -> Entry] /\ queued_items' \in 0 .. MaxItems
  BY <1>0, QueueAssumption DEF TypeOK
<1>2. q'[e] = n /\ \A d \in Queued : q'[d] = q[d]
  BY <1>0 DEF TypeOK
<1>3. /\ Spared' = Spared /\ Pending' = Pending
      /\ {d \in Pending : ~q[d].tightness_novel}' =
           {d \in Pending : ~q[d].tightness_novel}
  BY <1>0, <1>2 DEF Spared, Pending, Unfuzzed
<1>4. /\ Unfuzzed \in SUBSET Item /\ Active \in SUBSET Item
      /\ Spared \in SUBSET Item
      /\ e \notin Unfuzzed \cup Active \cup Spared
  BY <1>0 DEF Unfuzzed, Active, Spared
<1>5. CASE n.disabled
  <2>1. Unfuzzed' = Unfuzzed /\ Active' = Active
    BY <1>0, <1>2, <1>5, Zenon DEF Unfuzzed, Active
  <2>2. SmallestIsPending'
    BY <1>3, <2>1, Zenon DEF SmallestIsPending, selection
  <2>3. pending_not_fuzzed' = pending_not_fuzzed /\ active_items' = active_items
    BY <1>5 DEF TypeOK
  <2>4. CountsAgree'
    BY <1>3, <2>1, <2>3, Zenon DEF CountsAgree
  <2>. QED
    BY <1>0, <1>1, <2>2, <2>4
<1>6. CASE ~n.disabled
  <2>1. Unfuzzed' = Unfuzzed \cup {e} /\ Active' = Active \cup {e}
    BY <1>0, <1>2, <1>6 DEF Unfuzzed, Active
  <2>2. Pending \cap Active' = Pending \cap Active
    BY <1>4, <2>1 DEF Pending, Unfuzzed
  <2>3. SmallestIsPending'
    BY <1>3, <2>2, Zenon DEF SmallestIsPending, selection
  <2>4. /\ (Unfuzzed \cap Active)' = (Unfuzzed \cap Active) \cup {e}
        /\ (Active \cup Spared)' = (Active \cup Spared) \cup {e}
    BY <1>3, <2>1
  <2>5. /\ Cardinality(Unfuzzed') = Cardinality(Unfuzzed) + 1
        /\ Cardinality(Active') = Cardinality(Active) + 1
        /\ Cardinality((Unfuzzed \cap Active)') = Cardinality(Unfuzzed \cap Active) + 1
        /\ Cardinality((Active \cup Spared)') = Cardinality(Active \cup Spared) + 1
    BY <1>0, <1>4, <2>1, <2>4, OneMore, Zenon
  <2>6. /\ Cardinality(Unfuzzed) \in Nat /\ Cardinality(Active) \in Nat
        /\ Cardinality(Unfuzzed \cap Active) \in Nat
        /\ Cardinality(Active \cup Spared) \in Nat
    BY <1>4, Finite
  <2>7. /\ pending_not_fuzzed' = pending_not_fuzzed + 1
        /\ active_items' = active_items + 1
    BY <1>6
  <2>8. CountsAgree'
    BY <2>5, <2>6, <2>7, SMT DEF CountsAgree
  <2>. QED
    BY <1>0, <1>1, <2>3, <2>8
<1>. QED
  BY <1>5, <1>6

(* fuzz_one gives an entry back: if it counts as fuzzed for the first time *)
(* it leaves the counts of entries to be fuzzed.                           *)
LEMMA Abandoned ==
  ASSUME IInv, queue_cur \in Queued, NEW r \in [Item -> Entry], SameFlags(r),
         NEW skipped \in BOOLEAN, abandon_entry(r, skipped),
         UNCHANGED <<queued_items, active_items, resumes>>
  PROVE  /\ q' \in [Item -> Entry] /\ rounds' \in Nat /\ pc' \in {"select", "sync"}
         /\ pending_favored' \in Nat /\ pending_not_fuzzed' \in Nat
         /\ smallest_favored' \in Item \cup {None}
         /\ \A e \in Item : q'[e].trace = q[e].trace
         /\ SmallestIsPending' /\ CountsAgree'
<1> DEFINE c == queue_cur
           first == r[c].cal_failed = 0 /\ ~r[c].was_fuzzed /\ ~r[c].disabled
<1>. USE DEF IInv
<1>0. c \in Item /\ Queued' = Queued /\ Queued \subseteq Item
  BY QueuedItems DEF Queued
<1>1. q' = [r EXCEPT ![c].was_fuzzed = @ \/ first,
                     ![c].fuzz_level = IF @ < MaxLevel THEN @ + 1 ELSE @]
  BY DEF abandon_entry
<1>2. q' \in [Item -> Entry]
  <2> DEFINE fuzzed == r[c].was_fuzzed \/ first
             level  == IF r[c].fuzz_level < MaxLevel THEN r[c].fuzz_level + 1
                       ELSE r[c].fuzz_level
  <2>1. r[c] \in Entry
    BY <1>0
  <2>2. fuzzed \in BOOLEAN /\ level \in Nat
    BY <2>1 DEF Entry
  <2>3. q' = [r EXCEPT ![c] = [r[c] EXCEPT !.was_fuzzed = fuzzed,
                                           !.fuzz_level = level]]
    BY <1>0, <1>1, Zenon
  <2>. HIDE DEF fuzzed, level
  <2>4. [r[c] EXCEPT !.was_fuzzed = fuzzed, !.fuzz_level = level] \in Entry
    BY <2>1, <2>2, Zenon DEF Entry
  <2>. QED
    BY <1>0, <2>3, <2>4
<1>3. \A e \in Item :
        /\ q'[e].trace = q[e].trace /\ q'[e].favored = q[e].favored
        /\ q'[e].fs_redundant = q[e].fs_redundant
        /\ q'[e].disabled = q[e].disabled
        /\ q'[e].tightness_novel = q[e].tightness_novel
        /\ q'[e].was_fuzzed = (q[e].was_fuzzed \/ (e = c /\ first))
  BY <1>0, <1>1 DEF SameFlags, Entry
<1>4. /\ rounds' \in Nat /\ pc' \in {"select", "sync"}
      /\ pending_favored' \in Nat /\ pending_not_fuzzed' \in Nat
      /\ smallest_favored' \in Item \cup {None}
  BY DEF abandon_entry, TypeOK, Reduced, selection
<1>5. Active' = Active /\ Spared' = Spared
  BY <1>0, <1>3 DEF Active, Spared
<1>6. CASE ~first
  <2>1. SameFlags(q')
    BY <1>0, <1>3, <1>6 DEF SameFlags, TypeOK, Entry
  <2>2. UNCHANGED <<queued_items, selection, totals, resumes>>
    BY <1>6 DEF abandon_entry, totals
  <2>. QED
    BY <1>2, <1>3, <1>4, <2>1, <2>2, FlagsKept
<1>7. CASE first
  <2>1. c \in Unfuzzed /\ c \in Active
    BY <1>0, <1>7 DEF SameFlags, Unfuzzed, Active
  <2>2. /\ Unfuzzed' = Unfuzzed \ {c}
        /\ (Unfuzzed \cap Active)' = (Unfuzzed \cap Active) \ {c}
    BY <1>0, <1>3, <1>5, <1>7, Zenon DEF Unfuzzed
  <2>3. Unfuzzed \in SUBSET Item /\ Active \in SUBSET Item /\ Spared \in SUBSET Item
    BY <1>0 DEF Unfuzzed, Active, Spared
  <2>4. /\ Cardinality(Unfuzzed') = Cardinality(Unfuzzed) - 1
        /\ Cardinality((Unfuzzed \cap Active)') = Cardinality(Unfuzzed \cap Active) - 1
        /\ Cardinality(Unfuzzed \cap Active) > 0
        /\ Cardinality(Unfuzzed) > 0
    <3>1. /\ Unfuzzed \cap Active \in SUBSET Item /\ c \in Unfuzzed \cap Active
      BY <2>1, <2>3
    <3>2. /\ Cardinality(Unfuzzed') = Cardinality(Unfuzzed \ {c})
          /\ Cardinality((Unfuzzed \cap Active)') = Cardinality((Unfuzzed \cap Active) \ {c})
      BY <2>2, Zenon
    <3>. QED
      BY <2>1, <2>3, <3>1, <3>2, OneLess
  <2>5. /\ Cardinality(Unfuzzed) \in Nat /\ Cardinality(Active) \in Nat
        /\ Cardinality(Unfuzzed \cap Active) \in Nat
        /\ Cardinality(Active \cup Spared) \in Nat
    BY <2>3, Finite
  <2>6. pending_not_fuzzed' = pending_not_fuzzed - 1
    <3>1. pending_not_fuzzed > 0
      BY <2>4, <2>5 DEF CountsAgree, TypeOK
    <3>2. pending_not_fuzzed' = Reduced(pending_not_fuzzed)
      BY <1>7 DEF abandon_entry
    <3>. QED
      BY <3>1, <3>2 DEF Reduced
  <2>7. /\ Cardinality(Active') = Cardinality(Active)
        /\ Cardinality((Active \cup Spared)') = Cardinality(Active \cup Spared)
    BY <1>5, Zenon
  <2>8. CountsAgree'
    BY <2>4, <2>5, <2>6, <2>7, SMT DEF CountsAgree
  <2>9. CASE q[c].favored
    <3>1. smallest_favored' = None
      BY <1>0, <1>7, <2>9 DEF abandon_entry, SameFlags
    <3>. QED
      BY <1>2, <1>3, <1>4, <2>8, <3>1 DEF SmallestIsPending
  <2>10. CASE ~q[c].favored
    <3>1. UNCHANGED selection
      BY <1>0, <1>7, <2>10 DEF abandon_entry, SameFlags
    <3>2. /\ Pending' = Pending
          /\ {e \in Pending : ~q[e].tightness_novel}' =
               {e \in Pending : ~q[e].tightness_novel}
      BY <1>0, <1>3, <2>2, <2>10 DEF Pending, Unfuzzed
    <3>3. SmallestIsPending'
      BY <1>5, <3>1, <3>2, Zenon DEF SmallestIsPending, selection
    <3>. QED
      BY <1>2, <1>3, <1>4, <2>8, <3>3
  <2>. QED
    BY <2>9, <2>10
<1>. QED
  BY <1>6, <1>7

-----------------------------------------------------------------------------
(* What happens to the slots and the traces                                *)

ScoreTypes ==
  /\ tc_ref \in [Item -> Nat] /\ trace_mini \in [Item -> Trace]
  /\ top_rated \in [Slot -> Item \cup {None}] /\ score_changed \in BOOLEAN

(* Steps that leave slots and traces alone keep what is said of them.      *)
LEMMA ScoresKept ==
  ASSUME IInv, UNCHANGED <<scores, rescored, resumes>>,
         Queued \subseteq Queued', Queued' \subseteq Item,
         \A e \in Queued : q'[e].trace = q[e].trace
  PROVE  ScoreTypes' /\ TcRefCountsSlots' /\ Traces'
<1>1. ScoreTypes'
  BY DEF IInv, TypeOK, ScoreTypes, scores
<1>2. TcRefCountsSlots'
  <2>1. \A e \in Item : Holds(e)' = Holds(e)
    BY Zenon DEF Holds, scores
  <2>. QED
    BY <2>1, Zenon DEF IInv, TcRefCountsSlots, scores
<1>3. Traces'
  BY DEF IInv, Traces, scores
<1>. QED
  BY <1>1, <1>2, <1>3

(* update_bitmap_score keeps it as well.                                   *)
LEMMA Rescored ==
  ASSUME IInv, NEW r \in [Item -> Entry], NEW e \in Item,
         update_bitmap_score(r, e), UNCHANGED <<rescored, resumes>>,
         Queued \subseteq Queued', Queued' \subseteq Item, e \in Queued',
         \A d \in Item : q'[d].trace = r[d].trace,
         \A d \in Queued : q'[d].trace = q[d].trace
  PROVE  ScoreTypes' /\ TcRefCountsSlots' /\ Traces'
<1> DEFINE W == Won(r, e)
           t == r[e].trace
<1>1. t \in Trace /\ W \in SUBSET Slot /\ Take(e, W, t)
  BY DEF Entry, Trace, Won, update_bitmap_score
<1>2. \A p \in Item : trace_mini[p] # {} => tc_ref[p] > 0
  BY DEF IInv, Traces
<1>. HIDE DEF W, t
<1>3. /\ top_rated' \in [Slot -> Item \cup {None}] /\ tc_ref' \in [Item -> Nat]
      /\ TcRefCountsSlots'
  BY <1>1, TakeCounts, Zenon DEF IInv
<1>4. /\ trace_mini' \in [Item -> Trace] /\ score_changed' \in BOOLEAN
      /\ \A p \in Item : trace_mini'[p] # {} => tc_ref'[p] > 0
      /\ \A p \in Item \ {e} : trace_mini'[p] \in {{}, trace_mini[p]}
      /\ trace_mini'[e] \in {t, trace_mini[e]}
  BY <1>1, <1>2, TakeTraces, Zenon DEF IInv
<1>5. \A p \in Item \ Queued' : trace_mini'[p] = {}
  BY <1>4 DEF IInv, Traces
<1>6. ASSUME ~rescored', NEW p \in Item
      PROVE  trace_mini'[p] \in {{}, q'[p].trace}
  <2>1. trace_mini[p] \in {{}, q[p].trace} /\ (p \notin Queued => trace_mini[p] = {})
    BY <1>6 DEF IInv, Traces
  <2>2. CASE p = e
    BY <1>4, <2>1, <2>2 DEF t
  <2>3. CASE p # e
    BY <1>4, <2>1, <2>3
  <2>. QED
    BY <2>2, <2>3
<1>7. Traces'
  BY <1>4, <1>5, <1>6 DEF Traces
<1>. QED
  BY <1>3, <1>4, <1>7 DEF ScoreTypes

-----------------------------------------------------------------------------
(* The actions, one by one                                                 *)

(* The steps that only move the main loop on.                              *)
LEMMA Moved ==
  ASSUME IInv, UNCHANGED <<queued_items, q, scores, selection, totals, rescored, resumes>>
  PROVE  /\ ScoreTypes' /\ TcRefCountsSlots' /\ Traces'
         /\ SmallestIsPending' /\ CountsAgree' /\ Queued' = Queued
<1>1. Queued' = Queued /\ Queued \subseteq Item
  BY QueuedItems DEF Queued, IInv
<1>2. SameFlags(q')
  BY DEF SameFlags
<1>. QED
  BY <1>1, <1>2, ScoresKept, FlagsKept DEF IInv

(* The steps that only move the main loop on.                              *)
LEMMA MovedSteps ==
  ASSUME IInv,
         \/ NoSeeds \/ NothingToCull \/ SameCycle \/ EndRescore \/ NothingActive
         \/ CustomAccepts \/ Skip \/ Proceed \/ EndRound \/ Stop
  PROVE  IInv'
<1>1. UNCHANGED <<queued_items, q, scores, selection, totals, rescored, resumes>>
  BY Zenon DEF NoSeeds, NothingToCull, SameCycle, EndRescore, NothingActive,
         CustomAccepts, Skip, Proceed, EndRound, Stop, rescore
<1>2. /\ ScoreTypes' /\ TcRefCountsSlots' /\ Traces'
      /\ SmallestIsPending' /\ CountsAgree' /\ Queued' = Queued
  BY <1>1, Moved
<1>3. /\ pc' \in {"fatal", "cycle", "select", "dice", "trim", "cull", "stopped"}
      /\ pc' \in {"dice", "trim"} => pc \in {"chosen", "dice"}
      /\ UNCHANGED <<queue_cur, queue_cycle, scored, last_scored_idx, todo, rounds>>
      /\ trace_bits' \in {trace_bits, {}}
  BY Zenon DEF NoSeeds, NothingToCull, SameCycle, EndRescore, NothingActive,
         CustomAccepts, Skip, Proceed, EndRound, Stop, rescore, cycle
<1>4. runs_in_current_cycle' \in Nat
  <2>1. CASE SameCycle
    <3>1. runs_in_current_cycle + 1 \in Nat /\ UINT_MAX + 1 \in Nat \ {0}
      BY QueueAssumption DEF IInv, TypeOK
    <3>. QED
      BY <2>1, <3>1 DEF SameCycle
  <2>2. CASE ~SameCycle
    BY <2>2, Zenon DEF NoSeeds, NothingToCull, EndRescore, NothingActive,
         CustomAccepts, Skip, Proceed, EndRound, Stop, cycle, IInv, TypeOK
  <2>. QED
    BY <2>1, <2>2
<1>5. TypeOK'
  BY Zenon, <1>1, <1>2, <1>3, <1>4
     DEF IInv, TypeOK, ScoreTypes, selection, totals, Trace
<1>6. Current' /\ Dry'
  BY <1>1, <1>2, <1>3 DEF IInv, Current, Dry, TypeOK
<1>. QED
  BY <1>2, <1>5, <1>6 DEF IInv

(* The choice of the next entry.                                           *)
LEMMA SelectSteps ==
  ASSUME IInv, SelectFavorite \/ SelectAlias
  PROVE  IInv'
<1>1. UNCHANGED <<queued_items, q, scores, selection, totals, rescored, resumes>>
  BY DEF SelectFavorite, SelectAlias, rescore
<1>2. /\ ScoreTypes' /\ TcRefCountsSlots' /\ Traces'
      /\ SmallestIsPending' /\ CountsAgree' /\ Queued' = Queued
  BY <1>1, Moved
<1>3. pc' = "chosen" /\ UNCHANGED <<cycle, rescore, rounds>>
  BY DEF SelectFavorite, SelectAlias
<1>4. queue_cur' \in Queued /\ Queued \subseteq Item
  BY QueuedItems DEF SelectFavorite, SelectAlias, Favorite, IInv,
     SmallestIsPending, Pending, Unfuzzed, Active
<1>5. TypeOK'
  BY <1>1, <1>2, <1>3, <1>4
     DEF IInv, TypeOK, ScoreTypes, selection, totals, cycle, rescore
<1>6. Current' /\ Dry'
  BY <1>1, <1>2, <1>3, <1>4 DEF IInv, Current, Dry, rescore
<1>. QED
  BY <1>2, <1>5, <1>6 DEF IInv

(* The start of a new cycle of the queue.                                  *)
LEMMA NewCycleStep ==
  ASSUME IInv, NewCycle
  PROVE  IInv'
<1>1. UNCHANGED <<queued_items, q, scores, selection, totals, rescored, resumes>>
  BY DEF NewCycle, rescore
<1>2. /\ ScoreTypes' /\ TcRefCountsSlots' /\ Traces'
      /\ SmallestIsPending' /\ CountsAgree' /\ Queued' = Queued
  BY <1>1, Moved
<1>3. /\ pc' \in {"select", "rescore"} /\ UNCHANGED <<queue_cur, rounds>>
      /\ queue_cycle' = queue_cycle + 1 /\ runs_in_current_cycle' = 0
  BY DEF NewCycle
<1>4. /\ scored' \subseteq Queued /\ todo' \subseteq Slot \X Queued
      /\ last_scored_idx' \in Item \cup {None} /\ trace_bits' \in Trace
  <2>1. CASE CycleSchedules
    <3> DEFINE new == {e \in last_scored_idx + 1 .. queued_items - 1 : ~q[e].disabled}
    <3>1. /\ scored' = scored \cup new /\ last_scored_idx' = queued_items - 1
          /\ trace_bits' \in Trace \ {{}} /\ todo' \subseteq Slot \X scored'
      BY <2>1 DEF NewCycle
    <3>2. /\ last_scored_idx \in Int /\ last_scored_idx >= -1
          /\ queued_items \in 0 .. MaxItems /\ MaxItems \in Nat
      <4>1. last_scored_idx \in Item \cup {None} /\ queued_items \in 0 .. MaxItems
        BY DEF IInv, TypeOK
      <4>. QED
        BY <4>1, QueueAssumption DEF Item, None
    <3>3. new \subseteq Queued
      BY <3>2 DEF Queued
    <3>4. queued_items - 1 \in Item \cup {None}
      BY <3>2 DEF Item, None
    <3>. HIDE DEF new
    <3>. QED
      BY <3>1, <3>3, <3>4 DEF IInv, Current
  <2>2. CASE ~CycleSchedules
    BY <2>2 DEF NewCycle, IInv, Current, TypeOK, rescore
  <2>. QED
    BY <2>1, <2>2
<1>5. Queued \subseteq Item
  BY QueuedItems DEF IInv
<1>6. TypeOK'
  BY <1>1, <1>2, <1>3, <1>4, <1>5
     DEF IInv, TypeOK, ScoreTypes, selection, totals
<1>7. Current' /\ Dry'
  BY <1>1, <1>2, <1>3, <1>4 DEF IInv, Current, Dry
<1>. QED
  BY <1>2, <1>6, <1>7 DEF IInv

(* recalculate_all_scores, one entry at a time.                            *)
LEMMA RescoreStep ==
  ASSUME IInv, Rescore
  PROVE  IInv'
<1>1. PICK x \in todo : /\ Take(x[2], Won(q, x[2]) \cap {x[1]}, trace_bits)
                        /\ todo' = todo \ {x}
  BY Zenon DEF Rescore
<1> DEFINE e == x[2]
           W == Won(q, e) \cap {x[1]}
<1>2. /\ UNCHANGED <<pc, queued_items, q, selection, totals, queue_cur, cycle, scored,
                     last_scored_idx, trace_bits, rounds, resumes>>
      /\ rescored' = TRUE
  BY DEF Rescore
<1>3. /\ e \in Queued /\ Queued \subseteq Item /\ Queued' = Queued
      /\ W \in SUBSET Slot /\ trace_bits \in Trace /\ Take(e, W, trace_bits)
  BY <1>1, <1>2, QueuedItems DEF IInv, Current, TypeOK, Queued
<1>4. \A p \in Item : trace_mini[p] # {} => tc_ref[p] > 0
  BY DEF IInv, Traces
<1>. HIDE DEF e, W
<1>5. /\ top_rated' \in [Slot -> Item \cup {None}] /\ tc_ref' \in [Item -> Nat]
      /\ TcRefCountsSlots'
  BY <1>2, <1>3, TakeCounts DEF IInv
<1>6. /\ trace_mini' \in [Item -> Trace] /\ score_changed' \in BOOLEAN
      /\ \A p \in Item : trace_mini'[p] # {} => tc_ref'[p] > 0
      /\ \A p \in Item \ {e} : trace_mini'[p] \in {{}, trace_mini[p]}
      /\ trace_mini'[e] \in {trace_bits, trace_mini[e]}
  BY <1>3, <1>4, TakeTraces, ZenonT(30) DEF IInv
<1>7. Traces'
  BY Zenon, <1>2, <1>3, <1>6 DEF IInv, Traces
<1>8. SmallestIsPending' /\ CountsAgree'
  <2>1. SameFlags(q')
    BY <1>2 DEF SameFlags
  <2>. QED
    BY <1>2, <2>1, FlagsKept DEF IInv
<1>9. TypeOK'
  BY Zenon, <1>1, <1>2, <1>5, <1>6 DEF IInv, TypeOK, selection, totals, cycle
<1>10. Current' /\ Dry'
  BY Zenon, <1>1, <1>2, <1>3 DEF IInv, Current, Dry, selection
<1>. QED
  BY <1>5, <1>7, <1>8, <1>9, <1>10 DEF IInv

(* An entry just added has its type.                                       *)
LEMMA FreshEntry ==
  ASSUME NEW t \in Trace, NEW f \in Nat
  PROVE  Fresh(t, f) \in Entry
BY DEF Fresh, Entry

(* A seed that calibrates in the dry run.                                  *)
LEMMA SeedWorksStep ==
  ASSUME IInv, SeedWorks
  PROVE  IInv'
<1>1. PICK t \in Trace \ {{}}, f \in 1 .. MaxFactor :
        LET r == [q EXCEPT ![queued_items] = Fresh(t, f)] IN
          q' = r /\ update_bitmap_score(r, queued_items)
  BY Zenon DEF SeedWorks
<1> DEFINE n == Fresh(t, f)
           r == [q EXCEPT ![queued_items] = n]
<1>2. n \in Entry /\ n.trace = t /\ ~n.favored /\ ~n.fs_redundant
      /\ n.disabled = FALSE /\ n.was_fuzzed = FALSE
  <2>1. f \in Nat
    BY QueueAssumption
  <2>. QED
    BY <2>1, FreshEntry DEF Fresh
<1>3. /\ q' = r /\ update_bitmap_score(r, queued_items)
      /\ pc = "dry_run" /\ queued_items < MaxItems /\ queued_items' = queued_items + 1
      /\ pending_not_fuzzed' = pending_not_fuzzed + 1
      /\ active_items' = active_items + 1
      /\ UNCHANGED <<pc, selection, queue_cur, cycle, rescore, rounds, resumes>>
  BY <1>1, Zenon DEF SeedWorks
<1>. HIDE DEF n
<1>4. /\ q' \in [Item -> Entry] /\ queued_items' \in 0 .. MaxItems
      /\ Queued \subseteq Queued' /\ queued_items \in Item \ Queued
      /\ SmallestIsPending' /\ CountsAgree'
  BY <1>2, <1>3, NewEntry, Zenon
<1>5. Queued' \subseteq Item /\ Queued \subseteq Item /\ queued_items \in Queued'
  <2>1. queued_items \in Nat /\ queued_items' = queued_items + 1
        /\ queued_items' <= MaxItems /\ MaxItems \in Nat
    BY <1>3, QueuedItems, QueueAssumption DEF IInv
  <2>. QED
    BY <2>1 DEF Queued, Item
<1>6. /\ \A d \in Queued : q'[d] = q[d]
      /\ \A d \in Item : q'[d] \in {q[d], n}
  BY <1>3, <1>4, <1>5 DEF IInv, TypeOK
<1>7. ScoreTypes' /\ TcRefCountsSlots' /\ Traces'
  <2>1. UNCHANGED <<rescored, resumes>>
    BY <1>3 DEF rescore
  <2>. QED
    BY <1>3, <1>4, <1>5, <1>6, <2>1, Rescored, ZenonT(30)
<1>8. TypeOK'
  BY <1>3, <1>4, <1>7
     DEF IInv, TypeOK, ScoreTypes, selection, cycle, rescore
<1>9. Current' /\ Dry'
  BY Zenon, <1>2, <1>3, <1>4, <1>5, <1>6 DEF IInv, Current, Dry, selection, rescore
<1>. QED
  BY <1>4, <1>7, <1>8, <1>9 DEF IInv

(* A seed that does not calibrate there.                                  *)
LEMMA SeedFailsStep ==
  ASSUME IInv, SeedFails
  PROVE  IInv'
<1> DEFINE n == [Fresh({}, 1) EXCEPT !.cal_failed = 1, !.disabled = TRUE,
                                     !.was_fuzzed = TRUE]
<1>1. n \in Entry /\ ~n.favored /\ ~n.fs_redundant
      /\ n.disabled = TRUE /\ n.was_fuzzed = TRUE
  BY Zenon DEF Fresh, Entry, Trace
<1>2. /\ q' = [q EXCEPT ![queued_items] = n]
      /\ pc = "dry_run" /\ queued_items < MaxItems /\ queued_items' = queued_items + 1
      /\ UNCHANGED <<pc, scores, selection, totals, queue_cur, cycle, rescore,
                     rounds, resumes>>
  BY DEF SeedFails
<1>. HIDE DEF n
<1>3. /\ q' \in [Item -> Entry] /\ queued_items' \in 0 .. MaxItems
      /\ Queued \subseteq Queued' /\ queued_items \in Item \ Queued
      /\ SmallestIsPending' /\ CountsAgree'
  <2>1. pending_not_fuzzed \in Nat /\ active_items \in Nat
    BY DEF IInv, TypeOK
  <2>2. /\ pending_not_fuzzed' = pending_not_fuzzed + (IF n.disabled THEN 0 ELSE 1)
        /\ active_items' = active_items + (IF n.disabled THEN 0 ELSE 1)
    BY <1>1, <1>2, <2>1 DEF totals
  <2>3. n.disabled = n.was_fuzzed /\ UNCHANGED <<selection, resumes>>
    BY <1>1, <1>2, Zenon
  <2>. QED
    BY <1>1, <1>2, <2>2, <2>3, NewEntry, Zenon
<1>4. Queued' \subseteq Item /\ Queued \subseteq Item
  <2>1. queued_items \in Nat /\ queued_items' = queued_items + 1
        /\ queued_items' <= MaxItems /\ MaxItems \in Nat
    BY <1>2, QueuedItems, QueueAssumption DEF IInv
  <2>. QED
    BY <2>1 DEF Queued, Item
<1>5. /\ \A d \in Queued : q'[d] = q[d]
      /\ \A d \in Item : q'[d] \in {q[d], n}
  BY <1>2, <1>3, <1>4 DEF IInv, TypeOK
<1>6. ScoreTypes' /\ TcRefCountsSlots' /\ Traces'
  <2>1. UNCHANGED <<rescored, resumes>>
    BY <1>2 DEF rescore
  <2>. QED
    BY <1>2, <1>3, <1>4, <1>5, <2>1, ScoresKept
<1>7. TypeOK'
  BY <1>2, <1>3, <1>6
     DEF IInv, TypeOK, ScoreTypes, selection, totals, cycle, rescore
<1>8. Current' /\ Dry'
  BY <1>1, <1>2, <1>3, <1>4, <1>5 DEF IInv, Current, Dry, selection, rescore
<1>. QED
  BY <1>3, <1>6, <1>7, <1>8 DEF IInv

(* A find added to the queue.                                              *)
LEMMA FindStep ==
  ASSUME IInv, Find
  PROVE  IInv'
<1>1. PICK t \in Trace \ {{}}, f \in 0 .. MaxFactor :
        LET r == [q EXCEPT ![queued_items] = Fresh(t, f)] IN
          \/ q' = r /\ update_bitmap_score(r, queued_items)
          \/ q' = CalFailed(r, queued_items) /\ UNCHANGED scores
  BY DEF Find
<1> DEFINE n == Fresh(t, f)
           r == [q EXCEPT ![queued_items] = n]
<1>2. n \in Entry /\ n.trace = t /\ ~n.favored /\ ~n.fs_redundant
      /\ n.disabled = FALSE /\ n.was_fuzzed = FALSE
  <2>1. f \in Nat
    BY QueueAssumption
  <2>. QED
    BY <2>1, FreshEntry DEF Fresh
<1>3. /\ pc \in {"fuzz", "sync"} /\ queued_items < MaxItems
      /\ queued_items' = queued_items + 1
      /\ pending_not_fuzzed' = pending_not_fuzzed + 1
      /\ active_items' = active_items + 1
      /\ UNCHANGED <<pc, selection, queue_cur, cycle, rescore, rounds, resumes>>
      /\ UNCHANGED <<rescored, resumes>>
  BY DEF Find, rescore
<1>4. queued_items \in Item /\ Queued' \subseteq Item /\ Queued \subseteq Item
      /\ queued_items \in Queued' /\ Queued \subseteq Queued' /\ queued_items \notin Queued
  <2>1. queued_items \in Nat /\ queued_items' = queued_items + 1
        /\ queued_items' <= MaxItems /\ MaxItems \in Nat
    BY <1>3, QueuedItems, QueueAssumption DEF IInv
  <2>. QED
    BY <2>1 DEF Queued, Item
<1>5. /\ q' \in [Item -> Entry] /\ queued_items' \in 0 .. MaxItems
      /\ SmallestIsPending' /\ CountsAgree'
      /\ ScoreTypes' /\ TcRefCountsSlots' /\ Traces'
  <2>1. CASE q' = r /\ update_bitmap_score(r, queued_items)
    <3>. HIDE DEF n
    <3>1. /\ q' \in [Item -> Entry] /\ queued_items' \in 0 .. MaxItems
          /\ SmallestIsPending' /\ CountsAgree'
      BY <1>2, <1>3, <2>1, NewEntry, Zenon
    <3>2. \A d \in Queued : q'[d] = q[d]
      BY <1>4, <2>1 DEF IInv, TypeOK
    <3>3. ScoreTypes' /\ TcRefCountsSlots' /\ Traces'
      BY <1>3, <1>4, <2>1, <3>1, <3>2, Rescored, Zenon
    <3>. QED
      BY <3>1, <3>3
  <2>2. CASE q' = CalFailed(r, queued_items) /\ UNCHANGED scores
    <3> DEFINE m == [n EXCEPT !.cal_failed = @ + 1]
    <3>1. q' = [q EXCEPT ![queued_items] = m]
      BY <1>4, <2>2, Zenon DEF CalFailed, IInv, TypeOK
    <3>2. m \in Entry /\ ~m.favored /\ ~m.fs_redundant
          /\ m.disabled = FALSE /\ m.was_fuzzed = FALSE
      BY <1>2 DEF Entry
    <3>. HIDE DEF m
    <3>3. /\ q' \in [Item -> Entry] /\ queued_items' \in 0 .. MaxItems
          /\ SmallestIsPending' /\ CountsAgree'
      BY <1>3, <3>1, <3>2, NewEntry, Zenon
    <3>4. \A d \in Queued : q'[d] = q[d]
      BY <1>4, <3>1 DEF IInv, TypeOK
    <3>5. ScoreTypes' /\ TcRefCountsSlots' /\ Traces'
      BY <1>3, <1>4, <2>2, <3>4, ScoresKept, ZenonT(30)
    <3>. QED
      BY <3>3, <3>5
  <2>. QED
    BY <1>1, <2>1, <2>2
<1>6. TypeOK'
  BY <1>3, <1>5 DEF IInv, TypeOK, ScoreTypes, selection, cycle, rescore
<1>7. Current' /\ Dry'
  BY <1>3, <1>4 DEF IInv, Current, Dry, rescore
<1>. QED
  BY <1>5, <1>6, <1>7 DEF IInv

(* The end of the dry run, which disables duplicates.                      *)
LEMMA EndDryRunStep ==
  ASSUME IInv, EndDryRun
  PROVE  IInv'
<1>1. PICK K \in SUBSET Working :
        LET D == Duplicates(K) IN
          /\ q' = [e \in Item |-> IF e \in D
                     THEN [q[e] EXCEPT !.disabled = TRUE, !.was_fuzzed = TRUE]
                     ELSE q[e]]
          /\ pending_not_fuzzed' = pending_not_fuzzed - Cardinality(D)
          /\ active_items' = active_items - Cardinality(D)
  BY ZenonT(30) DEF EndDryRun
<1> DEFINE D == Duplicates(K)
<1>2. /\ pc = "dry_run" /\ pc' = "cull"
      /\ UNCHANGED <<queued_items, scores, selection, queue_cur, cycle, rescore,
                     rounds, resumes>>
      /\ UNCHANGED <<rescored, resumes>> /\ Queued' = Queued
  BY ZenonT(30) DEF EndDryRun, rescore, Queued
<1>3. Queued \subseteq Item /\ q \in [Item -> Entry]
  BY Zenon, QueuedItems DEF IInv, TypeOK
<1>4. /\ smallest_favored = None /\ resumes = 0
      /\ \A e \in Item : ~q[e].fs_redundant /\ (q[e].disabled \/ ~q[e].was_fuzzed)
  BY <1>2 DEF IInv, Dry
<1>5. D \subseteq Active /\ D \subseteq Queued
  BY DEF Duplicates, Working, Active
<1>. HIDE DEF D
<1>6. /\ q' \in [Item -> Entry]
      /\ \A e \in Item : /\ q'[e].trace = q[e].trace
                          /\ q'[e].fs_redundant = q[e].fs_redundant
                          /\ q'[e].disabled = (q[e].disabled \/ e \in D)
                          /\ q'[e].was_fuzzed = (q[e].was_fuzzed \/ e \in D)
  <2>1. q' = [e \in Item |-> IF e \in D
                     THEN [q[e] EXCEPT !.disabled = TRUE, !.was_fuzzed = TRUE]
                     ELSE q[e]]
    BY <1>1, Zenon DEF D
  <2>. QED
    BY <1>3, <2>1, ZenonT(30) DEF Entry
<1>7. ScoreTypes' /\ TcRefCountsSlots' /\ Traces'
  BY <1>2, <1>3, <1>6, ScoresKept
<1>8. SmallestIsPending'
  BY <1>2, <1>4 DEF SmallestIsPending, selection
<1>9. /\ Spared = {} /\ Spared' = {} /\ D \subseteq Unfuzzed
      /\ Unfuzzed' = Unfuzzed \ D /\ Active' = Active \ D
      /\ Unfuzzed \subseteq Queued /\ Active \subseteq Queued
  BY <1>2, <1>3, <1>4, <1>5, <1>6, Zenon DEF Spared, Unfuzzed, Active
<1>10. /\ Cardinality(Unfuzzed') = Cardinality(Unfuzzed) - Cardinality(D)
       /\ Cardinality(Active') = Cardinality(Active) - Cardinality(D)
       /\ Cardinality(Unfuzzed) \in Nat /\ Cardinality(Active) \in Nat
       /\ Cardinality(D) \in Nat /\ Cardinality(Unfuzzed') \in Nat
       /\ Cardinality(Active') \in Nat
  <2>1. /\ Unfuzzed \in SUBSET Item /\ Active \in SUBSET Item /\ D \in SUBSET Item
        /\ Unfuzzed' \in SUBSET Item /\ Active' \in SUBSET Item
        /\ Unfuzzed \cap D = D /\ Active \cap D = D
    BY <1>3, <1>5, <1>9
  <2>2. /\ Cardinality(Unfuzzed \ D) = Cardinality(Unfuzzed) - Cardinality(D)
        /\ Cardinality(Active \ D) = Cardinality(Active) - Cardinality(D)
    <3>1. IsFiniteSet(Unfuzzed) /\ IsFiniteSet(Active)
      BY <2>1, Finite
    <3>2. /\ Cardinality(Unfuzzed \cap D) = Cardinality(D)
          /\ Cardinality(Active \cap D) = Cardinality(D)
      BY <2>1, Zenon
    <3>3. Cardinality(Unfuzzed \ D) = Cardinality(Unfuzzed) - Cardinality(Unfuzzed \cap D)
      BY <3>1, FS_Difference, Zenon
    <3>4. Cardinality(Active \ D) = Cardinality(Active) - Cardinality(Active \cap D)
      BY <3>1, FS_Difference
    <3>. QED
      BY <3>2, <3>3, <3>4
  <2>3. /\ Cardinality(Unfuzzed') = Cardinality(Unfuzzed \ D)
        /\ Cardinality(Active') = Cardinality(Active \ D)
    BY <1>9, Zenon
  <2>. QED
    BY <2>1, <2>2, <2>3, Finite
<1>11. /\ Cardinality(Active \cup Spared) = Cardinality(Active)
       /\ Cardinality((Active \cup Spared)') = Cardinality(Active')
       /\ Cardinality((Unfuzzed \cap Active)') <= Cardinality(Unfuzzed')
       /\ Cardinality((Unfuzzed \cap Active)') \in Nat
  <2>1. Active \cup Spared = Active /\ (Active \cup Spared)' = Active'
    BY <1>9
  <2>2. /\ Unfuzzed' \in SUBSET Item
        /\ (Unfuzzed \cap Active)' \in SUBSET (Unfuzzed')
    BY <1>3, <1>9
  <2>3. /\ Cardinality((Unfuzzed \cap Active)') <= Cardinality(Unfuzzed')
        /\ Cardinality((Unfuzzed \cap Active)') \in Nat
    BY <2>2, Finite, Larger
  <2>4. /\ Cardinality(Active \cup Spared) = Cardinality(Active)
        /\ Cardinality((Active \cup Spared)') = Cardinality(Active')
    BY <2>1, Zenon
  <2>. QED
    BY <2>3, <2>4
<1>12. /\ pending_not_fuzzed' = Cardinality(Unfuzzed')
       /\ active_items' = Cardinality(Active')
  <2>1. /\ pending_not_fuzzed = Cardinality(Unfuzzed)
        /\ active_items = Cardinality(Active)
    BY <1>4, <1>11 DEF IInv, CountsAgree
  <2>. QED
    BY <1>1, <1>10, <2>1, Zenon DEF D
<1>13. CountsAgree'
  BY <1>10, <1>11, <1>12, SMT DEF CountsAgree
<1>14. TypeOK'
  BY <1>2, <1>6, <1>7, <1>10, <1>12, ZenonT(30)
     DEF IInv, TypeOK, ScoreTypes, selection, cycle, rescore
<1>15. Current' /\ Dry'
  BY <1>2, Zenon DEF IInv, Current, Dry, rescore
<1>. QED
  BY <1>7, <1>8, <1>13, <1>14, <1>15 DEF IInv

(* The ways in which fuzz_one leaves an entry.                              *)
LEMMA AbandonSteps ==
  ASSUME IInv, CustomRefuses \/ OutOfChances \/ EndFuzz
  PROVE  IInv'
<1>1. /\ pc \in {"chosen", "dice", "fuzz"}
      /\ \E skipped \in BOOLEAN : abandon_entry(q, skipped)
      /\ UNCHANGED <<queued_items, scores, active_items, queue_cur, cycle, rescore,
                     resumes>>
      /\ UNCHANGED <<rescored, resumes>>
  BY Zenon DEF CustomRefuses, OutOfChances, EndFuzz, rescore
<1>2. PICK skipped \in BOOLEAN : abandon_entry(q, skipped)
  BY <1>1
<1>3. /\ queue_cur \in Queued /\ q \in [Item -> Entry] /\ SameFlags(q)
      /\ Queued' = Queued /\ Queued \subseteq Item
  BY <1>1, QueuedItems DEF IInv, Current, TypeOK, SameFlags, Queued
<1>4. /\ q' \in [Item -> Entry] /\ rounds' \in Nat /\ pc' \in {"select", "sync"}
      /\ pending_favored' \in Nat /\ pending_not_fuzzed' \in Nat
      /\ smallest_favored' \in Item \cup {None}
      /\ \A e \in Item : q'[e].trace = q[e].trace
      /\ SmallestIsPending' /\ CountsAgree'
  BY <1>1, <1>2, <1>3, Abandoned
<1>5. ScoreTypes' /\ TcRefCountsSlots' /\ Traces'
  BY <1>1, <1>3, <1>4, ScoresKept
<1>6. TypeOK'
  BY <1>1, <1>4, <1>5, Zenon DEF IInv, TypeOK, ScoreTypes, cycle, rescore
<1>7. Current' /\ Dry'
  BY <1>1, <1>3, <1>4 DEF IInv, Current, Dry, rescore
<1>. QED
  BY <1>4, <1>5, <1>6, <1>7 DEF IInv

(* A stop in the middle of the stages.                                     *)
LEMMA StopsInStageStep ==
  ASSUME IInv, StopsInStage
  PROVE  IInv'
<1> DEFINE c == queue_cur
<1>1. /\ pc \in {"trim", "fuzz"} /\ pc' = "stopped"
      /\ UNCHANGED <<queued_items, scores, selection, totals, queue_cur, cycle,
                     rescore, rounds, resumes>>
      /\ UNCHANGED <<rescored, resumes>>
      /\ q' = [q EXCEPT ![c].fuzz_level = IF @ < MaxLevel THEN @ + 1 ELSE @]
  BY DEF StopsInStage, rescore
<1>2. /\ c \in Queued /\ q \in [Item -> Entry] /\ c \in Item
      /\ Queued' = Queued /\ Queued \subseteq Item
  BY <1>1, QueuedItems DEF IInv, Current, TypeOK, Queued
<1>3. q' \in [Item -> Entry] /\ SameFlags(q')
  BY <1>1, <1>2 DEF Entry, SameFlags
<1>4. ScoreTypes' /\ TcRefCountsSlots' /\ Traces'
  BY <1>1, <1>2, <1>3, ScoresKept DEF SameFlags
<1>5. SmallestIsPending' /\ CountsAgree'
  BY <1>1, <1>3, FlagsKept DEF IInv
<1>6. TypeOK'
  BY <1>1, <1>3, <1>4, Zenon
  DEF IInv, TypeOK, ScoreTypes, selection, totals, cycle, rescore
<1>7. Current' /\ Dry'
  BY <1>1, <1>2 DEF IInv, Current, Dry, rescore
<1>. QED
  BY <1>3, <1>4, <1>5, <1>6, <1>7 DEF IInv

(* The calibration of an entry in fuzz_one.                                *)
LEMMA RecalibrateStep ==
  ASSUME IInv, Recalibrate
  PROVE  IInv'
<1> DEFINE c == queue_cur
           Kept ==
             /\ q' \in [Item -> Entry] /\ rounds' \in Nat
             /\ pc' \in {"select", "sync", "trim"}
             /\ pending_favored' \in Nat /\ pending_not_fuzzed' \in Nat
             /\ smallest_favored' \in Item \cup {None}
             /\ SmallestIsPending' /\ CountsAgree'
             /\ ScoreTypes' /\ TcRefCountsSlots' /\ Traces'
<1>1. /\ pc = "dice"
      /\ UNCHANGED <<queued_items, active_items, queue_cur, cycle, rescore, resumes>>
      /\ UNCHANGED <<rescored, resumes>>
  BY DEF Recalibrate, rescore
<1>2. /\ c \in Queued /\ q \in [Item -> Entry] /\ c \in Item
      /\ Queued' = Queued /\ Queued \subseteq Item
  BY Zenon, <1>1, QueuedItems DEF IInv, Current, TypeOK, Queued
<1>3. Kept
  <2>1. CASE abandon_entry(CalFailed(q, c), TRUE) /\ UNCHANGED scores
    <3> DEFINE r == CalFailed(q, c)
    <3>1. r \in [Item -> Entry] /\ SameFlags(r)
      BY <1>2 DEF CalFailed, SameFlags, Entry
    <3>. HIDE DEF r
    <3>2. abandon_entry(r, TRUE)
      BY <2>1, Zenon DEF r
    <3>3. /\ q' \in [Item -> Entry] /\ rounds' \in Nat /\ pc' \in {"select", "sync"}
          /\ pending_favored' \in Nat /\ pending_not_fuzzed' \in Nat
          /\ smallest_favored' \in Item \cup {None}
          /\ \A e \in Item : q'[e].trace = q[e].trace
          /\ SmallestIsPending' /\ CountsAgree'
      BY <1>1, <1>2, <3>1, <3>2, Abandoned, Zenon
    <3>4. ScoreTypes' /\ TcRefCountsSlots' /\ Traces'
      BY <1>1, <1>2, <2>1, <3>3, ScoresKept
    <3>. QED
      BY <3>3, <3>4, Zenon
  <2>2. ASSUME NEW f \in 1 .. MaxFactor,
               update_bitmap_score(Calibrated(q, c, f), c),
               \/ abandon_entry(Calibrated(q, c, f), TRUE)
               \/ /\ q' = Calibrated(q, c, f) /\ pc' = "trim"
                  /\ UNCHANGED <<selection, pending_not_fuzzed, rounds>>
        PROVE  Kept
    <3> DEFINE r == Calibrated(q, c, f)
    <3>1. r \in [Item -> Entry] /\ SameFlags(r)
      <4>1. f \in Nat
        BY QueueAssumption
      <4>. QED
        BY <1>2, <4>1, ZenonT(30) DEF Calibrated, SameFlags, Entry
    <3>. HIDE DEF r
    <3>2. /\ update_bitmap_score(r, c)
          /\ \/ abandon_entry(r, TRUE)
             \/ /\ q' = r /\ pc' = "trim"
                /\ UNCHANGED <<selection, pending_not_fuzzed, rounds>>
      BY <2>2, Zenon DEF r
    <3>3. /\ q' \in [Item -> Entry] /\ rounds' \in Nat
          /\ pc' \in {"select", "sync", "trim"}
          /\ pending_favored' \in Nat /\ pending_not_fuzzed' \in Nat
          /\ smallest_favored' \in Item \cup {None}
          /\ \A e \in Item : q'[e].trace = q[e].trace
          /\ SmallestIsPending' /\ CountsAgree'
      <4>1. CASE abandon_entry(r, TRUE)
        BY <1>1, <1>2, <3>1, <4>1, Abandoned, Zenon
      <4>2. CASE /\ q' = r /\ pc' = "trim"
                 /\ UNCHANGED <<selection, pending_not_fuzzed, rounds>>
        <5>1. SameFlags(q') /\ UNCHANGED <<queued_items, selection, totals, resumes>>
          BY <1>1, <3>1, <4>2 DEF totals
        <5>2. SmallestIsPending' /\ CountsAgree'
          BY <5>1, FlagsKept DEF IInv
        <5>. QED
          BY Zenon, <3>1, <4>2, <5>2 DEF SameFlags, IInv, TypeOK, selection
      <4>. QED
        BY <3>2, <4>1, <4>2, Zenon
    <3>4. ScoreTypes' /\ TcRefCountsSlots' /\ Traces'
      <4>1. \A e \in Item : q'[e].trace = r[e].trace
        BY Zenon, <3>1, <3>3 DEF SameFlags
      <4>. QED
        BY <1>1, <1>2, <3>1, <3>2, <3>3, <4>1, Rescored
    <3>. QED
      BY <3>3, <3>4, Zenon
  <2>. HIDE DEF Kept
  <2>. QED
    BY <2>1, <2>2, ZenonT(30) DEF Recalibrate
<1>4. TypeOK'
  BY Zenon, <1>1, <1>3 DEF IInv, TypeOK, ScoreTypes, cycle, rescore
<1>5. Current' /\ Dry'
  BY <1>1, <1>2, <1>3 DEF IInv, Current, Dry, rescore
<1>. QED
  BY <1>3, <1>4, <1>5 DEF IInv

(* The trim of an entry in fuzz_one.                                       *)
LEMMA TrimStep ==
  ASSUME IInv, Trim
  PROVE  IInv'
<1> DEFINE c == queue_cur
<1>1. /\ pc = "trim" /\ pc' = "fuzz"
      /\ UNCHANGED <<queued_items, selection, totals, queue_cur, cycle, rescore,
                     rounds, resumes>>
      /\ UNCHANGED <<rescored, resumes>>
  BY DEF Trim, rescore
<1>2. /\ c \in Queued /\ q \in [Item -> Entry] /\ c \in Item
      /\ Queued' = Queued /\ Queued \subseteq Item
  BY <1>1, QueuedItems DEF IInv, Current, TypeOK, Queued
<1>3. /\ q' \in [Item -> Entry] /\ SameFlags(q')
      /\ ScoreTypes' /\ TcRefCountsSlots' /\ Traces'
  <2>1. ASSUME NEW f \in 1 .. q[c].fav_factor - 1,
               q' = [q EXCEPT ![c].fav_factor = f, ![c].trim_done = TRUE],
               update_bitmap_score(q', c)
        PROVE  /\ q' \in [Item -> Entry] /\ SameFlags(q')
               /\ ScoreTypes' /\ TcRefCountsSlots' /\ Traces'
    <3>1. f \in Nat
      BY <1>2 DEF Entry
    <3>2. q' \in [Item -> Entry] /\ SameFlags(q')
      BY <1>2, <2>1, <3>1 DEF Entry, SameFlags
    <3>3. ScoreTypes' /\ TcRefCountsSlots' /\ Traces'
      BY <1>1, <1>2, <2>1, <3>2, Rescored, Zenon DEF SameFlags
    <3>. QED
      BY <3>2, <3>3
  <2>2. CASE q' = [q EXCEPT ![c].trim_done = TRUE] /\ UNCHANGED scores
    <3>1. q' \in [Item -> Entry] /\ SameFlags(q')
      BY <1>2, <2>2, ZenonT(30) DEF Entry, SameFlags
    <3>2. ScoreTypes' /\ TcRefCountsSlots' /\ Traces'
      BY <1>1, <1>2, <2>2, <3>1, ScoresKept DEF SameFlags
    <3>. QED
      BY <3>1, <3>2
  <2>3. \/ \E f \in 1 .. q[c].fav_factor - 1 :
             /\ q' = [q EXCEPT ![c].fav_factor = f, ![c].trim_done = TRUE]
             /\ update_bitmap_score(q', c)
        \/ q' = [q EXCEPT ![c].trim_done = TRUE] /\ UNCHANGED scores
    BY Zenon DEF Trim
  <2>. QED
    BY <2>1, <2>2, <2>3, Zenon
<1>4. SmallestIsPending' /\ CountsAgree'
  BY <1>1, <1>3, FlagsKept DEF IInv
<1>5. TypeOK'
  BY <1>1, <1>3, Zenon DEF IInv, TypeOK, ScoreTypes, selection, totals, cycle, rescore
<1>6. Current' /\ Dry'
  BY <1>1, <1>2 DEF IInv, Current, Dry, rescore
<1>. QED
  BY <1>3, <1>4, <1>5, <1>6 DEF IInv

(* The marks an entry gets for a novel tightness.                          *)
LEMMA NovelStep ==
  ASSUME IInv, Novel
  PROVE  IInv'
<1> DEFINE c == queue_cur
           counted == {e \in Pending : ~q[e].tightness_novel}
<1>1. /\ pc = "fuzz"
      /\ q' = [q EXCEPT ![c].tightness_novel = TRUE,
                        ![c].tightness_novel_cycle = queue_cycle,
                        ![c].favored = TRUE]
      /\ UNCHANGED <<pc, queued_items, scores, selection, totals, queue_cur, cycle,
                     rescore, rounds, resumes>>
      /\ UNCHANGED <<rescored, resumes>>
  BY DEF Novel, rescore
<1>2. /\ c \in Queued /\ q \in [Item -> Entry] /\ c \in Item
      /\ Queued' = Queued /\ Queued \subseteq Item /\ queue_cycle \in Nat
  BY <1>1, QueuedItems DEF IInv, Current, TypeOK, Queued
<1>3. /\ q' \in [Item -> Entry]
      /\ \A e \in Item :
           /\ q'[e].trace = q[e].trace /\ q'[e].was_fuzzed = q[e].was_fuzzed
           /\ q'[e].fs_redundant = q[e].fs_redundant
           /\ q'[e].disabled = q[e].disabled
           /\ q'[e].favored = (q[e].favored \/ e = c)
           /\ q'[e].tightness_novel = (q[e].tightness_novel \/ e = c)
  <2> DEFINE m == [q[c] EXCEPT !.tightness_novel = TRUE,
                               !.tightness_novel_cycle = queue_cycle,
                               !.favored = TRUE]
  <2>1. q' = [q EXCEPT ![c] = m]
    BY <1>1, <1>2, Zenon
  <2>2. /\ m \in Entry /\ m.trace = q[c].trace /\ m.was_fuzzed = q[c].was_fuzzed
        /\ m.fs_redundant = q[c].fs_redundant /\ m.disabled = q[c].disabled
        /\ m.favored = TRUE /\ m.tightness_novel = TRUE
    <3>1. q[c] \in Entry
      BY <1>2
    <3>. QED
      BY <1>2, <3>1, Zenon DEF Entry
  <2>. HIDE DEF m
  <2>3. q' \in [Item -> Entry] /\ \A e \in Item : q'[e] = IF e = c THEN m ELSE q[e]
    BY <1>2, <2>1, <2>2
  <2>4. \A e \in Item : q[e].favored \in BOOLEAN /\ q[e].tightness_novel \in BOOLEAN
    BY <1>2 DEF Entry
  <2>. QED
    BY <2>2, <2>3, <2>4, Zenon
<1>4. ScoreTypes' /\ TcRefCountsSlots' /\ Traces'
  BY <1>1, <1>2, <1>3, ScoresKept
<1>5. Unfuzzed' = Unfuzzed /\ Active' = Active /\ Spared' = Spared
  BY <1>2, <1>3 DEF Unfuzzed, Active, Spared
<1>6. CountsAgree'
  BY <1>1, <1>5, Zenon DEF IInv, CountsAgree, totals
<1>7. SmallestIsPending'
  <2>1. /\ Pending \subseteq Pending' /\ counted' \subseteq counted
        /\ Pending' \in SUBSET Item /\ counted \in SUBSET Item
    BY <1>2, <1>3, <1>5, Zenon DEF Pending, Unfuzzed
  <2>2. /\ Cardinality(Pending) <= Cardinality(Pending')
        /\ Cardinality(counted') <= Cardinality(counted)
        /\ Cardinality(Pending) \in Nat /\ Cardinality(Pending') \in Nat
        /\ Cardinality(counted) \in Nat /\ Cardinality(counted') \in Nat
    <3>. HIDE DEF counted
    <3>. QED
      BY <2>1, Larger, Finite
  <2>3. ASSUME smallest_favored' # None
        PROVE  /\ smallest_favored' \in Pending' \cap Active'
               /\ \A e \in counted' : smallest_favored' <= e
               /\ pending_favored' \in Cardinality(counted') .. Cardinality(Pending')
    <3>1. /\ smallest_favored' = smallest_favored
          /\ pending_favored' = pending_favored /\ pending_favored \in Nat
      BY <1>1 DEF selection, IInv, TypeOK
    <3>2. /\ smallest_favored \in Pending \cap Active
          /\ \A e \in counted : smallest_favored <= e
          /\ pending_favored \in Cardinality(counted) .. Cardinality(Pending)
      BY <2>3, <3>1 DEF IInv, SmallestIsPending
    <3>. HIDE DEF counted
    <3>3. /\ smallest_favored' \in Pending' \cap Active'
          /\ \A e \in counted' : smallest_favored' <= e
      BY <1>5, <2>1, <3>1, <3>2
    <3>4. pending_favored' \in Cardinality(counted') .. Cardinality(Pending')
      BY <2>2, <3>1, <3>2
    <3>. QED
      BY <3>3, <3>4
  <2>. QED
    BY <2>3, Zenon DEF SmallestIsPending
<1>8. TypeOK'
  BY <1>1, <1>3, <1>4 DEF IInv, TypeOK, ScoreTypes, selection, totals, cycle, rescore
<1>9. Current' /\ Dry'
  BY <1>1, <1>2 DEF IInv, Current, Dry, rescore
<1>. QED
  BY <1>4, <1>6, <1>7, <1>8, <1>9 DEF IInv

(* cull_queue.                                                             *)
LEMMA CullStep ==
  ASSUME IInv, Cull
  PROVE  IInv'
<1> DEFINE picked  == {e \in Queued : e \in Sweep[MapSize].picked /\ ~q[e].disabled}
           favored == picked \cup {e \in Queued : StillNovel(e)}
           pending == {e \in picked : ~StillNovel(e) /\ ~q[e].was_fuzzed}
           freshly == {e \in Queued \ favored : ~q[e].disabled /\ ~q[e].fs_redundant}
           counted == {e \in Pending : ~q[e].tightness_novel}
<1>1. /\ q' = [e \in Item |-> IF e \notin Queued THEN q[e]
                  ELSE [q[e] EXCEPT
                    !.favored = e \in favored,
                    !.fs_redundant = IF q[e].disabled THEN @ ELSE e \notin favored,
                    !.disabled = @ \/ (DisableRedundant /\ e \in freshly),
                    !.tightness_novel = StillNovel(e),
                    !.tightness_novel_cycle = IF StillNovel(e) THEN @ ELSE 0]]
      /\ trace_mini' = [e \in Item |-> IF e \in freshly THEN {} ELSE trace_mini[e]]
      /\ pending_favored' = Cardinality(pending)
      /\ smallest_favored' \in IF pending = {} THEN {None}
                               ELSE {e \in pending : \A d \in pending : e <= d}
  BY ZenonT(30) DEF Cull
<1>2. /\ score_changed' = FALSE /\ pc' = "cycle"
      /\ UNCHANGED <<queued_items, tc_ref, top_rated, totals, queue_cur, cycle,
                     rescore, rounds, resumes>>
      /\ UNCHANGED <<rescored, resumes>> /\ Queued' = Queued
  BY ZenonT(30) DEF Cull, rescore, Queued
<1>3. Queued \subseteq Item /\ q \in [Item -> Entry]
  BY Zenon, QueuedItems DEF IInv, TypeOK
<1>4. /\ picked \subseteq Queued /\ favored \subseteq Queued /\ freshly \subseteq Queued
      /\ \A e \in freshly : e \notin favored /\ ~q[e].disabled /\ ~q[e].fs_redundant
      /\ \A e \in Queued \ favored : ~q[e].disabled /\ ~q[e].fs_redundant => e \in freshly
      /\ \A e \in pending : e \in favored /\ ~q[e].disabled /\ e \in Queued
                            /\ ~q[e].was_fuzzed /\ ~StillNovel(e)
      /\ \A e \in favored : ~StillNovel(e) /\ ~q[e].was_fuzzed => e \in pending
      /\ \A e \in Queued : StillNovel(e) \in BOOLEAN
  BY ZenonT(30) DEF StillNovel
<1>. HIDE DEF picked, favored, pending, freshly
<1>5. /\ q' \in [Item -> Entry]
      /\ \A e \in Item \ Queued : q'[e] = q[e]
      /\ \A e \in Queued :
           /\ q'[e].trace = q[e].trace /\ q'[e].was_fuzzed = q[e].was_fuzzed
           /\ q'[e].favored = (e \in favored)
           /\ q'[e].fs_redundant = IF q[e].disabled THEN q[e].fs_redundant
                                   ELSE e \notin favored
           /\ q'[e].disabled = (q[e].disabled \/ (DisableRedundant /\ e \in freshly))
           /\ q'[e].tightness_novel = StillNovel(e)
  <2> DEFINE red(e)  == IF q[e].disabled THEN q[e].fs_redundant ELSE e \notin favored
             dis(e)  == q[e].disabled \/ (DisableRedundant /\ e \in freshly)
             cyc(e)  == IF StillNovel(e) THEN q[e].tightness_novel_cycle ELSE 0
             n(e)    == [q[e] EXCEPT !.favored = e \in favored, !.fs_redundant = red(e),
                           !.disabled = dis(e), !.tightness_novel = StillNovel(e),
                           !.tightness_novel_cycle = cyc(e)]
  <2>1. q' = [e \in Item |-> IF e \notin Queued THEN q[e] ELSE n(e)]
    BY <1>1, Zenon
  <2>2. ASSUME NEW e \in Queued
        PROVE  /\ q'[e] \in Entry
               /\ q'[e].trace = q[e].trace /\ q'[e].was_fuzzed = q[e].was_fuzzed
               /\ q'[e].favored = (e \in favored) /\ q'[e].fs_redundant = red(e)
               /\ q'[e].disabled = dis(e) /\ q'[e].tightness_novel = StillNovel(e)
    <3>1. /\ (e \in favored) \in BOOLEAN /\ red(e) \in BOOLEAN /\ dis(e) \in BOOLEAN
          /\ StillNovel(e) \in BOOLEAN /\ cyc(e) \in Nat /\ q[e] \in Entry
      <4>1. q[e] \in Entry
        BY <1>3
      <4>2. /\ q[e].disabled \in BOOLEAN /\ q[e].fs_redundant \in BOOLEAN
            /\ q[e].tightness_novel_cycle \in Nat
        BY <4>1 DEF Entry
      <4>3. red(e) \in BOOLEAN /\ dis(e) \in BOOLEAN
        BY <4>2, Zenon
      <4>4. cyc(e) \in Nat
        BY <4>2
      <4>. QED
        BY <1>4, <4>1, <4>3, <4>4
    <3>2. q'[e] = n(e)
      BY <1>3, <2>1, Zenon
    <3>. HIDE DEF red, dis, cyc
    <3>. QED
      BY <3>1, <3>2, Zenon DEF Entry
  <2>. HIDE DEF n
  <2>3. q' \in [Item -> Entry] /\ \A e \in Item \ Queued : q'[e] = q[e]
    BY <1>3, <2>1, <2>2
  <2>. QED
    BY Zenon, <2>2, <2>3
<1>6. ScoreTypes' /\ TcRefCountsSlots' /\ Traces'
  <2>1. ScoreTypes'
    BY <1>1, <1>2, Zenon DEF IInv, TypeOK, ScoreTypes, Trace
  <2>2. \A e \in Item : Holds(e)' = Holds(e)
    BY <1>2 DEF Holds
  <2>3. TcRefCountsSlots'
    BY <1>2, <2>2, Zenon DEF IInv, TcRefCountsSlots
  <2>4. Traces'
    BY <1>1, <1>2, <1>3, <1>5, ZenonT(30) DEF IInv, Traces
  <2>. QED
    BY <2>1, <2>3, <2>4
<1>7. /\ Unfuzzed' = Unfuzzed /\ Active' \subseteq Active
      /\ (Active \cup Spared)' = Active \cup Spared
  <2>1. Unfuzzed' = Unfuzzed
    BY <1>2, <1>3, <1>5 DEF Unfuzzed
  <2>2. Active' \subseteq Active
    BY <1>2, <1>3, <1>5, Zenon DEF Active
  <2>3. ASSUME NEW e \in Queued
        PROVE  e \in (Active \cup Spared)' <=> e \in Active \cup Spared
    BY <1>2, <1>3, <1>4, <1>5, ZenonT(30) DEF Active, Spared
  <2>4. /\ (Active \cup Spared)' \subseteq Queued /\ Active \cup Spared \subseteq Queued
    BY <1>2 DEF Active, Spared
  <2>. QED
    BY <2>1, <2>2, <2>3, <2>4
<1>8. CountsAgree'
  <2>1. /\ Unfuzzed \in SUBSET Item /\ Active \in SUBSET Item
        /\ Active \cup Spared \in SUBSET Item
        /\ Unfuzzed \cap Active \in SUBSET Item
        /\ Active' \in SUBSET Active
        /\ (Unfuzzed \cap Active)' \in SUBSET (Unfuzzed \cap Active)
    BY Zenon, <1>3, <1>7 DEF Unfuzzed, Active, Spared
  <2>2. /\ Cardinality(Active') <= Cardinality(Active)
        /\ Cardinality((Unfuzzed \cap Active)') <= Cardinality(Unfuzzed \cap Active)
        /\ Cardinality(Active') \in Nat /\ Cardinality(Active) \in Nat
        /\ Cardinality((Unfuzzed \cap Active)') \in Nat
        /\ Cardinality(Unfuzzed \cap Active) \in Nat
        /\ Cardinality(Unfuzzed) \in Nat /\ Cardinality(Active \cup Spared) \in Nat
    BY <2>1, Larger, Finite
  <2>3. /\ Cardinality(Unfuzzed') = Cardinality(Unfuzzed)
        /\ Cardinality((Active \cup Spared)') = Cardinality(Active \cup Spared)
    BY <1>7, Zenon
  <2>4. /\ pending_not_fuzzed' = pending_not_fuzzed /\ active_items' = active_items
        /\ pending_not_fuzzed \in Nat /\ active_items \in Nat
    BY <1>2 DEF totals, IInv, TypeOK
  <2>. QED
    BY <1>2, <2>2, <2>3, <2>4, SMTT(30) DEF IInv, CountsAgree
<1>9. SmallestIsPending'
  <2>1. counted' = pending
    BY <1>2, <1>3, <1>4, <1>5, Zenon DEF Pending, Unfuzzed
  <2>2. pending \subseteq Pending' /\ pending \subseteq Active' /\ Pending' \in SUBSET Item
    BY <1>2, <1>3, <1>4, <1>5, Zenon DEF Pending, Unfuzzed, Active
  <2>3. /\ Cardinality(pending) \in Nat /\ Cardinality(Pending') \in Nat
        /\ Cardinality(pending) <= Cardinality(Pending')
        /\ Cardinality(counted') = Cardinality(pending)
    <3>1. Cardinality(counted') = Cardinality(pending)
      BY <2>1, Zenon
    <3>. QED
      BY <2>2, <3>1, Larger, Finite
  <2>4. ASSUME smallest_favored' # None
        PROVE  /\ smallest_favored' \in Pending' \cap Active'
               /\ \A e \in counted' : smallest_favored' <= e
               /\ pending_favored' \in Cardinality(counted') .. Cardinality(Pending')
    <3>1. smallest_favored' \in pending /\ \A d \in pending : smallest_favored' <= d
      BY <1>1, <2>4, Zenon
    <3>2. pending_favored' \in Cardinality(counted') .. Cardinality(Pending')
      <4>1. pending_favored' = Cardinality(pending)
        BY <1>1, ZenonT(30)
      <4>. HIDE DEF counted
      <4>. QED
        BY <2>3, <4>1
    <3>. HIDE DEF counted
    <3>. QED
      BY <2>1, <2>2, <3>1, <3>2
  <2>. QED
    BY <2>4, Zenon DEF SmallestIsPending
<1>10. TypeOK'
  <2>1. pending \in SUBSET Item
    BY <1>3, <1>4
  <2>2. pending_favored' \in Nat /\ smallest_favored' \in Item \cup {None}
    BY <1>1, <2>1, Finite, ZenonT(30)
  <2>. QED
    BY <1>2, <1>5, <1>6, <2>2, ZenonT(30)
       DEF IInv, TypeOK, ScoreTypes, totals, cycle, rescore
<1>11. Current' /\ Dry'
  BY Zenon, <1>2 DEF IInv, Current, Dry, rescore
<1>. QED
  BY <1>6, <1>8, <1>9, <1>10, <1>11 DEF IInv

(* The fast resume after a stop.                                           *)
LEMMA FastResumeStep ==
  ASSUME IInv, FastResume
  PROVE  IInv'
<1>1. /\ resumes' = resumes + 1
      /\ q' = [e \in Item |-> [q[e] EXCEPT !.tightness_novel_cycle = 0]]
      /\ top_rated' = [i \in Slot |-> None] /\ score_changed' = FALSE
      /\ pending_favored' = Cardinality(Pending) /\ smallest_favored' = None
      /\ pending_not_fuzzed' = Cardinality(Unfuzzed \cap Active)
      /\ active_items' = Cardinality(Active)
      /\ queue_cur' = None /\ queue_cycle' = 0 /\ runs_in_current_cycle' = UINT_MAX
      /\ scored' = {} /\ last_scored_idx' = -1 /\ trace_bits' = {} /\ pc' = "cull"
      /\ UNCHANGED <<queued_items, tc_ref, trace_mini, todo, rescored, rounds>>
      /\ Queued' = Queued
  BY DEF FastResume, Queued
<1>2. Queued \subseteq Item /\ q \in [Item -> Entry]
  BY QueuedItems DEF IInv, TypeOK
<1>3. q' \in [Item -> Entry] /\ SameFlags(q')
  BY <1>1, <1>2 DEF Entry, SameFlags
<1>4. TcRefCountsSlots'
  <2>1. resumes' # 0 /\ tc_ref' \in [Item -> Nat]
    BY <1>1 DEF IInv, TypeOK
  <2>2. ASSUME NEW e \in Item
        PROVE  Cardinality(Holds(e)') = 0
    <3>1. Holds(e)' = {}
      BY <1>1, QueuedItems DEF Holds, IInv
    <3>. QED
      BY <3>1, FS_EmptySet, Zenon
  <2>. QED
    BY <2>1, <2>2 DEF TcRefCountsSlots
<1>5. Traces'
  BY <1>1, <1>2, <1>3 DEF IInv, Traces, SameFlags
<1>6. Unfuzzed' = Unfuzzed /\ Active' = Active
  BY <1>1, <1>2, <1>3 DEF SameFlags, Unfuzzed, Active
<1>7. /\ Unfuzzed \in SUBSET Item /\ Active' \in SUBSET (Active \cup Spared)'
      /\ (Active \cup Spared)' \in SUBSET Item /\ Pending \in SUBSET Item
      /\ Unfuzzed \cap Active \in SUBSET Unfuzzed /\ Active \in SUBSET Item
  BY <1>1, <1>2 DEF Unfuzzed, Active, Spared, Pending
<1>8. /\ Cardinality(Unfuzzed \cap Active) <= Cardinality(Unfuzzed)
      /\ Cardinality(Active') <= Cardinality((Active \cup Spared)')
      /\ Cardinality(Unfuzzed \cap Active) \in Nat /\ Cardinality(Unfuzzed) \in Nat
      /\ Cardinality(Active) \in Nat /\ Cardinality((Active \cup Spared)') \in Nat
      /\ Cardinality(Pending) \in Nat
  <2>1. Unfuzzed \cap Active \in SUBSET Item
    BY <1>7
  <2>. QED
    BY <1>7, <2>1, Larger, Finite
<1>9. /\ Cardinality(Unfuzzed') = Cardinality(Unfuzzed)
      /\ Cardinality(Active') = Cardinality(Active)
      /\ Cardinality((Unfuzzed \cap Active)') = Cardinality(Unfuzzed \cap Active)
  BY <1>6, Zenon
<1>10. CountsAgree'
  <2>1. resumes' # 0
    BY <1>1 DEF IInv, TypeOK
  <2>. QED
    BY <1>1, <1>8, <1>9, <2>1, SMT DEF CountsAgree
<1>11. SmallestIsPending'
  BY <1>1 DEF SmallestIsPending
<1>12. TypeOK'
  <2>1. /\ top_rated' \in [Slot -> Item \cup {None}] /\ last_scored_idx' \in {None}
        /\ UINT_MAX \in Nat /\ trace_bits' \in Trace /\ score_changed' \in BOOLEAN
    BY <1>1, QueueAssumption, Zenon DEF None, Trace
  <2>2. /\ tc_ref' \in [Item -> Nat] /\ trace_mini' \in [Item -> Trace]
        /\ queued_items' \in 0 .. MaxItems /\ rounds' \in Nat /\ resumes' \in Nat
        /\ todo' \subseteq Slot \X Item /\ rescored' \in BOOLEAN
    BY <1>1 DEF IInv, TypeOK
  <2>3. {pending_favored, pending_not_fuzzed, active_items, queue_cycle,
         runs_in_current_cycle, rounds, resumes}' \subseteq Nat
    BY <1>1, <1>8, <2>1, <2>2
  <2>. QED
    BY <1>1, <1>3, <2>1, <2>2, <2>3 DEF TypeOK
<1>13. Current' /\ Dry'
  BY <1>1 DEF IInv, Current, Dry
<1>. QED
  BY <1>4, <1>5, <1>10, <1>11, <1>12, <1>13 DEF IInv

-----------------------------------------------------------------------------
(* The theorems                                                            *)

(* The queue before the first seed.                                        *)
LEMMA Start == Init => IInv
<1>. SUFFICES ASSUME Init PROVE IInv
  OBVIOUS
<1>1. Queued = {} /\ None \notin Item /\ -1 = None
  BY DEF Init, Queued, Item, None
<1>2. /\ q \in [Item -> Entry] /\ \A e \in Item : q[e] = Fresh({}, 1)
      /\ UINT_MAX \in Nat /\ 0 \in 0 .. MaxItems
  <2>1. Fresh({}, 1) \in Entry
    BY FreshEntry DEF Trace
  <2>. QED
    BY <2>1, QueueAssumption, SMTT(30) DEF Init
<1>3. TypeOK
  <2>1. /\ tc_ref \in [Item -> Nat] /\ trace_mini \in [Item -> Trace]
        /\ top_rated \in [Slot -> Item \cup {None}] /\ score_changed \in BOOLEAN
    BY Zenon DEF Init, Trace
  <2>2. {pending_favored, pending_not_fuzzed, active_items, queue_cycle,
         runs_in_current_cycle, rounds, resumes} \subseteq Nat
    BY <1>2 DEF Init
  <2>3. /\ {smallest_favored, queue_cur, last_scored_idx} \subseteq Item \cup {None}
        /\ scored \subseteq Item /\ trace_bits \in Trace
        /\ todo \subseteq Slot \X Item /\ rescored \in BOOLEAN
        /\ queued_items \in 0 .. MaxItems /\ pc = "dry_run"
    BY <1>1, <1>2, ZenonT(30) DEF Init, Trace
  <2>. QED
    BY Zenon, <1>2, <2>1, <2>2, <2>3 DEF TypeOK
<1>4. TcRefCountsSlots
  <2>1. ASSUME NEW e \in Item PROVE Cardinality(Holds(e)) = 0
    <3>1. Holds(e) = {}
      BY <1>1 DEF Init, Holds
    <3>. QED
      BY <3>1, FS_EmptySet, Zenon
  <2>. QED
    BY <2>1 DEF Init, TcRefCountsSlots
<1>5. Traces /\ Current
  BY Zenon, <1>1 DEF Init, Traces, Current
<1>6. Dry
  BY <1>2, ZenonT(30) DEF Init, Dry, Fresh
<1>7. SmallestIsPending
  BY DEF Init, SmallestIsPending
<1>8. CountsAgree
  <2>1. Unfuzzed = {} /\ Unfuzzed \cap Active = {} /\ Active = {} /\ Active \cup Spared = {}
    BY <1>1 DEF Unfuzzed, Active, Spared
  <2>2. /\ Cardinality(Unfuzzed) = 0 /\ Cardinality(Unfuzzed \cap Active) = 0
        /\ Cardinality(Active) = 0 /\ Cardinality(Active \cup Spared) = 0
    BY <2>1, FS_EmptySet, Zenon
  <2>. QED
    BY <2>2, SMT DEF Init, CountsAgree
<1>. QED
  BY <1>3, <1>4, <1>5, <1>6, <1>7, <1>8 DEF IInv

(* A step that changes nothing.                                            *)
LEMMA Unchanged == IInv /\ UNCHANGED vars => IInv'
<1>. SUFFICES ASSUME IInv, UNCHANGED vars PROVE IInv'
  OBVIOUS
<1>1. UNCHANGED <<queued_items, q, scores, selection, totals, rescored, resumes>>
  BY DEF vars, rescore
<1>2. /\ ScoreTypes' /\ TcRefCountsSlots' /\ Traces'
      /\ SmallestIsPending' /\ CountsAgree' /\ Queued' = Queued
  BY <1>1, Moved
<1>3. TypeOK'
  BY Zenon, <1>2 DEF IInv, TypeOK, ScoreTypes, vars, selection, totals, cycle, rescore
<1>4. Current' /\ Dry'
  BY <1>2 DEF IInv, Current, Dry, vars, selection, rescore
<1>. QED
  BY <1>2, <1>3, <1>4 DEF IInv

(* The inductive invariant: what update_bitmap_score, cull_queue,          *)
(* fuzz_one and the restart keep true of slots, traces, flags and counters *)
(* for every map, queue, number of rounds and set of options.              *)
THEOREM QueueKept == Spec => []IInv
<1>1. IInv /\ [Next]_vars => IInv'
  <2>. SUFFICES ASSUME IInv, [Next]_vars PROVE IInv'
    OBVIOUS
  <2>1. CASE \/ NoSeeds \/ NothingToCull \/ SameCycle \/ EndRescore \/ NothingActive
             \/ CustomAccepts \/ Skip \/ Proceed \/ EndRound \/ Stop
    BY <2>1, MovedSteps
  <2>2. CASE SelectFavorite \/ SelectAlias
    BY <2>2, SelectSteps
  <2>3. CASE CustomRefuses \/ OutOfChances \/ EndFuzz
    BY <2>3, AbandonSteps
  <2>4. CASE SeedWorks \/ SeedFails \/ EndDryRun \/ Find
    BY <2>4, SeedWorksStep, SeedFailsStep, EndDryRunStep, FindStep
  <2>5. CASE NewCycle \/ Rescore \/ Cull
    BY <2>5, NewCycleStep, RescoreStep, CullStep
  <2>6. CASE Recalibrate \/ Trim \/ Novel \/ StopsInStage \/ FastResume
    BY <2>6, RecalibrateStep, TrimStep, NovelStep, StopsInStageStep, FastResumeStep
  <2>7. CASE UNCHANGED vars
    BY <2>7, Unchanged
  <2>. QED
    BY <2>1, <2>2, <2>3, <2>4, <2>5, <2>6, <2>7 DEF Next
<1>. QED
  BY Start, <1>1, PTL DEF Spec

(* Every variable of the queue keeps its type; no counter goes below zero. *)
THEOREM QueueTypes == Spec => []TypeOK
<1>1. IInv => TypeOK
  BY DEF IInv
<1>. QED
  BY QueueKept, <1>1, PTL

(* tc_ref never counts fewer slots than an entry holds, and counts them    *)
(* exactly until a fast resume.                                            *)
THEOREM SlotsAreCounted == Spec => []TcRefCountsSlots
<1>1. IInv => TcRefCountsSlots
  BY DEF IInv
<1>. QED
  BY QueueKept, <1>1, PTL

(* A trace is kept only for an entry with a slot, and is its own as long   *)
(* as recalculate_all_scores has not been at work.                         *)
THEOREM TracesAreKept == Spec => []MiniKept
<1>1. IInv => MiniKept
  BY DEF IInv, Traces, MiniKept
<1>. QED
  BY QueueKept, <1>1, PTL

(* The entry afl_fuzz_queue prefers is favored and not fuzzed yet, and     *)
(* pending_favored counts such entries.                                    *)
THEOREM PreferredIsPending == Spec => []SmallestIsPending
<1>1. IInv => SmallestIsPending
  BY DEF IInv
<1>. QED
  BY QueueKept, <1>1, PTL

(* pending_not_fuzzed and active_items agree with the flags.               *)
THEOREM CountersAgree == Spec => []CountsAgree
<1>1. IInv => CountsAgree
  BY DEF IInv
<1>. QED
  BY QueueKept, <1>1, PTL

-----------------------------------------------------------------------------
(* cull_queue's loop over top_rated                                        *)

(* A set of numbers has a least one, and a set that holds 0 and with every *)
(* number the next one holds all of them.                                  *)
LEMMA Least ==
  ASSUME NEW T \in SUBSET Nat, T # {}
  PROVE  \E n \in T : \A m \in T : n <= m
<1>. DEFINE R == OpToRel(<, Nat)
<1>1. IsWellFoundedOn(R, Nat)
  BY NatLessThanWellFounded
<1>2. \A m, n \in Nat : m < n => <<m, n>> \in R
  BY DEF OpToRel
<1>. HIDE DEF R
<1>3. \E n \in T : \A m \in T : ~ (<<m, n>> \in R)
  BY Zenon, <1>1, WFMin
<1>4. PICK n \in T : \A m \in T : ~ (<<m, n>> \in R)
  BY <1>3
<1>5. ASSUME NEW m \in T PROVE n <= m
  <2>1. m \in Nat /\ n \in Nat
    OBVIOUS
  <2>2. ~ (m < n)
    BY Zenon, <1>2, <1>4, <2>1
  <2>. QED
    BY <2>1, <2>2
<1>. QED
  BY <1>5

(* A set with 0 and the successors of its numbers has all numbers.         *)
LEMMA Induction ==
  ASSUME NEW S, 0 \in S, \A n \in Nat : n \in S => n + 1 \in S
  PROVE  Nat \subseteq S
<1>. SUFFICES ASSUME NEW k \in Nat, k \notin S PROVE FALSE
  OBVIOUS
<1>. DEFINE T == {n \in Nat : n \notin S}
<1>1. T \in SUBSET Nat /\ T # {}
  OBVIOUS
<1>2. PICK n \in T : \A m \in T : n <= m
  BY Zenon, <1>1, Least
<1>3. n # 0 /\ n - 1 \in Nat
  OBVIOUS
<1>4. n - 1 \in S
  BY <1>2, <1>3
<1>. QED
  BY <1>3, <1>4

(* The recursion that defines Sweep has a solution, so Sweep satisfies it. *)
LEMMA SweepRecursion ==
  /\ Sweep[0] = [temp_v |-> Slot, picked |-> {}]
  /\ \A i \in 0 .. MapSize - 1 : Sweep[i + 1] = Visit(Sweep[i], i)
<1>. DEFINE First   == [temp_v |-> Slot, picked |-> {}]
            P(g, n) == g = [i \in 0 .. n |->
                              IF i = 0 THEN First ELSE Visit(g[i - 1], i - 1)]
            S       == {n \in Nat : \E g : P(g, n)}
<1>. HIDE DEF First
<1>1. 0 \in S
  <2>. DEFINE g == [i \in 0 .. 0 |-> First]
  <2>1. \A i \in 0 .. 0 : i = 0
    OBVIOUS
  <2>2. P(g, 0)
    BY <2>1
  <2>. QED
    BY Zenon, <2>2
<1>2. ASSUME NEW n \in Nat, n \in S PROVE n + 1 \in S
  <2>1. PICK g : P(g, n)
    BY <1>2
  <2>. DEFINE h == [i \in 0 .. n + 1 |-> IF i = n + 1 THEN Visit(g[n], n) ELSE g[i]]
  <2>2. ASSUME NEW i \in 0 .. n + 1
        PROVE  h[i] = IF i = 0 THEN First ELSE Visit(h[i - 1], i - 1)
    <3>1. CASE i = n + 1
      BY <3>1
    <3>2. CASE i # n + 1
      BY <3>2, <2>1
    <3>. QED
      BY <3>1, <3>2
  <2>3. P(h, n + 1)
    BY <2>2
  <2>. HIDE DEF h
  <2>. QED
    BY <2>3
<1>. HIDE DEF S
<1>3. MapSize \in Nat
  BY QueueAssumption
<1>4. MapSize \in S
  BY <1>1, <1>2, <1>3, Induction
<1>5. Sweep = [i \in 0 .. MapSize |->
                 IF i = 0 THEN First ELSE Visit(Sweep[i - 1], i - 1)]
  BY Zenon, <1>4 DEF Sweep, S, First
<1>6. Sweep[0] = First
  BY <1>3, <1>5
<1>7. ASSUME NEW i \in 0 .. MapSize - 1 PROVE Sweep[i + 1] = Visit(Sweep[i], i)
  BY <1>3, <1>5
<1>. QED
  BY <1>6, <1>7 DEF First

(* When the loop has come to slot n, a slot is struck from temp_v only for *)
(* the trace of a picked entry, and every slot behind it whose best entry  *)
(* has a trace is that of a picked entry or struck.                        *)
Swept(s, n) ==
  /\ s.picked \subseteq {e \in Item : trace_mini[e] # {}}
  /\ \A i \in Slot \ s.temp_v : \E e \in s.picked : i \in trace_mini[e]
  /\ \A i \in Slot : i < n /\ top_rated[i] # None /\ trace_mini[top_rated[i]] # {} =>
       top_rated[i] \in s.picked \/ i \notin s.temp_v

(* One round of the loop keeps that.                                       *)
LEMMA VisitSweeps ==
  ASSUME TypeOK, NEW n \in Slot, NEW s, Swept(s, n)
  PROVE  Swept(Visit(s, n), n + 1)
<1>. DEFINE e == top_rated[n]
            Picks == e # None /\ n \in s.temp_v /\ trace_mini[e] # {}
            v == [temp_v |-> s.temp_v \ trace_mini[e], picked |-> s.picked \cup {e}]
<1>1. /\ top_rated \in [Slot -> Item \cup {None}] /\ trace_mini \in [Item -> Trace]
      /\ Slot \subseteq Int
  BY DEF TypeOK, Slot
<1>2. CASE Picks
  <2>1. Visit(s, n) = v /\ v.temp_v = s.temp_v \ trace_mini[e]
        /\ v.picked = s.picked \cup {e}
    BY Zenon, <1>2 DEF Visit
  <2>. HIDE DEF v
  <2>2. e \in Item /\ trace_mini[e] # {}
    BY <1>1, <1>2
  <2>3. v.picked \subseteq {d \in Item : trace_mini[d] # {}}
    BY <2>1, <2>2 DEF Swept
  <2>4. \A i \in Slot \ v.temp_v : \E d \in v.picked : i \in trace_mini[d]
    BY <2>1 DEF Swept
  <2>5. ASSUME NEW i \in Slot, i < n + 1, top_rated[i] # None,
               trace_mini[top_rated[i]] # {}
        PROVE  top_rated[i] \in v.picked \/ i \notin v.temp_v
    <3>1. CASE i = n
      BY <3>1, <2>1
    <3>2. CASE i < n
      BY Zenon, <3>2, <2>1, <2>5 DEF Swept
    <3>3. i = n \/ i < n
      BY <2>5 DEF Slot
    <3>. QED
      BY Zenon, <3>1, <3>2, <3>3
  <2>. QED
    BY Zenon, <2>1, <2>3, <2>4, <2>5 DEF Swept
<1>3. CASE ~ Picks
  <2>1. Visit(s, n) = s
    BY Zenon, <1>3 DEF Visit
  <2>2. ASSUME NEW i \in Slot, i < n + 1, top_rated[i] # None,
               trace_mini[top_rated[i]] # {}
        PROVE  top_rated[i] \in s.picked \/ i \notin s.temp_v
    <3>1. CASE i = n
      BY Zenon, <3>1, <1>3, <2>2
    <3>2. CASE i < n
      BY <3>2, <2>2 DEF Swept
    <3>3. i = n \/ i < n
      BY <2>2 DEF Slot
    <3>. QED
      BY Zenon, <3>1, <3>2, <3>3
  <2>. QED
    BY Zenon, <2>1, <2>2 DEF Swept
<1>. QED
  BY <1>2, <1>3

(* So it holds when the loop has come to the end of the map.               *)
LEMMA SweepCovers ==
  ASSUME TypeOK
  PROVE  Swept(Sweep[MapSize], MapSize)
<1>. DEFINE S == {n \in Nat : n <= MapSize => Swept(Sweep[n], n)}
<1>1. MapSize \in Nat
  BY QueueAssumption
<1>2. 0 \in S
  <2>1. Sweep[0].temp_v = Slot /\ Sweep[0].picked = {}
    BY SweepRecursion
  <2>2. \A i \in Slot : ~ (i < 0)
    BY <1>1 DEF Slot
  <2>3. Swept(Sweep[0], 0)
    BY <2>1, <2>2 DEF Swept
  <2>. QED
    BY <2>3
<1>3. ASSUME NEW n \in Nat, n \in S PROVE n + 1 \in S
  <2>. SUFFICES ASSUME n + 1 <= MapSize PROVE Swept(Sweep[n + 1], n + 1)
    OBVIOUS
  <2>1. n \in Slot /\ n <= MapSize
    BY <1>1 DEF Slot
  <2>2. Sweep[n + 1] = Visit(Sweep[n], n)
    BY <2>1, SweepRecursion DEF Slot
  <2>3. Swept(Sweep[n], n)
    BY <1>3, <2>1
  <2>. QED
    BY <2>1, <2>2, <2>3, VisitSweeps
<1>. HIDE DEF S
<1>4. MapSize \in S
  BY <1>1, <1>2, <1>3, Induction
<1>. QED
  BY <1>1, <1>4 DEF S

(* cull_queue leaves no slot uncovered whose best entry still has its      *)
(* trace, however large the map and in whatever order the slots are held.  *)
THEOREM CullLeavesNoSlot == Spec => CullCovers
<1>. DEFINE A == pc = "cull" /\ score_changed /\ pc' = "cycle" =>
       \A i \in Slot :
         top_rated[i] # None /\ trace_mini[top_rated[i]] # {} =>
           \E e \in Queued : /\ top_rated[i] = e \/ i \in trace_mini[e]
                             /\ q'[e].favored \/ q[e].disabled
<1>1. ASSUME IInv, Next PROVE A
  <2>. SUFFICES ASSUME pc = "cull", score_changed, pc' = "cycle", NEW i \in Slot,
                       top_rated[i] # None, trace_mini[top_rated[i]] # {}
                PROVE  \E e \in Queued : /\ top_rated[i] = e \/ i \in trace_mini[e]
                                         /\ q'[e].favored \/ q[e].disabled
    OBVIOUS
  <2>. DEFINE s == Sweep[MapSize]
  <2>1. Cull
    BY <1>1 DEF Next, SeedWorks, SeedFails, EndDryRun, NoSeeds, Find, NothingToCull,
      SameCycle, NewCycle, Rescore, EndRescore, SelectFavorite, SelectAlias,
      NothingActive, CustomRefuses, CustomAccepts, Skip, Recalibrate, OutOfChances,
      Proceed, Trim, Novel, EndFuzz, EndRound, Stop, StopsInStage, FastResume
  <2>2. Swept(s, MapSize) /\ i < MapSize /\ TypeOK
    BY <1>1, SweepCovers, QueueAssumption DEF Slot, IInv
  <2>3. PICK e \in s.picked : top_rated[i] = e \/ i \in trace_mini[e]
    BY <2>2 DEF Swept
  <2>4. e \in Item /\ trace_mini[e] # {}
    BY <2>2 DEF Swept
  <2>5. e \in Queued
    BY Zenon, <1>1, <2>4 DEF IInv, Traces
  <2>6. q'[e].favored \/ q[e].disabled
    <3>1. SUFFICES ASSUME ~ q[e].disabled PROVE q'[e].favored
      OBVIOUS
    <3>2. q[e] \in Entry
      BY Zenon, <2>2, <2>4 DEF TypeOK
    <3>. QED
      BY Zenon, <2>1, <2>4, <2>5, <3>1, <3>2 DEF Cull, Entry
  <2>. QED
    BY <2>3, <2>5, <2>6
<1>2. ASSUME UNCHANGED vars PROVE A
  BY Zenon, <1>2 DEF vars
<1>. QED
  BY QueueKept, <1>1, <1>2, PTL DEF Spec, CullCovers

-----------------------------------------------------------------------------
(* The entry afl_fuzz_queue insists on                                     *)

(* A preferred entry is counted, is the one fuzz_one works on, and has not *)
(* become novel except in the stages that end with it being fuzzed.        *)
Served ==
  /\ smallest_favored # None =>
       /\ pending_favored > 0
       /\ pc \in {"chosen", "dice", "trim", "fuzz"} => queue_cur = smallest_favored
       /\ q[smallest_favored].tightness_novel =>
            pc \in {"fuzz", "stopped"} /\ queue_cur = smallest_favored
  /\ pc \in {"trim", "fuzz"} => q[queue_cur].cal_failed = 0

(* pending_favored and smallest_favored, which afl_fuzz_queue tests both,  *)
(* say the same, and no other entry is fuzzed before the preferred one.    *)
PreferredFirst ==
  smallest_favored # None =>
    /\ Favorite
    /\ pc \in {"chosen", "dice", "trim", "fuzz"} => queue_cur = smallest_favored

(* Until cull_queue chooses again or the fuzzer is stopped, the preference *)
(* for an entry ends only when the entry counts as fuzzed.                 *)
PreferenceHolds ==
  smallest_favored # None /\ pc \notin {"cull", "stopped"} =>
    \/ smallest_favored' = smallest_favored
    \/ smallest_favored' = None /\ q'[smallest_favored].was_fuzzed

(* The preferred entry is in the queue, favored and not fuzzed.            *)
LEMMA PreferredIsEntry ==
  ASSUME IInv, smallest_favored # None
  PROVE  /\ smallest_favored \in Item /\ smallest_favored < queued_items
         /\ q[smallest_favored].favored /\ ~q[smallest_favored].was_fuzzed
         /\ ~q[smallest_favored].disabled
<1>1. TypeOK /\ smallest_favored \in Pending \cap Active
  BY DEF IInv, SmallestIsPending
<1>2. smallest_favored \in Queued
  BY <1>1 DEF Active
<1> QED BY <1>1, <1>2, QueuedItems DEF Pending, Active, Unfuzzed

(* pending_favored counts the preferred entry unless that is novel.        *)
PreferredCounts ==
  smallest_favored # None /\ ~q[smallest_favored].tightness_novel => pending_favored > 0

(* It is counted in pending_favored.                                       *)
LEMMA PreferredIsCounted == IInv => PreferredCounts
<1> SUFFICES ASSUME IInv, smallest_favored # None, ~q[smallest_favored].tightness_novel
             PROVE  pending_favored > 0
  BY DEF PreferredCounts
<1> DEFINE counted == {e \in Pending : ~q[e].tightness_novel}
<1>1. smallest_favored \in counted
  BY DEF IInv, SmallestIsPending
<1>2. counted \subseteq Queued /\ Queued \subseteq Item
  BY QueuedItems DEF Pending, Unfuzzed, IInv
<1>3. pending_favored \in Cardinality(counted) .. Cardinality(Pending) /\ pending_favored \in Nat
  BY DEF IInv, SmallestIsPending, TypeOK
<1>4. counted \subseteq Item
  BY <1>2
<1> HIDE DEF counted
<1>5. IsFiniteSet(counted)
  BY <1>4, Finite
<1>6. Cardinality(counted) \in Nat /\ Cardinality(counted) # 0
  BY <1>1, <1>5, FS_EmptySet, FS_CardinalityType
<1> QED BY <1>3, <1>6

(* fuzz_one gives an entry back.                                           *)
LEMMA ServedAbandon ==
  ASSUME IInv, IInv', Served, NEW r \in [Item -> Entry], SameFlags(r),
         NEW skipped \in BOOLEAN, abandon_entry(r, skipped),
         pc \in {"chosen", "dice"} \/ (pc = "fuzz" /\ r = q)
  PROVE  Served' /\ PreferenceHolds
<1> DEFINE c == queue_cur
           first == r[c].cal_failed = 0 /\ ~r[c].was_fuzzed /\ ~r[c].disabled
<1>1. c \in Item /\ Queued \subseteq Item
  BY QueuedItems DEF IInv, Current
<1>2. /\ q' = [r EXCEPT ![c].was_fuzzed = @ \/ first,
                        ![c].fuzz_level = IF @ < MaxLevel THEN @ + 1 ELSE @]
      /\ pc' \in {"select", "sync"}
      /\ IF first /\ r[c].favored THEN smallest_favored' = None ELSE UNCHANGED selection
  BY DEF abandon_entry
<1> HIDE DEF first
<1>3. /\ \A e \in Item : q'[e].tightness_novel = r[e].tightness_novel
      /\ first => q'[c].was_fuzzed
  BY Zenon, <1>1, <1>2 DEF Entry
<1>4. smallest_favored # None => smallest_favored = c
  BY DEF Served
<1>5. CASE first /\ r[c].favored
  <2>1. smallest_favored' = None
    BY <1>2, <1>5
  <2> QED BY Zenon, <1>2, <1>3, <1>4, <1>5, <2>1 DEF Served, PreferenceHolds
<1>6. CASE ~(first /\ r[c].favored)
  <2>1. UNCHANGED selection
    BY <1>2, <1>6
  <2>2. smallest_favored # None => pc # "fuzz"
    <3> SUFFICES ASSUME smallest_favored # None, pc = "fuzz" PROVE FALSE
      OBVIOUS
    <3>1. r = q /\ q[c].cal_failed = 0
      BY DEF Served
    <3>2. q[c].favored /\ ~q[c].was_fuzzed /\ ~q[c].disabled
      BY <1>4, PreferredIsEntry
    <3> QED BY <1>6, <3>1, <3>2 DEF first
  <2>3. smallest_favored # None => ~q'[smallest_favored].tightness_novel
    BY Zenon, <1>1, <1>3, <1>4, <2>2 DEF Served, SameFlags
  <2> QED BY <1>2, <2>1, <2>3 DEF Served, PreferenceHolds, selection
<1> QED BY <1>5, <1>6

(* Every step keeps the preference.                                        *)
LEMMA ServedKept ==
  ASSUME IInv, IInv', Served, Next
  PROVE  Served' /\ PreferenceHolds
<1>0. TypeOK /\ q \in [Item -> Entry] /\ Queued \subseteq Item
  BY Zenon, QueuedItems DEF IInv, TypeOK
<1>1. CASE \/ NoSeeds \/ NothingToCull \/ SameCycle \/ EndRescore \/ NothingActive
           \/ CustomAccepts \/ Skip \/ Proceed \/ EndRound \/ Stop \/ NewCycle \/ Rescore
  <2>1. UNCHANGED <<q, selection, queue_cur>>
    BY Zenon, <1>1 DEF NoSeeds, NothingToCull, SameCycle, EndRescore, NothingActive, CustomAccepts,
                Skip, Proceed, EndRound, Stop, NewCycle, Rescore
  <2>2. /\ pc \notin {"fuzz", "stopped"}
        /\ pc' \in {"chosen", "dice", "trim", "fuzz"} => pc \in {"chosen", "dice", "trim"}
        /\ pc' \in {"trim", "fuzz"} => q[queue_cur].cal_failed = 0
    BY Zenon, <1>1 DEF NoSeeds, NothingToCull, SameCycle, EndRescore, NothingActive, CustomAccepts,
                Skip, Proceed, EndRound, Stop, NewCycle, Rescore
  <2> QED BY <2>1, <2>2 DEF Served, PreferenceHolds, selection
<1>2. CASE SelectFavorite
  BY Zenon, <1>2 DEF SelectFavorite, Served, PreferenceHolds, selection
<1>3. CASE SelectAlias
  <2>1. smallest_favored = None
    BY <1>3 DEF SelectAlias, Favorite, Served
  <2> QED BY Zenon, <1>3, <2>1 DEF SelectAlias, Served, PreferenceHolds, selection
<1>4. CASE SeedWorks \/ SeedFails \/ EndDryRun
  <2>1. smallest_favored = None /\ UNCHANGED selection /\ pc' \in {"dry_run", "cull"}
    BY Zenon, <1>4 DEF SeedWorks, SeedFails, EndDryRun, IInv, Dry
  <2> QED BY <2>1 DEF Served, PreferenceHolds, selection
<1>5. CASE Find
  <2>1. UNCHANGED <<selection, queue_cur, pc>> /\ pc \in {"fuzz", "sync"}
    BY <1>5 DEF Find
  <2>2. \A e \in Item : e # queued_items => q'[e] = q[e]
    BY <1>0, <1>5 DEF Find, CalFailed
  <2>3. smallest_favored # None => q'[smallest_favored] = q[smallest_favored]
    <3>1. smallest_favored # None =>
            smallest_favored \in Item /\ smallest_favored # queued_items
      BY PreferredIsEntry, QueuedItems DEF IInv
    <3> QED BY Zenon, <2>2, <3>1
  <2>4. pc = "fuzz" => q'[queue_cur] = q[queue_cur]
    <3>1. pc = "fuzz" => queue_cur \in Queued BY DEF IInv, Current
    <3>2. pc = "fuzz" => queue_cur \in Item /\ queue_cur # queued_items
      BY <3>1, QueuedItems DEF IInv
    <3> QED BY Zenon, <2>2, <3>2
  <2> QED BY Zenon, <2>1, <2>3, <2>4 DEF Served, PreferenceHolds, selection
<1>6. CASE CustomRefuses \/ OutOfChances \/ EndFuzz
  <2>1. PICK skipped \in BOOLEAN : abandon_entry(q, skipped)
    BY Zenon, <1>6 DEF CustomRefuses, OutOfChances, EndFuzz
  <2>2. pc \in {"chosen", "dice", "fuzz"}
    BY Zenon, <1>6 DEF CustomRefuses, OutOfChances, EndFuzz
  <2>3. SameFlags(q)
    BY DEF SameFlags
  <2> QED BY <1>0, <2>1, <2>2, <2>3, ServedAbandon
<1>7. CASE Recalibrate
  <2>0. queue_cur \in Item /\ pc = "dice"
    BY Zenon, <1>0, <1>7 DEF Recalibrate, IInv, Current
  <2>1. CASE abandon_entry(CalFailed(q, queue_cur), TRUE)
    <3>1. CalFailed(q, queue_cur) \in [Item -> Entry] /\ SameFlags(CalFailed(q, queue_cur))
      BY <1>0, <2>0 DEF CalFailed, SameFlags, Entry
    <3> QED BY Zenon, <2>0, <2>1, <3>1, ServedAbandon
  <2>2. ASSUME NEW f \in 1 .. MaxFactor, abandon_entry(Calibrated(q, queue_cur, f), TRUE)
        PROVE  Served' /\ PreferenceHolds
    <3>1. /\ Calibrated(q, queue_cur, f) \in [Item -> Entry]
          /\ SameFlags(Calibrated(q, queue_cur, f))
      <4>1. f \in Nat
        BY QueueAssumption
      <4>2. Calibrated(q, queue_cur, f) \in [Item -> Entry]
        BY ZenonT(30), <1>0, <2>0, <4>1 DEF Calibrated, Entry
      <4>3. SameFlags(Calibrated(q, queue_cur, f))
        BY <1>0, <2>0 DEF Calibrated, SameFlags, Entry
      <4> QED BY <4>2, <4>3
    <3> QED BY Zenon, <2>0, <2>2, <3>1, ServedAbandon
  <2>3. ASSUME NEW f \in 1 .. MaxFactor, q' = Calibrated(q, queue_cur, f), pc' = "trim",
               UNCHANGED <<selection, queue_cur>>
        PROVE  Served' /\ PreferenceHolds
    <3> DEFINE r == Calibrated(q, queue_cur, f)
    <3>1. SameFlags(r) /\ r[queue_cur].cal_failed = 0
      <4>1. SameFlags(r)
        BY <1>0, <2>0 DEF Calibrated, SameFlags, Entry
      <4>2. r[queue_cur].cal_failed = 0
        BY <1>0, <2>0 DEF Calibrated, Entry
      <4> QED BY <4>1, <4>2
    <3> HIDE DEF r
    <3>2. q' = r
      BY <2>3 DEF r
    <3> QED BY Zenon, <2>0, <2>3, <3>1, <3>2, PreferredIsEntry DEF SameFlags, Served, PreferenceHolds, selection
  <2> QED BY Zenon, <1>7, <2>1, <2>2, <2>3 DEF Recalibrate
<1>8. CASE Trim \/ Novel \/ StopsInStage
  <2>1. UNCHANGED <<selection, queue_cur>> /\ pc \in {"trim", "fuzz"} /\ pc' \in {"fuzz", "stopped"}
    BY <1>8 DEF Trim, Novel, StopsInStage
  <2>2. queue_cur \in Item
    BY <1>0, <2>1 DEF IInv, Current
  <2>3. /\ \A e \in Item \ {queue_cur} : q'[e] = q[e]
        /\ q'[queue_cur].cal_failed = q[queue_cur].cal_failed
    <3>1. CASE Trim           BY Zenon, <1>0, <2>2, <3>1 DEF Trim, Entry
    <3>2. CASE Novel          BY <1>0, <2>2, <3>2 DEF Novel, Entry
    <3>3. CASE StopsInStage   BY <1>0, <2>2, <3>3 DEF StopsInStage, Entry
    <3> QED BY Zenon, <1>8, <3>1, <3>2, <3>3
  <2> QED BY Zenon, <2>1, <2>2, <2>3 DEF Served, PreferenceHolds, selection
<1>9. CASE Cull
  <2>1. smallest_favored' # None => ~q'[smallest_favored'].tightness_novel
    <3> DEFINE picked  == {e \in Queued : e \in Sweep[MapSize].picked /\ ~q[e].disabled}
               pending == {e \in picked : ~StillNovel(e) /\ ~q[e].was_fuzzed}
    <3>1. smallest_favored' # None =>
            smallest_favored' \in Queued /\ ~StillNovel(smallest_favored')
      <4>1. smallest_favored' \in IF pending = {} THEN {None}
                                  ELSE {e \in pending : \A d \in pending : e <= d}
        BY <1>9, ZenonT(30) DEF Cull
      <4>2. \A e \in pending : e \in Queued /\ ~StillNovel(e)
        OBVIOUS
      <4> HIDE DEF pending
      <4> QED BY <4>1, <4>2
    <3>2. \A e \in Queued : q'[e].tightness_novel = StillNovel(e)
      <4> SUFFICES ASSUME NEW e \in Queued PROVE q'[e].tightness_novel = StillNovel(e)
        OBVIOUS
      <4>1. \E fav, red, dis, cyc :
              q'[e] = [q[e] EXCEPT !.favored = fav, !.fs_redundant = red, !.disabled = dis,
                         !.tightness_novel = StillNovel(e), !.tightness_novel_cycle = cyc]
        BY <1>0, <1>9, ZenonT(30) DEF Cull
      <4>2. q[e] \in Entry
        BY <1>0
      <4> QED BY <4>1, <4>2 DEF Entry
    <3> QED BY <3>1, <3>2
  <2>2. IInv' => PreferredCounts'
    BY PreferredIsCounted, PTL
  <2>3. pc = "cull" /\ pc' = "cycle"
    BY Zenon, <1>9 DEF Cull
  <2> QED BY Zenon, <2>1, <2>2, <2>3 DEF Served, PreferenceHolds, PreferredCounts
<1>10. CASE FastResume
  <2>1. smallest_favored' = None /\ pc = "stopped" /\ pc' = "cull"
    BY <1>10 DEF FastResume
  <2> QED BY <2>1 DEF Served, PreferenceHolds
<1> QED BY <1>1, <1>2, <1>3, <1>4, <1>5, <1>6, <1>7, <1>8, <1>9, <1>10 DEF Next

(* The strengthening is an invariant.                                      *)
LEMMA ServedAlways == Spec => []Served
<1>1. Init => Served
  BY DEF Init, Served
<1>2. IInv /\ IInv' /\ Served /\ [Next]_vars => Served'
  <2>1. UNCHANGED vars /\ Served => Served'
    BY Zenon DEF vars, selection, Served
  <2> QED BY <2>1, ServedKept
<1> QED BY <1>1, <1>2, QueueKept, PTL DEF Spec

(* afl_fuzz_queue: as long as an entry is preferred, pending_favored is    *)
(* not 0 and fuzz_one works on no other entry.                             *)
THEOREM PreferredComesFirst == Spec => []PreferredFirst
<1>1. Served => PreferredFirst
  BY Zenon DEF Served, PreferredFirst, Favorite
<1> QED BY <1>1, ServedAlways, PTL

(* fuzz_one and abandon_entry: no skip, refusal, failed calibration or     *)
(* find takes the preference from an entry that was not fuzzed.            *)
THEOREM PreferenceIsKept == Spec => [][PreferenceHolds]_vars
<1>1. IInv /\ IInv' /\ Served /\ Next => PreferenceHolds
  BY ServedKept
<1> QED BY <1>1, QueueKept, ServedAlways, PTL DEF Spec

-----------------------------------------------------------------------------
(* Why the loop comes back to an entry                                     *)

(* fuzz_one leaves the preferred entry without counting it as fuzzed only  *)
(* if its calibration has failed, or if the dice passed by an entry that a *)
(* stage has begun with before.                                            *)
LeavesForCause ==
  smallest_favored # None /\ pc \in {"chosen", "dice", "trim", "fuzz"}
    /\ pc' \in {"select", "sync"} =>
      LET e == smallest_favored IN
      \/ q'[e].was_fuzzed
      \/ q'[e].cal_failed > 0
      \/ pc = "dice" /\ q' = q /\ q[e].fuzz_level > 0

(* abandon_entry counts a calibrated entry as fuzzed.                      *)
LEMMA AbandonCounts ==
  ASSUME NEW r \in [Item -> Entry], NEW skipped \in BOOLEAN, abandon_entry(r, skipped),
         queue_cur \in Item, ~r[queue_cur].disabled
  PROVE  q'[queue_cur].was_fuzzed \/ q'[queue_cur].cal_failed > 0
<1> DEFINE c == queue_cur
           first == r[c].cal_failed = 0 /\ ~r[c].was_fuzzed /\ ~r[c].disabled
<1>1. q' = [r EXCEPT ![c].was_fuzzed = @ \/ first,
                     ![c].fuzz_level = IF @ < MaxLevel THEN @ + 1 ELSE @]
  BY DEF abandon_entry
<1>2. r[c] \in Entry /\ r[c].cal_failed \in Nat
  BY DEF Entry
<1> HIDE DEF first
<1>3. q'[c].cal_failed = r[c].cal_failed /\ (first \/ r[c].was_fuzzed => q'[c].was_fuzzed)
  BY Zenon, <1>1, <1>2 DEF Entry
<1>4. first \/ r[c].was_fuzzed \/ r[c].cal_failed > 0
  BY <1>2 DEF first
<1> QED BY Zenon, <1>3, <1>4

(* Where fuzz_one returns, it had a cause.                                 *)
LEMMA CauseShown ==
  ASSUME IInv, Served, Next
  PROVE  LeavesForCause
<1> SUFFICES ASSUME smallest_favored # None, pc \in {"chosen", "dice", "trim", "fuzz"},
                    pc' \in {"select", "sync"}
             PROVE  LET e == smallest_favored IN
                      \/ q'[e].was_fuzzed
                      \/ q'[e].cal_failed > 0
                      \/ pc = "dice" /\ q' = q /\ q[e].fuzz_level > 0
  BY DEF LeavesForCause
<1> DEFINE c == queue_cur
<1>0. /\ q \in [Item -> Entry] /\ c = smallest_favored /\ c \in Item
      /\ q[c].favored /\ ~q[c].disabled /\ pending_favored > 0
  BY Zenon, PreferredIsEntry DEF IInv, TypeOK, Served
<1>1. CASE CustomRefuses \/ OutOfChances \/ EndFuzz
  <2>1. PICK skipped \in BOOLEAN : abandon_entry(q, skipped)
    BY Zenon, <1>1 DEF CustomRefuses, OutOfChances, EndFuzz
  <2> QED BY <1>0, <2>1, AbandonCounts
<1>2. CASE Recalibrate
  <2>1. CASE abandon_entry(CalFailed(q, c), TRUE)
    <3>1. CalFailed(q, c) \in [Item -> Entry] /\ ~CalFailed(q, c)[c].disabled
      BY <1>0 DEF CalFailed, Entry
    <3> QED BY Zenon, <1>0, <2>1, <3>1, AbandonCounts
  <2>2. ASSUME NEW f \in 1 .. MaxFactor, abandon_entry(Calibrated(q, c, f), TRUE)
        PROVE  q'[c].was_fuzzed \/ q'[c].cal_failed > 0
    <3>0. f \in Nat
      BY QueueAssumption
    <3>1. Calibrated(q, c, f) \in [Item -> Entry]
      <4>1. q \in [Item -> Entry] /\ c \in Item
        BY <1>0
      <4> HIDE DEF c
      <4> QED BY ZenonT(30), <3>0, <4>1 DEF Calibrated, Entry
    <3>2. ~Calibrated(q, c, f)[c].disabled
      BY <1>0 DEF Calibrated, Entry
    <3> QED BY Zenon, <1>0, <2>2, <3>1, <3>2, AbandonCounts
  <2>3. \/ abandon_entry(CalFailed(q, c), TRUE)
        \/ \E f \in 1 .. MaxFactor : abandon_entry(Calibrated(q, c, f), TRUE)
    BY Zenon, <1>2 DEF Recalibrate
  <2> QED BY Zenon, <1>0, <2>1, <2>2, <2>3
<1>3. CASE Skip
  <2>1. pc = "dice" /\ q' = q /\ MayBeSkipped(c)
    BY <1>3 DEF Skip
  <2>2. q[c].fuzz_level > 0
    BY <1>0, <2>1 DEF MayBeSkipped
  <2> QED BY <1>0, <2>1, <2>2
<1>4. CASE ~(CustomRefuses \/ OutOfChances \/ EndFuzz) /\ ~Recalibrate /\ ~Skip
  <2>1. CASE SeedWorks \/ SeedFails \/ EndDryRun \/ NoSeeds \/ Cull \/ NothingToCull
    BY Zenon, <2>1 DEF SeedWorks, SeedFails, EndDryRun, NoSeeds, Cull, NothingToCull
  <2>2. CASE SameCycle \/ NewCycle \/ Rescore \/ EndRescore \/ EndRound \/ Stop \/ FastResume
    BY <2>2 DEF SameCycle, NewCycle, Rescore, EndRescore, EndRound, Stop, FastResume
  <2>3. CASE SelectFavorite \/ SelectAlias \/ NothingActive
    BY Zenon, <2>3 DEF SelectFavorite, SelectAlias, NothingActive
  <2>4. CASE CustomAccepts \/ Proceed \/ Trim \/ Novel \/ StopsInStage \/ Find
    BY <2>4 DEF CustomAccepts, Proceed, Trim, Novel, StopsInStage, Find
  <2> HIDE DEF c
  <2> QED BY Zenon, <1>4, <2>1, <2>2, <2>3, <2>4 DEF Next
<1> QED BY Zenon, <1>1, <1>2, <1>3, <1>4

(* fuzz_one and abandon_entry: afl_fuzz_queue comes back to an entry it    *)
(* insists on only for a failed calibration, or after the dice passed by   *)
(* an entry begun before; no refusal of a custom mutator, no trim and no   *)
(* stage sends it back.                                                    *)
THEOREM ReturnsForCause == Spec => [][LeavesForCause]_vars
<1>1. IInv /\ Served /\ Next => LeavesForCause
  BY CauseShown
<1> QED BY <1>1, QueueKept, ServedAlways, PTL DEF Spec
=============================================================================
