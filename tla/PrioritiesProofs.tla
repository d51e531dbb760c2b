-------------------------- MODULE PrioritiesProofs --------------------------
(***************************************************************************)
(* Priority inheritance, for any threads, objects, priorities and order of *)
(* taking them: what is lent is accounted for, nothing is kept, and the    *)
(* run queue counts the running threads.                                   *)
(***************************************************************************)
EXTENDS KernelObjectsProofs, WellFoundedInduction

-----------------------------------------------------------------------------
(* The best of a set of priorities.                                        *)

LEMMA Smallest ==
    ASSUME NEW S, S \subseteq Nat, S # {}
    PROVE  Min(S) \in S /\ \A x \in S : Min(S) <= x
<1>1. \E x \in S : \A y \in S : ~(<<y, x>> \in OpToRel(<, Nat))
  BY NatLessThanWellFounded, WFMin
<1>2. PICK x \in S : \A y \in S : ~(<<y, x>> \in OpToRel(<, Nat))
  BY <1>1
<1>3. \A y \in S : x <= y
  <2> SUFFICES ASSUME NEW y \in S
               PROVE  x <= y
    OBVIOUS
  <2>1. ~(y < x)
    BY <1>2 DEF OpToRel
  <2> QED
    BY <2>1
<1> QED
  BY <1>3 DEF Min

LEMMA LevelsOrder ==
    /\ Priorities \subseteq Nat /\ Levels \subseteq Nat /\ PRIORITY_IDLE \notin Priorities
    /\ Priorities \subseteq Levels /\ PRIORITY_IDLE \in Levels
    /\ \A p \in Levels : p <= PRIORITY_IDLE /\ (p \in Priorities <=> p # PRIORITY_IDLE)
                         /\ (p \in Priorities <=> p < PRIORITY_IDLE)
BY ThreadsAssumption DEF Priorities, PRIORITY_IDLE, Levels

(* Best finds the first priority that has an entry. *)
LEMMA BestOf ==
    ASSUME NEW d \in [Priorities -> Nat]
    PROVE  /\ Best(Entries(d)) \in Levels
           /\ Best(Entries(d)) \in Priorities => d[Best(Entries(d))] > 0
           /\ \A p \in Priorities : d[p] > 0 => Best(Entries(d)) <= p /\ Best(Entries(d)) \in Priorities
<1> DEFINE S == {p \in Priorities : d[p] > 0} \cup {PRIORITY_IDLE}
<1>1. S \subseteq Nat /\ S # {}
  BY LevelsOrder
<1>2. Min(S) \in S /\ \A x \in S : Min(S) <= x
  BY <1>1, Smallest
<1>3. Best(Entries(d)) = Min(S)
  BY DEF Best, Entries
<1> HIDE DEF S
<1>4. Best(Entries(d)) \in S /\ \A x \in S : Best(Entries(d)) <= x
  BY <1>2, <1>3
<1>5. Best(Entries(d)) \in Levels /\ (Best(Entries(d)) \in Priorities => d[Best(Entries(d))] > 0)
  BY <1>4, LevelsOrder DEF S
<1>6. \A p \in Priorities : d[p] > 0 => Best(Entries(d)) <= p
  BY <1>4 DEF S
<1>7. ASSUME NEW p \in Priorities, Best(Entries(d)) <= p
      PROVE  Best(Entries(d)) \in Priorities
  <2>1. p < PRIORITY_IDLE /\ p \in Nat /\ Best(Entries(d)) \in Nat /\ PRIORITY_IDLE \in Nat
    BY <1>5, LevelsOrder
  <2>2. Best(Entries(d)) < PRIORITY_IDLE
    BY <1>7, <2>1
  <2> QED
    BY <1>5, <2>2, LevelsOrder
<1> QED
  BY <1>5, <1>6, <1>7

LEMMA BestIs ==
    ASSUME NEW d \in [Priorities -> Nat], NEW b \in Levels,
           b \in Priorities => d[b] > 0,
           \A p \in Priorities : d[p] > 0 => b <= p
    PROVE  Best(Entries(d)) = b
<1>1. /\ Best(Entries(d)) \in Levels
      /\ Best(Entries(d)) \in Priorities => d[Best(Entries(d))] > 0
      /\ \A p \in Priorities : d[p] > 0 => Best(Entries(d)) <= p
  BY BestOf
<1>2. CASE b \in Priorities
  <2>1. Best(Entries(d)) <= b /\ Best(Entries(d)) \in Priorities
    BY <1>2, BestOf
  <2>2. b <= Best(Entries(d))
    BY <1>1, <2>1
  <2>3. b \in Nat /\ Best(Entries(d)) \in Nat
    BY <1>1, LevelsOrder
  <2> QED
    BY <2>1, <2>2, <2>3
<1>3. CASE b \notin Priorities
  <2>1. ASSUME Best(Entries(d)) \in Priorities
        PROVE  FALSE
    <3>1. b <= Best(Entries(d)) /\ b = PRIORITY_IDLE
      BY <1>1, <1>3, <2>1, LevelsOrder
    <3>2. Best(Entries(d)) < PRIORITY_IDLE /\ Best(Entries(d)) \in Nat /\ PRIORITY_IDLE \in Nat
      BY <2>1, LevelsOrder
    <3> QED
      BY <3>1, <3>2
  <2> QED
    BY <1>1, <1>3, <2>1, LevelsOrder
<1> QED
  BY <1>2, <1>3

(* The best priority in a wait queue is that of a waiter. *)
LEMMA FoundPriority ==
    ASSUME NEW q \in Seq(Threads), NEW pr, \A t \in Threads : pr[t] \in Levels
    PROVE  LET r == wait_queue_find_priority(q, pr) IN
           /\ r \in Levels
           /\ r = PRIORITY_IDLE \/ \E t \in ToSet(q) : pr[t] = r
           /\ q # <<>> /\ (\A t \in Threads : pr[t] \in Priorities) => r # PRIORITY_IDLE
<1> DEFINE S == {pr[t] : t \in ToSet(q)} \cup {PRIORITY_IDLE}
<1>1. \A t \in ToSet(q) : t \in Threads
  BY DEF ToSet
<1>2. S \subseteq Levels /\ S # {}
  BY <1>1, LevelsOrder
<1>3. S \subseteq Nat
  BY <1>2, LevelsOrder
<1>4. Min(S) \in S /\ \A x \in S : Min(S) <= x
  BY <1>2, <1>3, Smallest
<1>5. wait_queue_find_priority(q, pr) = Min(S)
  BY DEF wait_queue_find_priority
<1>6. ASSUME q # <<>>, \A t \in Threads : pr[t] \in Priorities
      PROVE  Min(S) # PRIORITY_IDLE
  <2>1. PICK t \in ToSet(q) : pr[t] \in S
    <3>1. 1 \in DOMAIN q
      BY <1>6
    <3> QED
      BY <3>1 DEF ToSet
  <2>2. pr[t] < PRIORITY_IDLE /\ pr[t] \in Nat /\ PRIORITY_IDLE \in Nat
    BY <1>1, <1>6, LevelsOrder
  <2> HIDE DEF S
  <2> QED
    BY <1>3, <1>4, <2>1, <2>2
<1> HIDE DEF S
<1>7. wait_queue_find_priority(q, pr) \in S
  BY <1>4, <1>5
<1> QED
  BY <1>2, <1>5, <1>6, <1>7 DEF S

-----------------------------------------------------------------------------
(* Entries of a distribution.                                              *)

One(p, q) == IF p = q THEN 1 ELSE 0

LEMMA EntryAdded ==
    ASSUME NEW d \in [Priorities -> Nat], NEW q
    PROVE  /\ prio_add_entry(d, q) \in [Priorities -> Nat]
           /\ \A p \in Priorities : prio_add_entry(d, q)[p] = d[p] + One(p, q)
BY DEF prio_add_entry, One

LEMMA EntrySubtracted ==
    ASSUME NEW d \in [Priorities -> Nat], NEW q, q \in Priorities => d[q] > 0
    PROVE  /\ prio_subtract_entry(d, q) \in [Priorities -> Nat]
           /\ \A p \in Priorities : prio_subtract_entry(d, q)[p] = d[p] - One(p, q)
BY DEF prio_subtract_entry, One

LEMMA EntryMoved ==
    ASSUME NEW d \in [Priorities -> Nat], NEW q, q \in Priorities => d[q] > 0, NEW r
    PROVE  /\ prio_move_entry(d, q, r) \in [Priorities -> Nat]
           /\ \A p \in Priorities : prio_move_entry(d, q, r)[p] = d[p] - One(p, q) + One(p, r)
<1>1. /\ prio_subtract_entry(d, q) \in [Priorities -> Nat]
      /\ \A p \in Priorities : prio_subtract_entry(d, q)[p] = d[p] - One(p, q)
  BY EntrySubtracted
<1>2. /\ prio_add_entry(prio_subtract_entry(d, q), r) \in [Priorities -> Nat]
      /\ \A p \in Priorities : prio_add_entry(prio_subtract_entry(d, q), r)[p]
                                 = prio_subtract_entry(d, q)[p] + One(p, r)
  BY <1>1, EntryAdded
<1> QED
  BY <1>1, <1>2 DEF prio_move_entry

(* A mask that tells the entries of its histogram still does once both     *)
(* have changed.                                                           *)
LEMMA MaskAdded ==
    ASSUME NEW d \in [Priorities -> Nat], NEW q \in Priorities
    PROVE  mask_add_entry(Entries(d), d, q) = Entries(prio_add_entry(d, q))
<1>1. \A p \in Priorities : prio_add_entry(d, q)[p] = IF p = q THEN d[p] + 1 ELSE d[p]
  BY DEF prio_add_entry
<1>2. mask_add_entry(Entries(d), d, q) = IF d[q] = 0 THEN Entries(d) \cup {q} ELSE Entries(d)
  BY LevelsOrder DEF mask_add_entry
<1>3. \A p \in Priorities : d[p] \in Nat
  OBVIOUS
<1>4. \A p : p \in Entries(prio_add_entry(d, q)) <=> p \in Priorities /\ (p = q \/ d[p] > 0)
  BY <1>1, <1>3 DEF Entries
<1>5. \A p : p \in mask_add_entry(Entries(d), d, q) <=> p \in Priorities /\ (p = q \/ d[p] > 0)
  <2>1. d[q] = 0 \/ d[q] > 0
    BY <1>3
  <2> QED
    BY <1>2, <2>1 DEF Entries
<1> QED
  BY <1>4, <1>5

LEMMA MaskSubtracted ==
    ASSUME NEW d \in [Priorities -> Nat], NEW q \in Priorities, d[q] > 0
    PROVE  mask_subtract_entry(Entries(d), d, q) = Entries(prio_subtract_entry(d, q))
<1>1. \A p \in Priorities : prio_subtract_entry(d, q)[p] = IF p = q THEN d[p] - 1 ELSE d[p]
  BY DEF prio_subtract_entry
<1>2. mask_subtract_entry(Entries(d), d, q) = IF d[q] = 1 THEN Entries(d) \ {q} ELSE Entries(d)
  BY LevelsOrder DEF mask_subtract_entry
<1>3. \A p \in Priorities : d[p] \in Nat
  OBVIOUS
<1>4. \A p : p \in Entries(prio_subtract_entry(d, q))
               <=> p \in Priorities /\ d[p] > 0 /\ ~(p = q /\ d[p] = 1)
  BY <1>1, <1>3 DEF Entries
<1>5. \A p : p \in mask_subtract_entry(Entries(d), d, q)
               <=> p \in Priorities /\ d[p] > 0 /\ ~(p = q /\ d[p] = 1)
  BY <1>2 DEF Entries
<1> QED
  BY <1>4, <1>5

(* A thread's mask tells the entries of its histogram, and its priority is *)
(* the best of them.                                                       *)
Fits(t) == pdmask[t] = Entries(pdist[t]) /\ priority[t] = Best(pdmask[t])

LEMMA InheritExact ==
    ASSUME NEW t, pdist[t] \in [Priorities -> Nat], Fits(t),
           NEW q \in Levels, NEW r, r = Inherit(t, q)
    PROVE  /\ r.pdist \in [Priorities -> Nat]
           /\ \A p \in Priorities : r.pdist[p] = pdist[t][p] + One(p, q)
           /\ r.pdmask = Entries(r.pdist) /\ r.priority = Best(r.pdmask)
<1> DEFINE b == Best(Entries(pdist[t]))
<1>1. /\ b \in Levels /\ priority[t] \in Nat /\ priority[t] = b
      /\ b \in Priorities => pdist[t][b] > 0
      /\ \A p \in Priorities : pdist[t][p] > 0 => b <= p
  BY BestOf, LevelsOrder DEF Fits
<1> HIDE DEF b
<1>2. CASE q = PRIORITY_IDLE
  <2>1. r.pdist = pdist[t] /\ r.priority = priority[t] /\ r.pdmask = pdmask[t]
    BY <1>2 DEF Inherit, Kept
  <2>2. \A p \in Priorities : One(p, q) = 0 /\ pdist[t][p] \in Nat
    BY <1>2, LevelsOrder DEF One
  <2> QED
    BY <2>1, <2>2 DEF Fits
<1>3. CASE q # PRIORITY_IDLE
  <2> DEFINE d == prio_add_entry(pdist[t], q)
  <2>1. q \in Priorities /\ q \in Nat
    BY <1>3, LevelsOrder
  <2>2. d \in [Priorities -> Nat] /\ \A p \in Priorities : d[p] = pdist[t][p] + One(p, q)
    BY <2>1, EntryAdded
  <2>3. /\ r.pdist = d /\ r.pdmask = mask_add_entry(pdmask[t], pdist[t], q)
        /\ r.priority = IF q < priority[t] /\ pdist[t][q] = 0 THEN q ELSE priority[t]
    BY <1>3 DEF Inherit, InheritUnchecked
  <2>7. r.pdmask = Entries(d)
    BY <2>1, <2>3, MaskAdded DEF Fits
  <2> HIDE DEF d
  <2>4. d[q] = pdist[t][q] + 1 /\ \A p \in Priorities \ {q} : d[p] = pdist[t][p]
    <3>1. One(q, q) = 1 /\ \A p \in Priorities \ {q} : One(p, q) = 0 /\ pdist[t][p] \in Nat
      BY DEF One
    <3>2. d[q] = pdist[t][q] + One(q, q)
      BY <2>1, <2>2
    <3>3. \A p \in Priorities \ {q} : d[p] = pdist[t][p] + One(p, q)
      BY <2>2
    <3> QED
      BY <3>1, <3>2, <3>3
  <2>5. CASE q < priority[t]
    <3>1. pdist[t][q] = 0
      BY <1>1, <2>1, <2>5
    <3>2. \A p \in Priorities : d[p] > 0 => q <= p
      BY <1>1, <2>1, <2>4, <2>5, LevelsOrder
    <3>3. Best(Entries(d)) = q
      BY <2>1, <2>2, <2>4, <3>2, BestIs
    <3> QED
      BY <2>2, <2>3, <2>5, <2>7, <3>1, <3>3
  <2>6. CASE ~(q < priority[t])
    <3>1. priority[t] <= q
      BY <1>1, <2>1, <2>6
    <3>2. priority[t] \in Priorities => d[priority[t]] > 0
      BY <1>1, <2>1, <2>4
    <3>3. \A p \in Priorities : d[p] > 0 => priority[t] <= p
      BY <1>1, <2>4, <3>1
    <3>4. Best(Entries(d)) = priority[t]
      BY <1>1, <2>2, <3>2, <3>3, BestIs
    <3> QED
      BY <2>2, <2>3, <2>6, <2>7, <3>4
  <2> QED
    BY <2>5, <2>6
<1> QED
  BY <1>2, <1>3

LEMMA DisinheritExact ==
    ASSUME NEW t, pdist[t] \in [Priorities -> Nat], Fits(t),
           NEW q \in Levels, q \in Priorities => pdist[t][q] > 0,
           NEW r, r = Disinherit(t, q)
    PROVE  /\ r.pdist \in [Priorities -> Nat]
           /\ \A p \in Priorities : r.pdist[p] = pdist[t][p] - One(p, q)
           /\ r.pdmask = Entries(r.pdist) /\ r.priority = Best(r.pdmask)
<1> DEFINE b == Best(Entries(pdist[t]))
<1>1. /\ b \in Levels /\ priority[t] \in Nat /\ priority[t] = b
      /\ b \in Priorities => pdist[t][b] > 0
      /\ \A p \in Priorities : pdist[t][p] > 0 => b <= p
  BY BestOf, LevelsOrder DEF Fits
<1> HIDE DEF b
<1>2. CASE q = PRIORITY_IDLE
  <2>1. r.pdist = pdist[t] /\ r.priority = priority[t] /\ r.pdmask = pdmask[t]
    BY <1>2 DEF Disinherit, Kept
  <2>2. \A p \in Priorities : One(p, q) = 0 /\ pdist[t][p] \in Nat
    BY <1>2, LevelsOrder DEF One
  <2> QED
    BY <2>1, <2>2 DEF Fits
<1>3. CASE q # PRIORITY_IDLE
  <2> DEFINE d == prio_subtract_entry(pdist[t], q)
  <2>1. q \in Priorities /\ q \in Nat
    BY <1>3, LevelsOrder
  <2>2. d \in [Priorities -> Nat] /\ \A p \in Priorities : d[p] = pdist[t][p] - One(p, q)
    BY <2>1, EntrySubtracted
  <2>3. /\ r.pdist = d /\ r.pdmask = mask_subtract_entry(pdmask[t], pdist[t], q)
        /\ r.priority = IF pdist[t][q] = 1 /\ q <= priority[t] THEN Best(r.pdmask) ELSE priority[t]
    BY <1>3 DEF Disinherit, DisinheritUnchecked
  <2>7. r.pdmask = Entries(d)
    BY <2>1, <2>3, MaskSubtracted DEF Fits
  <2> HIDE DEF d
  <2>4. d[q] = pdist[t][q] - 1 /\ \A p \in Priorities \ {q} : d[p] = pdist[t][p]
    <3>1. One(q, q) = 1 /\ \A p \in Priorities \ {q} : One(p, q) = 0 /\ pdist[t][p] \in Nat
      BY DEF One
    <3>2. d[q] = pdist[t][q] - One(q, q)
      BY <2>1, <2>2
    <3>3. \A p \in Priorities \ {q} : d[p] = pdist[t][p] - One(p, q)
      BY <2>2
    <3> QED
      BY <3>1, <3>2, <3>3
  <2>8. pdist[t][q] = 1 <=> d[q] = 0
    BY <2>1, <2>4
  <2>5. CASE d[q] = 0 /\ q <= priority[t]
    BY <2>2, <2>3, <2>5, <2>7, <2>8
  <2>6. CASE ~(d[q] = 0 /\ q <= priority[t])
    <3>1. \A p \in Priorities : d[p] > 0 => pdist[t][p] > 0
      BY <2>1, <2>4
    <3>2. \A p \in Priorities : d[p] > 0 => priority[t] <= p
      BY <1>1, <3>1
    <3>3. priority[t] \in Priorities => d[priority[t]] > 0
      <4>1. CASE priority[t] = q
        BY <2>1, <2>2, <2>6, <4>1
      <4>2. CASE priority[t] # q
        BY <1>1, <2>4, <4>2
      <4> QED
        BY <4>1, <4>2
    <3>4. Best(Entries(d)) = priority[t]
      BY <1>1, <2>2, <3>2, <3>3, BestIs
    <3> QED
      BY <2>2, <2>3, <2>6, <2>7, <2>8, <3>4
  <2> QED
    BY <2>5, <2>6
<1> QED
  BY <1>2, <1>3

LEMMA LentExact ==
    ASSUME NEW d \in [Priorities -> Nat], NEW old \in Levels, NEW new \in Levels,
           old \in Priorities => d[old] > 0
    PROVE  /\ Lent(d, old, new) \in [Priorities -> Nat]
           /\ \A p \in Priorities : Lent(d, old, new)[p] = d[p] + One(p, new) - One(p, old)
<1> DEFINE added == IF new < PRIORITY_IDLE THEN prio_add_entry(d, new) ELSE d
<1>1. added \in [Priorities -> Nat] /\ \A p \in Priorities : added[p] = d[p] + One(p, new)
  <2>1. CASE new \in Priorities
    BY <2>1, LevelsOrder, EntryAdded
  <2>2. CASE new \notin Priorities
    <3>1. added = d
      BY <2>2, LevelsOrder
    <3>2. \A p \in Priorities : One(p, new) = 0 /\ d[p] \in Nat
      BY <2>2 DEF One
    <3> QED
      BY <3>1, <3>2
  <2> QED
    BY <2>1, <2>2
<1>2. Lent(d, old, new) = IF old < PRIORITY_IDLE THEN prio_subtract_entry(added, old) ELSE added
  BY DEF Lent
<1> HIDE DEF added
<1>3. CASE old \in Priorities
  <2>1. added[old] > 0
    BY <1>1, <1>3 DEF One
  <2>2. Lent(d, old, new) = prio_subtract_entry(added, old)
    BY <1>2, <1>3, LevelsOrder
  <2>3. \A p \in Priorities : Lent(d, old, new)[p] = added[p] - One(p, old)
    BY <1>1, <1>3, <2>1, <2>2, EntrySubtracted
  <2>4. Lent(d, old, new) \in [Priorities -> Nat]
    BY <1>1, <1>3, <2>1, <2>2, EntrySubtracted
  <2>5. ASSUME NEW p \in Priorities
        PROVE  Lent(d, old, new)[p] = d[p] + One(p, new) - One(p, old)
    <3>1. added[p] = d[p] + One(p, new) /\ Lent(d, old, new)[p] = added[p] - One(p, old)
      BY <1>1, <2>3
    <3>2. One(p, old) \in Int /\ One(p, new) \in Int /\ d[p] \in Int
      BY DEF One
    <3> QED
      BY <3>1, <3>2
  <2> QED
    BY <2>4, <2>5
<1>4. CASE old \notin Priorities
  <2>1. Lent(d, old, new) = added
    BY <1>2, <1>4, LevelsOrder
  <2>2. \A p \in Priorities : One(p, old) = 0 /\ One(p, new) \in Int /\ d[p] \in Int
    BY <1>4 DEF One
  <2>3. ASSUME NEW p \in Priorities
        PROVE  Lent(d, old, new)[p] = d[p] + One(p, new) - One(p, old)
    <3>1. added[p] = d[p] + One(p, new)
      BY <1>1
    <3> QED
      BY <2>1, <2>2, <3>1
  <2> QED
    BY <1>1, <2>1, <2>3
<1> QED
  BY <1>3, <1>4

LEMMA MaskLent ==
    ASSUME NEW d \in [Priorities -> Nat], NEW old \in Levels, NEW new \in Levels,
           old \in Priorities => d[old] > 0
    PROVE  LentMask(Entries(d), d, old, new) = Entries(Lent(d, old, new))
<1> DEFINE added == IF new < PRIORITY_IDLE THEN prio_add_entry(d, new) ELSE d
           set == IF new < PRIORITY_IDLE THEN mask_add_entry(Entries(d), d, new) ELSE Entries(d)
<1>1. added \in [Priorities -> Nat] /\ (old \in Priorities => added[old] > 0)
  <2>1. CASE new < PRIORITY_IDLE
    <3>1. \A p \in Priorities : added[p] = d[p] + One(p, new) /\ d[p] \in Nat /\ One(p, new) \in Nat
      BY <2>1, EntryAdded DEF One
    <3>2. added \in [Priorities -> Nat]
      BY <2>1, EntryAdded
    <3> QED
      BY <3>1, <3>2
  <2> QED
    BY <2>1
<1>2. set = Entries(added)
  BY LevelsOrder, MaskAdded
<1>3. /\ Lent(d, old, new) = IF old < PRIORITY_IDLE THEN prio_subtract_entry(added, old) ELSE added
      /\ LentMask(Entries(d), d, old, new)
           = IF old < PRIORITY_IDLE THEN mask_subtract_entry(set, added, old) ELSE set
  BY DEF Lent, LentMask
<1> HIDE DEF added, set
<1> QED
  BY <1>1, <1>2, <1>3, LevelsOrder, MaskSubtracted

-----------------------------------------------------------------------------
(* Accounts: a distribution d has the thread's own entry, base, and one    *)
(* for each blocker in S[p] at p.                                          *)

Account(d, base, S) ==
    /\ d \in [Priorities -> Nat]
    /\ base \in Priorities
    /\ S \in [Priorities -> SUBSET Blockers]
    /\ \A p \in Priorities : d[p] = Cardinality(S[p]) + One(p, base)

LEMMA Counting ==
    ASSUME NEW S \in SUBSET Blockers
    PROVE  /\ IsFiniteSet(S) /\ Cardinality(S) \in Nat
           /\ \A o \in S : Cardinality(S \ {o}) = Cardinality(S) - 1 /\ Cardinality(S) > 0
           /\ \A o \in Blockers \ S : Cardinality(S \cup {o}) = Cardinality(S) + 1
<1>1. IsFiniteSet(S) /\ Cardinality(S) \in Nat
  BY ThreadsAssumption, FS_Subset, FS_CardinalityType
<1>2. ASSUME NEW o \in S
      PROVE  Cardinality(S \ {o}) = Cardinality(S) - 1 /\ Cardinality(S) > 0
  <2>1. Cardinality(S \ {o}) = Cardinality(S) - 1
    BY <1>1, FS_RemoveElement
  <2>2. Cardinality(S) # 0
    BY <1>1, FS_EmptySet
  <2> QED
    BY <1>1, <2>1, <2>2
<1>3. ASSUME NEW o \in Blockers \ S
      PROVE  Cardinality(S \cup {o}) = Cardinality(S) + 1
  BY <1>1, FS_AddElement
<1> QED
  BY <1>1, <1>2, <1>3

(* What a blocker lends changes from level old to level new. *)
LEMMA Recounted ==
    ASSUME NEW d, NEW base, NEW S, Account(d, base, S),
           NEW o \in Blockers, NEW old \in Levels, NEW new \in Levels,
           \A p \in Priorities : o \in S[p] <=> p = old,
           NEW S2 \in [Priorities -> SUBSET Blockers],
           \A p \in Priorities : \A x \in Blockers : x \in S2[p] <=> IF x = o THEN p = new ELSE x \in S[p],
           NEW d2 \in [Priorities -> Nat],
           \A p \in Priorities : d2[p] = d[p] + One(p, new) - One(p, old)
    PROVE  Account(d2, base, S2)
<1> SUFFICES ASSUME NEW p \in Priorities
             PROVE  Cardinality(S2[p]) = Cardinality(S[p]) + One(p, new) - One(p, old)
  <2>1. ASSUME NEW p \in Priorities,
               Cardinality(S2[p]) = Cardinality(S[p]) + One(p, new) - One(p, old)
        PROVE  d2[p] = Cardinality(S2[p]) + One(p, base)
    <3>1. d[p] = Cardinality(S[p]) + One(p, base) /\ d2[p] = d[p] + One(p, new) - One(p, old)
      BY DEF Account
    <3>2. /\ Cardinality(S[p]) \in Nat /\ d[p] \in Nat
          /\ One(p, base) \in Int /\ One(p, new) \in Int /\ One(p, old) \in Int
      BY Counting DEF One, Account
    <3> QED
      BY <2>1, <3>1, <3>2
  <2> QED
    BY <2>1 DEF Account
<1> DEFINE A == S[p]
           B == S2[p]
<1>1. /\ A \in SUBSET Blockers /\ B \in SUBSET Blockers /\ (o \in A <=> p = old) /\ (o \in B <=> p = new)
      /\ \A x \in Blockers \ {o} : x \in B <=> x \in A
  BY DEF Account
<1> HIDE DEF A, B
<1>2. Cardinality(A) \in Nat
  BY <1>1, Counting
<1>3. CASE p = old /\ p = new
  <2>1. A = B
    <3>1. \A x \in Blockers : x \in A <=> x \in B
      BY <1>1, <1>3
    <3> QED
      BY <1>1, <3>1
  <2> QED
    BY <1>2, <1>3, <2>1 DEF One, A, B
<1>4. CASE p = old /\ p # new
  <2>1. B = A \ {o}
    BY <1>1, <1>4
  <2>2. Cardinality(B) = Cardinality(A) - 1
    BY <1>1, <1>4, <2>1, Counting
  <2> QED
    BY <1>2, <1>4, <2>2 DEF One, A, B
<1>5. CASE p # old /\ p = new
  <2>1. B = A \cup {o}
    BY <1>1, <1>5
  <2>2. Cardinality(B) = Cardinality(A) + 1
    BY <1>1, <1>5, <2>1, Counting
  <2> QED
    BY <1>2, <1>5, <2>2 DEF One, A, B
<1>6. CASE p # old /\ p # new
  <2>1. A = B
    <3>1. \A x \in Blockers : x \in A <=> x \in B
      BY <1>1, <1>6
    <3> QED
      BY <1>1, <3>1
  <2> QED
    BY <1>2, <1>6, <2>1 DEF One, A, B
<1> QED
  BY <1>3, <1>4, <1>5, <1>6

(* The base priority changes. *)
LEMMA Rebased ==
    ASSUME NEW d, NEW base, NEW S, Account(d, base, S), NEW new \in Priorities
    PROVE  /\ d[base] > 0
           /\ Account(prio_move_entry(d, base, new), new, S)
<1>1. /\ d \in [Priorities -> Nat] /\ base \in Priorities /\ S \in [Priorities -> SUBSET Blockers]
      /\ \A p \in Priorities : d[p] = Cardinality(S[p]) + One(p, base) /\ Cardinality(S[p]) \in Nat
  BY Counting DEF Account
<1>2. d[base] > 0
  <2>1. d[base] = Cardinality(S[base]) + 1 /\ Cardinality(S[base]) \in Nat
    BY <1>1 DEF One
  <2> QED
    BY <2>1
<1>3. /\ prio_move_entry(d, base, new) \in [Priorities -> Nat]
      /\ \A p \in Priorities : prio_move_entry(d, base, new)[p] = d[p] - One(p, base) + One(p, new)
  BY <1>1, <1>2, EntryMoved
<1>4. ASSUME NEW p \in Priorities
      PROVE  prio_move_entry(d, base, new)[p] = Cardinality(S[p]) + One(p, new)
  <2>1. /\ One(p, base) \in Int /\ One(p, new) \in Int /\ Cardinality(S[p]) \in Int
        /\ d[p] = Cardinality(S[p]) + One(p, base)
        /\ prio_move_entry(d, base, new)[p] = d[p] - One(p, base) + One(p, new)
    BY <1>1, <1>3 DEF One
  <2> QED
    BY <2>1
<1> QED
  BY <1>1, <1>2, <1>3, <1>4 DEF Account

(* What is accounted for can be given back. *)
LEMMA Owing ==
    ASSUME NEW d, NEW base, NEW S, Account(d, base, S), NEW p \in Priorities, NEW o \in S[p]
    PROVE  d[p] > 0
<1>1. /\ d[p] = Cardinality(S[p]) + One(p, base) /\ Cardinality(S[p]) \in Nat /\ Cardinality(S[p]) > 0
      /\ One(p, base) \in Nat
  BY Counting DEF Account, One
<1> QED
  BY <1>1

-----------------------------------------------------------------------------
(* The owners of blockers.                                                 *)

LEMMA OwnersAreHolders ==
    ASSUME ObjectsInv
    PROVE  /\ \A o \in Blockers : Owners(o) \subseteq Threads
           /\ \A o \in Locks : Owners(o) = ReadersOf(o) \cup WritersOf(o)
           /\ \A q \in Queues : Owners(q) = {QueueOwner[q]}
<1>1. WaitInv /\ LockTypes /\ None \notin Threads
  BY InvParts, Apart
<1>2. ASSUME NEW o \in Blockers
      PROVE  Owners(o) \subseteq Threads
  BY <1>1 DEF Owners, LockTypes
<1>3. ASSUME NEW m \in Mutexes
      PROVE  Owners(m) = ReadersOf(m) \cup WritersOf(m)
  <2>1. m \in Blockers /\ mask[m] = {}
    BY Apart DEF ObjectsInv, MutexExact
  <2>2. ReadersOf(m) = {} /\ WritersOf(m) = {u \in Threads : owner[m] = u}
    BY HoldersByFields
  <2>3. owner[m] \in Threads \cup {None}
    BY <1>1, <2>1 DEF LockTypes
  <2> QED
    BY <1>1, <2>1, <2>2, <2>3 DEF Owners
<1>4. ASSUME NEW l \in Mrsws
      PROVE  Owners(l) = ReadersOf(l) \cup WritersOf(l)
  <2>1. l \in Blockers /\ MrswExact(l) /\ count[l] \in Int
    BY <1>1, Apart DEF ObjectsInv, LockTypes
  <2>2. ReadersOf(l) = mask[l] /\ WritersOf(l) = IF count[l] < 0 THEN {owner[l]} ELSE {}
    BY HoldersByFields
  <2>3. CASE count[l] < 0
    <3>1. ReadersOf(l) = {} /\ WritersOf(l) = {owner[l]} /\ WritersOf(l) \subseteq Threads
      BY <2>1, <2>3 DEF MrswExact, WritersOf
    <3> QED
      BY <1>1, <3>1 DEF Owners
  <2>4. CASE count[l] = 1
    <3>1. ReadersOf(l) = {owner[l]} /\ WritersOf(l) = {} /\ ReadersOf(l) \subseteq Threads
      BY <2>1, <2>2, <2>4 DEF MrswExact, ReadersOf
    <3> QED
      BY <1>1, <3>1 DEF Owners
  <2>5. CASE count[l] >= 0 /\ count[l] # 1
    BY <2>1, <2>2, <2>5 DEF MrswExact, Owners
  <2> QED
    BY <2>1, <2>3, <2>4, <2>5
<1>5. ASSUME NEW q \in Queues
      PROVE  Owners(q) = {QueueOwner[q]}
  <2>1. owner[q] = QueueOwner[q] /\ QueueOwner[q] \in Threads
    BY KernelAssumption DEF ObjectsInv, ServedExact
  <2> QED
    BY <1>1, <2>1 DEF Owners
<1> QED
  BY <1>2, <1>3, <1>4, <1>5, Apart

(* Who waits for a blocker is linked to it, and is blocked. *)
LEMMA WaitersBlocked ==
    ASSUME WaitInv, NEW t \in Threads
    PROVE  /\ \A o \in Blockers : wqp[t] = o <=> blocker[t] = o
           /\ blocker[t] \in Blockers => state[t] = "blocked"
           /\ \A o \in Objects : t \in ToSet(queue[o]) <=> wqp[t] = o
           /\ state[t] = "running" => blocker[t] = None
<1>1. /\ call[t].obj \in Waited(call[t].mode) /\ wqp[t] \in {None, call[t].obj}
      /\ blocker[t] = IF call[t].mode \in {"wait", "late"} THEN None ELSE wqp[t]
      /\ wqp[t] \in Blockers => state[t] = "blocked"
  BY DEF WaitInv, Linked
<1>2. call[t].mode \in {"wait", "late"} => call[t].obj \in Semaphores
  BY <1>1 DEF Waited
<1>3. \A o \in Blockers : wqp[t] = o <=> blocker[t] = o
  BY <1>1, <1>2, Apart
<1>4. blocker[t] \in Blockers \cup {None}
  BY DEF WaitInv, WaitTypes
<1>5. \A o \in Objects : t \in ToSet(queue[o]) <=> wqp[t] = o
  BY DEF WaitInv, QueueExact
<1> QED
  BY <1>1, <1>3, <1>4, <1>5, Apart

(* What a thread between two calls owns is what it holds or serves. *)
LEMMA CallerOwns ==
    ASSUME ObjectsInv, NEW t \in Threads, CanCall(t), NEW o \in Blockers, t \in Owners(o)
    PROVE  o \in Serves(t) \cup {l \in Locks : Holds(t, l)}
<1>1. \A p \in Objects : call[t].obj # p
  BY Apart DEF CanCall, Runs, NoCall
<1>2. CASE o \in Locks
  <2>1. t \in ReadersOf(o) \cup WritersOf(o)
    BY <1>2, OwnersAreHolders
  <2>2. \A m : ~Comes(t, o, m)
    BY <1>1, <1>2, Apart DEF Comes
  <2>3. reads[o][t] > 0 \/ writes[o][t] > 0
    BY <2>1, <2>2 DEF ReadersOf, WritersOf
  <2>4. reads[o][t] \in Nat /\ writes[o][t] \in Nat
    BY <1>2 DEF ObjectsInv, LockTypes
  <2> QED
    BY <1>2, <2>3, <2>4 DEF Holds
<1>3. CASE o \in Queues
  <2>1. t = QueueOwner[o]
    BY <1>3, OwnersAreHolders
  <2> QED
    BY <1>3, <2>1 DEF Serves
<1> QED
  BY <1>2, <1>3, Apart

-----------------------------------------------------------------------------
(* A step that leaves no walk, or one that has not had a turn.             *)

Book(t) == [p \in Priorities |-> Lenders(t, p)]

Plain(t) == [p \in Priorities |-> {o \in Blockers : t \in Owners(o) /\ bl_priority[o] = p}]

Fresh == walk = <<>> \/ \E o \in Blockers, new \in Levels : walk = <<Frame(o, new, o)>>

LEMMA Accounts ==
    /\ Accounted /\ Effective /\ PriorityTypes <=>
         /\ PriorityTypes
         /\ \A t \in Threads : /\ Account(pdist[t], base_priority[t], Book(t))
                               /\ Fits(t)
    /\ Accounted' /\ Effective' /\ PriorityTypes' <=>
         /\ PriorityTypes'
         /\ \A t \in Threads : /\ Account(pdist'[t], base_priority'[t], Book(t)')
                               /\ Fits(t)'
<1>1. ASSUME PriorityTypes, NEW t \in Threads
      PROVE  (\A p \in Priorities :
                 pdist[t][p] = Cardinality(Lenders(t, p)) + (IF base_priority[t] = p THEN 1 ELSE 0))
             <=> Account(pdist[t], base_priority[t], Book(t))
  <2>1. Book(t) \in [Priorities -> SUBSET Blockers] /\ \A p \in Priorities : Book(t)[p] = Lenders(t, p)
    BY DEF Book, Lenders
  <2>2. pdist[t] \in [Priorities -> Nat] /\ base_priority[t] \in Priorities
    BY <1>1 DEF PriorityTypes, LevelTypes
  <2>3. \A p \in Priorities : One(p, base_priority[t]) = IF base_priority[t] = p THEN 1 ELSE 0
    BY DEF One
  <2> QED
    BY <2>1, <2>2, <2>3 DEF Account
<1>2. Accounted /\ Effective /\ PriorityTypes <=>
        /\ PriorityTypes
        /\ \A t \in Threads : /\ Account(pdist[t], base_priority[t], Book(t))
                              /\ Fits(t)
  BY <1>1 DEF Accounted, Effective, Fits
<1>3. (Accounted /\ Effective /\ PriorityTypes <=>
        /\ PriorityTypes
        /\ \A t \in Threads : /\ Account(pdist[t], base_priority[t], Book(t))
                              /\ Fits(t))'
  BY <1>2, PTL
<1> QED
  BY <1>2, <1>3

LEMMA FreshWalk ==
    /\ Fresh => WalkExact /\ \A t \in Threads : Book(t) = Plain(t)
    /\ Fresh' => WalkExact' /\ \A t \in Threads : Book(t)' = Plain(t)'
<1>1. ASSUME walk = <<>>, NEW t \in Threads
      PROVE  WalkExact /\ Book(t) = Plain(t)
  <2>1. DOMAIN walk = {}
    BY <1>1
  <2>2. \A o \in Blockers, p \in Priorities : Lends(o, t, p) <=> bl_priority[o] = p
    BY <2>1 DEF Lends
  <2>3. \A p \in Priorities : Lenders(t, p) = {o \in Blockers : t \in Owners(o) /\ bl_priority[o] = p}
    BY <2>2 DEF Lenders
  <2> QED
    BY <2>1, <2>3 DEF WalkExact, Book, Plain
<1>2. ASSUME NEW o \in Blockers, NEW new \in Levels, walk = <<Frame(o, new, o)>>, NEW t \in Threads
      PROVE  WalkExact /\ Book(t) = Plain(t)
  <2> DEFINE f == Frame(o, new, o)
  <2>1. /\ f.bl = o /\ f.todo = Owners(o) /\ f.old = bl_priority[o] /\ f.new = new /\ f.first = o
    BY DEF Frame
  <2>2. DOMAIN walk = {1} /\ walk[1] = f
    BY <1>2
  <2> HIDE DEF f
  <2>3. Rank[o] <= Rank[o]
    BY KernelAssumption, Apart
  <2>4. WalkExact
    BY <2>1, <2>2, <2>3 DEF WalkExact
  <2>5. \A b \in Blockers : Due(b, t, 1) <=> b = o /\ t \in Owners(o)
    BY <2>1, <2>2 DEF Due
  <2>6. \A b \in Blockers, p \in Priorities : t \in Owners(b) => (Lends(b, t, p) <=> bl_priority[b] = p)
    BY <2>1, <2>2, <2>5 DEF Lends
  <2>7. \A p \in Priorities : Lenders(t, p) = {b \in Blockers : t \in Owners(b) /\ bl_priority[b] = p}
    BY <2>6 DEF Lenders
  <2> QED
    BY <2>4, <2>7 DEF Book, Plain
<1>3. ASSUME Fresh
      PROVE  WalkExact
  <2>1. CASE walk = <<>>
    BY <2>1 DEF WalkExact
  <2>2. ASSUME NEW o \in Blockers, NEW new \in Levels, walk = <<Frame(o, new, o)>>
        PROVE  WalkExact
    <3> DEFINE f == Frame(o, new, o)
    <3>1. /\ f.bl = o /\ f.todo = Owners(o) /\ f.old = bl_priority[o] /\ f.new = new /\ f.first = o
      BY DEF Frame
    <3>2. DOMAIN walk = {1} /\ walk[1] = f
      BY <2>2
    <3> HIDE DEF f
    <3>3. Rank[o] <= Rank[o]
      BY KernelAssumption, Apart
    <3> QED
      BY <3>1, <3>2, <3>3 DEF WalkExact
  <2> QED
    BY <1>3, <2>1, <2>2 DEF Fresh
<1>4. Fresh => WalkExact /\ \A t \in Threads : Book(t) = Plain(t)
  BY <1>1, <1>2, <1>3 DEF Fresh
<1>5. (Fresh => WalkExact /\ \A t \in Threads : Book(t) = Plain(t))'
  BY <1>4, PTL
<1> QED
  BY <1>4, <1>5

(* The priority of a thread whose accounts are right is one. *)
LEMMA InRange ==
    ASSUME NEW d, NEW base, NEW S, Account(d, base, S)
    PROVE  d \in [Priorities -> Nat] /\ Best(Entries(d)) \in Priorities
<1>1. d \in [Priorities -> Nat] /\ base \in Priorities
  BY DEF Account
<1>2. d[base] > 0
  BY <1>1, Rebased
<1> QED
  BY <1>1, <1>2, BestOf

LEMMA Settled ==
    ASSUME ObjectsInv', Fresh',
           priority' = [t \in Threads |-> priority'[t]], pdist' = [t \in Threads |-> pdist'[t]],
           pdmask' = [t \in Threads |-> pdmask'[t]],
           base_priority' \in [Threads -> Priorities], bl_priority' \in [Blockers -> Levels],
           \A t \in Threads : /\ Account(pdist'[t], base_priority'[t], Plain(t)')
                              /\ Fits(t)',
           Ordered', Justified'
    PROVE  PrioritiesInv'
<1>1. \A o \in Blockers : Owners(o)' \subseteq Threads
  <2>1. (ObjectsInv => \A o \in Blockers : Owners(o) \subseteq Threads)'
    BY OwnersAreHolders, PTL
  <2> QED
    BY <2>1
<1>2. walk' \in Seq([bl : Blockers, todo : SUBSET Threads, old : Levels, new : Levels, first : Blockers])
  <2>1. CASE walk' = <<>>
    BY <2>1
  <2>2. ASSUME NEW o \in Blockers, NEW new \in Levels, walk' = <<Frame(o, new, o)'>>
        PROVE  walk' \in Seq([bl : Blockers, todo : SUBSET Threads, old : Levels, new : Levels, first : Blockers])
    <3>1. Frame(o, new, o)' \in [bl : Blockers, todo : SUBSET Threads, old : Levels, new : Levels, first : Blockers]
      BY <1>1 DEF Frame
    <3> QED
      BY <2>2, <3>1
  <2> QED
    BY <2>1, <2>2 DEF Fresh
<1>3. \A t \in Threads : /\ priority'[t] \in Priorities /\ pdist'[t] \in [Priorities -> Nat]
                         /\ pdmask'[t] \in SUBSET Priorities
  <2> SUFFICES ASSUME NEW t \in Threads
               PROVE  /\ priority'[t] \in Priorities /\ pdist'[t] \in [Priorities -> Nat]
                      /\ pdmask'[t] \in SUBSET Priorities
    OBVIOUS
  <2>1. pdmask'[t] = Entries(pdist'[t]) /\ priority'[t] = Best(pdmask'[t])
    BY DEF Fits
  <2>2. pdist'[t] \in [Priorities -> Nat] /\ Best(Entries(pdist'[t])) \in Priorities
    BY InRange
  <2> QED
    BY <2>1, <2>2 DEF Entries
<1>4. PriorityTypes'
  BY <1>2, <1>3, LevelsOrder DEF PriorityTypes, LevelTypes
<1>5. WalkExact' /\ \A t \in Threads : Book(t)' = Plain(t)'
  BY FreshWalk
<1> QED
  BY <1>4, <1>5, Accounts DEF PrioritiesInv

(* Before a step that does not belong to a walk. *)
LEMMA AtRest ==
    ASSUME PrioritiesInv, walk = <<>>
    PROVE  /\ PriorityTypes /\ Ordered
           /\ \A t \in Threads : /\ Account(pdist[t], base_priority[t], Plain(t))
                                 /\ Fits(t)
           /\ \A o \in Blockers : \/ bl_priority[o] = PRIORITY_IDLE
                                  \/ \E t \in Threads : wqp[t] = o /\ priority[t] <= bl_priority[o]
<1>1. Fresh
  BY DEF Fresh
<1>2. \A t \in Threads : Book(t) = Plain(t)
  BY <1>1, FreshWalk
<1> QED
  BY <1>2, Accounts DEF PrioritiesInv, Justified, Claim

LEMMA Unwaited ==
    ASSUME PrioritiesInv, walk = <<>>, WaitInv, NEW o \in Blockers, queue[o] = <<>>
    PROVE  bl_priority[o] = PRIORITY_IDLE
<1>1. ToSet(queue[o]) = {}
  BY DEF ToSet
<1>2. \A t \in Threads : wqp[t] # o
  BY <1>1, WaitersBlocked, Apart
<1> QED
  BY <1>2, AtRest

LEMMA StillAtRest ==
    ASSUME walk' = <<>>
    PROVE  Fresh' /\ \A p \in Blockers : Claim(p)' = bl_priority'[p]
BY DEF Fresh, Claim

LEMMA WalkStarts ==
    ASSUME NEW o \in Blockers, NEW new \in Levels, StartWalk(o, new),
           Owners(o)' = Owners(o), bl_priority'[o] = bl_priority[o]
    PROVE  /\ Fresh' /\ Claim(o)' = new
           /\ \A p \in Blockers \ {o} : Claim(p)' = bl_priority'[p]
<1>1. walk' = <<Frame(o, new, o)'>> /\ Frame(o, new, o)' = Frame(o, new, o)
  BY DEF StartWalk, Frame
<1>2. Head(walk') = Frame(o, new, o) /\ walk' # <<>>
  BY <1>1
<1>3. Frame(o, new, o).bl = o /\ Frame(o, new, o).new = new
  BY DEF Frame
<1> QED
  BY <1>1, <1>2, <1>3 DEF Fresh, Claim

(* Priorities stay as they are, and blockers change hands only where       *)
(* nobody waits.                                                           *)
LEMMA NothingLent ==
    ASSUME ObjectsInv, ObjectsInv', PrioritiesInv, walk = <<>>,
           UNCHANGED <<priority, base_priority, pdist, pdmask, bl_priority, walk>>,
           \A o \in Blockers : Owners(o)' = Owners(o) \/ bl_priority[o] = PRIORITY_IDLE,
           \A t \in Threads, o \in Blockers : wqp[t] = o => wqp'[t] = o,
           \A t \in Threads, o \in Blockers :
               t \in Owners(o)' /\ blocker'[t] \in Blockers => t \in Owners(o) /\ blocker'[t] = blocker[t]
    PROVE  PrioritiesInv'
<1>1. /\ PriorityTypes /\ Ordered
      /\ \A t \in Threads : /\ Account(pdist[t], base_priority[t], Plain(t))
                            /\ Fits(t)
      /\ \A o \in Blockers : \/ bl_priority[o] = PRIORITY_IDLE
                             \/ \E t \in Threads : wqp[t] = o /\ priority[t] <= bl_priority[o]
  BY AtRest
<1>2. \A t \in Threads : Plain(t)' = Plain(t)
  <2> SUFFICES ASSUME NEW t \in Threads, NEW p \in Priorities, NEW o \in Blockers
               PROVE  t \in Owners(o)' /\ bl_priority'[o] = p <=> t \in Owners(o) /\ bl_priority[o] = p
    BY DEF Plain
  <2> QED
    BY LevelsOrder
<1>3. Fresh' /\ \A o \in Blockers : Claim(o)' = bl_priority[o]
  BY StillAtRest
<1>4. Justified'
  BY <1>1, <1>3 DEF Justified
<1>5. Ordered'
  BY <1>1 DEF Ordered
<1>6. \A t \in Threads : Account(pdist'[t], base_priority'[t], Plain(t)') /\ Fits(t)'
  BY <1>1, <1>2 DEF Fits
<1> QED
  BY <1>1, <1>3, <1>4, <1>5, <1>6, Settled DEF PriorityTypes, LevelTypes

LEMMA LinkedAlike ==
    /\ WaitInv => \A t \in Threads, o \in Blockers : blocker[t] = o <=> wqp[t] = o
    /\ WaitInv' => \A t \in Threads, o \in Blockers : blocker'[t] = o <=> wqp'[t] = o
<1>1. WaitInv => \A t \in Threads, o \in Blockers : blocker[t] = o <=> wqp[t] = o
  BY WaitersBlocked
<1>2. (WaitInv => \A t \in Threads, o \in Blockers : blocker[t] = o <=> wqp[t] = o)'
  BY <1>1, PTL
<1> QED
  BY <1>1, <1>2

(* Ownership and waiting for blockers stay as they are. *)
LEMMA QuietStep ==
    ASSUME ObjectsInv, ObjectsInv', PrioritiesInv, walk = <<>>,
           UNCHANGED <<ownVars, priority, base_priority, pdist, pdmask, bl_priority, walk>>,
           \A t \in Threads, o \in Blockers : wqp'[t] = o <=> wqp[t] = o
    PROVE  PrioritiesInv'
<1>1. WaitInv /\ WaitInv'
  BY InvParts
<1>2. \A t \in Threads, o \in Blockers : /\ blocker[t] = o <=> wqp[t] = o
                                         /\ blocker'[t] = o <=> wqp'[t] = o
  BY <1>1, LinkedAlike
<1>3. \A t \in Threads : blocker[t] \in Blockers \cup {None} /\ blocker'[t] \in Blockers \cup {None}
  BY <1>1 DEF WaitInv, WaitTypes
<1>4. \A o \in Blockers : Owners(o)' = Owners(o)
  BY DEF Owners, ownVars
<1> QED
  BY <1>2, <1>3, <1>4, NothingLent

(* A blocker nobody waits for passes to or from the running thread t. *)
LEMMA OpenChangesHands ==
    ASSUME ObjectsInv, ObjectsInv', PrioritiesInv, NEW t \in Threads, CanCall(t),
           NEW o \in Blockers, queue[o] = <<>>,
           UNCHANGED <<waitVars, priority, base_priority, pdist, pdmask, bl_priority, walk>>,
           \A p \in Blockers \ {o} : owner'[p] = owner[p] /\ mask'[p] = mask[p],
           Owners(o)' \subseteq Owners(o) \cup {t}
    PROVE  PrioritiesInv'
<1>1. WaitInv /\ walk = <<>> /\ state[t] = "running"
  BY InvParts DEF CanCall, Runs
<1>2. \A p \in Blockers : Owners(p)' = Owners(p) \/ bl_priority[p] = PRIORITY_IDLE
  BY <1>1, Unwaited DEF Owners
<1>3. blocker'[t] = None /\ None \notin Blockers
  BY <1>1, WaitersBlocked, Apart DEF waitVars
<1>4. \A p \in Blockers : Owners(p)' \subseteq Owners(p) \cup {t}
  BY DEF Owners
<1>5. \A u \in Threads, p \in Blockers :
          u \in Owners(p)' /\ blocker'[u] \in Blockers => u \in Owners(p) /\ blocker'[u] = blocker[u]
  BY <1>3, <1>4 DEF waitVars
<1> QED
  BY <1>1, <1>2, <1>5, NothingLent DEF waitVars

LEMMA SemaphoresQuiet ==
    ASSUME ObjectsInv, ObjectsInv', PrioritiesInv, SemaphoreStep
    PROVE  PrioritiesInv'
<1>1. WaitInv /\ \A s \in Semaphores : s \in Objects /\ s \notin Blockers
  BY InvParts, Apart
<1>2. ASSUME NEW s \in Semaphores, semaphore_release(s)
      PROVE  PrioritiesInv'
  <2>1. UNCHANGED <<ownVars, priority, base_priority, pdist, pdmask, bl_priority, walk>> /\ walk = <<>>
    BY <1>2 DEF semaphore_release, wakeup_thread_default, threadVars, prioVars
  <2>2. \A t \in Threads, o \in Blockers : wqp'[t] = o <=> wqp[t] = o
    <3>1. CASE queue[s] # <<>> /\ wakeup_thread_default(Head(queue[s]), s)
      <4>1. wqp[Head(queue[s])] = s
        BY <1>1, <3>1, FirstWaits
      <4>2. wqp' = [t \in Threads |-> IF t \in {Head(queue[s])} THEN None ELSE wqp[t]]
        BY <3>1 DEF wakeup_thread_default, Unlink
      <4> QED
        BY <1>1, <4>1, <4>2, Apart
    <3>2. CASE UNCHANGED threadVars
      BY <3>2 DEF threadVars, waitVars
    <3> QED
      BY <1>2, <3>1, <3>2 DEF semaphore_release
  <2> QED
    BY <2>1, <2>2, QuietStep
<1>3. ASSUME NEW t \in Threads, WaitReturn(t)
      PROVE  PrioritiesInv'
  <2>1. UNCHANGED <<ownVars, priority, base_priority, pdist, pdmask, bl_priority, walk>> /\ walk = <<>>
    BY <1>3 DEF WaitReturn, Runs, threadVars, prioVars
  <2>2. wqp' = wqp
    BY <1>3 DEF WaitReturn, threadVars, waitVars
  <2> QED
    BY <2>1, <2>2, QuietStep
<1>5. ASSUME NEW t \in Threads, WaitExpired(t)
      PROVE  PrioritiesInv'
  <2>1. UNCHANGED <<ownVars, priority, base_priority, pdist, pdmask, bl_priority, walk>> /\ walk = <<>>
    BY <1>5 DEF WaitExpired, prioVars
  <2>2. wqp[t] \in {None, call[t].obj} /\ call[t].obj \in Semaphores
    BY <1>1, <1>5, WaitedTypes DEF WaitExpired, WaitInv, Linked
  <2>3. wqp' = [wqp EXCEPT ![t] = None]
    BY <1>5 DEF WaitExpired
  <2>4. \A u \in Threads, o \in Blockers : wqp'[u] = o <=> wqp[u] = o
    BY <1>1, <2>2, <2>3, Apart DEF WaitInv, WaitTypes
  <2> QED
    BY <2>1, <2>4, QuietStep
<1>4. ASSUME NEW t \in Threads, NEW s \in Semaphores, NEW timeout, semaphore_wait(t, s, timeout)
      PROVE  PrioritiesInv'
  <2>1. UNCHANGED <<ownVars, priority, base_priority, pdist, pdmask, bl_priority, walk>> /\ CanCall(t)
    BY <1>1, <1>4 DEF semaphore_wait, block_thread, threadVars, prioVars
  <2>2. wqp' = wqp \/ wqp' = [wqp EXCEPT ![t] = s]
    BY <1>4 DEF semaphore_wait, block_thread, threadVars, waitVars
  <2>3. wqp[t] = None
    BY <1>1, <2>1, Idle DEF CanCall, Runs
  <2>4. \A u \in Threads, o \in Blockers : wqp'[u] = o <=> wqp[u] = o
    BY <1>1, <2>2, <2>3, Apart DEF WaitInv, WaitTypes
  <2> QED
    BY <2>1, <2>4, QuietStep DEF CanCall, Runs
<1> QED
  BY <1>2, <1>3, <1>4, <1>5 DEF SemaphoreStep

LEMMA UncalledQuiet ==
    ASSUME ObjectsInv, ObjectsInv', PrioritiesInv, NEW t \in Threads, Return(t) \/ Expire(t)
    PROVE  PrioritiesInv'
BY QuietStep DEF Return, Runs, Expire, check_tmo_expired, threadVars, prioVars, waitVars

-----------------------------------------------------------------------------
(* Blocking.                                                               *)

LEMMA BlockLends ==
    ASSUME ObjectsInv, ObjectsInv', PrioritiesInv, NEW t \in Threads, CanCall(t),
           NEW o \in Blockers, InOrder(t, o), NEW m, Blocks(t, o, m)
    PROVE  PrioritiesInv'
<1>1. /\ WaitInv /\ walk = <<>> /\ wqp[t] = None /\ blocker[t] = None
      /\ None \notin Blockers /\ o \in Objects
  BY InvParts, Idle, Apart DEF CanCall, Runs
<1>2. /\ wqp' = [wqp EXCEPT ![t] = o] /\ blocker' = [blocker EXCEPT ![t] = o]
      /\ UNCHANGED <<owner, mask, priority, base_priority, pdist, pdmask, bl_priority>>
      /\ IF priority[t] < bl_priority[o] THEN StartWalk(o, priority[t]) ELSE UNCHANGED walk
  BY DEF Blocks, block_thread, ownVars
<1>3. /\ PriorityTypes /\ Ordered
      /\ \A u \in Threads : /\ Account(pdist[u], base_priority[u], Plain(u))
                            /\ Fits(u)
      /\ \A p \in Blockers : \/ bl_priority[p] = PRIORITY_IDLE
                             \/ \E u \in Threads : wqp[u] = p /\ priority[u] <= bl_priority[p]
  BY <1>1, AtRest
<1>4. \A p \in Blockers : Owners(p)' = Owners(p)
  BY <1>2 DEF Owners
<1>5. \A u \in Threads : Plain(u)' = Plain(u)
  BY <1>2, <1>4 DEF Plain
<1>6. Ordered'
  <2> SUFFICES ASSUME NEW u \in Threads, NEW p \in Blockers, u \in Owners(p), blocker'[u] \in Blockers
               PROVE  Rank[p] < Rank[blocker'[u]]
    BY <1>4 DEF Ordered
  <2>1. CASE u = t
    <3>1. blocker'[t] = o
      BY <1>1, <1>2 DEF WaitInv, WaitTypes
    <3>2. p \in Serves(t) \cup {l \in Locks : Holds(t, l)}
      BY <2>1, CallerOwns
    <3> QED
      BY <2>1, <3>1, <3>2 DEF InOrder
  <2>2. CASE u # t
    <3>1. blocker'[u] = blocker[u]
      BY <1>1, <1>2, <2>2 DEF WaitInv, WaitTypes
    <3> QED
      BY <1>3, <3>1 DEF Ordered
  <2> QED
    BY <2>1, <2>2
<1>7. \A p \in Blockers, u \in Threads : wqp[u] = p => wqp'[u] = p
  BY <1>1, <1>2 DEF WaitInv, WaitTypes
<1>8. wqp'[t] = o
  BY <1>1, <1>2 DEF WaitInv, WaitTypes
<1>9. priority[t] \in Levels /\ priority[t] <= priority[t]
  <2>1. priority[t] \in Levels /\ priority[t] \in Nat
    BY <1>3, LevelsOrder DEF PriorityTypes, LevelTypes
  <2> QED
    BY <2>1
<1>10. Fresh' /\ Justified'
  <2>1. CASE priority[t] < bl_priority[o]
    <3>1. /\ Fresh' /\ Claim(o)' = priority[t]
          /\ \A p \in Blockers \ {o} : Claim(p)' = bl_priority'[p]
      BY <1>2, <1>4, <1>9, <2>1, WalkStarts
    <3> QED
      BY <1>2, <1>3, <1>7, <1>8, <1>9, <3>1 DEF Justified
  <2>2. CASE ~(priority[t] < bl_priority[o])
    <3>1. Fresh' /\ \A p \in Blockers : Claim(p)' = bl_priority[p]
      BY <1>1, <1>2, <2>2, StillAtRest
    <3> QED
      BY <1>2, <1>3, <1>7, <3>1 DEF Justified
  <2> QED
    BY <2>1, <2>2
<1>11. \A u \in Threads : Account(pdist'[u], base_priority'[u], Plain(u)') /\ Fits(u)'
  BY <1>2, <1>3, <1>5 DEF Fits
<1> QED
  BY <1>2, <1>3, <1>6, <1>10, <1>11, Settled DEF PriorityTypes, LevelTypes

LEMMA MutexLockLends ==
    ASSUME ObjectsInv, ObjectsInv', PrioritiesInv,
           NEW t \in Threads, NEW m \in Mutexes, mutex_lock(t, m)
    PROVE  PrioritiesInv'
<1>1. /\ CanCall(t) /\ walk = <<>> /\ m \in Locks /\ m \in Blockers /\ MutexExact(m)
      /\ WaitInv /\ LockTypes /\ None \notin Threads
  BY InvParts, Apart DEF mutex_lock, CanCall, Runs, Exact
<1>2. CASE UNCHANGED threadVars
  BY <1>1, <1>2, QuietStep DEF threadVars, prioVars, waitVars
<1>3. CASE owner[m] = None /\ SetOwner(m, t)
  <2>1. UNCHANGED <<waitVars, mask, prioVars>> /\ owner' = [owner EXCEPT ![m] = t]
    BY <1>3 DEF SetOwner
  <2>2. queue[m] = <<>>
    BY <1>1, <1>3 DEF MutexExact
  <2>3. owner'[m] = t /\ \A p \in Blockers \ {m} : owner'[p] = owner[p]
    BY <1>1, <2>1 DEF LockTypes
  <2>4. Owners(m)' \subseteq Owners(m) \cup {t}
    BY <1>1, <2>3 DEF Owners
  <2> QED
    BY <1>1, <2>1, <2>2, <2>3, <2>4, OpenChangesHands DEF prioVars
<1>4. CASE owner[m] \notin {t, None} /\ Blocks(t, m, "write")
  <2>1. ~Holds(t, m)
    <3>1. reads[m][t] = 0 /\ writes[m][t] \in Nat /\ t \notin WritersOf(m)
      BY <1>1, <1>4 DEF MutexExact, LockTypes
    <3> QED
      BY <3>1 DEF Holds, WritersOf
  <2>2. InOrder(t, m)
    BY <2>1 DEF mutex_lock
  <2> QED
    BY <1>1, <1>4, <2>2, BlockLends
<1> QED
  BY <1>2, <1>3, <1>4 DEF mutex_lock

(* Who is at none of the places a lock keeps does not hold it. *)
LEMMA Outside ==
    ASSUME ObjectsInv, NEW t \in Threads, NEW l \in Mrsws, ~IsWriter(t, l), t \notin mask[l]
    PROVE  ~Holds(t, l)
<1>1. l \in Locks /\ MrswExact(l) /\ LockTypes
  BY InvParts, Apart DEF Exact
<1>2. ReadersOf(l) = mask[l] /\ WritersOf(l) = IF count[l] < 0 THEN {owner[l]} ELSE {}
  BY HoldersByFields
<1>3. t \notin ReadersOf(l) /\ t \notin WritersOf(l)
  BY <1>2 DEF IsWriter
<1>4. reads[l][t] \in Nat /\ writes[l][t] \in Nat
  BY <1>1 DEF LockTypes
<1> QED
  BY <1>3, <1>4 DEF ReadersOf, WritersOf, Holds

LEMMA ReadAcquireLends ==
    ASSUME ObjectsInv, ObjectsInv', PrioritiesInv,
           NEW t \in Threads, NEW l \in Mrsws, mrsw_read_acquire(t, l)
    PROVE  PrioritiesInv'
<1>1. /\ CanCall(t) /\ walk = <<>> /\ l \in Locks /\ l \in Blockers /\ MrswExact(l)
      /\ WaitInv /\ LockTypes /\ None \notin Threads
  BY InvParts, Apart DEF mrsw_read_acquire, CanCall, Runs, Exact
<1>2. CASE UNCHANGED threadVars
  BY <1>1, <1>2, QuietStep DEF threadVars, prioVars, waitVars
<1>3. CASE OpenToReaders(l) /\ mrsw_reader_claim(t, l, count[l] + 1)
  <2>1. /\ UNCHANGED <<waitVars, prioVars>> /\ queue[l] = <<>> /\ count[l] >= 0
        /\ mask' = [mask EXCEPT ![l] = @ \cup {t}]
        /\ owner' = [owner EXCEPT ![l] = IF count[l] + 1 = 1 THEN t ELSE None]
    BY <1>3 DEF mrsw_reader_claim, OpenToReaders
  <2>2. \A p \in Blockers \ {l} : owner'[p] = owner[p] /\ mask'[p] = mask[p]
    BY <1>1, <2>1 DEF LockTypes
  <2>3. Owners(l) = mask[l]
    <3>1. Owners(l) = ReadersOf(l) \cup WritersOf(l)
      BY <1>1, OwnersAreHolders
    <3>2. count[l] \in Int
      BY <1>1 DEF LockTypes
    <3> QED
      BY <2>1, <3>1, <3>2, HoldersByFields
  <2>4. Owners(l)' \subseteq Owners(l) \cup {t}
    <3>1. mask'[l] = mask[l] \cup {t} /\ owner'[l] \in {t, None}
      BY <1>1, <2>1 DEF LockTypes
    <3> QED
      BY <2>3, <3>1 DEF Owners
  <2> QED
    BY <1>1, <2>1, <2>2, <2>4, OpenChangesHands DEF prioVars
<1>4. CASE ~IsWriter(t, l) /\ t \notin mask[l] /\ Blocks(t, l, "read")
  <2>1. InOrder(t, l)
    BY <1>4, Outside DEF mrsw_read_acquire
  <2> QED
    BY <1>1, <1>4, <2>1, BlockLends
<1> QED
  BY <1>2, <1>3, <1>4 DEF mrsw_read_acquire

LEMMA WriteAcquireLends ==
    ASSUME ObjectsInv, ObjectsInv', PrioritiesInv,
           NEW t \in Threads, NEW l \in Mrsws, mrsw_write_acquire(t, l)
    PROVE  PrioritiesInv'
<1>1. /\ CanCall(t) /\ walk = <<>> /\ l \in Locks /\ l \in Blockers /\ MrswExact(l)
      /\ WaitInv /\ LockTypes /\ None \notin Threads
  BY InvParts, Apart DEF mrsw_write_acquire, CanCall, Runs, Exact
<1>2. CASE UNCHANGED threadVars
  BY <1>1, <1>2, QuietStep DEF threadVars, prioVars, waitVars
<1>3. CASE count[l] = 0 /\ SetOwner(l, t)
  <2>1. UNCHANGED <<waitVars, mask, prioVars>> /\ owner' = [owner EXCEPT ![l] = t]
    BY <1>3 DEF SetOwner
  <2>2. queue[l] = <<>>
    BY <1>1, <1>3 DEF MrswExact
  <2>3. owner'[l] = t /\ \A p \in Blockers \ {l} : owner'[p] = owner[p]
    BY <1>1, <2>1 DEF LockTypes
  <2>4. Owners(l)' \subseteq Owners(l) \cup {t}
    BY <1>1, <2>3 DEF Owners
  <2> QED
    BY <1>1, <2>1, <2>2, <2>3, <2>4, OpenChangesHands DEF prioVars
<1>4. CASE owner[l] # t /\ Blocks(t, l, "write")
  <2>1. writes[l][t] = 0
    <3>1. WritersOf(l) = IF count[l] < 0 THEN {owner[l]} ELSE {}
      BY HoldersByFields
    <3>2. writes[l][t] \in Nat /\ t \notin WritersOf(l)
      BY <1>1, <1>4, <3>1 DEF LockTypes
    <3> QED
      BY <3>2 DEF WritersOf
  <2>2. InOrder(t, l)
    BY <2>1 DEF mrsw_write_acquire
  <2> QED
    BY <1>1, <1>4, <2>2, BlockLends
<1> QED
  BY <1>2, <1>3, <1>4 DEF mrsw_write_acquire

LEMMA SendLends ==
    ASSUME ObjectsInv, ObjectsInv', PrioritiesInv,
           NEW t \in Threads, NEW q \in Queues, queue_send(t, q)
    PROVE  PrioritiesInv'
BY Apart, BlockLends DEF queue_send

-----------------------------------------------------------------------------
(* Handing over.                                                           *)

(* What a claim on o may be when the threads of ts no longer wait for it:  *)
(* what those that are left justify, or the old priority if it was not     *)
(* theirs alone.                                                           *)
LEMMA RestJustifies ==
    ASSUME PrioritiesInv, walk = <<>>, WaitInv, NEW o \in Blockers, NEW ts,
           NEW rest \in Seq(Threads), ToSet(rest) = ToSet(queue[o]) \ ts, NEW c,
           \/ c = PRIORITY_IDLE
           \/ c = wait_queue_find_priority(rest, priority)
           \/ c = bl_priority[o] /\ \A t \in ts : ~(priority[t] <= bl_priority[o])
    PROVE  /\ c \in Levels
           /\ c = PRIORITY_IDLE \/ \E t \in Threads \ ts : wqp[t] = o /\ priority[t] <= c
<1>1. /\ PriorityTypes /\ o \in Objects
      /\ \/ bl_priority[o] = PRIORITY_IDLE
         \/ \E t \in Threads : wqp[t] = o /\ priority[t] <= bl_priority[o]
  BY AtRest, Apart
<1>2. ToSet(queue[o]) = {t \in Threads : wqp[t] = o}
  BY <1>1 DEF WaitInv, QueueExact
<1>3. CASE c = PRIORITY_IDLE
  BY <1>3, LevelsOrder
<1>4. CASE c = wait_queue_find_priority(rest, priority)
  <2>1. c \in Levels /\ (c = PRIORITY_IDLE \/ \E t \in ToSet(rest) : priority[t] = c)
    <3>1. \A t \in Threads : priority[t] \in Levels
      BY <1>1, LevelsOrder DEF PriorityTypes, LevelTypes
    <3> QED
      BY <1>4, <3>1, FoundPriority
  <2>2. ASSUME NEW t \in ToSet(rest), priority[t] = c
        PROVE  t \in Threads \ ts /\ wqp[t] = o /\ priority[t] <= c
    <3>1. c \in Nat
      BY <2>1, LevelsOrder
    <3> QED
      BY <1>2, <2>2, <3>1
  <2> QED
    BY <2>1, <2>2
<1>5. CASE c = bl_priority[o] /\ \A t \in ts : ~(priority[t] <= bl_priority[o])
  BY <1>1, <1>5 DEF PriorityTypes, LevelTypes
<1> QED
  BY <1>3, <1>4, <1>5

(* The step gives thread t the distribution and the priority in record r. *)
Becomes(t, r) == pdist'[t] = r.pdist /\ pdmask'[t] = r.pdmask /\ priority'[t] = r.priority

(* Blocker o changes hands: who loses it gives back what it had lent, who  *)
(* gets it is lent what the blocker has now.                               *)
LEMMA Transferred ==
    ASSUME PrioritiesInv, walk = <<>>, NEW o \in Blockers, bl_priority'[o] \in Levels,
           \A p \in Blockers \ {o} : Owners(p)' = Owners(p) /\ bl_priority'[p] = bl_priority[p],
           base_priority' = base_priority, NEW t \in Threads,
           t \in Owners(o) /\ t \notin Owners(o)' => Becomes(t, Disinherit(t, bl_priority[o])),
           t \notin Owners(o) /\ t \in Owners(o)' => Becomes(t, Inherit(t, bl_priority'[o])),
           (t \in Owners(o) <=> t \in Owners(o)') =>
               /\ Becomes(t, Kept(t))
               /\ t \in Owners(o) => bl_priority'[o] = bl_priority[o]
    PROVE  Account(pdist'[t], base_priority'[t], Plain(t)') /\ Fits(t)'
<1> DEFINE old == IF t \in Owners(o) THEN bl_priority[o] ELSE PRIORITY_IDLE
           new == IF t \in Owners(o)' THEN bl_priority'[o] ELSE PRIORITY_IDLE
<1>1. /\ PriorityTypes /\ Account(pdist[t], base_priority[t], Plain(t))
      /\ Fits(t)
  BY AtRest
<1>2. old \in Levels /\ new \in Levels
  BY <1>1, LevelsOrder DEF PriorityTypes, LevelTypes
<1>3. \A p \in Priorities : p # PRIORITY_IDLE
  BY LevelsOrder
<1>4. \A p \in Priorities : o \in Plain(t)[p] <=> p = old
  BY <1>3 DEF Plain
<1>5. /\ Plain(t)' \in [Priorities -> SUBSET Blockers]
      /\ \A p \in Priorities : \A x \in Blockers :
           x \in Plain(t)'[p] <=> IF x = o THEN p = new ELSE x \in Plain(t)[p]
  BY <1>3 DEF Plain
<1>6. pdist[t] \in [Priorities -> Nat]
  BY <1>1 DEF PriorityTypes, LevelTypes
<1>7. old \in Priorities => pdist[t][old] > 0
  BY <1>1, <1>4, Owing
<1>8. /\ pdist'[t] \in [Priorities -> Nat] /\ Fits(t)'
      /\ \A p \in Priorities : pdist'[t][p] = pdist[t][p] + One(p, new) - One(p, old)
  <2>1. \A p \in Priorities : /\ pdist[t][p] \in Nat /\ One(p, new) \in Int /\ One(p, old) \in Int
                              /\ One(p, PRIORITY_IDLE) = 0
    BY <1>3, <1>6 DEF One
  <2>2. CASE t \in Owners(o) /\ t \notin Owners(o)'
    <3>1. /\ pdist'[t] \in [Priorities -> Nat] /\ Fits(t)'
          /\ \A p \in Priorities : pdist'[t][p] = pdist[t][p] - One(p, bl_priority[o])
      <4>1. bl_priority[o] = old
        BY <2>2
      <4> HIDE DEF old
      <4> QED
        BY <1>1, <1>2, <1>6, <1>7, <2>2, <4>1, DisinheritExact DEF Becomes, Fits
    <3>2. old = bl_priority[o] /\ new = PRIORITY_IDLE
      BY <2>2
    <3> HIDE DEF old, new
    <3> QED
      BY <2>1, <3>1, <3>2
  <2>3. CASE t \notin Owners(o) /\ t \in Owners(o)'
    <3>1. /\ pdist'[t] \in [Priorities -> Nat] /\ Fits(t)'
          /\ \A p \in Priorities : pdist'[t][p] = pdist[t][p] + One(p, bl_priority'[o])
      BY <1>1, <1>6, <2>3, InheritExact DEF Becomes, Fits
    <3>2. new = bl_priority'[o] /\ old = PRIORITY_IDLE
      BY <2>3
    <3> HIDE DEF old, new
    <3> QED
      BY <2>1, <3>1, <3>2
  <2>4. CASE t \in Owners(o) <=> t \in Owners(o)'
    <3>1. /\ pdist'[t] = pdist[t] /\ pdmask'[t] = pdmask[t] /\ priority'[t] = priority[t]
          /\ new = old
      BY <2>4 DEF Becomes, Kept
    <3> HIDE DEF old, new
    <3> QED
      BY <1>1, <1>6, <2>1, <3>1 DEF Fits
  <2> QED
    BY <2>2, <2>3, <2>4
<1> HIDE DEF old, new
<1>9. Account(pdist'[t], base_priority[t], Plain(t)')
  <2> DEFINE S == Plain(t)
             S2 == Plain(t)'
             d2 == pdist'[t]
  <2>1. /\ S2 \in [Priorities -> SUBSET Blockers] /\ d2 \in [Priorities -> Nat]
        /\ \A p \in Priorities : o \in S[p] <=> p = old
        /\ \A p \in Priorities : \A x \in Blockers :
             x \in S2[p] <=> IF x = o THEN p = new ELSE x \in S[p]
        /\ \A p \in Priorities : d2[p] = pdist[t][p] + One(p, new) - One(p, old)
        /\ Account(pdist[t], base_priority[t], S)
    BY <1>1, <1>4, <1>5, <1>8
  <2> HIDE DEF S, S2, d2
  <2>2. Account(d2, base_priority[t], S2)
    BY <1>2, <2>1, Recounted
  <2> QED
    BY <2>2 DEF S2, d2
<1> QED
  BY <1>8, <1>9

LEMMA HandedOver ==
    ASSUME ObjectsInv, ObjectsInv', PrioritiesInv, NEW t \in Threads, CanCall(t),
           NEW o \in Blockers, NEW ts, NEW rest, ts \subseteq ToSet(queue[o]), Unlink(ts, o, rest),
           Owners(o) = {t}, Owners(o)' = ts,
           \A p \in Blockers \ {o} : Owners(p)' = Owners(p),
           UNCHANGED <<base_priority, walk>>,
           bl_priority' \in [Blockers -> Levels], NEW c, bl_priority'[o] = c,
           \A p \in Blockers \ {o} : bl_priority'[p] = bl_priority[p],
           c = PRIORITY_IDLE \/ \E u \in Threads \ ts : wqp[u] = o /\ priority[u] <= c,
           priority' = [u \in Threads |-> priority'[u]], pdist' = [u \in Threads |-> pdist'[u]],
           pdmask' = [u \in Threads |-> pdmask'[u]],
           \A u \in Threads : Becomes(u, IF u = t THEN Disinherit(t, bl_priority[o])
                                         ELSE IF u \in ts THEN Inherit(u, c) ELSE Kept(u))
    PROVE  PrioritiesInv'
<1>1. /\ WaitInv /\ walk = <<>> /\ wqp[t] = None /\ o \in Objects /\ None \notin Objects
      /\ Blockers \subseteq Objects
  BY InvParts, Idle, Apart DEF CanCall, Runs
<1>2. \A u \in ts : u \in Threads /\ wqp[u] = o /\ u # t
  BY <1>1 DEF WaitInv, QueueExact
<1>3. /\ PriorityTypes /\ Ordered
      /\ \A p \in Blockers : \/ bl_priority[p] = PRIORITY_IDLE
                             \/ \E u \in Threads : wqp[u] = p /\ priority[u] <= bl_priority[p]
  BY <1>1, AtRest
<1>6. ASSUME NEW u \in Threads
      PROVE  Account(pdist'[u], base_priority'[u], Plain(u)') /\ Fits(u)'
  <2>1. u \in Owners(o) /\ u \notin Owners(o)' => Becomes(u, Disinherit(u, bl_priority[o]))
    OBVIOUS
  <2>2. u \notin Owners(o) /\ u \in Owners(o)' => Becomes(u, Inherit(u, bl_priority'[o]))
    OBVIOUS
  <2>3. (u \in Owners(o) <=> u \in Owners(o)') =>
            /\ Becomes(u, Kept(u))
            /\ u \in Owners(o) => bl_priority'[o] = bl_priority[o]
    BY <1>2
  <2> QED
    BY <1>1, <2>1, <2>2, <2>3, Transferred
<1>7. /\ wqp' = [u \in Threads |-> IF u \in ts THEN None ELSE wqp[u]]
      /\ blocker' = [u \in Threads |-> IF u \in ts THEN None ELSE blocker[u]]
  BY DEF Unlink
<1>8. Ordered'
  <2> SUFFICES ASSUME NEW u \in Threads, NEW p \in Blockers, u \in Owners(p)', blocker'[u] \in Blockers
               PROVE  Rank[p] < Rank[blocker'[u]]
    BY DEF Ordered
  <2>1. u \notin ts /\ blocker'[u] = blocker[u]
    BY <1>1, <1>7
  <2>2. u \in Owners(p)
    BY <2>1
  <2> QED
    BY <1>3, <2>1, <2>2 DEF Ordered
<1>9. \A p \in Blockers, u \in Threads : wqp[u] = p /\ u \notin ts => wqp'[u] = p /\ priority'[u] = priority[u]
  BY <1>1, <1>7 DEF Becomes, Kept
<1>10. Fresh' /\ \A p \in Blockers : Claim(p)' = bl_priority'[p]
  BY <1>1, StillAtRest
<1>11. Justified'
  BY <1>2, <1>3, <1>9, <1>10 DEF Justified
<1>12. base_priority' \in [Threads -> Priorities]
  BY <1>3 DEF PriorityTypes, LevelTypes
<1> QED
  BY <1>6, <1>8, <1>10, <1>11, <1>12, Settled

LEMMA TransferLends ==
    ASSUME ObjectsInv, ObjectsInv', PrioritiesInv, NEW t \in Threads, CanCall(t),
           NEW o \in Locks, LocksRaised, queue[o] # <<>>, owner[o] = t, wakeup_thread_transfer(o),
           \A p \in Blockers \ {o} : mask'[p] = mask[p]
    PROVE  PrioritiesInv'
<1> DEFINE h == Head(queue[o])
           rest == Tail(queue[o])
           ts == {h}
           c == TransferPriority(o, h, rest)
           was == DisinheritUnchecked(t, bl_priority[o])
           now == IF Len(queue[o]) = 1 THEN Kept(h) ELSE InheritUnchecked(h, c)
<1>1. /\ WaitInv /\ LockTypes /\ walk = <<>> /\ wqp[t] = None /\ o \in Objects /\ None \notin Objects
      /\ None \notin Threads /\ PriorityTypes /\ o \in Blockers
  BY InvParts, Idle, Apart, AtRest DEF CanCall, Runs
<1>2. /\ h \in Threads /\ h \in ToSet(queue[o]) /\ wqp[h] = o
      /\ rest \in Seq(Threads) /\ ToSet(rest) = ToSet(queue[o]) \ ts /\ ts \subseteq ToSet(queue[o])
  BY <1>1, FirstWaits
<1>3. h # t
  BY <1>1, <1>2
<1>4. /\ Unlink(ts, o, rest) /\ owner' = [owner EXCEPT ![o] = h]
      /\ UNCHANGED <<base_priority, walk>> /\ bl_priority' = [bl_priority EXCEPT ![o] = c]
      /\ priority' = [priority EXCEPT ![t] = was.priority, ![h] = now.priority]
      /\ pdist' = [pdist EXCEPT ![t] = was.pdist, ![h] = now.pdist]
      /\ pdmask' = [pdmask EXCEPT ![t] = was.pdmask, ![h] = now.pdmask]
  BY DEF wakeup_thread_transfer
<1>5. \/ c = PRIORITY_IDLE
      \/ c = wait_queue_find_priority(rest, priority)
      \/ c = bl_priority[o] /\ \A u \in ts : ~(priority[u] <= bl_priority[o])
  BY DEF TransferPriority
<1>11. bl_priority[o] # PRIORITY_IDLE
  BY <1>1 DEF LocksRaised
<1>12. was = Disinherit(t, bl_priority[o])
  BY <1>11 DEF Disinherit
<1>13. now = Inherit(h, c)
  <2>3. queue[o] \in Seq(Threads) /\ Len(rest) = Len(queue[o]) - 1 /\ rest \in Seq(Threads)
    <3>1. queue[o] \in Seq(Threads)
      BY <1>1 DEF WaitInv, WaitTypes
    <3> QED
      BY <3>1
  <2>4. rest = <<>> <=> Len(queue[o]) = 1
    <3> HIDE DEF rest
    <3>1. rest = <<>> <=> Len(rest) = 0
      BY <2>3, EmptyIff
    <3>2. Len(queue[o]) \in Nat
      BY <2>3
    <3> QED
      BY <2>3, <3>1, <3>2
  <2>1. CASE Len(queue[o]) = 1
    <3>1. rest = <<>>
      BY <2>1, <2>4
    <3>2. c = PRIORITY_IDLE
      BY <3>1 DEF TransferPriority
    <3> QED
      BY <2>1, <3>2 DEF Inherit
  <2>2. CASE Len(queue[o]) # 1
    <3>1. rest # <<>>
      BY <2>2, <2>4
    <3>2. wait_queue_find_priority(rest, priority) # PRIORITY_IDLE
      <4>1. \A u \in Threads : priority[u] \in Levels /\ priority[u] \in Priorities
        BY <1>1, LevelsOrder DEF PriorityTypes
      <4> HIDE DEF rest
      <4> QED
        BY <1>2, <3>1, <4>1, FoundPriority
    <3>3. c # PRIORITY_IDLE
      BY <1>11, <3>1, <3>2 DEF TransferPriority
    <3> QED
      BY <2>2, <3>3 DEF Inherit
  <2> QED
    BY <2>1, <2>2
<1> HIDE DEF h, rest, c, was, now
<1>6. /\ priority' = [u \in Threads |-> priority'[u]] /\ pdist' = [u \in Threads |-> pdist'[u]]
      /\ pdmask' = [u \in Threads |-> pdmask'[u]]
      /\ \A u \in Threads : Becomes(u, IF u = t THEN Disinherit(t, bl_priority[o])
                                        ELSE IF u \in ts THEN Inherit(u, c) ELSE Kept(u))
  <2>1. /\ priority' = [u \in Threads |-> priority'[u]] /\ pdist' = [u \in Threads |-> pdist'[u]]
        /\ pdmask' = [u \in Threads |-> pdmask'[u]]
        /\ Becomes(t, was) /\ Becomes(h, now)
        /\ \A u \in Threads \ {t, h} : /\ pdist'[u] = pdist[u] /\ pdmask'[u] = pdmask[u]
                                        /\ priority'[u] = priority[u]
    BY <1>1, <1>2, <1>3, <1>4 DEF PriorityTypes, LevelTypes, Becomes
  <2>2. \A u \in Threads \ {t, h} : Becomes(u, Kept(u))
    BY <2>1 DEF Becomes, Kept
  <2> QED
    BY <1>3, <1>12, <1>13, <2>1, <2>2
<1>7. /\ Owners(o) = {t} /\ Owners(o)' = ts
      /\ \A p \in Blockers \ {o} : Owners(p)' = Owners(p)
  BY <1>1, <1>2, <1>4 DEF Owners, LockTypes
<1>8. c \in Levels /\ (c = PRIORITY_IDLE \/ \E u \in Threads \ ts : wqp[u] = o /\ priority[u] <= c)
  BY <1>1, <1>2, <1>5, RestJustifies
<1>9. /\ bl_priority' \in [Blockers -> Levels] /\ bl_priority'[o] = c
      /\ \A p \in Blockers \ {o} : bl_priority'[p] = bl_priority[p]
  BY <1>1, <1>4, <1>8 DEF PriorityTypes, LevelTypes
<1>10. Unlink(ts, o, rest) /\ UNCHANGED <<base_priority, walk>>
  BY <1>4
<1> HIDE DEF ts
<1> QED
  BY <1>1, <1>2, <1>9, <1>10, <1>6, <1>7, <1>8, HandedOver

LEMMA MutexUnlockLends ==
    ASSUME ObjectsInv, ObjectsInv', PrioritiesInv, LocksRaised,
           NEW t \in Threads, NEW m \in Mutexes, mutex_unlock(t, m)
    PROVE  PrioritiesInv'
<1>1. /\ CanCall(t) /\ walk = <<>> /\ m \in Locks /\ m \in Blockers /\ MutexExact(m)
      /\ WaitInv /\ LockTypes /\ None \notin Threads
  BY InvParts, Apart DEF mutex_unlock, CanCall, Runs, Exact
<1>2. owner[m] = t
  BY <1>1 DEF mutex_unlock, MutexExact, WritersOf
<1>3. CASE UNCHANGED threadVars
  BY <1>1, <1>3, QuietStep DEF threadVars, prioVars, waitVars
<1>4. CASE queue[m] = <<>> /\ SetOwner(m, None)
  <2>1. UNCHANGED <<waitVars, mask, prioVars>> /\ owner' = [owner EXCEPT ![m] = None]
    BY <1>4 DEF SetOwner
  <2>2. owner'[m] = None /\ mask[m] = {} /\ \A p \in Blockers \ {m} : owner'[p] = owner[p]
    BY <1>1, <2>1 DEF LockTypes, MutexExact
  <2>3. Owners(m)' \subseteq Owners(m) \cup {t}
    BY <2>1, <2>2 DEF Owners
  <2> QED
    BY <1>1, <1>4, <2>1, <2>2, <2>3, OpenChangesHands DEF prioVars
<1>5. CASE queue[m] # <<>> /\ wakeup_thread_transfer(m) /\ UNCHANGED mask
  BY <1>1, <1>2, <1>5, TransferLends
<1> QED
  BY <1>3, <1>4, <1>5 DEF mutex_unlock

(* The readers own a lock together. *)
LEMMA ReadersOwn ==
    /\ ObjectsInv => \A l \in Mrsws : /\ count[l] >= 0 => Owners(l) = mask[l]
                                      /\ count[l] < 0 => Owners(l) = {owner[l]} /\ mask[l] = {}
    /\ ObjectsInv' => \A l \in Mrsws : /\ count'[l] >= 0 => Owners(l)' = mask'[l]
                                       /\ count'[l] < 0 => Owners(l)' = {owner'[l]} /\ mask'[l] = {}
<1>1. ASSUME ObjectsInv, NEW l \in Mrsws
      PROVE  /\ count[l] >= 0 => Owners(l) = mask[l]
             /\ count[l] < 0 => Owners(l) = {owner[l]} /\ mask[l] = {}
  <2>1. l \in Locks /\ MrswExact(l) /\ count[l] \in Int
    BY <1>1, InvParts, Apart DEF Exact, LockTypes
  <2>2. Owners(l) = ReadersOf(l) \cup WritersOf(l)
    BY <1>1, <2>1, OwnersAreHolders
  <2>3. ReadersOf(l) = mask[l] /\ WritersOf(l) = IF count[l] < 0 THEN {owner[l]} ELSE {}
    BY <1>1, HoldersByFields
  <2>4. count[l] < 0 => ReadersOf(l) = {}
    BY <2>1 DEF MrswExact
  <2> QED
    BY <2>1, <2>2, <2>3, <2>4
<1>2. ObjectsInv => \A l \in Mrsws : /\ count[l] >= 0 => Owners(l) = mask[l]
                                     /\ count[l] < 0 => Owners(l) = {owner[l]} /\ mask[l] = {}
  BY <1>1
<1>3. (ObjectsInv => \A l \in Mrsws : /\ count[l] >= 0 => Owners(l) = mask[l]
                                      /\ count[l] < 0 => Owners(l) = {owner[l]} /\ mask[l] = {})'
  BY <1>2, PTL
<1> QED
  BY <1>2, <1>3

LEMMA RelinquishLends ==
    ASSUME ObjectsInv, ObjectsInv', PrioritiesInv, NEW t \in Threads, CanCall(t),
           NEW l \in Mrsws, count[l] > 0, t \in mask[l], ~(count[l] = 1 /\ queue[l] # <<>>),
           count'[l] = count[l] - 1, mrsw_reader_relinquish(t, l)
    PROVE  PrioritiesInv'
<1>1. /\ WaitInv /\ LockTypes /\ walk = <<>> /\ l \in Blockers /\ PriorityTypes /\ Ordered
      /\ wqp[t] = None /\ Blockers \subseteq Objects /\ None \notin Objects
  BY InvParts, AtRest, Idle, Apart DEF CanCall, Runs
<1>2. /\ mask' = [mask EXCEPT ![l] = @ \ {t}] /\ UNCHANGED <<waitVars, base_priority, bl_priority, walk>>
      /\ owner' = [owner EXCEPT ![l] = OwnerWithout(t, l)]
  BY DEF mrsw_reader_relinquish
<1>3. count[l] \in Int
  BY <1>1 DEF LockTypes
<1>4. Owners(l) = mask[l] /\ Owners(l)' = mask[l] \ {t}
  <2>1. mask'[l] = mask[l] \ {t}
    BY <1>1, <1>2 DEF LockTypes
  <2> QED
    BY <1>3, <2>1, ReadersOwn
<1>5. \A p \in Blockers \ {l} : Owners(p)' = Owners(p)
  BY <1>1, <1>2 DEF Owners, LockTypes
<1>6. /\ priority' = [priority EXCEPT ![t] = Disinherit(t, bl_priority[l]).priority]
      /\ pdist' = [pdist EXCEPT ![t] = Disinherit(t, bl_priority[l]).pdist]
      /\ pdmask' = [pdmask EXCEPT ![t] = Disinherit(t, bl_priority[l]).pdmask]
  <2>1. CASE queue[l] # <<>>
    <3>1. count[l] > 1
      BY <1>3, <2>1
    <3> QED
      BY <2>1, <3>1 DEF mrsw_reader_relinquish
  <2>2. CASE queue[l] = <<>>
    <3>1. bl_priority[l] = PRIORITY_IDLE
      BY <1>1, <2>2, Unwaited
    <3>2. Disinherit(t, bl_priority[l]) = Kept(t)
      BY <3>1 DEF Disinherit
    <3> QED
      BY <2>2, <3>2 DEF mrsw_reader_relinquish
  <2> QED
    BY <2>1, <2>2
<1>7. /\ \A u \in Threads \ {t} : Becomes(u, Kept(u)) /\ priority'[u] = priority[u]
      /\ Becomes(t, Disinherit(t, bl_priority[l]))
      /\ priority' = [u \in Threads |-> priority'[u]] /\ pdist' = [u \in Threads |-> pdist'[u]]
      /\ pdmask' = [u \in Threads |-> pdmask'[u]]
  BY <1>1, <1>6 DEF PriorityTypes, LevelTypes, Becomes, Kept
<1>8. ASSUME NEW u \in Threads
      PROVE  Account(pdist'[u], base_priority'[u], Plain(u)') /\ Fits(u)'
  <2>1. u \in Owners(l) /\ u \notin Owners(l)' => Becomes(u, Disinherit(u, bl_priority[l]))
    BY <1>4, <1>7
  <2>2. (u \in Owners(l) <=> u \in Owners(l)') => Becomes(u, Kept(u))
    BY <1>4, <1>7
  <2>3. \A p \in Blockers : bl_priority'[p] \in Levels /\ bl_priority'[p] = bl_priority[p]
    BY <1>1, <1>2 DEF PriorityTypes, LevelTypes
  <2>4. u \in Owners(l)' => u \in Owners(l)
    BY <1>4
  <2> QED
    BY <1>1, <1>2, <1>5, <2>1, <2>2, <2>3, <2>4, Transferred
<1>9. Ordered'
  BY <1>1, <1>2, <1>4, <1>5 DEF Ordered, waitVars
<1>10. Fresh' /\ \A p \in Blockers : Claim(p)' = bl_priority[p]
  BY <1>1, <1>2, StillAtRest
<1>11. Justified'
  <2>1. \A p \in Blockers : \/ bl_priority[p] = PRIORITY_IDLE
                            \/ \E u \in Threads : wqp[u] = p /\ priority[u] <= bl_priority[p]
    BY <1>1, AtRest
  <2>2. \A p \in Blockers, u \in Threads : wqp[u] = p => wqp'[u] = p /\ priority'[u] = priority[u]
    BY <1>1, <1>2, <1>7 DEF waitVars
  <2> QED
    BY <1>10, <2>1, <2>2 DEF Justified
<1>12. base_priority' \in [Threads -> Priorities] /\ bl_priority' \in [Blockers -> Levels]
  BY <1>1, <1>2 DEF PriorityTypes, LevelTypes
<1> QED
  BY <1>7, <1>8, <1>9, <1>10, <1>11, <1>12, Settled

LEMMA ReadReleaseLends ==
    ASSUME ObjectsInv, ObjectsInv', PrioritiesInv, LocksRaised,
           NEW t \in Threads, NEW l \in Mrsws, mrsw_read_release(t, l)
    PROVE  PrioritiesInv'
<1>1. /\ CanCall(t) /\ walk = <<>> /\ l \in Locks /\ l \in Blockers /\ MrswExact(l)
      /\ WaitInv /\ LockTypes /\ None \notin Threads /\ reads[l][t] > 0
  BY InvParts, Apart DEF mrsw_read_release, CanCall, Runs, Exact
<1>2. CASE UNCHANGED threadVars
  BY <1>1, <1>2, QuietStep DEF threadVars, prioVars, waitVars
<1>3. ASSUME ~IsWriter(t, l)
      PROVE  t \in mask[l] /\ count[l] > 0
  <2>1. count[l] \in Int /\ writes[l][t] \in Nat
    BY <1>1 DEF LockTypes
  <2>2. WritersOf(l) = (IF count[l] < 0 THEN {owner[l]} ELSE {}) /\ ReadersOf(l) = mask[l]
    BY HoldersByFields
  <2>3. t \notin WritersOf(l)
    BY <1>3, <2>2 DEF IsWriter
  <2>4. t \in ReadersOf(l)
    BY <1>1, <2>1, <2>3 DEF WritersOf, ReadersOf
  <2>5. count[l] >= 0 /\ (count[l] = 0 => ReadersOf(l) = {})
    <3>1. count[l] >= 0
      BY <1>1, <2>1, <2>4 DEF MrswExact
    <3>2. count[l] = Cardinality(ReadersOf(l))
      BY <1>1, <3>1 DEF MrswExact
    <3>3. IsFiniteSet(ReadersOf(l))
      BY ThreadsAssumption, FS_Subset DEF ReadersOf
    <3> QED
      BY <3>1, <3>2, <3>3, FS_EmptySet
  <2> QED
    BY <2>1, <2>2, <2>4, <2>5
<1>4. CASE ~IsWriter(t, l) /\ count[l] = 1 /\ queue[l] # <<>> /\ wakeup_thread_transfer(l)
           /\ mask' = [mask EXCEPT ![l] = @ \ {t}]
  <2>1. t \in mask[l]
    BY <1>3, <1>4
  <2>2. owner[l] = t
    BY <1>1, <1>4, <2>1 DEF MrswExact
  <2>3. \A p \in Blockers \ {l} : mask'[p] = mask[p]
    BY <1>1, <1>4 DEF LockTypes
  <2> QED
    BY <1>1, <1>4, <2>2, <2>3, TransferLends
<1>5. CASE ~IsWriter(t, l) /\ ~(count[l] = 1 /\ queue[l] # <<>>)
           /\ SetCount(l, count[l] - 1) /\ mrsw_reader_relinquish(t, l)
  <2>1. count'[l] = count[l] - 1
    BY <1>1, <1>5 DEF SetCount, LockTypes
  <2> QED
    BY <1>1, <1>3, <1>5, <2>1, RelinquishLends
<1> QED
  BY <1>2, <1>4, <1>5 DEF mrsw_read_release

LEMMA MultiTransferLends ==
    ASSUME ObjectsInv, ObjectsInv', PrioritiesInv, NEW t \in Threads, CanCall(t),
           NEW l \in Mrsws, queue[l] # <<>>, retval[Head(queue[l])] = 1, owner[l] = t, count[l] < 0,
           wakeup_thread_queue_multi_transfer(l)
    PROVE  PrioritiesInv'
<1> DEFINE ts == FirstReaders(l)
           n == Cardinality(ReaderPlaces(l))
           h == Head(queue[l])
           rest == SubSeq(queue[l], n + 1, Len(queue[l]))
           c == IF Cardinality(ts) > 1 \/ priority[h] <= bl_priority[l]
                THEN wait_queue_find_priority(rest, priority) ELSE bl_priority[l]
<1>1. /\ WaitInv /\ LockTypes /\ walk = <<>> /\ l \in Objects /\ l \in Blockers
      /\ PriorityTypes /\ None \notin Threads
  BY InvParts, Apart, AtRest DEF CanCall, Runs
<1>2. /\ n \in 1..Len(queue[l]) /\ ts = {queue[l][k] : k \in 1..n} /\ Cardinality(ts) = n
      /\ h \in ts /\ ts \subseteq ToSet(queue[l])
  BY <1>1, FirstReadersExact
<1>3. rest \in Seq(Threads) /\ ToSet(rest) = ToSet(queue[l]) \ ts
  <2>1. queue[l] \in Seq(Threads) /\ NoDuplicates(queue[l]) /\ Len(queue[l]) \in Nat
    BY <1>1 DEF WaitInv, WaitTypes, QueueExact
  <2>2. n \in 0..Len(queue[l])
    BY <1>2, <2>1
  <2> QED
    BY <1>2, <2>1, <2>2, Shortened
<1>4. /\ Unlink(ts, l, rest) /\ UNCHANGED <<base_priority, walk>>
      /\ mask' = [mask EXCEPT ![l] = @ \cup ts]
      /\ owner' = [owner EXCEPT ![l] = IF Cardinality(ts) > 1 THEN None ELSE h]
      /\ bl_priority' = [bl_priority EXCEPT ![l] = c]
      /\ priority' = [u \in Threads |-> IF u = t THEN Disinherit(t, bl_priority[l]).priority
                                        ELSE IF u \in ts THEN Inherit(u, c).priority
                                        ELSE priority[u]]
      /\ pdist' = [u \in Threads |-> IF u = t THEN Disinherit(t, bl_priority[l]).pdist
                                     ELSE IF u \in ts THEN Inherit(u, c).pdist
                                     ELSE pdist[u]]
      /\ pdmask' = [u \in Threads |-> IF u = t THEN Disinherit(t, bl_priority[l]).pdmask
                                      ELSE IF u \in ts THEN Inherit(u, c).pdmask
                                      ELSE pdmask[u]]
  BY DEF wakeup_thread_queue_multi_transfer
<1>5. Cardinality(ts) > 1 \/ ts = {h}
  <2>1. CASE n = 1
    <3>1. \A k \in 1..n : k = 1
      BY <2>1
    <3> QED
      BY <1>2, <3>1
  <2>2. CASE n # 1
    <3>1. n > 1
      BY <1>2, <2>2
    <3> QED
      BY <1>2, <3>1
  <2> QED
    BY <2>1, <2>2
<1>6. \/ c = wait_queue_find_priority(rest, priority)
      \/ c = bl_priority[l] /\ \A u \in ts : ~(priority[u] <= bl_priority[l])
  BY <1>5
<1>7. Owners(l) = {t} /\ mask[l] = {}
  BY <1>1, ReadersOwn
<1>8. Owners(l)' = ts
  <2>1. mask'[l] = ts /\ owner'[l] = IF Cardinality(ts) > 1 THEN None ELSE h
    BY <1>1, <1>4, <1>7 DEF LockTypes
  <2>2. h \in Threads
    BY <1>1, <1>2 DEF WaitInv, QueueExact
  <2>3. Cardinality(ts) > 1 => owner'[l] = None
    BY <2>1
  <2>4. ~(Cardinality(ts) > 1) => owner'[l] = h /\ ts = {h}
    BY <1>5, <2>1
  <2> QED
    BY <1>1, <2>1, <2>2, <2>3, <2>4 DEF Owners
<1>9. \A p \in Blockers \ {l} : Owners(p)' = Owners(p)
  BY <1>1, <1>4 DEF Owners, LockTypes
<1>10. c \in Levels /\ (c = PRIORITY_IDLE \/ \E u \in Threads \ ts : wqp[u] = l /\ priority[u] <= c)
  <2> HIDE DEF c, ts, rest, n, h
  <2> QED
    BY <1>1, <1>3, <1>6, RestJustifies
<1> HIDE DEF c, ts, rest, n, h
<1>11. /\ bl_priority' \in [Blockers -> Levels] /\ bl_priority'[l] = c
       /\ \A p \in Blockers \ {l} : bl_priority'[p] = bl_priority[p]
  BY <1>1, <1>4, <1>10 DEF PriorityTypes, LevelTypes
<1>12. Unlink(ts, l, rest) /\ UNCHANGED <<base_priority, walk>>
  BY <1>4
<1>13. /\ priority' = [u \in Threads |-> priority'[u]] /\ pdist' = [u \in Threads |-> pdist'[u]]
       /\ pdmask' = [u \in Threads |-> pdmask'[u]]
       /\ \A u \in Threads : Becomes(u, IF u = t THEN Disinherit(t, bl_priority[l])
                                         ELSE IF u \in ts THEN Inherit(u, c) ELSE Kept(u))
  BY <1>4 DEF Becomes, Kept
<1>14. l \in Blockers /\ ts \subseteq ToSet(queue[l]) /\ Owners(l) = {t}
  BY <1>1, <1>2, <1>7
<1> QED
  BY <1>8, <1>9, <1>10, <1>11, <1>12, <1>13, <1>14, HandedOver

LEMMA WriteReleaseLends ==
    ASSUME ObjectsInv, ObjectsInv', PrioritiesInv, LocksRaised,
           NEW t \in Threads, NEW l \in Mrsws, mrsw_write_release(t, l)
    PROVE  PrioritiesInv'
<1>1. /\ CanCall(t) /\ walk = <<>> /\ l \in Locks /\ l \in Blockers /\ MrswExact(l)
      /\ WaitInv /\ LockTypes /\ None \notin Threads /\ writes[l][t] > 0
  BY InvParts, Apart DEF mrsw_write_release, CanCall, Runs, Exact
<1>2. owner[l] = t /\ count[l] < 0
  <2>1. WritersOf(l) = IF count[l] < 0 THEN {owner[l]} ELSE {}
    BY HoldersByFields
  <2>2. t \in WritersOf(l)
    BY <1>1 DEF WritersOf
  <2> QED
    BY <2>1, <2>2
<1>3. CASE UNCHANGED threadVars
  BY <1>1, <1>3, QuietStep DEF threadVars, prioVars, waitVars
<1>4. CASE queue[l] = <<>> /\ SetOwner(l, None)
  <2>1. UNCHANGED <<waitVars, mask, prioVars>> /\ owner' = [owner EXCEPT ![l] = None]
    BY <1>4 DEF SetOwner
  <2>2. owner'[l] = None /\ mask[l] = {} /\ \A p \in Blockers \ {l} : owner'[p] = owner[p]
    BY <1>1, <1>2, <2>1, ReadersOwn DEF LockTypes
  <2>3. Owners(l)' \subseteq Owners(l) \cup {t}
    BY <2>1, <2>2 DEF Owners
  <2> QED
    BY <1>1, <1>4, <2>1, <2>2, <2>3, OpenChangesHands DEF prioVars
<1>5. CASE queue[l] # <<>> /\ wakeup_thread_transfer(l) /\ UNCHANGED mask
  BY <1>1, <1>2, <1>5, TransferLends
<1>6. CASE queue[l] # <<>> /\ retval[Head(queue[l])] = 1 /\ wakeup_thread_queue_multi_transfer(l)
  BY <1>1, <1>2, <1>6, MultiTransferLends
<1> QED
  BY <1>3, <1>4, <1>5, <1>6 DEF mrsw_write_release

-----------------------------------------------------------------------------
(* Leaving a queue without taking over, and changes of base priority.      *)

LEMMA ReleaseSenderLends ==
    ASSUME ObjectsInv, ObjectsInv', PrioritiesInv,
           NEW t \in Threads, NEW q \in Queues, queue_release_sender(t, q)
    PROVE  PrioritiesInv'
<1> DEFINE rest == Without(queue[q], t)
           new == wait_queue_find_priority(rest, priority)
           c == IF priority[t] > bl_priority[q] \/ new = bl_priority[q] THEN bl_priority[q] ELSE new
           ts == {t}
<1>1. /\ WaitInv /\ walk = <<>> /\ q \in Objects /\ q \in Blockers /\ t \in ToSet(queue[q])
      /\ None \notin Objects /\ Blockers \subseteq Objects
  BY InvParts, Apart DEF queue_release_sender
<1>2. /\ PriorityTypes /\ Ordered
      /\ \A u \in Threads : /\ Account(pdist[u], base_priority[u], Plain(u))
                            /\ Fits(u)
      /\ \A p \in Blockers : \/ bl_priority[p] = PRIORITY_IDLE
                             \/ \E u \in Threads : wqp[u] = p /\ priority[u] <= bl_priority[p]
  BY <1>1, AtRest
<1>3. /\ Unlink(ts, q, rest) /\ UNCHANGED <<ownVars, priority, base_priority, pdist, pdmask, bl_priority>>
      /\ IF priority[t] > bl_priority[q] \/ new = bl_priority[q]
         THEN UNCHANGED walk ELSE StartWalk(q, new)
  BY DEF queue_release_sender, wakeup_thread_release
<1>4. rest \in Seq(Threads) /\ ToSet(rest) = ToSet(queue[q]) \ ts
  BY <1>1, WithoutExact DEF WaitInv, WaitTypes, QueueExact
<1>5. \/ c = wait_queue_find_priority(rest, priority)
      \/ c = bl_priority[q] /\ \A u \in ts : ~(priority[u] <= bl_priority[q])
  <2>1. priority[t] \in Nat /\ bl_priority[q] \in Nat
    BY <1>1, <1>2, LevelsOrder DEF PriorityTypes, LevelTypes
  <2>2. priority[t] > bl_priority[q] => ~(priority[t] <= bl_priority[q])
    BY <2>1
  <2> QED
    BY <2>2
<1>6. c \in Levels /\ (c = PRIORITY_IDLE \/ \E u \in Threads \ ts : wqp[u] = q /\ priority[u] <= c)
  <2> HIDE DEF c, rest, ts, new
  <2> QED
    BY <1>1, <1>4, <1>5, RestJustifies
<1>7. \A p \in Blockers : Owners(p)' = Owners(p)
  BY <1>3 DEF Owners, ownVars
<1>8. \A u \in Threads : Plain(u)' = Plain(u)
  BY <1>3, <1>7 DEF Plain
<1>9. /\ wqp' = [u \in Threads |-> IF u \in ts THEN None ELSE wqp[u]]
      /\ blocker' = [u \in Threads |-> IF u \in ts THEN None ELSE blocker[u]]
  BY <1>3 DEF Unlink
<1>10. wqp[t] = q
  BY <1>1 DEF WaitInv, QueueExact
<1>11. Ordered'
  BY <1>1, <1>2, <1>7, <1>9 DEF Ordered
<1>12. \A u \in Threads \ {t} : wqp'[u] = wqp[u]
  BY <1>9
<1>13. Fresh' /\ Claim(q)' = c /\ \A p \in Blockers \ {q} : Claim(p)' = bl_priority[p]
  <2>1. CASE priority[t] > bl_priority[q] \/ new = bl_priority[q]
    BY <1>1, <1>3, <2>1, StillAtRest
  <2>2. CASE ~(priority[t] > bl_priority[q] \/ new = bl_priority[q])
    <3>1. c = new /\ StartWalk(q, new) /\ new \in Levels
      BY <1>3, <1>6, <2>2
    <3> HIDE DEF new, c
    <3> QED
      BY <1>1, <1>3, <1>7, <3>1, WalkStarts
  <2> QED
    BY <2>1, <2>2
<1> HIDE DEF c
<1>14. Justified'
  BY <1>1, <1>2, <1>3, <1>6, <1>10, <1>12, <1>13 DEF Justified
<1>15. \A u \in Threads : Account(pdist'[u], base_priority'[u], Plain(u)') /\ Fits(u)'
  BY <1>2, <1>3, <1>8 DEF Fits
<1> QED
  BY <1>2, <1>3, <1>11, <1>13, <1>14, <1>15, Settled DEF PriorityTypes, LevelTypes

LEMMA SetPriorityLends ==
    ASSUME ObjectsInv, ObjectsInv', PrioritiesInv,
           NEW t \in Threads, NEW p \in Priorities, thread_set_priority(t, p)
    PROVE  PrioritiesInv'
<1> DEFINE d == prio_move_entry(pdist[t], base_priority[t], p)
           m == mask_add_entry(mask_subtract_entry(pdmask[t], pdist[t], base_priority[t]),
                               prio_subtract_entry(pdist[t], base_priority[t]), p)
           o == blocker[t]
           b == Best(Entries(d))
<1>1. /\ WaitInv /\ walk = <<>> /\ None \notin Blockers /\ Blockers \subseteq Objects
      /\ o \in Blockers \cup {None} /\ (state[t] = "running" => o = None)
      /\ \A r \in Blockers : wqp[t] = r <=> o = r
  BY InvParts, Apart, WaitersBlocked DEF thread_set_priority, WaitInv, WaitTypes
<1>2. /\ PriorityTypes /\ Ordered
      /\ \A u \in Threads : /\ Account(pdist[u], base_priority[u], Plain(u))
                            /\ Fits(u)
      /\ \A r \in Blockers : \/ bl_priority[r] = PRIORITY_IDLE
                             \/ \E u \in Threads : wqp[u] = r /\ priority[u] <= bl_priority[r]
  BY <1>1, AtRest
<1>3. Account(d, p, Plain(t)) /\ b \in Priorities
  BY <1>2, Rebased, InRange
<1>12. m = Entries(d)
  <2>1. /\ pdist[t] \in [Priorities -> Nat] /\ base_priority[t] \in Priorities
        /\ pdist[t][base_priority[t]] > 0 /\ pdmask[t] = Entries(pdist[t])
    BY <1>2, Rebased DEF PriorityTypes, LevelTypes, Fits
  <2>2. mask_subtract_entry(pdmask[t], pdist[t], base_priority[t])
          = Entries(prio_subtract_entry(pdist[t], base_priority[t]))
    BY <2>1, MaskSubtracted
  <2>3. prio_subtract_entry(pdist[t], base_priority[t]) \in [Priorities -> Nat]
    BY <2>1, EntrySubtracted
  <2> QED
    BY <2>2, <2>3, MaskAdded DEF prio_move_entry
<1> HIDE DEF d
<1>4. /\ base_priority' = [base_priority EXCEPT ![t] = p] /\ pdist' = [pdist EXCEPT ![t] = d]
      /\ priority' = [priority EXCEPT ![t] = b] /\ pdmask' = [pdmask EXCEPT ![t] = Entries(d)]
      /\ UNCHANGED <<waitVars, ownVars, bl_priority>>
  BY <1>12 DEF thread_set_priority, d
<1>5. \A u \in Threads : Plain(u)' = Plain(u)
  BY <1>4 DEF Plain, Owners, ownVars
<1>6. \A u \in Threads \ {t} : /\ priority'[u] = priority[u] /\ pdist'[u] = pdist[u]
                               /\ base_priority'[u] = base_priority[u] /\ pdmask'[u] = pdmask[u]
  BY <1>2, <1>4 DEF PriorityTypes, LevelTypes
<1>7. /\ priority'[t] = b /\ pdist'[t] = d /\ base_priority'[t] = p /\ b = Best(Entries(d))
      /\ pdmask'[t] = Entries(d)
  BY <1>2, <1>4 DEF PriorityTypes, LevelTypes
<1>8. /\ priority' \in [Threads -> Priorities] /\ base_priority' \in [Threads -> Priorities]
      /\ pdist' = [u \in Threads |-> pdist'[u]] /\ pdmask' = [u \in Threads |-> pdmask'[u]]
  BY <1>2, <1>3, <1>4 DEF PriorityTypes, LevelTypes
<1> HIDE DEF b
<1>9. ASSUME NEW u \in Threads
      PROVE  Account(pdist'[u], base_priority'[u], Plain(u)') /\ Fits(u)'
  BY <1>2, <1>3, <1>5, <1>6, <1>7 DEF Fits
<1>10. Ordered'
  BY <1>2, <1>4 DEF Ordered, Owners, ownVars, waitVars
<1>11. Fresh' /\ Justified'
  <2> DEFINE f == wait_queue_find_priority(queue[o], [priority EXCEPT ![t] = b])
             new == IF b < bl_priority[o] THEN b
                    ELSE IF priority[t] <= bl_priority[o] THEN f ELSE bl_priority[o]
  <2>1. IF \/ b = priority[t] \/ state[t] = "running" \/ o = None \/ new = bl_priority[o]
        THEN UNCHANGED walk ELSE StartWalk(o, new)
    BY <1>12 DEF thread_set_priority, d, b
  <2>2. \A r \in Blockers : r # o =>
            \/ bl_priority'[r] = PRIORITY_IDLE
            \/ \E u \in Threads : wqp'[u] = r /\ priority'[u] <= bl_priority'[r]
    BY <1>1, <1>2, <1>4, <1>6 DEF waitVars
  <2>3. ASSUME o \in Blockers
        PROVE  f \in Levels /\ (f = PRIORITY_IDLE \/ \E u \in Threads : wqp'[u] = o /\ priority'[u] <= f)
    <3>1. f \in Levels /\ (f = PRIORITY_IDLE \/ \E u \in ToSet(queue[o]) : priority'[u] = f)
      <4>1. queue[o] \in Seq(Threads) /\ \A u \in Threads : priority'[u] \in Levels
        BY <1>1, <1>8, <2>3, LevelsOrder DEF WaitInv, WaitTypes
      <4> QED
        BY <1>4, <4>1, FoundPriority
    <3>2. ToSet(queue[o]) = {u \in Threads : wqp'[u] = o}
      BY <1>1, <1>4, <2>3 DEF WaitInv, QueueExact, waitVars
    <3> HIDE DEF f
    <3>3. f \in Nat
      BY <3>1, LevelsOrder
    <3> QED
      BY <3>1, <3>2, <3>3
  <2>4. ASSUME o \in Blockers
        PROVE  /\ bl_priority[o] \in Levels /\ bl_priority[o] \in Nat /\ b \in Nat /\ b <= b
               /\ priority[t] \in Nat /\ wqp'[t] = o /\ b \in Levels
    <3>1. bl_priority[o] \in Levels /\ priority[t] \in Levels /\ b \in Levels
      BY <1>2, <1>3, <2>4, LevelsOrder DEF PriorityTypes, LevelTypes
    <3>2. bl_priority[o] \in Nat /\ priority[t] \in Nat /\ b \in Nat
      BY <3>1, LevelsOrder
    <3> QED
      BY <1>1, <1>4, <2>4, <3>1, <3>2 DEF waitVars
  <2> HIDE DEF f
  <2>5. CASE UNCHANGED walk /\ o = None
    <3>1. Fresh' /\ \A r \in Blockers : Claim(r)' = bl_priority'[r]
      BY <1>1, <2>5, StillAtRest
    <3> QED
      BY <1>1, <2>2, <2>5, <3>1 DEF Justified
  <2>6. CASE UNCHANGED walk /\ o \in Blockers /\ (b = priority[t] \/ new = bl_priority[o])
    <3>1. Fresh' /\ \A r \in Blockers : Claim(r)' = bl_priority'[r]
      BY <1>1, <2>6, StillAtRest
    <3>2. \/ bl_priority[o] = PRIORITY_IDLE
          \/ \E u \in Threads : wqp'[u] = o /\ priority'[u] <= bl_priority[o]
      <4>1. PICK u \in Threads : bl_priority[o] = PRIORITY_IDLE \/ (wqp[u] = o /\ priority[u] <= bl_priority[o])
        BY <1>2, <2>6
      <4>2. CASE bl_priority[o] = PRIORITY_IDLE \/ u # t \/ b = priority[t]
        BY <1>4, <1>6, <1>7, <4>1, <4>2 DEF waitVars
      <4>3. CASE u = t /\ wqp[u] = o /\ priority[u] <= bl_priority[o] /\ new = bl_priority[o]
        <5>1. ~(b < bl_priority[o])
          BY <2>4, <2>6, <4>3
        <5>2. f = bl_priority[o]
          BY <4>3, <5>1
        <5> QED
          BY <2>3, <2>6, <5>2
      <4> QED
        BY <2>6, <4>1, <4>2, <4>3
    <3>3. bl_priority' = bl_priority
      BY <1>4
    <3> QED
      BY <2>2, <3>1, <3>2, <3>3 DEF Justified
  <2>7. ASSUME NEW r \in Blockers, o = r, StartWalk(r, new), new # bl_priority[r]
        PROVE  Fresh' /\ Justified'
    <3>1. new \in Levels /\ (new = PRIORITY_IDLE \/ \E u \in Threads : wqp'[u] = r /\ priority'[u] <= new)
      BY <1>7, <2>3, <2>4, <2>7
    <3> HIDE DEF new
    <3>2. Owners(r)' = Owners(r) /\ bl_priority' = bl_priority
      BY <1>4 DEF Owners, ownVars
    <3>3. /\ Fresh' /\ Claim(r)' = new
          /\ \A x \in Blockers \ {r} : Claim(x)' = bl_priority'[x]
      BY <2>7, <3>1, <3>2, WalkStarts
    <3> QED
      BY <2>2, <2>7, <3>1, <3>3 DEF Justified
  <2> HIDE DEF new
  <2>8. CASE b = priority[t] \/ state[t] = "running" \/ o = None \/ new = bl_priority[o]
    <3>1. UNCHANGED walk
      BY <2>1, <2>8
    <3>2. o \in Blockers => b = priority[t] \/ new = bl_priority[o]
      BY <1>1, <2>8
    <3> QED
      BY <1>1, <2>5, <2>6, <3>1, <3>2
  <2>9. CASE ~(b = priority[t] \/ state[t] = "running" \/ o = None \/ new = bl_priority[o])
    BY <1>1, <2>1, <2>7, <2>9
  <2> QED
    BY <2>8, <2>9
<1> QED
  BY <1>2, <1>4, <1>8, <1>9, <1>10, <1>11, Settled DEF PriorityTypes, LevelTypes

-----------------------------------------------------------------------------
(* The walk: a stack of frames, each higher up the order than those below. *)

Frames == [bl : Blockers, todo : SUBSET Threads, old : Levels, new : Levels, first : Blockers]

Uphill(w) == \A i, j \in DOMAIN w : i < j => Rank[w[i].bl] > Rank[w[j].bl]

LEMMA Ranks ==
    \A o \in Blockers : Rank[o] \in Nat
BY KernelAssumption, Apart

LEMMA Popped ==
    ASSUME NEW w \in Seq(Frames), w # <<>>, Uphill(w)
    PROVE  /\ Tail(w) \in Seq(Frames) /\ Uphill(Tail(w)) /\ Head(w) \in Frames
           /\ ToSet(w) = {Head(w)} \cup ToSet(Tail(w)) /\ ToSet(w) \subseteq Frames
           /\ \A g \in ToSet(Tail(w)) : Rank[g.bl] < Rank[Head(w).bl]
<1>1. /\ Tail(w) \in Seq(Frames) /\ Head(w) = w[1] /\ 1 \in 1..Len(w) /\ Len(w) \in Nat
      /\ DOMAIN w = 1..Len(w) /\ DOMAIN Tail(w) = 1..(Len(w) - 1)
      /\ \A i \in 1..(Len(w) - 1) : Tail(w)[i] = w[i + 1]
      /\ \A i \in 1..Len(w) : w[i] \in Frames
  OBVIOUS
<1>2. \A i \in 1..Len(w) : w[i].bl \in Blockers /\ Rank[w[i].bl] \in Nat
  BY <1>1, Ranks DEF Frames
<1>3. \A i \in 1..(Len(w) - 1) : i \in Nat /\ i + 1 \in 1..Len(w) /\ 1 < i + 1
  BY <1>1
<1>4. Uphill(Tail(w))
  <2> SUFFICES ASSUME NEW i \in 1..(Len(w) - 1), NEW j \in 1..(Len(w) - 1), i < j
               PROVE  Rank[Tail(w)[i].bl] > Rank[Tail(w)[j].bl]
    BY <1>1 DEF Uphill
  <2>1. i + 1 < j + 1
    BY <1>3
  <2> QED
    BY <1>1, <1>3, <2>1 DEF Uphill
<1>5. ASSUME NEW i \in 1..(Len(w) - 1)
      PROVE  Rank[Tail(w)[i].bl] < Rank[Head(w).bl]
  <2>1. Rank[w[1].bl] > Rank[w[i + 1].bl]
    BY <1>1, <1>3 DEF Uphill
  <2> QED
    BY <1>1, <1>2, <1>3, <2>1
<1>6. ASSUME NEW i \in 1..Len(w)
      PROVE  i = 1 \/ \E j \in 1..(Len(w) - 1) : w[i] = Tail(w)[j]
  <2>1. CASE i # 1
    <3>1. i - 1 \in 1..(Len(w) - 1) /\ (i - 1) + 1 = i
      BY <1>1, <2>1
    <3> QED
      BY <1>1, <3>1
  <2> QED
    BY <2>1
<1>7. /\ ToSet(w) = {w[i] : i \in 1..Len(w)} /\ ToSet(Tail(w)) = {Tail(w)[i] : i \in 1..(Len(w) - 1)}
  BY <1>1 DEF ToSet
<1>8. ToSet(w) = {Head(w)} \cup ToSet(Tail(w))
  <2>1. \A g : g \in ToSet(w) => g = Head(w) \/ g \in ToSet(Tail(w))
    BY <1>1, <1>6, <1>7
  <2>2. \A g : g = Head(w) \/ g \in ToSet(Tail(w)) => g \in ToSet(w)
    BY <1>1, <1>3, <1>7
  <2> QED
    BY <2>1, <2>2
<1>9. ToSet(w) \subseteq Frames
  BY <1>1, <1>7
<1>10. \A g \in ToSet(Tail(w)) : Rank[g.bl] < Rank[Head(w).bl]
  BY <1>5, <1>7
<1> QED
  BY <1>1, <1>4, <1>8, <1>9, <1>10

LEMMA Pushed ==
    ASSUME NEW w \in Seq(Frames), Uphill(w), NEW e \in Frames,
           \A g \in ToSet(w) : Rank[g.bl] < Rank[e.bl]
    PROVE  /\ <<e>> \o w \in Seq(Frames) /\ Uphill(<<e>> \o w)
           /\ <<e>> \o w # <<>> /\ Head(<<e>> \o w) = e
           /\ ToSet(<<e>> \o w) = {e} \cup ToSet(w)
<1> DEFINE v == <<e>> \o w
<1>1. /\ v \in Seq(Frames) /\ Len(v) = Len(w) + 1 /\ Len(w) \in Nat /\ v[1] = e
      /\ DOMAIN v = 1..(Len(w) + 1) /\ DOMAIN w = 1..Len(w)
      /\ \A i \in 2..(Len(w) + 1) : v[i] = w[i - 1]
  OBVIOUS
<1> HIDE DEF v
<1>2. v # <<>> /\ Head(v) = e
  BY <1>1
<1>3. \A i \in 1..(Len(w) + 1) : i = 1 \/ (i \in 2..(Len(w) + 1) /\ i - 1 \in 1..Len(w))
  BY <1>1
<1>4. \A i \in 1..Len(w) : i + 1 \in 2..(Len(w) + 1) /\ i + 1 \in 1..(Len(w) + 1) /\ (i + 1) - 1 = i
  BY <1>1
<1>5. ToSet(w) = {w[i] : i \in 1..Len(w)} /\ ToSet(v) = {v[i] : i \in 1..(Len(w) + 1)}
  BY <1>1 DEF ToSet
<1>6. Uphill(v)
  <2> SUFFICES ASSUME NEW i \in 1..(Len(w) + 1), NEW j \in 1..(Len(w) + 1), i < j
               PROVE  Rank[v[i].bl] > Rank[v[j].bl]
    BY <1>1 DEF Uphill
  <2>1. j # 1 /\ v[j] = w[j - 1] /\ j - 1 \in 1..Len(w)
    BY <1>1, <1>3
  <2>2. CASE i = 1
    <3>1. w[j - 1] \in ToSet(w)
      BY <1>5, <2>1
    <3>2. Rank[v[j].bl] < Rank[v[i].bl]
      BY <1>1, <2>1, <2>2, <3>1
    <3>3. v[j] \in Frames /\ v[i] \in Frames
      BY <1>1
    <3>4. v[j].bl \in Blockers /\ v[i].bl \in Blockers
      BY <3>3 DEF Frames
    <3>5. Rank[v[j].bl] \in Nat /\ Rank[v[i].bl] \in Nat
      BY <3>4, Ranks
    <3> QED
      BY <3>2, <3>5
  <2>3. CASE i # 1
    <3>1. v[i] = w[i - 1] /\ i - 1 \in 1..Len(w)
      BY <1>1, <1>3, <2>3
    <3>2. i - 1 < j - 1
      BY <1>1
    <3> QED
      BY <1>1, <2>1, <3>1, <3>2 DEF Uphill
  <2> QED
    BY <2>2, <2>3
<1>7. ToSet(v) = {e} \cup ToSet(w)
  <2>1. \A g : g \in ToSet(v) => g = e \/ g \in ToSet(w)
    BY <1>1, <1>3, <1>5
  <2>2. \A i \in 1..Len(w) : w[i] = v[i + 1]
    BY <1>1, <1>4
  <2>3. \A g : g = e \/ g \in ToSet(w) => g \in ToSet(v)
    <3>1. 1 \in 1..(Len(w) + 1)
      BY <1>1
    <3> QED
      BY <1>1, <1>4, <1>5, <2>2, <3>1
  <2> QED
    BY <2>1, <2>3
<1> QED
  BY <1>1, <1>2, <1>6, <1>7 DEF v

(* Where a frame of the walk stands does not matter otherwise. *)
FrameExact(f) ==
    /\ f.todo \subseteq Owners(f.bl)
    /\ Rank[f.first] <= Rank[f.bl]
    /\ \/ bl_priority[f.bl] = f.new
       \/ f = Head(walk) /\ bl_priority[f.bl] = f.old /\ f.todo = Owners(f.bl)

DueIn(o, t) == {f \in ToSet(walk) : f.bl = o /\ t \in f.todo}

LEMMA WalkByFrames ==
    ASSUME walk \in Seq(Frames)
    PROVE  /\ WalkExact <=> Uphill(walk) /\ \A f \in ToSet(walk) : FrameExact(f)
           /\ \A o \in Blockers, t \in Threads, p \in Priorities :
                Lends(o, t, p) <=> \/ \E f \in DueIn(o, t) : f.old = p
                                   \/ bl_priority[o] = p /\ DueIn(o, t) = {}
<1>1. /\ walk \in Seq(Frames) /\ ToSet(walk) = {walk[i] : i \in DOMAIN walk}
      /\ DOMAIN walk = 1..Len(walk) /\ Len(walk) \in Nat
  BY DEF ToSet
<1>2. \A i \in DOMAIN walk : walk[i].bl \in Blockers /\ Rank[walk[i].bl] \in Nat
  <2>1. \A i \in DOMAIN walk : walk[i] \in Frames
    BY <1>1
  <2>2. \A i \in DOMAIN walk : walk[i].bl \in Blockers
    BY <2>1 DEF Frames
  <2> QED
    BY <2>2, Ranks
<1>3. walk # <<>> => Head(walk) = walk[1]
  BY <1>1
<1>4. ASSUME Uphill(walk), NEW i \in DOMAIN walk, walk[i] = Head(walk)
      PROVE  i = 1
  <2>1. i \in 1..Len(walk) /\ 1 \in 1..Len(walk) /\ walk # <<>>
    BY <1>1
  <2>2. ~(1 < i)
    BY <1>1, <1>2, <1>3, <1>4, <2>1 DEF Uphill
  <2> QED
    BY <2>1, <2>2
<1>5. \A i \in DOMAIN walk : i = 1 => walk[i] = Head(walk)
  BY <1>1, <1>3
<1>6. WalkExact <=> Uphill(walk) /\ \A f \in ToSet(walk) : FrameExact(f)
  <2>1. WalkExact <=> Uphill(walk) /\ \A i \in DOMAIN walk : FrameExact(walk[i])
    BY <1>4, <1>5 DEF WalkExact, Uphill, FrameExact
  <2> QED
    BY <1>1, <2>1
<1>7. ASSUME NEW o \in Blockers, NEW t \in Threads, NEW p \in Priorities
      PROVE  Lends(o, t, p) <=> \/ \E f \in DueIn(o, t) : f.old = p
                                \/ bl_priority[o] = p /\ DueIn(o, t) = {}
  <2>1. \A i \in DOMAIN walk : Due(o, t, i) <=> walk[i] \in DueIn(o, t)
    BY <1>1 DEF Due, DueIn
  <2>2. \A f \in DueIn(o, t) : \E i \in DOMAIN walk : f = walk[i]
    BY <1>1 DEF DueIn
  <2> QED
    BY <2>1, <2>2 DEF Lends
<1> QED
  BY <1>6, <1>7

LEMMA WalkByFramesNext ==
    walk' \in Seq(Frames) =>
        /\ WalkExact' <=> Uphill(walk)' /\ \A f \in ToSet(walk') : FrameExact(f)'
        /\ \A o \in Blockers, t \in Threads, p \in Priorities :
             Lends(o, t, p)' <=> \/ \E f \in DueIn(o, t)' : f.old = p
                                 \/ bl_priority'[o] = p /\ DueIn(o, t)' = {}
<1>1. walk \in Seq(Frames) =>
        /\ WalkExact <=> Uphill(walk) /\ \A f \in ToSet(walk) : FrameExact(f)
        /\ \A o \in Blockers, t \in Threads, p \in Priorities :
             Lends(o, t, p) <=> \/ \E f \in DueIn(o, t) : f.old = p
                                \/ bl_priority[o] = p /\ DueIn(o, t) = {}
  BY WalkByFrames
<1>2. (walk \in Seq(Frames) =>
        /\ WalkExact <=> Uphill(walk) /\ \A f \in ToSet(walk) : FrameExact(f)
        /\ \A o \in Blockers, t \in Threads, p \in Priorities :
             Lends(o, t, p) <=> \/ \E f \in DueIn(o, t) : f.old = p
                                \/ bl_priority[o] = p /\ DueIn(o, t) = {})'
  BY <1>1, PTL
<1> QED
  BY <1>2

(* Before a turn of the walk for blt, one of the owners that frame f      *)
(* names: w is the rest of the walk, d what blt is to have.                *)
TurnFrom(f, blt, w, d) ==
    /\ f \in Frames /\ blt \in Threads /\ blt \in f.todo /\ f.todo \subseteq Owners(f.bl)
    /\ Rank[f.first] <= Rank[f.bl]
    /\ bl_priority[f.bl] = f.new \/ f.todo = Owners(f.bl)
    /\ w \in Seq(Frames) /\ Uphill(w) /\ ToSet(w) \subseteq Frames
    /\ ToSet(walk) = {f} \cup ToSet(w)
    /\ \A g \in ToSet(w) : /\ Rank[g.bl] < Rank[f.bl] /\ bl_priority[g.bl] = g.new
                           /\ g.todo \subseteq Owners(g.bl) /\ Rank[g.first] <= Rank[g.bl]
    /\ blocker[blt] \in Blockers => Rank[f.bl] < Rank[blocker[blt]]
    /\ \A p \in Priorities : f.bl \in Lenders(blt, p) <=> p = f.old
    /\ d \in [Priorities -> Nat]
    /\ \A p \in Priorities : d[p] = pdist[blt][p] + One(p, f.new) - One(p, f.old)
    /\ f.new \in Priorities => Best(Entries(d)) <= f.new
    /\ LentMask(pdmask[blt], pdist[blt], f.old, f.new) = Entries(d)

(* After it: f2 is what is left of f, e the frame above it if up is not    *)
(* empty.                                                                  *)
TurnTo(f, blt, w, f2, o, new, e, up) ==
    /\ walk' \in Seq(Frames) /\ Uphill(walk')
    /\ ToSet(walk') = (IF up THEN {e} ELSE {}) \cup (IF f.todo = {blt} THEN {} ELSE {f2}) \cup ToSet(w)
    /\ f2 \in Frames /\ f2.bl = f.bl /\ f2.old = f.old /\ f2.new = f.new /\ f2.first = f.first
    /\ f2.todo = f.todo \ {blt}
    /\ e \in Frames /\ e.bl = o /\ e.todo = Owners(o) /\ e.old = bl_priority[o]
    /\ e.new = new /\ e.first = f.first
    /\ up => walk' # <<>> /\ Head(walk') = e /\ o = blocker[blt]
    /\ ~up /\ f.todo # {blt} => walk' # <<>> /\ Head(walk') = f2
    /\ ~up /\ f.todo = {blt} => walk' = w

LEMMA TurnBegins ==
    ASSUME ObjectsInv, PrioritiesInv, walk # <<>>, NEW f, f = Head(walk), NEW blt \in f.todo,
           NEW d, d = Lent(pdist[blt], f.old, f.new)
    PROVE  TurnFrom(f, blt, Tail(walk), d)
<1>1. /\ PriorityTypes /\ Ordered /\ WalkExact
      /\ \A t \in Threads : Account(pdist[t], base_priority[t], Book(t)) /\ Fits(t)
  BY Accounts DEF PrioritiesInv
<1>2. /\ walk \in Seq(Frames) /\ Uphill(walk) /\ \A g \in ToSet(walk) : FrameExact(g)
  <2>1. walk \in Seq(Frames)
    BY <1>1 DEF PriorityTypes, LevelTypes, Frames
  <2> QED
    BY <1>1, <2>1, WalkByFrames
<1>3. /\ Tail(walk) \in Seq(Frames) /\ Uphill(Tail(walk)) /\ f \in Frames
      /\ ToSet(walk) = {f} \cup ToSet(Tail(walk)) /\ ToSet(walk) \subseteq Frames
      /\ \A g \in ToSet(Tail(walk)) : Rank[g.bl] < Rank[f.bl]
  BY <1>2, Popped
<1>4. f.bl \in Blockers /\ f.old \in Levels /\ f.new \in Levels /\ Rank[f.bl] \in Nat
  BY <1>3, Ranks DEF Frames
<1>5. FrameExact(f) /\ \A g \in ToSet(Tail(walk)) : FrameExact(g) /\ g # f
  BY <1>2, <1>3, <1>4
<1>6. f.todo \subseteq Owners(f.bl) /\ Owners(f.bl) \subseteq Threads
  BY <1>4, <1>5, OwnersAreHolders DEF FrameExact
<1>7. blt \in Threads /\ (blocker[blt] \in Blockers => Rank[f.bl] < Rank[blocker[blt]])
  BY <1>1, <1>4, <1>6 DEF Ordered
<1>8. DueIn(f.bl, blt) = {f}
  BY <1>3, <1>4 DEF DueIn
<1>9. \A p \in Priorities : f.bl \in Lenders(blt, p) <=> p = f.old
  <2> SUFFICES ASSUME NEW p \in Priorities
               PROVE  Lends(f.bl, blt, p) <=> p = f.old
    BY <1>4, <1>6 DEF Lenders
  <2>1. Lends(f.bl, blt, p) <=> \/ \E g \in DueIn(f.bl, blt) : g.old = p
                                \/ bl_priority[f.bl] = p /\ DueIn(f.bl, blt) = {}
    BY <1>2, <1>4, <1>7, WalkByFrames
  <2> QED
    BY <1>8, <2>1
<1>10. pdist[blt] \in [Priorities -> Nat] /\ Account(pdist[blt], base_priority[blt], Book(blt))
  BY <1>1, <1>7 DEF PriorityTypes, LevelTypes
<1>11. f.old \in Priorities => pdist[blt][f.old] > 0
  <2> SUFFICES ASSUME f.old \in Priorities
               PROVE  pdist[blt][f.old] > 0
    OBVIOUS
  <2>1. f.bl \in Book(blt)[f.old]
    BY <1>9 DEF Book
  <2> QED
    BY <1>10, <2>1, Owing
<1>12. /\ d \in [Priorities -> Nat]
       /\ \A p \in Priorities : d[p] = pdist[blt][p] + One(p, f.new) - One(p, f.old)
  BY <1>4, <1>10, <1>11, LentExact
<1>13. ASSUME f.new \in Priorities
       PROVE  Best(Entries(d)) <= f.new
  <2>1. d[f.new] = pdist[blt][f.new] + One(f.new, f.new) - One(f.new, f.old) /\ pdist[blt][f.new] \in Nat
    BY <1>10, <1>12, <1>13
  <2>2. One(f.new, f.new) = 1 /\ One(f.new, f.old) = IF f.new = f.old THEN 1 ELSE 0
    BY DEF One
  <2>3. d[f.new] > 0
    <3>1. CASE f.new = f.old
      <4>1. d[f.new] = pdist[blt][f.new] + 1 - 1 /\ pdist[blt][f.new] > 0
        BY <1>11, <1>13, <2>1, <2>2, <3>1
      <4> QED
        BY <2>1, <4>1
    <3>2. CASE f.new # f.old
      <4>1. d[f.new] = pdist[blt][f.new] + 1 - 0
        BY <2>1, <2>2, <3>2
      <4> QED
        BY <2>1, <4>1
    <3> QED
      BY <3>1, <3>2
  <2> QED
    BY <1>12, <1>13, <2>3, BestOf
<1>14. LentMask(pdmask[blt], pdist[blt], f.old, f.new) = Entries(d)
  <2>1. pdmask[blt] = Entries(pdist[blt])
    BY <1>1, <1>7 DEF Fits
  <2> QED
    BY <1>4, <1>10, <1>11, <2>1, MaskLent
<1> QED
  BY <1>3, <1>5, <1>6, <1>7, <1>9, <1>12, <1>13, <1>14 DEF FrameExact, TurnFrom

(* Frame f when the turn for blt is over, and the walk below the next one. *)
Narrowed(f, blt) == [f EXCEPT !.todo = @ \ {blt}]
Left(f, blt, f2) == IF f.todo = {blt} THEN Tail(walk) ELSE <<f2>> \o Tail(walk)

(* The frames after a turn. *)
LEMMA TurnFrames ==
    ASSUME ObjectsInv, PrioritiesInv, walk # <<>>, NEW f, f = Head(walk), NEW blt \in f.todo,
           NEW f2, f2 = Narrowed(f, blt), NEW left, left = Left(f, blt, f2),
           NEW o \in Blockers, NEW new \in Levels, NEW e, e = Frame(o, new, f.first),
           NEW up \in BOOLEAN, up => o = blocker[blt],
           walk' = (IF up THEN <<e>> ELSE <<>>) \o left
    PROVE  TurnTo(f, blt, Tail(walk), f2, o, new, e, up)
<1> DEFINE w == Tail(walk)
<1>1. /\ f \in Frames /\ w \in Seq(Frames) /\ Uphill(w)
      /\ \A g \in ToSet(w) : Rank[g.bl] < Rank[f.bl]
      /\ blocker[blt] \in Blockers => Rank[f.bl] < Rank[blocker[blt]]
      /\ ToSet(w) \subseteq Frames
  BY TurnBegins DEF TurnFrom
<1> HIDE DEF w
<1>2. /\ f2 \in Frames /\ f2.bl = f.bl /\ f2.old = f.old /\ f2.new = f.new /\ f2.first = f.first
      /\ f2.todo = f.todo \ {blt}
  BY <1>1 DEF Frames, Narrowed
<1>3. PriorityTypes /\ Owners(o) \subseteq Threads
  BY OwnersAreHolders DEF PrioritiesInv
<1>4. /\ e \in Frames /\ e.bl = o /\ e.todo = Owners(o) /\ e.old = bl_priority[o]
      /\ e.new = new /\ e.first = f.first
  BY <1>1, <1>3 DEF Frame, Frames, PriorityTypes, LevelTypes
<1>5. /\ left \in Seq(Frames) /\ Uphill(left)
      /\ ToSet(left) = (IF f.todo = {blt} THEN {} ELSE {f2}) \cup ToSet(w)
      /\ f.todo # {blt} => left # <<>> /\ Head(left) = f2
      /\ f.todo = {blt} => left = w
  <2>1. CASE f.todo = {blt}
    BY <1>1, <2>1 DEF w, Left
  <2>2. CASE f.todo # {blt}
    <3>1. left = <<f2>> \o w
      BY <2>2 DEF w, Left
    <3>2. \A g \in ToSet(w) : Rank[g.bl] < Rank[f2.bl]
      BY <1>1, <1>2
    <3>3. /\ <<f2>> \o w \in Seq(Frames) /\ Uphill(<<f2>> \o w)
          /\ <<f2>> \o w # <<>> /\ Head(<<f2>> \o w) = f2
          /\ ToSet(<<f2>> \o w) = {f2} \cup ToSet(w)
      BY <1>1, <1>2, <3>2, Pushed
    <3> QED
      BY <2>2, <3>1, <3>3
  <2> QED
    BY <2>1, <2>2
<1>6. \A g \in ToSet(left) : g.bl \in Blockers /\ (g.bl = f.bl \/ Rank[g.bl] < Rank[f.bl])
  BY <1>1, <1>2, <1>5 DEF Frames
<1>7. CASE ~up
  <2>1. walk' = left
    BY <1>5, <1>7
  <2> QED
    BY <1>2, <1>4, <1>5, <1>7, <2>1 DEF w, TurnTo
<1>8. CASE up
  <2>1. \A g \in ToSet(left) : Rank[g.bl] < Rank[e.bl]
    <3>1. Rank[f.bl] < Rank[o] /\ f.bl \in Blockers
      BY <1>1, <1>8 DEF Frames
    <3>2. ASSUME NEW g \in ToSet(left)
          PROVE  Rank[g.bl] < Rank[o]
      <4>1. Rank[f.bl] \in Nat /\ Rank[o] \in Nat /\ Rank[g.bl] \in Nat
        BY <1>6, <3>1, Ranks
      <4>2. Rank[g.bl] = Rank[f.bl] \/ Rank[g.bl] < Rank[f.bl]
        BY <1>6
      <4> QED
        BY <3>1, <4>1, <4>2
    <3> QED
      BY <1>4, <3>2
  <2>2. /\ walk' \in Seq(Frames) /\ Uphill(walk') /\ walk' # <<>> /\ Head(walk') = e
        /\ ToSet(walk') = {e} \cup ToSet(left)
    BY <1>4, <1>5, <1>8, <2>1, Pushed
  <2> QED
    BY <1>2, <1>4, <1>5, <1>8, <2>2 DEF w, TurnTo
<1> QED
  BY <1>7, <1>8

(* What the turn changes of what is lent: blt has what f brings. *)
LEMMA TurnLends ==
    ASSUME NEW f, NEW blt, NEW w, NEW d, NEW f2, NEW o \in Blockers, NEW new, NEW e, NEW up,
           TurnFrom(f, blt, w, d), TurnTo(f, blt, w, f2, o, new, e, up),
           walk \in Seq(Frames),
           bl_priority'[f.bl] = f.new, \A x \in Blockers \ {f.bl} : bl_priority'[x] = bl_priority[x],
           NEW x \in Blockers, NEW t \in Threads, t \in Owners(x), NEW p \in Priorities
    PROVE  IF x = f.bl /\ t = blt THEN Lends(x, t, p)' <=> p = f.new
           ELSE Lends(x, t, p)' <=> Lends(x, t, p)
<1>1. /\ f \in Frames /\ f.bl \in Blockers
      /\ \A g \in ToSet(w) : g.bl \in Blockers /\ Rank[g.bl] < Rank[f.bl]
      /\ blocker[blt] \in Blockers => Rank[f.bl] < Rank[blocker[blt]]
      /\ \A b \in Blockers : Rank[b] \in Nat
  BY Ranks DEF TurnFrom, Frames
<1>2. /\ \A g \in ToSet(w) : g.bl # f.bl
      /\ up => o # f.bl /\ \A g \in ToSet(w) : g.bl # o
  <2>1. \A g \in ToSet(w) : g.bl # f.bl
    BY <1>1
  <2>2. ASSUME up
        PROVE  o # f.bl /\ \A g \in ToSet(w) : g.bl # o
    <3>1. Rank[f.bl] < Rank[o]
      BY <1>1, <2>2 DEF TurnTo
    <3>2. ASSUME NEW g \in ToSet(w), g.bl = o
          PROVE  FALSE
      <4>1. Rank[g.bl] < Rank[f.bl] /\ Rank[g.bl] \in Nat /\ Rank[f.bl] \in Nat
        BY <1>1
      <4> QED
        BY <3>1, <3>2, <4>1
    <3> QED
      BY <1>1, <3>1, <3>2
  <2> QED
    BY <2>1, <2>2
<1>3. /\ Lends(x, t, p) <=> \/ \E g \in DueIn(x, t) : g.old = p
                            \/ bl_priority[x] = p /\ DueIn(x, t) = {}
      /\ Lends(x, t, p)' <=> \/ \E g \in DueIn(x, t)' : g.old = p
                             \/ bl_priority'[x] = p /\ DueIn(x, t)' = {}
  BY WalkByFrames, WalkByFramesNext DEF TurnTo
<1>4. \A g : g \in DueIn(x, t) <=> (g = f \/ g \in ToSet(w)) /\ g.bl = x /\ t \in g.todo
  BY DEF DueIn, TurnFrom
<1>5. \A g : g \in DueIn(x, t)' <=> /\ \/ up /\ g = e
                                       \/ f.todo # {blt} /\ g = f2
                                       \/ g \in ToSet(w)
                                    /\ g.bl = x /\ t \in g.todo
  BY DEF DueIn, TurnTo
<1>6. /\ f2.bl = f.bl /\ f2.old = f.old /\ f2.todo = f.todo \ {blt}
      /\ e.bl = o /\ e.todo = Owners(o) /\ e.old = bl_priority[o]
  BY DEF TurnTo
<1>7. CASE x = f.bl /\ t = blt
  <2>1. DueIn(x, t)' = {}
    BY <1>2, <1>5, <1>6, <1>7
  <2> QED
    BY <1>3, <1>7, <2>1
<1>8. CASE x = f.bl /\ t # blt /\ t \in f.todo
  <2>1. DueIn(x, t) = {f}
    BY <1>2, <1>4, <1>8
  <2>2. f.todo # {blt}
    BY <1>8
  <2>3. DueIn(x, t)' = {f2}
    BY <1>2, <1>5, <1>6, <1>8, <2>2
  <2> QED
    BY <1>3, <1>6, <1>8, <2>1, <2>3
<1>9. CASE x = f.bl /\ t # blt /\ t \notin f.todo
  <2>1. DueIn(x, t) = {}
    BY <1>2, <1>4, <1>9
  <2>2. DueIn(x, t)' = {}
    BY <1>2, <1>5, <1>6, <1>9
  <2>3. bl_priority[x] = f.new
    BY <1>9 DEF TurnFrom
  <2> QED
    BY <1>3, <1>9, <2>1, <2>2, <2>3
<1>10. CASE x # f.bl /\ up /\ x = o
  <2>1. DueIn(x, t) = {}
    BY <1>2, <1>4, <1>10
  <2>2. DueIn(x, t)' = {e}
    BY <1>2, <1>5, <1>6, <1>10
  <2> QED
    BY <1>3, <1>6, <1>10, <2>1, <2>2
<1>11. CASE x # f.bl /\ ~(up /\ x = o)
  <2>1. \A g : g \in DueIn(x, t)' <=> g \in DueIn(x, t)
    BY <1>4, <1>5, <1>6, <1>11
  <2>2. DueIn(x, t)' = DueIn(x, t)
    BY <2>1
  <2> QED
    BY <1>3, <1>11, <2>2
<1> QED
  BY <1>7, <1>8, <1>9, <1>10, <1>11

LEMMA TurnExact ==
    ASSUME NEW f, NEW blt, NEW w, NEW d, NEW f2, NEW o \in Blockers, NEW new, NEW e, NEW up,
           TurnFrom(f, blt, w, d), TurnTo(f, blt, w, f2, o, new, e, up),
           \A x \in Blockers : Owners(x)' = Owners(x),
           bl_priority'[f.bl] = f.new, \A x \in Blockers \ {f.bl} : bl_priority'[x] = bl_priority[x]
    PROVE  WalkExact'
<1>1. /\ f \in Frames /\ f.bl \in Blockers /\ f.first \in Blockers /\ Rank[f.first] <= Rank[f.bl]
      /\ \A g \in ToSet(w) : /\ g.bl \in Blockers /\ Rank[g.bl] < Rank[f.bl] /\ bl_priority[g.bl] = g.new
                             /\ g.todo \subseteq Owners(g.bl) /\ Rank[g.first] <= Rank[g.bl]
      /\ blocker[blt] \in Blockers => Rank[f.bl] < Rank[blocker[blt]]
      /\ \A b \in Blockers : Rank[b] \in Nat
      /\ f.todo \subseteq Owners(f.bl)
  BY Ranks DEF TurnFrom, Frames
<1>2. SUFFICES ASSUME NEW g \in ToSet(walk')
               PROVE  FrameExact(g)'
  BY WalkByFramesNext DEF TurnTo, Uphill
<1>3. CASE up /\ g = e
  <2>1. /\ e.bl = o /\ e.todo = Owners(o) /\ e.old = bl_priority[o] /\ e.first = f.first
        /\ Head(walk') = e /\ o = blocker[blt]
    BY <1>3 DEF TurnTo
  <2>2. Rank[f.bl] < Rank[o] /\ Rank[f.bl] \in Nat /\ Rank[o] \in Nat /\ Rank[f.first] \in Nat
    BY <1>1, <2>1
  <2>3. Rank[f.first] <= Rank[o] /\ o # f.bl
    BY <1>1, <2>2
  <2>4. bl_priority'[o] = e.old
    BY <2>1, <2>3
  <2> QED
    BY <1>3, <2>1, <2>3, <2>4 DEF FrameExact
<1>4. CASE g = f2
  <2>1. f2.bl = f.bl /\ f2.new = f.new /\ f2.todo = f.todo \ {blt} /\ f2.first = f.first
    BY DEF TurnTo
  <2> QED
    BY <1>1, <1>4, <2>1 DEF FrameExact
<1>5. CASE g \in ToSet(w)
  <2>1. g.bl # f.bl
    BY <1>1, <1>5
  <2> QED
    BY <1>1, <1>5, <2>1 DEF FrameExact
<1> QED
  BY <1>3, <1>4, <1>5 DEF TurnTo

(* The account of the thread whose turn it is. *)
LEMMA TurnAccount ==
    ASSUME NEW f \in Frames, NEW blt, Account(pdist[blt], base_priority[blt], Book(blt)),
           \A p \in Priorities : f.bl \in Lenders(blt, p) <=> p = f.old,
           \A p \in Priorities : \A x \in Blockers :
               x \in Lenders(blt, p)' <=> IF x = f.bl THEN p = f.new ELSE x \in Lenders(blt, p),
           NEW d \in [Priorities -> Nat],
           \A p \in Priorities : d[p] = pdist[blt][p] + One(p, f.new) - One(p, f.old)
    PROVE  Account(d, base_priority[blt], Book(blt)')
<1> DEFINE S == Book(blt)
           S2 == Book(blt)'
<1>1. PICK o \in Blockers, old \in Levels, new \in Levels : o = f.bl /\ old = f.old /\ new = f.new
  BY DEF Frames
<1>2. /\ S2 \in [Priorities -> SUBSET Blockers] /\ Account(pdist[blt], base_priority[blt], S)
      /\ \A p \in Priorities : o \in S[p] <=> p = old
      /\ \A p \in Priorities : \A x \in Blockers : x \in S2[p] <=> IF x = o THEN p = new ELSE x \in S[p]
      /\ \A p \in Priorities : d[p] = pdist[blt][p] + One(p, new) - One(p, old)
  <2>1. \A p \in Priorities : S[p] = Lenders(blt, p) /\ S2[p] = Lenders(blt, p)'
    BY DEF Book
  <2>2. S2 \in [Priorities -> SUBSET Blockers]
    BY DEF Book, Lenders
  <2> HIDE DEF S, S2
  <2> QED
    BY <1>1, <2>1, <2>2 DEF S
<1> HIDE DEF S, S2
<1>3. Account(d, base_priority[blt], S2)
  BY <1>2, Recounted
<1> QED
  BY <1>3 DEF S2

(* A turn keeps the accounts right, and what is claimed justified if that  *)
(* holds where blt waits.                                                  *)
LEMMA TurnKept ==
    ASSUME PrioritiesInv, WaitInv, NEW f, NEW blt, NEW w, NEW d, NEW f2, NEW o \in Blockers, NEW new, NEW e, NEW up,
           walk # <<>>, f = Head(walk),
           TurnFrom(f, blt, w, d), TurnTo(f, blt, w, f2, o, new, e, up),
           \A x \in Blockers : Owners(x)' = Owners(x),
           wqp' = wqp, blocker' = blocker, base_priority' = base_priority,
           bl_priority' = [bl_priority EXCEPT ![f.bl] = f.new],
           pdist' = [pdist EXCEPT ![blt] = d], pdmask' = [pdmask EXCEPT ![blt] = Entries(d)],
           priority' = [priority EXCEPT ![blt] = Best(Entries(d))],
           up => new = PRIORITY_IDLE \/ \E u \in Threads : wqp[u] = o /\ priority'[u] <= new,
           ~up => \A x \in Blockers : wqp[blt] = x =>
               bl_priority[x] = PRIORITY_IDLE \/ \E u \in Threads : wqp[u] = x /\ priority'[u] <= bl_priority[x]
    PROVE  PrioritiesInv'
<1>1. /\ f \in Frames /\ f.bl \in Blockers /\ f.old \in Levels /\ f.new \in Levels /\ blt \in Threads
      /\ w \in Seq(Frames)
      /\ \A g \in ToSet(w) : g.bl \in Blockers /\ Rank[g.bl] < Rank[f.bl] /\ bl_priority[g.bl] = g.new
      /\ blocker[blt] \in Blockers => Rank[f.bl] < Rank[blocker[blt]]
      /\ \A b \in Blockers : Rank[b] \in Nat
      /\ d \in [Priorities -> Nat]
      /\ \A p \in Priorities : d[p] = pdist[blt][p] + One(p, f.new) - One(p, f.old)
      /\ \A p \in Priorities : f.bl \in Lenders(blt, p) <=> p = f.old
      /\ blt \in Owners(f.bl)
  <2>1. f.todo \subseteq Owners(f.bl) /\ blt \in f.todo
    BY DEF TurnFrom
  <2> QED
    BY <2>1, Ranks DEF TurnFrom, Frames
<1>2. /\ PriorityTypes /\ Ordered /\ Justified /\ walk \in Seq(Frames)
      /\ \A t \in Threads : Account(pdist[t], base_priority[t], Book(t)) /\ Fits(t)
  BY Accounts DEF PrioritiesInv, PriorityTypes, LevelTypes, Frames
<1>3. /\ bl_priority'[f.bl] = f.new /\ \A x \in Blockers \ {f.bl} : bl_priority'[x] = bl_priority[x]
      /\ pdist'[blt] = d /\ pdmask'[blt] = Entries(d) /\ priority'[blt] = Best(Entries(d))
      /\ \A t \in Threads \ {blt} : /\ pdist'[t] = pdist[t] /\ pdmask'[t] = pdmask[t]
                                    /\ priority'[t] = priority[t]
      /\ bl_priority' \in [Blockers -> Levels] /\ pdist' \in [Threads -> [Priorities -> Nat]]
      /\ priority' = [t \in Threads |-> priority'[t]] /\ pdmask' \in [Threads -> SUBSET Priorities]
  <2>1. Entries(d) \in SUBSET Priorities
    BY DEF Entries
  <2> QED
    BY <1>1, <1>2, <2>1 DEF PriorityTypes, LevelTypes
<1>4. WalkExact'
  BY <1>3, TurnExact
<1>5. ASSUME NEW x \in Blockers, NEW t \in Threads, t \in Owners(x), NEW p \in Priorities
      PROVE  IF x = f.bl /\ t = blt THEN Lends(x, t, p)' <=> p = f.new
             ELSE Lends(x, t, p)' <=> Lends(x, t, p)
  BY <1>2, <1>3, <1>5, TurnLends
<1>6. \A t \in Threads, p \in Priorities : Lenders(t, p)' = {x \in Blockers : t \in Owners(x) /\ Lends(x, t, p)'}
  BY DEF Lenders
<1>7. ASSUME NEW t \in Threads
      PROVE  Account(pdist'[t], base_priority'[t], Book(t)') /\ Fits(t)'
  <2>1. CASE t = blt
    <3>1. ASSUME NEW p \in Priorities, NEW x \in Blockers
          PROVE  x \in Lenders(blt, p)' <=> IF x = f.bl THEN p = f.new ELSE x \in Lenders(blt, p)
      BY <1>1, <1>5, <1>6 DEF Lenders
    <3>2. Account(pdist[blt], base_priority[blt], Book(blt))
      BY <1>1, <1>2
    <3>3. Account(d, base_priority[blt], Book(blt)')
      BY <1>1, <3>1, <3>2, TurnAccount
    <3> QED
      BY <1>3, <2>1, <3>3 DEF Fits
  <2>2. CASE t # blt
    <3>1. ASSUME NEW p \in Priorities
          PROVE  Lenders(t, p)' = Lenders(t, p)
      <4>1. \A x \in Blockers : x \in Lenders(t, p)' <=> x \in Lenders(t, p)
        BY <1>5, <1>6, <2>2 DEF Lenders
      <4> QED
        BY <4>1 DEF Lenders
    <3>2. Book(t)' = Book(t)
      BY <3>1 DEF Book
    <3> QED
      BY <1>2, <1>3, <2>2, <3>2 DEF Fits
  <2> QED
    BY <2>1, <2>2
<1>8. PriorityTypes'
  <2>1. \A t \in Threads : priority'[t] \in Priorities
    BY <1>7, InRange DEF Fits
  <2>2. walk' \in Seq(Frames)
    BY DEF TurnTo
  <2>3. priority' \in [Threads -> Priorities] /\ priority' \in [Threads -> Levels]
    BY <1>3, <2>1, LevelsOrder
  <2>4. pdist' \in [Threads -> [Priorities -> Nat]] /\ pdist' \in [Threads -> [Priorities -> Int]]
    BY <1>3
  <2> QED
    BY <1>2, <1>3, <2>2, <2>3, <2>4 DEF PriorityTypes, LevelTypes, Frames
<1>9. Ordered'
  BY <1>2 DEF Ordered
<1>10. \A x \in Blockers : Claim(x) = IF x = f.bl THEN f.new ELSE bl_priority[x]
  BY DEF Claim
<1>11. \A x \in Blockers : Claim(x)' = IF up /\ x = o THEN new ELSE IF x = f.bl THEN f.new ELSE bl_priority[x]
  <2> SUFFICES ASSUME NEW x \in Blockers
               PROVE  Claim(x)' = IF up /\ x = o THEN new ELSE IF x = f.bl THEN f.new ELSE bl_priority[x]
    OBVIOUS
  <2>1. Claim(x)' = IF walk' # <<>> /\ Head(walk').bl = x THEN Head(walk').new ELSE bl_priority'[x]
    BY DEF Claim
  <2>2. CASE up
    <3>1. walk' # <<>> /\ Head(walk') = e /\ e.bl = o /\ e.new = new
      BY <2>2 DEF TurnTo
    <3> QED
      BY <1>3, <2>1, <2>2, <3>1
  <2>3. CASE ~up /\ f.todo # {blt}
    <3>1. walk' # <<>> /\ Head(walk') = f2 /\ f2.bl = f.bl /\ f2.new = f.new
      BY <2>3 DEF TurnTo
    <3> QED
      BY <1>3, <2>1, <2>3, <3>1
  <2>4. CASE ~up /\ f.todo = {blt}
    <3>1. walk' = w
      BY <2>4 DEF TurnTo
    <3>2. ASSUME w # <<>>
          PROVE  Head(w).bl \in Blockers /\ Head(w).bl # f.bl /\ bl_priority[Head(w).bl] = Head(w).new
      <4>1. Head(w) \in ToSet(w)
        BY <1>1, <3>2 DEF ToSet
      <4> QED
        BY <1>1, <4>1
    <3> QED
      BY <1>3, <2>1, <2>4, <3>1, <3>2
  <2> QED
    BY <2>2, <2>3, <2>4
<1>12. Justified'
  <2> SUFFICES ASSUME NEW x \in Blockers
               PROVE  Claim(x)' = PRIORITY_IDLE \/ \E u \in Threads : wqp[u] = x /\ priority'[u] <= Claim(x)'
    BY DEF Justified
  <2>1. CASE up /\ x = o
    BY <1>11, <2>1
  <2>2. CASE ~(up /\ x = o) /\ wqp[blt] # x
    <3>1. Claim(x)' = Claim(x)
      BY <1>10, <1>11, <2>2
    <3>2. \/ Claim(x) = PRIORITY_IDLE
          \/ \E u \in Threads \ {blt} : wqp[u] = x /\ priority[u] <= Claim(x)
      BY <1>2, <2>2 DEF Justified
    <3>3. \A u \in Threads \ {blt} : priority'[u] = priority[u]
      BY <1>3
    <3> QED
      BY <3>1, <3>2, <3>3
  <2>3. CASE ~(up /\ x = o) /\ wqp[blt] = x
    <3>1. blocker[blt] = x /\ x # f.bl
      BY <1>1, <2>3, LinkedAlike
    <3>2. ~up
      BY <2>3, <3>1 DEF TurnTo
    <3>3. Claim(x)' = bl_priority[x]
      BY <1>11, <3>1, <3>2
    <3> QED
      BY <2>3, <3>2, <3>3
  <2> QED
    BY <2>1, <2>2, <2>3
<1> QED
  BY <1>4, <1>7, <1>8, <1>9, <1>12, Accounts DEF PrioritiesInv

Revalued(blt, b) == [priority EXCEPT ![blt] = b]

(* What the next blocker is to have is justified by who waits for it; and  *)
(* so is what it has where the chain stops.                                *)
LEMMA TurnJustifies ==
    ASSUME WaitInv, PrioritiesInv, walk # <<>>, NEW f, f = Head(walk), NEW blt, NEW d,
           TurnFrom(f, blt, Tail(walk), d), NEW b, b = Best(Entries(d)),
           NEW r \in Blockers, r = blocker[blt],
           NEW new, new = NextBlockerPriority(r, blt, b, f.new),
           priority' = Revalued(blt, b)
    PROVE  /\ new \in Levels
           /\ new = PRIORITY_IDLE \/ \E u \in Threads : wqp[u] = r /\ priority'[u] <= new
           /\ b = priority[blt] \/ state[blt] = "running" \/ r = f.first \/ new = bl_priority[r] =>
                bl_priority[r] = PRIORITY_IDLE \/ \E u \in Threads : wqp[u] = r /\ priority'[u] <= bl_priority[r]
<1>1. /\ f \in Frames /\ blt \in Threads /\ Rank[f.first] <= Rank[f.bl] /\ Rank[f.bl] < Rank[r]
      /\ d \in [Priorities -> Nat] /\ (f.new \in Priorities => b <= f.new)
  BY DEF TurnFrom
<1>2. f.bl \in Blockers /\ f.first \in Blockers /\ f.new \in Levels /\ b \in Levels
  BY <1>1, BestOf DEF Frames
<1>3. f.bl # r /\ f.first # r
  <2>1. Rank[f.bl] \in Nat /\ Rank[f.first] \in Nat /\ Rank[r] \in Nat
    BY <1>2, Ranks
  <2> QED
    BY <1>1, <2>1
<1>4. wqp[blt] = r /\ state[blt] # "running" /\ r \in Objects
  BY <1>1, WaitersBlocked, Apart
<1>5. PriorityTypes /\ Justified
  BY DEF PrioritiesInv
<1>6. priority'[blt] = b /\ \A t \in Threads : priority'[t] \in Levels
  BY <1>1, <1>2, <1>5, LevelsOrder DEF PriorityTypes, LevelTypes, Revalued
<1>7. b \in Nat /\ b <= b
  <2>1. b \in Nat
    BY <1>2, LevelsOrder
  <2> QED
    BY <2>1
<1>8. /\ new \in Levels
      /\ new = PRIORITY_IDLE \/ \E u \in Threads : wqp[u] = r /\ priority'[u] <= new
  <2>1. CASE new = b
    BY <1>1, <1>2, <1>4, <1>6, <1>7, <2>1
  <2>2. CASE new = wait_queue_find_priority(queue[r], priority')
    <3>1. queue[r] \in Seq(Threads) /\ ToSet(queue[r]) = {u \in Threads : wqp[u] = r}
      BY <1>4 DEF WaitInv, WaitTypes, QueueExact
    <3>2. new \in Levels /\ (new = PRIORITY_IDLE \/ \E u \in ToSet(queue[r]) : priority'[u] = new)
      BY <1>6, <2>2, <3>1, FoundPriority
    <3>3. new \in Nat
      BY <3>2, LevelsOrder
    <3> QED
      BY <3>1, <3>2, <3>3
  <2>3. CASE new = f.new
    <3>1. CASE f.new \in Priorities
      BY <1>1, <1>2, <1>4, <1>6, <2>3, <3>1
    <3>2. CASE f.new \notin Priorities
      BY <1>2, <2>3, <3>2, LevelsOrder
    <3> QED
      BY <3>1, <3>2
  <2> QED
    BY <2>1, <2>2, <2>3 DEF NextBlockerPriority, Revalued
<1>9. CASE b = priority[blt]
  <2>1. priority' = priority
    BY <1>1, <1>5, <1>9 DEF PriorityTypes, LevelTypes, Revalued
  <2>2. Claim(r) = bl_priority[r]
    BY <1>3 DEF Claim
  <2> QED
    BY <1>5, <1>8, <2>1, <2>2 DEF Justified
<1> QED
  BY <1>3, <1>4, <1>8, <1>9

LEMMA InheritanceLends ==
    ASSUME ObjectsInv, ObjectsInv', PrioritiesInv, inherit_priority
    PROVE  PrioritiesInv'
<1>1. PICK f, blt, d, f2, left :
        /\ walk # <<>> /\ f = Head(walk) /\ blt \in f.todo
        /\ d = Lent(pdist[blt], f.old, f.new)
        /\ f2 = [f EXCEPT !.todo = @ \ {blt}]
        /\ left = IF f.todo = {blt} THEN Tail(walk) ELSE <<f2>> \o Tail(walk)
        /\ bl_priority' = [bl_priority EXCEPT ![f.bl] = f.new]
        /\ pdist' = [pdist EXCEPT ![blt] = d]
        /\ pdmask' = [pdmask EXCEPT ![blt] = LentMask(pdmask[blt], pdist[blt], f.old, f.new)]
        /\ priority' = [priority EXCEPT ![blt] = Best(LentMask(pdmask[blt], pdist[blt], f.old, f.new))]
        /\ walk' = NextFrames(f, blt, Best(LentMask(pdmask[blt], pdist[blt], f.old, f.new))) \o left
        /\ UNCHANGED <<waitVars, ownVars, base_priority>>
  BY DEF inherit_priority
<1>2. TurnFrom(f, blt, Tail(walk), d)
  BY <1>1, TurnBegins
<1>3. /\ WaitInv /\ blt \in Threads /\ f \in Frames /\ f.bl \in Blockers /\ f.new \in Levels
      /\ blocker[blt] \in Blockers \cup {None} /\ None \notin Blockers
      /\ \A x \in Blockers : wqp[blt] = x <=> blocker[blt] = x
  <2>1. WaitInv /\ blt \in Threads /\ f \in Frames /\ None \notin Blockers
    BY <1>2, InvParts, Apart DEF TurnFrom
  <2> QED
    BY <2>1, LinkedAlike DEF Frames, WaitInv, WaitTypes
<1>4. /\ \A x \in Blockers : Owners(x)' = Owners(x)
      /\ wqp' = wqp /\ blocker' = blocker /\ base_priority' = base_priority
  BY <1>1 DEF Owners, ownVars, waitVars
<1>8. walk # <<>> /\ f = Head(walk) /\ blt \in f.todo
  BY <1>1
<1>9. f2 = Narrowed(f, blt) /\ left = Left(f, blt, f2)
  BY <1>1 DEF Narrowed, Left
<1>10. /\ bl_priority' = [bl_priority EXCEPT ![f.bl] = f.new]
       /\ pdist' = [pdist EXCEPT ![blt] = d] /\ pdmask' = [pdmask EXCEPT ![blt] = Entries(d)]
       /\ priority' = [priority EXCEPT ![blt] = Best(Entries(d))]
       /\ walk' = NextFrames(f, blt, Best(Entries(d))) \o left
  <2>1. LentMask(pdmask[blt], pdist[blt], f.old, f.new) = Entries(d)
    BY <1>2 DEF TurnFrom
  <2> QED
    BY <1>1, <2>1
<1>5. ASSUME NEW o \in Blockers, NEW new \in Levels, NEW up \in BOOLEAN, up => o = blocker[blt],
             walk' = (IF up THEN <<Frame(o, new, f.first)>> ELSE <<>>) \o left,
             up => new = PRIORITY_IDLE \/ \E u \in Threads : wqp[u] = o /\ priority'[u] <= new,
             ~up => \A x \in Blockers : wqp[blt] = x =>
                 bl_priority[x] = PRIORITY_IDLE \/ \E u \in Threads : wqp[u] = x /\ priority'[u] <= bl_priority[x]
      PROVE  PrioritiesInv'
  <2>1. PICK e : e = Frame(o, new, f.first)
    OBVIOUS
  <2>2. walk' = (IF up THEN <<e>> ELSE <<>>) \o left
    BY <1>5, <2>1
  <2>3. up => o = blocker[blt]
    BY <1>5
  <2>4. TurnTo(f, blt, Tail(walk), f2, o, new, e, up)
    BY <1>8, <1>9, <2>1, <2>2, <2>3, TurnFrames
  <2>5. /\ up => new = PRIORITY_IDLE \/ \E u \in Threads : wqp[u] = o /\ priority'[u] <= new
        /\ ~up => \A x \in Blockers : wqp[blt] = x =>
             bl_priority[x] = PRIORITY_IDLE \/ \E u \in Threads : wqp[u] = x /\ priority'[u] <= bl_priority[x]
    BY <1>5
  <2>6. WaitInv
    BY <1>3
  <2> QED
    BY <1>2, <1>4, <1>8, <1>10, <2>4, <2>5, <2>6, TurnKept
<1>6. CASE blocker[blt] = None
  <2>1. walk' = <<>> \o left
    BY <1>6, <1>10 DEF NextFrames
  <2> QED
    BY <1>3, <1>5, <1>6, <2>1
<1>7. ASSUME NEW r \in Blockers, r = blocker[blt]
      PROVE  PrioritiesInv'
  <2>1. PICK b, new : b = Best(Entries(d)) /\ new = NextBlockerPriority(r, blt, b, f.new)
    OBVIOUS
  <2>2. /\ new \in Levels
        /\ new = PRIORITY_IDLE \/ \E u \in Threads : wqp[u] = r /\ priority'[u] <= new
        /\ b = priority[blt] \/ state[blt] = "running" \/ r = f.first \/ new = bl_priority[r] =>
             bl_priority[r] = PRIORITY_IDLE \/ \E u \in Threads : wqp[u] = r /\ priority'[u] <= bl_priority[r]
    <3>1. WaitInv /\ priority' = Revalued(blt, b)
      BY <1>3, <1>10, <2>1 DEF Revalued
    <3> QED
      BY <1>2, <1>7, <1>8, <2>1, <3>1, TurnJustifies
  <2>3. CASE b = priority[blt] \/ state[blt] = "running" \/ r = f.first \/ new = bl_priority[r]
    <3>1. walk' = <<>> \o left
      BY <1>7, <1>10, <2>1, <2>3 DEF NextFrames
    <3> QED
      BY <1>3, <1>5, <1>7, <2>2, <2>3, <3>1
  <2>4. CASE ~(b = priority[blt] \/ state[blt] = "running" \/ r = f.first \/ new = bl_priority[r])
    <3>1. walk' = <<Frame(r, new, f.first)>> \o left
      BY <1>3, <1>7, <1>10, <2>1, <2>4 DEF NextFrames
    <3> QED
      BY <1>5, <1>7, <2>2, <3>1
  <2> QED
    BY <2>3, <2>4
<1> QED
  BY <1>3, <1>6, <1>7

-----------------------------------------------------------------------------
LEMMA BeganUnlent == Init => PrioritiesInv
<1> SUFFICES ASSUME Init
             PROVE  PrioritiesInv
  OBVIOUS
<1>1. /\ priority = BasePriority /\ base_priority = BasePriority /\ walk = <<>>
      /\ pdist = [t \in Threads |-> Entry(BasePriority[t])]
      /\ pdmask = [t \in Threads |-> {BasePriority[t]}]
      /\ bl_priority = [o \in Blockers |-> PRIORITY_IDLE] /\ blocker = [t \in Threads |-> None]
      /\ BasePriority \in [Threads -> Priorities] /\ None \notin Blockers
  BY KernelAssumption, Apart DEF Init, ThreadsInit
<1>2. ASSUME NEW p \in Priorities
      PROVE  /\ Entry(p) \in [Priorities -> Nat] /\ Best(Entries(Entry(p))) = p /\ Entries(Entry(p)) = {p}
             /\ \A q \in Priorities : Entry(p)[q] = One(q, p)
  <2>1. Entry(p) \in [Priorities -> Nat] /\ \A q \in Priorities : Entry(p)[q] = IF q = p THEN 1 ELSE 0
    BY DEF Entry
  <2>2. p \in Levels /\ p <= p
    BY LevelsOrder
  <2>3. Best(Entries(Entry(p))) = p
    BY <2>1, <2>2, BestIs
  <2>4. \A q : q \in Entries(Entry(p)) <=> q = p
    BY <2>1 DEF Entries
  <2> QED
    BY <2>1, <2>3, <2>4 DEF One
<1>3. Fresh
  BY <1>1 DEF Fresh
<1>4. ASSUME NEW t \in Threads
      PROVE  Account(pdist[t], base_priority[t], Book(t)) /\ Fits(t)
  <2>1. Plain(t) \in [Priorities -> SUBSET Blockers] /\ \A p \in Priorities : Plain(t)[p] = {}
    <3>1. \A o \in Blockers, p \in Priorities : bl_priority[o] # p
      BY <1>1, LevelsOrder
    <3> QED
      BY <3>1 DEF Plain
  <2>2. \A p \in Priorities : Cardinality(Plain(t)[p]) = 0
    BY <2>1, FS_EmptySet
  <2>3. pdist[t] = Entry(BasePriority[t]) /\ BasePriority[t] \in Priorities
    BY <1>1
  <2>4. \A p \in Priorities : pdist[t][p] = Cardinality(Plain(t)[p]) + One(p, base_priority[t])
    BY <1>1, <1>2, <2>2, <2>3 DEF One
  <2>5. Book(t) = Plain(t)
    BY <1>3, FreshWalk
  <2>6. /\ pdist[t] \in [Priorities -> Nat] /\ base_priority[t] \in Priorities
        /\ Fits(t)
    BY <1>1, <1>2, <2>3 DEF Fits
  <2>7. Account(pdist[t], base_priority[t], Book(t))
    BY <2>1, <2>4, <2>5, <2>6 DEF Account
  <2> QED
    BY <2>6, <2>7
<1>5. PriorityTypes
  <2>1. pdist \in [Threads -> [Priorities -> Nat]] /\ bl_priority \in [Blockers -> Levels]
    BY <1>1, <1>2, LevelsOrder
  <2>2. walk \in Seq([bl : Blockers, todo : SUBSET Threads, old : Levels, new : Levels, first : Blockers])
    BY <1>1
  <2>3. priority \in [Threads -> Levels] /\ pdist \in [Threads -> [Priorities -> Int]]
    <3>1. \A t \in Threads : BasePriority[t] \in Levels
      BY <1>1, LevelsOrder
    <3>2. \A t \in Threads : Entry(BasePriority[t]) \in [Priorities -> Int]
      BY <1>1 DEF Entry
    <3> QED
      BY <1>1, <3>1, <3>2
  <2>4. pdmask \in [Threads -> SUBSET Priorities]
    BY <1>1
  <2> QED
    BY <1>1, <2>1, <2>2, <2>3, <2>4 DEF PriorityTypes, LevelTypes
<1>6. Ordered
  BY <1>1 DEF Ordered
<1>7. WalkExact
  BY <1>3, FreshWalk
<1>8. Justified
  BY <1>1 DEF Justified, Claim
<1> QED
  BY <1>4, <1>5, <1>6, <1>7, <1>8, Accounts DEF PrioritiesInv

LEMMA OtherLends ==
    ASSUME ObjectsInv, ObjectsInv', PrioritiesInv, LocksRaised, OtherStep
    PROVE  PrioritiesInv'
<1>1. CASE Inheritance
  BY <1>1, InheritanceLends DEF Inheritance
<1>2. ASSUME NEW t \in Threads, Return(t) \/ Expire(t)
      PROVE  PrioritiesInv'
  BY <1>2, UncalledQuiet
<1>3. ASSUME NEW t \in Threads, NEW p \in SetTo[t], SetPriority(t, p)
      PROVE  PrioritiesInv'
  <2>1. p \in Priorities /\ thread_set_priority(t, p)
    BY <1>3, KernelAssumption DEF SetPriority
  <2> QED
    BY <2>1, SetPriorityLends
<1>4. ASSUME NEW t \in Threads, NEW m \in Mutexes, mutex_lock(t, m) \/ mutex_unlock(t, m)
      PROVE  PrioritiesInv'
  BY <1>4, MutexLockLends, MutexUnlockLends
<1>5. ASSUME NEW t \in Threads, NEW l \in Mrsws,
             \/ mrsw_read_acquire(t, l) \/ mrsw_read_release(t, l)
             \/ mrsw_write_acquire(t, l) \/ mrsw_write_release(t, l)
      PROVE  PrioritiesInv'
  BY <1>5, ReadAcquireLends, ReadReleaseLends, WriteAcquireLends, WriteReleaseLends
<1>6. ASSUME NEW t \in Threads, NEW q \in Queues, queue_send(t, q) \/ queue_release_sender(t, q)
      PROVE  PrioritiesInv'
  BY <1>6, SendLends, ReleaseSenderLends
<1> QED
  BY <1>1, <1>2, <1>3, <1>4, <1>5, <1>6 DEF OtherStep

LEMMA StillLent ==
    ASSUME PrioritiesInv, UNCHANGED vars
    PROVE  PrioritiesInv'
<1>1. UNCHANGED <<priority, base_priority, pdist, pdmask, bl_priority, walk, owner, mask, blocker, wqp>>
  BY DEF vars, threadVars, waitVars, ownVars, prioVars
<1>2. PriorityTypes' /\ Ordered' /\ Justified'
  BY <1>1 DEF PrioritiesInv, PriorityTypes, LevelTypes, Ordered, Justified, Claim, Owners
<1>3. WalkExact'
  BY <1>1 DEF PrioritiesInv, WalkExact, Owners
<1>4. \A t \in Threads, p \in Priorities : Lenders(t, p)' = Lenders(t, p)
  BY <1>1 DEF Lenders, Lends, Due, Owners
<1>5. Accounted' /\ Effective'
  BY <1>1, <1>4 DEF PrioritiesInv, Accounted, Effective
<1> QED
  BY <1>2, <1>3, <1>5 DEF PrioritiesInv

LEMMA LentKept ==
    ASSUME ObjectsInv, ObjectsInv', PrioritiesInv, LocksRaised, [Next]_vars
    PROVE  PrioritiesInv'
BY OtherLends, SemaphoresQuiet, StillLent DEF Next

(* Priority inheritance keeps its books: whatever locks, queues and        *)
(* priorities the threads use, as long as they take objects in an order    *)
(* and no lock that threads wait for is left at PRIORITY_IDLE, a thread's  *)
(* histogram is its own entry and one for each object that has lent it     *)
(* something, its mask tells which entries there are, its priority is the  *)
(* best of them, and no object claims a better priority than the threads   *)
(* that wait for it justify, also between two turns of inherit_priority    *)
(* and whichever chain of blocked owners it follows (thread.c,             *)
(* priority_inherit_internal to wakeup_thread_release).  The condition on  *)
(* locks is needed: the walk may carry PRIORITY_IDLE to a lock             *)
(* (thread.c:597-601), and wakeup_thread_transfer (thread.c:775, 789) does *)
(* not look for it.                                                        *)
THEOREM PrioritiesKept == Spec /\ []LocksRaised => []PrioritiesInv
<1>1. Init => PrioritiesInv
  BY BeganUnlent
<1>2. ObjectsInv /\ ObjectsInv' /\ PrioritiesInv /\ LocksRaised /\ [Next]_vars => PrioritiesInv'
  BY LentKept
<1> QED
  BY <1>1, <1>2, LocksExact, PTL DEF Spec

-----------------------------------------------------------------------------
(* The types of all this, whether or not a lock is left at PRIORITY_IDLE.  *)

LEMMA BestTyped ==
    ASSUME NEW m \in SUBSET Priorities
    PROVE  Best(m) \in Levels
<1> DEFINE S == m \cup {PRIORITY_IDLE}
<1>1. S \subseteq Levels /\ S \subseteq Nat /\ S # {}
  BY LevelsOrder
<1> HIDE DEF S
<1>2. Min(S) \in S
  BY <1>1, Smallest
<1> QED
  BY <1>1, <1>2 DEF Best, S

LEMMA MaskTyped ==
    ASSUME NEW m \in SUBSET Priorities, NEW d, NEW p \in Levels
    PROVE  /\ mask_add_entry(m, d, p) \in SUBSET Priorities
           /\ mask_subtract_entry(m, d, p) \in SUBSET Priorities
<1>1. MaskByte \subseteq Priorities
  BY ThreadsAssumption DEF MaskByte, Priorities, PRIORITY_IDLE
<1>2. Incremented(m) \in SUBSET Priorities
  BY <1>1 DEF Incremented
<1>3. Decremented(m) \in SUBSET Priorities
  BY <1>1 DEF Decremented
<1> QED
  BY <1>2, <1>3, LevelsOrder DEF mask_add_entry, mask_subtract_entry

(* What a thread may have: whatever its histogram counts. *)
Typed(r) == r.pdist \in [Priorities -> Int] /\ r.pdmask \in SUBSET Priorities /\ r.priority \in Levels

LEMMA RecordsTyped ==
    ASSUME LevelTypes, NEW t \in Threads, NEW q \in Levels
    PROVE  /\ Typed(Kept(t)) /\ Typed(InheritUnchecked(t, q)) /\ Typed(Inherit(t, q))
           /\ Typed(DisinheritUnchecked(t, q)) /\ Typed(Disinherit(t, q))
<1>1. pdist[t] \in [Priorities -> Int] /\ pdmask[t] \in SUBSET Priorities /\ priority[t] \in Levels
  BY DEF LevelTypes
<1>2. /\ prio_add_entry(pdist[t], q) \in [Priorities -> Int]
      /\ prio_subtract_entry(pdist[t], q) \in [Priorities -> Int]
  BY <1>1 DEF prio_add_entry, prio_subtract_entry
<1>3. /\ mask_add_entry(pdmask[t], pdist[t], q) \in SUBSET Priorities
      /\ mask_subtract_entry(pdmask[t], pdist[t], q) \in SUBSET Priorities
  BY <1>1, MaskTyped
<1>4. Typed(Kept(t))
  BY <1>1 DEF Typed, Kept
<1>5. Typed(InheritUnchecked(t, q))
  BY <1>1, <1>2, <1>3 DEF Typed, InheritUnchecked
<1>6. Typed(DisinheritUnchecked(t, q))
  <2>1. Best(mask_subtract_entry(pdmask[t], pdist[t], q)) \in Levels
    BY <1>3, BestTyped
  <2> QED
    BY <1>1, <1>2, <1>3, <2>1 DEF Typed, DisinheritUnchecked
<1> QED
  BY <1>4, <1>5, <1>6 DEF Inherit, Disinherit

LEMMA Retyped ==
    ASSUME LevelTypes, UNCHANGED <<base_priority, walk>>, bl_priority' \in [Blockers -> Levels],
           priority' = [u \in Threads |-> priority'[u]], pdist' = [u \in Threads |-> pdist'[u]],
           pdmask' = [u \in Threads |-> pdmask'[u]],
           \A u \in Threads : \E r : Typed(r) /\ Becomes(u, r)
    PROVE  LevelTypes'
<1>1. \A u \in Threads : /\ priority'[u] \in Levels /\ pdist'[u] \in [Priorities -> Int]
                         /\ pdmask'[u] \in SUBSET Priorities
  BY DEF Typed, Becomes
<1>2. priority' \in [Threads -> Levels]
  BY <1>1
<1>3. pdist' \in [Threads -> [Priorities -> Int]]
  BY <1>1
<1>4. pdmask' \in [Threads -> SUBSET Priorities]
  BY <1>1
<1> QED
  BY <1>2, <1>3, <1>4 DEF LevelTypes

LEMMA WalkTyped ==
    ASSUME LevelTypes, LockTypes, NEW o \in Blockers, NEW new \in Levels, StartWalk(o, new)
    PROVE  walk' \in Seq(Frames)
<1>1. Frame(o, new, o) \in Frames
  BY DEF Frame, Frames, Owners, LevelTypes, LockTypes
<1> QED
  BY <1>1 DEF StartWalk

(* Only inherit_priority's walk may start. *)
LEMMA OnlyWalk ==
    ASSUME LevelTypes, UNCHANGED <<priority, base_priority, pdist, pdmask, bl_priority>>,
           walk' = walk \/ walk' \in Seq(Frames)
    PROVE  LevelTypes'
BY DEF LevelTypes, Frames

LEMMA FoundTyped ==
    ASSUME LevelTypes, NEW q \in Seq(Threads)
    PROVE  wait_queue_find_priority(q, priority) \in Levels
BY FoundPriority DEF LevelTypes

LEMMA BlockTyped ==
    ASSUME LevelTypes, LockTypes, NEW t \in Threads, NEW o, NEW st, block_thread(t, o, st)
    PROVE  LevelTypes'
<1>1. priority[t] \in Levels
  BY DEF LevelTypes
<1>2. walk' = walk \/ walk' \in Seq(Frames)
  BY <1>1, WalkTyped DEF block_thread
<1> QED
  BY <1>2, OnlyWalk DEF block_thread

LEMMA TransferTyped ==
    ASSUME LevelTypes, WaitInv, LockTypes, NEW o \in Blockers, queue[o] # <<>>,
           wakeup_thread_transfer(o)
    PROVE  LevelTypes'
<1> DEFINE h == Head(queue[o])
           blt == owner[o]
           c == TransferPriority(o, h, Tail(queue[o]))
           was == DisinheritUnchecked(blt, bl_priority[o])
           now == IF Len(queue[o]) = 1 THEN Kept(h) ELSE InheritUnchecked(h, c)
<1>1. h \in Threads /\ Tail(queue[o]) \in Seq(Threads) /\ bl_priority[o] \in Levels
  BY FirstWaits, Apart DEF LevelTypes
<1>2. c \in Levels
  BY <1>1, FoundTyped, LevelsOrder DEF TransferPriority
<1>3. /\ UNCHANGED <<base_priority, walk>> /\ bl_priority' = [bl_priority EXCEPT ![o] = c]
      /\ priority' = [priority EXCEPT ![blt] = was.priority, ![h] = now.priority]
      /\ pdist' = [pdist EXCEPT ![blt] = was.pdist, ![h] = now.pdist]
      /\ pdmask' = [pdmask EXCEPT ![blt] = was.pdmask, ![h] = now.pdmask]
  BY DEF wakeup_thread_transfer
<1>4. Typed(now) /\ (blt \in Threads => Typed(was))
  BY <1>1, <1>2, RecordsTyped
<1>5. \A u \in Threads : Typed(Kept(u))
  BY <1>1, RecordsTyped
<1> HIDE DEF h, c, was, now
<1>6. bl_priority' \in [Blockers -> Levels]
  BY <1>2, <1>3 DEF LevelTypes
<1>7. /\ priority' = [u \in Threads |-> priority'[u]] /\ pdist' = [u \in Threads |-> pdist'[u]]
      /\ pdmask' = [u \in Threads |-> pdmask'[u]]
      /\ \A u \in Threads : Becomes(u, IF u = h THEN now ELSE IF u = blt THEN was ELSE Kept(u))
  BY <1>1, <1>3 DEF LevelTypes, Becomes, Kept
<1> QED
  BY <1>3, <1>4, <1>5, <1>6, <1>7, Retyped

LEMMA MultiTransferTyped ==
    ASSUME LevelTypes, WaitInv, LockTypes, NEW l \in Mrsws, queue[l] # <<>>,
           retval[Head(queue[l])] = 1, wakeup_thread_queue_multi_transfer(l)
    PROVE  LevelTypes'
<1> DEFINE ts == FirstReaders(l)
           n == Cardinality(ReaderPlaces(l))
           rest == SubSeq(queue[l], n + 1, Len(queue[l]))
           blt == owner[l]
           c == IF Cardinality(ts) > 1 \/ priority[Head(queue[l])] <= bl_priority[l]
                THEN wait_queue_find_priority(rest, priority) ELSE bl_priority[l]
           was == Disinherit(blt, bl_priority[l])
<1>1. l \in Blockers /\ l \in Objects /\ bl_priority[l] \in Levels
  BY Apart DEF LevelTypes
<1>2. rest \in Seq(Threads)
  <2>1. n \in 1..Len(queue[l])
    BY <1>1, FirstReadersExact
  <2>2. queue[l] \in Seq(Threads)
    BY <1>1 DEF WaitInv, WaitTypes
  <2> QED
    BY <2>1, <2>2
<1>3. c \in Levels
  BY <1>1, <1>2, FoundTyped
<1>4. /\ UNCHANGED <<base_priority, walk>> /\ bl_priority' = [bl_priority EXCEPT ![l] = c]
      /\ priority' = [u \in Threads |-> IF u = blt THEN was.priority
                                        ELSE IF u \in ts THEN Inherit(u, c).priority
                                        ELSE priority[u]]
      /\ pdist' = [u \in Threads |-> IF u = blt THEN was.pdist
                                     ELSE IF u \in ts THEN Inherit(u, c).pdist
                                     ELSE pdist[u]]
      /\ pdmask' = [u \in Threads |-> IF u = blt THEN was.pdmask
                                      ELSE IF u \in ts THEN Inherit(u, c).pdmask
                                      ELSE pdmask[u]]
  BY DEF wakeup_thread_queue_multi_transfer
<1>5. blt \in Threads => Typed(was)
  BY <1>1, RecordsTyped
<1> HIDE DEF c, was, ts
<1>6. \A u \in Threads : Typed(Kept(u)) /\ Typed(Inherit(u, c))
  BY <1>3, RecordsTyped
<1>7. bl_priority' \in [Blockers -> Levels]
  BY <1>3, <1>4 DEF LevelTypes
<1>8. \A u \in Threads : Becomes(u, IF u = blt THEN was ELSE IF u \in ts THEN Inherit(u, c) ELSE Kept(u))
  BY <1>4 DEF Becomes, Kept
<1>9. /\ priority' = [u \in Threads |-> priority'[u]] /\ pdist' = [u \in Threads |-> pdist'[u]]
      /\ pdmask' = [u \in Threads |-> pdmask'[u]]
  BY <1>4
<1> QED
  BY <1>4, <1>5, <1>6, <1>7, <1>8, <1>9, Retyped

LEMMA RelinquishTyped ==
    ASSUME LevelTypes, NEW t \in Threads, NEW l \in Mrsws, mrsw_reader_relinquish(t, l)
    PROVE  LevelTypes'
<1>1. PICK now :
        /\ now = IF queue[l] # <<>> /\ count[l] > 1 THEN Disinherit(t, bl_priority[l]) ELSE Kept(t)
        /\ pdist' = [pdist EXCEPT ![t] = now.pdist] /\ pdmask' = [pdmask EXCEPT ![t] = now.pdmask]
        /\ priority' = [priority EXCEPT ![t] = now.priority]
        /\ UNCHANGED <<base_priority, bl_priority, walk>>
  BY DEF mrsw_reader_relinquish
<1>2. bl_priority[l] \in Levels
  BY Apart DEF LevelTypes
<1>3. Typed(now) /\ \A u \in Threads : Typed(Kept(u))
  BY <1>1, <1>2, RecordsTyped
<1>4. /\ priority' = [u \in Threads |-> priority'[u]] /\ pdist' = [u \in Threads |-> pdist'[u]]
      /\ pdmask' = [u \in Threads |-> pdmask'[u]] /\ bl_priority' \in [Blockers -> Levels]
      /\ \A u \in Threads : Becomes(u, IF u = t THEN now ELSE Kept(u))
  BY <1>1 DEF LevelTypes, Becomes, Kept
<1> QED
  BY <1>1, <1>3, <1>4, Retyped

LEMMA SetPriorityTyped ==
    ASSUME LevelTypes, WaitInv, LockTypes, NEW t \in Threads, NEW p \in Priorities,
           thread_set_priority(t, p)
    PROVE  LevelTypes'
<1> DEFINE b0 == base_priority[t]
           d == prio_move_entry(pdist[t], b0, p)
           m == mask_add_entry(mask_subtract_entry(pdmask[t], pdist[t], b0),
                               prio_subtract_entry(pdist[t], b0), p)
           b == Best(m)
           o == blocker[t]
           f == wait_queue_find_priority(queue[o], [priority EXCEPT ![t] = b])
           new == IF b < bl_priority[o] THEN b
                  ELSE IF priority[t] <= bl_priority[o] THEN f ELSE bl_priority[o]
<1>1. /\ pdist[t] \in [Priorities -> Int] /\ pdmask[t] \in SUBSET Priorities /\ b0 \in Levels /\ p \in Levels
      /\ Priorities \subseteq Levels
  BY LevelsOrder DEF LevelTypes
<1>2. d \in [Priorities -> Int]
  BY <1>1 DEF prio_move_entry, prio_add_entry, prio_subtract_entry
<1>3. m \in SUBSET Priorities
  BY <1>1, MaskTyped
<1>4. b \in Levels
  BY <1>3, BestTyped
<1>5. /\ base_priority' = [base_priority EXCEPT ![t] = p] /\ pdist' = [pdist EXCEPT ![t] = d]
      /\ pdmask' = [pdmask EXCEPT ![t] = m] /\ priority' = [priority EXCEPT ![t] = b]
      /\ bl_priority' = bl_priority
      /\ walk' = walk \/ (o # None /\ StartWalk(o, new))
  BY DEF thread_set_priority
<1> HIDE DEF d, m, b
<1>6. o # None => o \in Blockers /\ o \in Objects
  BY Apart DEF WaitInv, WaitTypes
<1>7. o # None => new \in Levels
  <2> SUFFICES ASSUME o # None
               PROVE  new \in Levels
    OBVIOUS
  <2>1. queue[o] \in Seq(Threads) /\ \A u \in Threads : [priority EXCEPT ![t] = b][u] \in Levels
    BY <1>4, <1>6 DEF WaitInv, WaitTypes, LevelTypes
  <2>2. f \in Levels
    BY <2>1, FoundPriority
  <2> HIDE DEF f
  <2> QED
    BY <1>4, <1>6, <2>2 DEF LevelTypes
<1> HIDE DEF new
<1>8. walk' \in Seq(Frames)
  BY <1>5, <1>6, <1>7, WalkTyped DEF LevelTypes, Frames
<1>9. priority' \in [Threads -> Levels] /\ base_priority' \in [Threads -> Priorities]
  BY <1>4, <1>5 DEF LevelTypes
<1>10. pdist' \in [Threads -> [Priorities -> Int]]
  BY <1>2, <1>5 DEF LevelTypes
<1>11. pdmask' \in [Threads -> SUBSET Priorities]
  BY <1>3, <1>5 DEF LevelTypes
<1> QED
  BY <1>5, <1>8, <1>9, <1>10, <1>11 DEF LevelTypes, Frames

LEMMA InheritanceTyped ==
    ASSUME LevelTypes, WaitInv, LockTypes, inherit_priority
    PROVE  LevelTypes'
<1>1. PICK f, blt :
        /\ walk # <<>> /\ f = Head(walk) /\ blt \in f.todo
        /\ bl_priority' = [bl_priority EXCEPT ![f.bl] = f.new]
        /\ pdist' = [pdist EXCEPT ![blt] = Lent(pdist[blt], f.old, f.new)]
        /\ pdmask' = [pdmask EXCEPT ![blt] = LentMask(pdmask[blt], pdist[blt], f.old, f.new)]
        /\ priority' = [priority EXCEPT ![blt] = Best(LentMask(pdmask[blt], pdist[blt], f.old, f.new))]
        /\ walk' = NextFrames(f, blt, Best(LentMask(pdmask[blt], pdist[blt], f.old, f.new)))
                     \o Left(f, blt, Narrowed(f, blt))
        /\ base_priority' = base_priority
  BY DEF inherit_priority, Left, Narrowed
<1>2. walk \in Seq(Frames) /\ f \in Frames /\ Tail(walk) \in Seq(Frames)
  <2>1. walk \in Seq(Frames)
    BY DEF LevelTypes, Frames
  <2> QED
    BY <1>1, <2>1
<1>3. /\ f.bl \in Blockers /\ f.old \in Levels /\ f.new \in Levels /\ f.first \in Blockers
      /\ f.todo \in SUBSET Threads /\ blt \in Threads
  BY <1>1, <1>2 DEF Frames
<1>4. PICK d, m, b : /\ d = Lent(pdist[blt], f.old, f.new)
                     /\ m = LentMask(pdmask[blt], pdist[blt], f.old, f.new) /\ b = Best(m)
  OBVIOUS
<1>5. pdist[blt] \in [Priorities -> Int] /\ pdmask[blt] \in SUBSET Priorities
  BY <1>3 DEF LevelTypes
<1>6. d \in [Priorities -> Int]
  BY <1>4, <1>5 DEF Lent, prio_add_entry, prio_subtract_entry
<1>7. m \in SUBSET Priorities
  BY <1>3, <1>4, <1>5, MaskTyped DEF LentMask
<1>8. b \in Levels
  BY <1>4, <1>7, BestTyped
<1>9. priority' \in [Threads -> Levels]
  BY <1>1, <1>4, <1>8 DEF LevelTypes
<1>10. pdist' \in [Threads -> [Priorities -> Int]]
  BY <1>1, <1>4, <1>6 DEF LevelTypes
<1>11. pdmask' \in [Threads -> SUBSET Priorities]
  BY <1>1, <1>4, <1>7 DEF LevelTypes
<1>12. bl_priority' \in [Blockers -> Levels]
  BY <1>1, <1>3 DEF LevelTypes
<1>13. Left(f, blt, Narrowed(f, blt)) \in Seq(Frames)
  <2>1. Narrowed(f, blt) \in Frames
    BY <1>2 DEF Frames, Narrowed
  <2> QED
    BY <1>2, <2>1 DEF Left
<1>14. NextFrames(f, blt, b) \in Seq(Frames)
  <2> DEFINE o == blocker[blt]
             new == NextBlockerPriority(o, blt, b, f.new)
  <2>1. o \in Blockers \cup {None} /\ (o # None => o \in Objects)
    BY <1>3, Apart DEF WaitInv, WaitTypes
  <2>2. ASSUME o # None
        PROVE  Frame(o, new, f.first) \in Frames
    <3>1. queue[o] \in Seq(Threads) /\ \A u \in Threads : [priority EXCEPT ![blt] = b][u] \in Levels
      BY <1>8, <2>1, <2>2 DEF WaitInv, WaitTypes, LevelTypes
    <3>2. wait_queue_find_priority(queue[o], [priority EXCEPT ![blt] = b]) \in Levels
      BY <3>1, FoundPriority
    <3>3. new \in Levels
      BY <1>3, <1>8, <3>2 DEF NextBlockerPriority
    <3> HIDE DEF new, o
    <3> QED
      BY <1>3, <2>1, <2>2, <3>3 DEF Frame, Frames, Owners, LevelTypes, LockTypes
  <2> HIDE DEF new
  <2>3. NextFrames(f, blt, b) = <<>> \/ (o # None /\ NextFrames(f, blt, b) = <<Frame(o, new, f.first)>>)
    BY DEF NextFrames, new
  <2>4. <<>> \in Seq(Frames) /\ \A x \in Frames : <<x>> \in Seq(Frames)
    OBVIOUS
  <2> HIDE DEF o
  <2> QED
    BY <2>2, <2>3, <2>4, Zenon
<1>15. walk' \in Seq(Frames)
  BY <1>1, <1>4, <1>13, <1>14
<1> QED
  BY <1>1, <1>9, <1>10, <1>11, <1>12, <1>15 DEF LevelTypes, Frames

LEMMA OtherTyped ==
    ASSUME ObjectsInv, LevelTypes, OtherStep
    PROVE  LevelTypes'
<1>1. WaitInv /\ LockTypes
  BY InvParts
<1>2. ASSUME UNCHANGED prioVars
      PROVE  LevelTypes'
  BY <1>2, OnlyWalk DEF prioVars
<1>3. ASSUME NEW t \in Threads, NEW o, NEW m, Blocks(t, o, m)
      PROVE  LevelTypes'
  BY <1>1, <1>3, BlockTyped DEF Blocks
<1>4. CASE Inheritance
  BY <1>1, <1>4, InheritanceTyped DEF Inheritance
<1>5. ASSUME NEW t \in Threads, Return(t) \/ Expire(t)
      PROVE  LevelTypes'
  BY <1>5, OnlyWalk DEF Return, Expire, check_tmo_expired, threadVars, prioVars
<1>6. ASSUME NEW t \in Threads, NEW p \in SetTo[t], SetPriority(t, p)
      PROVE  LevelTypes'
  <2>1. p \in Priorities /\ thread_set_priority(t, p)
    BY <1>6, KernelAssumption DEF SetPriority
  <2> QED
    BY <1>1, <2>1, SetPriorityTyped
<1>7. ASSUME NEW t \in Threads, NEW m \in Mutexes, mutex_lock(t, m)
      PROVE  LevelTypes'
  BY <1>2, <1>3, <1>7 DEF mutex_lock, threadVars, SetOwner
<1>8. ASSUME NEW t \in Threads, NEW m \in Mutexes, mutex_unlock(t, m)
      PROVE  LevelTypes'
  BY <1>1, <1>2, <1>8, TransferTyped, Apart DEF mutex_unlock, threadVars, SetOwner
<1>9. ASSUME NEW t \in Threads, NEW l \in Mrsws, mrsw_read_acquire(t, l)
      PROVE  LevelTypes'
  BY <1>2, <1>3, <1>9 DEF mrsw_read_acquire, mrsw_reader_claim, threadVars
<1>10. ASSUME NEW t \in Threads, NEW l \in Mrsws, mrsw_read_release(t, l)
       PROVE  LevelTypes'
  BY <1>1, <1>2, <1>10, TransferTyped, RelinquishTyped, Apart DEF mrsw_read_release, threadVars
<1>11. ASSUME NEW t \in Threads, NEW l \in Mrsws, mrsw_write_acquire(t, l)
       PROVE  LevelTypes'
  BY <1>2, <1>3, <1>11 DEF mrsw_write_acquire, threadVars, SetOwner
<1>12. ASSUME NEW t \in Threads, NEW l \in Mrsws, mrsw_write_release(t, l)
       PROVE  LevelTypes'
  BY <1>1, <1>2, <1>12, TransferTyped, MultiTransferTyped, Apart
     DEF mrsw_write_release, threadVars, SetOwner
<1>13. ASSUME NEW t \in Threads, NEW q \in Queues, queue_send(t, q)
       PROVE  LevelTypes'
  BY <1>3, <1>13 DEF queue_send
<1>14. ASSUME NEW t \in Threads, NEW q \in Queues, queue_release_sender(t, q)
       PROVE  LevelTypes'
  <2>1. /\ q \in Blockers /\ UNCHANGED <<priority, base_priority, pdist, pdmask, bl_priority>>
        /\ \/ walk' = walk
           \/ StartWalk(q, wait_queue_find_priority(Without(queue[q], t), priority))
    BY <1>14, Apart DEF queue_release_sender, wakeup_thread_release
  <2>2. q \in Objects /\ queue[q] \in Seq(Threads) /\ t \in ToSet(queue[q]) /\ NoDuplicates(queue[q])
    BY <1>1, <1>14, Apart DEF queue_release_sender, WaitInv, WaitTypes, QueueExact
  <2>3. wait_queue_find_priority(Without(queue[q], t), priority) \in Levels
    BY <2>2, WithoutExact, FoundTyped
  <2> QED
    BY <1>1, <2>1, <2>3, WalkTyped, OnlyWalk
<1> QED
  BY <1>4, <1>5, <1>6, <1>7, <1>8, <1>9, <1>10, <1>11, <1>12, <1>13, <1>14 DEF OtherStep

LEMMA LevelsKept ==
    ASSUME ObjectsInv, LevelTypes, [Next]_vars
    PROVE  LevelTypes'
<1>1. LockTypes
  BY InvParts
<1>2. CASE UNCHANGED vars
  BY <1>2, OnlyWalk DEF vars, threadVars, prioVars
<1>3. ASSUME NEW s \in Semaphores, semaphore_release(s)
      PROVE  LevelTypes'
  BY <1>3, OnlyWalk DEF semaphore_release, wakeup_thread_default, threadVars, prioVars
<1>4. ASSUME NEW t \in Threads, WaitReturn(t) \/ WaitExpired(t)
      PROVE  LevelTypes'
  BY <1>4, OnlyWalk DEF WaitReturn, WaitExpired, threadVars, prioVars
<1>5. ASSUME NEW t \in Threads, NEW s \in Semaphores, NEW timeout, semaphore_wait(t, s, timeout)
      PROVE  LevelTypes'
  BY <1>1, <1>5, OnlyWalk, BlockTyped DEF semaphore_wait, threadVars, prioVars
<1> QED
  BY <1>2, <1>3, <1>4, <1>5, OtherTyped DEF Next, SemaphoreStep

LEMMA LevelsLast == Spec => []LevelTypes
<1>1. Init => LevelTypes
  BY BeganUnlent DEF PrioritiesInv, PriorityTypes
<1>2. ObjectsInv /\ LevelTypes /\ [Next]_vars => LevelTypes'
  BY LevelsKept
<1> QED
  BY <1>1, <1>2, LocksExact, PTL DEF Spec

-----------------------------------------------------------------------------
(* Where no queue has an owner, no lock is left at PRIORITY_IDLE.          *)

(* No turn of the walk gives PRIORITY_IDLE, and a lock that threads wait   *)
(* for has another priority or is about to be given one.                   *)
RaisedInv ==
    /\ \A i \in DOMAIN walk : walk[i].new # PRIORITY_IDLE
    /\ \A o \in Blockers : queue[o] # <<>> =>
         bl_priority[o] # PRIORITY_IDLE \/ \E i \in DOMAIN walk : walk[i].bl = o

LEMMA StillRaised ==
    ASSUME RaisedInv, UNCHANGED <<bl_priority, walk>>,
           \A o \in Blockers : queue'[o] # <<>> => queue[o] # <<>>
    PROVE  RaisedInv'
BY DEF RaisedInv

LEMMA WalkRaises ==
    ASSUME RaisedInv, walk = <<>>, NEW o \in Blockers, NEW new \in Priorities, StartWalk(o, new),
           UNCHANGED bl_priority,
           \A b \in Blockers \ {o} : queue'[b] # <<>> => queue[b] # <<>>
    PROVE  RaisedInv'
<1>1. walk' = <<Frame(o, new, o)>> /\ DOMAIN walk' = {1} /\ walk'[1] = Frame(o, new, o)
  BY DEF StartWalk
<1>2. walk'[1].new # PRIORITY_IDLE /\ walk'[1].bl = o
  BY <1>1, LevelsOrder DEF Frame
<1>3. \A i \in DOMAIN walk' : walk'[i].new # PRIORITY_IDLE
  BY <1>1, <1>2
<1>4. ASSUME NEW b \in Blockers, queue'[b] # <<>>
      PROVE  bl_priority'[b] # PRIORITY_IDLE \/ \E i \in DOMAIN walk' : walk'[i].bl = b
  BY <1>1, <1>2, <1>4 DEF RaisedInv
<1> QED
  BY <1>3, <1>4 DEF RaisedInv

LEMMA BlockRaises ==
    ASSUME PriorityTypes, WaitInv, RaisedInv, walk = <<>>, NEW t \in Threads,
           NEW o \in Objects, NEW st, block_thread(t, o, st)
    PROVE  RaisedInv'
<1>1. /\ queue' = [queue EXCEPT ![o] = Append(@, t)] /\ bl_priority' = bl_priority
      /\ \A b \in Blockers \ {o} : queue'[b] = queue[b]
  BY DEF block_thread, WaitInv, WaitTypes
<1>2. priority[t] \in Priorities
  BY DEF PriorityTypes
<1>3. CASE o \notin Blockers
  BY <1>1, <1>3, StillRaised DEF block_thread
<1>4. CASE o \in Blockers /\ priority[t] < bl_priority[o]
  BY <1>1, <1>2, <1>4, WalkRaises DEF block_thread
<1>5. CASE o \in Blockers /\ ~(priority[t] < bl_priority[o])
  <2>1. bl_priority[o] # PRIORITY_IDLE
    BY <1>2, <1>5, LevelsOrder DEF PriorityTypes, LevelTypes
  <2>2. walk' = walk
    BY <1>5 DEF block_thread
  <2> QED
    BY <1>1, <2>1, <2>2 DEF RaisedInv
<1> QED
  BY <1>3, <1>4, <1>5

LEMMA FoundRaised ==
    ASSUME PriorityTypes, NEW q \in Seq(Threads), q # <<>>
    PROVE  wait_queue_find_priority(q, priority) # PRIORITY_IDLE
<1>1. \A t \in Threads : priority[t] \in Priorities /\ priority[t] \in Levels
  BY LevelsOrder DEF PriorityTypes
<1> QED
  BY <1>1, FoundPriority

LEMMA TransferRaises ==
    ASSUME PriorityTypes, WaitInv, RaisedInv, walk = <<>>, NEW o \in Blockers, queue[o] # <<>>,
           wakeup_thread_transfer(o)
    PROVE  RaisedInv'
<1> DEFINE h == Head(queue[o])
           rest == Tail(queue[o])
           c == TransferPriority(o, h, rest)
<1>1. rest \in Seq(Threads) /\ bl_priority[o] # PRIORITY_IDLE
  BY FirstWaits, Apart DEF RaisedInv
<1>2. rest # <<>> => c # PRIORITY_IDLE
  BY <1>1, FoundRaised DEF TransferPriority
<1>3. /\ queue' = [queue EXCEPT ![o] = rest] /\ bl_priority' = [bl_priority EXCEPT ![o] = c]
      /\ walk' = walk
  BY DEF wakeup_thread_transfer, Unlink
<1>4. o \in DOMAIN queue /\ o \in DOMAIN bl_priority
  BY Apart DEF WaitInv, WaitTypes, PriorityTypes, LevelTypes
<1> HIDE DEF rest, c
<1> QED
  BY <1>2, <1>3, <1>4 DEF RaisedInv

LEMMA MultiTransferRaises ==
    ASSUME PriorityTypes, WaitInv, RaisedInv, walk = <<>>, NEW l \in Mrsws, queue[l] # <<>>,
           retval[Head(queue[l])] = 1, wakeup_thread_queue_multi_transfer(l)
    PROVE  RaisedInv'
<1> DEFINE n == Cardinality(ReaderPlaces(l))
           rest == SubSeq(queue[l], n + 1, Len(queue[l]))
           c == IF Cardinality(FirstReaders(l)) > 1 \/ priority[Head(queue[l])] <= bl_priority[l]
                THEN wait_queue_find_priority(rest, priority) ELSE bl_priority[l]
<1>1. l \in Blockers /\ l \in Objects /\ bl_priority[l] # PRIORITY_IDLE
  BY Apart DEF RaisedInv
<1>2. rest \in Seq(Threads)
  <2>1. n \in 1..Len(queue[l])
    BY <1>1, FirstReadersExact
  <2>2. queue[l] \in Seq(Threads)
    BY <1>1 DEF WaitInv, WaitTypes
  <2> QED
    BY <2>1, <2>2
<1>3. rest # <<>> => c # PRIORITY_IDLE
  BY <1>1, <1>2, FoundRaised
<1>4. /\ queue' = [queue EXCEPT ![l] = rest] /\ bl_priority' = [bl_priority EXCEPT ![l] = c]
      /\ walk' = walk
  BY DEF wakeup_thread_queue_multi_transfer, Unlink
<1>5. l \in DOMAIN queue /\ l \in DOMAIN bl_priority
  BY <1>1 DEF WaitInv, WaitTypes, PriorityTypes, LevelTypes
<1> HIDE DEF rest, c
<1> QED
  BY <1>3, <1>4, <1>5 DEF RaisedInv

(* A thread that waits for a blocker is in its queue. *)
LEMMA WaitsThere ==
    ASSUME WaitInv, NEW t \in Threads, blocker[t] # None
    PROVE  /\ blocker[t] \in Blockers /\ queue[blocker[t]] \in Seq(Threads)
           /\ queue[blocker[t]] # <<>>
<1>1. blocker[t] \in Blockers /\ blocker[t] \in Objects
  BY Apart DEF WaitInv, WaitTypes
<1>2. wqp[t] = blocker[t]
  BY DEF WaitInv, Linked
<1>3. queue[blocker[t]] \in Seq(Threads) /\ t \in ToSet(queue[blocker[t]])
  BY <1>1, <1>2 DEF WaitInv, WaitTypes, QueueExact
<1> QED
  BY <1>1, <1>3 DEF ToSet

LEMMA SetPriorityRaises ==
    ASSUME PriorityTypes, PriorityTypes', WaitInv, RaisedInv, NEW t \in Threads, NEW p,
           thread_set_priority(t, p)
    PROVE  RaisedInv'
<1>1. PICK b, new :
        /\ priority' = [priority EXCEPT ![t] = b] /\ bl_priority' = bl_priority /\ queue' = queue
        /\ walk = <<>>
        /\ new = IF b < bl_priority[blocker[t]] THEN b
                 ELSE IF priority[t] <= bl_priority[blocker[t]]
                      THEN wait_queue_find_priority(queue[blocker[t]], [priority EXCEPT ![t] = b])
                      ELSE bl_priority[blocker[t]]
        /\ \/ walk' = walk
           \/ /\ blocker[t] # None /\ new # bl_priority[blocker[t]]
              /\ StartWalk(blocker[t], new)
  BY DEF thread_set_priority, waitVars
<1>2. CASE walk' = walk
  BY <1>1, <1>2, StillRaised
<1>3. CASE walk' # walk
  <2>1. blocker[t] # None /\ new # bl_priority[blocker[t]] /\ StartWalk(blocker[t], new)
    BY <1>1, <1>3
  <2>2. \A u \in Threads : priority'[u] \in Priorities /\ priority'[u] \in Levels
    BY LevelsOrder DEF PriorityTypes
  <2>3. b \in Priorities
    BY <1>1, <2>2 DEF PriorityTypes
  <2>4. /\ wait_queue_find_priority(queue[blocker[t]], priority') \in Levels
        /\ wait_queue_find_priority(queue[blocker[t]], priority') # PRIORITY_IDLE
    BY <2>1, <2>2, WaitsThere, FoundPriority
  <2>5. new \in Priorities
    BY <1>1, <2>1, <2>3, <2>4, LevelsOrder
  <2> QED
    BY <1>1, <2>1, <2>5, WaitsThere, WalkRaises
<1> QED
  BY <1>2, <1>3

LEMMA InheritanceRaises ==
    ASSUME PriorityTypes, PriorityTypes', WaitInv, RaisedInv, inherit_priority
    PROVE  RaisedInv'
<1>1. PICK f, blt, b, left :
        /\ walk # <<>> /\ f = Head(walk) /\ blt \in f.todo
        /\ bl_priority' = [bl_priority EXCEPT ![f.bl] = f.new]
        /\ priority' = [priority EXCEPT ![blt] = b]
        /\ left = IF f.todo = {blt} THEN Tail(walk)
                  ELSE <<[f EXCEPT !.todo = @ \ {blt}]>> \o Tail(walk)
        /\ walk' = NextFrames(f, blt, b) \o left
        /\ queue' = queue
  BY DEF inherit_priority, waitVars
<1>2. walk \in Seq(Frames) /\ f \in Frames /\ f = walk[1] /\ Tail(walk) \in Seq(Frames)
  <2>1. walk \in Seq(Frames)
    BY DEF PriorityTypes, LevelTypes, Frames
  <2> QED
    BY <1>1, <2>1
<1>3. blt \in Threads /\ f.bl \in Blockers /\ f.new \in Priorities
  <2>1. 1 \in DOMAIN walk
    BY <1>1, <1>2
  <2>2. f.new # PRIORITY_IDLE
    BY <1>2, <2>1 DEF RaisedInv
  <2>3. f.bl \in Blockers /\ f.todo \subseteq Threads /\ f.new \in Levels
    BY <1>2 DEF Frames
  <2> QED
    BY <1>1, <2>2, <2>3, LevelsOrder
<1>4. \A u \in Threads : priority'[u] \in Priorities /\ priority'[u] \in Levels
  BY LevelsOrder DEF PriorityTypes
<1>5. b \in Priorities
  BY <1>1, <1>3, <1>4 DEF PriorityTypes
<1> DEFINE g == [f EXCEPT !.todo = @ \ {blt}]
<1>6. g \in Frames /\ g.new = f.new /\ g.bl = f.bl
  BY <1>2 DEF Frames
<1>7. /\ left \in Seq(Frames)
      /\ \A i \in DOMAIN left : left[i].new # PRIORITY_IDLE
      /\ \A i \in DOMAIN walk : i > 1 => \E j \in DOMAIN left : left[j].bl = walk[i].bl
  <2>1. \A i \in DOMAIN Tail(walk) : i + 1 \in DOMAIN walk /\ Tail(walk)[i] = walk[i + 1]
    BY <1>1, <1>2
  <2>2. \A i \in DOMAIN Tail(walk) : Tail(walk)[i].new # PRIORITY_IDLE
    BY <2>1 DEF RaisedInv
  <2>3. \A i \in DOMAIN walk : i > 1 => i - 1 \in DOMAIN Tail(walk) /\ Tail(walk)[i - 1] = walk[i]
    BY <1>1, <1>2
  <2>4. CASE left = Tail(walk)
    BY <1>2, <2>2, <2>3, <2>4
  <2>5. CASE left = <<g>> \o Tail(walk)
    <3> HIDE DEF g
    <3>1. /\ left \in Seq(Frames) /\ left[1] = g /\ 1 \in DOMAIN left
          /\ \A i \in DOMAIN left : i = 1 \/ (i - 1 \in DOMAIN Tail(walk) /\ left[i] = Tail(walk)[i - 1])
          /\ \A i \in DOMAIN Tail(walk) : i + 1 \in DOMAIN left /\ left[i + 1] = Tail(walk)[i]
      BY <1>2, <1>6, <2>5
    <3>2. \A i \in DOMAIN left : left[i].new # PRIORITY_IDLE
      BY <1>3, <1>6, <2>2, <3>1, LevelsOrder
    <3>3. \A i \in DOMAIN walk : i > 1 => \E j \in DOMAIN left : left[j].bl = walk[i].bl
      BY <2>3, <3>1
    <3> QED
      BY <3>1, <3>2, <3>3
  <2> QED
    BY <1>1, <2>4, <2>5
<1>8. PICK new : new = NextBlockerPriority(blocker[blt], blt, b, f.new)
  OBVIOUS
<1>9. \/ walk' = left
      \/ blocker[blt] # None /\ walk' = <<Frame(blocker[blt], new, f.first)>> \o left
  <2>1. NextFrames(f, blt, b) = <<>> \/
        (blocker[blt] # None /\ NextFrames(f, blt, b) = <<Frame(blocker[blt], new, f.first)>>)
    BY <1>8 DEF NextFrames
  <2>2. <<>> \o left = left
    BY <1>7
  <2> QED
    BY <1>1, <2>1, <2>2
<1>10. blocker[blt] # None => new \in Priorities
  <2> SUFFICES ASSUME blocker[blt] # None
               PROVE  new \in Priorities
    OBVIOUS
  <2>1. /\ wait_queue_find_priority(queue[blocker[blt]], priority') \in Levels
        /\ wait_queue_find_priority(queue[blocker[blt]], priority') # PRIORITY_IDLE
    BY <1>3, <1>4, WaitsThere, FoundPriority
  <2> QED
    BY <1>1, <1>3, <1>5, <1>8, <2>1, LevelsOrder DEF NextBlockerPriority
<1>11. /\ \A i \in DOMAIN walk' : walk'[i].new # PRIORITY_IDLE
       /\ \A j \in DOMAIN left : \E i \in DOMAIN walk' : walk'[i] = left[j]
  <2>1. CASE walk' = left
    BY <1>7, <2>1
  <2>2. CASE blocker[blt] # None /\ walk' = <<Frame(blocker[blt], new, f.first)>> \o left
    <3>1. PICK x : x = Frame(blocker[blt], new, f.first)
      OBVIOUS
    <3>2. x.new # PRIORITY_IDLE
      BY <1>10, <2>2, <3>1, LevelsOrder DEF Frame
    <3>3. /\ \A i \in DOMAIN walk' : \/ walk'[i] = x
                                     \/ i - 1 \in DOMAIN left /\ walk'[i] = left[i - 1]
          /\ \A j \in DOMAIN left : j + 1 \in DOMAIN walk' /\ walk'[j + 1] = left[j]
      BY <1>7, <2>2, <3>1
    <3> QED
      BY <1>7, <3>2, <3>3
  <2> QED
    BY <1>9, <2>1, <2>2
<1>12. ASSUME NEW o \in Blockers, queue'[o] # <<>>
       PROVE  bl_priority'[o] # PRIORITY_IDLE \/ \E i \in DOMAIN walk' : walk'[i].bl = o
  <2>1. CASE o = f.bl
    BY <1>1, <1>3, <2>1, LevelsOrder DEF PriorityTypes, LevelTypes
  <2>2. CASE o # f.bl
    <3>1. bl_priority'[o] = bl_priority[o] /\ queue[o] # <<>>
      BY <1>1, <1>12, <2>2
    <3>2. CASE \E i \in DOMAIN walk : walk[i].bl = o
      <4>1. PICK i \in DOMAIN walk : walk[i].bl = o
        BY <3>2
      <4>2. i \in Nat /\ i > 1
        BY <1>2, <2>2, <4>1
      <4> QED
        BY <1>7, <1>11, <4>1, <4>2
    <3> QED
      BY <3>1, <3>2 DEF RaisedInv
  <2> QED
    BY <2>1, <2>2
<1> QED
  BY <1>11, <1>12 DEF RaisedInv

LEMMA OtherRaises ==
    ASSUME Queues = {}, ObjectsInv, PrioritiesInv, PrioritiesInv', RaisedInv, OtherStep
    PROVE  RaisedInv'
<1>1. WaitInv /\ LockTypes /\ PriorityTypes /\ PriorityTypes'
  BY InvParts DEF PrioritiesInv
<1>2. ASSUME UNCHANGED <<queue, bl_priority, walk>>
      PROVE  RaisedInv'
  BY <1>2, StillRaised
<1>3. ASSUME NEW t \in Threads, NEW o \in Objects, NEW m, walk = <<>>, Blocks(t, o, m)
      PROVE  RaisedInv'
  BY <1>1, <1>3, BlockRaises DEF Blocks
<1>4. CASE Inheritance
  BY <1>1, <1>4, InheritanceRaises DEF Inheritance
<1>5. ASSUME NEW t \in Threads, Return(t) \/ Expire(t)
      PROVE  RaisedInv'
  BY <1>2, <1>5 DEF Return, Expire, check_tmo_expired, threadVars, waitVars, prioVars
<1>6. ASSUME NEW t \in Threads, NEW p \in SetTo[t], SetPriority(t, p)
      PROVE  RaisedInv'
  BY <1>1, <1>6, SetPriorityRaises DEF SetPriority
<1>7. ASSUME NEW t \in Threads, NEW m \in Mutexes, mutex_lock(t, m)
      PROVE  RaisedInv'
  <2>1. m \in Objects /\ walk = <<>>
    BY <1>7, Apart DEF mutex_lock, CanCall, Runs
  <2> QED
    BY <1>2, <1>3, <1>7, <2>1 DEF mutex_lock, threadVars, waitVars, prioVars, SetOwner
<1>8. ASSUME NEW t \in Threads, NEW m \in Mutexes, mutex_unlock(t, m)
      PROVE  RaisedInv'
  <2>1. m \in Blockers /\ walk = <<>>
    BY <1>8, Apart DEF mutex_unlock, CanCall, Runs
  <2> QED
    BY <1>1, <1>2, <1>8, <2>1, TransferRaises
       DEF mutex_unlock, threadVars, waitVars, prioVars, SetOwner
<1>9. ASSUME NEW t \in Threads, NEW l \in Mrsws, mrsw_read_acquire(t, l)
      PROVE  RaisedInv'
  <2>1. l \in Objects /\ walk = <<>>
    BY <1>9, Apart DEF mrsw_read_acquire, CanCall, Runs
  <2> QED
    BY <1>2, <1>3, <1>9, <2>1
       DEF mrsw_read_acquire, mrsw_reader_claim, threadVars, waitVars, prioVars
<1>10. ASSUME NEW t \in Threads, NEW l \in Mrsws, mrsw_read_release(t, l)
       PROVE  RaisedInv'
  <2>1. l \in Blockers /\ walk = <<>>
    BY <1>10, Apart DEF mrsw_read_release, CanCall, Runs
  <2> QED
    BY <1>1, <1>2, <1>10, <2>1, TransferRaises
       DEF mrsw_read_release, mrsw_reader_relinquish, threadVars, waitVars, prioVars
<1>11. ASSUME NEW t \in Threads, NEW l \in Mrsws, mrsw_write_acquire(t, l)
       PROVE  RaisedInv'
  <2>1. l \in Objects /\ walk = <<>>
    BY <1>11, Apart DEF mrsw_write_acquire, CanCall, Runs
  <2> QED
    BY <1>2, <1>3, <1>11, <2>1
       DEF mrsw_write_acquire, threadVars, waitVars, prioVars, SetOwner
<1>12. ASSUME NEW t \in Threads, NEW l \in Mrsws, mrsw_write_release(t, l)
       PROVE  RaisedInv'
  <2>1. l \in Blockers /\ walk = <<>>
    BY <1>12, Apart DEF mrsw_write_release, CanCall, Runs
  <2> QED
    BY <1>1, <1>2, <1>12, <2>1, TransferRaises, MultiTransferRaises
       DEF mrsw_write_release, threadVars, waitVars, prioVars, SetOwner
<1> QED
  BY <1>4, <1>5, <1>6, <1>7, <1>8, <1>9, <1>10, <1>11, <1>12 DEF OtherStep

LEMMA SemaphoresRaise ==
    ASSUME ObjectsInv, PrioritiesInv, RaisedInv, SemaphoreStep
    PROVE  RaisedInv'
<1>1. WaitInv /\ PriorityTypes /\ \A s \in Semaphores : s \in Objects /\ s \notin Blockers
  BY InvParts, Apart DEF PrioritiesInv
<1>2. ASSUME NEW s \in Semaphores, UNCHANGED <<bl_priority, walk>>,
             queue' = queue \/ \E q : queue' = [queue EXCEPT ![s] = q]
      PROVE  RaisedInv'
  <2>1. \A o \in Blockers : o # s
    BY <1>1
  <2>2. \A o \in Blockers : o \in DOMAIN queue
    BY <1>1, Apart DEF WaitInv, WaitTypes
  <2>3. \A o \in Blockers : queue'[o] = queue[o]
    BY <1>2, <2>1, <2>2
  <2> QED
    BY <1>2, <2>3, StillRaised
<1>3. ASSUME NEW s \in Semaphores, semaphore_release(s)
      PROVE  RaisedInv'
  BY <1>2, <1>3 DEF semaphore_release, wakeup_thread_default, Unlink, threadVars, waitVars, prioVars
<1>4. ASSUME NEW t \in Threads, WaitReturn(t)
      PROVE  RaisedInv'
  BY <1>4, StillRaised DEF WaitReturn, threadVars, waitVars, prioVars
<1>5. ASSUME NEW t \in Threads, WaitExpired(t)
      PROVE  RaisedInv'
  <2>1. call[t].obj \in Semaphores
    BY <1>1, <1>5, WaitedTypes DEF WaitExpired, WaitInv, Linked
  <2> QED
    BY <1>2, <1>5, <2>1 DEF WaitExpired, prioVars
<1>6. ASSUME NEW t \in Threads, NEW s \in Semaphores, NEW timeout, semaphore_wait(t, s, timeout)
      PROVE  RaisedInv'
  <2>1. s \in Objects /\ walk = <<>>
    BY <1>1, <1>6 DEF semaphore_wait, CanCall, Runs
  <2> QED
    BY <1>1, <1>6, <2>1, BlockRaises, StillRaised
       DEF semaphore_wait, threadVars, waitVars, prioVars
<1> QED
  BY <1>3, <1>4, <1>5, <1>6 DEF SemaphoreStep

(* Among threads that share mutexes, reader-writer locks and semaphores,   *)
(* and no queue whose owner replies, all of the above holds without a      *)
(* condition: a lock that threads wait for always has the priority of one  *)
(* of them, so that an unlock never counts PRIORITY_IDLE (thread.c:775,    *)
(* 789).  It takes a sender that leaves a boosted owner of a queue to      *)
(* bring PRIORITY_IDLE into the walk (wakeup_thread_release, thread.c:829).*)
THEOREM LocksStayRaised ==
    ASSUME Queues = {}
    PROVE  Spec => [](LocksRaised /\ PrioritiesInv)
<1>1. Init => RaisedInv /\ PrioritiesInv
  <2>1. Init => RaisedInv
    BY DEF Init, ThreadsInit, RaisedInv, Objects
  <2> QED
    BY <2>1, BeganUnlent
<1>2. PrioritiesInv /\ RaisedInv => LocksRaised
  BY DEF RaisedInv, LocksRaised, Blockers
<1>3. ObjectsInv /\ ObjectsInv' /\ RaisedInv /\ PrioritiesInv /\ [Next]_vars
        => (RaisedInv /\ PrioritiesInv)'
  <2> SUFFICES ASSUME ObjectsInv, ObjectsInv', RaisedInv, PrioritiesInv, [Next]_vars
               PROVE  RaisedInv' /\ PrioritiesInv'
    OBVIOUS
  <2>1. PrioritiesInv'
    BY <1>2, LentKept
  <2>2. CASE UNCHANGED vars
    <3>1. UNCHANGED <<queue, bl_priority, walk>>
      BY <2>2 DEF vars, threadVars, waitVars, prioVars
    <3> QED
      BY <2>1, <3>1, StillRaised
  <2> QED
    BY <2>1, <2>2, OtherRaises, SemaphoresRaise DEF Next
<1> QED
  BY <1>1, <1>2, <1>3, LocksExact, PTL DEF Spec

-----------------------------------------------------------------------------
(* The run queue.  A thread has a place in its distribution while it runs. *)

Place(t) == IF state[t] = "running" THEN priority[t] ELSE PRIORITY_IDLE

Places == [t \in Threads |-> Place(t)]

Counts(d, f) ==
    /\ d \in [Priorities -> Nat] /\ f \in [Threads -> Levels]
    /\ \A p \in Priorities : d[p] = Cardinality({t \in Threads : f[t] = p})

RunQueueInv == Counts(rtr_dist, Places)

LEMMA Replaced ==
    ASSUME NEW d, NEW f, Counts(d, f), NEW t \in Threads, NEW new \in Levels,
           NEW f2 \in [Threads -> Levels], f2[t] = new, \A u \in Threads \ {t} : f2[u] = f[u],
           NEW p \in Priorities
    PROVE  /\ Cardinality({u \in Threads : f2[u] = p}) \in Nat /\ d[p] \in Nat
           /\ Cardinality({u \in Threads : f2[u] = p}) = d[p] + One(p, new) - One(p, f[t])
           /\ p = f[t] => d[p] > 0
<1> DEFINE A == {u \in Threads : f[u] = p}
           B == {u \in Threads : f2[u] = p}
<1>1. /\ A \subseteq Threads /\ B \subseteq Threads /\ (t \in A <=> p = f[t]) /\ (t \in B <=> p = new)
      /\ \A u \in Threads \ {t} : u \in A <=> u \in B
      /\ d[p] = Cardinality(A)
  BY DEF Counts
<1> HIDE DEF A, B
<1>2. /\ IsFiniteSet(A) /\ IsFiniteSet(B) /\ Cardinality(A) \in Nat /\ Cardinality(B) \in Nat
  BY <1>1, ThreadsAssumption, FS_Subset, FS_CardinalityType
<1>3. /\ t \in A => Cardinality(A \ {t}) = Cardinality(A) - 1 /\ Cardinality(A) # 0
      /\ t \notin A => Cardinality(A \cup {t}) = Cardinality(A) + 1
  BY <1>2, FS_RemoveElement, FS_AddElement, FS_EmptySet
<1>4. Cardinality(B) = Cardinality(A) + One(p, new) - One(p, f[t])
  <2>1. CASE t \in A /\ t \in B
    <3>1. A = B
      BY <1>1, <2>1
    <3> QED
      BY <1>1, <1>2, <2>1, <3>1 DEF One
  <2>2. CASE t \in A /\ t \notin B
    <3>1. B = A \ {t}
      BY <1>1, <2>2
    <3> QED
      BY <1>1, <1>2, <1>3, <2>2, <3>1 DEF One
  <2>3. CASE t \notin A /\ t \in B
    <3>1. B = A \cup {t}
      BY <1>1, <2>3
    <3> QED
      BY <1>1, <1>2, <1>3, <2>3, <3>1 DEF One
  <2>4. CASE t \notin A /\ t \notin B
    <3>1. A = B
      BY <1>1, <2>4
    <3> QED
      BY <1>1, <1>2, <2>4, <3>1 DEF One
  <2> QED
    BY <2>1, <2>2, <2>3, <2>4
<1>5. p = f[t] => Cardinality(A) > 0
  BY <1>1, <1>2, <1>3
<1> QED
  BY <1>1, <1>2, <1>4, <1>5 DEF B

(* One thread joins the run queue, leaves it, or moves in it. *)
LEMMA Joins ==
    ASSUME NEW d, NEW f, Counts(d, f), NEW t \in Threads, f[t] = PRIORITY_IDLE, NEW new \in Levels,
           NEW f2 \in [Threads -> Levels], f2[t] = new, \A u \in Threads \ {t} : f2[u] = f[u]
    PROVE  Counts(prio_add_entry(d, new), f2)
<1>1. d \in [Priorities -> Nat] /\ new \in Levels
  BY LevelsOrder DEF Counts
<1>2. /\ prio_add_entry(d, new) \in [Priorities -> Nat]
      /\ \A p \in Priorities : prio_add_entry(d, new)[p] = d[p] + One(p, new)
  BY <1>1, EntryAdded
<1>3. ASSUME NEW p \in Priorities
      PROVE  prio_add_entry(d, new)[p] = Cardinality({u \in Threads : f2[u] = p})
  <2>1. Cardinality({u \in Threads : f2[u] = p}) = d[p] + One(p, new) - One(p, f[t])
    BY <1>1, Replaced
  <2>2. One(p, f[t]) = 0 /\ One(p, new) \in Int /\ d[p] \in Int
    BY <1>1, LevelsOrder DEF One
  <2>3. prio_add_entry(d, new)[p] = d[p] + One(p, new)
    BY <1>2
  <2> QED
    BY <2>1, <2>2, <2>3
<1> QED
  BY <1>2, <1>3 DEF Counts

LEMMA Leaves ==
    ASSUME NEW d, NEW f, Counts(d, f), NEW t \in Threads, NEW old \in Levels, f[t] = old,
           NEW f2 \in [Threads -> Levels], f2[t] = PRIORITY_IDLE, \A u \in Threads \ {t} : f2[u] = f[u]
    PROVE  Counts(prio_subtract_entry(d, old), f2)
<1>1. d \in [Priorities -> Nat] /\ PRIORITY_IDLE \in Levels
  BY LevelsOrder DEF Counts
<1>2. old \in Priorities => d[old] > 0
  BY <1>1, Replaced
<1>3. /\ prio_subtract_entry(d, old) \in [Priorities -> Nat]
      /\ \A p \in Priorities : prio_subtract_entry(d, old)[p] = d[p] - One(p, old)
  BY <1>1, <1>2, EntrySubtracted
<1>4. ASSUME NEW p \in Priorities
      PROVE  prio_subtract_entry(d, old)[p] = Cardinality({u \in Threads : f2[u] = p})
  <2>1. Cardinality({u \in Threads : f2[u] = p}) = d[p] + One(p, PRIORITY_IDLE) - One(p, f[t])
    BY <1>1, Replaced
  <2>2. One(p, PRIORITY_IDLE) = 0 /\ One(p, old) \in Int /\ d[p] \in Int
    BY <1>1, LevelsOrder DEF One
  <2>3. prio_subtract_entry(d, old)[p] = d[p] - One(p, old)
    BY <1>3
  <2> QED
    BY <2>1, <2>2, <2>3
<1> QED
  BY <1>3, <1>4 DEF Counts

LEMMA Moves ==
    ASSUME NEW d, NEW f, Counts(d, f), NEW t \in Threads, NEW old \in Levels, f[t] = old,
           NEW new \in Levels,
           NEW f2 \in [Threads -> Levels], f2[t] = new, \A u \in Threads \ {t} : f2[u] = f[u]
    PROVE  Counts(prio_move_entry(d, old, new), f2)
<1>1. d \in [Priorities -> Nat] /\ new \in Levels
  BY LevelsOrder DEF Counts
<1>2. old \in Priorities => d[old] > 0
  BY <1>1, Replaced
<1>3. /\ prio_move_entry(d, old, new) \in [Priorities -> Nat]
      /\ \A p \in Priorities : prio_move_entry(d, old, new)[p] = d[p] - One(p, old) + One(p, new)
  BY <1>1, <1>2, EntryMoved
<1>4. ASSUME NEW p \in Priorities
      PROVE  prio_move_entry(d, old, new)[p] = Cardinality({u \in Threads : f2[u] = p})
  <2>1. Cardinality({u \in Threads : f2[u] = p}) = d[p] + One(p, new) - One(p, f[t])
    BY <1>1, Replaced
  <2>2. One(p, new) \in Int /\ One(p, old) \in Int /\ d[p] \in Int
    BY <1>1 DEF One
  <2>3. prio_move_entry(d, old, new)[p] = d[p] - One(p, old) + One(p, new)
    BY <1>3
  <2> QED
    BY <2>1, <2>2, <2>3
<1> QED
  BY <1>3, <1>4 DEF Counts

(* Several threads join it at once. *)
LEMMA AllJoin ==
    ASSUME NEW d, NEW f, Counts(d, f), NEW ts \in SUBSET Threads, \A t \in ts : f[t] = PRIORITY_IDLE,
           NEW f2 \in [Threads -> Levels], \A t \in Threads \ ts : f2[t] = f[t],
           NEW d2, d2 = [p \in Priorities |-> d[p] + Cardinality({t \in ts : f2[t] = p})]
    PROVE  Counts(d2, f2)
<1>1. ASSUME NEW p \in Priorities
      PROVE  /\ d[p] + Cardinality({t \in ts : f2[t] = p}) \in Nat
             /\ d[p] + Cardinality({t \in ts : f2[t] = p}) = Cardinality({t \in Threads : f2[t] = p})
  <2> DEFINE A == {t \in Threads : f[t] = p}
             J == {t \in ts : f2[t] = p}
             B == {t \in Threads : f2[t] = p}
  <2>1. A \cap J = {} /\ B = A \cup J /\ A \subseteq Threads /\ J \subseteq Threads
    BY LevelsOrder
  <2>2. d[p] = Cardinality(A)
    BY DEF Counts
  <2> HIDE DEF A, J, B
  <2>3. /\ IsFiniteSet(A) /\ IsFiniteSet(J) /\ Cardinality(A) \in Nat /\ Cardinality(J) \in Nat
    BY <2>1, ThreadsAssumption, FS_Subset, FS_CardinalityType
  <2>4. Cardinality(A \cup J) = Cardinality(A) + Cardinality(J) - Cardinality(A \cap J)
    BY <2>3, FS_Union
  <2>5. Cardinality(A \cap J) = 0
    BY <2>1, FS_EmptySet
  <2>6. Cardinality(B) = Cardinality(A) + Cardinality(J) /\ Cardinality(A) + Cardinality(J) \in Nat
    BY <2>1, <2>3, <2>4, <2>5
  <2> QED
    BY <2>2, <2>6 DEF J, B
<1> QED
  BY <1>1 DEF Counts

LEMMA Seated ==
    /\ LevelTypes => /\ Places \in [Threads -> Levels]
                        /\ \A t \in Threads : /\ Places[t] = Place(t)
                                              /\ priority[t] \in Levels
    /\ LevelTypes' => /\ Places' \in [Threads -> Levels]
                         /\ \A t \in Threads : /\ Places'[t] = Place(t)'
                                               /\ priority'[t] \in Levels
<1>1. LevelTypes => /\ Places \in [Threads -> Levels]
                       /\ \A t \in Threads : /\ Places[t] = Place(t)
                                             /\ priority[t] \in Levels
  BY LevelsOrder DEF LevelTypes, Places, Place
<1>2. (LevelTypes => /\ Places \in [Threads -> Levels]
                        /\ \A t \in Threads : /\ Places[t] = Place(t)
                                              /\ priority[t] \in Levels)'
  BY <1>1, PTL
<1> QED
  BY <1>1, <1>2

LEMMA NoneMoves ==
    ASSUME LevelTypes, LevelTypes', RunQueueInv, rtr_dist' = rtr_dist,
           \A u \in Threads : Place(u)' = Place(u)
    PROVE  RunQueueInv'
<1>1. \A u \in Threads : Places'[u] = Places[u]
  BY Seated
<1>2. Places' = Places
  BY <1>1, Seated
<1> QED
  BY <1>2 DEF RunQueueInv

LEMMA OneJoins ==
    ASSUME LevelTypes, LevelTypes', RunQueueInv, NEW t \in Threads,
           state[t] # "running", state'[t] = "running",
           \A u \in Threads \ {t} : Place(u)' = Place(u),
           rtr_dist' = prio_add_entry(rtr_dist, priority'[t])
    PROVE  RunQueueInv'
<1>1. /\ Places[t] = PRIORITY_IDLE /\ Places'[t] = priority'[t] /\ priority'[t] \in Levels
      /\ Places' \in [Threads -> Levels] /\ \A u \in Threads \ {t} : Places'[u] = Places[u]
  BY Seated DEF Place
<1> QED
  BY <1>1, Joins DEF RunQueueInv

LEMMA OneLeaves ==
    ASSUME LevelTypes, LevelTypes', RunQueueInv, NEW t \in Threads,
           state[t] = "running", state'[t] # "running",
           \A u \in Threads \ {t} : Place(u)' = Place(u),
           rtr_dist' = prio_subtract_entry(rtr_dist, priority[t])
    PROVE  RunQueueInv'
<1>1. /\ Places[t] = priority[t] /\ Places'[t] = PRIORITY_IDLE /\ priority[t] \in Levels
      /\ Places' \in [Threads -> Levels] /\ \A u \in Threads \ {t} : Places'[u] = Places[u]
  BY Seated DEF Place
<1> QED
  BY <1>1, Leaves DEF RunQueueInv

LEMMA OneMoves ==
    ASSUME LevelTypes, LevelTypes', RunQueueInv, NEW t \in Threads,
           state[t] = "running", state'[t] = "running",
           \A u \in Threads \ {t} : Place(u)' = Place(u),
           rtr_dist' = prio_move_entry(rtr_dist, priority[t], priority'[t])
    PROVE  RunQueueInv'
<1>1. /\ Places[t] = priority[t] /\ Places'[t] = priority'[t]
      /\ priority[t] \in Levels /\ priority'[t] \in Levels
      /\ Places' \in [Threads -> Levels] /\ \A u \in Threads \ {t} : Places'[u] = Places[u]
  BY Seated DEF Place
<1> QED
  BY <1>1, Moves DEF RunQueueInv

(* The threads of ts take over from t, which goes on running. *)
LEMMA TakenOver ==
    ASSUME LevelTypes, LevelTypes', RunQueueInv, NEW t \in Threads, NEW ts \in SUBSET Threads,
           t \notin ts, state[t] = "running", state'[t] = "running",
           \A u \in ts : state[u] # "running" /\ state'[u] = "running",
           \A u \in Threads \ (ts \cup {t}) : Place(u)' = Place(u),
           NEW d, d = prio_move_entry(rtr_dist, priority[t], priority'[t]),
           rtr_dist' = [p \in Priorities |-> d[p] + Cardinality({u \in ts : priority'[u] = p})]
    PROVE  RunQueueInv'
<1>1. /\ Places[t] = priority[t] /\ Places'[t] = priority'[t]
      /\ priority[t] \in Levels /\ priority'[t] \in Levels
      /\ Places \in [Threads -> Levels] /\ Places' \in [Threads -> Levels]
      /\ \A u \in ts : Places[u] = PRIORITY_IDLE /\ Places'[u] = priority'[u] /\ priority'[u] \in Levels
      /\ \A u \in Threads \ (ts \cup {t}) : Places'[u] = Places[u]
  BY Seated DEF Place
<1>2. PICK f \in [Threads -> Levels] :
        f[t] = priority'[t] /\ \A u \in Threads \ {t} : f[u] = Places[u]
  <2>1. [Places EXCEPT ![t] = priority'[t]] \in [Threads -> Levels]
    BY <1>1, LevelsOrder
  <2> QED
    BY <1>1, <2>1
<1>3. Counts(d, f)
  BY <1>1, <1>2, Moves DEF RunQueueInv
<1>4. PICK g \in [Threads -> Levels] :
        /\ g = Places' /\ \A u \in ts : f[u] = PRIORITY_IDLE
        /\ \A u \in Threads \ ts : g[u] = f[u]
  BY <1>1, <1>2
<1>5. PICK d2 : d2 = [p \in Priorities |-> d[p] + Cardinality({u \in ts : g[u] = p})]
  OBVIOUS
<1>6. Counts(d2, g)
  BY <1>3, <1>4, <1>5, AllJoin
<1>7. rtr_dist' = d2
  <2>1. \A p \in Priorities : {u \in ts : priority'[u] = p} = {u \in ts : g[u] = p}
    BY <1>1, <1>4
  <2> QED
    BY <1>5, <2>1
<1> QED
  BY <1>4, <1>6, <1>7 DEF RunQueueInv

LEMMA WaitersRest ==
    ASSUME WaitInv, NEW o \in Blockers, NEW t \in ToSet(queue[o])
    PROVE  t \in Threads /\ state[t] # "running"
<1>1. o \in Objects /\ t \in Threads
  BY Apart DEF WaitInv, QueueExact
<1> QED
  BY <1>1, WaitersBlocked

LEMMA BlockRuns ==
    ASSUME WaitInv, LevelTypes, LevelTypes', RunQueueInv, NEW t \in Threads, state[t] = "running",
           NEW o, NEW st, st # "running", block_thread(t, o, st)
    PROVE  RunQueueInv'
<1>1. /\ state' = [state EXCEPT ![t] = st] /\ priority' = priority
      /\ rtr_dist' = prio_subtract_entry(rtr_dist, priority[t])
  BY DEF block_thread
<1>2. state'[t] = st /\ \A u \in Threads \ {t} : state'[u] = state[u]
  BY <1>1 DEF WaitInv, WaitTypes
<1> QED
  BY <1>1, <1>2, OneLeaves DEF Place

LEMMA TransferRuns ==
    ASSUME WaitInv, LevelTypes, LevelTypes', RunQueueInv, NEW t \in Threads, state[t] = "running",
           NEW o \in Blockers, queue[o] # <<>>, owner[o] = t, wakeup_thread_transfer(o)
    PROVE  RunQueueInv'
<1>1. PICK h, was, now :
        /\ h = Head(queue[o])
        /\ state' = [u \in Threads |-> IF u \in {h} THEN "running" ELSE state[u]]
        /\ priority' = [priority EXCEPT ![t] = was, ![h] = now]
        /\ rtr_dist' = prio_add_entry(prio_move_entry(rtr_dist, priority[t], was), now)
  BY DEF wakeup_thread_transfer, Unlink
<1>2. h \in Threads /\ state[h] # "running" /\ h # t
  <2>1. h \in ToSet(queue[o])
    BY <1>1, FirstWaits, Apart
  <2> QED
    BY <2>1, WaitersRest
<1>3. /\ priority'[t] = was /\ priority'[h] = now /\ \A u \in Threads \ {t, h} : priority'[u] = priority[u]
      /\ state'[t] = "running" /\ state'[h] = "running" /\ \A u \in Threads \ {h} : state'[u] = state[u]
  BY <1>1, <1>2 DEF LevelTypes
<1>4. PICK f \in [Threads -> Levels], g \in [Threads -> Levels], g2 \in [Threads -> Levels] :
        /\ f = Places /\ g2 = Places' /\ g[t] = was
        /\ \A u \in Threads \ {t} : g[u] = Places[u]
  <2>1. Places \in [Threads -> Levels] /\ Places' \in [Threads -> Levels] /\ priority'[t] \in Levels
    BY Seated, LevelsOrder
  <2>2. [Places EXCEPT ![t] = was] \in [Threads -> Levels]
    BY <1>3, <2>1
  <2> QED
    BY <2>1, <2>2
<1>5. /\ f[t] = priority[t] /\ priority[t] \in Levels /\ was \in Levels /\ now \in Levels
      /\ \A u \in Threads \ {t} : g[u] = f[u]
      /\ g[h] = PRIORITY_IDLE /\ g2[h] = now /\ \A u \in Threads \ {h} : g2[u] = g[u]
  BY <1>2, <1>3, <1>4, Seated DEF Place
<1>6. Counts(prio_move_entry(rtr_dist, priority[t], was), g)
  BY <1>4, <1>5, Moves DEF RunQueueInv
<1>7. Counts(prio_add_entry(prio_move_entry(rtr_dist, priority[t], was), now), g2)
  BY <1>2, <1>5, <1>6, Joins
<1> QED
  BY <1>1, <1>4, <1>7 DEF RunQueueInv

LEMMA MultiTransferRuns ==
    ASSUME WaitInv, LevelTypes, LevelTypes', RunQueueInv, NEW t \in Threads, state[t] = "running",
           NEW l \in Mrsws, queue[l] # <<>>, retval[Head(queue[l])] = 1, owner[l] = t,
           wakeup_thread_queue_multi_transfer(l)
    PROVE  RunQueueInv'
<1>1. PICK ts, was, d :
        /\ ts = FirstReaders(l) /\ was = Disinherit(t, bl_priority[l]).priority
        /\ state' = [u \in Threads |-> IF u \in ts THEN "running" ELSE state[u]]
        /\ \A u \in Threads : /\ u = t => priority'[u] = was
                              /\ u # t /\ u \notin ts => priority'[u] = priority[u]
        /\ d = prio_move_entry(rtr_dist, priority[t], was)
        /\ rtr_dist' = [p \in Priorities |-> d[p] + Cardinality({u \in ts : priority'[u] = p})]
  BY DEF wakeup_thread_queue_multi_transfer, Unlink
<1>2. ts \subseteq Threads /\ \A u \in ts : state[u] # "running"
  <2>1. ts \subseteq ToSet(queue[l]) /\ l \in Blockers
    BY <1>1, FirstReadersExact, Apart
  <2> QED
    BY <2>1, WaitersRest
<1>3. /\ t \notin ts /\ state'[t] = "running" /\ \A u \in ts : state'[u] = "running"
      /\ \A u \in Threads \ (ts \cup {t}) : Place(u)' = Place(u)
      /\ d = prio_move_entry(rtr_dist, priority[t], priority'[t])
  BY <1>1, <1>2 DEF Place
<1> QED
  BY <1>1, <1>2, <1>3, TakenOver

(* A thread that did not run is woken; nobody's priority changes. *)
LEMMA WakeRuns ==
    ASSUME WaitInv, LevelTypes, LevelTypes', RunQueueInv, NEW t \in Threads, state[t] # "running",
           priority' = priority, rtr_dist' = prio_add_entry(rtr_dist, priority[t]),
           state'[t] = "running", \A u \in Threads \ {t} : state'[u] = state[u]
    PROVE  RunQueueInv'
BY OneJoins DEF Place

LEMMA Unmoved ==
    ASSUME LevelTypes, LevelTypes', RunQueueInv, UNCHANGED <<rtr_dist, state, priority>>
    PROVE  RunQueueInv'
BY NoneMoves DEF Place

LEMMA RunsAlong ==
    ASSUME ObjectsInv, LevelTypes, LevelTypes', RunQueueInv, OtherStep
    PROVE  RunQueueInv'
<1>1. WaitInv /\ LockTypes /\ \A t \in Threads : CanCall(t) => state[t] = "running"
  BY InvParts DEF CanCall, Runs
<1>2. ASSUME UNCHANGED threadVars
      PROVE  RunQueueInv'
  BY <1>2, Unmoved DEF threadVars, waitVars, prioVars
<1>3. ASSUME NEW t \in Threads, CanCall(t), NEW o, NEW m, Blocks(t, o, m)
      PROVE  RunQueueInv'
  BY <1>1, <1>3, BlockRuns DEF Blocks
<1>4. ASSUME NEW t, NEW o, SetOwner(o, t)
      PROVE  RunQueueInv'
  BY <1>4, Unmoved DEF SetOwner, waitVars, prioVars
<1>5. CASE Inheritance
  <2>1. PICK blt, b :
          /\ blt \in Threads /\ UNCHANGED state /\ priority' = [priority EXCEPT ![blt] = b]
          /\ rtr_dist' = IF state[blt] = "running" THEN prio_move_entry(rtr_dist, priority[blt], b)
                         ELSE rtr_dist
    <3>1. walk # <<>> /\ \A blt \in Head(walk).todo : blt \in Threads
      <4>1. walk # <<>>
        BY <1>5 DEF Inheritance, inherit_priority
      <4>2. ASSUME NEW blt \in Head(walk).todo
            PROVE  blt \in Threads
        <5>1. walk \in Seq(Frames)
          BY DEF LevelTypes, Frames
        <5>2. Head(walk) \in Frames
          BY <4>1, <5>1
        <5> QED
          BY <5>2 DEF Frames
      <4> QED
        BY <4>1, <4>2
    <3> QED
      BY <1>5, <3>1 DEF Inheritance, inherit_priority, waitVars
  <2>2. priority'[blt] = b /\ \A u \in Threads \ {blt} : priority'[u] = priority[u]
    BY <2>1 DEF LevelTypes
  <2>3. \A u \in Threads \ {blt} : Place(u)' = Place(u)
    BY <2>1, <2>2 DEF Place
  <2>4. CASE state[blt] = "running"
    BY <2>1, <2>2, <2>3, <2>4, OneMoves
  <2>5. CASE state[blt] # "running"
    <3>1. Place(blt)' = Place(blt)
      BY <2>1, <2>5 DEF Place
    <3> QED
      BY <2>1, <2>3, <2>5, <3>1, NoneMoves
  <2> QED
    BY <2>4, <2>5
<1>6. ASSUME NEW t \in Threads, Return(t)
      PROVE  RunQueueInv'
  BY <1>2, <1>6 DEF Return
<1>7. ASSUME NEW t \in Threads, Expire(t)
      PROVE  RunQueueInv'
  <2>1. /\ state[t] = "blocked_w_tmo" /\ state' = [state EXCEPT ![t] = "running"]
        /\ rtr_dist' = prio_add_entry(rtr_dist, priority[t]) /\ priority' = priority
    BY <1>7 DEF Expire, check_tmo_expired
  <2>2. state'[t] = "running" /\ \A u \in Threads \ {t} : state'[u] = state[u]
    BY <1>1, <2>1 DEF WaitInv, WaitTypes
  <2> QED
    BY <1>1, <2>1, <2>2, WakeRuns
<1>8. ASSUME NEW t \in Threads, NEW p, thread_set_priority(t, p)
      PROVE  RunQueueInv'
  <2>1. PICK b :
          /\ UNCHANGED state /\ priority' = [priority EXCEPT ![t] = b]
          /\ rtr_dist' = IF state[t] = "running" THEN prio_move_entry(rtr_dist, priority[t], b)
                         ELSE rtr_dist
    BY <1>8 DEF thread_set_priority, waitVars
  <2>2. priority'[t] = b /\ \A u \in Threads \ {t} : priority'[u] = priority[u]
    BY <2>1 DEF LevelTypes
  <2>3. \A u \in Threads \ {t} : Place(u)' = Place(u)
    BY <2>1, <2>2 DEF Place
  <2>4. CASE state[t] = "running"
    BY <2>1, <2>2, <2>3, <2>4, OneMoves
  <2>5. CASE state[t] # "running"
    <3>1. Place(t)' = Place(t)
      BY <2>1, <2>5 DEF Place
    <3> QED
      BY <2>1, <2>3, <2>5, <3>1, NoneMoves
  <2> QED
    BY <2>4, <2>5
<1>9. ASSUME NEW t \in Threads, NEW m \in Mutexes, mutex_lock(t, m)
      PROVE  RunQueueInv'
  BY <1>2, <1>3, <1>4, <1>9 DEF mutex_lock
<1>10. ASSUME NEW t \in Threads, NEW m \in Mutexes, mutex_unlock(t, m)
       PROVE  RunQueueInv'
  <2>1. owner[m] = t /\ state[t] = "running" /\ m \in Blockers
    BY <1>1, <1>10, Apart DEF mutex_unlock, ObjectsInv, MutexExact, WritersOf
  <2> QED
    BY <1>1, <1>2, <1>4, <1>10, <2>1, TransferRuns DEF mutex_unlock
<1>11. ASSUME NEW t \in Threads, NEW l \in Mrsws, mrsw_read_acquire(t, l)
       PROVE  RunQueueInv'
  <2>1. CASE mrsw_reader_claim(t, l, count[l] + 1)
    BY <2>1, Unmoved DEF mrsw_reader_claim, waitVars, prioVars
  <2> QED
    BY <1>2, <1>3, <1>11, <2>1 DEF mrsw_read_acquire
<1>12. ASSUME NEW t \in Threads, NEW l \in Mrsws, mrsw_read_release(t, l)
       PROVE  RunQueueInv'
  <2>1. state[t] = "running" /\ l \in Blockers
    BY <1>1, <1>12, Apart DEF mrsw_read_release
  <2>2. CASE ~IsWriter(t, l) /\ count[l] = 1 /\ queue[l] # <<>> /\ wakeup_thread_transfer(l)
    <3>1. ReadersOf(l) = {owner[l]} /\ WritersOf(l) = {}
      BY <2>2 DEF ObjectsInv, MrswExact
    <3>2. reads[l][t] > 0 /\ writes[l][t] \in Nat
      BY <1>1, <1>12, Apart DEF mrsw_read_release, LockTypes
    <3>3. t \in ReadersOf(l)
      BY <3>1, <3>2 DEF WritersOf, ReadersOf
    <3> QED
      BY <1>1, <2>1, <2>2, <3>1, <3>3, TransferRuns
  <2>3. CASE mrsw_reader_relinquish(t, l)
    <3>1. PICK b :
            /\ UNCHANGED state /\ priority' = [priority EXCEPT ![t] = b]
            /\ rtr_dist' = prio_move_entry(rtr_dist, priority[t], b)
      BY <2>3 DEF mrsw_reader_relinquish, waitVars
    <3>2. priority'[t] = b /\ \A u \in Threads \ {t} : priority'[u] = priority[u]
      BY <3>1 DEF LevelTypes
    <3>3. \A u \in Threads \ {t} : Place(u)' = Place(u)
      BY <3>1, <3>2 DEF Place
    <3> QED
      BY <2>1, <3>1, <3>2, <3>3, OneMoves
  <2> QED
    BY <1>2, <1>12, <2>2, <2>3 DEF mrsw_read_release
<1>13. ASSUME NEW t \in Threads, NEW l \in Mrsws, mrsw_write_acquire(t, l)
       PROVE  RunQueueInv'
  BY <1>2, <1>3, <1>4, <1>13 DEF mrsw_write_acquire
<1>14. ASSUME NEW t \in Threads, NEW l \in Mrsws, mrsw_write_release(t, l)
       PROVE  RunQueueInv'
  <2>1. state[t] = "running" /\ l \in Blockers
    BY <1>1, <1>14, Apart DEF mrsw_write_release
  <2>2. owner[l] = t
    <3>1. WritersOf(l) = IF count[l] < 0 THEN {owner[l]} ELSE {}
      BY HoldersByFields
    <3>2. t \in WritersOf(l)
      BY <1>14 DEF mrsw_write_release, WritersOf
    <3> QED
      BY <3>1, <3>2
  <2> QED
    BY <1>1, <1>2, <1>4, <1>14, <2>1, <2>2, TransferRuns, MultiTransferRuns DEF mrsw_write_release
<1>15. ASSUME NEW t \in Threads, NEW q \in Queues, queue_send(t, q)
       PROVE  RunQueueInv'
  BY <1>3, <1>15 DEF queue_send
<1>16. ASSUME NEW t \in Threads, NEW q \in Queues, queue_release_sender(t, q)
       PROVE  RunQueueInv'
  <2>1. /\ t \in ToSet(queue[q]) /\ priority' = priority /\ rtr_dist' = prio_add_entry(rtr_dist, priority[t])
        /\ state' = [u \in Threads |-> IF u \in {t} THEN "running" ELSE state[u]]
    BY <1>16 DEF queue_release_sender, wakeup_thread_release, Unlink
  <2>2. state[t] # "running"
    BY <1>1, <2>1, WaitersRest, Apart
  <2>3. state'[t] = "running" /\ \A u \in Threads \ {t} : state'[u] = state[u]
    BY <2>1
  <2> QED
    BY <1>1, <2>1, <2>2, <2>3, WakeRuns
<1> QED
  BY <1>5, <1>6, <1>7, <1>8, <1>9, <1>10, <1>11, <1>12, <1>13, <1>14, <1>15, <1>16 DEF OtherStep, SetPriority

LEMMA SemaphoresRun ==
    ASSUME ObjectsInv, LevelTypes, LevelTypes', RunQueueInv, SemaphoreStep
    PROVE  RunQueueInv'
<1>1. WaitInv /\ \A s \in Semaphores : s \in Objects
  BY InvParts, Apart
<1>2. ASSUME NEW s \in Semaphores, semaphore_release(s)
      PROVE  RunQueueInv'
  <2>1. CASE UNCHANGED threadVars
    BY <2>1, Unmoved DEF threadVars, waitVars, prioVars
  <2>2. CASE queue[s] # <<>> /\ wakeup_thread_default(Head(queue[s]), s)
    <3>1. PICK h \in Threads :
            /\ priority' = priority
            /\ state' = [u \in Threads |-> IF u \in {h} THEN "running" ELSE state[u]]
            /\ rtr_dist' = IF state[h] = "running" THEN rtr_dist ELSE prio_add_entry(rtr_dist, priority[h])
      <4>1. Head(queue[s]) \in Threads
        BY <1>1, <2>2, FirstWaits
      <4> QED
        BY <2>2, <4>1 DEF wakeup_thread_default, Unlink
    <3>2. state'[h] = "running" /\ \A u \in Threads \ {h} : state'[u] = state[u]
      BY <3>1
    <3>3. CASE state[h] = "running"
      <4>1. \A u \in Threads : Place(u)' = Place(u)
        BY <3>1, <3>2, <3>3 DEF Place
      <4> QED
        BY <3>1, <3>3, <4>1, NoneMoves
    <3>4. CASE state[h] # "running"
      BY <1>1, <3>1, <3>2, <3>4, WakeRuns
    <3> QED
      BY <3>3, <3>4
  <2> QED
    BY <1>2, <2>1, <2>2 DEF semaphore_release
<1>3. ASSUME NEW t \in Threads, WaitReturn(t)
      PROVE  RunQueueInv'
  BY <1>3, Unmoved DEF WaitReturn, threadVars, waitVars, prioVars
<1>5. ASSUME NEW t \in Threads, WaitExpired(t)
      PROVE  RunQueueInv'
  BY <1>5, Unmoved DEF WaitExpired, prioVars
<1>4. ASSUME NEW t \in Threads, NEW s \in Semaphores, NEW timeout, semaphore_wait(t, s, timeout)
      PROVE  RunQueueInv'
  <2>1. CASE UNCHANGED threadVars
    BY <2>1, Unmoved DEF threadVars, waitVars, prioVars
  <2>2. ASSUME NEW st, st \in {"blocked", "blocked_w_tmo"}, block_thread(t, s, st)
        PROVE  RunQueueInv'
    <3>1. state[t] = "running" /\ st # "running"
      BY <1>4, <2>2 DEF semaphore_wait, CanCall, Runs
    <3> QED
      BY <1>1, <2>2, <3>1, BlockRuns
  <2> QED
    BY <1>4, <2>1, <2>2 DEF semaphore_wait
<1> QED
  BY <1>2, <1>3, <1>4, <1>5 DEF SemaphoreStep

LEMMA BeganRunning == Init => RunQueueInv
<1> SUFFICES ASSUME Init
             PROVE  RunQueueInv
  OBVIOUS
<1>1. /\ rtr_dist = [p \in Priorities |-> Cardinality({t \in Threads : BasePriority[t] = p})]
      /\ \A t \in Threads : state[t] = "running" /\ priority[t] = BasePriority[t]
  BY DEF Init, ThreadsInit
<1>2. Places \in [Threads -> Levels] /\ \A t \in Threads : Places[t] = BasePriority[t]
  BY <1>1, KernelAssumption, LevelsOrder DEF Places, Place
<1>3. \A p \in Priorities : /\ {t \in Threads : Places[t] = p} = {t \in Threads : BasePriority[t] = p}
                            /\ Cardinality({t \in Threads : BasePriority[t] = p}) \in Nat
  BY <1>2, ThreadsAssumption, FS_Subset, FS_CardinalityType
<1> QED
  BY <1>1, <1>2, <1>3 DEF RunQueueInv, Counts

LEMMA RunQueueKept ==
    ASSUME ObjectsInv, LevelTypes, LevelTypes', RunQueueInv, [Next]_vars
    PROVE  RunQueueInv'
<1>1. CASE UNCHANGED vars
  BY <1>1, Unmoved DEF vars, threadVars, waitVars, prioVars
<1> QED
  BY <1>1, RunsAlong, SemaphoresRun DEF Next

LEMMA CountedExact ==
    RunQueueInv => RunQueueExact /\ rtr_dist \in [Priorities -> Nat]
<1> SUFFICES ASSUME RunQueueInv, NEW p \in Priorities
             PROVE  {t \in Threads : Places[t] = p} = {t \in Threads : state[t] = "running" /\ priority[t] = p}
  BY DEF RunQueueInv, Counts, RunQueueExact
<1> QED
  BY LevelsOrder DEF Places, Place

LEMMA RunQueueLasts == Spec => []RunQueueInv
<1>1. Init => RunQueueInv
  BY BeganRunning
<1>2. ObjectsInv /\ LevelTypes /\ LevelTypes' /\ RunQueueInv /\ [Next]_vars => RunQueueInv'
  BY RunQueueKept
<1> QED
  BY <1>1, <1>2, LocksExact, LevelsLast, PTL DEF Spec

(* The run queue's distribution counts each running thread once, at the    *)
(* priority it has now, through every block, hand-over, timeout, wake-up   *)
(* and turn of inherit_priority: the histogram by which switch_thread      *)
(* chooses counts nobody who does not run and misses nobody who does       *)
(* (rtr_add_entry, rtr_subtract_entry and rtr_move_entry of thread.c).     *)
(* This holds also where an unlock counts PRIORITY_IDLE in a thread's      *)
(* distribution: whatever becomes of its priority, the thread is moved to  *)
(* it.                                                                     *)
THEOREM RunQueueCounts == Spec => []RunQueueExact
BY CountedExact, RunQueueLasts, PTL

(* The fields of each lock say what its callers hold or have just been     *)
(* handed, and all state is of its type (mutex.c, mrsw_lock.c).            *)
THEOREM BookkeepingKept == Spec => []BookkeepingExact
<1>1. ASSUME ObjectsInv, LevelTypes, RunQueueInv
      PROVE  BookkeepingExact
  <2>1. WaitTypes /\ LockTypes /\ LevelTypes /\ rtr_dist \in [Priorities -> Nat]
    BY <1>1, CountedExact DEF ObjectsInv
  <2>2. TypeOK
    BY <2>1 DEF WaitTypes, LockTypes, LevelTypes, TypeOK, ThreadsTypeOK
  <2>3. ASSUME NEW m \in Mutexes, NEW t \in Threads, writes[m][t] > 0
        PROVE  owner[m] = t /\ recursion[m] = writes[m][t] - 1
    BY <1>1, <2>3 DEF ObjectsInv, MutexExact, WritersOf
  <2>4. ASSUME NEW l \in Mrsws
        PROVE  /\ mask[l] = ReadersOf(l)
               /\ WritersOf(l) = {} => count[l] = Cardinality(ReadersOf(l))
               /\ \A t \in Threads :
                    /\ writes[l][t] > 0 => owner[l] = t /\ count[l] = -writes[l][t]
                    /\ t \in mask[l] /\ reads[l][t] > 0 => rdrecursion[l][t] = reads[l][t] - 1
    <3>1. MrswExact(l) /\ count[l] \in Int /\ \A t \in Threads : writes[l][t] \in Nat
      BY <1>1, <2>1, Apart DEF ObjectsInv, LockTypes
    <3>2. /\ count[l] < 0 => WritersOf(l) = {owner[l]}
          /\ count[l] >= 0 => WritersOf(l) = {}
          /\ \A t \in Threads : writes[l][t] > 0 => t \in WritersOf(l)
      BY <3>1 DEF MrswExact, WritersOf
    <3>3. ASSUME NEW t \in Threads, writes[l][t] > 0
          PROVE  owner[l] = t /\ count[l] = -writes[l][t]
      <4>1. count[l] < 0 /\ owner[l] = t
        BY <3>1, <3>2, <3>3
      <4> QED
        BY <3>1, <3>3, <4>1 DEF MrswExact
    <3>4. ASSUME NEW t \in Threads, t \in mask[l], reads[l][t] > 0
          PROVE  rdrecursion[l][t] = reads[l][t] - 1
      <4>1. writes[l][t] = 0
        <5>1. t \in ReadersOf(l)
          BY <3>1, <3>4 DEF MrswExact
        <5>2. ~(count[l] < 0)
          BY <3>1, <5>1 DEF MrswExact
        <5> QED
          BY <3>1, <3>2, <5>2
      <4> QED
        BY <3>1, <3>4, <4>1 DEF MrswExact
    <3>5. WritersOf(l) = {} => count[l] = Cardinality(ReadersOf(l))
      BY <3>1, <3>2 DEF MrswExact
    <3> QED
      BY <3>1, <3>3, <3>4, <3>5 DEF MrswExact
  <2> QED
    BY <2>2, <2>3, <2>4 DEF BookkeepingExact
<1> QED
  BY <1>1, LocksExact, LevelsLast, RunQueueLasts, PTL DEF Spec

-----------------------------------------------------------------------------
(* Between two walks.                                                      *)

LEMMA LeastIs ==
    ASSUME NEW S, S \subseteq Nat, NEW b \in S, \A x \in S : b <= x
    PROVE  Min(S) = b
<1>1. Min(S) \in S /\ \A x \in S : Min(S) <= x
  BY Smallest
<1>2. Min(S) <= b /\ b <= Min(S) /\ Min(S) \in Nat /\ b \in Nat
  BY <1>1
<1> QED
  BY <1>2

LEMMA OwnedPriority ==
    ASSUME PrioritiesInv, walk = <<>>, NEW t \in Threads
    PROVE  priority[t] = Min({base_priority[t]} \cup {bl_priority[o] : o \in {b \in Blockers : t \in Owners(b)}})
<1> DEFINE S == {base_priority[t]} \cup {bl_priority[o] : o \in {b \in Blockers : t \in Owners(b)}}
           d == pdist[t]
           b == priority[t]
<1>1. /\ PriorityTypes /\ Account(d, base_priority[t], Plain(t)) /\ b = Best(Entries(d))
      /\ \A p \in Priorities, o \in Blockers : o \in Plain(t)[p] <=> t \in Owners(o) /\ bl_priority[o] = p
  BY AtRest DEF Plain, Fits
<1>2. /\ b \in Priorities /\ b \in Nat /\ d \in [Priorities -> Nat] /\ d[b] > 0
      /\ \A p \in Priorities : d[p] > 0 => b <= p
      /\ base_priority[t] \in Priorities /\ d[base_priority[t]] > 0
  <2> HIDE DEF d, b
  <2>1. d \in [Priorities -> Nat] /\ base_priority[t] \in Priorities
    BY <1>1 DEF Account
  <2>2. b \in Priorities
    BY <1>1, InRange
  <2>3. d[base_priority[t]] > 0
    BY <1>1, <2>1, Rebased
  <2>4. d[b] > 0 /\ \A p \in Priorities : d[p] > 0 => b <= p
    BY <1>1, <2>1, <2>2, BestOf
  <2> QED
    BY <2>1, <2>2, <2>3, <2>4, LevelsOrder
<1>3. S \subseteq Levels
  <2>1. base_priority[t] \in Levels /\ \A o \in Blockers : bl_priority[o] \in Levels
    BY <1>1, LevelsOrder DEF PriorityTypes, LevelTypes
  <2> QED
    BY <2>1
<1>4. b \in S
  <2>1. d[b] = Cardinality(Plain(t)[b]) + One(b, base_priority[t])
    BY <1>1, <1>2 DEF Account
  <2>2. CASE b = base_priority[t]
    BY <2>2
  <2>3. CASE b # base_priority[t]
    <3>1. One(b, base_priority[t]) = 0 /\ Plain(t)[b] \in SUBSET Blockers
      BY <1>1, <1>2, <2>3 DEF One, Account
    <3>2. Cardinality(Plain(t)[b]) # 0
      BY <1>2, <2>1, <3>1
    <3>3. PICK o \in Blockers : o \in Plain(t)[b]
      BY <3>1, <3>2, FS_EmptySet
    <3> QED
      BY <1>1, <1>2, <3>3
  <2> QED
    BY <2>2, <2>3
<1>5. ASSUME NEW x \in S
      PROVE  b <= x
  <2>1. CASE x = PRIORITY_IDLE
    BY <1>2, <2>1, LevelsOrder
  <2>2. CASE x = base_priority[t]
    BY <1>2, <2>2
  <2>3. ASSUME NEW o \in Blockers, t \in Owners(o), x = bl_priority[o], x # PRIORITY_IDLE
        PROVE  b <= x
    <3>1. x \in Priorities
      BY <1>3, <2>3, LevelsOrder
    <3>2. o \in Plain(t)[x]
      BY <1>1, <2>3, <3>1
    <3>3. d[x] > 0
      BY <1>1, <3>1, <3>2, Owing
    <3> QED
      BY <1>2, <3>1, <3>3
  <2> QED
    BY <2>1, <2>2, <2>3
<1>6. S \subseteq Nat
  BY <1>3, LevelsOrder
<1> HIDE DEF S
<1>7. Min(S) = b
  BY <1>4, <1>5, <1>6, LeastIs
<1> QED
  BY <1>7 DEF S

LEMMA NotBetter ==
    ASSUME WaitInv, PrioritiesInv, walk = <<>>, NEW o \in Blockers
    PROVE  wait_queue_find_priority(queue[o], priority) <= bl_priority[o]
<1> DEFINE S == {priority[t] : t \in ToSet(queue[o])} \cup {PRIORITY_IDLE}
<1>1. o \in Objects /\ PriorityTypes /\ ToSet(queue[o]) = {t \in Threads : wqp[t] = o}
  BY Apart DEF PrioritiesInv, WaitInv, QueueExact
<1>2. S \subseteq Nat /\ S # {}
  BY <1>1, LevelsOrder DEF PriorityTypes, LevelTypes
<1>3. \E x \in S : x <= bl_priority[o]
  <2>1. \/ bl_priority[o] = PRIORITY_IDLE
        \/ \E t \in Threads : wqp[t] = o /\ priority[t] <= bl_priority[o]
    BY AtRest
  <2>2. PRIORITY_IDLE <= PRIORITY_IDLE
    BY LevelsOrder
  <2> QED
    BY <1>1, <2>1, <2>2
<1>4. bl_priority[o] \in Nat
  BY <1>1, LevelsOrder DEF PriorityTypes, LevelTypes
<1> HIDE DEF S
<1>5. PICK x \in S : x <= bl_priority[o]
  BY <1>3
<1>6. Min(S) \in Nat /\ Min(S) <= x /\ x \in Nat
  BY <1>2, Smallest
<1>7. Min(S) <= bl_priority[o]
  BY <1>4, <1>5, <1>6
<1> QED
  BY <1>7 DEF S, wait_queue_find_priority

(* Once inherit_priority has run to its end, a thread's priority is the    *)
(* best of its own and those of the objects it owns, and no object has a   *)
(* better one than the threads that wait for it: whatever was lent has     *)
(* been given back (thread.c, priority_disinherit_internal), as long as no *)
(* unlock finds its lock at PRIORITY_IDLE (thread.c:775).  That an object  *)
(* has no worse one is not so in general: see PriorityChain.               *)
THEOREM NothingKept ==
    Spec /\ []LocksRaised => [](walk = <<>> =>
        /\ \A t \in Threads :
             priority[t] = Min({base_priority[t]} \cup
                               {bl_priority[o] : o \in {b \in Blockers : t \in Owners(b)}})
        /\ \A o \in Blockers : wait_queue_find_priority(queue[o], priority) <= bl_priority[o])
<1>1. ObjectsInv /\ PrioritiesInv => (walk = <<>> =>
        /\ \A t \in Threads :
             priority[t] = Min({base_priority[t]} \cup
                               {bl_priority[o] : o \in {b \in Blockers : t \in Owners(b)}})
        /\ \A o \in Blockers : wait_queue_find_priority(queue[o], priority) <= bl_priority[o])
  BY OwnedPriority, NotBetter, InvParts
<1> QED
  BY <1>1, LocksExact, PrioritiesKept, PTL

=============================================================================
