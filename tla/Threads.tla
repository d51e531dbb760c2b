------------------------------ MODULE Threads ------------------------------
(***************************************************************************)
(* Blocking, waking and priority inheritance of kernel/thread.c, the part  *)
(* of the scheduler every kernel object is built on (single core, priority *)
(* scheduling: the iPod Classic build).                                    *)
(*                                                                         *)
(* Priority 1 is the best.  A thread's priority is the best entry of its   *)
(* distribution: its own base priority and, for each object it owns, the   *)
(* best priority that waits there.  A distribution is a histogram (pdist)  *)
(* and, right behind it in memory, the mask of its entries that are not 0  *)
(* (pdmask).  Which of the running threads gets the processor is left      *)
(* open; that choice alone reads the mask of rtr_dist, so it has none.     *)
(*                                                                         *)
(* inherit_priority loops along a chain of blocked owners and recurses     *)
(* where an object has several.  Here each turn of the loop is a step and  *)
(* `walk` the stack of what is left to do; interrupts are disabled for as  *)
(* long as it lasts, so every other action waits until it is empty.        *)
(***************************************************************************)
EXTENDS Integers, Sequences, FiniteSets, SequencesExt, FiniteSetsExt

CONSTANTS
    Threads,
    Mutexes,
    Mrsws,        \* multi-reader, single-writer locks
    Queues,       \* event queues with queue_send enabled
    Semaphores,
    LOWEST_PRIORITY,
    ByteBits,     \* how many bits of a mask lie in its first byte
    None

Locks == Mutexes \cup Mrsws

(* The objects with a struct blocker; semaphores have none. *)
Blockers == Locks \cup Queues
Objects == Blockers \cup Semaphores

(* What a histogram has entries for; nobody's own priority is 0.           *)
Priorities == 0..LOWEST_PRIORITY
PRIORITY_IDLE == LOWEST_PRIORITY + 1
Levels == Priorities \cup {PRIORITY_IDLE}

ASSUME ThreadsAssumption ==
    /\ LOWEST_PRIORITY \in Nat \ {0}
    /\ ByteBits \in 1..PRIORITY_IDLE
    /\ None \notin Threads \cup Objects
    /\ IsFiniteSet(Threads) /\ IsFiniteSet(Blockers)
    /\ Mutexes \cap Mrsws = {} /\ Locks \cap Queues = {}
    /\ Blockers \cap Semaphores = {}

VARIABLES
    state,          \* thread -> "running", "blocked", "blocked_w_tmo"
    wqp,            \* thread -> the object it is linked to, or None
    blocker,        \* thread -> the blocker it waits for, or None
    retval,         \* thread -> its retval: 1 for a waiting reader
    queue,          \* object -> its wait queue
    owner,          \* blocker -> its thread field
    mask,           \* blocker -> the readers of its splay (none but for Mrsws)
    priority,
    base_priority,
    pdist,          \* thread -> how many entries it has of each priority
    pdmask,         \* thread -> the bits set in the mask behind them
    bl_priority,    \* blocker -> its priority field
    rtr_dist,       \* priority -> entries of the run queue's distribution
    walk            \* what is left of inherit_priority

ownVars == <<owner, mask>>
waitVars == <<state, wqp, blocker, retval, queue>>
prioVars == <<priority, base_priority, pdist, pdmask, bl_priority, rtr_dist, walk>>
threadVars == <<waitVars, ownVars, prioVars>>

-----------------------------------------------------------------------------
(* Priority distributions *)

(* The histogram.  PRIORITY_IDLE has no entry in it.                       *)
prio_add_entry(d, p) == [q \in Priorities |-> IF q = p THEN d[q] + 1 ELSE d[q]]
prio_subtract_entry(d, p) == [q \in Priorities |-> IF q = p THEN d[q] - 1 ELSE d[q]]
prio_move_entry(d, from, to) == prio_add_entry(prio_subtract_entry(d, from), to)

(* The byte behind the histogram, counted at PRIORITY_IDLE: the first byte *)
(* of the mask.                                                            *)
MaskByte == 0..(ByteBits - 1)

Incremented(m) ==
    LET low == m \cap MaskByte
        b == Min((MaskByte \ low) \cup {ByteBits})
    IN (m \ low) \cup {x \in low : x > b} \cup (MaskByte \cap {b})

Decremented(m) ==
    LET low == m \cap MaskByte
        b == Min(low \cup {ByteBits})
    IN (m \ low) \cup {x \in low : x > b} \cup {x \in MaskByte : x < b}

(* What the same operations make of the mask m behind histogram d.  (The   *)
(* bit for PRIORITY_IDLE would be in the word behind the mask: skip_count, *)
(* which only the choice of the next thread reads.)                        *)
mask_add_entry(m, d, p) ==
    IF p = PRIORITY_IDLE THEN Incremented(m)
    ELSE IF d[p] = 0 THEN m \cup {p} ELSE m

mask_subtract_entry(m, d, p) ==
    IF p = PRIORITY_IDLE THEN Decremented(m)
    ELSE IF d[p] = 1 THEN m \ {p} ELSE m

(* The bits of a mask that agrees with its histogram. *)
Entries(d) == {p \in Priorities : d[p] > 0}

(* priobit_ffs: with no bit set it is PRIORITY_IDLE. *)
Best(m) == Min(m \cup {PRIORITY_IDLE})

(* The histogram of a thread that owns nothing. *)
Entry(p) == [q \in Priorities |-> IF q = p THEN 1 ELSE 0]

wait_queue_find_priority(q, pr) ==
    Min({pr[t] : t \in ToSet(q)} \cup {PRIORITY_IDLE})

(* What a thread's distribution and priority are, and what they become.    *)
(* The unchecked forms also count PRIORITY_IDLE.                           *)
Kept(t) == [pdist |-> pdist[t], pdmask |-> pdmask[t], priority |-> priority[t]]

InheritUnchecked(t, blpr) ==
    [pdist |-> prio_add_entry(pdist[t], blpr),
     pdmask |-> mask_add_entry(pdmask[t], pdist[t], blpr),
     priority |-> IF blpr < priority[t] /\ pdist[t][blpr] = 0 THEN blpr ELSE priority[t]]

Inherit(t, blpr) ==
    IF blpr = PRIORITY_IDLE THEN Kept(t) ELSE InheritUnchecked(t, blpr)

DisinheritUnchecked(t, blpr) ==
    LET m == mask_subtract_entry(pdmask[t], pdist[t], blpr)
        gone == IF blpr = PRIORITY_IDLE THEN m \cap MaskByte = {} ELSE pdist[t][blpr] = 1
    IN [pdist |-> prio_subtract_entry(pdist[t], blpr),
        pdmask |-> m,
        priority |-> IF gone /\ blpr <= priority[t] THEN Best(m) ELSE priority[t]]

Disinherit(t, blpr) ==
    IF blpr = PRIORITY_IDLE THEN Kept(t) ELSE DisinheritUnchecked(t, blpr)

-----------------------------------------------------------------------------
(* inherit_priority *)

(* The threads that own o: one, or the readers of its splay. *)
Owners(o) == IF owner[o] # None THEN {owner[o]} ELSE mask[o]

Frame(o, new, first) ==
    [bl |-> o, todo |-> Owners(o), old |-> bl_priority[o], new |-> new,
     first |-> first]

StartWalk(o, newblpr) == walk' = <<Frame(o, newblpr, o)>>

(* The next blocker's priority after blt went from oldpr to newpr.  When   *)
(* neither test holds, newblpr keeps the value of the blocker before.      *)
NextBlockerPriority(o, blt, newpr, carried) ==
    IF newpr <= bl_priority[o] THEN newpr
    ELSE IF priority[blt] <= bl_priority[o]
         THEN wait_queue_find_priority(queue[o], [priority EXCEPT ![blt] = newpr])
         ELSE carried

(* What follows in the chain after blt's priority became newpr. *)
NextFrames(f, blt, newpr) ==
    LET o == blocker[blt]
        newblpr == NextBlockerPriority(o, blt, newpr, f.new)
    IN IF \/ newpr = priority[blt]
          \/ state[blt] = "running"
          \/ o \in {None, f.first}
          \/ newblpr = bl_priority[o]
       THEN <<>>
       ELSE <<Frame(o, newblpr, f.first)>>

(* The inheritance record of an owner when the blocker goes from old to new. *)
Lent(d, old, new) ==
    LET added == IF new < PRIORITY_IDLE THEN prio_add_entry(d, new) ELSE d
    IN IF old < PRIORITY_IDLE THEN prio_subtract_entry(added, old) ELSE added

LentMask(m, d, old, new) ==
    LET added == IF new < PRIORITY_IDLE THEN prio_add_entry(d, new) ELSE d
        set == IF new < PRIORITY_IDLE THEN mask_add_entry(m, d, new) ELSE m
    IN IF old < PRIORITY_IDLE THEN mask_subtract_entry(set, added, old) ELSE set

(* One turn of the loop, for one of the owners left. *)
inherit_priority ==
    /\ walk # <<>>
    /\ LET f == Head(walk) IN \E blt \in f.todo :
         LET d == Lent(pdist[blt], f.old, f.new)
             m == LentMask(pdmask[blt], pdist[blt], f.old, f.new)
             left == IF f.todo = {blt} THEN Tail(walk)
                     ELSE <<[f EXCEPT !.todo = @ \ {blt}]>> \o Tail(walk)
         IN /\ bl_priority' = [bl_priority EXCEPT ![f.bl] = f.new]
            /\ pdist' = [pdist EXCEPT ![blt] = d]
            /\ pdmask' = [pdmask EXCEPT ![blt] = m]
            /\ priority' = [priority EXCEPT ![blt] = Best(m)]
            /\ rtr_dist' = IF state[blt] = "running"
                           THEN prio_move_entry(rtr_dist, priority[blt], Best(m))
                           ELSE rtr_dist
            /\ walk' = NextFrames(f, blt, Best(m)) \o left
    /\ UNCHANGED <<waitVars, ownVars, base_priority>>

-----------------------------------------------------------------------------
(* Blocking *)

(* block_thread_ on the queue of o. *)
block_thread(t, o, st) ==
    /\ state' = [state EXCEPT ![t] = st]
    /\ wqp' = [wqp EXCEPT ![t] = o]
    /\ queue' = [queue EXCEPT ![o] = Append(@, t)]
    /\ rtr_dist' = prio_subtract_entry(rtr_dist, priority[t])
    /\ IF o \in Blockers
       THEN /\ blocker' = [blocker EXCEPT ![t] = o]
            /\ IF priority[t] < bl_priority[o]
               THEN StartWalk(o, priority[t]) ELSE UNCHANGED walk
       ELSE UNCHANGED <<blocker, walk>>
    /\ UNCHANGED <<ownVars, priority, base_priority, pdist, pdmask, bl_priority>>

(* A wait queue without thread t of it, which may be anywhere. *)
Without(q, t) == RemoveAt(q, CHOOSE i \in DOMAIN q : q[i] = t)

(* wait_queue_remove and core_schedule_wakeup of the threads in ts, which  *)
(* leaves rest in the queue.  Their retval is not looked at any more: it   *)
(* is cleared to keep states few.                                          *)
Unlink(ts, o, rest) ==
    /\ state' = [t \in Threads |-> IF t \in ts THEN "running" ELSE state[t]]
    /\ wqp' = [t \in Threads |-> IF t \in ts THEN None ELSE wqp[t]]
    /\ blocker' = [t \in Threads |-> IF t \in ts THEN None ELSE blocker[t]]
    /\ retval' = [t \in Threads |-> IF t \in ts THEN 0 ELSE retval[t]]
    /\ queue' = [queue EXCEPT ![o] = rest]

(* Mutant: the new owner gets the blocker's priority without looking at    *)
(* who is left in the queue.                                               *)
TransferPriorityUnchecked(o, t, rest) == bl_priority[o]

(* The priority of a blocker once its first waiter t has become its owner. *)
TransferPriority(o, t, rest) ==
    IF rest = <<>> THEN PRIORITY_IDLE
    ELSE IF priority[t] <= bl_priority[o]
         THEN wait_queue_find_priority(rest, priority)
         ELSE bl_priority[o]

(* wakeup_thread_transfer: the first waiter of o takes over from its       *)
(* owner.  The caller says what becomes of the readers' mask.  Neither     *)
(* priority is compared with PRIORITY_IDLE.                                *)
wakeup_thread_transfer(o) ==
    LET t == Head(queue[o])
        blt == owner[o]
        blpr == TransferPriority(o, t, Tail(queue[o]))
        was == DisinheritUnchecked(blt, bl_priority[o])
        now == IF Len(queue[o]) = 1 THEN Kept(t) ELSE InheritUnchecked(t, blpr)
    IN /\ Unlink({t}, o, Tail(queue[o]))
       /\ owner' = [owner EXCEPT ![o] = t]
       /\ priority' = [priority EXCEPT ![blt] = was.priority, ![t] = now.priority]
       /\ pdist' = [pdist EXCEPT ![blt] = was.pdist, ![t] = now.pdist]
       /\ pdmask' = [pdmask EXCEPT ![blt] = was.pdmask, ![t] = now.pdmask]
       /\ bl_priority' = [bl_priority EXCEPT ![o] = blpr]
       /\ rtr_dist' = prio_add_entry(
                          prio_move_entry(rtr_dist, priority[blt], was.priority),
                          now.priority)
       /\ UNCHANGED <<base_priority, walk>>

(* The waiters at the head of a lock's queue that asked to read. *)
ReaderPlaces(o) ==
    {k \in DOMAIN queue[o] : \A j \in 1..k : retval[queue[o][j]] = 1}

FirstReaders(o) == {queue[o][k] : k \in ReaderPlaces(o)}

(* wakeup_thread_queue_multi_transfer: the readers at the head of the      *)
(* queue take over from a writer; one alone is registered as the owner.    *)
wakeup_thread_queue_multi_transfer(o) ==
    LET ts == FirstReaders(o)
        rest == SubSeq(queue[o], Cardinality(ReaderPlaces(o)) + 1, Len(queue[o]))
        blt == owner[o]
        blpr == IF Cardinality(ts) > 1 \/ priority[Head(queue[o])] <= bl_priority[o]
                THEN wait_queue_find_priority(rest, priority)
                ELSE bl_priority[o]
        was == Disinherit(blt, bl_priority[o])
    IN /\ Unlink(ts, o, rest)
       /\ mask' = [mask EXCEPT ![o] = @ \cup ts]
       /\ owner' = [owner EXCEPT ![o] = IF Cardinality(ts) > 1 THEN None
                                        ELSE Head(queue[o])]
       /\ priority' = [t \in Threads |-> IF t = blt THEN was.priority
                                         ELSE IF t \in ts THEN Inherit(t, blpr).priority
                                         ELSE priority[t]]
       /\ pdist' = [t \in Threads |-> IF t = blt THEN was.pdist
                                      ELSE IF t \in ts THEN Inherit(t, blpr).pdist
                                      ELSE pdist[t]]
       /\ pdmask' = [t \in Threads |-> IF t = blt THEN was.pdmask
                                       ELSE IF t \in ts THEN Inherit(t, blpr).pdmask
                                       ELSE pdmask[t]]
       /\ bl_priority' = [bl_priority EXCEPT ![o] = blpr]
       /\ rtr_dist' = [p \in Priorities |->
              prio_move_entry(rtr_dist, priority[blt], was.priority)[p]
                + Cardinality({t \in ts : priority'[t] = p})]
       /\ UNCHANGED <<base_priority, walk>>

(* wakeup_thread_release: t no longer waits for the owner of o. *)
wakeup_thread_release(t, o) ==
    /\ Unlink({t}, o, Without(queue[o], t))
    /\ rtr_dist' = prio_add_entry(rtr_dist, priority[t])
    /\ LET new == wait_queue_find_priority(Without(queue[o], t), priority)
       IN IF priority[t] > bl_priority[o] \/ new = bl_priority[o]
          THEN UNCHANGED walk ELSE StartWalk(o, new)
    /\ UNCHANGED <<ownVars, priority, base_priority, pdist, pdmask, bl_priority>>

(* Mutant: a thread that runs already is added to the run queue again. *)
wakeup_thread_anyway(t, o) ==
    /\ Unlink({t}, o, Without(queue[o], t))
    /\ rtr_dist' = prio_add_entry(rtr_dist, priority[t])
    /\ UNCHANGED <<ownVars, priority, base_priority, pdist, pdmask, bl_priority,
                   walk>>

(* wakeup_thread_ without a blocker.  A thread whose wait has timed out    *)
(* already runs: it is only unlinked, which tells it that it was woken.    *)
wakeup_thread_default(t, o) ==
    /\ Unlink({t}, o, Without(queue[o], t))
    /\ rtr_dist' = IF state[t] = "running" THEN rtr_dist
                   ELSE prio_add_entry(rtr_dist, priority[t])
    /\ UNCHANGED <<ownVars, priority, base_priority, pdist, pdmask, bl_priority,
                   walk>>

(* Mutant: the expired thread is taken off the wait queue, too. *)
check_tmo_expired_unlinking(t) ==
    /\ walk = <<>>
    /\ state[t] = "blocked_w_tmo"
    /\ state' = [state EXCEPT ![t] = "running"]
    /\ wqp' = [wqp EXCEPT ![t] = None]
    /\ queue' = [queue EXCEPT ![wqp[t]] = Without(@, t)]
    /\ rtr_dist' = prio_add_entry(rtr_dist, priority[t])
    /\ UNCHANGED <<blocker, retval, ownVars, priority, base_priority, pdist,
                   pdmask, bl_priority, walk>>

(* check_tmo_expired: the time of a timed wait is up.  The thread runs and *)
(* stays linked to the wait queue.                                         *)
check_tmo_expired(t) ==
    /\ walk = <<>>
    /\ state[t] = "blocked_w_tmo"
    /\ state' = [state EXCEPT ![t] = "running"]
    /\ rtr_dist' = prio_add_entry(rtr_dist, priority[t])
    /\ UNCHANGED <<wqp, blocker, retval, queue, ownVars, priority,
                   base_priority, pdist, pdmask, bl_priority, walk>>

-----------------------------------------------------------------------------
(* thread_set_priority, of t by a thread that runs. *)
thread_set_priority(t, p) ==
    LET d == prio_move_entry(pdist[t], base_priority[t], p)
        m == mask_add_entry(mask_subtract_entry(pdmask[t], pdist[t], base_priority[t]),
                            prio_subtract_entry(pdist[t], base_priority[t]), p)
        best == Best(m)
        o == blocker[t]
        newblpr == IF best < bl_priority[o] THEN best
                   ELSE IF priority[t] <= bl_priority[o]
                        THEN wait_queue_find_priority(queue[o],
                                 [priority EXCEPT ![t] = best])
                        ELSE bl_priority[o]
    IN /\ walk = <<>>
       /\ p # base_priority[t]
       /\ base_priority' = [base_priority EXCEPT ![t] = p]
       /\ pdist' = [pdist EXCEPT ![t] = d]
       /\ pdmask' = [pdmask EXCEPT ![t] = m]
       /\ priority' = [priority EXCEPT ![t] = best]
       /\ rtr_dist' = IF state[t] = "running"
                      THEN prio_move_entry(rtr_dist, priority[t], best)
                      ELSE rtr_dist
       /\ IF \/ best = priority[t]
             \/ state[t] = "running"
             \/ o = None
             \/ newblpr = bl_priority[o]
          THEN UNCHANGED walk ELSE StartWalk(o, newblpr)
       /\ UNCHANGED <<waitVars, ownVars, bl_priority>>

-----------------------------------------------------------------------------
ThreadsInit(base, owns) ==
    /\ state = [t \in Threads |-> "running"]
    /\ wqp = [t \in Threads |-> None]
    /\ blocker = [t \in Threads |-> None]
    /\ retval = [t \in Threads |-> 0]
    /\ queue = [o \in Objects |-> <<>>]
    /\ owner = [o \in Blockers |-> IF o \in Queues THEN owns[o] ELSE None]
    /\ mask = [o \in Blockers |-> {}]
    /\ priority = base
    /\ base_priority = base
    /\ pdist = [t \in Threads |-> Entry(base[t])]
    /\ pdmask = [t \in Threads |-> {base[t]}]
    /\ bl_priority = [o \in Blockers |-> PRIORITY_IDLE]
    /\ rtr_dist = [p \in Priorities |-> Cardinality({t \in Threads : base[t] = p})]
    /\ walk = <<>>

ThreadsTypeOK ==
    /\ state \in [Threads -> {"running", "blocked", "blocked_w_tmo"}]
    /\ wqp \in [Threads -> Objects \cup {None}]
    /\ blocker \in [Threads -> Blockers \cup {None}]
    /\ retval \in [Threads -> {0, 1}]
    /\ queue \in [Objects -> Seq(Threads)]
    /\ owner \in [Blockers -> Threads \cup {None}]
    /\ mask \in [Blockers -> SUBSET Threads]
    /\ priority \in [Threads -> Levels]
    /\ base_priority \in [Threads -> Priorities]
    /\ pdist \in [Threads -> [Priorities -> Int]]
    /\ pdmask \in [Threads -> SUBSET Priorities]
    /\ bl_priority \in [Blockers -> Levels]
    /\ rtr_dist \in [Priorities -> Nat]

-----------------------------------------------------------------------------
(* Once inherit_priority has run to its end, the priority of an object is  *)
(* the best of the threads that wait for it, and a thread's priority is    *)
(* the best of its own and those of the objects it owns: all that is lent  *)
(* arrives, and all of it is given back.                                   *)
PriorityExact ==
    walk = <<>> =>
      /\ \A o \in Blockers :
           bl_priority[o] = wait_queue_find_priority(queue[o], priority)
      /\ \A t \in Threads :
           priority[t] = Min({base_priority[t]} \cup
                             {bl_priority[o] : o \in {b \in Blockers : t \in Owners(b)}})

(* An owner never has a worse priority than a thread that waits for it:    *)
(* "T1 inherits the higher of T2 and T3" (thread.c, the comment on the     *)
(* protocol).                                                              *)
OwnersInherit ==
    walk = <<>> =>
      \A o \in Blockers : \A t \in ToSet(queue[o]), u \in Owners(o) :
          priority[u] <= priority[t]

(* A lock that threads wait for has the priority of a waiter.  A walk that *)
(* carries PRIORITY_IDLE on (NextBlockerPriority) can break this with four *)
(* threads; the next unlock then counts PRIORITY_IDLE, which changes the   *)
(* mask of the old owner's distribution behind its histogram.              *)
LocksRaised ==
    walk = <<>> =>
      \A o \in Locks : queue[o] # <<>> => bl_priority[o] # PRIORITY_IDLE

(* The run queue's distribution, from which switch_thread takes the best   *)
(* priority it looks for, counts the running threads at the priority they  *)
(* have.                                                                   *)
RunQueueExact ==
    \A p \in Priorities :
        rtr_dist[p] = Cardinality({t \in Threads : state[t] = "running"
                                                   /\ priority[t] = p})
=============================================================================
