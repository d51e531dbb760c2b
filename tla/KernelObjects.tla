--------------------------- MODULE KernelObjects ---------------------------
(***************************************************************************)
(* The kernel objects threads wait on: mutexes (kernel/mutex.c), reader-   *)
(* writer locks (mrsw_lock.c), semaphores (semaphore.c) and, as far as     *)
(* blocking goes, the senders of an event queue (queue.c), together with   *)
(* the priority inheritance of Threads.                                    *)
(*                                                                         *)
(* An operation is one step up to the point where it returns or gives up   *)
(* the processor: threads are cooperative, and where an interrupt could    *)
(* see a semaphore in between, interrupts are disabled.  A thread that was *)
(* blocked comes back in a step of its own (Return, WaitReturn).  Only the *)
(* end of a semaphore wait that was not woken takes two: it looks, with    *)
(* interrupts enabled, and then goes on with interrupts disabled           *)
(* (WaitExpired); in between, interrupts release semaphores and senders.   *)
(*                                                                         *)
(* `reads` and `writes` are what the callers know: how often each has      *)
(* acquired an object and not released it.  They guard releases (a caller  *)
(* releases what it acquired) and the rules of use that the comments give; *)
(* the code's own bookkeeping never looks at them.                         *)
(***************************************************************************)
EXTENDS Threads

CONSTANTS
    QueueOwner,   \* queue -> the thread that owns it
    BasePriority, \* thread -> its first base priority
    SetTo,        \* thread -> priorities thread_set_priority gives it
    Rank,         \* object -> its place in the order callers take objects
    MaxClaims,    \* bound: lock claims of a thread at a time
    MaxCount      \* semaphore -> its max

ASSUME KernelAssumption ==
    /\ QueueOwner \in [Queues -> Threads]
    /\ BasePriority \in [Threads -> Priorities \ {0}]
    /\ SetTo \in [Threads -> SUBSET (Priorities \ {0})]
    /\ Rank \in [Objects -> Nat]
    /\ MaxClaims \in Nat
    /\ MaxCount \in [Semaphores -> Nat]

VARIABLES
    recursion,    \* mutex -> its recursion field
    count,        \* lock of Mrsws or semaphore -> its count field
    rdrecursion,  \* lock of Mrsws -> thread -> repeated read claims
    call,         \* thread -> the blocking call it is in
    reads, writes,
    outcome       \* the wait that has just returned or the release just made

fieldVars == <<recursion, count, rdrecursion>>
vars == <<threadVars, fieldVars, call, reads, writes, outcome>>

NoCall == [obj |-> None, mode |-> "none"]
Quiet == [thread |-> None, semaphore |-> None, ok |-> FALSE]

-----------------------------------------------------------------------------
(* Rules of use *)

(* Thread t runs on: nothing is under way with interrupts disabled, and no *)
(* other thread is between the two steps at the end of its wait.           *)
Runs(t) ==
    /\ walk = <<>>
    /\ state[t] = "running"
    /\ \A u \in Threads : call[u].mode # "late"

CanCall(t) == Runs(t) /\ call[t] = NoCall

Holds(t, o) == reads[o][t] + writes[o][t] > 0

Serves(t) == {q \in Queues : QueueOwner[q] = t}

(* Objects are taken in the order of their ranks, so that no circle of     *)
(* waiting threads arises ("those are prevented, right?", thread.c).       *)
InOrder(t, o) ==
    \A p \in Serves(t) \cup {l \in Locks : Holds(t, l)} : Rank[p] < Rank[o]

(* The claims t has made on locks and not given back. *)
Claims(t) == FoldSet(LAMBDA o, n : n + reads[o][t] + writes[o][t], 0, Locks)

-----------------------------------------------------------------------------
Blocks(t, o, m) ==
    /\ block_thread(t, o, "blocked")
    /\ call' = [call EXCEPT ![t] = [obj |-> o, mode |-> m]]
    /\ UNCHANGED <<fieldVars, reads, writes>>

Reads(t, o, n) == reads' = [reads EXCEPT ![o][t] = @ + n] /\ UNCHANGED <<writes, call>>
Writes(t, o, n) == writes' = [writes EXCEPT ![o][t] = @ + n] /\ UNCHANGED <<reads, call>>

(* An open object changes hands without anybody waiting. *)
SetOwner(o, t) ==
    /\ owner' = [owner EXCEPT ![o] = t]
    /\ UNCHANGED <<waitVars, mask, prioVars>>

mutex_lock(t, m) ==
    /\ CanCall(t)
    /\ Claims(t) < MaxClaims
    /\ Holds(t, m) \/ InOrder(t, m)
    /\ \/ /\ owner[m] = t
          /\ recursion' = [recursion EXCEPT ![m] = @ + 1]
          /\ Writes(t, m, 1)
          /\ UNCHANGED <<threadVars, count, rdrecursion>>
       \/ /\ owner[m] = None
          /\ SetOwner(m, t)
          /\ Writes(t, m, 1)
          /\ UNCHANGED fieldVars
       \/ /\ owner[m] \notin {t, None}
          /\ UNCHANGED retval
          /\ Blocks(t, m, "write")

mutex_unlock(t, m) ==
    /\ CanCall(t)
    /\ writes[m][t] > 0
    /\ Writes(t, m, -1)
    /\ \/ /\ recursion[m] > 0
          /\ recursion' = [recursion EXCEPT ![m] = @ - 1]
          /\ UNCHANGED <<threadVars, count, rdrecursion>>
       \/ /\ recursion[m] = 0 /\ queue[m] = <<>>
          /\ SetOwner(m, None)
          /\ UNCHANGED fieldVars
       \/ /\ recursion[m] = 0 /\ queue[m] # <<>>
          /\ wakeup_thread_transfer(m)
          /\ UNCHANGED <<mask, fieldVars>>

-----------------------------------------------------------------------------
(* Reader-writer locks *)

SetCount(o, c) == count' = [count EXCEPT ![o] = c]

IsWriter(t, l) == owner[l] = t /\ count[l] < 0

(* Mutant: a reader gets in while a writer waits. *)
OpenToReadersAlways(l) == count[l] >= 0

OpenToReaders(l) == count[l] >= 0 /\ queue[l] = <<>>

mrsw_reader_claim(t, l, c) ==
    /\ mask' = [mask EXCEPT ![l] = @ \cup {t}]
    /\ owner' = [owner EXCEPT ![l] = IF c = 1 THEN t ELSE None]
    /\ UNCHANGED <<waitVars, prioVars>>

mrsw_read_acquire(t, l) ==
    /\ CanCall(t)
    /\ Claims(t) < MaxClaims
    /\ Holds(t, l) \/ InOrder(t, l)
    /\ \/ /\ IsWriter(t, l)
          /\ Reads(t, l, 1)
          /\ UNCHANGED <<threadVars, fieldVars>>
       \/ /\ ~IsWriter(t, l) /\ t \in mask[l]
          /\ rdrecursion' = [rdrecursion EXCEPT ![l][t] = @ + 1]
          /\ Reads(t, l, 1)
          /\ UNCHANGED <<threadVars, recursion, count>>
       \/ /\ ~IsWriter(t, l) /\ t \notin mask[l] /\ OpenToReaders(l)
          /\ SetCount(l, count[l] + 1)
          /\ mrsw_reader_claim(t, l, count[l] + 1)
          /\ Reads(t, l, 1)
          /\ UNCHANGED <<recursion, rdrecursion>>
       \/ /\ ~IsWriter(t, l) /\ t \notin mask[l] /\ ~OpenToReaders(l)
          /\ retval' = [retval EXCEPT ![t] = 1]
          /\ Blocks(t, l, "read")

(* The lock's owner without reader t: the last one left is registered. *)
OwnerWithout(t, l) ==
    CASE count[l] = 1 -> None
      [] count[l] = 2 -> CHOOSE u \in mask[l] \ {t} : TRUE
      [] OTHER -> owner[l]

(* Another reader remains, or nobody waits. *)
mrsw_reader_relinquish(t, l) ==
    /\ mask' = [mask EXCEPT ![l] = @ \ {t}]
    /\ owner' = [owner EXCEPT ![l] = OwnerWithout(t, l)]
    /\ LET now == IF queue[l] # <<>> /\ count[l] > 1
                  THEN Disinherit(t, bl_priority[l])
                  ELSE Kept(t)
       IN /\ pdist' = [pdist EXCEPT ![t] = now.pdist]
          /\ pdmask' = [pdmask EXCEPT ![t] = now.pdmask]
          /\ priority' = [priority EXCEPT ![t] = now.priority]
          /\ rtr_dist' = prio_move_entry(rtr_dist, priority[t], now.priority)
    /\ UNCHANGED <<waitVars, base_priority, bl_priority, walk>>

mrsw_read_release(t, l) ==
    /\ CanCall(t)
    /\ reads[l][t] > 0
    /\ Reads(t, l, -1)
    /\ \/ /\ IsWriter(t, l)
          /\ UNCHANGED <<threadVars, fieldVars>>
       \/ /\ ~IsWriter(t, l) /\ rdrecursion[l][t] > 0
          /\ rdrecursion' = [rdrecursion EXCEPT ![l][t] = @ - 1]
          /\ UNCHANGED <<threadVars, recursion, count>>
       \/ /\ ~IsWriter(t, l) /\ rdrecursion[l][t] = 0
          /\ count[l] = 1 /\ queue[l] # <<>>
          /\ SetCount(l, -1)
          /\ wakeup_thread_transfer(l)
          /\ mask' = [mask EXCEPT ![l] = @ \ {t}]
          /\ UNCHANGED <<recursion, rdrecursion>>
       \/ /\ ~IsWriter(t, l) /\ rdrecursion[l][t] = 0
          /\ ~(count[l] = 1 /\ queue[l] # <<>>)
          /\ SetCount(l, count[l] - 1)
          /\ mrsw_reader_relinquish(t, l)
          /\ UNCHANGED <<recursion, rdrecursion>>

(* A caller that holds read access does not ask for write access: it would *)
(* wait for itself (the comment on mrsw_write_acquire).                    *)
mrsw_write_acquire(t, l) ==
    /\ CanCall(t)
    /\ Claims(t) < MaxClaims
    /\ writes[l][t] > 0 \/ (~Holds(t, l) /\ InOrder(t, l))
    /\ \/ /\ owner[l] = t
          /\ SetCount(l, count[l] - 1)
          /\ Writes(t, l, 1)
          /\ UNCHANGED <<threadVars, recursion, rdrecursion>>
       \/ /\ owner[l] # t /\ count[l] = 0
          /\ SetCount(l, -1)
          /\ SetOwner(l, t)
          /\ Writes(t, l, 1)
          /\ UNCHANGED <<recursion, rdrecursion>>
       \/ /\ owner[l] # t /\ count[l] # 0
          /\ retval' = [retval EXCEPT ![t] = 0]
          /\ Blocks(t, l, "write")

(* Mutant: the count of the readers woken is one short. *)
WokenLessOne(l) == Cardinality(FirstReaders(l)) - 1

Woken(l) == Cardinality(FirstReaders(l))

(* Read claims made while writing are given back before the writer leaves. *)
mrsw_write_release(t, l) ==
    /\ CanCall(t)
    /\ writes[l][t] > 0
    /\ writes[l][t] = 1 => reads[l][t] = 0
    /\ Writes(t, l, -1)
    /\ UNCHANGED <<recursion, rdrecursion>>
    /\ \/ /\ count[l] < -1
          /\ SetCount(l, count[l] + 1)
          /\ UNCHANGED threadVars
       \/ /\ count[l] >= -1 /\ queue[l] = <<>>
          /\ SetCount(l, 0)
          /\ SetOwner(l, None)
       \/ /\ count[l] >= -1 /\ queue[l] # <<>>
          /\ retval[Head(queue[l])] = 0
          /\ wakeup_thread_transfer(l)
          /\ UNCHANGED <<mask, count>>
       \/ /\ count[l] >= -1 /\ queue[l] # <<>>
          /\ retval[Head(queue[l])] = 1
          /\ SetCount(l, Woken(l))
          /\ wakeup_thread_queue_multi_transfer(l)

-----------------------------------------------------------------------------
(* Senders of a queue: queue_send blocks on the queue's blocker, whose     *)
(* owner is the queue's thread; a reply, or an interrupt whose message     *)
(* overwrites the sender's, releases it (EventQueue has the queue itself). *)
queue_send(t, q) ==
    /\ CanCall(t)
    /\ t # QueueOwner[q]
    /\ InOrder(t, q)
    /\ UNCHANGED retval
    /\ Blocks(t, q, "send")

queue_release_sender(t, q) ==
    /\ walk = <<>>
    /\ t \in ToSet(queue[q])
    /\ wakeup_thread_release(t, q)
    /\ UNCHANGED <<fieldVars, call, reads, writes>>

-----------------------------------------------------------------------------
(* Semaphores *)

Outcome(t, s, ok) == outcome' = [thread |-> t, semaphore |-> s, ok |-> ok]

(* timeout is "none" (poll), "some" (ticks) or "ever".  A caller does not  *)
(* wait for ever while somebody may wait for it.                           *)
semaphore_wait(t, s, timeout) ==
    /\ CanCall(t)
    /\ timeout = "ever" => \A o \in Locks : ~Holds(t, o)
    /\ UNCHANGED <<recursion, rdrecursion, reads, writes>>
    /\ \/ /\ count[s] > 0
          /\ SetCount(s, count[s] - 1)
          /\ Outcome(t, s, TRUE)
          /\ UNCHANGED <<threadVars, call>>
       \/ /\ count[s] <= 0 /\ timeout = "none"
          /\ Outcome(t, s, FALSE)
          /\ UNCHANGED <<threadVars, count, call>>
       \/ /\ count[s] <= 0 /\ timeout # "none"
          /\ block_thread(t, s, IF timeout = "some" THEN "blocked_w_tmo" ELSE "blocked")
          /\ call' = [call EXCEPT ![t] = [obj |-> s, mode |-> "wait"]]
          /\ outcome' = Quiet
          /\ UNCHANGED <<count, retval>>

(* semaphore_wait once the thread runs again.  Its queue pointer, read     *)
(* with interrupts enabled, tells whether it was woken.                    *)
WaitReturn(t) ==
    LET s == call[t].obj
    IN /\ Runs(t)
       /\ call[t].mode = "wait"
       /\ UNCHANGED <<threadVars, fieldVars, reads, writes>>
       /\ \/ /\ wqp[t] = None
             /\ call' = [call EXCEPT ![t] = NoCall]
             /\ Outcome(t, s, TRUE)
          \/ /\ wqp[t] # None
             /\ call' = [call EXCEPT ![t] = [obj |-> s, mode |-> "late"]]
             /\ outcome' = Quiet

(* The rest of semaphore_wait, with interrupts disabled: if it is still    *)
(* linked it takes itself off the queue, and a late count with it.  If an  *)
(* interrupt has woken it since it looked, it still says timed out.        *)
WaitExpired(t) ==
    LET s == call[t].obj
        linked == wqp[t] # None
    IN /\ walk = <<>>
       /\ state[t] = "running"
       /\ call[t].mode = "late"
       /\ call' = [call EXCEPT ![t] = NoCall]
       /\ wqp' = [wqp EXCEPT ![t] = None]
       /\ queue' = [queue EXCEPT ![s] = IF linked THEN Without(@, t) ELSE @]
       /\ SetCount(s, IF linked /\ count[s] > 0 THEN count[s] - 1 ELSE count[s])
       /\ Outcome(t, s, linked /\ count[s] > 0)
       /\ UNCHANGED <<state, blocker, retval, ownVars, prioVars, recursion, rdrecursion,
                      reads, writes>>

(* By a thread or an interrupt handler. *)
semaphore_release(s) ==
    /\ walk = <<>>
    /\ Outcome(None, s, TRUE)
    /\ UNCHANGED <<recursion, rdrecursion, call, reads, writes>>
    /\ \/ /\ queue[s] # <<>>
          /\ wakeup_thread_default(Head(queue[s]), s)
          /\ UNCHANGED count
       \/ /\ queue[s] = <<>>
          /\ SetCount(s, IF count[s] < MaxCount[s] THEN count[s] + 1 ELSE count[s])
          /\ UNCHANGED threadVars

-----------------------------------------------------------------------------
(* The scheduler comes back to a thread that was woken: it has its lock.   *)
Return(t) ==
    LET c == call[t]
    IN /\ Runs(t)
       /\ c.mode \in {"read", "write", "send"}
       /\ call' = [call EXCEPT ![t] = NoCall]
       /\ reads' = IF c.mode = "read" THEN [reads EXCEPT ![c.obj][t] = @ + 1] ELSE reads
       /\ writes' = IF c.mode = "write" THEN [writes EXCEPT ![c.obj][t] = @ + 1] ELSE writes
       /\ UNCHANGED <<threadVars, fieldVars>>

SetPriority(t, p) ==
    /\ \E u \in Threads : CanCall(u)
    /\ thread_set_priority(t, p)
    /\ UNCHANGED <<fieldVars, call, reads, writes>>

Inheritance ==
    /\ inherit_priority
    /\ UNCHANGED <<fieldVars, call, reads, writes>>

(* By the thread that gives up the processor. *)
Expire(t) ==
    /\ \A u \in Threads : call[u].mode # "late"
    /\ check_tmo_expired(t)
    /\ UNCHANGED <<fieldVars, call, reads, writes>>

Init ==
    /\ ThreadsInit(BasePriority, QueueOwner)
    /\ recursion = [m \in Mutexes |-> 0]
    /\ count = [o \in Mrsws \cup Semaphores |-> 0]
    /\ rdrecursion = [l \in Mrsws |-> [t \in Threads |-> 0]]
    /\ call = [t \in Threads |-> NoCall]
    /\ reads = [o \in Locks |-> [t \in Threads |-> 0]]
    /\ writes = [o \in Locks |-> [t \in Threads |-> 0]]
    /\ outcome = Quiet

(* Steps that say nothing about a semaphore's outcome. *)
OtherStep ==
    \/ Inheritance
    \/ \E t \in Threads :
         \/ Return(t)
         \/ Expire(t)
         \/ \E p \in SetTo[t] : SetPriority(t, p)
         \/ \E m \in Mutexes : mutex_lock(t, m) \/ mutex_unlock(t, m)
         \/ \E l \in Mrsws : \/ mrsw_read_acquire(t, l) \/ mrsw_read_release(t, l)
                             \/ mrsw_write_acquire(t, l) \/ mrsw_write_release(t, l)
         \/ \E q \in Queues : queue_send(t, q) \/ queue_release_sender(t, q)

SemaphoreStep ==
    \/ \E s \in Semaphores : semaphore_release(s)
    \/ \E t \in Threads :
         \/ WaitReturn(t)
         \/ WaitExpired(t)
         \/ \E s \in Semaphores, timeout \in {"none", "some", "ever"} :
                semaphore_wait(t, s, timeout)

Next == (OtherStep /\ outcome' = Quiet) \/ SemaphoreStep

Spec == Init /\ [][Next]_vars

-----------------------------------------------------------------------------
TypeOK ==
    /\ ThreadsTypeOK
    /\ recursion \in [Mutexes -> Nat]
    /\ count \in [Mrsws \cup Semaphores -> Int]
    /\ rdrecursion \in [Mrsws -> [Threads -> Nat]]
    /\ call \in [Threads -> [obj : Objects \cup {None},
                             mode : {"none", "read", "write", "send", "wait", "late"}]]
    /\ reads \in [Locks -> [Threads -> Nat]]
    /\ writes \in [Locks -> [Threads -> Nat]]

-----------------------------------------------------------------------------
(* Refinement *)

(* A thread acts as holder from the moment it may run again. *)
Comes(t, o, m) == state[t] = "running" /\ call[t] = [obj |-> o, mode |-> m]

(* A writer that also reads is a writer. *)
ReadersOf(o) ==
    {t \in Threads : (reads[o][t] > 0 /\ writes[o][t] = 0) \/ Comes(t, o, "read")}
WritersOf(o) == {t \in Threads : writes[o][t] > 0 \/ Comes(t, o, "write")}

Line(o) ==
    [i \in DOMAIN queue[o] |->
        [thread |-> queue[o][i], mode |-> call[queue[o][i]].mode]]

L == INSTANCE FairLocks WITH
        readers <- [o \in Locks |-> ReadersOf(o)],
        writers <- [o \in Locks |-> WritersOf(o)],
        line <- [o \in Locks |-> Line(o)]

(* Mutexes and reader-writer locks as their callers see them: exclusive,   *)
(* in the order of arrival, never free while somebody waits, through       *)
(* nested claims and the hand-over of ownership at a release.              *)
ImplementsFairLocks == L!Spec

Waiters(s) == {t \in Threads : call[t].obj = s}

(* Those still linked to the semaphore, those that were woken, and those   *)
(* of both that have looked and gone on without.                           *)
Waiting(s) == {t \in Waiters(s) : wqp[t] = s}
Given(s) == {t \in Waiters(s) : wqp[t] = None}
Late(s) == {t \in Waiters(s) : call[t].mode = "late"}

P == INSTANCE Permits WITH
        permits <- [s \in Semaphores |-> count[s]],
        waiting <- [s \in Semaphores |-> Waiting(s)],
        given <- [s \in Semaphores |-> Given(s)],
        late <- [s \in Semaphores |-> Late(s)]

(* semaphore_release against a wait that times out: each release gives one *)
(* permit to one wait or keeps it, and no permit is given twice.  The wait *)
(* returns success exactly if it was given one, whether or not its time    *)
(* was up, with one exception, which the code has: a wait whose time was   *)
(* up has seen that it was not woken, and an interrupt wakes it before it  *)
(* disables interrupts.  It says timed out, and that permit is lost.       *)
ImplementsPermits == P!Spec

(* The bookkeeping of a lock agrees with its callers: a mutex's recursion, *)
(* a lock's count (how many readers, or minus the writer's depth), the     *)
(* splay and each reader's own recursion say exactly what the callers hold *)
(* or have just been handed; and all state is of its type.                 *)
BookkeepingExact ==
    /\ TypeOK
    /\ \A m \in Mutexes : \A t \in Threads :
         writes[m][t] > 0 => owner[m] = t /\ recursion[m] = writes[m][t] - 1
    /\ \A l \in Mrsws :
         /\ mask[l] = ReadersOf(l)
         /\ WritersOf(l) = {} => count[l] = Cardinality(ReadersOf(l))
         /\ \A t \in Threads :
              /\ writes[l][t] > 0 => owner[l] = t /\ count[l] = -writes[l][t]
              /\ t \in mask[l] /\ reads[l][t] > 0 =>
                   rdrecursion[l][t] = reads[l][t] - 1

-----------------------------------------------------------------------------
(* The inductive invariant behind the properties above.                    *)

WaitTypes ==
    /\ state \in [Threads -> {"running", "blocked", "blocked_w_tmo"}]
    /\ wqp \in [Threads -> Objects \cup {None}]
    /\ blocker \in [Threads -> Blockers \cup {None}]
    /\ retval \in [Threads -> {0, 1}]
    /\ queue \in [Objects -> Seq(Threads)]
    /\ call \in [Threads -> [obj : Objects \cup {None},
                             mode : {"none", "read", "write", "send", "wait", "late"}]]

LockTypes ==
    /\ owner \in [Blockers -> Threads \cup {None}]
    /\ mask \in [Blockers -> SUBSET Threads]
    /\ recursion \in [Mutexes -> Nat]
    /\ count \in [Mrsws \cup Semaphores -> Int]
    /\ rdrecursion \in [Mrsws -> [Threads -> Nat]]
    /\ reads \in [Locks -> [Threads -> Nat]]
    /\ writes \in [Locks -> [Threads -> Nat]]

(* What a blocking call waits for, by its mode. *)
Waited(mode) == CASE mode = "write" -> Locks
                  [] mode = "read" -> Mrsws
                  [] mode = "send" -> Queues
                  [] mode \in {"wait", "late"} -> Semaphores
                  [] OTHER -> {None}

(* A thread is linked to what its call waits for until it is woken; only a *)
(* timed wait on a semaphore runs while it is linked.                      *)
Linked ==
    \A t \in Threads :
        /\ call[t].obj \in Waited(call[t].mode)
        /\ wqp[t] \in {None, call[t].obj}
        /\ blocker[t] = IF call[t].mode \in {"wait", "late"} THEN None ELSE wqp[t]
        /\ wqp[t] = None => state[t] = "running"
        /\ wqp[t] \in Blockers => state[t] = "blocked"
        /\ retval[t] = IF wqp[t] # None /\ call[t].mode = "read" THEN 1 ELSE 0

NoDuplicates(q) == \A i, j \in DOMAIN q : q[i] = q[j] => i = j

(* A wait queue holds the threads that are linked to it, each once. *)
QueueExact(o) ==
    /\ NoDuplicates(queue[o])
    /\ ToSet(queue[o]) = {t \in Threads : wqp[t] = o}

(* A mutex is owned by the one thread that has locked it, or has just been *)
(* handed it; nobody waits for one that is free.                           *)
MutexExact(m) ==
    /\ mask[m] = {}
    /\ \A t \in Threads :
        /\ reads[m][t] = 0
        /\ owner[m] = t <=> t \in WritersOf(m)
        /\ writes[m][t] > 0 => recursion[m] = writes[m][t] - 1
        /\ call[t].obj = m => writes[m][t] = 0
    /\ (\A t \in Threads : writes[m][t] = 0) => recursion[m] = 0
    /\ owner[m] = None => queue[m] = <<>>

(* A reader-writer lock counts its readers, or its writer's depth.  Behind *)
(* readers only a writer can be the first in line.                         *)
MrswExact(l) ==
    /\ mask[l] = ReadersOf(l)
    /\ count[l] < 0 => /\ ReadersOf(l) = {} /\ WritersOf(l) = {owner[l]}
                       /\ count[l] = IF writes[l][owner[l]] > 0
                                     THEN -writes[l][owner[l]] ELSE -1
    /\ count[l] >= 0 => /\ WritersOf(l) = {}
                        /\ count[l] = Cardinality(ReadersOf(l))
                        /\ count[l] # 1 => owner[l] = None
    /\ count[l] = 0 => queue[l] = <<>>
    /\ count[l] = 1 => ReadersOf(l) = {owner[l]}
    /\ count[l] > 0 /\ queue[l] # <<>> => retval[Head(queue[l])] = 0
    /\ \A t \in Threads :
        /\ call[t].obj = l => reads[l][t] = 0 /\ writes[l][t] = 0
        /\ rdrecursion[l][t] = IF reads[l][t] > 0 /\ writes[l][t] = 0
                               THEN reads[l][t] - 1 ELSE 0

(* A semaphore that can be taken has nobody waiting. *)
SemaphoreExact(s) ==
    /\ count[s] \in 0..MaxCount[s]
    /\ count[s] > 0 => queue[s] = <<>>

ServedExact(q) == owner[q] = QueueOwner[q] /\ mask[q] = {}

ObjectsInv ==
    /\ WaitTypes /\ LockTypes /\ Linked
    /\ \A o \in Objects : QueueExact(o)
    /\ \A m \in Mutexes : MutexExact(m)
    /\ \A l \in Mrsws : MrswExact(l)
    /\ \A s \in Semaphores : SemaphoreExact(s)
    /\ \A q \in Queues : ServedExact(q)

-----------------------------------------------------------------------------
(* The inductive invariant of the priorities: who has lent what to whom,   *)
(* also while inherit_priority is on its way.                              *)

(* What holds whatever becomes of the masks. *)
LevelTypes ==
    /\ priority \in [Threads -> Levels]
    /\ base_priority \in [Threads -> Priorities]
    /\ pdist \in [Threads -> [Priorities -> Int]]
    /\ pdmask \in [Threads -> SUBSET Priorities]
    /\ bl_priority \in [Blockers -> Levels]
    /\ walk \in Seq([bl : Blockers, todo : SUBSET Threads, old : Levels, new : Levels,
                     first : Blockers])

(* A histogram never counts below 0, and a thread always has a priority of *)
(* its own.                                                                *)
PriorityTypes ==
    /\ LevelTypes
    /\ priority \in [Threads -> Priorities]
    /\ pdist \in [Threads -> [Priorities -> Nat]]

(* A thread waits only for what is behind all that it has. *)
Ordered ==
    \A t \in Threads, o \in Blockers :
        t \in Owners(o) /\ blocker[t] \in Blockers => Rank[o] < Rank[blocker[t]]

(* The walk goes up the order.  A blocker is given its new priority at the *)
(* first turn for one of its owners.                                       *)
WalkExact ==
    /\ \A i \in DOMAIN walk : LET f == walk[i] IN
         /\ f.todo \subseteq Owners(f.bl)
         /\ Rank[f.first] <= Rank[f.bl]
         /\ \/ bl_priority[f.bl] = f.new
            \/ i = 1 /\ bl_priority[f.bl] = f.old /\ f.todo = Owners(f.bl)
    /\ \A i, j \in DOMAIN walk : i < j => Rank[walk[i].bl] > Rank[walk[j].bl]

(* What blocker o has lent its owner t: the old priority until its turn.   *)
Due(o, t, i) == walk[i].bl = o /\ t \in walk[i].todo

Lends(o, t, p) ==
    \/ \E i \in DOMAIN walk : Due(o, t, i) /\ walk[i].old = p
    \/ bl_priority[o] = p /\ \A i \in DOMAIN walk : ~Due(o, t, i)

Lenders(t, p) == {o \in Blockers : t \in Owners(o) /\ Lends(o, t, p)}

(* A thread's histogram is its own entry and one for each blocker it owns  *)
(* that has lent it something.                                             *)
Accounted ==
    \A t \in Threads, p \in Priorities :
        pdist[t][p] = Cardinality(Lenders(t, p)) + (IF base_priority[t] = p THEN 1 ELSE 0)

(* The mask tells which entries there are, and a thread's priority is the  *)
(* best of them.                                                           *)
Effective ==
    \A t \in Threads : pdmask[t] = Entries(pdist[t]) /\ priority[t] = Best(pdmask[t])

(* The priority a blocker has or is about to be given is not better than   *)
(* what the threads that wait for it justify.                              *)
Claim(o) == IF walk # <<>> /\ Head(walk).bl = o THEN Head(walk).new ELSE bl_priority[o]

Justified ==
    \A o \in Blockers : \/ Claim(o) = PRIORITY_IDLE
                        \/ \E t \in Threads : wqp[t] = o /\ priority[t] <= Claim(o)

(* What holds as long as no unlock counts PRIORITY_IDLE (LocksRaised).     *)
PrioritiesInv ==
    PriorityTypes /\ Ordered /\ WalkExact /\ Accounted /\ Effective /\ Justified

=============================================================================
