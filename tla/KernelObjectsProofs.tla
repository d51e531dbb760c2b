------------------------ MODULE KernelObjectsProofs ------------------------
(***************************************************************************)
(* Mutexes, reader-writer locks and semaphores, for any threads, objects   *)
(* and bounds: their bookkeeping agrees with their callers, and they       *)
(* implement FairLocks and Permits.                                        *)
(***************************************************************************)
EXTENDS KernelObjects, FiniteSetTheorems, SequenceTheorems, TLAPS

-----------------------------------------------------------------------------
(* Wait queues                                                             *)

LEMMA Appended ==
    ASSUME NEW q \in Seq(Threads), NEW t \in Threads, t \notin ToSet(q), NoDuplicates(q)
    PROVE  /\ Append(q, t) \in Seq(Threads)
           /\ ToSet(Append(q, t)) = ToSet(q) \cup {t}
           /\ NoDuplicates(Append(q, t))
           /\ Append(q, t) # <<>>
           /\ q # <<>> => Head(Append(q, t)) = Head(q)
           /\ q = <<>> => Head(Append(q, t)) = t
<1>1. /\ Append(q, t) \in Seq(Threads) /\ Len(Append(q, t)) = Len(q) + 1 /\ Len(q) \in Nat
      /\ Append(q, t)[Len(q) + 1] = t /\ \A i \in 1..Len(q) : Append(q, t)[i] = q[i]
      /\ DOMAIN q = 1..Len(q) /\ DOMAIN Append(q, t) = 1..(Len(q) + 1)
  OBVIOUS
<1>2. ToSet(Append(q, t)) = ToSet(q) \cup {t}
  BY <1>1 DEF ToSet
<1>3. \A i \in 1..Len(q) : q[i] # t
  BY <1>1 DEF ToSet
<1>4. NoDuplicates(Append(q, t))
  <2> SUFFICES ASSUME NEW i \in 1..(Len(q) + 1), NEW j \in 1..(Len(q) + 1),
                      Append(q, t)[i] = Append(q, t)[j]
               PROVE  i = j
    BY <1>1 DEF NoDuplicates
  <2>1. i \in 1..Len(q) \/ i = Len(q) + 1
    BY <1>1
  <2>2. j \in 1..Len(q) \/ j = Len(q) + 1
    BY <1>1
  <2> QED
    BY <1>1, <1>3, <2>1, <2>2 DEF NoDuplicates
<1>5. q # <<>> => Head(Append(q, t)) = Head(q)
  OBVIOUS
<1>6. q = <<>> => Head(Append(q, t)) = t
  OBVIOUS
<1>7. Append(q, t) # <<>>
  <2>1. Len(Append(q, t)) # 0
    BY <1>1
  <2>2. Len(<<>>) = 0
    OBVIOUS
  <2> QED
    BY <2>1, <2>2, Zenon
<1> QED
  BY <1>1, <1>2, <1>4, <1>5, <1>6, <1>7

(* What is left of a queue without its first n waiters. *)
LEMMA Shortened ==
    ASSUME NEW q \in Seq(Threads), NoDuplicates(q), NEW n \in 0..Len(q)
    PROVE  LET r == SubSeq(q, n + 1, Len(q)) IN
           /\ r \in Seq(Threads)
           /\ ToSet(r) = ToSet(q) \ {q[k] : k \in 1..n}
           /\ NoDuplicates(r)
           /\ Len(r) = Len(q) - n
           /\ \A i \in 1..Len(r) : r[i] = q[i + n]
<1> DEFINE r == SubSeq(q, n + 1, Len(q))
<1>1. Len(q) \in Nat /\ n \in Nat /\ DOMAIN q = 1..Len(q) /\ \A i \in 1..Len(q) : q[i] \in Threads
  OBVIOUS
<1>2. r = [i \in 1..(Len(q) - n) |-> q[i + n]]
  <2>1. r = [i \in 1..((Len(q) - (n + 1)) + 1) |-> q[(i + (n + 1)) - 1]]
    BY <1>1
  <2>2. (Len(q) - (n + 1)) + 1 = Len(q) - n
    BY <1>1
  <2>3. \A i \in 1..(Len(q) - n) : (i + (n + 1)) - 1 = i + n
    BY <1>1
  <2> QED
    BY <2>1, <2>2, <2>3
<1>3. Len(q) - n \in Nat
  BY <1>1
<1>4. \A i \in 1..(Len(q) - n) : i + n \in 1..Len(q)
  BY <1>1
<1>5. r \in Seq(Threads)
  BY <1>1, <1>2, <1>3, <1>4
<1>6. Len(r) = Len(q) - n /\ DOMAIN r = 1..(Len(q) - n)
  BY <1>2, <1>3, <1>5
<1> HIDE DEF r
<1>7. ToSet(r) = ToSet(q) \ {q[k] : k \in 1..n}
  <2>1. ASSUME NEW i \in 1..(Len(q) - n)
        PROVE  r[i] \in ToSet(q) \ {q[k] : k \in 1..n}
    <3>1. r[i] = q[i + n] /\ i + n \in DOMAIN q
      BY <1>1, <1>2, <1>4
    <3>2. ASSUME NEW k \in 1..n, q[i + n] = q[k]
          PROVE  FALSE
      <4>1. k \in DOMAIN q /\ k # i + n
        BY <1>1, <1>3
      <4> QED
        BY <3>1, <3>2, <4>1 DEF NoDuplicates
    <3> QED
      BY <3>1, <3>2 DEF ToSet
  <2>2. ASSUME NEW j \in DOMAIN q, q[j] \notin {q[k] : k \in 1..n}
        PROVE  \E i \in 1..(Len(q) - n) : r[i] = q[j]
    <3>1. j \notin 1..n
      BY <2>2
    <3>2. j - n \in 1..(Len(q) - n) /\ (j - n) + n = j
      BY <1>1, <3>1
    <3> QED
      BY <1>2, <3>2
  <2> QED
    BY <1>6, <2>1, <2>2 DEF ToSet
<1>8. NoDuplicates(r)
  <2> SUFFICES ASSUME NEW i \in 1..(Len(q) - n), NEW j \in 1..(Len(q) - n), r[i] = r[j]
               PROVE  i = j
    BY <1>6 DEF NoDuplicates
  <2>1. q[i + n] = q[j + n] /\ i + n \in DOMAIN q /\ j + n \in DOMAIN q
    BY <1>1, <1>2, <1>4
  <2>2. i + n = j + n
    BY <2>1 DEF NoDuplicates
  <2> QED
    BY <1>1, <2>2
<1>9. \A i \in 1..Len(r) : r[i] = q[i + n]
  BY <1>2, <1>6
<1> QED
  BY <1>5, <1>6, <1>7, <1>8, <1>9 DEF r

LEMMA TailExact ==
    ASSUME NEW q \in Seq(Threads), NoDuplicates(q), q # <<>>
    PROVE  /\ Tail(q) \in Seq(Threads) /\ Head(q) \in Threads /\ Head(q) \in ToSet(q)
           /\ ToSet(Tail(q)) = ToSet(q) \ {Head(q)}
           /\ NoDuplicates(Tail(q))
<1>1. /\ Tail(q) \in Seq(Threads) /\ Head(q) = q[1] /\ 1 \in 1..Len(q)
      /\ Len(q) \in Nat /\ DOMAIN q = 1..Len(q) /\ DOMAIN Tail(q) = 1..(Len(q) - 1)
      /\ \A i \in 1..(Len(q) - 1) : Tail(q)[i] = q[i + 1]
      /\ \A i \in 1..Len(q) : q[i] \in Threads
  OBVIOUS
<1>2. ASSUME NEW i \in 1..(Len(q) - 1)
      PROVE  i + 1 \in DOMAIN q /\ q[i + 1] # q[1]
  <2>1. i + 1 \in DOMAIN q /\ i + 1 # 1 /\ 1 \in DOMAIN q
    BY <1>1
  <2> QED
    BY <2>1 DEF NoDuplicates
<1>3. ASSUME NEW j \in DOMAIN q, q[j] # q[1]
      PROVE  \E i \in 1..(Len(q) - 1) : Tail(q)[i] = q[j]
  <2>1. j # 1
    BY <1>3
  <2>2. j - 1 \in 1..(Len(q) - 1) /\ (j - 1) + 1 = j
    BY <1>1, <2>1
  <2>3. Tail(q)[j - 1] = q[(j - 1) + 1]
    BY <1>1, <2>2
  <2> QED
    BY <2>2, <2>3
<1>4. ToSet(Tail(q)) = ToSet(q) \ {Head(q)}
  <2>1. /\ ToSet(Tail(q)) = {Tail(q)[i] : i \in 1..(Len(q) - 1)}
        /\ ToSet(q) = {q[j] : j \in 1..Len(q)} /\ DOMAIN q = 1..Len(q)
    BY <1>1 DEF ToSet
  <2>2. \A i \in 1..(Len(q) - 1) : i + 1 \in 1..Len(q) /\ Tail(q)[i] = q[i + 1] /\ q[i + 1] # Head(q)
    BY <1>1, <1>2
  <2>3. ToSet(Tail(q)) \subseteq ToSet(q) \ {Head(q)}
    BY <2>1, <2>2
  <2>4. Head(q) = q[1]
    BY <1>1
  <2>5. ToSet(q) \ {Head(q)} \subseteq ToSet(Tail(q))
    BY <1>3, <2>1, <2>4
  <2> QED
    BY <2>3, <2>5
<1>5. NoDuplicates(Tail(q))
  <2> SUFFICES ASSUME NEW i \in 1..(Len(q) - 1), NEW j \in 1..(Len(q) - 1),
                      Tail(q)[i] = Tail(q)[j]
               PROVE  i = j
    BY <1>1 DEF NoDuplicates
  <2>1. i + 1 = j + 1
    BY <1>1, <1>2 DEF NoDuplicates
  <2> QED
    BY <2>1
<1> QED
  BY <1>1, <1>4, <1>5 DEF ToSet

LEMMA WithoutExact ==
    ASSUME NEW q \in Seq(Threads), NoDuplicates(q), NEW t \in ToSet(q)
    PROVE  /\ Without(q, t) \in Seq(Threads)
           /\ ToSet(Without(q, t)) = ToSet(q) \ {t}
           /\ NoDuplicates(Without(q, t))
<1> DEFINE p == CHOOSE i \in DOMAIN q : q[i] = t
           r == Without(q, t)
<1>1. /\ Len(q) \in Nat /\ DOMAIN q = 1..Len(q) /\ \A i \in 1..Len(q) : q[i] \in Threads
  OBVIOUS
<1>2. p \in 1..Len(q) /\ q[p] = t
  BY <1>1 DEF ToSet
<1>3. r = SubSeq(q, 1, p - 1) \o SubSeq(q, p + 1, Len(q))
  BY DEF Without, RemoveAt
<1> HIDE DEF p, r
<1>4. /\ SubSeq(q, 1, p - 1) \in Seq(Threads) /\ Len(SubSeq(q, 1, p - 1)) = p - 1
      /\ \A i \in 1..(p - 1) : SubSeq(q, 1, p - 1)[i] = q[i]
  BY <1>1, <1>2
<1>5. /\ SubSeq(q, p + 1, Len(q)) \in Seq(Threads)
      /\ Len(SubSeq(q, p + 1, Len(q))) = Len(q) - p
      /\ \A i \in 1..(Len(q) - p) : SubSeq(q, p + 1, Len(q))[i] = q[i + p]
  <2>1. p \in 0..Len(q)
    BY <1>1, <1>2
  <2> QED
    BY <2>1, Shortened
<1>6. /\ r \in Seq(Threads) /\ Len(r) = Len(q) - 1 /\ DOMAIN r = 1..(Len(q) - 1)
      /\ \A i \in 1..(Len(q) - 1) : r[i] = IF i < p THEN q[i] ELSE q[i + 1]
  <2>1. /\ r \in Seq(Threads) /\ Len(r) = (p - 1) + (Len(q) - p)
        /\ \A i \in 1..((p - 1) + (Len(q) - p)) :
             r[i] = IF i <= p - 1 THEN SubSeq(q, 1, p - 1)[i]
                    ELSE SubSeq(q, p + 1, Len(q))[i - (p - 1)]
    BY <1>3, <1>4, <1>5, ConcatProperties
  <2>2. (p - 1) + (Len(q) - p) = Len(q) - 1 /\ Len(q) - 1 \in Nat
    BY <1>1, <1>2
  <2>3. ASSUME NEW i \in 1..(Len(q) - 1)
        PROVE  r[i] = IF i < p THEN q[i] ELSE q[i + 1]
    <3>1. CASE i < p
      <4>1. i \in 1..(p - 1) /\ i \in 1..((p - 1) + (Len(q) - p)) /\ i <= p - 1
        BY <1>1, <1>2, <2>2, <3>1
      <4>2. r[i] = SubSeq(q, 1, p - 1)[i]
        BY <2>1, <4>1
      <4> QED
        BY <1>4, <3>1, <4>1, <4>2
    <3>2. CASE ~(i < p)
      <4>1. /\ i - (p - 1) \in 1..(Len(q) - p) /\ (i - (p - 1)) + p = i + 1
            /\ ~(i <= p - 1) /\ i \in 1..((p - 1) + (Len(q) - p))
        BY <1>1, <1>2, <3>2
      <4>2. r[i] = SubSeq(q, p + 1, Len(q))[i - (p - 1)]
        BY <2>1, <4>1
      <4> QED
        BY <1>5, <3>2, <4>1, <4>2
    <3> QED
      BY <3>1, <3>2
  <2> QED
    BY <2>1, <2>2, <2>3
<1>7. ToSet(r) = ToSet(q) \ {t}
  <2>1. ASSUME NEW i \in 1..(Len(q) - 1)
        PROVE  r[i] \in ToSet(q) \ {t}
    <3> DEFINE k == IF i < p THEN i ELSE i + 1
    <3>1. k \in DOMAIN q /\ k # p /\ r[i] = q[k] /\ p \in DOMAIN q
      BY <1>1, <1>2, <1>6
    <3>2. q[k] # t
      BY <1>2, <3>1 DEF NoDuplicates
    <3> QED
      BY <3>1, <3>2 DEF ToSet
  <2>2. ASSUME NEW j \in DOMAIN q, q[j] # t
        PROVE  \E i \in 1..(Len(q) - 1) : r[i] = q[j]
    <3>1. j # p
      BY <1>2, <2>2
    <3> DEFINE i == IF j < p THEN j ELSE j - 1
    <3>2. i \in 1..(Len(q) - 1) /\ (IF i < p THEN i ELSE i + 1) = j
      BY <1>1, <1>2, <3>1
    <3>3. r[i] = q[IF i < p THEN i ELSE i + 1]
      BY <1>6, <3>2
    <3> QED
      BY <3>2, <3>3
  <2>3. ToSet(r) = {r[i] : i \in 1..(Len(q) - 1)} /\ ToSet(q) = {q[j] : j \in DOMAIN q}
    BY <1>6 DEF ToSet
  <2>4. ToSet(r) \subseteq ToSet(q) \ {t}
    BY <2>1, <2>3
  <2>5. ToSet(q) \ {t} \subseteq ToSet(r)
    BY <2>2, <2>3
  <2> QED
    BY <2>4, <2>5
<1>8. NoDuplicates(r)
  <2> SUFFICES ASSUME NEW i \in 1..(Len(q) - 1), NEW j \in 1..(Len(q) - 1), r[i] = r[j]
               PROVE  i = j
    BY <1>6 DEF NoDuplicates
  <2>1. (IF i < p THEN i ELSE i + 1) = (IF j < p THEN j ELSE j + 1)
    <3>1. /\ (IF i < p THEN i ELSE i + 1) \in DOMAIN q /\ (IF j < p THEN j ELSE j + 1) \in DOMAIN q
          /\ q[IF i < p THEN i ELSE i + 1] = q[IF j < p THEN j ELSE j + 1]
      BY <1>1, <1>2, <1>6
    <3> QED
      BY <3>1 DEF NoDuplicates
  <2> QED
    BY <1>1, <1>2, <2>1
<1> QED
  BY <1>6, <1>7, <1>8 DEF r

-----------------------------------------------------------------------------
(* Waiting: how each kind of step leaves threads linked to queues.         *)

WaitInv == WaitTypes /\ Linked /\ \A o \in Objects : QueueExact(o)

LEMMA Apart ==
    /\ None \notin Threads /\ None \notin Objects
    /\ Objects = Mutexes \cup Mrsws \cup Queues \cup Semaphores
    /\ Locks = Mutexes \cup Mrsws /\ Blockers = Mutexes \cup Mrsws \cup Queues
    /\ Mutexes \cap Mrsws = {} /\ Mutexes \cap Queues = {} /\ Mrsws \cap Queues = {}
    /\ Mutexes \cap Semaphores = {} /\ Mrsws \cap Semaphores = {} /\ Queues \cap Semaphores = {}
BY ThreadsAssumption DEF Objects, Blockers, Locks

LEMMA WaitedTypes ==
    /\ Waited("write") = Locks /\ Waited("read") = Mrsws /\ Waited("send") = Queues
    /\ Waited("wait") = Semaphores /\ Waited("late") = Semaphores /\ Waited("none") = {None}
BY DEF Waited

LEMMA WaitSame ==
    ASSUME WaitInv, UNCHANGED waitVars, call' = call
    PROVE  WaitInv'
BY DEF WaitInv, WaitTypes, Linked, QueueExact, waitVars

(* A thread between calls is linked to nothing. *)
LEMMA Idle ==
    ASSUME WaitInv, NEW t \in Threads, call[t] = NoCall
    PROVE  /\ wqp[t] = None /\ blocker[t] = None /\ retval[t] = 0 /\ state[t] = "running"
           /\ \A o \in Objects : t \notin ToSet(queue[o])
<1>1. wqp[t] = None
  BY DEF WaitInv, Linked, NoCall
<1>2. blocker[t] = None /\ retval[t] = 0 /\ state[t] = "running"
  BY <1>1 DEF WaitInv, Linked, NoCall
<1> QED
  BY <1>1, <1>2, Apart DEF WaitInv, QueueExact

LEMMA BlocksWait ==
    ASSUME WaitInv, NEW t \in Threads, CanCall(t),
           NEW o \in Objects, NEW m \in {"read", "write", "send", "wait"}, o \in Waited(m),
           NEW st, st = "blocked" \/ (st = "blocked_w_tmo" /\ o \in Semaphores),
           block_thread(t, o, st),
           call' = [call EXCEPT ![t] = [obj |-> o, mode |-> m]],
           retval' = [retval EXCEPT ![t] = IF m = "read" THEN 1 ELSE 0]
    PROVE  WaitInv'
<1>1. /\ wqp[t] = None /\ blocker[t] = None /\ retval[t] = 0
      /\ \A p \in Objects : t \notin ToSet(queue[p])
  BY Idle DEF CanCall, Runs
<1>2. /\ state' = [state EXCEPT ![t] = st] /\ wqp' = [wqp EXCEPT ![t] = o]
      /\ queue' = [queue EXCEPT ![o] = Append(queue[o], t)]
      /\ blocker' = IF o \in Blockers THEN [blocker EXCEPT ![t] = o] ELSE blocker
  BY DEF block_thread
<1>3. /\ queue[o] \in Seq(Threads) /\ NoDuplicates(queue[o])
      /\ ToSet(queue[o]) = {u \in Threads : wqp[u] = o}
  BY DEF WaitInv, WaitTypes, QueueExact
<1>4. /\ Append(queue[o], t) \in Seq(Threads) /\ NoDuplicates(Append(queue[o], t))
      /\ ToSet(Append(queue[o], t)) = ToSet(queue[o]) \cup {t}
  BY <1>1, <1>3, Appended
<1>5. st \in {"running", "blocked", "blocked_w_tmo"} /\ st # "running"
      /\ (o \in Blockers => st = "blocked")
  BY Apart
<1>6. o \in Blockers <=> m # "wait"
  BY Apart, WaitedTypes
<1>7. WaitTypes'
  <2>1. queue' \in [Objects -> Seq(Threads)]
    BY <1>2, <1>4 DEF WaitInv, WaitTypes
  <2> QED
    BY <1>2, <1>5, <2>1 DEF WaitInv, WaitTypes
<1>8. Linked'
  <2> SUFFICES ASSUME NEW u \in Threads
               PROVE  /\ call'[u].obj \in Waited(call'[u].mode)
                      /\ wqp'[u] \in {None, call'[u].obj}
                      /\ blocker'[u] = IF call'[u].mode \in {"wait", "late"} THEN None ELSE wqp'[u]
                      /\ wqp'[u] = None => state'[u] = "running"
                      /\ wqp'[u] \in Blockers => state'[u] = "blocked"
                      /\ retval'[u] = IF wqp'[u] # None /\ call'[u].mode = "read" THEN 1 ELSE 0
    BY DEF Linked
  <2>1. CASE u = t
    <3>1. call'[u] = [obj |-> o, mode |-> m] /\ wqp'[u] = o /\ state'[u] = st
      BY <1>2, <2>1 DEF WaitInv, WaitTypes
    <3>2. retval'[u] = IF m = "read" THEN 1 ELSE 0
      BY <2>1 DEF WaitInv, WaitTypes
    <3>3. blocker'[u] = IF m \in {"wait", "late"} THEN None ELSE o
      BY <1>1, <1>2, <1>6, <2>1 DEF WaitInv, WaitTypes
    <3>4. o # None
      BY Apart
    <3> QED
      BY <1>5, <3>1, <3>2, <3>3, <3>4
  <2>2. CASE u # t
    BY <1>2, <2>2 DEF WaitInv, WaitTypes, Linked
  <2> QED
    BY <2>1, <2>2
<1>9. ASSUME NEW p \in Objects
      PROVE  QueueExact(p)'
  <2>1. CASE p = o
    <3>1. queue'[p] = Append(queue[o], t)
      BY <1>2, <2>1 DEF WaitInv, WaitTypes
    <3>2. {u \in Threads : wqp'[u] = o} = {u \in Threads : wqp[u] = o} \cup {t}
      BY <1>2 DEF WaitInv, WaitTypes
    <3> QED
      BY <1>3, <1>4, <2>1, <3>1, <3>2 DEF QueueExact
  <2>2. CASE p # o
    <3>1. queue'[p] = queue[p]
      BY <1>2, <2>2 DEF WaitInv, WaitTypes
    <3>2. {u \in Threads : wqp'[u] = p} = {u \in Threads : wqp[u] = p}
      BY <1>1, <1>2, <2>2, Apart DEF WaitInv, WaitTypes
    <3> QED
      BY <3>1, <3>2 DEF QueueExact, WaitInv
  <2> QED
    BY <2>1, <2>2
<1> QED
  BY <1>7, <1>8, <1>9 DEF WaitInv

LEMMA UnlinkWait ==
    ASSUME WaitInv, NEW o \in Objects, NEW ts, NEW rest,
           ts \subseteq ToSet(queue[o]), rest \in Seq(Threads), NoDuplicates(rest),
           ToSet(rest) = ToSet(queue[o]) \ ts,
           Unlink(ts, o, rest), call' = call
    PROVE  WaitInv'
<1>1. /\ state' = [t \in Threads |-> IF t \in ts THEN "running" ELSE state[t]]
      /\ wqp' = [t \in Threads |-> IF t \in ts THEN None ELSE wqp[t]]
      /\ blocker' = [t \in Threads |-> IF t \in ts THEN None ELSE blocker[t]]
      /\ retval' = [t \in Threads |-> IF t \in ts THEN 0 ELSE retval[t]]
      /\ queue' = [queue EXCEPT ![o] = rest]
  BY DEF Unlink
<1>2. ToSet(queue[o]) = {t \in Threads : wqp[t] = o}
  BY DEF WaitInv, QueueExact
<1>3. WaitTypes'
  BY <1>1 DEF WaitInv, WaitTypes
<1>4. Linked'
  BY <1>1, Apart DEF WaitInv, WaitTypes, Linked
<1>5. ASSUME NEW p \in Objects
      PROVE  QueueExact(p)'
  <2>1. CASE p = o
    <3>1. queue'[p] = rest
      BY <1>1, <2>1 DEF WaitInv, WaitTypes
    <3>2. {t \in Threads : wqp'[t] = o} = {t \in Threads : wqp[t] = o} \ ts
      BY <1>1, Apart
    <3> QED
      BY <1>2, <2>1, <3>1, <3>2 DEF QueueExact
  <2>2. CASE p # o
    <3>1. queue'[p] = queue[p]
      BY <1>1, <2>2 DEF WaitInv, WaitTypes
    <3>2. {t \in Threads : wqp'[t] = p} = {t \in Threads : wqp[t] = p}
      BY <1>1, <1>2, <2>2, Apart
    <3> QED
      BY <3>1, <3>2 DEF QueueExact, WaitInv
  <2> QED
    BY <2>1, <2>2
<1> QED
  BY <1>3, <1>4, <1>5 DEF WaitInv

LEMMA ReturnWait ==
    ASSUME WaitInv, NEW t \in Threads, wqp[t] = None,
           UNCHANGED waitVars, call' = [call EXCEPT ![t] = NoCall]
    PROVE  WaitInv'
<1>1. WaitTypes' /\ \A o \in Objects : QueueExact(o)'
  BY DEF WaitInv, WaitTypes, QueueExact, NoCall, waitVars
<1>2. Linked'
  BY WaitedTypes DEF WaitInv, WaitTypes, Linked, NoCall, waitVars
<1> QED
  BY <1>1, <1>2 DEF WaitInv

(* A waiter that has looked is linked as before. *)
LEMMA LookWait ==
    ASSUME WaitInv, NEW t \in Threads, NEW s \in Semaphores,
           call[t] = [obj |-> s, mode |-> "wait"], UNCHANGED waitVars,
           call' = [call EXCEPT ![t] = [obj |-> s, mode |-> "late"]]
    PROVE  WaitInv'
<1>1. s \in Objects
  BY Apart
<1>2. WaitTypes' /\ \A o \in Objects : QueueExact(o)'
  BY <1>1 DEF WaitInv, WaitTypes, QueueExact, waitVars
<1>3. Linked'
  BY WaitedTypes DEF WaitInv, WaitTypes, Linked, waitVars
<1> QED
  BY <1>2, <1>3 DEF WaitInv

LEMMA ExpireWait ==
    ASSUME WaitInv, NEW t \in Threads, state[t] = "blocked_w_tmo",
           state' = [state EXCEPT ![t] = "running"],
           UNCHANGED <<wqp, blocker, retval, queue, call>>
    PROVE  WaitInv'
<1>1. wqp[t] \notin Blockers
  BY DEF WaitInv, Linked
<1>2. WaitTypes' /\ \A o \in Objects : QueueExact(o)'
  BY DEF WaitInv, WaitTypes, QueueExact
<1>3. Linked'
  BY <1>1 DEF WaitInv, WaitTypes, Linked
<1> QED
  BY <1>2, <1>3 DEF WaitInv

LEMMA LeaveWait ==
    ASSUME WaitInv, NEW t \in Threads, NEW s \in Semaphores,
           call[t].mode = "late", wqp[t] = s, state[t] = "running",
           wqp' = [wqp EXCEPT ![t] = None],
           queue' = [queue EXCEPT ![s] = Without(@, t)],
           call' = [call EXCEPT ![t] = NoCall],
           UNCHANGED <<state, blocker, retval>>
    PROVE  WaitInv'
<1>1. /\ queue[s] \in Seq(Threads) /\ NoDuplicates(queue[s]) /\ s \in Objects
      /\ ToSet(queue[s]) = {u \in Threads : wqp[u] = s}
  BY Apart DEF WaitInv, WaitTypes, QueueExact
<1>2. /\ Without(queue[s], t) \in Seq(Threads) /\ NoDuplicates(Without(queue[s], t))
      /\ ToSet(Without(queue[s], t)) = ToSet(queue[s]) \ {t}
  BY <1>1, WithoutExact
<1>3. WaitTypes'
  <2>1. queue' \in [Objects -> Seq(Threads)]
    BY <1>2 DEF WaitInv, WaitTypes
  <2> QED
    BY <2>1 DEF WaitInv, WaitTypes, NoCall
<1>4. Linked'
  <2> SUFFICES ASSUME NEW u \in Threads
               PROVE  /\ call'[u].obj \in Waited(call'[u].mode)
                      /\ wqp'[u] \in {None, call'[u].obj}
                      /\ blocker'[u] = IF call'[u].mode \in {"wait", "late"} THEN None ELSE wqp'[u]
                      /\ wqp'[u] = None => state'[u] = "running"
                      /\ wqp'[u] \in Blockers => state'[u] = "blocked"
                      /\ retval'[u] = IF wqp'[u] # None /\ call'[u].mode = "read" THEN 1 ELSE 0
    BY DEF Linked
  <2>1. CASE u = t
    <3>1. call'[u] = NoCall /\ wqp'[u] = None /\ state'[u] = "running"
      BY <2>1 DEF WaitInv, WaitTypes
    <3>2. blocker'[u] = None /\ retval'[u] = 0
      BY <2>1 DEF WaitInv, WaitTypes, Linked
    <3> QED
      BY <3>1, <3>2, WaitedTypes, Apart DEF NoCall
  <2>2. CASE u # t
    BY <2>2 DEF WaitInv, WaitTypes, Linked
  <2> QED
    BY <2>1, <2>2
<1>5. ASSUME NEW p \in Objects
      PROVE  QueueExact(p)'
  <2>1. CASE p = s
    <3>1. queue'[p] = Without(queue[s], t)
      BY <1>1, <2>1 DEF WaitInv, WaitTypes
    <3>2. {u \in Threads : wqp'[u] = s} = {u \in Threads : wqp[u] = s} \ {t}
      BY <1>1, Apart DEF WaitInv, WaitTypes
    <3> QED
      BY <1>1, <1>2, <2>1, <3>1, <3>2 DEF QueueExact
  <2>2. CASE p # s
    <3>1. queue'[p] = queue[p]
      BY <2>2 DEF WaitInv, WaitTypes
    <3>2. {u \in Threads : wqp'[u] = p} = {u \in Threads : wqp[u] = p}
      BY <2>2, Apart DEF WaitInv, WaitTypes
    <3> QED
      BY <3>1, <3>2 DEF QueueExact, WaitInv
  <2> QED
    BY <2>1, <2>2
<1> QED
  BY <1>3, <1>4, <1>5 DEF WaitInv

-----------------------------------------------------------------------------
(* A step at one object leaves what concerns every other one alone.        *)

Bystanders(o) ==
    \A t \in Threads : call[t].obj = o \/ call'[t].obj = o =>
        /\ call'[t] = call[t]
        /\ o \in Locks => state'[t] = state[t] /\ retval'[t] = retval[t]

Untouched(o) ==
    /\ queue'[o] = queue[o]
    /\ o \in Blockers => owner'[o] = owner[o] /\ mask'[o] = mask[o]
    /\ o \in Mutexes => recursion'[o] = recursion[o]
    /\ o \in Mrsws => rdrecursion'[o] = rdrecursion[o]
    /\ o \in Mrsws \cup Semaphores => count'[o] = count[o]
    /\ o \in Locks => reads'[o] = reads[o] /\ writes'[o] = writes[o]
    /\ Bystanders(o)

Exact(o) ==
    /\ o \in Mutexes => MutexExact(o)
    /\ o \in Mrsws => MrswExact(o)
    /\ o \in Queues => ServedExact(o)
    /\ o \in Semaphores => SemaphoreExact(o)

LEMMA InvParts ==
    /\ ObjectsInv <=> WaitInv /\ LockTypes /\ \A o \in Objects : Exact(o)
    /\ ObjectsInv' <=> WaitInv' /\ LockTypes' /\ \A o \in Objects : Exact(o)'
BY Apart DEF ObjectsInv, WaitInv, Exact

LEMMA CallersSame ==
    ASSUME WaitInv, NEW o \in Locks, Untouched(o)
    PROVE  ReadersOf(o)' = ReadersOf(o) /\ WritersOf(o)' = WritersOf(o)
<1>1. ASSUME NEW t \in Threads, NEW m
      PROVE  Comes(t, o, m)' <=> Comes(t, o, m)
  BY DEF Comes, Untouched, Bystanders
<1> QED
  BY <1>1 DEF ReadersOf, WritersOf, Untouched

(* The first in line is one of those that wait. *)
LEMMA FirstWaits ==
    ASSUME WaitInv, NEW o \in Objects, queue[o] # <<>>
    PROVE  /\ Head(queue[o]) \in Threads /\ Head(queue[o]) \in ToSet(queue[o])
           /\ wqp[Head(queue[o])] = o /\ call[Head(queue[o])].obj = o
           /\ Tail(queue[o]) \in Seq(Threads) /\ NoDuplicates(Tail(queue[o]))
           /\ ToSet(Tail(queue[o])) = ToSet(queue[o]) \ {Head(queue[o])}
<1>1. queue[o] \in Seq(Threads) /\ NoDuplicates(queue[o]) /\ ToSet(queue[o]) = {t \in Threads : wqp[t] = o}
  BY DEF WaitInv, WaitTypes, QueueExact
<1>2. /\ Head(queue[o]) \in Threads /\ Head(queue[o]) \in ToSet(queue[o])
      /\ Tail(queue[o]) \in Seq(Threads) /\ NoDuplicates(Tail(queue[o]))
      /\ ToSet(Tail(queue[o])) = ToSet(queue[o]) \ {Head(queue[o])}
  BY <1>1, TailExact
<1> QED
  BY <1>1, <1>2, Apart DEF WaitInv, Linked

LEMMA ExactSame ==
    ASSUME WaitInv, NEW o \in Objects, Untouched(o), Exact(o)
    PROVE  Exact(o)'
<1>1. ASSUME o \in Mutexes
      PROVE  MutexExact(o)'
  <2>1. o \in Locks /\ o \in Blockers
    BY <1>1, Apart
  <2>2. WritersOf(o)' = WritersOf(o)
    BY <2>1, CallersSame
  <2> QED
    BY <1>1, <2>1, <2>2 DEF Exact, MutexExact, Untouched, Bystanders
<1>2. ASSUME o \in Mrsws
      PROVE  MrswExact(o)'
  <2>1. o \in Locks /\ o \in Blockers
    BY <1>2, Apart
  <2>2. WritersOf(o)' = WritersOf(o) /\ ReadersOf(o)' = ReadersOf(o)
    BY <2>1, CallersSame
  <2>3. queue[o] # <<>> => retval'[Head(queue[o])] = retval[Head(queue[o])]
    BY <2>1, FirstWaits DEF Untouched, Bystanders
  <2>4. /\ queue'[o] = queue[o] /\ owner'[o] = owner[o] /\ mask'[o] = mask[o]
        /\ rdrecursion'[o] = rdrecursion[o] /\ count'[o] = count[o]
        /\ reads'[o] = reads[o] /\ writes'[o] = writes[o]
        /\ \A t \in Threads : call'[t].obj = o => call[t].obj = o
    BY <1>2, <2>1 DEF Untouched, Bystanders
  <2>5. MrswExact(o)
    BY <1>2 DEF Exact
  <2> QED
    BY <2>2, <2>3, <2>4, <2>5 DEF MrswExact
<1>3. ASSUME o \in Queues
      PROVE  ServedExact(o)'
  BY <1>3, Apart DEF Exact, ServedExact, Untouched
<1>4. ASSUME o \in Semaphores
      PROVE  SemaphoreExact(o)'
  BY <1>4 DEF Exact, SemaphoreExact, Untouched
<1> QED
  BY <1>1, <1>2, <1>3, <1>4 DEF Exact

LEMMA AtObject ==
    ASSUME ObjectsInv, NEW o \in Objects, WaitInv', LockTypes', Exact(o)',
           \A p \in Objects \ {o} : Untouched(p)
    PROVE  ObjectsInv'
<1>1. \A p \in Objects : Exact(p)'
  BY ExactSame, InvParts
<1> QED
  BY <1>1, InvParts

LEMMA Elsewhere ==
    ASSUME ObjectsInv, WaitInv',
           UNCHANGED <<queue, ownVars, fieldVars, call, reads, writes>>,
           \A t \in Threads : call[t].obj \in Locks => state'[t] = state[t] /\ retval'[t] = retval[t]
    PROVE  ObjectsInv' /\ \A o \in Objects : Untouched(o)
<1>1. \A o \in Objects : Untouched(o)
  BY DEF Untouched, Bystanders, ownVars, fieldVars
<1>2. LockTypes'
  BY InvParts DEF LockTypes, ownVars, fieldVars
<1>3. \A p \in Objects : Exact(p)'
  BY <1>1, ExactSame, InvParts
<1> QED
  BY <1>1, <1>2, <1>3, InvParts

-----------------------------------------------------------------------------
(* Joining a queue.                                                        *)

LEMMA BlocksElsewhere ==
    ASSUME WaitInv, NEW t \in Threads, CanCall(t), NEW o \in Objects, NEW m, NEW st,
           block_thread(t, o, st), call' = [call EXCEPT ![t] = [obj |-> o, mode |-> m]],
           NEW r, retval' = [retval EXCEPT ![t] = r],
           UNCHANGED <<recursion, rdrecursion, reads, writes>>,
           \A p \in (Mrsws \cup Semaphores) \ {o} : count'[p] = count[p]
    PROVE  \A p \in Objects \ {o} : Untouched(p)
<1> SUFFICES ASSUME NEW p \in Objects, p # o
             PROVE  Untouched(p)
  OBVIOUS
<1>1. queue'[p] = queue[p] /\ UNCHANGED ownVars
  BY DEF block_thread, WaitInv, WaitTypes
<1>2. Bystanders(p)
  <2> SUFFICES ASSUME NEW u \in Threads, call[u].obj = p \/ call'[u].obj = p
               PROVE  call'[u] = call[u] /\ state'[u] = state[u] /\ retval'[u] = retval[u]
    BY DEF Bystanders
  <2>1. u # t
    BY Apart DEF CanCall, Runs, NoCall, WaitInv, WaitTypes
  <2> QED
    BY <2>1 DEF block_thread, WaitInv, WaitTypes
<1> QED
  BY <1>1, <1>2 DEF Untouched, ownVars

LEMMA BlocksExact ==
    ASSUME ObjectsInv, NEW t \in Threads, CanCall(t),
           NEW o \in Blockers, NEW m \in {"read", "write", "send"}, o \in Waited(m),
           Blocks(t, o, m), retval' = [retval EXCEPT ![t] = IF m = "read" THEN 1 ELSE 0],
           o \in Locks => reads[o][t] = 0 /\ writes[o][t] = 0,
           o \in Mutexes => owner[o] # None,
           o \in Mrsws => count[o] # 0 /\ (m = "read" /\ count[o] > 0 => queue[o] # <<>>)
    PROVE  ObjectsInv' /\ \A p \in Objects \ {o} : Untouched(p)
<1>1. /\ WaitInv /\ LockTypes /\ Exact(o) /\ o \in Objects
      /\ block_thread(t, o, "blocked") /\ UNCHANGED <<fieldVars, reads, writes, ownVars>>
      /\ call' = [call EXCEPT ![t] = [obj |-> o, mode |-> m]]
  BY InvParts, Apart DEF Blocks, block_thread
<1>2. WaitInv'
  BY <1>1, BlocksWait
<1>3. LockTypes'
  BY <1>1 DEF LockTypes, fieldVars, ownVars
<1>4. \A p \in Objects \ {o} : Untouched(p)
  BY <1>1, BlocksElsewhere DEF fieldVars
<1>5. /\ state'[t] = "blocked" /\ call'[t] = [obj |-> o, mode |-> m] /\ call[t] = NoCall
      /\ \A u \in Threads \ {t} : /\ state'[u] = state[u] /\ call'[u] = call[u]
                                  /\ retval'[u] = retval[u]
      /\ retval'[t] = IF m = "read" THEN 1 ELSE 0
      /\ queue'[o] = Append(queue[o], t)
  BY <1>1 DEF block_thread, CanCall, Runs, WaitInv, WaitTypes
<1>6. o \in Locks => ReadersOf(o)' = ReadersOf(o) /\ WritersOf(o)' = WritersOf(o)
  <2>1. ASSUME NEW u \in Threads, NEW n
        PROVE  Comes(u, o, n)' <=> Comes(u, o, n)
    BY <1>1, <1>5, Apart DEF Comes, NoCall
  <2> QED
    BY <1>1, <2>1 DEF ReadersOf, WritersOf
<1>7. /\ queue[o] \in Seq(Threads) /\ t \notin ToSet(queue[o]) /\ NoDuplicates(queue[o])
      /\ queue'[o] # <<>>
      /\ Head(queue'[o]) = IF queue[o] = <<>> THEN t ELSE Head(queue[o])
      /\ queue[o] # <<>> => Head(queue[o]) # t /\ Head(queue[o]) \in Threads
  <2>1. queue[o] \in Seq(Threads) /\ t \notin ToSet(queue[o]) /\ NoDuplicates(queue[o])
    BY <1>1, Idle DEF WaitInv, WaitTypes, QueueExact, CanCall, Runs
  <2>2. queue[o] # <<>> => Head(queue[o]) # t /\ Head(queue[o]) \in Threads
    BY <1>1, <2>1, FirstWaits
  <2> QED
    BY <1>5, <2>1, <2>2, Appended
<1>8. o \in Mutexes => MutexExact(o)'
  BY <1>1, <1>5, <1>6, Apart DEF Exact, MutexExact, fieldVars, ownVars
<1>9. o \in Mrsws => MrswExact(o)'
  <2> SUFFICES ASSUME o \in Mrsws
               PROVE  MrswExact(o)'
    OBVIOUS
  <2>1. count[o] > 0 => retval'[Head(queue'[o])] = 0
    <3>1. CASE queue[o] = <<>>
      BY <1>5, <1>7, <3>1
    <3>2. CASE queue[o] # <<>>
      BY <1>1, <1>5, <1>7, <3>2 DEF Exact, MrswExact
    <3> QED
      BY <3>1, <3>2
  <2>2. \A u \in Threads : call'[u].obj = o => call[u].obj = o \/ u = t
    BY <1>5
  <2>3. /\ UNCHANGED <<count, rdrecursion, reads, writes, owner, mask>> /\ o \in Locks
        /\ MrswExact(o)
    BY <1>1, Apart DEF fieldVars, ownVars, Exact
  <2> QED
    BY <1>6, <1>7, <2>1, <2>2, <2>3 DEF MrswExact
<1>10. Exact(o)'
  BY <1>1, <1>8, <1>9, Apart DEF Exact, ServedExact, ownVars
<1> QED
  BY <1>1, <1>2, <1>3, <1>4, <1>10, AtObject

-----------------------------------------------------------------------------
(* Mutexes.                                                                *)

(* Who has mutex m is its owner, and nobody else. *)
LEMMA MutexCallers ==
    ASSUME ObjectsInv, NEW m \in Mutexes, NEW t \in Threads, CanCall(t)
    PROVE  /\ WaitInv /\ LockTypes /\ MutexExact(m) /\ m \in Objects /\ m \in Locks /\ m \in Blockers
           /\ call[t] = NoCall /\ state[t] = "running"
           /\ m \notin Mrsws \cup Queues \cup Semaphores
           /\ writes[m][t] > 0 <=> owner[m] = t
           /\ \A u \in Threads : writes[m][u] > 0 => owner[m] = u
           /\ writes[m] \in [Threads -> Nat] /\ reads[m] \in [Threads -> Nat]
<1>1. /\ WaitInv /\ LockTypes /\ MutexExact(m) /\ m \in Objects /\ m \in Locks /\ m \in Blockers
      /\ call[t] = NoCall /\ state[t] = "running"
      /\ m \notin Mrsws \cup Queues \cup Semaphores
      /\ writes[m] \in [Threads -> Nat] /\ reads[m] \in [Threads -> Nat]
  BY InvParts, Apart DEF CanCall, Runs, Exact, LockTypes
<1>2. ~Comes(t, m, "write")
  BY <1>1, Apart DEF Comes, NoCall
<1>3. writes[m][t] > 0 <=> owner[m] = t
  BY <1>1, <1>2 DEF MutexExact, WritersOf
<1>4. \A u \in Threads : writes[m][u] > 0 => owner[m] = u
  BY <1>1 DEF MutexExact, WritersOf
<1> QED
  BY <1>1, <1>3, <1>4

LEMMA MutexLock ==
    ASSUME ObjectsInv, NEW t \in Threads, NEW m \in Mutexes, mutex_lock(t, m)
    PROVE  ObjectsInv' /\ \A p \in Objects \ {m} : Untouched(p)
<1>1. /\ CanCall(t) /\ WaitInv /\ LockTypes /\ MutexExact(m)
      /\ m \in Objects /\ m \in Locks /\ m \in Blockers
      /\ call[t] = NoCall /\ state[t] = "running"
      /\ m \notin Mrsws \cup Queues \cup Semaphores
      /\ writes[m][t] > 0 <=> owner[m] = t
      /\ \A u \in Threads : writes[m][u] > 0 => owner[m] = u
      /\ writes[m] \in [Threads -> Nat] /\ reads[m] \in [Threads -> Nat]
  BY MutexCallers DEF mutex_lock
<1>2. CASE /\ owner[m] = t
           /\ recursion' = [recursion EXCEPT ![m] = @ + 1]
           /\ Writes(t, m, 1)
           /\ UNCHANGED <<threadVars, count, rdrecursion>>
  <2>1. /\ writes' = [writes EXCEPT ![m] = [writes[m] EXCEPT ![t] = @ + 1]]
        /\ UNCHANGED <<waitVars, owner, mask, call, reads, count, rdrecursion>>
        /\ recursion'[m] = recursion[m] + 1
    BY <1>1, <1>2 DEF Writes, threadVars, ownVars, LockTypes
  <2>2. WaitInv'
    BY <1>1, <2>1, WaitSame
  <2>3. LockTypes'
    BY <1>1, <1>2, <2>1 DEF LockTypes
  <2>4. \A p \in Objects \ {m} : Untouched(p)
    BY <1>1, <1>2, <2>1 DEF Untouched, Bystanders, LockTypes, waitVars
  <2>5. MutexExact(m)'
    <3>1. /\ writes'[m][t] = writes[m][t] + 1 /\ writes[m][t] > 0
          /\ \A u \in Threads \ {t} : writes'[m][u] = writes[m][u] /\ writes[m][u] = 0
      BY <1>1, <1>2, <2>1 DEF LockTypes
    <3>2. WritersOf(m)' = WritersOf(m)
      BY <1>1, <2>1, <3>1 DEF WritersOf, Comes, waitVars
    <3>3. \A u \in Threads : call[u].obj = m => u # t
      BY <1>1, Apart DEF NoCall
    <3>4. ASSUME NEW u \in Threads
          PROVE  /\ reads'[m][u] = 0
                 /\ owner'[m] = u <=> u \in WritersOf(m)'
                 /\ writes'[m][u] > 0 => recursion'[m] = writes'[m][u] - 1
                 /\ call'[u].obj = m => writes'[m][u] = 0
      <4>1. /\ reads[m][u] = 0 /\ (owner[m] = u <=> u \in WritersOf(m))
            /\ recursion[m] = writes[m][t] - 1
        BY <1>1, <3>1 DEF MutexExact
      <4>2. writes'[m][u] > 0 => u = t
        BY <3>1
      <4>3. recursion'[m] = writes'[m][t] - 1
        BY <1>1, <2>1, <3>1, <4>1
      <4> QED
        BY <2>1, <3>1, <3>2, <3>3, <4>1, <4>2, <4>3
    <3>5. ~(\A u \in Threads : writes'[m][u] = 0) /\ owner'[m] # None /\ mask'[m] = {}
      BY <1>1, <1>2, <2>1, <3>1, Apart DEF MutexExact
    <3> QED
      BY <3>4, <3>5 DEF MutexExact
  <2> QED
    BY <1>1, <2>2, <2>3, <2>4, <2>5, AtObject DEF Exact
<1>3. CASE /\ owner[m] = None
           /\ SetOwner(m, t)
           /\ Writes(t, m, 1)
           /\ UNCHANGED fieldVars
  <2>1. /\ writes' = [writes EXCEPT ![m] = [writes[m] EXCEPT ![t] = @ + 1]]
        /\ UNCHANGED <<waitVars, mask, call, reads, recursion, count, rdrecursion>>
        /\ owner' = [owner EXCEPT ![m] = t] /\ owner'[m] = t
    BY <1>1, <1>3 DEF Writes, SetOwner, fieldVars, LockTypes
  <2>2. WaitInv'
    BY <1>1, <2>1, WaitSame
  <2>3. LockTypes'
    BY <1>1, <2>1 DEF LockTypes
  <2>4. \A p \in Objects \ {m} : Untouched(p)
    BY <1>1, <2>1 DEF Untouched, Bystanders, LockTypes, waitVars
  <2>5. MutexExact(m)'
    <3>0. ASSUME NEW u \in Threads
          PROVE  writes[m][u] = 0
      <4>1. writes[m][u] \in Nat /\ ~(writes[m][u] > 0)
        BY <1>1, <1>3, Apart
      <4> QED
        BY <4>1
    <3>1. /\ writes'[m][t] = 1
          /\ \A u \in Threads \ {t} : writes'[m][u] = 0
          /\ \A u \in Threads : writes[m][u] = 0
      BY <1>1, <2>1, <3>0 DEF LockTypes
    <3>2. WritersOf(m)' = {t} /\ WritersOf(m) = {}
      BY <1>1, <1>3, <2>1, <3>1, Apart DEF MutexExact, WritersOf, Comes, waitVars
    <3>3. recursion[m] = 0 /\ queue[m] = <<>>
      BY <1>1, <1>3, <3>1 DEF MutexExact
    <3>4. \A u \in Threads : call[u].obj = m => u # t
      BY <1>1, Apart DEF NoCall
    <3> QED
      BY <1>1, <2>1, <3>1, <3>2, <3>3, <3>4 DEF MutexExact, waitVars
  <2> QED
    BY <1>1, <2>2, <2>3, <2>4, <2>5, AtObject DEF Exact
<1>4. CASE owner[m] \notin {t, None} /\ UNCHANGED retval /\ Blocks(t, m, "write")
  <2>1. retval' = [retval EXCEPT ![t] = IF "write" = "read" THEN 1 ELSE 0]
    BY <1>1, <1>4, Idle DEF WaitInv, WaitTypes
  <2>2. reads[m][t] = 0 /\ writes[m][t] = 0
    BY <1>1, <1>4 DEF MutexExact, LockTypes
  <2> QED
    BY <1>1, <1>4, <2>1, <2>2, BlocksExact, WaitedTypes
<1> QED
  BY <1>2, <1>3, <1>4 DEF mutex_lock

(* The kind of an object tells how one waits for it. *)
LEMMA ModeOf ==
    ASSUME WaitInv, NEW t \in Threads, NEW o \in Objects, call[t].obj = o
    PROVE  /\ call[t] = [obj |-> o, mode |-> call[t].mode]
           /\ o \in Mutexes => call[t].mode = "write"
           /\ o \in Mrsws => call[t].mode \in {"read", "write"}
           /\ o \in Queues => call[t].mode = "send"
           /\ o \in Semaphores => call[t].mode \in {"wait", "late"}
<1>1. /\ call[t] \in [obj : Objects \cup {None}, mode : {"none", "read", "write", "send", "wait", "late"}]
      /\ o \in Waited(call[t].mode)
  BY DEF WaitInv, WaitTypes, Linked
<1>2. call[t].mode \in {"none", "read", "write", "send", "wait", "late"}
  BY <1>1
<1>3. CASE call[t].mode = "none"
  BY <1>1, <1>3, WaitedTypes, Apart
<1>4. CASE call[t].mode = "read"
  BY <1>1, <1>4, WaitedTypes, Apart
<1>5. CASE call[t].mode = "write"
  BY <1>1, <1>5, WaitedTypes, Apart
<1>6. CASE call[t].mode = "send"
  BY <1>1, <1>6, WaitedTypes, Apart
<1>7. CASE call[t].mode \in {"wait", "late"}
  BY <1>1, <1>7, WaitedTypes, Apart
<1> QED
  BY <1>2, <1>3, <1>4, <1>5, <1>6, <1>7

(* Waking waiters of o concerns nobody who waits elsewhere. *)
LEMMA UnlinkElsewhere ==
    ASSUME WaitInv, NEW o \in Objects, NEW ts, NEW rest, ts \subseteq ToSet(queue[o]),
           Unlink(ts, o, rest), call' = call, NEW p \in Objects, p # o
    PROVE  queue'[p] = queue[p] /\ Bystanders(p)
<1>1. \A t \in ts : wqp[t] = o /\ call[t].obj = o
  BY Apart DEF WaitInv, QueueExact, Linked
<1> QED
  BY <1>1 DEF Unlink, Bystanders, WaitInv, WaitTypes

(* The first waiter of o takes over: what becomes of it. *)
LEMMA HandOver ==
    ASSUME WaitInv, LockTypes, NEW o \in Blockers, queue[o] # <<>>,
           wakeup_thread_transfer(o), call' = call
    PROVE  /\ WaitInv'
           /\ Head(queue[o]) \in Threads /\ call[Head(queue[o])].obj = o
           /\ state[Head(queue[o])] = "blocked" /\ state'[Head(queue[o])] = "running"
           /\ \A t \in Threads \ {Head(queue[o])} :
                state'[t] = state[t] /\ retval'[t] = retval[t]
           /\ queue'[o] = Tail(queue[o]) /\ owner' = [owner EXCEPT ![o] = Head(queue[o])]
           /\ \A p \in Objects \ {o} : queue'[p] = queue[p] /\ Bystanders(p)
<1> DEFINE h == Head(queue[o])
<1>1. /\ o \in Objects /\ h \in Threads /\ h \in ToSet(queue[o]) /\ wqp[h] = o /\ call[h].obj = o
      /\ Tail(queue[o]) \in Seq(Threads) /\ NoDuplicates(Tail(queue[o]))
      /\ ToSet(Tail(queue[o])) = ToSet(queue[o]) \ {h}
  BY FirstWaits, Apart
<1>2. Unlink({h}, o, Tail(queue[o])) /\ owner' = [owner EXCEPT ![o] = h]
  BY DEF wakeup_thread_transfer
<1>3. WaitInv'
  BY <1>1, <1>2, UnlinkWait
<1>4. state[h] = "blocked"
  BY <1>1 DEF WaitInv, Linked
<1>5. \A p \in Objects \ {o} : queue'[p] = queue[p] /\ Bystanders(p)
  BY <1>1, <1>2, UnlinkElsewhere
<1> QED
  BY <1>1, <1>2, <1>3, <1>4, <1>5 DEF Unlink, WaitInv, WaitTypes

LEMMA MutexUnlock ==
    ASSUME ObjectsInv, NEW t \in Threads, NEW m \in Mutexes, mutex_unlock(t, m)
    PROVE  ObjectsInv' /\ \A p \in Objects \ {m} : Untouched(p)
<1>1. /\ CanCall(t) /\ WaitInv /\ LockTypes /\ MutexExact(m)
      /\ m \in Objects /\ m \in Locks /\ m \in Blockers
      /\ call[t] = NoCall /\ state[t] = "running"
      /\ m \notin Mrsws \cup Queues \cup Semaphores
      /\ writes[m][t] > 0 /\ owner[m] = t
      /\ \A u \in Threads : writes[m][u] > 0 => owner[m] = u
      /\ writes[m] \in [Threads -> Nat] /\ reads[m] \in [Threads -> Nat]
  BY MutexCallers DEF mutex_unlock
<1>2. /\ recursion[m] = writes[m][t] - 1 /\ recursion[m] \in Nat
      /\ \A u \in Threads : call[u].obj = m => u # t
      /\ \A u \in Threads \ {t} : writes[m][u] = 0
      /\ WritersOf(m) = {t}
  <2>1. ASSUME NEW u \in Threads \ {t}
        PROVE  writes[m][u] = 0
    <3>1. writes[m][u] \in Nat /\ ~(writes[m][u] > 0)
      BY <1>1
    <3> QED
      BY <3>1
  <2>2. WritersOf(m) = {t}
    BY <1>1 DEF MutexExact, WritersOf
  <2> QED
    BY <1>1, <2>1, <2>2, Apart DEF MutexExact, LockTypes, NoCall
<1>3. /\ writes' = [writes EXCEPT ![m] = [writes[m] EXCEPT ![t] = @ - 1]]
      /\ UNCHANGED <<reads, call>>
      /\ writes'[m][t] = recursion[m]
      /\ \A u \in Threads \ {t} : writes'[m][u] = 0
  <2>1. /\ writes' = [writes EXCEPT ![m] = [writes[m] EXCEPT ![t] = @ - 1]]
        /\ UNCHANGED <<reads, call>>
        /\ writes'[m][t] = writes[m][t] + (-1)
        /\ \A u \in Threads \ {t} : writes'[m][u] = writes[m][u]
    BY <1>1 DEF mutex_unlock, Writes, LockTypes
  <2> QED
    BY <1>1, <1>2, <2>1
<1>4. writes' \in [Locks -> [Threads -> Nat]] /\ \A p \in Locks \ {m} : writes'[p] = writes[p]
  <2>1. [writes[m] EXCEPT ![t] = @ - 1] \in [Threads -> Nat]
    BY <1>1
  <2> QED
    BY <1>1, <1>3, <2>1 DEF LockTypes
<1>5. CASE /\ recursion[m] > 0
           /\ recursion' = [recursion EXCEPT ![m] = @ - 1]
           /\ UNCHANGED <<threadVars, count, rdrecursion>>
  <2>1. UNCHANGED <<waitVars, owner, mask>> /\ recursion'[m] = recursion[m] - 1
    BY <1>1, <1>5 DEF threadVars, ownVars, LockTypes
  <2>2. WaitInv'
    BY <1>1, <1>3, <2>1, WaitSame
  <2>3. LockTypes'
    <3>1. recursion[m] - 1 \in Nat
      BY <1>2, <1>5
    <3> QED
      BY <1>1, <1>3, <1>4, <1>5, <2>1, <3>1 DEF LockTypes
  <2>4. \A p \in Objects \ {m} : Untouched(p)
    BY <1>1, <1>3, <1>4, <1>5, <2>1 DEF Untouched, Bystanders, LockTypes, waitVars
  <2>5. MutexExact(m)'
    <3>1. WritersOf(m)' = {t}
      BY <1>1, <1>2, <1>3, <1>5, <2>1, Apart DEF WritersOf, Comes, waitVars
    <3>2. \A u \in Threads : writes'[m][u] > 0 => u = t
      BY <1>3
    <3>3. recursion'[m] = writes'[m][t] - 1 /\ writes'[m][t] # 0
      BY <1>2, <1>3, <1>5, <2>1
    <3>4. \A u \in Threads : (owner'[m] = u <=> u \in WritersOf(m)')
      BY <1>1, <2>1, <3>1
    <3>5. \A u \in Threads : call'[u].obj = m => writes'[m][u] = 0
      BY <1>2, <1>3
    <3>6. owner'[m] # None
      BY <1>1, <2>1, Apart
    <3> QED
      BY <1>1, <1>3, <2>1, <3>2, <3>3, <3>4, <3>5, <3>6 DEF MutexExact
  <2> QED
    BY <1>1, <2>2, <2>3, <2>4, <2>5, AtObject DEF Exact
<1>6. CASE recursion[m] = 0 /\ queue[m] = <<>> /\ SetOwner(m, None) /\ UNCHANGED fieldVars
  <2>1. /\ UNCHANGED <<waitVars, mask, recursion, count, rdrecursion>>
        /\ owner' = [owner EXCEPT ![m] = None] /\ owner'[m] = None
    BY <1>1, <1>6 DEF SetOwner, fieldVars, LockTypes
  <2>2. WaitInv'
    BY <1>1, <1>3, <2>1, WaitSame
  <2>3. LockTypes'
    BY <1>1, <1>3, <1>4, <2>1 DEF LockTypes
  <2>4. \A p \in Objects \ {m} : Untouched(p)
    BY <1>1, <1>3, <1>4, <2>1 DEF Untouched, Bystanders, LockTypes, waitVars
  <2>5. MutexExact(m)'
    <3>1. \A u \in Threads : writes'[m][u] = 0
      BY <1>3, <1>6
    <3>2. \A u \in Threads : u \notin WritersOf(m)'
      BY <1>1, <1>2, <1>3, <2>1, <3>1, Apart DEF WritersOf, Comes, waitVars, NoCall
    <3> QED
      BY <1>1, <1>3, <1>6, <2>1, <3>1, <3>2, Apart DEF MutexExact, waitVars
  <2> QED
    BY <1>1, <2>2, <2>3, <2>4, <2>5, AtObject DEF Exact
<1>7. CASE /\ recursion[m] = 0 /\ queue[m] # <<>>
           /\ wakeup_thread_transfer(m) /\ UNCHANGED <<mask, fieldVars>>
  <2> DEFINE h == Head(queue[m])
  <2>1. /\ WaitInv'
        /\ h \in Threads /\ call[h].obj = m /\ state[h] = "blocked" /\ state'[h] = "running"
        /\ \A u \in Threads \ {h} : state'[u] = state[u] /\ retval'[u] = retval[u]
        /\ queue'[m] = Tail(queue[m]) /\ owner' = [owner EXCEPT ![m] = h]
        /\ \A p \in Objects \ {m} : queue'[p] = queue[p] /\ Bystanders(p)
    BY <1>1, <1>3, <1>7, HandOver
  <2>2. UNCHANGED <<mask, recursion, count, rdrecursion>> /\ owner'[m] = h
    BY <1>1, <1>7, <2>1 DEF fieldVars, LockTypes
  <2> HIDE DEF h
  <2>3. LockTypes'
    BY <1>1, <1>3, <1>4, <2>1, <2>2 DEF LockTypes
  <2>4. \A p \in Objects \ {m} : Untouched(p)
    BY <1>1, <1>3, <1>4, <2>1, <2>2 DEF Untouched, LockTypes
  <2>5. MutexExact(m)'
    <3>1. \A u \in Threads : writes'[m][u] = 0
      BY <1>3, <1>7
    <3>2. call[h] = [obj |-> m, mode |-> "write"]
      <4>1. /\ call[h] = [obj |-> m, mode |-> call[h].mode]
            /\ m \in Mutexes => call[h].mode = "write"
        BY <1>1, <2>1, ModeOf
      <4> QED
        BY <4>1
    <3>3. \A u \in Threads : u \in WritersOf(m)' <=> u = h
      BY <1>1, <1>2, <1>3, <2>1, <3>1, <3>2, Apart DEF WritersOf, Comes, NoCall
    <3>4. owner'[m] # None
      BY <2>1, <2>2, Apart
    <3> QED
      BY <1>1, <1>3, <1>7, <2>2, <3>1, <3>3, <3>4 DEF MutexExact
  <2> QED
    BY <1>1, <2>1, <2>3, <2>4, <2>5, AtObject DEF Exact
<1> QED
  BY <1>5, <1>6, <1>7 DEF mutex_unlock

-----------------------------------------------------------------------------
(* Reader-writer locks.                                                    *)

LEMMA ReadersFinite ==
    ASSUME NEW o
    PROVE  IsFiniteSet(ReadersOf(o)) /\ Cardinality(ReadersOf(o)) \in Nat
BY ThreadsAssumption, FS_Subset, FS_CardinalityType DEF ReadersOf

(* What a thread between calls has of lock l, and what the lock says of it. *)
LEMMA MrswCallers ==
    ASSUME ObjectsInv, NEW l \in Mrsws, NEW t \in Threads, CanCall(t)
    PROVE  /\ WaitInv /\ LockTypes /\ MrswExact(l) /\ l \in Objects /\ l \in Locks /\ l \in Blockers
           /\ l \notin Mutexes \cup Queues \cup Semaphores
           /\ call[t] = NoCall /\ state[t] = "running"
           /\ \A u \in Threads : call[u].obj = l => u # t
           /\ t \in ReadersOf(l) <=> reads[l][t] > 0 /\ writes[l][t] = 0
           /\ t \in WritersOf(l) <=> writes[l][t] > 0
           /\ t \in WritersOf(l) <=> IsWriter(t, l)
           /\ writes[l] \in [Threads -> Nat] /\ reads[l] \in [Threads -> Nat]
           /\ rdrecursion[l] \in [Threads -> Nat] /\ count[l] \in Int
<1>1. /\ WaitInv /\ LockTypes /\ MrswExact(l) /\ l \in Objects /\ l \in Locks /\ l \in Blockers
      /\ l \notin Mutexes \cup Queues \cup Semaphores
      /\ call[t] = NoCall /\ state[t] = "running"
      /\ writes[l] \in [Threads -> Nat] /\ reads[l] \in [Threads -> Nat]
      /\ rdrecursion[l] \in [Threads -> Nat] /\ count[l] \in Int
  BY InvParts, Apart DEF CanCall, Runs, Exact, LockTypes
<1>2. \A u \in Threads : call[u].obj = l => u # t
  BY <1>1, Apart DEF NoCall
<1>3. ~Comes(t, l, "read") /\ ~Comes(t, l, "write")
  BY <1>1, Apart DEF Comes, NoCall
<1>4. /\ t \in ReadersOf(l) <=> reads[l][t] > 0 /\ writes[l][t] = 0
      /\ t \in WritersOf(l) <=> writes[l][t] > 0
  BY <1>3 DEF ReadersOf, WritersOf
<1>5. t \in WritersOf(l) <=> IsWriter(t, l)
  BY <1>1 DEF MrswExact, IsWriter
<1> QED
  BY <1>1, <1>2, <1>4, <1>5

(* A step of a thread that goes on running, at l. *)
LEMMA MrswStill ==
    ASSUME ObjectsInv, NEW l \in Mrsws, MrswExact(l)', LockTypes',
           UNCHANGED <<waitVars, call, recursion>>,
           \A p \in Blockers \ {l} : owner'[p] = owner[p] /\ mask'[p] = mask[p],
           \A p \in (Mrsws \cup Semaphores) \ {l} : count'[p] = count[p],
           \A p \in Mrsws \ {l} : rdrecursion'[p] = rdrecursion[p],
           \A p \in Locks \ {l} : reads'[p] = reads[p] /\ writes'[p] = writes[p]
    PROVE  ObjectsInv' /\ \A p \in Objects \ {l} : Untouched(p)
<1>1. WaitInv' /\ Exact(l)' /\ l \in Objects
  BY WaitSame, InvParts, Apart DEF Exact
<1>2. \A p \in Objects \ {l} : Untouched(p)
  BY DEF Untouched, Bystanders, waitVars
<1> QED
  BY <1>1, <1>2, AtObject

LEMMA MrswReadAcquire ==
    ASSUME ObjectsInv, NEW t \in Threads, NEW l \in Mrsws, mrsw_read_acquire(t, l)
    PROVE  ObjectsInv' /\ \A p \in Objects \ {l} : Untouched(p)
<1> DEFINE R == ReadersOf(l)
           W == WritersOf(l)
<1>1. /\ CanCall(t) /\ WaitInv /\ LockTypes /\ MrswExact(l)
      /\ l \in Objects /\ l \in Locks /\ l \in Blockers
      /\ l \notin Mutexes \cup Queues \cup Semaphores
      /\ call[t] = NoCall /\ state[t] = "running"
      /\ \A u \in Threads : call[u].obj = l => u # t
      /\ t \in R <=> reads[l][t] > 0 /\ writes[l][t] = 0
      /\ t \in W <=> writes[l][t] > 0
      /\ t \in W <=> IsWriter(t, l)
      /\ writes[l] \in [Threads -> Nat] /\ reads[l] \in [Threads -> Nat]
      /\ rdrecursion[l] \in [Threads -> Nat] /\ count[l] \in Int
  BY MrswCallers DEF mrsw_read_acquire
<1>2. ASSUME Reads(t, l, 1)
      PROVE  /\ reads' = [reads EXCEPT ![l] = [reads[l] EXCEPT ![t] = @ + 1]]
             /\ reads' \in [Locks -> [Threads -> Nat]]
             /\ reads'[l][t] = reads[l][t] + 1 /\ UNCHANGED <<writes, call>>
             /\ \A u \in Threads \ {t} : reads'[l][u] = reads[l][u]
             /\ \A p \in Locks \ {l} : reads'[p] = reads[p]
  BY <1>1, <1>2 DEF Reads, LockTypes
<1>3. CASE IsWriter(t, l) /\ Reads(t, l, 1) /\ UNCHANGED <<threadVars, fieldVars>>
  <2>1. UNCHANGED <<waitVars, owner, mask, fieldVars, recursion, count, rdrecursion, writes, call>>
    BY <1>2, <1>3 DEF threadVars, ownVars, fieldVars
  <2>2. LockTypes'
    BY <1>1, <1>2, <1>3, <2>1 DEF LockTypes
  <2>3. R' = R /\ W' = W
    BY <1>1, <1>2, <1>3, <2>1 DEF ReadersOf, WritersOf, Comes, waitVars
  <2>4. MrswExact(l)'
    <3>1. ASSUME NEW u \in Threads
          PROVE  /\ call'[u].obj = l => reads'[l][u] = 0 /\ writes'[l][u] = 0
                 /\ rdrecursion'[l][u] = IF reads'[l][u] > 0 /\ writes'[l][u] = 0
                                         THEN reads'[l][u] - 1 ELSE 0
      <4>1. writes[l][t] # 0
        BY <1>1, <1>3
      <4> QED
        BY <1>1, <1>2, <1>3, <2>1, <4>1 DEF MrswExact
    <3> QED
      BY <1>1, <2>1, <2>3, <3>1 DEF MrswExact, waitVars
  <2> QED
    BY <1>1, <1>2, <1>3, <2>1, <2>2, <2>4, MrswStill
<1>4. CASE /\ ~IsWriter(t, l) /\ t \in mask[l]
           /\ rdrecursion' = [rdrecursion EXCEPT ![l][t] = @ + 1]
           /\ Reads(t, l, 1)
           /\ UNCHANGED <<threadVars, recursion, count>>
  <2>1. UNCHANGED <<waitVars, owner, mask, recursion, count, writes, call>>
    BY <1>2, <1>4 DEF threadVars, ownVars
  <2>2. /\ rdrecursion' \in [Mrsws -> [Threads -> Nat]]
        /\ rdrecursion'[l][t] = rdrecursion[l][t] + 1
        /\ \A u \in Threads \ {t} : rdrecursion'[l][u] = rdrecursion[l][u]
        /\ \A p \in Mrsws \ {l} : rdrecursion'[p] = rdrecursion[p]
    BY <1>1, <1>4 DEF LockTypes
  <2>3. LockTypes'
    BY <1>1, <1>2, <1>4, <2>1, <2>2 DEF LockTypes
  <2>4. t \in R /\ reads[l][t] > 0 /\ writes[l][t] = 0
    BY <1>1, <1>4 DEF MrswExact
  <2>5. R' = R /\ W' = W
    <3>1. reads'[l][t] > 0
      BY <1>1, <1>2, <1>4, <2>4
    <3> QED
      BY <1>1, <1>2, <1>4, <2>1, <2>4, <3>1 DEF ReadersOf, WritersOf, Comes, waitVars
  <2>6. ASSUME NEW u \in Threads
        PROVE  /\ call'[u].obj = l => reads'[l][u] = 0 /\ writes'[l][u] = 0
               /\ rdrecursion'[l][u] = IF reads'[l][u] > 0 /\ writes'[l][u] = 0
                                       THEN reads'[l][u] - 1 ELSE 0
    <3>1. CASE u = t
      <4>1. rdrecursion[l][t] = reads[l][t] - 1 /\ call[t].obj # l
        BY <1>1, <2>4 DEF MrswExact
      <4>2. rdrecursion'[l][t] = reads[l][t] /\ reads'[l][t] = reads[l][t] + 1
        BY <1>1, <1>2, <1>4, <2>2, <4>1
      <4> QED
        BY <1>1, <2>1, <2>4, <3>1, <4>1, <4>2
    <3>2. CASE u # t
      BY <1>1, <1>2, <1>4, <2>1, <2>2, <3>2 DEF MrswExact
    <3> QED
      BY <3>1, <3>2
  <2>7. MrswExact(l)'
    BY <1>1, <2>1, <2>5, <2>6 DEF MrswExact, waitVars
  <2> QED
    BY <1>1, <1>2, <1>4, <2>1, <2>2, <2>3, <2>7, MrswStill
<1>5. CASE /\ ~IsWriter(t, l) /\ t \notin mask[l] /\ OpenToReaders(l)
           /\ SetCount(l, count[l] + 1)
           /\ mrsw_reader_claim(t, l, count[l] + 1)
           /\ Reads(t, l, 1)
           /\ UNCHANGED <<recursion, rdrecursion>>
  <2>1. /\ UNCHANGED <<waitVars, recursion, rdrecursion, writes, call>>
        /\ count' \in [Mrsws \cup Semaphores -> Int] /\ count'[l] = count[l] + 1
        /\ \A p \in (Mrsws \cup Semaphores) \ {l} : count'[p] = count[p]
        /\ owner' \in [Blockers -> Threads \cup {None}] /\ mask' \in [Blockers -> SUBSET Threads]
        /\ owner'[l] = IF count[l] + 1 = 1 THEN t ELSE None
        /\ mask'[l] = mask[l] \cup {t}
        /\ \A p \in Blockers \ {l} : owner'[p] = owner[p] /\ mask'[p] = mask[p]
    BY <1>1, <1>2, <1>5 DEF LockTypes, SetCount, mrsw_reader_claim
  <2>2. LockTypes'
    BY <1>1, <1>2, <1>5, <2>1 DEF LockTypes
  <2>3. /\ count[l] >= 0 /\ queue[l] = <<>> /\ mask[l] = R /\ W = {} /\ t \notin R
        /\ reads[l][t] = 0 /\ writes[l][t] = 0 /\ count[l] = Cardinality(R)
    <3>1. /\ count[l] >= 0 /\ queue[l] = <<>> /\ mask[l] = R /\ W = {} /\ t \notin R
          /\ count[l] = Cardinality(R)
      BY <1>1, <1>5 DEF MrswExact, OpenToReaders
    <3>2. writes[l][t] \in Nat /\ reads[l][t] \in Nat /\ ~(writes[l][t] > 0)
      BY <1>1, <3>1
    <3> QED
      BY <1>1, <3>1, <3>2
  <2>4. R' = R \cup {t} /\ W' = {}
    <3>1. reads'[l][t] = 1 /\ writes'[l][t] = 0
      BY <1>2, <1>5, <2>3
    <3>2. ASSUME NEW u \in Threads
          PROVE  /\ u \in R' <=> (u \in R \/ u = t)
                 /\ u \in W' <=> u \in W
      BY <1>1, <1>2, <1>5, <2>1, <2>3, <3>1 DEF ReadersOf, WritersOf, Comes, waitVars
    <3>3. R \subseteq Threads /\ R' \subseteq Threads /\ W' \subseteq Threads
      BY DEF ReadersOf, WritersOf
    <3> QED
      BY <2>3, <3>2, <3>3
  <2>5. Cardinality(R') = count'[l] /\ count[l] \in Nat
    <3>1. IsFiniteSet(R) /\ Cardinality(R) \in Nat
      BY ReadersFinite
    <3>2. Cardinality(R \cup {t}) = Cardinality(R) + 1
      BY <2>3, <3>1, FS_AddElement
    <3> QED
      BY <2>1, <2>3, <2>4, <3>1, <3>2
  <2>6. count'[l] = 1 => R' = {owner'[l]}
    <3>1. count[l] = 0 => R = {}
      BY <2>3, ReadersFinite, FS_EmptySet
    <3> QED
      BY <2>1, <2>4, <2>5, <3>1
  <2>7. ASSUME NEW u \in Threads
        PROVE  /\ call'[u].obj = l => reads'[l][u] = 0 /\ writes'[l][u] = 0
               /\ rdrecursion'[l][u] = IF reads'[l][u] > 0 /\ writes'[l][u] = 0
                                       THEN reads'[l][u] - 1 ELSE 0
    <3>1. CASE u = t
      BY <1>1, <1>2, <1>5, <2>1, <2>3, <3>1 DEF MrswExact
    <3>2. CASE u # t
      BY <1>1, <1>2, <1>5, <2>1, <3>2 DEF MrswExact
    <3> QED
      BY <3>1, <3>2
  <2>8. /\ mask'[l] = R' /\ ~(count'[l] < 0) /\ W' = {} /\ count'[l] = Cardinality(R')
        /\ (count'[l] # 1 => owner'[l] = None) /\ queue'[l] = <<>>
    BY <2>1, <2>3, <2>4, <2>5 DEF waitVars
  <2>9. MrswExact(l)'
    BY <2>6, <2>7, <2>8 DEF MrswExact
  <2> QED
    BY <1>1, <1>2, <1>5, <2>1, <2>2, <2>9, MrswStill
<1>6. CASE /\ ~IsWriter(t, l) /\ t \notin mask[l] /\ ~OpenToReaders(l)
           /\ retval' = [retval EXCEPT ![t] = 1]
           /\ Blocks(t, l, "read")
  <2>1. count[l] # 0 /\ (count[l] > 0 => queue[l] # <<>>)
    BY <1>1, <1>6 DEF MrswExact, OpenToReaders
  <2>2. reads[l][t] = 0 /\ writes[l][t] = 0
    <3>1. t \notin R /\ t \notin W
      BY <1>1, <1>6 DEF MrswExact
    <3> QED
      BY <1>1, <3>1
  <2> QED
    BY <1>1, <1>6, <2>1, <2>2, BlocksExact, WaitedTypes
<1> QED
  BY <1>3, <1>4, <1>5, <1>6 DEF mrsw_read_acquire

LEMMA MrswReadRelease ==
    ASSUME ObjectsInv, NEW t \in Threads, NEW l \in Mrsws, mrsw_read_release(t, l)
    PROVE  ObjectsInv' /\ \A p \in Objects \ {l} : Untouched(p)
<1> DEFINE R == ReadersOf(l)
           W == WritersOf(l)
<1>1. /\ CanCall(t) /\ WaitInv /\ LockTypes /\ MrswExact(l)
      /\ l \in Objects /\ l \in Locks /\ l \in Blockers
      /\ l \notin Mutexes \cup Queues \cup Semaphores
      /\ call[t] = NoCall /\ state[t] = "running"
      /\ \A u \in Threads : call[u].obj = l => u # t
      /\ t \in R <=> reads[l][t] > 0 /\ writes[l][t] = 0
      /\ t \in W <=> writes[l][t] > 0
      /\ t \in W <=> IsWriter(t, l)
      /\ writes[l] \in [Threads -> Nat] /\ reads[l] \in [Threads -> Nat]
      /\ rdrecursion[l] \in [Threads -> Nat] /\ count[l] \in Int
      /\ reads[l][t] > 0
  BY MrswCallers DEF mrsw_read_release
<1>2. /\ reads' = [reads EXCEPT ![l] = [reads[l] EXCEPT ![t] = @ - 1]]
      /\ reads' \in [Locks -> [Threads -> Nat]]
      /\ reads'[l][t] = reads[l][t] - 1 /\ UNCHANGED <<writes, call>>
      /\ \A u \in Threads \ {t} : reads'[l][u] = reads[l][u]
      /\ \A p \in Locks \ {l} : reads'[p] = reads[p]
  <2>1. reads[l][t] + (-1) = reads[l][t] - 1 /\ reads[l][t] - 1 \in Nat
    BY <1>1
  <2>2. [reads[l] EXCEPT ![t] = @ - 1] \in [Threads -> Nat]
    BY <1>1, <2>1
  <2>3. reads' = [reads EXCEPT ![l][t] = @ + (-1)] /\ UNCHANGED <<writes, call>>
    BY DEF mrsw_read_release, Reads
  <2>4. reads' = [reads EXCEPT ![l] = [reads[l] EXCEPT ![t] = @ - 1]]
    BY <1>1, <2>1, <2>3 DEF LockTypes
  <2>5. reads' \in [Locks -> [Threads -> Nat]] /\ \A p \in Locks \ {l} : reads'[p] = reads[p]
    BY <1>1, <2>2, <2>4 DEF LockTypes
  <2>6. reads'[l] = [reads[l] EXCEPT ![t] = @ - 1]
    BY <1>1, <2>4 DEF LockTypes
  <2>7. reads'[l][t] = reads[l][t] - 1 /\ \A u \in Threads \ {t} : reads'[l][u] = reads[l][u]
    BY <1>1, <2>6
  <2> QED
    BY <2>3, <2>4, <2>5, <2>7
<1>3. CASE IsWriter(t, l) /\ UNCHANGED <<threadVars, fieldVars>>
  <2>1. UNCHANGED <<waitVars, owner, mask, fieldVars, recursion, count, rdrecursion>>
    BY <1>3 DEF threadVars, ownVars, fieldVars
  <2>2. LockTypes'
    BY <1>1, <1>2, <2>1 DEF LockTypes
  <2>3. writes[l][t] > 0 /\ writes[l][t] # 0
    BY <1>1, <1>3
  <2>4. R' = R /\ W' = W
    BY <1>1, <1>2, <2>1, <2>3 DEF ReadersOf, WritersOf, Comes, waitVars
  <2>5. ASSUME NEW u \in Threads
        PROVE  /\ call'[u].obj = l => reads'[l][u] = 0 /\ writes'[l][u] = 0
               /\ rdrecursion'[l][u] = IF reads'[l][u] > 0 /\ writes'[l][u] = 0
                                       THEN reads'[l][u] - 1 ELSE 0
    BY <1>1, <1>2, <2>1, <2>3 DEF MrswExact
  <2>6. MrswExact(l)'
    BY <1>1, <1>2, <2>1, <2>4, <2>5 DEF MrswExact, waitVars
  <2> QED
    BY <1>1, <1>2, <2>1, <2>2, <2>6, MrswStill
<1>4. ASSUME ~IsWriter(t, l)
      PROVE  /\ t \in R /\ writes[l][t] = 0 /\ W = {} /\ count[l] = Cardinality(R) /\ mask[l] = R
             /\ count[l] > 0 /\ rdrecursion[l][t] = reads[l][t] - 1
             /\ Cardinality(R \ {t}) = count[l] - 1
  <2>1. writes[l][t] = 0 /\ t \in R
    <3>1. ~(writes[l][t] > 0) /\ writes[l][t] \in Nat
      BY <1>1, <1>4
    <3> QED
      BY <1>1, <3>1
  <2>2. count[l] >= 0 /\ W = {} /\ count[l] = Cardinality(R) /\ mask[l] = R
    BY <1>1, <2>1 DEF MrswExact
  <2>3. IsFiniteSet(R) /\ Cardinality(R) \in Nat
    BY ReadersFinite
  <2>4. count[l] # 0
    BY <2>1, <2>2, <2>3, FS_EmptySet
  <2>5. rdrecursion[l][t] = reads[l][t] - 1
    BY <1>1, <2>1 DEF MrswExact
  <2>6. Cardinality(R \ {t}) = Cardinality(R) - 1
    BY <2>1, <2>3, FS_RemoveElement
  <2> QED
    BY <2>1, <2>2, <2>3, <2>4, <2>5, <2>6
<1>5. CASE /\ ~IsWriter(t, l) /\ rdrecursion[l][t] > 0
           /\ rdrecursion' = [rdrecursion EXCEPT ![l][t] = @ - 1]
           /\ UNCHANGED <<threadVars, recursion, count>>
  <2>1. UNCHANGED <<waitVars, owner, mask, recursion, count>>
    BY <1>5 DEF threadVars, ownVars
  <2>2. /\ rdrecursion' \in [Mrsws -> [Threads -> Nat]]
        /\ rdrecursion'[l][t] = rdrecursion[l][t] - 1
        /\ \A u \in Threads \ {t} : rdrecursion'[l][u] = rdrecursion[l][u]
        /\ \A p \in Mrsws \ {l} : rdrecursion'[p] = rdrecursion[p]
    <3>1. rdrecursion[l][t] - 1 \in Nat
      BY <1>1, <1>5
    <3> QED
      BY <1>1, <1>5, <3>1 DEF LockTypes
  <2>3. LockTypes'
    BY <1>1, <1>2, <2>1, <2>2 DEF LockTypes
  <2>4. reads'[l][t] > 0 /\ reads'[l][t] = rdrecursion[l][t]
    BY <1>1, <1>2, <1>4, <1>5
  <2>5. R' = R /\ W' = W
    BY <1>1, <1>2, <1>4, <1>5, <2>1, <2>4 DEF ReadersOf, WritersOf, Comes, waitVars
  <2>6. ASSUME NEW u \in Threads
        PROVE  /\ call'[u].obj = l => reads'[l][u] = 0 /\ writes'[l][u] = 0
               /\ rdrecursion'[l][u] = IF reads'[l][u] > 0 /\ writes'[l][u] = 0
                                       THEN reads'[l][u] - 1 ELSE 0
    <3>1. CASE u = t
      BY <1>1, <1>2, <1>4, <1>5, <2>2, <2>4, <3>1
    <3>2. CASE u # t
      BY <1>1, <1>2, <2>1, <2>2, <3>2 DEF MrswExact
    <3> QED
      BY <3>1, <3>2
  <2>7. MrswExact(l)'
    BY <1>1, <1>2, <2>1, <2>5, <2>6 DEF MrswExact, waitVars
  <2> QED
    BY <1>1, <1>2, <2>1, <2>2, <2>3, <2>7, MrswStill
<1>6. ASSUME ~IsWriter(t, l), rdrecursion[l][t] = 0
      PROVE  reads[l][t] = 1 /\ reads'[l][t] = 0
  BY <1>1, <1>2, <1>4, <1>6
<1>7. CASE /\ ~IsWriter(t, l) /\ rdrecursion[l][t] = 0
           /\ count[l] = 1 /\ queue[l] # <<>>
           /\ SetCount(l, -1)
           /\ wakeup_thread_transfer(l)
           /\ mask' = [mask EXCEPT ![l] = @ \ {t}]
           /\ UNCHANGED <<recursion, rdrecursion>>
  <2> DEFINE h == Head(queue[l])
  <2>1. /\ WaitInv'
        /\ h \in Threads /\ call[h].obj = l /\ state[h] = "blocked" /\ state'[h] = "running"
        /\ \A u \in Threads \ {h} : state'[u] = state[u] /\ retval'[u] = retval[u]
        /\ queue'[l] = Tail(queue[l]) /\ owner' = [owner EXCEPT ![l] = h]
        /\ \A p \in Objects \ {l} : queue'[p] = queue[p] /\ Bystanders(p)
    BY <1>1, <1>2, <1>7, HandOver
  <2>2. /\ count' \in [Mrsws \cup Semaphores -> Int] /\ count'[l] = -1
        /\ \A p \in (Mrsws \cup Semaphores) \ {l} : count'[p] = count[p]
        /\ owner' \in [Blockers -> Threads \cup {None}] /\ mask' \in [Blockers -> SUBSET Threads]
        /\ owner'[l] = h /\ mask'[l] = R \ {t}
        /\ \A p \in Blockers \ {l} : owner'[p] = owner[p] /\ mask'[p] = mask[p]
    BY <1>1, <1>4, <1>7, <2>1 DEF LockTypes, SetCount
  <2>3. LockTypes'
    BY <1>1, <1>2, <1>7, <2>2 DEF LockTypes
  <2>4. \A p \in Objects \ {l} : Untouched(p)
    BY <1>1, <1>2, <1>7, <2>1, <2>2 DEF Untouched
  <2>5. call[h] = [obj |-> l, mode |-> "write"]
    <3>1. call[h] = [obj |-> l, mode |-> call[h].mode] /\ call[h].mode \in {"read", "write"}
      BY <1>1, <2>1, ModeOf
    <3>2. retval[h] = 0 /\ wqp[h] = l
      BY <1>1, <1>4, <1>7, FirstWaits DEF MrswExact
    <3>3. call[h].mode # "read"
      BY <1>1, <2>1, <3>2, Apart DEF WaitInv, Linked
    <3> QED
      BY <3>1, <3>3
  <2> HIDE DEF h
  <2>6. R \ {t} = {}
    BY <1>1, <1>4, <1>7 DEF MrswExact
  <2>7. R' = {} /\ W' = {h}
    <3>1. ASSUME NEW u \in Threads
          PROVE  u \notin R' /\ (u \in W' <=> u = h)
      <4>1. ~Comes(u, l, "read")' /\ (Comes(u, l, "write")' <=> u = h \/ Comes(u, l, "write"))
        BY <1>1, <1>2, <1>4, <1>7, <2>1, <2>5, <2>6 DEF Comes, ReadersOf
      <4>2. ~(reads'[l][u] > 0 /\ writes'[l][u] = 0)
        BY <1>1, <1>2, <1>6, <1>7, <2>6 DEF ReadersOf
      <4>3. u \notin W
        BY <1>4, <1>7
      <4> QED
        BY <1>2, <4>1, <4>2, <4>3 DEF ReadersOf, WritersOf
    <3>2. R' \subseteq Threads /\ W' \subseteq Threads
      BY DEF ReadersOf, WritersOf
    <3> QED
      BY <2>1, <3>1, <3>2
  <2>8. ASSUME NEW u \in Threads
        PROVE  /\ call'[u].obj = l => reads'[l][u] = 0 /\ writes'[l][u] = 0
               /\ rdrecursion'[l][u] = IF reads'[l][u] > 0 /\ writes'[l][u] = 0
                                       THEN reads'[l][u] - 1 ELSE 0
    <3>1. CASE u = t
      BY <1>1, <1>2, <1>6, <1>7, <3>1
    <3>2. CASE u # t
      BY <1>1, <1>2, <1>7, <3>2 DEF MrswExact
    <3> QED
      BY <3>1, <3>2
  <2>9. writes'[l][h] = 0 /\ count'[l] < 0 /\ ~(count'[l] >= 0) /\ count'[l] # 0
        /\ count'[l] # 1 /\ ~(count'[l] > 0) /\ count'[l] = -1
    BY <1>1, <1>2, <2>1, <2>2 DEF MrswExact
  <2>10. MrswExact(l)'
    BY <2>2, <2>6, <2>7, <2>8, <2>9 DEF MrswExact
  <2> QED
    BY <1>1, <2>1, <2>3, <2>4, <2>10, AtObject DEF Exact
<1>8. CASE /\ ~IsWriter(t, l) /\ rdrecursion[l][t] = 0
           /\ ~(count[l] = 1 /\ queue[l] # <<>>)
           /\ SetCount(l, count[l] - 1)
           /\ mrsw_reader_relinquish(t, l)
           /\ UNCHANGED <<recursion, rdrecursion>>
  <2>1. /\ UNCHANGED waitVars
        /\ count' \in [Mrsws \cup Semaphores -> Int] /\ count'[l] = count[l] - 1
        /\ \A p \in (Mrsws \cup Semaphores) \ {l} : count'[p] = count[p]
        /\ owner'[l] = OwnerWithout(t, l) /\ mask'[l] = R \ {t}
        /\ \A p \in Blockers \ {l} : owner'[p] = owner[p] /\ mask'[p] = mask[p]
        /\ owner' = [owner EXCEPT ![l] = OwnerWithout(t, l)]
        /\ mask' = [mask EXCEPT ![l] = R \ {t}]
    BY <1>1, <1>4, <1>8 DEF LockTypes, SetCount, mrsw_reader_relinquish
  <2>2. R' = R \ {t} /\ W' = {}
    <3>1. ASSUME NEW u \in Threads
          PROVE  /\ u \in R' <=> (u \in R /\ u # t)
                 /\ u \in W' <=> u \in W
      BY <1>1, <1>2, <1>6, <1>8, <2>1, Apart DEF ReadersOf, WritersOf, Comes, waitVars, NoCall
    <3>2. R \subseteq Threads /\ R' \subseteq Threads /\ W' \subseteq Threads
      BY DEF ReadersOf, WritersOf
    <3> QED
      BY <1>4, <1>8, <3>1, <3>2
  <2>3. Cardinality(R') = count'[l] /\ count[l] > 0
    BY <1>4, <1>8, <2>1, <2>2
  <2>4. count[l] = 2 => OwnerWithout(t, l) \in R' /\ R' = {OwnerWithout(t, l)}
    <3> SUFFICES ASSUME count[l] = 2
                 PROVE  OwnerWithout(t, l) \in R' /\ R' = {OwnerWithout(t, l)}
      OBVIOUS
    <3>1. Cardinality(R') = 1
      BY <2>1, <2>3
    <3>2. IsFiniteSet(R \ {t}) /\ IsFiniteSet(R')
      <4>1. IsFiniteSet(R)
        BY ReadersFinite
      <4> QED
        BY <2>2, <4>1, FS_RemoveElement
    <3>3. PICK x : R' = {x}
      BY <3>1, <3>2, FS_Singleton
    <3>4. OwnerWithout(t, l) = CHOOSE u \in R' : TRUE
      BY <1>4, <1>8, <2>2 DEF OwnerWithout
    <3>5. (CHOOSE u \in R' : TRUE) \in R'
      BY <3>3
    <3> QED
      BY <3>3, <3>4, <3>5
  <2>5. count[l] = 1 => OwnerWithout(t, l) = None
    BY DEF OwnerWithout
  <2>6. count[l] # 1 /\ count[l] # 2 => OwnerWithout(t, l) = owner[l] /\ owner[l] = None
    BY <1>1, <2>3 DEF OwnerWithout, MrswExact
  <2>7. OwnerWithout(t, l) \in Threads \cup {None}
    BY <2>4, <2>5, <2>6 DEF ReadersOf
  <2>8. LockTypes'
    <3>1. R \ {t} \subseteq Threads
      BY DEF ReadersOf
    <3>2. owner' \in [Blockers -> Threads \cup {None}] /\ mask' \in [Blockers -> SUBSET Threads]
      BY <1>1, <2>1, <2>7, <3>1 DEF LockTypes
    <3> QED
      BY <1>1, <1>2, <1>8, <2>1, <3>2 DEF LockTypes
  <2>9. ASSUME NEW u \in Threads
        PROVE  /\ call'[u].obj = l => reads'[l][u] = 0 /\ writes'[l][u] = 0
               /\ rdrecursion'[l][u] = IF reads'[l][u] > 0 /\ writes'[l][u] = 0
                                       THEN reads'[l][u] - 1 ELSE 0
    <3>1. CASE u = t
      BY <1>1, <1>2, <1>6, <1>8, <3>1
    <3>2. CASE u # t
      BY <1>1, <1>2, <1>8, <3>2 DEF MrswExact
    <3> QED
      BY <3>1, <3>2
  <2>10. /\ ~(count'[l] < 0)
         /\ count'[l] # 1 => owner'[l] = None
         /\ count'[l] = 1 => R' = {owner'[l]}
    <3>1. count[l] = 1 \/ count[l] = 2 \/ (count[l] # 1 /\ count[l] # 2)
      OBVIOUS
    <3> QED
      BY <1>1, <2>1, <2>3, <2>4, <2>5, <2>6
  <2>11. /\ count'[l] = 0 => queue'[l] = <<>>
         /\ count'[l] > 0 /\ queue'[l] # <<>> => retval'[Head(queue'[l])] = 0
    <3>1. queue'[l] = queue[l] /\ retval' = retval
      BY <2>1 DEF waitVars
    <3>2. count'[l] = 0 => count[l] = 1
      BY <1>1, <2>1
    <3> QED
      BY <1>1, <1>8, <2>3, <3>1, <3>2 DEF MrswExact
  <2>12. MrswExact(l)'
    BY <2>1, <2>2, <2>3, <2>9, <2>10, <2>11 DEF MrswExact
  <2> QED
    BY <1>1, <1>2, <1>8, <2>1, <2>8, <2>12, MrswStill
<1> QED
  BY <1>3, <1>5, <1>7, <1>8 DEF mrsw_read_release

LEMMA MrswWriteAcquire ==
    ASSUME ObjectsInv, NEW t \in Threads, NEW l \in Mrsws, mrsw_write_acquire(t, l)
    PROVE  ObjectsInv' /\ \A p \in Objects \ {l} : Untouched(p)
<1> DEFINE R == ReadersOf(l)
           W == WritersOf(l)
<1>1. /\ CanCall(t) /\ WaitInv /\ LockTypes /\ MrswExact(l)
      /\ l \in Objects /\ l \in Locks /\ l \in Blockers
      /\ l \notin Mutexes \cup Queues \cup Semaphores
      /\ call[t] = NoCall /\ state[t] = "running"
      /\ \A u \in Threads : call[u].obj = l => u # t
      /\ t \in R <=> reads[l][t] > 0 /\ writes[l][t] = 0
      /\ t \in W <=> writes[l][t] > 0
      /\ t \in W <=> IsWriter(t, l)
      /\ writes[l] \in [Threads -> Nat] /\ reads[l] \in [Threads -> Nat]
      /\ rdrecursion[l] \in [Threads -> Nat] /\ count[l] \in Int
      /\ writes[l][t] > 0 \/ ~Holds(t, l)
  BY MrswCallers DEF mrsw_write_acquire
<1>2. ASSUME Writes(t, l, 1)
      PROVE  /\ writes' \in [Locks -> [Threads -> Nat]]
             /\ writes'[l][t] = writes[l][t] + 1 /\ writes'[l][t] > 0 /\ UNCHANGED <<reads, call>>
             /\ \A u \in Threads \ {t} : writes'[l][u] = writes[l][u]
             /\ \A p \in Locks \ {l} : writes'[p] = writes[p]
  BY <1>1, <1>2 DEF Writes, LockTypes
<1>3. writes[l][t] = 0 => reads[l][t] = 0
  BY <1>1 DEF Holds
<1>4. CASE /\ owner[l] = t
           /\ SetCount(l, count[l] - 1)
           /\ Writes(t, l, 1)
           /\ UNCHANGED <<threadVars, recursion, rdrecursion>>
  <2>1. /\ UNCHANGED <<waitVars, owner, mask, recursion, rdrecursion>>
        /\ count' \in [Mrsws \cup Semaphores -> Int] /\ count'[l] = count[l] - 1
        /\ \A p \in (Mrsws \cup Semaphores) \ {l} : count'[p] = count[p]
    BY <1>1, <1>4 DEF threadVars, ownVars, LockTypes, SetCount
  <2>2. LockTypes'
    BY <1>1, <1>2, <1>4, <2>1 DEF LockTypes
  <2>3. count[l] < 0 /\ writes[l][t] > 0
    <3>1. CASE count[l] < 0
      BY <1>1, <1>4, <3>1 DEF IsWriter
    <3>2. CASE count[l] >= 0
      <4>1. count[l] = 1 /\ R = {t}
        BY <1>1, <1>4, <3>2, Apart DEF MrswExact
      <4> QED
        BY <1>1, <1>3, <4>1
    <3> QED
      BY <1>1, <3>1, <3>2
  <2>4. W = {t} /\ R = {} /\ count[l] = -writes[l][t]
    BY <1>1, <1>4, <2>3 DEF MrswExact
  <2>5. R' = R /\ W' = W
    <3>1. ASSUME NEW u \in Threads
          PROVE  (u \in R' <=> u \in R) /\ (u \in W' <=> u \in W)
      BY <1>1, <1>2, <1>4, <2>1, <2>3 DEF ReadersOf, WritersOf, Comes, waitVars
    <3>2. R \subseteq Threads /\ R' \subseteq Threads /\ W \subseteq Threads /\ W' \subseteq Threads
      BY DEF ReadersOf, WritersOf
    <3> QED
      BY <3>1, <3>2
  <2>6. ASSUME NEW u \in Threads
        PROVE  /\ call'[u].obj = l => reads'[l][u] = 0 /\ writes'[l][u] = 0
               /\ rdrecursion'[l][u] = IF reads'[l][u] > 0 /\ writes'[l][u] = 0
                                       THEN reads'[l][u] - 1 ELSE 0
    <3>1. CASE u = t
      <4>1. rdrecursion[l][t] = 0 /\ writes'[l][t] # 0
        BY <1>1, <1>2, <1>4, <2>3 DEF MrswExact
      <4> QED
        BY <1>1, <1>2, <1>4, <2>1, <3>1, <4>1
    <3>2. CASE u # t
      BY <1>1, <1>2, <1>4, <2>1, <3>2 DEF MrswExact
    <3> QED
      BY <3>1, <3>2
  <2>7. /\ count'[l] = -writes'[l][t] /\ count'[l] < 0 /\ ~(count'[l] >= 0) /\ count'[l] # 0
        /\ count'[l] # 1 /\ ~(count'[l] > 0)
    BY <1>1, <1>2, <1>4, <2>1, <2>3, <2>4
  <2>8. MrswExact(l)'
    BY <1>1, <1>2, <1>4, <2>1, <2>4, <2>5, <2>6, <2>7 DEF MrswExact
  <2> QED
    BY <1>1, <1>2, <1>4, <2>1, <2>2, <2>8, MrswStill
<1>5. CASE /\ owner[l] # t /\ count[l] = 0
           /\ SetCount(l, -1)
           /\ SetOwner(l, t)
           /\ Writes(t, l, 1)
           /\ UNCHANGED <<recursion, rdrecursion>>
  <2>1. /\ UNCHANGED <<waitVars, mask, recursion, rdrecursion>>
        /\ count' \in [Mrsws \cup Semaphores -> Int] /\ count'[l] = -1
        /\ \A p \in (Mrsws \cup Semaphores) \ {l} : count'[p] = count[p]
        /\ owner' \in [Blockers -> Threads \cup {None}] /\ owner'[l] = t
        /\ \A p \in Blockers \ {l} : owner'[p] = owner[p]
    BY <1>1, <1>5 DEF LockTypes, SetCount, SetOwner
  <2>2. LockTypes'
    BY <1>1, <1>2, <1>5, <2>1 DEF LockTypes
  <2>3. W = {} /\ R = {} /\ mask[l] = {}
    <3>1. W = {} /\ Cardinality(R) = 0 /\ mask[l] = R
      BY <1>1, <1>5 DEF MrswExact
    <3>2. IsFiniteSet(R)
      BY ReadersFinite
    <3> QED
      BY <3>1, <3>2, FS_EmptySet
  <2>4. writes[l][t] = 0 /\ reads[l][t] = 0
    <3>1. writes[l][t] \in Nat /\ ~(writes[l][t] > 0)
      BY <1>1, <2>3
    <3> QED
      BY <1>3, <3>1
  <2>5. R' = {} /\ W' = {t}
    <3>1. ASSUME NEW u \in Threads
          PROVE  (u \in R' <=> u \in R) /\ (u \in W' <=> u \in W \/ u = t)
      BY <1>1, <1>2, <1>5, <2>1, <2>4 DEF ReadersOf, WritersOf, Comes, waitVars
    <3>2. R' \subseteq Threads /\ W' \subseteq Threads
      BY DEF ReadersOf, WritersOf
    <3> QED
      BY <2>3, <3>1, <3>2
  <2>6. ASSUME NEW u \in Threads
        PROVE  /\ call'[u].obj = l => reads'[l][u] = 0 /\ writes'[l][u] = 0
               /\ rdrecursion'[l][u] = IF reads'[l][u] > 0 /\ writes'[l][u] = 0
                                       THEN reads'[l][u] - 1 ELSE 0
    <3>1. CASE u = t
      <4>1. rdrecursion[l][t] = 0 /\ writes'[l][t] # 0
        BY <1>1, <1>2, <1>5, <2>4 DEF MrswExact
      <4> QED
        BY <1>1, <1>2, <1>5, <2>1, <3>1, <4>1
    <3>2. CASE u # t
      BY <1>1, <1>2, <1>5, <2>1, <3>2 DEF MrswExact
    <3> QED
      BY <3>1, <3>2
  <2>7. writes'[l][t] = 1
    BY <1>2, <1>5, <2>4
  <2>8. MrswExact(l)'
    BY <2>1, <2>3, <2>5, <2>6, <2>7 DEF MrswExact
  <2> QED
    BY <1>1, <1>2, <1>5, <2>1, <2>2, <2>8, MrswStill
<1>6. CASE /\ owner[l] # t /\ count[l] # 0
           /\ retval' = [retval EXCEPT ![t] = 0]
           /\ Blocks(t, l, "write")
  <2>1. reads[l][t] = 0 /\ writes[l][t] = 0
    <3>1. ~(writes[l][t] > 0) /\ writes[l][t] \in Nat
      BY <1>1, <1>6 DEF IsWriter
    <3> QED
      BY <1>3, <3>1
  <2> QED
    BY <1>1, <1>6, <2>1, BlocksExact, WaitedTypes
<1> QED
  BY <1>4, <1>5, <1>6 DEF mrsw_write_acquire

(* The waiters at the head of the line that asked to read, by their places. *)
LEMMA FirstReadersExact ==
    ASSUME WaitInv, NEW o \in Objects, queue[o] # <<>>, retval[Head(queue[o])] = 1
    PROVE  LET n == Cardinality(ReaderPlaces(o)) IN
           /\ n \in 1..Len(queue[o])
           /\ ReaderPlaces(o) = 1..n
           /\ FirstReaders(o) = {queue[o][k] : k \in 1..n}
           /\ Cardinality(FirstReaders(o)) = n
           /\ Head(queue[o]) \in FirstReaders(o)
           /\ FirstReaders(o) \subseteq ToSet(queue[o])
           /\ \A t \in FirstReaders(o) : retval[t] = 1
           /\ n < Len(queue[o]) => retval[queue[o][n + 1]] = 0
<1> DEFINE ps == ReaderPlaces(o)
           n == Cardinality(ps)
           q == queue[o]
<1>1. /\ q \in Seq(Threads) /\ NoDuplicates(q) /\ Len(q) \in Nat /\ DOMAIN q = 1..Len(q)
      /\ Head(q) = q[1] /\ 1 \in 1..Len(q) /\ \A i \in 1..Len(q) : q[i] \in Threads
  BY DEF WaitInv, WaitTypes, QueueExact
<1>2. ps = {k \in 1..Len(q) : \A j \in 1..k : retval[q[j]] = 1}
  BY <1>1 DEF ReaderPlaces
<1>3. ps \subseteq 1..Len(q) /\ IsFiniteSet(ps) /\ n \in Nat
  <2>1. ps \subseteq 1..Len(q) /\ IsFiniteSet(1..Len(q))
    BY <1>1, <1>2, FS_Interval
  <2> QED
    BY <2>1, FS_Subset, FS_CardinalityType
<1>4. ASSUME NEW k \in ps
      PROVE  k \in 1..n
  <2>1. k \in 1..Len(q) /\ k \in Nat /\ k >= 1
    BY <1>1, <1>2
  <2>2. 1..k \subseteq ps
    BY <1>1, <1>2, <2>1
  <2>3. IsFiniteSet(1..k) /\ Cardinality(1..k) = k
    BY <2>1, FS_Interval
  <2>4. k <= n
    BY <1>3, <2>2, <2>3, FS_Subset
  <2> QED
    BY <1>3, <2>1, <2>4
<1>5. ps = 1..n
  <2>1. ps \in SUBSET (1..n)
    BY <1>4
  <2>2. IsFiniteSet(1..n) /\ Cardinality(1..n) = n
    BY <1>3, FS_Interval
  <2> QED
    BY <2>1, <2>2, FS_Subset
<1>6. 1 \in ps
  <2>1. \A j \in 1..1 : q[j] = q[1]
    OBVIOUS
  <2> QED
    BY <1>1, <1>2, <2>1
<1> HIDE DEF ps, n, q
<1>7. n \in 1..Len(q) /\ n \in Nat /\ n >= 1
  <2>1. 1 \in 1..n
    BY <1>5, <1>6
  <2>2. n \in ps
    BY <1>3, <1>5, <2>1
  <2> QED
    BY <1>3, <2>1, <2>2
<1>8. FirstReaders(o) = {q[k] : k \in 1..n}
  BY <1>5 DEF FirstReaders, ps, q
<1>9. Cardinality(FirstReaders(o)) = n
  <2> DEFINE f == [k \in 1..n |-> q[k]]
             F == FirstReaders(o)
  <2>1. f \in [1..n -> F] /\ \A k \in 1..n : f[k] = q[k] /\ k \in DOMAIN q
    BY <1>1, <1>7, <1>8
  <2>2. f \in Injection(1..n, F)
    <3>1. \A i, j \in 1..n : f[i] = f[j] => i = j
      BY <1>1, <2>1 DEF NoDuplicates
    <3> QED
      BY <2>1, <3>1 DEF Injection, IsInjective
  <2>3. f \in Surjection(1..n, F)
    BY <1>8, <2>1 DEF Surjection
  <2>4. IsFiniteSet(1..n) /\ Cardinality(1..n) = n
    BY <1>7, FS_Interval
  <2>5. Cardinality(F) = Cardinality(1..n)
    BY <2>2, <2>3, <2>4, FS_Surjection
  <2> QED
    BY <2>4, <2>5
<1>10. /\ Head(q) \in FirstReaders(o)
       /\ FirstReaders(o) \subseteq ToSet(q)
       /\ \A t \in FirstReaders(o) : retval[t] = 1
  <2>1. \A k \in 1..n : k \in DOMAIN q /\ retval[q[k]] = 1
    BY <1>1, <1>2, <1>5, <1>7
  <2> QED
    BY <1>1, <1>5, <1>6, <1>8, <2>1 DEF ToSet
<1>11. n < Len(q) => retval[q[n + 1]] = 0
  <2> SUFFICES ASSUME n < Len(q), retval[q[n + 1]] # 0
               PROVE  FALSE
    OBVIOUS
  <2>1. n + 1 \in 1..Len(q) /\ retval[q[n + 1]] = 1
    BY <1>1, <1>7 DEF WaitInv, WaitTypes
  <2>2. \A j \in 1..(n + 1) : j \in 1..n \/ j = n + 1
    BY <1>7
  <2>3. \A j \in 1..n : retval[q[j]] = 1
    BY <1>2, <1>5, <1>7
  <2>4. n + 1 \in ps
    BY <1>2, <2>1, <2>2, <2>3
  <2> QED
    BY <1>5, <1>7, <2>4
<1> QED
  BY <1>5, <1>7, <1>8, <1>9, <1>10, <1>11 DEF ps, n, q

LEMMA MrswWriteRelease ==
    ASSUME ObjectsInv, NEW t \in Threads, NEW l \in Mrsws, mrsw_write_release(t, l)
    PROVE  ObjectsInv' /\ \A p \in Objects \ {l} : Untouched(p)
<1> DEFINE R == ReadersOf(l)
           W == WritersOf(l)
<1>1. /\ CanCall(t) /\ WaitInv /\ LockTypes /\ MrswExact(l)
      /\ l \in Objects /\ l \in Locks /\ l \in Blockers
      /\ l \notin Mutexes \cup Queues \cup Semaphores
      /\ call[t] = NoCall /\ state[t] = "running"
      /\ \A u \in Threads : call[u].obj = l => u # t
      /\ t \in R <=> reads[l][t] > 0 /\ writes[l][t] = 0
      /\ t \in W <=> writes[l][t] > 0
      /\ t \in W <=> IsWriter(t, l)
      /\ writes[l] \in [Threads -> Nat] /\ reads[l] \in [Threads -> Nat]
      /\ rdrecursion[l] \in [Threads -> Nat] /\ count[l] \in Int
      /\ writes[l][t] > 0 /\ (writes[l][t] = 1 => reads[l][t] = 0)
  BY MrswCallers DEF mrsw_write_release
<1>2. /\ writes' \in [Locks -> [Threads -> Nat]]
      /\ writes'[l][t] = writes[l][t] - 1 /\ UNCHANGED <<reads, call>>
      /\ \A u \in Threads \ {t} : writes'[l][u] = writes[l][u]
      /\ \A p \in Locks \ {l} : writes'[p] = writes[p]
      /\ UNCHANGED <<recursion, rdrecursion>>
  <2>1. writes[l][t] + (-1) = writes[l][t] - 1 /\ writes[l][t] - 1 \in Nat
    BY <1>1
  <2>2. [writes[l] EXCEPT ![t] = @ - 1] \in [Threads -> Nat]
    BY <1>1, <2>1
  <2>3. /\ writes' = [writes EXCEPT ![l][t] = @ + (-1)] /\ UNCHANGED <<reads, call>>
        /\ UNCHANGED <<recursion, rdrecursion>>
    BY DEF mrsw_write_release, Writes
  <2>4. writes' = [writes EXCEPT ![l] = [writes[l] EXCEPT ![t] = @ - 1]]
    BY <1>1, <2>1, <2>3 DEF LockTypes
  <2>5. writes' \in [Locks -> [Threads -> Nat]] /\ \A p \in Locks \ {l} : writes'[p] = writes[p]
    BY <1>1, <2>2, <2>4 DEF LockTypes
  <2>6. writes'[l] = [writes[l] EXCEPT ![t] = @ - 1]
    BY <1>1, <2>4 DEF LockTypes
  <2>7. writes'[l][t] = writes[l][t] - 1 /\ \A u \in Threads \ {t} : writes'[l][u] = writes[l][u]
    BY <1>1, <2>6
  <2> QED
    BY <2>3, <2>5, <2>7
<1>3. /\ count[l] < 0 /\ owner[l] = t /\ W = {t} /\ R = {} /\ count[l] = -writes[l][t]
      /\ mask[l] = {} /\ rdrecursion[l][t] = 0
      /\ \A u \in Threads \ {t} : writes[l][u] = 0 /\ ~(reads[l][u] > 0) /\ rdrecursion[l][u] = 0
  <2>1. /\ count[l] < 0 /\ owner[l] = t /\ W = {t} /\ R = {} /\ count[l] = -writes[l][t]
        /\ mask[l] = {} /\ rdrecursion[l][t] = 0
    BY <1>1 DEF IsWriter, MrswExact
  <2>2. ASSUME NEW u \in Threads \ {t}
        PROVE  writes[l][u] = 0 /\ ~(reads[l][u] > 0) /\ rdrecursion[l][u] = 0
    <3>1. writes[l][u] \in Nat /\ ~(writes[l][u] > 0)
      BY <1>1, <2>1 DEF WritersOf
    <3>2. writes[l][u] = 0
      BY <3>1
    <3>3. ~(reads[l][u] > 0)
      BY <2>1, <3>2 DEF ReadersOf
    <3> QED
      BY <1>1, <3>2, <3>3 DEF MrswExact
  <2> QED
    BY <2>1, <2>2
<1>4. CASE /\ count[l] < -1
           /\ SetCount(l, count[l] + 1)
           /\ UNCHANGED threadVars
  <2>1. /\ UNCHANGED <<waitVars, owner, mask>>
        /\ count' \in [Mrsws \cup Semaphores -> Int] /\ count'[l] = count[l] + 1
        /\ \A p \in (Mrsws \cup Semaphores) \ {l} : count'[p] = count[p]
    BY <1>1, <1>4 DEF threadVars, ownVars, LockTypes, SetCount
  <2>2. LockTypes'
    BY <1>1, <1>2, <2>1 DEF LockTypes
  <2>3. writes'[l][t] > 0 /\ count'[l] = -writes'[l][t] /\ count'[l] < 0 /\ writes'[l][t] # 0
    BY <1>1, <1>2, <1>3, <1>4, <2>1
  <2>4. R' = R /\ W' = W
    <3>1. ASSUME NEW u \in Threads
          PROVE  (u \in R' <=> u \in R) /\ (u \in W' <=> u \in W)
      BY <1>1, <1>2, <2>1, <2>3 DEF ReadersOf, WritersOf, Comes, waitVars
    <3>2. R \subseteq Threads /\ R' \subseteq Threads /\ W \subseteq Threads /\ W' \subseteq Threads
      BY DEF ReadersOf, WritersOf
    <3> QED
      BY <3>1, <3>2
  <2>5. ASSUME NEW u \in Threads
        PROVE  /\ call'[u].obj = l => reads'[l][u] = 0 /\ writes'[l][u] = 0
               /\ rdrecursion'[l][u] = IF reads'[l][u] > 0 /\ writes'[l][u] = 0
                                       THEN reads'[l][u] - 1 ELSE 0
    <3>1. CASE u = t
      BY <1>1, <1>2, <1>3, <2>3, <3>1
    <3>2. CASE u # t
      BY <1>1, <1>2, <1>3, <3>2 DEF MrswExact
    <3> QED
      BY <3>1, <3>2
  <2>6. /\ ~(count'[l] >= 0) /\ count'[l] # 0 /\ count'[l] # 1 /\ ~(count'[l] > 0)
    BY <1>1, <1>4, <2>1
  <2>7. MrswExact(l)'
    BY <1>3, <2>1, <2>3, <2>4, <2>5, <2>6 DEF MrswExact
  <2> QED
    BY <1>1, <1>2, <2>1, <2>2, <2>7, MrswStill
(* The outermost claim is given back. *)
<1>5. ASSUME count[l] >= -1
      PROVE  /\ count[l] = -1 /\ \A u \in Threads : writes'[l][u] = 0 /\ reads[l][u] = 0
             /\ \A u \in Threads : rdrecursion[l][u] = 0
  <2>1. count[l] = -1 /\ writes[l][t] = 1 /\ reads[l][t] = 0
    BY <1>1, <1>3, <1>5
  <2>2. ASSUME NEW u \in Threads
        PROVE  writes'[l][u] = 0 /\ reads[l][u] = 0 /\ rdrecursion[l][u] = 0
    <3>1. CASE u = t
      BY <1>2, <1>3, <2>1, <3>1
    <3>2. CASE u # t
      BY <1>1, <1>2, <1>3, <3>2
    <3> QED
      BY <3>1, <3>2
  <2> QED
    BY <2>1, <2>2
<1>6. CASE count[l] >= -1 /\ queue[l] = <<>> /\ SetCount(l, 0) /\ SetOwner(l, None)
  <2>1. /\ UNCHANGED <<waitVars, mask>>
        /\ count' \in [Mrsws \cup Semaphores -> Int] /\ count'[l] = 0
        /\ \A p \in (Mrsws \cup Semaphores) \ {l} : count'[p] = count[p]
        /\ owner' \in [Blockers -> Threads \cup {None}] /\ owner'[l] = None
        /\ \A p \in Blockers \ {l} : owner'[p] = owner[p]
    BY <1>1, <1>6 DEF LockTypes, SetCount, SetOwner
  <2>2. LockTypes'
    BY <1>1, <1>2, <2>1 DEF LockTypes
  <2>3. R' = {} /\ W' = {}
    <3>1. ASSUME NEW u \in Threads
          PROVE  u \notin R' /\ u \notin W'
      <4>1. ~Comes(u, l, "read") /\ (Comes(u, l, "write") => u = t)
        BY <1>3 DEF ReadersOf, WritersOf
      <4>2. ~Comes(t, l, "write")
        BY <1>1 DEF Comes
      <4> QED
        BY <1>2, <1>5, <1>6, <2>1, <4>1, <4>2 DEF ReadersOf, WritersOf, Comes, waitVars
    <3>2. R' \subseteq Threads /\ W' \subseteq Threads
      BY DEF ReadersOf, WritersOf
    <3> QED
      BY <3>1, <3>2
  <2>4. Cardinality(R') = 0
    BY <2>3, FS_EmptySet
  <2>5. MrswExact(l)'
    BY <1>2, <1>3, <1>5, <1>6, <2>1, <2>3, <2>4 DEF MrswExact, waitVars
  <2> QED
    BY <1>1, <1>2, <2>1, <2>2, <2>5, MrswStill
<1>7. CASE /\ count[l] >= -1 /\ queue[l] # <<>>
           /\ retval[Head(queue[l])] = 0
           /\ wakeup_thread_transfer(l)
           /\ UNCHANGED <<mask, count>>
  <2> DEFINE h == Head(queue[l])
  <2>1. /\ WaitInv'
        /\ h \in Threads /\ call[h].obj = l /\ state[h] = "blocked" /\ state'[h] = "running"
        /\ \A u \in Threads \ {h} : state'[u] = state[u] /\ retval'[u] = retval[u]
        /\ queue'[l] = Tail(queue[l]) /\ owner' = [owner EXCEPT ![l] = h]
        /\ \A p \in Objects \ {l} : queue'[p] = queue[p] /\ Bystanders(p)
    BY <1>1, <1>2, <1>7, HandOver
  <2>2. /\ owner' \in [Blockers -> Threads \cup {None}] /\ owner'[l] = h
        /\ \A p \in Blockers \ {l} : owner'[p] = owner[p]
    BY <1>1, <1>7, <2>1 DEF LockTypes
  <2>3. LockTypes'
    BY <1>1, <1>2, <1>7, <2>2 DEF LockTypes
  <2>4. \A p \in Objects \ {l} : Untouched(p)
    BY <1>1, <1>2, <1>7, <2>1, <2>2 DEF Untouched
  <2>5. call[h] = [obj |-> l, mode |-> "write"]
    <3>1. call[h] = [obj |-> l, mode |-> call[h].mode] /\ call[h].mode \in {"read", "write"}
      BY <1>1, <2>1, ModeOf
    <3>2. retval[h] = 0 /\ wqp[h] = l
      BY <1>1, <1>7, FirstWaits
    <3>3. call[h].mode # "read"
      BY <1>1, <2>1, <3>2, Apart DEF WaitInv, Linked
    <3> QED
      BY <3>1, <3>3
  <2> HIDE DEF h
  <2>6. R' = {} /\ W' = {h}
    <3>1. ASSUME NEW u \in Threads
          PROVE  u \notin R' /\ (u \in W' <=> u = h)
      <4>1. ~Comes(u, l, "read") /\ ~Comes(u, l, "write")
        <5>1. ~Comes(u, l, "read") /\ (Comes(u, l, "write") => u = t)
          BY <1>3 DEF ReadersOf, WritersOf
        <5>2. ~Comes(t, l, "write")
          BY <1>1 DEF Comes
        <5> QED
          BY <5>1, <5>2
      <4>2. ~Comes(u, l, "read")' /\ (Comes(u, l, "write")' <=> u = h)
        BY <1>2, <2>1, <2>5, <4>1 DEF Comes
      <4> QED
        BY <1>2, <1>5, <1>7, <4>2 DEF ReadersOf, WritersOf
    <3>2. R' \subseteq Threads /\ W' \subseteq Threads
      BY DEF ReadersOf, WritersOf
    <3> QED
      BY <2>1, <3>1, <3>2
  <2>7. count'[l] = -1 /\ count'[l] < 0 /\ writes'[l][h] = 0
    BY <1>5, <1>7, <2>1
  <2>8. MrswExact(l)'
    BY <1>2, <1>3, <1>5, <1>7, <2>2, <2>6, <2>7 DEF MrswExact
  <2> QED
    BY <1>1, <2>1, <2>3, <2>4, <2>8, AtObject DEF Exact
<1>8. CASE /\ count[l] >= -1 /\ queue[l] # <<>>
           /\ retval[Head(queue[l])] = 1
           /\ SetCount(l, Woken(l))
           /\ wakeup_thread_queue_multi_transfer(l)
  <2> DEFINE n == Cardinality(ReaderPlaces(l))
             ts == FirstReaders(l)
             rest == SubSeq(queue[l], n + 1, Len(queue[l]))
             h == Head(queue[l])
  <2>1. /\ n \in 1..Len(queue[l]) /\ ts = {queue[l][k] : k \in 1..n} /\ Cardinality(ts) = n
        /\ h \in ts /\ ts \subseteq ToSet(queue[l]) /\ \A u \in ts : retval[u] = 1
        /\ n < Len(queue[l]) => retval[queue[l][n + 1]] = 0
    BY <1>1, <1>8, FirstReadersExact
  <2>2. /\ Unlink(ts, l, rest) /\ mask' = [mask EXCEPT ![l] = @ \cup ts]
        /\ owner' = [owner EXCEPT ![l] = IF Cardinality(ts) > 1 THEN None ELSE h]
        /\ count' = [count EXCEPT ![l] = n]
    BY <1>8, <2>1 DEF wakeup_thread_queue_multi_transfer, SetCount, Woken
  <2>3. /\ queue[l] \in Seq(Threads) /\ NoDuplicates(queue[l]) /\ n \in 0..Len(queue[l])
        /\ Len(queue[l]) \in Nat /\ n \in Nat /\ n >= 1
    BY <1>1, <2>1 DEF WaitInv, WaitTypes, QueueExact
  <2>4. /\ rest \in Seq(Threads) /\ ToSet(rest) = ToSet(queue[l]) \ {queue[l][k] : k \in 1..n}
        /\ NoDuplicates(rest) /\ Len(rest) = Len(queue[l]) - n
        /\ \A i \in 1..Len(rest) : rest[i] = queue[l][i + n]
    BY <2>3, Shortened
  <2> HIDE DEF n, ts, rest, h
  <2>5. WaitInv'
    BY <1>1, <1>2, <2>1, <2>2, <2>4, UnlinkWait
  <2>6. \A u \in ts : u \in Threads /\ wqp[u] = l /\ call[u] = [obj |-> l, mode |-> "read"]
    <3> SUFFICES ASSUME NEW u \in ts
                 PROVE  u \in Threads /\ wqp[u] = l /\ call[u] = [obj |-> l, mode |-> "read"]
      OBVIOUS
    <3>1. u \in Threads /\ wqp[u] = l /\ retval[u] = 1
      BY <1>1, <2>1 DEF WaitInv, QueueExact
    <3>2. call[u].obj = l /\ call[u].mode = "read"
      BY <1>1, <3>1, Apart DEF WaitInv, Linked
    <3> QED
      BY <1>1, <3>1, <3>2, ModeOf
  <2>7. /\ count' \in [Mrsws \cup Semaphores -> Int] /\ count'[l] = n
        /\ \A p \in (Mrsws \cup Semaphores) \ {l} : count'[p] = count[p]
        /\ owner' \in [Blockers -> Threads \cup {None}] /\ mask' \in [Blockers -> SUBSET Threads]
        /\ owner'[l] = IF n > 1 THEN None ELSE h
        /\ mask'[l] = ts
        /\ \A p \in Blockers \ {l} : owner'[p] = owner[p] /\ mask'[p] = mask[p]
    BY <1>1, <1>3, <2>1, <2>2, <2>3, <2>6 DEF LockTypes
  <2>8. LockTypes'
    BY <1>1, <1>2, <2>7 DEF LockTypes
  <2>9. \A p \in Objects \ {l} : Untouched(p)
    <3>1. \A p \in Objects \ {l} : queue'[p] = queue[p] /\ Bystanders(p)
      BY <1>1, <1>2, <2>1, <2>2, UnlinkElsewhere
    <3> QED
      BY <1>1, <1>2, <2>7, <3>1 DEF Untouched
  <2>10. /\ queue'[l] = rest
         /\ \A u \in Threads : state'[u] = IF u \in ts THEN "running" ELSE state[u]
         /\ \A u \in Threads : retval'[u] = IF u \in ts THEN 0 ELSE retval[u]
    BY <1>1, <2>2 DEF Unlink, WaitInv, WaitTypes
  <2>11. R' = ts /\ W' = {}
    <3>1. ASSUME NEW u \in Threads
          PROVE  (u \in R' <=> u \in ts) /\ u \notin W'
      <4>1. ~Comes(u, l, "read") /\ ~Comes(u, l, "write")
        <5>1. ~Comes(u, l, "read") /\ (Comes(u, l, "write") => u = t)
          BY <1>3 DEF ReadersOf, WritersOf
        <5>2. ~Comes(t, l, "write")
          BY <1>1 DEF Comes
        <5> QED
          BY <5>1, <5>2
      <4>2. (Comes(u, l, "read")' <=> u \in ts) /\ ~Comes(u, l, "write")'
        BY <1>2, <2>6, <2>10, <4>1 DEF Comes
      <4> QED
        BY <1>2, <1>5, <1>8, <4>2 DEF ReadersOf, WritersOf
    <3>2. R' \subseteq Threads /\ W' \subseteq Threads /\ ts \subseteq Threads
      BY <2>6 DEF ReadersOf, WritersOf
    <3> QED
      BY <3>1, <3>2
  <2>12. n = 1 => R' = {h} /\ owner'[l] = h
    <3> SUFFICES ASSUME n = 1
                 PROVE  R' = {h} /\ owner'[l] = h
      OBVIOUS
    <3>1. 1..n = {1} /\ Head(queue[l]) = queue[l][1]
      BY <2>3
    <3> QED
      BY <2>1, <2>7, <2>11, <3>1 DEF h
  <2>13. queue'[l] # <<>> => retval'[Head(queue'[l])] = 0
    <3> SUFFICES ASSUME rest # <<>>
                 PROVE  retval'[Head(rest)] = 0
      BY <2>10
    <3>1. Head(rest) = rest[1] /\ 1 \in 1..Len(rest) /\ rest[1] \in Threads
      BY <2>4
    <3>2. rest[1] = queue[l][1 + n] /\ n < Len(queue[l]) /\ 1 + n = n + 1
      BY <2>3, <2>4, <3>1
    <3> QED
      BY <2>1, <2>10, <3>1, <3>2
  <2>14. /\ count'[l] = Cardinality(R') /\ ~(count'[l] < 0) /\ count'[l] # 0
         /\ (count'[l] # 1 => owner'[l] = None) /\ mask'[l] = R'
    BY <2>1, <2>3, <2>7, <2>11
  <2>15. \A u \in Threads : reads'[l][u] = 0 /\ writes'[l][u] = 0 /\ rdrecursion'[l][u] = 0
    BY <1>2, <1>5, <1>8
  <2>16. MrswExact(l)'
    BY <2>7, <2>11, <2>12, <2>13, <2>14, <2>15 DEF MrswExact
  <2> QED
    BY <1>1, <2>5, <2>8, <2>9, <2>16, AtObject DEF Exact
<1> QED
  BY <1>4, <1>6, <1>7, <1>8 DEF mrsw_write_release

-----------------------------------------------------------------------------
(* Queues and semaphores.                                                  *)

LEMMA QueueSend ==
    ASSUME ObjectsInv, NEW t \in Threads, NEW q \in Queues, queue_send(t, q)
    PROVE  ObjectsInv' /\ \A p \in Objects \ {q} : Untouched(p)
<1>1. q \in Blockers /\ q \notin Mutexes /\ q \notin Mrsws /\ q \notin Locks /\ q \in Waited("send")
  BY Apart, WaitedTypes
<1>2. CanCall(t) /\ Blocks(t, q, "send") /\ UNCHANGED retval
  BY DEF queue_send
<1>3. retval' = [retval EXCEPT ![t] = IF "send" = "read" THEN 1 ELSE 0]
  BY <1>2, InvParts, Idle DEF CanCall, Runs, WaitInv, WaitTypes
<1> QED
  BY <1>1, <1>2, <1>3, BlocksExact

LEMMA QueueReleaseSender ==
    ASSUME ObjectsInv, NEW t \in Threads, NEW q \in Queues, queue_release_sender(t, q)
    PROVE  ObjectsInv' /\ \A p \in Objects \ {q} : Untouched(p)
<1>1. /\ WaitInv /\ LockTypes /\ Exact(q) /\ q \in Objects
      /\ q \notin Mutexes \cup Mrsws \cup Semaphores
  BY InvParts, Apart
<1>2. /\ t \in ToSet(queue[q]) /\ Unlink({t}, q, Without(queue[q], t))
      /\ UNCHANGED <<ownVars, fieldVars, call, reads, writes>>
  BY DEF queue_release_sender, wakeup_thread_release
<1>3. queue[q] \in Seq(Threads) /\ NoDuplicates(queue[q])
  BY <1>1 DEF WaitInv, WaitTypes, QueueExact
<1>4. /\ Without(queue[q], t) \in Seq(Threads) /\ NoDuplicates(Without(queue[q], t))
      /\ ToSet(Without(queue[q], t)) = ToSet(queue[q]) \ {t}
  BY <1>2, <1>3, WithoutExact
<1>5. WaitInv' /\ \A p \in Objects \ {q} : queue'[p] = queue[p] /\ Bystanders(p)
  BY <1>1, <1>2, <1>4, UnlinkWait, UnlinkElsewhere
<1>6. LockTypes' /\ \A p \in Objects \ {q} : Untouched(p)
  BY <1>1, <1>2, <1>5 DEF LockTypes, Untouched, ownVars, fieldVars
<1>7. Exact(q)'
  BY <1>1, <1>2 DEF Exact, ServedExact, ownVars
<1> QED
  BY <1>1, <1>5, <1>6, <1>7, AtObject

LEMMA SemaphoreParts ==
    ASSUME ObjectsInv, NEW s \in Semaphores
    PROVE  /\ WaitInv /\ LockTypes /\ Exact(s) /\ s \in Objects
           /\ s \notin Mutexes \cup Mrsws \cup Queues \cup Blockers
           /\ count[s] \in Nat /\ count[s] <= MaxCount[s] /\ MaxCount[s] \in Nat
           /\ count[s] > 0 => queue[s] = <<>>
           /\ queue[s] \in Seq(Threads) /\ NoDuplicates(queue[s])
<1>1. /\ WaitInv /\ LockTypes /\ Exact(s) /\ s \in Objects
      /\ s \notin Mutexes \cup Mrsws \cup Queues \cup Blockers
      /\ SemaphoreExact(s) /\ MaxCount[s] \in Nat
  BY InvParts, Apart, KernelAssumption DEF Exact
<1>2. queue[s] \in Seq(Threads) /\ NoDuplicates(queue[s])
  BY <1>1 DEF WaitInv, WaitTypes, QueueExact
<1> QED
  BY <1>1, <1>2 DEF SemaphoreExact

(* Steps that change nothing but the count of a semaphore. *)
LEMMA CountChanged ==
    ASSUME ObjectsInv, NEW s \in Semaphores, WaitInv',
           UNCHANGED <<ownVars, recursion, rdrecursion, reads, writes>>,
           NEW n \in 0..MaxCount[s], count' = [count EXCEPT ![s] = n],
           n > 0 => queue'[s] = <<>>,
           \A p \in Objects \ {s} : queue'[p] = queue[p] /\ Bystanders(p)
    PROVE  ObjectsInv' /\ \A p \in Objects \ {s} : Untouched(p)
<1>1. /\ WaitInv /\ LockTypes /\ s \in Objects /\ MaxCount[s] \in Nat
      /\ s \notin Mutexes \cup Mrsws \cup Queues
  BY SemaphoreParts
<1>2. LockTypes' /\ count'[s] = n /\ \A p \in (Mrsws \cup Semaphores) \ {s} : count'[p] = count[p]
  BY <1>1 DEF LockTypes, ownVars
<1>3. \A p \in Objects \ {s} : Untouched(p)
  BY <1>2 DEF Untouched, ownVars
<1>4. Exact(s)'
  BY <1>1, <1>2 DEF Exact, SemaphoreExact
<1> QED
  BY <1>1, <1>2, <1>3, <1>4, AtObject

LEMMA SemaphoreWait ==
    ASSUME ObjectsInv, NEW t \in Threads, NEW s \in Semaphores, NEW timeout,
           semaphore_wait(t, s, timeout)
    PROVE  ObjectsInv' /\ \A p \in Objects \ {s} : Untouched(p)
<1>1. /\ WaitInv /\ LockTypes /\ Exact(s) /\ s \in Objects
      /\ s \notin Mutexes \cup Mrsws \cup Queues \cup Blockers
      /\ count[s] \in Nat /\ count[s] <= MaxCount[s] /\ MaxCount[s] \in Nat
      /\ count[s] > 0 => queue[s] = <<>>
  BY SemaphoreParts
<1>2. CanCall(t) /\ UNCHANGED <<recursion, rdrecursion, reads, writes>>
  BY DEF semaphore_wait
<1>3. CASE count[s] > 0 /\ SetCount(s, count[s] - 1) /\ UNCHANGED <<threadVars, call>>
  <2>1. count[s] - 1 \in 0..MaxCount[s] /\ UNCHANGED <<waitVars, ownVars, queue, state, retval, call>>
    BY <1>1, <1>3 DEF threadVars, waitVars
  <2>2. WaitInv' /\ \A p \in Objects \ {s} : queue'[p] = queue[p] /\ Bystanders(p)
    BY <1>1, <2>1, WaitSame DEF Bystanders
  <2> QED
    BY <1>1, <1>2, <1>3, <2>1, <2>2, CountChanged DEF SetCount
<1>4. CASE UNCHANGED <<threadVars, count, call>>
  <2>1. /\ UNCHANGED <<waitVars, ownVars, queue, state, retval, call, fieldVars, reads, writes>>
    BY <1>2, <1>4 DEF threadVars, waitVars, fieldVars
  <2>2. WaitInv'
    BY <1>1, <2>1, WaitSame
  <2> QED
    BY <2>1, <2>2, Elsewhere
<1>5. CASE /\ count[s] <= 0 /\ timeout # "none"
           /\ block_thread(t, s, IF timeout = "some" THEN "blocked_w_tmo" ELSE "blocked")
           /\ call' = [call EXCEPT ![t] = [obj |-> s, mode |-> "wait"]]
           /\ UNCHANGED <<count, retval>>
  <2> DEFINE st == IF timeout = "some" THEN "blocked_w_tmo" ELSE "blocked"
  <2>1. st = "blocked" \/ (st = "blocked_w_tmo" /\ s \in Semaphores)
    OBVIOUS
  <2>2. block_thread(t, s, st) /\ UNCHANGED ownVars
    BY <1>5 DEF block_thread
  <2> HIDE DEF st
  <2>3. retval' = [retval EXCEPT ![t] = IF "wait" = "read" THEN 1 ELSE 0]
    BY <1>1, <1>2, <1>5, Idle DEF CanCall, Runs, WaitInv, WaitTypes
  <2>4. WaitInv'
    BY <1>1, <1>2, <1>5, <2>1, <2>2, <2>3, BlocksWait, WaitedTypes
  <2>5. \A p \in Objects \ {s} : Untouched(p)
    BY <1>1, <1>2, <1>5, <2>2, <2>3, BlocksElsewhere
  <2>6. LockTypes'
    BY <1>1, <1>2, <1>5, <2>2 DEF LockTypes, ownVars
  <2>7. Exact(s)'
    BY <1>1, <1>5 DEF Exact, SemaphoreExact
  <2> QED
    BY <1>1, <2>4, <2>5, <2>6, <2>7, AtObject
<1> QED
  BY <1>3, <1>4, <1>5 DEF semaphore_wait

(* One that takes part in a semaphore's wait. *)
LEMMA WaiterParts ==
    ASSUME ObjectsInv, NEW t \in Threads, call[t].mode \in {"wait", "late"}
    PROVE  /\ call[t].obj \in Semaphores /\ wqp[t] \in {None, call[t].obj}
           /\ call[t] = [obj |-> call[t].obj, mode |-> call[t].mode]
           /\ wqp[t] # None => count[call[t].obj] = 0
<1> DEFINE s == call[t].obj
<1>1. WaitInv
  BY InvParts
<1>2. s \in Semaphores /\ wqp[t] \in {None, s}
  BY <1>1, WaitedTypes DEF WaitInv, Linked
<1>3. /\ Exact(s) /\ s \in Objects
      /\ count[s] \in Nat /\ count[s] <= MaxCount[s] /\ MaxCount[s] \in Nat
      /\ count[s] > 0 => queue[s] = <<>>
  BY <1>2, SemaphoreParts
<1>4. call[t] = [obj |-> s, mode |-> call[t].mode]
  BY <1>1, <1>3, ModeOf
<1> HIDE DEF s
<1>5. wqp[t] # None => count[s] = 0
  <2> SUFFICES ASSUME wqp[t] # None, count[s] # 0
               PROVE  FALSE
    OBVIOUS
  <2>1. t \in ToSet(queue[s])
    BY <1>1, <1>2, <1>3 DEF WaitInv, QueueExact
  <2>2. queue[s] = <<>>
    BY <1>3
  <2> QED
    BY <2>1, <2>2 DEF ToSet
<1> QED
  BY <1>2, <1>4, <1>5 DEF s

(* The first step of the end of a wait, which touches no field. *)
LEMMA SemaphoreWaitReturn ==
    ASSUME ObjectsInv, NEW t \in Threads, WaitReturn(t)
    PROVE  /\ ObjectsInv' /\ call[t].obj \in Semaphores
           /\ \A p \in Objects \ {call[t].obj} : Untouched(p)
<1>1. PICK s : s = call[t].obj
  OBVIOUS
<1>2. call[t].mode = "wait" /\ UNCHANGED <<threadVars, fieldVars, reads, writes>>
  BY DEF WaitReturn
<1>3. s \in Semaphores /\ call[t] = [obj |-> s, mode |-> "wait"]
  BY <1>1, <1>2, WaiterParts
<1>4. /\ WaitInv /\ LockTypes /\ Exact(s) /\ s \in Objects
      /\ s \notin Mutexes \cup Mrsws \cup Queues \cup Blockers
      /\ count[s] \in Nat /\ count[s] <= MaxCount[s] /\ MaxCount[s] \in Nat
      /\ count[s] > 0 => queue[s] = <<>>
  BY <1>3, SemaphoreParts
<1>5. \/ wqp[t] = None /\ call' = [call EXCEPT ![t] = NoCall]
      \/ call' = [call EXCEPT ![t] = [obj |-> s, mode |-> "late"]]
  BY <1>1 DEF WaitReturn
<1>6. UNCHANGED <<waitVars, ownVars, queue, state, retval, count, recursion, rdrecursion, reads, writes>>
  BY <1>2 DEF threadVars, waitVars, fieldVars
<1>7. WaitInv'
  BY <1>3, <1>4, <1>5, <1>6, ReturnWait, LookWait
<1>8. \A p \in Objects \ {s} : queue'[p] = queue[p] /\ Bystanders(p)
  BY <1>3, <1>4, <1>5, <1>6, Apart DEF Bystanders, WaitInv, WaitTypes, NoCall
<1>9. count[s] \in 0..MaxCount[s] /\ count' = [count EXCEPT ![s] = count[s]]
  BY <1>3, <1>4, <1>6 DEF LockTypes
<1>10. count[s] > 0 => queue'[s] = <<>>
  BY <1>4, <1>6
<1> QED
  BY <1>1, <1>3, <1>6, <1>7, <1>8, <1>9, <1>10, CountChanged

(* The second, with interrupts disabled. *)
LEMMA SemaphoreWaitExpired ==
    ASSUME ObjectsInv, NEW t \in Threads, WaitExpired(t)
    PROVE  /\ ObjectsInv' /\ call[t].obj \in Semaphores /\ UNCHANGED count
           /\ \A p \in Objects \ {call[t].obj} : Untouched(p)
<1>1. PICK s : s = call[t].obj
  OBVIOUS
<1>2. /\ call[t].mode = "late" /\ state[t] = "running" /\ call' = [call EXCEPT ![t] = NoCall]
      /\ UNCHANGED <<state, blocker, retval, ownVars, recursion, rdrecursion, reads, writes>>
      /\ wqp' = [wqp EXCEPT ![t] = None]
      /\ queue' = [queue EXCEPT ![s] = IF wqp[t] # None THEN Without(@, t) ELSE @]
      /\ SetCount(s, IF wqp[t] # None /\ count[s] > 0 THEN count[s] - 1 ELSE count[s])
  BY <1>1 DEF WaitExpired
<1>3. /\ s \in Semaphores /\ wqp[t] \in {None, s} /\ (wqp[t] # None => count[s] = 0)
      /\ call[t] = [obj |-> s, mode |-> "late"]
  BY <1>1, <1>2, WaiterParts
<1>4. /\ WaitInv /\ LockTypes /\ Exact(s) /\ s \in Objects
      /\ s \notin Mutexes \cup Mrsws \cup Queues \cup Blockers
      /\ count[s] \in Nat /\ count[s] <= MaxCount[s] /\ MaxCount[s] \in Nat
      /\ count[s] > 0 => queue[s] = <<>>
  BY <1>3, SemaphoreParts
<1>5. WaitInv'
  <2>1. CASE wqp[t] = None
    <3>1. wqp' = wqp /\ queue' = queue
      BY <1>2, <1>4, <2>1 DEF WaitInv, WaitTypes
    <3> QED
      BY <1>2, <1>4, <2>1, <3>1, ReturnWait DEF waitVars
  <2>2. CASE wqp[t] # None
    <3>1. wqp[t] = s /\ queue' = [queue EXCEPT ![s] = Without(@, t)]
      BY <1>2, <1>3, <2>2
    <3> QED
      BY <1>2, <1>3, <1>4, <3>1, LeaveWait
  <2> QED
    BY <2>1, <2>2
<1>6. \A p \in Objects \ {s} : queue'[p] = queue[p] /\ Bystanders(p)
  BY <1>2, <1>3, <1>4, Apart DEF Bystanders, WaitInv, WaitTypes, NoCall
<1>7. count' = [count EXCEPT ![s] = count[s]] /\ count' = count
  <2>1. (IF wqp[t] # None /\ count[s] > 0 THEN count[s] - 1 ELSE count[s]) = count[s]
    BY <1>3, <1>4
  <2> QED
    BY <1>2, <1>3, <1>4, <2>1 DEF SetCount, LockTypes
<1>8. count[s] \in 0..MaxCount[s] /\ (count[s] > 0 => queue'[s] = <<>>)
  <2>1. count[s] > 0 => wqp[t] = None
    BY <1>3
  <2> QED
    BY <1>2, <1>4, <2>1 DEF WaitInv, WaitTypes
<1> QED
  BY <1>1, <1>2, <1>3, <1>5, <1>6, <1>7, <1>8, CountChanged

LEMMA SemaphoreRelease ==
    ASSUME ObjectsInv, NEW s \in Semaphores, semaphore_release(s)
    PROVE  ObjectsInv' /\ \A p \in Objects \ {s} : Untouched(p)
<1>1. /\ WaitInv /\ LockTypes /\ Exact(s) /\ s \in Objects
      /\ s \notin Mutexes \cup Mrsws \cup Queues \cup Blockers
      /\ count[s] \in Nat /\ count[s] <= MaxCount[s] /\ MaxCount[s] \in Nat
      /\ count[s] > 0 => queue[s] = <<>>
      /\ queue[s] \in Seq(Threads) /\ NoDuplicates(queue[s])
  BY SemaphoreParts
<1>2. UNCHANGED <<recursion, rdrecursion, call, reads, writes>>
  BY DEF semaphore_release
<1>3. CASE /\ queue[s] # <<>>
           /\ wakeup_thread_default(Head(queue[s]), s)
           /\ UNCHANGED count
  <2> DEFINE h == Head(queue[s])
  <2>1. h \in ToSet(queue[s]) /\ Unlink({h}, s, Without(queue[s], h)) /\ UNCHANGED ownVars
    BY <1>1, <1>3, FirstWaits DEF wakeup_thread_default
  <2> HIDE DEF h
  <2>2. /\ Without(queue[s], h) \in Seq(Threads) /\ NoDuplicates(Without(queue[s], h))
        /\ ToSet(Without(queue[s], h)) = ToSet(queue[s]) \ {h}
    BY <1>1, <2>1, WithoutExact
  <2>3. WaitInv' /\ \A p \in Objects \ {s} : queue'[p] = queue[p] /\ Bystanders(p)
    BY <1>1, <1>2, <2>1, <2>2, UnlinkWait, UnlinkElsewhere
  <2>4. count[s] = 0 /\ count' = [count EXCEPT ![s] = 0] /\ 0 \in 0..MaxCount[s] /\ ~(0 > 0)
    <3>1. count[s] = 0
      BY <1>1, <1>3
    <3> QED
      BY <1>1, <1>3, <3>1 DEF LockTypes
  <2> QED
    BY <1>2, <2>1, <2>3, <2>4, CountChanged
<1>4. CASE /\ queue[s] = <<>>
           /\ SetCount(s, IF count[s] < MaxCount[s] THEN count[s] + 1 ELSE count[s])
           /\ UNCHANGED threadVars
  <2> DEFINE n == IF count[s] < MaxCount[s] THEN count[s] + 1 ELSE count[s]
  <2>1. n \in 0..MaxCount[s] /\ count' = [count EXCEPT ![s] = n]
    BY <1>1, <1>4 DEF SetCount
  <2>2. UNCHANGED <<waitVars, ownVars, queue, state, retval, call>>
    BY <1>2, <1>4 DEF threadVars, waitVars
  <2>3. WaitInv' /\ \A p \in Objects \ {s} : queue'[p] = queue[p] /\ Bystanders(p)
    BY <1>1, <2>2, WaitSame DEF Bystanders
  <2> HIDE DEF n
  <2> QED
    BY <1>2, <1>4, <2>1, <2>2, <2>3, CountChanged
<1> QED
  BY <1>3, <1>4 DEF semaphore_release

-----------------------------------------------------------------------------
(* Coming back, and the steps that touch no object.                        *)

(* A thread comes back from a call that is no timed wait only once it has  *)
(* been woken.                                                             *)
LEMMA Woke ==
    ASSUME WaitInv, NEW t \in Threads, state[t] = "running",
           call[t].mode \in {"read", "write", "send"}
    PROVE  /\ wqp[t] = None /\ call[t].obj \in Blockers
           /\ call[t] = [obj |-> call[t].obj, mode |-> call[t].mode]
           /\ call[t].mode = "read" => call[t].obj \in Mrsws
           /\ call[t].mode = "write" => call[t].obj \in Locks
           /\ call[t].mode = "send" => call[t].obj \in Queues
           /\ Comes(t, call[t].obj, call[t].mode)
<1>1. call[t].obj \in Waited(call[t].mode) /\ wqp[t] \in {None, call[t].obj}
  BY DEF WaitInv, Linked
<1>2. /\ call[t].mode = "read" => call[t].obj \in Mrsws
      /\ call[t].mode = "write" => call[t].obj \in Locks
      /\ call[t].mode = "send" => call[t].obj \in Queues
  BY <1>1, WaitedTypes
<1>3. call[t].obj \in Blockers /\ call[t].obj \in Objects
  BY <1>2, Apart
<1>4. wqp[t] = None
  BY <1>1, <1>3 DEF WaitInv, Linked
<1> QED
  BY <1>2, <1>3, <1>4, ModeOf DEF Comes

LEMMA Returns ==
    ASSUME ObjectsInv, NEW t \in Threads, Return(t),
           NEW o, o = call[t].obj, NEW m, m = call[t].mode
    PROVE  /\ ObjectsInv' /\ o \in Blockers
           /\ \A p \in Objects \ {o} : Untouched(p)
           /\ o \in Locks => ReadersOf(o)' = ReadersOf(o) /\ WritersOf(o)' = WritersOf(o)
           /\ UNCHANGED <<queue, count, wqp, retval>>
           /\ \A u \in Threads \ {t} : call'[u] = call[u]
           /\ call'[t] = NoCall
<1>1. /\ state[t] = "running" /\ m \in {"read", "write", "send"}
      /\ call' = [call EXCEPT ![t] = NoCall]
      /\ reads' = IF m = "read" THEN [reads EXCEPT ![o][t] = @ + 1] ELSE reads
      /\ writes' = IF m = "write" THEN [writes EXCEPT ![o][t] = @ + 1] ELSE writes
      /\ UNCHANGED <<threadVars, fieldVars>>
  BY DEF Return, Runs
<1>2. WaitInv /\ LockTypes
  BY InvParts
<1>3. /\ wqp[t] = None /\ o \in Blockers /\ call[t] = [obj |-> o, mode |-> m]
      /\ m = "read" => o \in Mrsws
      /\ m = "write" => o \in Locks
      /\ m = "send" => o \in Queues
      /\ Comes(t, o, m)
  BY <1>1, <1>2, Woke
<1>4. /\ o \in Objects /\ o \notin Semaphores /\ (o \in Queues => o \notin Mutexes \cup Mrsws)
      /\ (o \in Mrsws => o \in Locks /\ o \notin Mutexes \cup Queues)
      /\ (o \in Mutexes => o \in Locks /\ o \notin Mrsws \cup Queues)
      /\ (o \in Locks => o \in Mutexes \/ o \in Mrsws)
      /\ (o \in Mutexes \/ o \in Mrsws \/ o \in Queues) /\ Exact(o)
  BY <1>3, InvParts, Apart
<1>5. UNCHANGED <<waitVars, owner, mask, recursion, count, rdrecursion, state, retval, queue, wqp>>
  BY <1>1 DEF threadVars, waitVars, ownVars, fieldVars
<1>6. WaitInv'
  BY <1>1, <1>2, <1>3, <1>5, ReturnWait
<1>7. /\ reads' \in [Locks -> [Threads -> Nat]] /\ writes' \in [Locks -> [Threads -> Nat]]
      /\ \A p \in Locks \ {o} : reads'[p] = reads[p] /\ writes'[p] = writes[p]
      /\ o \in Locks => \A u \in Threads :
            /\ reads'[o][u] = IF m = "read" /\ u = t THEN reads[o][u] + 1 ELSE reads[o][u]
            /\ writes'[o][u] = IF m = "write" /\ u = t THEN writes[o][u] + 1 ELSE writes[o][u]
  <2>1. m = "read" => o \in Locks
    BY <1>3, <1>4
  <2> QED
    BY <1>1, <1>2, <1>3, <2>1 DEF LockTypes
<1>8. LockTypes'
  BY <1>2, <1>5, <1>7 DEF LockTypes
<1>9. \A u \in Threads \ {t} : call'[u] = call[u]
  BY <1>1
<1>10. \A p \in Objects \ {o} : Untouched(p)
  <2>1. call'[t] = NoCall
    BY <1>1, <1>2 DEF WaitInv, WaitTypes
  <2>2. \A p \in Objects \ {o} : Bystanders(p)
    BY <1>3, <1>5, <1>9, <2>1, Apart DEF Bystanders, NoCall
  <2> QED
    BY <1>5, <1>7, <2>2 DEF Untouched
<1>11. ASSUME o \in Locks
       PROVE  /\ reads[o][t] = 0 /\ writes[o][t] = 0 /\ call'[t].obj # o
              /\ ReadersOf(o)' = ReadersOf(o) /\ WritersOf(o)' = WritersOf(o)
  <2>1. reads[o][t] = 0 /\ writes[o][t] = 0
    BY <1>3, <1>4, <1>11 DEF Exact, MutexExact, MrswExact
  <2>2. call'[t] = NoCall /\ o # None
    BY <1>1, <1>2, <1>4, Apart DEF WaitInv, WaitTypes
  <2>3. ASSUME NEW u \in Threads
        PROVE  /\ u \in ReadersOf(o)' <=> u \in ReadersOf(o)
               /\ u \in WritersOf(o)' <=> u \in WritersOf(o)
    <3>1. CASE u = t
      <4>1. ~Comes(t, o, "read")' /\ ~Comes(t, o, "write")'
        BY <2>2 DEF Comes, NoCall
      <4>2. Comes(t, o, "read") <=> m = "read"
        BY <1>3 DEF Comes
      <4>3. Comes(t, o, "write") <=> m = "write"
        BY <1>3 DEF Comes
      <4> QED
        BY <1>7, <1>11, <2>1, <3>1, <4>1, <4>2, <4>3 DEF ReadersOf, WritersOf
    <3>2. CASE u # t
      BY <1>5, <1>7, <1>9, <1>11, <3>2 DEF ReadersOf, WritersOf, Comes
    <3> QED
      BY <3>1, <3>2
  <2>4. /\ ReadersOf(o) \subseteq Threads /\ ReadersOf(o)' \subseteq Threads
        /\ WritersOf(o) \subseteq Threads /\ WritersOf(o)' \subseteq Threads
    BY DEF ReadersOf, WritersOf
  <2> QED
    BY <2>1, <2>2, <2>3, <2>4 DEF NoCall
<1>12. ASSUME o \in Mutexes
       PROVE  MutexExact(o)'
  <2>1. /\ MutexExact(o) /\ m = "write"
        /\ reads[o][t] = 0 /\ writes[o][t] = 0 /\ call'[t].obj # o
        /\ WritersOf(o)' = WritersOf(o)
    <3>1. m = "write"
      BY <1>1, <1>3, <1>4, <1>12
    <3> QED
      BY <1>4, <1>11, <1>12, <3>1 DEF Exact
  <2>2. owner[o] = t /\ \A u \in Threads \ {t} : ~(writes[o][u] > 0)
    BY <1>3, <2>1 DEF MutexExact, WritersOf
  <2>3. \A u \in Threads : writes[o][u] = 0
    <3> SUFFICES ASSUME NEW u \in Threads
                 PROVE  writes[o][u] = 0
      OBVIOUS
    <3>1. writes[o][u] \in Nat /\ (u # t => ~(writes[o][u] > 0))
      BY <1>2, <1>4, <1>12, <2>2 DEF LockTypes
    <3> QED
      BY <2>1, <3>1
  <2>4. recursion[o] = 0
    BY <2>1, <2>3 DEF MutexExact
  <2>5. writes'[o][t] = 1 /\ \A u \in Threads \ {t} : writes'[o][u] = 0
    BY <1>4, <1>7, <1>12, <2>1, <2>3
  <2>6. \A u \in Threads : reads'[o][u] = 0 /\ (call'[u].obj = o => u # t)
    BY <1>4, <1>7, <1>12, <2>1 DEF MutexExact
  <2> QED
    BY <1>5, <2>1, <2>2, <2>4, <2>5, <2>6, Apart DEF MutexExact
<1>13. ASSUME o \in Mrsws
       PROVE  MrswExact(o)'
  <2>1. /\ MrswExact(o) /\ m \in {"read", "write"}
        /\ reads[o][t] = 0 /\ writes[o][t] = 0 /\ call'[t].obj # o
        /\ ReadersOf(o)' = ReadersOf(o) /\ WritersOf(o)' = WritersOf(o)
    BY <1>1, <1>3, <1>4, <1>11, <1>13 DEF Exact
  <2>2. ASSUME NEW u \in Threads
        PROVE  /\ call'[u].obj = o => reads'[o][u] = 0 /\ writes'[o][u] = 0
               /\ rdrecursion'[o][u] = IF reads'[o][u] > 0 /\ writes'[o][u] = 0
                                       THEN reads'[o][u] - 1 ELSE 0
    <3>1. CASE u = t
      <4>1. rdrecursion[o][t] = 0
        BY <2>1 DEF MrswExact
      <4>2. /\ m = "read" => reads'[o][t] = 1 /\ writes'[o][t] = 0
            /\ m = "write" => reads'[o][t] = 0 /\ writes'[o][t] = 1
        BY <1>4, <1>7, <1>13, <2>1
      <4> QED
        BY <1>5, <2>1, <3>1, <4>1, <4>2
    <3>2. CASE u # t
      <4>1. reads'[o][u] = reads[o][u] /\ writes'[o][u] = writes[o][u] /\ call'[u] = call[u]
        BY <1>4, <1>7, <1>9, <1>13, <3>2
      <4>2. /\ call[u].obj = o => reads[o][u] = 0 /\ writes[o][u] = 0
            /\ rdrecursion[o][u] = IF reads[o][u] > 0 /\ writes[o][u] = 0
                                   THEN reads[o][u] - 1 ELSE 0
        BY <2>1 DEF MrswExact
      <4> QED
        BY <1>5, <4>1, <4>2
    <3> QED
      BY <3>1, <3>2
  <2>3. count[o] < 0 => count[o] = IF writes'[o][owner[o]] > 0
                                   THEN -writes'[o][owner[o]] ELSE -1
    <3> SUFFICES ASSUME count[o] < 0
                 PROVE  count[o] = IF writes'[o][owner[o]] > 0
                                   THEN -writes'[o][owner[o]] ELSE -1
      OBVIOUS
    <3>1. /\ ReadersOf(o) = {} /\ WritersOf(o) = {owner[o]}
          /\ count[o] = IF writes[o][owner[o]] > 0 THEN -writes[o][owner[o]] ELSE -1
      BY <2>1 DEF MrswExact
    <3>2. m = "write" /\ owner[o] = t
      BY <1>3, <2>1, <3>1 DEF ReadersOf, WritersOf
    <3>3. count[o] = -1
      BY <2>1, <3>1, <3>2
    <3>4. writes'[o][t] = 1
      BY <1>4, <1>7, <1>13, <2>1, <3>2
    <3> QED
      BY <3>2, <3>3, <3>4
  <2> QED
    BY <1>5, <2>1, <2>2, <2>3 DEF MrswExact
<1>14. o \in Queues => ServedExact(o)'
  BY <1>4, <1>5 DEF Exact, ServedExact
<1>15. Exact(o)'
  BY <1>4, <1>12, <1>13, <1>14 DEF Exact
<1>16. ObjectsInv'
  BY <1>4, <1>6, <1>8, <1>10, <1>15, AtObject
<1> QED
  <2>1. call'[t] = NoCall
    BY <1>1, <1>2 DEF WaitInv, WaitTypes
  <2> QED
    BY <1>3, <1>5, <1>9, <1>10, <1>11, <1>16, <2>1

LEMMA PriorityStep ==
    ASSUME ObjectsInv, UNCHANGED <<waitVars, ownVars, fieldVars, call, reads, writes>>
    PROVE  ObjectsInv' /\ \A o \in Objects : Untouched(o)
<1>1. WaitInv'
  BY InvParts, WaitSame
<1>2. UNCHANGED <<queue, state, retval>>
  BY DEF waitVars
<1> QED
  BY <1>1, <1>2, Elsewhere

LEMMA Expires ==
    ASSUME ObjectsInv, NEW t \in Threads, Expire(t)
    PROVE  ObjectsInv' /\ \A o \in Objects : Untouched(o)
<1>1. /\ state[t] = "blocked_w_tmo" /\ state' = [state EXCEPT ![t] = "running"]
      /\ UNCHANGED <<wqp, blocker, retval, queue, ownVars, fieldVars, call, reads, writes>>
  BY DEF Expire, check_tmo_expired
<1>2. WaitInv /\ WaitInv'
  BY <1>1, InvParts, ExpireWait
<1>3. call[t].obj \notin Locks
  <2>1. wqp[t] # None /\ wqp[t] = call[t].obj /\ wqp[t] \notin Blockers
    BY <1>1, <1>2 DEF WaitInv, Linked
  <2> QED
    BY <2>1, Apart
<1>4. \A u \in Threads : call[u].obj \in Locks => state'[u] = state[u] /\ retval'[u] = retval[u]
  BY <1>1, <1>3
<1> QED
  BY <1>1, <1>2, <1>4, Elsewhere

-----------------------------------------------------------------------------
(* The invariant.                                                          *)

LEMMA Began == Init => ObjectsInv
<1> SUFFICES ASSUME Init
             PROVE  ObjectsInv
  OBVIOUS
<1>1. /\ state = [t \in Threads |-> "running"]
      /\ wqp = [t \in Threads |-> None] /\ blocker = [t \in Threads |-> None]
      /\ retval = [t \in Threads |-> 0] /\ queue = [o \in Objects |-> <<>>]
      /\ owner = [o \in Blockers |-> IF o \in Queues THEN QueueOwner[o] ELSE None]
      /\ mask = [o \in Blockers |-> {}]
      /\ recursion = [m \in Mutexes |-> 0]
      /\ count = [o \in Mrsws \cup Semaphores |-> 0]
      /\ rdrecursion = [l \in Mrsws |-> [t \in Threads |-> 0]]
      /\ call = [t \in Threads |-> NoCall]
      /\ reads = [o \in Locks |-> [t \in Threads |-> 0]]
      /\ writes = [o \in Locks |-> [t \in Threads |-> 0]]
  BY DEF Init, ThreadsInit
<1>2. WaitTypes
  BY <1>1 DEF WaitTypes, NoCall
<1>3. LockTypes
  <2>1. owner \in [Blockers -> Threads \cup {None}]
    BY <1>1, KernelAssumption, Apart
  <2> QED
    BY <1>1, <2>1, Apart DEF LockTypes
<1>4. Linked
  BY <1>1, WaitedTypes, Apart DEF Linked, NoCall
<1>5. ASSUME NEW o \in Objects
      PROVE  QueueExact(o)
  <2>1. queue[o] = <<>> /\ DOMAIN <<>> = {}
    BY <1>1
  <2>2. {t \in Threads : wqp[t] = o} = {}
    BY <1>1, Apart
  <2> QED
    BY <2>1, <2>2 DEF QueueExact, NoDuplicates, ToSet
<1>6. ASSUME NEW o \in Locks
      PROVE  ReadersOf(o) = {} /\ WritersOf(o) = {} /\ o \in Objects /\ o \in Blockers /\ o \notin Queues
  BY <1>1, Apart DEF ReadersOf, WritersOf, Comes, NoCall
<1>7. ASSUME NEW m \in Mutexes
      PROVE  MutexExact(m)
  BY <1>1, <1>6, Apart DEF MutexExact, NoCall
<1>8. ASSUME NEW l \in Mrsws
      PROVE  MrswExact(l)
  <2>1. /\ ReadersOf(l) = {} /\ WritersOf(l) = {} /\ l # None
        /\ mask[l] = {} /\ owner[l] = None /\ queue[l] = <<>> /\ count[l] = 0
        /\ \A t \in Threads : rdrecursion[l][t] = 0 /\ reads[l][t] = 0 /\ writes[l][t] = 0
        /\ \A t \in Threads : call[t].obj # l
    BY <1>1, <1>6, Apart DEF NoCall
  <2>2. Cardinality({}) = 0
    BY FS_EmptySet
  <2> QED
    BY <2>1, <2>2 DEF MrswExact
<1>9. ASSUME NEW s \in Semaphores
      PROVE  SemaphoreExact(s)
  BY <1>1, Apart, KernelAssumption DEF SemaphoreExact
<1>10. ASSUME NEW q \in Queues
       PROVE  ServedExact(q)
  BY <1>1, Apart DEF ServedExact
<1> QED
  BY <1>2, <1>3, <1>4, <1>5, <1>7, <1>8, <1>9, <1>10 DEF ObjectsInv

LEMMA OtherKept ==
    ASSUME ObjectsInv, OtherStep
    PROVE  ObjectsInv'
<1>1. CASE Inheritance
  BY <1>1, PriorityStep DEF Inheritance, inherit_priority
<1>2. ASSUME NEW t \in Threads, Return(t)
      PROVE  ObjectsInv'
  BY <1>2, Returns
<1>3. ASSUME NEW t \in Threads, Expire(t)
      PROVE  ObjectsInv'
  BY <1>3, Expires
<1>4. ASSUME NEW t \in Threads, NEW p, SetPriority(t, p)
      PROVE  ObjectsInv'
  BY <1>4, PriorityStep DEF SetPriority, thread_set_priority
<1>5. ASSUME NEW t \in Threads, NEW m \in Mutexes, mutex_lock(t, m) \/ mutex_unlock(t, m)
      PROVE  ObjectsInv'
  BY <1>5, MutexLock, MutexUnlock
<1>6. ASSUME NEW t \in Threads, NEW l \in Mrsws,
             \/ mrsw_read_acquire(t, l) \/ mrsw_read_release(t, l)
             \/ mrsw_write_acquire(t, l) \/ mrsw_write_release(t, l)
      PROVE  ObjectsInv'
  BY <1>6, MrswReadAcquire, MrswReadRelease, MrswWriteAcquire, MrswWriteRelease
<1>7. ASSUME NEW t \in Threads, NEW q \in Queues, queue_send(t, q) \/ queue_release_sender(t, q)
      PROVE  ObjectsInv'
  BY <1>7, QueueSend, QueueReleaseSender
<1> QED
  BY <1>1, <1>2, <1>3, <1>4, <1>5, <1>6, <1>7 DEF OtherStep

LEMMA SemaphoresKept ==
    ASSUME ObjectsInv, SemaphoreStep
    PROVE  ObjectsInv'
BY SemaphoreRelease, SemaphoreWaitReturn, SemaphoreWaitExpired, SemaphoreWait DEF SemaphoreStep

LEMMA ObjectsKept ==
    ASSUME ObjectsInv, [Next]_vars
    PROVE  ObjectsInv'
<1>1. CASE UNCHANGED vars
  BY <1>1, PriorityStep DEF vars, threadVars
<1> QED
  BY <1>1, OtherKept, SemaphoresKept DEF Next

(* Every lock's and semaphore's bookkeeping agrees with what its callers   *)
(* have been given, and with who waits for it, whatever the threads,       *)
(* objects, priorities and nesting: mutex.c, mrsw_lock.c, semaphore.c over *)
(* the wait queues of thread.c.                                            *)
THEOREM LocksExact == Spec => []ObjectsInv
<1>1. Init => ObjectsInv
  BY Began
<1>2. ObjectsInv /\ [Next]_vars => ObjectsInv'
  BY ObjectsKept
<1> QED
  BY <1>1, <1>2, PTL DEF Spec

-----------------------------------------------------------------------------
(* Locks as their callers see them.                                        *)

(* Who has a lock can be read off the fields of the lock. *)
LEMMA HoldersByFields ==
    /\ ObjectsInv =>
        /\ \A m \in Mutexes : ReadersOf(m) = {} /\ WritersOf(m) = {u \in Threads : owner[m] = u}
        /\ \A l \in Mrsws : /\ ReadersOf(l) = mask[l]
                            /\ WritersOf(l) = IF count[l] < 0 THEN {owner[l]} ELSE {}
    /\ ObjectsInv' =>
        /\ \A m \in Mutexes : ReadersOf(m)' = {} /\ WritersOf(m)' = {u \in Threads : owner'[m] = u}
        /\ \A l \in Mrsws : /\ ReadersOf(l)' = mask'[l]
                            /\ WritersOf(l)' = IF count'[l] < 0 THEN {owner'[l]} ELSE {}
<1>1. ASSUME ObjectsInv, NEW m \in Mutexes
      PROVE  ReadersOf(m) = {} /\ WritersOf(m) = {u \in Threads : owner[m] = u}
  <2>1. MutexExact(m) /\ WaitInv /\ m \in Objects
    BY <1>1, InvParts, Apart DEF Exact
  <2>2. \A u \in Threads : ~Comes(u, m, "read")
    BY <2>1, ModeOf DEF Comes
  <2> QED
    BY <2>1, <2>2 DEF MutexExact, ReadersOf, WritersOf
<1>2. ASSUME ObjectsInv, NEW l \in Mrsws
      PROVE  ReadersOf(l) = mask[l] /\ WritersOf(l) = IF count[l] < 0 THEN {owner[l]} ELSE {}
  <2>1. MrswExact(l) /\ LockTypes
    BY <1>2, InvParts, Apart DEF Exact
  <2>2. count[l] \in Int
    BY <2>1 DEF LockTypes
  <2> QED
    BY <2>1, <2>2 DEF MrswExact
<1>3. /\ ObjectsInv =>
          /\ \A m \in Mutexes : ReadersOf(m) = {} /\ WritersOf(m) = {u \in Threads : owner[m] = u}
          /\ \A l \in Mrsws : /\ ReadersOf(l) = mask[l]
                              /\ WritersOf(l) = IF count[l] < 0 THEN {owner[l]} ELSE {}
  BY <1>1, <1>2
<1>4. (ObjectsInv =>
          /\ \A m \in Mutexes : ReadersOf(m) = {} /\ WritersOf(m) = {u \in Threads : owner[m] = u}
          /\ \A l \in Mrsws : /\ ReadersOf(l) = mask[l]
                              /\ WritersOf(l) = IF count[l] < 0 THEN {owner[l]} ELSE {})'
  BY <1>3, PTL
<1> QED
  BY <1>3, <1>4

LEMMA EmptyIff ==
    ASSUME NEW S, NEW q \in Seq(S)
    PROVE  q = <<>> <=> Len(q) = 0
<1>1. Len(q) = 0 => q = <<>>
  BY EmptySeq, SeqEqual
<1> QED
  BY <1>1, EmptySeq

Modes == {"none", "read", "write", "send", "wait", "late"}

LEMMA LineExact ==
    ASSUME WaitInv, NEW o \in Objects
    PROVE  /\ Len(Line(o)) = Len(queue[o]) /\ Line(o) \in Seq([thread : Threads, mode : Modes])
           /\ DOMAIN Line(o) = 1..Len(queue[o]) /\ Len(queue[o]) \in Nat
           /\ \A i \in 1..Len(queue[o]) : /\ Line(o)[i] = [thread |-> queue[o][i], mode |-> call[queue[o][i]].mode]
                                          /\ call[queue[o][i]].obj = o /\ wqp[queue[o][i]] = o
                                          /\ queue[o][i] \in Threads
           /\ Line(o) = <<>> <=> queue[o] = <<>>
<1>1. queue[o] \in Seq(Threads) /\ ToSet(queue[o]) = {t \in Threads : wqp[t] = o}
  BY DEF WaitInv, WaitTypes, QueueExact
<1>2. DOMAIN queue[o] = 1..Len(queue[o]) /\ Len(queue[o]) \in Nat
  BY <1>1
<1>3. \A i \in 1..Len(queue[o]) : queue[o][i] \in Threads /\ wqp[queue[o][i]] = o
  BY <1>1, <1>2 DEF ToSet
<1>4. \A i \in 1..Len(queue[o]) : call[queue[o][i]].obj = o /\ call[queue[o][i]].mode \in Modes
  <2>1. ASSUME NEW t \in Threads, wqp[t] = o
        PROVE  call[t].obj = o
    BY <2>1, Apart DEF WaitInv, Linked
  <2>2. ASSUME NEW t \in Threads
        PROVE  call[t].mode \in Modes
    BY DEF WaitInv, WaitTypes, Modes
  <2> QED
    BY <1>3, <2>1, <2>2
<1>5. Line(o) = [i \in 1..Len(queue[o]) |-> [thread |-> queue[o][i], mode |-> call[queue[o][i]].mode]]
  BY <1>2 DEF Line
<1>6. Line(o) \in Seq([thread : Threads, mode : Modes])
  BY <1>2, <1>3, <1>4, <1>5
<1>7. Len(Line(o)) = Len(queue[o])
  BY <1>2, <1>5, <1>6
<1>8. Line(o) = <<>> <=> queue[o] = <<>>
  <2>1. (Line(o) = <<>> <=> Len(Line(o)) = 0) /\ (queue[o] = <<>> <=> Len(queue[o]) = 0)
    BY <1>1, <1>6, EmptyIff
  <2> QED
    BY <1>7, <2>1
<1> QED
  BY <1>2, <1>3, <1>4, <1>5, <1>6, <1>7, <1>8

LEMMA LineSame ==
    ASSUME WaitInv, NEW o \in Objects, queue'[o] = queue[o], 
           \A t \in Threads : wqp[t] = o => call'[t] = call[t]
    PROVE  Line(o)' = Line(o)
<1>1. DOMAIN queue[o] = 1..Len(queue[o])
  BY DEF WaitInv, WaitTypes
<1>2. \A i \in DOMAIN queue[o] : call'[queue[o][i]] = call[queue[o][i]]
  BY <1>1, LineExact
<1> QED
  BY <1>2 DEF Line

LEMMA LineUntouched ==
    ASSUME WaitInv, NEW o \in Objects, Untouched(o)
    PROVE  Line(o)' = Line(o)
<1>1. \A t \in Threads : wqp[t] = o => call'[t] = call[t]
  BY Apart DEF Untouched, Bystanders, WaitInv, Linked
<1> QED
  BY <1>1, LineSame DEF Untouched

(* A step at one lock, in terms of FairLocks. *)
LEMMA Granted ==
    ASSUME WaitInv, NEW o \in Locks, \A p \in Objects \ {o} : Untouched(p),
           NEW rs, ReadersOf(o)' = rs, NEW ws, WritersOf(o)' = ws, NEW rest, Line(o)' = rest
    PROVE  L!Grant(o, rs, ws, rest)
<1>1. \A p \in Locks : p \in Objects
  BY Apart
<1>2. \A p \in Locks \ {o} : /\ ReadersOf(p)' = ReadersOf(p) /\ WritersOf(p)' = WritersOf(p)
                             /\ Line(p)' = Line(p)
  BY <1>1, CallersSame, LineUntouched
<1> QED
  BY <1>2 DEF L!Grant

LEMMA Unseen ==
    ASSUME WaitInv, \A p \in Locks : /\ ReadersOf(p)' = ReadersOf(p) /\ WritersOf(p)' = WritersOf(p)
                                     /\ Line(p)' = Line(p)
    PROVE  UNCHANGED L!vars
BY DEF L!vars

LEMMA UnseenAt ==
    ASSUME WaitInv, NEW o \in Locks, \A p \in Objects \ {o} : Untouched(p),
           ReadersOf(o)' = ReadersOf(o), WritersOf(o)' = WritersOf(o), Line(o)' = Line(o)
    PROVE  UNCHANGED L!vars
<1>1. \A p \in Locks : p \in Objects
  BY Apart
<1>2. \A p \in Locks \ {o} : /\ ReadersOf(p)' = ReadersOf(p) /\ WritersOf(p)' = WritersOf(p)
                             /\ Line(p)' = Line(p)
  BY <1>1, CallersSame, LineUntouched
<1> QED
  BY <1>2, Unseen

LEMMA LineAppended ==
    ASSUME WaitInv, NEW t \in Threads, CanCall(t), NEW o \in Objects, NEW m \in Modes, NEW st,
           block_thread(t, o, st), call' = [call EXCEPT ![t] = [obj |-> o, mode |-> m]]
    PROVE  /\ Line(o)' = Append(Line(o), [thread |-> t, mode |-> m])
           /\ Line(o)' # Line(o)
           /\ \A i \in 1..Len(Line(o)) : Line(o)[i].thread # t
<1> DEFINE q == queue[o]
           e == [thread |-> t, mode |-> m]
<1>1. /\ q \in Seq(Threads) /\ Len(q) \in Nat /\ DOMAIN q = 1..Len(q) /\ wqp[t] # o
      /\ Len(Line(o)) = Len(q) /\ Line(o) \in Seq([thread : Threads, mode : Modes])
      /\ \A i \in 1..Len(q) : /\ Line(o)[i] = [thread |-> q[i], mode |-> call[q[i]].mode]
                              /\ wqp[q[i]] = o /\ q[i] \in Threads
  <2>1. q \in Seq(Threads)
    BY DEF WaitInv, WaitTypes
  <2>2. wqp[t] # o
    BY Idle, Apart DEF CanCall, Runs
  <2>3. /\ Len(Line(o)) = Len(q) /\ Line(o) \in Seq([thread : Threads, mode : Modes])
        /\ \A i \in 1..Len(q) : /\ Line(o)[i] = [thread |-> q[i], mode |-> call[q[i]].mode]
                                /\ wqp[q[i]] = o /\ q[i] \in Threads
    BY LineExact
  <2> HIDE DEF q
  <2>4. Len(q) \in Nat /\ DOMAIN q = 1..Len(q)
    BY <2>1
  <2> QED
    BY <2>1, <2>2, <2>3, <2>4
<1>2. queue'[o] = Append(q, t)
  BY DEF block_thread, WaitInv, WaitTypes
<1>3. /\ Len(Append(q, t)) = Len(q) + 1 /\ DOMAIN Append(q, t) = 1..(Len(q) + 1)
      /\ Append(q, t)[Len(q) + 1] = t /\ \A i \in 1..Len(q) : Append(q, t)[i] = q[i]
  BY <1>1
<1>4. call'[t] = [obj |-> o, mode |-> m] /\ \A u \in Threads \ {t} : call'[u] = call[u]
  BY DEF WaitInv, WaitTypes
<1>5. /\ Append(Line(o), e) \in Seq([thread : Threads, mode : Modes])
      /\ Len(Append(Line(o), e)) = Len(q) + 1 /\ DOMAIN Append(Line(o), e) = 1..(Len(q) + 1)
      /\ Append(Line(o), e)[Len(q) + 1] = e
      /\ \A i \in 1..Len(q) : Append(Line(o), e)[i] = Line(o)[i]
  BY <1>1
<1>6. Line(o)' = [i \in 1..(Len(q) + 1) |->
                     [thread |-> Append(q, t)[i], mode |-> call'[Append(q, t)[i]].mode]]
  BY <1>2, <1>3 DEF Line
<1>7. ASSUME NEW i \in 1..(Len(q) + 1)
      PROVE  Append(Line(o), e)[i] = [thread |-> Append(q, t)[i], mode |-> call'[Append(q, t)[i]].mode]
  <2>1. CASE i = Len(q) + 1
    BY <1>3, <1>4, <1>5, <2>1
  <2>2. CASE i # Len(q) + 1
    <3>1. i \in 1..Len(q)
      BY <1>1, <2>2
    <3>2. q[i] # t
      BY <1>1, <3>1
    <3> QED
      BY <1>1, <1>3, <1>4, <1>5, <3>1, <3>2
  <2> QED
    BY <2>1, <2>2
<1>8. Line(o)' = Append(Line(o), e)
  <2>1. Append(Line(o), e) = [i \in 1..(Len(q) + 1) |-> Append(Line(o), e)[i]]
    BY <1>5
  <2> QED
    BY <1>6, <1>7, <2>1
<1>9. Line(o)' # Line(o)
  <2>1. Len(Append(Line(o), e)) = Len(q) + 1 /\ Len(Line(o)) = Len(q) /\ Len(q) \in Nat
    BY <1>1, <1>5
  <2> QED
    BY <1>8, <2>1
<1>10. \A i \in 1..Len(Line(o)) : Line(o)[i].thread # t
  <2> SUFFICES ASSUME NEW i \in 1..Len(q)
               PROVE  Line(o)[i].thread # t
    BY <1>1
  <2>1. Line(o)[i] = [thread |-> q[i], mode |-> call[q[i]].mode] /\ wqp[q[i]] = o
    BY <1>1
  <2>2. Line(o)[i].thread = q[i]
    BY <2>1
  <2> QED
    BY <1>1, <2>1, <2>2
<1> QED
  BY <1>8, <1>9, <1>10

LEMMA LineAdvanced ==
    ASSUME WaitInv, NEW o \in Objects, NEW n \in 1..Len(queue[o]),
           queue'[o] = SubSeq(queue[o], n + 1, Len(queue[o])), call' = call
    PROVE  /\ Line(o)' = SubSeq(Line(o), n + 1, Len(Line(o)))
           /\ Line(o)' # Line(o)
<1> DEFINE q == queue[o]
           r == SubSeq(q, n + 1, Len(q))
           s == SubSeq(Line(o), n + 1, Len(Line(o)))
<1>1. /\ q \in Seq(Threads) /\ NoDuplicates(q) /\ Len(q) \in Nat /\ n \in 0..Len(q) /\ n \in Nat /\ n >= 1
      /\ Len(Line(o)) = Len(q) /\ Line(o) \in Seq([thread : Threads, mode : Modes])
      /\ \A i \in 1..Len(q) : Line(o)[i] = [thread |-> q[i], mode |-> call[q[i]].mode]
  <2>1. q \in Seq(Threads) /\ NoDuplicates(q)
    BY DEF WaitInv, WaitTypes, QueueExact
  <2>2. /\ Len(Line(o)) = Len(q) /\ Line(o) \in Seq([thread : Threads, mode : Modes])
        /\ \A i \in 1..Len(q) : Line(o)[i] = [thread |-> q[i], mode |-> call[q[i]].mode]
    BY LineExact
  <2> QED
    BY <2>1, <2>2
<1>2. /\ r \in Seq(Threads) /\ Len(r) = Len(q) - n /\ \A i \in 1..Len(r) : r[i] = q[i + n]
  BY <1>1, Shortened
<1>3. /\ s \in Seq([thread : Threads, mode : Modes]) /\ Len(s) = Len(q) - n
      /\ \A i \in 1..(Len(q) - n) : s[i] = Line(o)[i + n]
  <2>1. \A i \in (n + 1)..Len(q) : Line(o)[i] \in [thread : Threads, mode : Modes]
    <3>1. \A i \in (n + 1)..Len(q) : i \in 1..Len(Line(o))
      BY <1>1
    <3> QED
      BY <1>1, <3>1, ElementOfSeq
  <2>2. /\ s \in Seq([thread : Threads, mode : Modes])
        /\ Len(s) = IF n + 1 <= Len(q) THEN Len(q) - (n + 1) + 1 ELSE 0
        /\ \A i \in 1..(Len(q) - (n + 1) + 1) : s[i] = Line(o)[(n + 1) + i - 1]
    BY <1>1, <2>1, SubSeqProperties
  <2>3. Len(q) - (n + 1) + 1 = Len(q) - n /\ \A i \in 1..(Len(q) - n) : (n + 1) + i - 1 = i + n
    BY <1>1
  <2>4. (IF n + 1 <= Len(q) THEN Len(q) - (n + 1) + 1 ELSE 0) = Len(q) - n
    BY <1>1
  <2> QED
    BY <2>2, <2>3, <2>4
<1>4. DOMAIN r = 1..(Len(q) - n)
  BY <1>2
<1>5. queue'[o] = r
  OBVIOUS
<1> HIDE DEF r, s, q
<1>6. \A i \in 1..(Len(q) - n) : i + n \in 1..Len(q)
  BY <1>1
<1>7. Line(o)' = [i \in 1..(Len(q) - n) |-> [thread |-> r[i], mode |-> call[r[i]].mode]]
  BY <1>4, <1>5 DEF Line
<1>8. s = [i \in 1..(Len(q) - n) |-> s[i]]
  BY <1>3
<1>9. \A i \in 1..(Len(q) - n) : s[i] = [thread |-> r[i], mode |-> call[r[i]].mode]
  BY <1>1, <1>2, <1>3, <1>6
<1>10. Line(o)' = s
  BY <1>7, <1>8, <1>9
<1>11. s # Line(o)
  BY <1>1, <1>3
<1> QED
  BY <1>10, <1>11 DEF s

(* The five ways a step at lock o is one of FairLocks'. *)
LEMMA RequestServed ==
    ASSUME WaitInv, NEW o \in Locks, \A p \in Objects \ {o} : Untouched(p), NEW t \in Threads,
           NEW mode \in {"read", "write"}, t \notin ReadersOf(o) \cup WritersOf(o),
           Line(o) = <<>>, Line(o)' = <<>>, WritersOf(o) = {},
           ReadersOf(o) = {} \/ mode = "read",
           ReadersOf(o)' = (IF mode = "read" THEN ReadersOf(o) \cup {t} ELSE {}),
           WritersOf(o)' = (IF mode = "read" THEN {} ELSE {t})
    PROVE  L!Next
<1>1. CASE mode = "read"
  <2>1. L!Grant(o, ReadersOf(o) \cup {t}, {}, <<>>)
    BY <1>1, Granted
  <2>2. L!Request(t, o, mode)
    BY <1>1, <2>1 DEF L!Request, L!Free
  <2>3. L!Touched(o)
    BY <1>1 DEF L!Touched
  <2> QED
    BY <2>2, <2>3 DEF L!Next
<1>2. CASE mode = "write"
  <2>1. L!Grant(o, {}, {t}, <<>>)
    BY <1>2, Granted
  <2>2. L!Request(t, o, mode)
    BY <1>2, <2>1 DEF L!Request, L!Free
  <2>3. L!Touched(o)
    BY <1>2 DEF L!Touched
  <2> QED
    BY <2>2, <2>3 DEF L!Next
<1> QED
  BY <1>1, <1>2

LEMMA RequestQueued ==
    ASSUME WaitInv, NEW o \in Locks, \A p \in Objects \ {o} : Untouched(p), NEW t \in Threads,
           NEW mode \in {"read", "write"}, t \notin ReadersOf(o) \cup WritersOf(o),
           \A i \in 1..Len(Line(o)) : Line(o)[i].thread # t,
           Line(o) # <<>> \/ WritersOf(o) # {} \/ (ReadersOf(o) # {} /\ mode = "write"),
           Line(o)' = Append(Line(o), [thread |-> t, mode |-> mode]), Line(o)' # Line(o),
           ReadersOf(o)' = ReadersOf(o), WritersOf(o)' = WritersOf(o)
    PROVE  L!Next
<1>1. L!Grant(o, ReadersOf(o), WritersOf(o), Append(Line(o), [thread |-> t, mode |-> mode]))
  BY Granted
<1>2. L!Request(t, o, mode)
  BY <1>1 DEF L!Request, L!Free
<1>3. L!Touched(o)
  BY DEF L!Touched
<1> QED
  BY <1>2, <1>3 DEF L!Next

LEMMA ReleaseQuiet ==
    ASSUME WaitInv, NEW o \in Locks, \A p \in Objects \ {o} : Untouched(p), NEW t \in Threads,
           t \in ReadersOf(o) \cup WritersOf(o), Line(o)' = Line(o),
           (ReadersOf(o) \cup WritersOf(o)) \ {t} # {} \/ Line(o) = <<>>,
           ReadersOf(o)' = ReadersOf(o) \ {t}, WritersOf(o)' = WritersOf(o) \ {t}
    PROVE  L!Next
<1>1. L!Grant(o, ReadersOf(o) \ {t}, WritersOf(o) \ {t}, Line(o))
  BY Granted
<1>2. L!Release(t, o)
  BY <1>1 DEF L!Release
<1>3. L!Touched(o)
  BY DEF L!Touched
<1> QED
  BY <1>2, <1>3 DEF L!Next

LEMMA ReleaseToWriter ==
    ASSUME WaitInv, NEW o \in Locks, \A p \in Objects \ {o} : Untouched(p), NEW t \in Threads,
           ReadersOf(o) \cup WritersOf(o) = {t},
           Line(o) # <<>>, Head(Line(o)).mode = "write",
           Line(o)' = SubSeq(Line(o), 1 + 1, Len(Line(o))), Line(o)' # Line(o),
           ReadersOf(o)' = {}, WritersOf(o)' = {Head(Line(o)).thread}
    PROVE  L!Next
<1>1. L!Grant(o, {}, {Head(Line(o)).thread}, SubSeq(Line(o), 1 + 1, Len(Line(o))))
  BY Granted
<1>2. L!Release(t, o)
  BY <1>1 DEF L!Release, L!Behind
<1>3. L!Touched(o)
  BY DEF L!Touched
<1> QED
  BY <1>2, <1>3 DEF L!Next

LEMMA ReleaseToReaders ==
    ASSUME WaitInv, NEW o \in Locks, \A p \in Objects \ {o} : Untouched(p), NEW t \in Threads,
           ReadersOf(o) \cup WritersOf(o) = {t},
           Line(o) # <<>>, Head(Line(o)).mode = "read",
           NEW ps, ps = {i \in 1..Len(Line(o)) : \A j \in 1..i : Line(o)[j].mode = "read"},
           Line(o)' = SubSeq(Line(o), Cardinality(ps) + 1, Len(Line(o))), Line(o)' # Line(o),
           ReadersOf(o)' = {Line(o)[i].thread : i \in ps}, WritersOf(o)' = {}
    PROVE  L!Next
<1>1. L!Grant(o, {Line(o)[i].thread : i \in ps}, {},
              SubSeq(Line(o), Cardinality(ps) + 1, Len(Line(o))))
  BY Granted
<1>2. L!HeadReaders(o) = ps
  BY DEF L!HeadReaders
<1>3. L!Release(t, o)
  <2>1. ReadersOf(o) \ {t} = {} /\ WritersOf(o) \ {t} = {} /\ Head(Line(o)).mode # "write"
    OBVIOUS
  <2>2. L!Foremost(o) = {Line(o)[i].thread : i \in ps}
    BY <1>2 DEF L!Foremost
  <2>3. L!Behind(o, Cardinality(L!HeadReaders(o))) = SubSeq(Line(o), Cardinality(ps) + 1, Len(Line(o)))
    BY <1>2 DEF L!Behind
  <2>4. L!Grant(o, L!Foremost(o), {}, L!Behind(o, Cardinality(L!HeadReaders(o))))
    BY <1>1, <2>2, <2>3
  <2>5. L!Cardinality(L!HeadReaders(o)) = Cardinality(L!HeadReaders(o))
    BY DEF Cardinality, L!Cardinality
  <2> QED
    BY <2>1, <2>4, <2>5 DEF L!Release
<1>4. L!Touched(o)
  BY DEF L!Touched
<1> QED
  BY <1>3, <1>4 DEF L!Next

(* Steps at a lock that the others do not see, and steps that join a line. *)
LEMMA HoldersSame ==
    ASSUME ObjectsInv, ObjectsInv', NEW o \in Locks, owner'[o] = owner[o], mask'[o] = mask[o],
           o \in Mrsws => (count'[o] < 0 <=> count[o] < 0)
    PROVE  ReadersOf(o)' = ReadersOf(o) /\ WritersOf(o)' = WritersOf(o)
<1>1. CASE o \in Mutexes
  <2>1. ReadersOf(o) = {} /\ WritersOf(o) = {u \in Threads : owner[o] = u}
    BY <1>1, HoldersByFields
  <2>2. ReadersOf(o)' = {} /\ WritersOf(o)' = {u \in Threads : owner'[o] = u}
    BY <1>1, HoldersByFields
  <2> QED
    BY <2>1, <2>2
<1>2. CASE o \in Mrsws
  BY <1>2, HoldersByFields
<1> QED
  BY <1>1, <1>2, Apart

LEMMA Nested ==
    ASSUME ObjectsInv, ObjectsInv', NEW o \in Locks, \A p \in Objects \ {o} : Untouched(p),
           UNCHANGED <<queue, call>>, owner'[o] = owner[o], mask'[o] = mask[o],
           o \in Mrsws => (count'[o] < 0 <=> count[o] < 0)
    PROVE  UNCHANGED L!vars
<1>1. WaitInv /\ o \in Objects
  BY InvParts, Apart
<1>2. Line(o)' = Line(o)
  BY <1>1, LineSame
<1> QED
  BY <1>1, <1>2, HoldersSame, UnseenAt

LEMMA Queued ==
    ASSUME ObjectsInv, ObjectsInv', NEW t \in Threads, CanCall(t), NEW o \in Locks,
           NEW m \in {"read", "write"}, Blocks(t, o, m), \A p \in Objects \ {o} : Untouched(p),
           t \notin ReadersOf(o) \cup WritersOf(o),
           queue[o] # <<>> \/ WritersOf(o) # {} \/ (ReadersOf(o) # {} /\ m = "write")
    PROVE  L!Next
<1>1. WaitInv /\ o \in Objects /\ m \in Modes
  BY InvParts, Apart DEF Modes
<1>2. /\ Line(o)' = Append(Line(o), [thread |-> t, mode |-> m]) /\ Line(o)' # Line(o)
      /\ \A i \in 1..Len(Line(o)) : Line(o)[i].thread # t
  BY <1>1, LineAppended DEF Blocks
<1>3. Line(o) = <<>> <=> queue[o] = <<>>
  BY <1>1, LineExact
<1>4. ReadersOf(o)' = ReadersOf(o) /\ WritersOf(o)' = WritersOf(o)
  BY HoldersSame DEF Blocks, block_thread, ownVars, fieldVars
<1> QED
  BY <1>1, <1>2, <1>3, <1>4, RequestQueued

LEMMA MutexLockSeen ==
    ASSUME ObjectsInv, NEW t \in Threads, NEW m \in Mutexes, mutex_lock(t, m)
    PROVE  L!Next \/ UNCHANGED L!vars
<1>1. ObjectsInv' /\ \A p \in Objects \ {m} : Untouched(p)
  BY MutexLock
<1>2. CanCall(t) /\ None \notin Threads
  BY Apart DEF mutex_lock
<1>3. /\ WaitInv /\ LockTypes /\ MutexExact(m) /\ m \in Objects /\ m \in Locks /\ m \in Blockers
      /\ m \notin Mrsws
  BY <1>2, MutexCallers
<1>4. ReadersOf(m) = {} /\ WritersOf(m) = {u \in Threads : owner[m] = u}
  BY HoldersByFields
<1>5. ReadersOf(m)' = {} /\ WritersOf(m)' = {u \in Threads : owner'[m] = u}
  BY <1>1, HoldersByFields
<1>6. CASE owner[m] = t /\ Writes(t, m, 1) /\ UNCHANGED threadVars
  BY <1>1, <1>3, <1>6, Nested DEF Writes, threadVars, waitVars, ownVars
<1>7. CASE owner[m] = None /\ SetOwner(m, t) /\ Writes(t, m, 1)
  <2>1. Line(m) = <<>>
    BY <1>3, <1>7, LineExact DEF MutexExact
  <2>2. Line(m)' = <<>>
    BY <1>3, <1>7, <2>1, LineSame DEF SetOwner, Writes, waitVars
  <2>3. WritersOf(m) = {} /\ WritersOf(m)' = {t}
    BY <1>2, <1>3, <1>4, <1>5, <1>7 DEF SetOwner, LockTypes
  <2> QED
    BY <1>1, <1>3, <1>4, <1>5, <2>1, <2>2, <2>3, RequestServed
<1>8. CASE owner[m] \notin {t, None} /\ Blocks(t, m, "write")
  <2>1. WritersOf(m) # {} /\ t \notin ReadersOf(m) \cup WritersOf(m)
    BY <1>3, <1>4, <1>8 DEF LockTypes
  <2> QED
    BY <1>1, <1>2, <1>3, <1>8, <2>1, Queued
<1> QED
  BY <1>6, <1>7, <1>8 DEF mutex_lock

(* The lock goes to the first in line. *)
ToHead(o) ==
    /\ Head(queue[o]) \in Threads /\ call[Head(queue[o])].obj = o
    /\ Line(o) # <<>>
    /\ Head(Line(o)) = [thread |-> Head(queue[o]), mode |-> call[Head(queue[o])].mode]
    /\ Head(Line(o)).thread = Head(queue[o])
    /\ Head(Line(o)).mode = call[Head(queue[o])].mode
    /\ owner' = [owner EXCEPT ![o] = Head(queue[o])]
    /\ Line(o)' = SubSeq(Line(o), 1 + 1, Len(Line(o)))
    /\ Line(o)' # Line(o)

LEMMA HeadServed ==
    ASSUME WaitInv, LockTypes, NEW o \in Blockers, queue[o] # <<>>,
           wakeup_thread_transfer(o), call' = call
    PROVE  ToHead(o)
<1>1. /\ Head(queue[o]) \in Threads /\ call[Head(queue[o])].obj = o
      /\ queue'[o] = Tail(queue[o]) /\ owner' = [owner EXCEPT ![o] = Head(queue[o])]
  BY HandOver
<1>2. o \in Objects /\ queue[o] \in Seq(Threads)
  BY Apart DEF WaitInv, WaitTypes
<1>3. Len(queue[o]) # 0 /\ Len(queue[o]) \in Nat /\ Head(queue[o]) = queue[o][1]
  BY <1>2, EmptyIff
<1>4. 1 \in 1..Len(queue[o])
  BY <1>3
<1>5. Tail(queue[o]) = SubSeq(queue[o], 1 + 1, Len(queue[o]))
  BY <1>2, TailIsSubSeq
<1>6. Line(o)' = SubSeq(Line(o), 1 + 1, Len(Line(o))) /\ Line(o)' # Line(o)
  BY <1>1, <1>2, <1>4, <1>5, LineAdvanced
<1>7. /\ Line(o) # <<>> /\ Line(o) \in Seq([thread : Threads, mode : Modes])
      /\ Line(o)[1] = [thread |-> queue[o][1], mode |-> call[queue[o][1]].mode]
  BY <1>2, <1>4, LineExact
<1>8. Head(Line(o)) = Line(o)[1]
  BY <1>7
<1> QED
  BY <1>1, <1>3, <1>6, <1>7, <1>8 DEF ToHead

LEMMA MutexUnlockSeen ==
    ASSUME ObjectsInv, NEW t \in Threads, NEW m \in Mutexes, mutex_unlock(t, m)
    PROVE  L!Next \/ UNCHANGED L!vars
<1>1. ObjectsInv' /\ \A p \in Objects \ {m} : Untouched(p)
  BY MutexUnlock
<1>2. CanCall(t) /\ Writes(t, m, -1) /\ None \notin Threads
  BY Apart DEF mutex_unlock
<1>3. /\ WaitInv /\ LockTypes /\ MutexExact(m) /\ m \in Objects /\ m \in Locks /\ m \in Blockers
      /\ m \notin Mrsws /\ owner[m] = t
  BY <1>2, MutexCallers DEF mutex_unlock
<1>4. ReadersOf(m) = {} /\ WritersOf(m) = {t}
  BY <1>3, HoldersByFields
<1>5. ReadersOf(m)' = {} /\ WritersOf(m)' = {u \in Threads : owner'[m] = u}
  BY <1>1, HoldersByFields
<1>6. CASE UNCHANGED threadVars
  BY <1>1, <1>2, <1>3, <1>6, Nested DEF Writes, threadVars, waitVars, ownVars
<1>7. CASE queue[m] = <<>> /\ SetOwner(m, None)
  <2>1. Line(m) = <<>>
    BY <1>3, <1>7, LineExact
  <2>2. Line(m)' = Line(m)
    BY <1>2, <1>3, <1>7, LineSame DEF SetOwner, Writes, waitVars
  <2>3. WritersOf(m)' = {}
    BY <1>2, <1>3, <1>5, <1>7 DEF SetOwner, LockTypes
  <2> QED
    BY <1>1, <1>3, <1>4, <1>5, <2>1, <2>2, <2>3, ReleaseQuiet
<1>8. CASE queue[m] # <<>> /\ wakeup_thread_transfer(m)
  <2>1. ToHead(m)
    BY <1>2, <1>3, <1>8, HeadServed DEF Writes
  <2>2. Head(Line(m)).mode = "write"
    BY <1>3, <2>1, ModeOf DEF ToHead
  <2>3. WritersOf(m)' = {Head(Line(m)).thread}
    BY <1>3, <1>5, <2>1 DEF ToHead, LockTypes
  <2> QED
    BY <1>1, <1>3, <1>4, <1>5, <2>1, <2>2, <2>3, ReleaseToWriter DEF ToHead
<1> QED
  BY <1>6, <1>7, <1>8 DEF mutex_unlock

(* The mode in which a linked thread waits for a lock. *)
LEMMA ModeByRetval ==
    ASSUME WaitInv, NEW l \in Mrsws, NEW u \in Threads, wqp[u] = l
    PROVE  /\ retval[u] = 1 <=> call[u].mode = "read"
           /\ retval[u] = 0 <=> call[u].mode = "write"
<1>1. call[u].obj = l /\ wqp[u] # None /\ l \in Objects
  BY Apart DEF WaitInv, Linked
<1>2. call[u].mode \in {"read", "write"}
  BY <1>1, ModeOf
<1> QED
  BY <1>1, <1>2 DEF WaitInv, Linked

LEMMA MrswReadAcquireSeen ==
    ASSUME ObjectsInv, NEW t \in Threads, NEW l \in Mrsws, mrsw_read_acquire(t, l)
    PROVE  L!Next \/ UNCHANGED L!vars
<1>1. ObjectsInv' /\ \A p \in Objects \ {l} : Untouched(p)
  BY MrswReadAcquire
<1>2. CanCall(t)
  BY DEF mrsw_read_acquire
<1>3. /\ WaitInv /\ LockTypes /\ l \in Objects /\ l \in Locks /\ l \in Blockers
      /\ t \in WritersOf(l) <=> IsWriter(t, l)
      /\ count[l] \in Int
  BY <1>2, MrswCallers
<1>4. ReadersOf(l) = mask[l] /\ WritersOf(l) = IF count[l] < 0 THEN {owner[l]} ELSE {}
  BY HoldersByFields
<1>5. ReadersOf(l)' = mask'[l] /\ WritersOf(l)' = IF count'[l] < 0 THEN {owner'[l]} ELSE {}
  BY <1>1, HoldersByFields
<1>6. CASE Reads(t, l, 1) /\ UNCHANGED <<threadVars, recursion, count>>
  BY <1>1, <1>3, <1>6, Nested DEF Reads, threadVars, waitVars, ownVars
<1>7. CASE /\ ~IsWriter(t, l) /\ t \notin mask[l] /\ OpenToReaders(l)
           /\ SetCount(l, count[l] + 1) /\ mrsw_reader_claim(t, l, count[l] + 1) /\ Reads(t, l, 1)
  <2>1. Line(l) = <<>>
    BY <1>3, <1>7, LineExact DEF OpenToReaders
  <2>2. Line(l)' = <<>>
    <3>1. UNCHANGED <<queue, call>>
      BY <1>7 DEF mrsw_reader_claim, Reads, waitVars
    <3> QED
      BY <1>3, <2>1, <3>1, LineSame
  <2>3. WritersOf(l) = {}
    BY <1>3, <1>4, <1>7 DEF OpenToReaders
  <2>4. mask'[l] = mask[l] \cup {t}
    BY <1>3, <1>7 DEF mrsw_reader_claim, LockTypes
  <2>5. count'[l] = count[l] + 1 /\ count[l] >= 0
    BY <1>3, <1>7 DEF SetCount, OpenToReaders, LockTypes
  <2>6. WritersOf(l)' = {} /\ ReadersOf(l)' = ReadersOf(l) \cup {t}
    BY <1>3, <1>4, <1>5, <2>4, <2>5
  <2> QED
    BY <1>1, <1>3, <1>4, <1>7, <2>1, <2>2, <2>3, <2>6, RequestServed
<1>8. CASE /\ ~IsWriter(t, l) /\ t \notin mask[l] /\ ~OpenToReaders(l)
           /\ Blocks(t, l, "read")
  <2>1. queue[l] # <<>> \/ WritersOf(l) # {}
    BY <1>3, <1>4, <1>8 DEF OpenToReaders
  <2> QED
    BY <1>1, <1>2, <1>3, <1>4, <1>8, <2>1, Queued
<1> QED
  BY <1>6, <1>7, <1>8 DEF mrsw_read_acquire, fieldVars

LEMMA MrswReadReleaseSeen ==
    ASSUME ObjectsInv, NEW t \in Threads, NEW l \in Mrsws, mrsw_read_release(t, l)
    PROVE  L!Next \/ UNCHANGED L!vars
<1>1. ObjectsInv' /\ \A p \in Objects \ {l} : Untouched(p)
  BY MrswReadRelease
<1>2. CanCall(t) /\ Reads(t, l, -1) /\ reads[l][t] > 0
  BY DEF mrsw_read_release
<1>3. /\ WaitInv /\ LockTypes /\ MrswExact(l) /\ l \in Objects /\ l \in Locks /\ l \in Blockers
      /\ t \in WritersOf(l) <=> IsWriter(t, l)
      /\ t \in WritersOf(l) <=> writes[l][t] > 0
      /\ t \in ReadersOf(l) <=> reads[l][t] > 0 /\ writes[l][t] = 0
      /\ writes[l] \in [Threads -> Nat] /\ count[l] \in Int
  BY <1>2, MrswCallers
<1>4. ReadersOf(l) = mask[l] /\ WritersOf(l) = IF count[l] < 0 THEN {owner[l]} ELSE {}
  BY HoldersByFields
<1>5. ReadersOf(l)' = mask'[l] /\ WritersOf(l)' = IF count'[l] < 0 THEN {owner'[l]} ELSE {}
  BY <1>1, HoldersByFields
<1>6. ASSUME ~IsWriter(t, l)
      PROVE  t \in ReadersOf(l) /\ count[l] >= 0 /\ WritersOf(l) = {} /\ count[l] = Cardinality(ReadersOf(l))
  BY <1>2, <1>3, <1>6 DEF MrswExact
<1>7. CASE UNCHANGED <<threadVars, recursion, count>>
  BY <1>1, <1>2, <1>3, <1>7, Nested DEF Reads, threadVars, waitVars, ownVars
<1>8. CASE /\ ~IsWriter(t, l) /\ count[l] = 1 /\ queue[l] # <<>>
           /\ SetCount(l, -1) /\ wakeup_thread_transfer(l)
           /\ mask' = [mask EXCEPT ![l] = @ \ {t}]
  <2>1. ToHead(l)
    BY <1>2, <1>3, <1>8, HeadServed DEF Reads
  <2>2. ReadersOf(l) = {t}
    BY <1>3, <1>6, <1>8 DEF MrswExact
  <2>3. mask'[l] = {}
    BY <1>3, <1>4, <1>8, <2>2 DEF LockTypes
  <2>4. count'[l] = -1 /\ owner'[l] = Head(queue[l])
    BY <1>3, <1>8, <2>1 DEF SetCount, LockTypes, ToHead
  <2>5. WritersOf(l)' = {Head(Line(l)).thread} /\ ReadersOf(l)' = {}
    BY <1>5, <2>1, <2>3, <2>4 DEF ToHead
  <2>6. Head(Line(l)).mode = "write"
    <3>1. wqp[Head(queue[l])] = l /\ Head(queue[l]) \in Threads
      BY <1>3, <1>8, FirstWaits
    <3>2. retval[Head(queue[l])] = 0
      BY <1>3, <1>8 DEF MrswExact
    <3> QED
      BY <1>3, <2>1, <3>1, <3>2, ModeByRetval DEF ToHead
  <2>7. ReadersOf(l) \cup WritersOf(l) = {t}
    BY <1>6, <1>8, <2>2
  <2> QED
    BY <1>1, <1>3, <2>1, <2>5, <2>6, <2>7, ReleaseToWriter DEF ToHead
<1>9. CASE /\ ~IsWriter(t, l) /\ ~(count[l] = 1 /\ queue[l] # <<>>)
           /\ SetCount(l, count[l] - 1) /\ mrsw_reader_relinquish(t, l)
  <2>1. Line(l)' = Line(l)
    BY <1>2, <1>3, <1>9, LineSame DEF mrsw_reader_relinquish, Reads, waitVars
  <2>2. mask'[l] = mask[l] \ {t}
    BY <1>3, <1>9 DEF mrsw_reader_relinquish, LockTypes
  <2>3. IsFiniteSet(ReadersOf(l))
    BY ReadersFinite
  <2>4. count[l] # 0
    BY <1>6, <1>9, <2>3, FS_EmptySet
  <2>5. ReadersOf(l) \ {t} # {} \/ Line(l) = <<>>
    <3>1. CASE queue[l] = <<>>
      BY <1>3, <3>1, LineExact
    <3>2. CASE queue[l] # <<>>
      <4>1. Cardinality(ReadersOf(l)) # 1
        BY <1>6, <1>9, <3>2
      <4>2. ReadersOf(l) # {t}
        BY <4>1, FS_Singleton
      <4> QED
        BY <1>6, <1>9, <4>2
    <3> QED
      BY <3>1, <3>2
  <2>6. count'[l] = count[l] - 1
    BY <1>3, <1>9 DEF SetCount, LockTypes
  <2>7. ReadersOf(l)' = ReadersOf(l) \ {t} /\ WritersOf(l)' = WritersOf(l) \ {t} /\ WritersOf(l) = {}
    BY <1>3, <1>4, <1>5, <1>6, <1>9, <2>2, <2>4, <2>6
  <2>8. (ReadersOf(l) \cup WritersOf(l)) \ {t} # {} \/ Line(l) = <<>>
    BY <2>5, <2>7
  <2> QED
    BY <1>1, <1>3, <1>6, <1>9, <2>1, <2>7, <2>8, ReleaseQuiet
<1> QED
  BY <1>7, <1>8, <1>9 DEF mrsw_read_release, fieldVars

LEMMA MrswWriteAcquireSeen ==
    ASSUME ObjectsInv, NEW t \in Threads, NEW l \in Mrsws, mrsw_write_acquire(t, l)
    PROVE  L!Next \/ UNCHANGED L!vars
<1>1. ObjectsInv' /\ \A p \in Objects \ {l} : Untouched(p)
  BY MrswWriteAcquire
<1>2. CanCall(t) /\ (writes[l][t] > 0 \/ ~Holds(t, l)) /\ None \notin Threads
  BY Apart DEF mrsw_write_acquire
<1>3. /\ WaitInv /\ LockTypes /\ MrswExact(l) /\ l \in Objects /\ l \in Locks /\ l \in Blockers
      /\ t \in WritersOf(l) <=> IsWriter(t, l)
      /\ t \in WritersOf(l) <=> writes[l][t] > 0
      /\ t \in ReadersOf(l) <=> reads[l][t] > 0 /\ writes[l][t] = 0
      /\ writes[l] \in [Threads -> Nat] /\ reads[l] \in [Threads -> Nat] /\ count[l] \in Int
  BY <1>2, MrswCallers
<1>4. ReadersOf(l) = mask[l] /\ WritersOf(l) = IF count[l] < 0 THEN {owner[l]} ELSE {}
  BY HoldersByFields
<1>5. ReadersOf(l)' = mask'[l] /\ WritersOf(l)' = IF count'[l] < 0 THEN {owner'[l]} ELSE {}
  BY <1>1, HoldersByFields
<1>6. writes[l][t] = 0 => t \notin ReadersOf(l)
  BY <1>2, <1>3 DEF Holds
<1>7. CASE owner[l] = t /\ SetCount(l, count[l] - 1) /\ Writes(t, l, 1) /\ UNCHANGED threadVars
  <2>1. count[l] < 0
    BY <1>2, <1>3, <1>6, <1>7 DEF MrswExact, IsWriter
  <2>2. count'[l] < 0
    BY <1>3, <1>7, <2>1 DEF SetCount, LockTypes
  <2>3. UNCHANGED <<queue, call, owner, mask>>
    BY <1>7 DEF Writes, threadVars, waitVars, ownVars
  <2> QED
    BY <1>1, <1>3, <2>1, <2>2, <2>3, Nested
<1>8. CASE count[l] = 0 /\ SetCount(l, -1) /\ SetOwner(l, t) /\ Writes(t, l, 1)
  <2>1. Line(l) = <<>>
    BY <1>3, <1>8, LineExact DEF MrswExact
  <2>2. Line(l)' = <<>>
    <3>1. UNCHANGED <<queue, call>>
      BY <1>8 DEF SetOwner, Writes, waitVars
    <3> QED
      BY <1>3, <2>1, <3>1, LineSame
  <2>3. ReadersOf(l) = {} /\ WritersOf(l) = {}
    <3>1. count[l] = Cardinality(ReadersOf(l)) /\ WritersOf(l) = {}
      BY <1>3, <1>8 DEF MrswExact
    <3> QED
      BY <1>8, <3>1, ReadersFinite, FS_EmptySet
  <2>4. count'[l] = -1 /\ owner'[l] = t /\ mask'[l] = mask[l]
    BY <1>3, <1>8 DEF SetCount, SetOwner, LockTypes
  <2>5. ReadersOf(l)' = {} /\ WritersOf(l)' = {t}
    <3>1. mask'[l] = {}
      BY <1>4, <2>3, <2>4
    <3>2. count'[l] < 0
      BY <2>4
    <3> QED
      BY <1>5, <2>4, <3>1, <3>2
  <2> QED
    BY <1>1, <1>3, <2>1, <2>2, <2>3, <2>5, RequestServed
<1>9. CASE owner[l] # t /\ count[l] # 0 /\ Blocks(t, l, "write")
  <2>1. t \notin WritersOf(l)
    BY <1>3, <1>9 DEF IsWriter
  <2>2. t \notin ReadersOf(l)
    BY <1>3, <1>6, <2>1
  <2>3. WritersOf(l) # {} \/ ReadersOf(l) # {}
    <3>1. CASE count[l] < 0
      BY <1>4, <3>1
    <3>2. CASE count[l] >= 0
      <4>1. count[l] = Cardinality(ReadersOf(l))
        BY <1>3, <3>2 DEF MrswExact
      <4> QED
        BY <1>9, <4>1, FS_EmptySet
    <3> QED
      BY <1>3, <3>1, <3>2
  <2> QED
    BY <1>1, <1>2, <1>3, <1>9, <2>1, <2>2, <2>3, Queued
<1> QED
  BY <1>7, <1>8, <1>9 DEF mrsw_write_acquire

LEMMA MrswWriteReleaseSeen ==
    ASSUME ObjectsInv, NEW t \in Threads, NEW l \in Mrsws, mrsw_write_release(t, l)
    PROVE  L!Next \/ UNCHANGED L!vars
<1>1. ObjectsInv' /\ \A p \in Objects \ {l} : Untouched(p)
  BY MrswWriteRelease
<1>2. CanCall(t) /\ Writes(t, l, -1) /\ writes[l][t] > 0 /\ None \notin Threads
  BY Apart DEF mrsw_write_release
<1>3. /\ WaitInv /\ LockTypes /\ MrswExact(l) /\ l \in Objects /\ l \in Locks /\ l \in Blockers
      /\ t \in WritersOf(l) /\ IsWriter(t, l) /\ count[l] \in Int
  BY <1>2, MrswCallers
<1>4. ReadersOf(l) = {} /\ mask[l] = {} /\ WritersOf(l) = {t}
  BY <1>3 DEF MrswExact, IsWriter
<1>5. ReadersOf(l)' = mask'[l] /\ WritersOf(l)' = IF count'[l] < 0 THEN {owner'[l]} ELSE {}
  BY <1>1, HoldersByFields
<1>6. call' = call
  BY <1>2 DEF Writes
<1>7. CASE count[l] < -1 /\ SetCount(l, count[l] + 1) /\ UNCHANGED threadVars
  <2>1. count'[l] < 0
    BY <1>3, <1>7 DEF SetCount, LockTypes
  <2>2. UNCHANGED <<queue, call, owner, mask>>
    BY <1>6, <1>7 DEF threadVars, waitVars, ownVars
  <2> QED
    BY <1>1, <1>3, <2>1, <2>2, Nested DEF IsWriter
<1>8. CASE queue[l] = <<>> /\ SetCount(l, 0) /\ SetOwner(l, None)
  <2>1. Line(l) = <<>>
    BY <1>3, <1>8, LineExact
  <2>2. Line(l)' = Line(l)
    BY <1>3, <1>6, <1>8, LineSame DEF SetOwner, waitVars
  <2>3. count'[l] = 0 /\ mask'[l] = {}
    BY <1>3, <1>4, <1>8 DEF SetCount, SetOwner, LockTypes
  <2>4. ReadersOf(l)' = {} /\ WritersOf(l)' = {}
    BY <1>5, <2>3
  <2> QED
    BY <1>1, <1>3, <1>4, <2>1, <2>2, <2>4, ReleaseQuiet
<1>9. CASE /\ queue[l] # <<>> /\ retval[Head(queue[l])] = 0
           /\ wakeup_thread_transfer(l) /\ UNCHANGED <<mask, count>>
  <2>1. ToHead(l)
    BY <1>3, <1>6, <1>9, HeadServed
  <2>2. mask'[l] = {} /\ count'[l] < 0 /\ owner'[l] = Head(queue[l])
    BY <1>3, <1>4, <1>9, <2>1 DEF ToHead, LockTypes, IsWriter
  <2>3. ReadersOf(l)' = {} /\ WritersOf(l)' = {Head(Line(l)).thread}
    BY <1>5, <2>1, <2>2 DEF ToHead
  <2>4. wqp[Head(queue[l])] = l /\ Head(queue[l]) \in Threads
    BY <1>3, <1>9, FirstWaits
  <2>5. Head(Line(l)).mode = "write"
    BY <1>3, <1>9, <2>1, <2>4, ModeByRetval DEF ToHead
  <2> QED
    BY <1>1, <1>3, <1>4, <2>1, <2>3, <2>5, ReleaseToWriter DEF ToHead
<1>10. CASE /\ queue[l] # <<>> /\ retval[Head(queue[l])] = 1
            /\ SetCount(l, Woken(l)) /\ wakeup_thread_queue_multi_transfer(l)
  <2> DEFINE n == Cardinality(ReaderPlaces(l))
  <2>1. /\ n \in 1..Len(queue[l]) /\ ReaderPlaces(l) = 1..n
        /\ FirstReaders(l) = {queue[l][k] : k \in 1..n}
        /\ Cardinality(FirstReaders(l)) = n
    BY <1>3, <1>10, FirstReadersExact
  <2>2. queue'[l] = SubSeq(queue[l], n + 1, Len(queue[l]))
    BY <1>3, <1>10 DEF wakeup_thread_queue_multi_transfer, Unlink, WaitInv, WaitTypes
  <2>3. mask'[l] = FirstReaders(l)
    BY <1>3, <1>4, <1>10 DEF wakeup_thread_queue_multi_transfer, LockTypes
  <2>4. count'[l] = n
    BY <1>3, <1>10, <2>1 DEF SetCount, Woken, LockTypes
  <2> HIDE DEF n
  <2>5. Line(l)' = SubSeq(Line(l), n + 1, Len(Line(l))) /\ Line(l)' # Line(l)
    BY <1>3, <1>6, <2>1, <2>2, LineAdvanced
  <2>6. /\ Len(Line(l)) = Len(queue[l]) /\ Line(l) \in Seq([thread : Threads, mode : Modes])
        /\ Len(queue[l]) \in Nat /\ Line(l) # <<>>
        /\ \A i \in 1..Len(queue[l]) :
              /\ Line(l)[i].thread = queue[l][i]
              /\ Line(l)[i].mode = "read" <=> retval[queue[l][i]] = 1
    <3>1. /\ Len(Line(l)) = Len(queue[l]) /\ Line(l) \in Seq([thread : Threads, mode : Modes])
          /\ Len(queue[l]) \in Nat /\ Line(l) # <<>>
          /\ \A i \in 1..Len(queue[l]) :
                /\ Line(l)[i] = [thread |-> queue[l][i], mode |-> call[queue[l][i]].mode]
                /\ wqp[queue[l][i]] = l /\ queue[l][i] \in Threads
      BY <1>3, <1>10, LineExact
    <3>2. \A u \in Threads : wqp[u] = l => (retval[u] = 1 <=> call[u].mode = "read")
      BY <1>3, ModeByRetval
    <3>3. ASSUME NEW i \in 1..Len(queue[l])
          PROVE  /\ Line(l)[i].thread = queue[l][i]
                 /\ Line(l)[i].mode = "read" <=> retval[queue[l][i]] = 1
      <4>1. /\ Line(l)[i] = [thread |-> queue[l][i], mode |-> call[queue[l][i]].mode]
            /\ wqp[queue[l][i]] = l /\ queue[l][i] \in Threads
        BY <3>1
      <4>2. Line(l)[i].thread = queue[l][i] /\ Line(l)[i].mode = call[queue[l][i]].mode
        BY <4>1
      <4> QED
        BY <3>2, <4>1, <4>2
    <3> QED
      BY <3>1, <3>3
  <2> DEFINE ps == {i \in 1..Len(Line(l)) : \A j \in 1..i : Line(l)[j].mode = "read"}
  <2>7. ps = 1..n
    <3>1. DOMAIN queue[l] = 1..Len(queue[l])
      BY <1>3 DEF WaitInv, WaitTypes
    <3>2. \A i \in 1..Len(queue[l]) : \A j \in 1..i : j \in 1..Len(queue[l])
      BY <2>6
    <3>3. ps = {i \in 1..Len(queue[l]) : \A j \in 1..i : retval[queue[l][j]] = 1}
      BY <2>6, <3>2
    <3> QED
      BY <2>1, <3>1, <3>3 DEF ReaderPlaces
  <2>8. Head(Line(l)).mode = "read"
    <3>1. 1 \in 1..Len(queue[l]) /\ Head(queue[l]) = queue[l][1] /\ Head(Line(l)) = Line(l)[1]
      BY <1>3, <2>1, <2>6 DEF WaitInv, WaitTypes
    <3> QED
      BY <1>10, <2>6, <3>1
  <2>9. ReadersOf(l)' = {Line(l)[i].thread : i \in 1..n}
    <3>1. \A i \in 1..n : Line(l)[i].thread = queue[l][i]
      BY <2>1, <2>6
    <3> QED
      BY <1>5, <2>1, <2>3, <3>1
  <2>10. WritersOf(l)' = {} /\ Cardinality(ps) = n
    <3>1. ~(count'[l] < 0)
      BY <2>1, <2>4
    <3>2. Cardinality(ps) = n
      BY <2>1, <2>7 DEF n
    <3> QED
      BY <1>5, <3>1, <3>2
  <2> HIDE DEF ps
  <2>11. ps = {i \in 1..Len(Line(l)) : \A j \in 1..i : Line(l)[j].mode = "read"}
    BY DEF ps
  <2>12. /\ Line(l)' = SubSeq(Line(l), Cardinality(ps) + 1, Len(Line(l))) /\ Line(l)' # Line(l)
         /\ ReadersOf(l)' = {Line(l)[i].thread : i \in ps} /\ WritersOf(l)' = {}
    BY <2>5, <2>7, <2>9, <2>10
  <2> QED
    BY <1>1, <1>3, <1>4, <2>6, <2>8, <2>11, <2>12, ReleaseToReaders
<1> QED
  BY <1>7, <1>8, <1>9, <1>10 DEF mrsw_write_release

LEMMA ElsewhereSeen ==
    ASSUME WaitInv, \A p \in Locks : Untouched(p)
    PROVE  UNCHANGED L!vars
<1>1. \A p \in Locks : p \in Objects
  BY Apart
<1> QED
  BY <1>1, CallersSame, LineUntouched, Unseen

LEMMA ReturnSeen ==
    ASSUME ObjectsInv, NEW t \in Threads, Return(t)
    PROVE  UNCHANGED L!vars
<1>1. PICK o : o = call[t].obj
  OBVIOUS
<1>2. PICK m : m = call[t].mode
  OBVIOUS
<1>3. /\ o \in Blockers /\ \A p \in Objects \ {o} : Untouched(p)
      /\ o \in Locks => ReadersOf(o)' = ReadersOf(o) /\ WritersOf(o)' = WritersOf(o)
      /\ queue' = queue /\ \A u \in Threads \ {t} : call'[u] = call[u]
  BY <1>1, <1>2, Returns
<1>4. WaitInv /\ wqp[t] = None
  BY InvParts, Woke DEF Return, Runs
<1>5. CASE o \in Locks
  <2>1. o \in Objects /\ wqp[t] # o
    BY <1>4, <1>5, Apart
  <2>2. Line(o)' = Line(o)
    BY <1>3, <1>4, <2>1, LineSame
  <2> QED
    BY <1>3, <1>4, <1>5, <2>2, UnseenAt
<1>6. CASE o \notin Locks
  BY <1>3, <1>4, <1>6, Apart, ElsewhereSeen
<1> QED
  BY <1>5, <1>6

LEMMA LocksSeen ==
    ASSUME ObjectsInv, Next
    PROVE  L!Next \/ UNCHANGED L!vars
<1>1. WaitInv
  BY InvParts
<1>2. ASSUME NEW o \in Objects \ Locks, \A p \in Objects \ {o} : Untouched(p)
      PROVE  UNCHANGED L!vars
  BY <1>1, <1>2, Apart, ElsewhereSeen
<1>3. ASSUME \A p \in Objects : Untouched(p)
      PROVE  UNCHANGED L!vars
  BY <1>1, <1>3, Apart, ElsewhereSeen
<1>4. CASE Inheritance
  <2>1. UNCHANGED <<waitVars, ownVars, fieldVars, call, reads, writes>>
    BY <1>4 DEF Inheritance, inherit_priority
  <2> QED
    BY <1>3, <2>1, PriorityStep
<1>5. ASSUME NEW t \in Threads, Return(t)
      PROVE  UNCHANGED L!vars
  BY <1>5, ReturnSeen
<1>6. ASSUME NEW t \in Threads, Expire(t)
      PROVE  UNCHANGED L!vars
  BY <1>3, <1>6, Expires
<1>7. ASSUME NEW t \in Threads, NEW p, SetPriority(t, p)
      PROVE  UNCHANGED L!vars
  <2>1. UNCHANGED <<waitVars, ownVars, fieldVars, call, reads, writes>>
    BY <1>7 DEF SetPriority, thread_set_priority
  <2> QED
    BY <1>3, <2>1, PriorityStep
<1>8. ASSUME NEW t \in Threads, NEW q \in Queues, queue_send(t, q) \/ queue_release_sender(t, q)
      PROVE  UNCHANGED L!vars
  <2>1. q \in Objects \ Locks
    BY Apart
  <2> QED
    BY <1>2, <1>8, <2>1, QueueSend, QueueReleaseSender
<1>9. CASE OtherStep
  BY <1>4, <1>5, <1>6, <1>7, <1>8, <1>9, MutexLockSeen, MutexUnlockSeen, MrswReadAcquireSeen,
     MrswReadReleaseSeen, MrswWriteAcquireSeen, MrswWriteReleaseSeen DEF OtherStep
<1>10. Semaphores \subseteq Objects \ Locks
  BY Apart
<1>11. CASE SemaphoreStep
  <2>1. ASSUME NEW s \in Semaphores, semaphore_release(s)
        PROVE  UNCHANGED L!vars
    BY <1>2, <1>10, <2>1, SemaphoreRelease
  <2>2. ASSUME NEW t \in Threads, NEW s \in Semaphores, NEW timeout, semaphore_wait(t, s, timeout)
        PROVE  UNCHANGED L!vars
    BY <1>2, <1>10, <2>2, SemaphoreWait
  <2>3. ASSUME NEW t \in Threads, WaitReturn(t)
        PROVE  UNCHANGED L!vars
    <3>1. PICK s : s = call[t].obj
      OBVIOUS
    <3>2. s \in Semaphores /\ \A p \in Objects \ {s} : Untouched(p)
      BY <2>3, <3>1, SemaphoreWaitReturn
    <3> QED
      BY <1>2, <1>10, <3>2
  <2>4. ASSUME NEW t \in Threads, WaitExpired(t)
        PROVE  UNCHANGED L!vars
    <3>1. PICK s : s = call[t].obj
      OBVIOUS
    <3>2. s \in Semaphores /\ \A p \in Objects \ {s} : Untouched(p)
      BY <2>4, <3>1, SemaphoreWaitExpired
    <3> QED
      BY <1>2, <1>10, <3>2
  <2> QED
    BY <1>11, <2>1, <2>2, <2>3, <2>4 DEF SemaphoreStep
<1> QED
  BY <1>9, <1>11 DEF Next

LEMMA LocksAtRest ==
    ASSUME Init
    PROVE  L!Init
<1>1. ObjectsInv
  BY Began
<1>2. WaitInv
  BY <1>1, InvParts
<1>3. ASSUME NEW o \in Locks
      PROVE  ReadersOf(o) = {} /\ WritersOf(o) = {} /\ Line(o) = <<>>
  <2>1. o \in Objects /\ o \in Blockers /\ None \notin Threads /\ o \notin Queues
    BY Apart
  <2>2. queue[o] = <<>> /\ owner[o] = None /\ mask[o] = {}
    BY <2>1 DEF Init, ThreadsInit
  <2>3. Line(o) = <<>>
    BY <1>2, <2>1, <2>2, LineExact
  <2>4. CASE o \in Mutexes
    BY <1>1, <2>1, <2>2, <2>3, <2>4, HoldersByFields
  <2>5. CASE o \in Mrsws
    <3>1. count[o] = 0
      BY <2>5 DEF Init
    <3> QED
      BY <1>1, <2>2, <2>3, <2>5, <3>1, HoldersByFields
  <2> QED
    BY <2>4, <2>5, Apart
<1> QED
  BY <1>3 DEF L!Init

(* Mutexes and reader-writer locks are the fair locks of FairLocks: whoever *)
(* has one, through nested claims and the hand-over of ownership before the *)
(* new owner runs, has it alone or as one of several readers; those who    *)
(* cannot be served are served in the order of arrival, and none of them   *)
(* waits for a lock that is free (mutex.c, mrsw_lock.c).                   *)
THEOREM LocksFair == Spec => ImplementsFairLocks
<1>1. Init => L!Init
  BY LocksAtRest
<1>2. ObjectsInv /\ [Next]_vars => [L!Next]_(L!vars)
  <2>1. ASSUME ObjectsInv, UNCHANGED vars
        PROVE  UNCHANGED L!vars
    <3>1. WaitInv /\ UNCHANGED <<waitVars, ownVars, fieldVars, call, reads, writes>>
      BY <2>1, InvParts DEF vars, threadVars
    <3> QED
      BY <2>1, <3>1, PriorityStep, Apart, ElsewhereSeen
  <2> QED
    BY <2>1, LocksSeen
<1> QED
  BY <1>1, <1>2, LocksExact, PTL DEF Spec, ImplementsFairLocks, L!Spec

-----------------------------------------------------------------------------
(* Semaphores as their callers see them.                                   *)

LEMMA PermitState ==
    /\ WaitInv => \A s \in Semaphores : /\ Waiting(s) = ToSet(queue[s])
                                        /\ Given(s) = Waiters(s) \ ToSet(queue[s])
                                        /\ ToSet(queue[s]) \subseteq Waiters(s)
    /\ WaitInv' => \A s \in Semaphores : /\ Waiting(s)' = ToSet(queue'[s])
                                         /\ Given(s)' = Waiters(s)' \ ToSet(queue'[s])
<1>1. ASSUME WaitInv, NEW s \in Semaphores
      PROVE  /\ Waiting(s) = ToSet(queue[s])
             /\ Given(s) = Waiters(s) \ ToSet(queue[s])
             /\ ToSet(queue[s]) \subseteq Waiters(s)
  <2>1. s \in Objects /\ s # None
    BY Apart
  <2>2. ToSet(queue[s]) = {t \in Threads : wqp[t] = s}
    BY <1>1, <2>1 DEF WaitInv, QueueExact
  <2>3. ASSUME NEW t \in Threads, wqp[t] = s
        PROVE  t \in Waiters(s)
    <3>1. call[t].obj = s
      BY <1>1, <2>1, <2>3 DEF WaitInv, Linked
    <3> QED
      BY <1>1, <2>1, <3>1, ModeOf DEF Waiters
  <2>4. ASSUME NEW t \in Waiters(s)
        PROVE  t \in Threads /\ wqp[t] \in {None, s}
    BY <1>1 DEF WaitInv, Linked, Waiters
  <2> QED
    BY <2>1, <2>2, <2>3, <2>4 DEF Waiting, Given
<1>2. WaitInv => \A s \in Semaphores : /\ Waiting(s) = ToSet(queue[s])
                                       /\ Given(s) = Waiters(s) \ ToSet(queue[s])
                                       /\ ToSet(queue[s]) \subseteq Waiters(s)
  BY <1>1
<1>3. (WaitInv => \A s \in Semaphores : /\ Waiting(s) = ToSet(queue[s])
                                        /\ Given(s) = Waiters(s) \ ToSet(queue[s])
                                        /\ ToSet(queue[s]) \subseteq Waiters(s))'
  BY <1>2, PTL
<1> QED
  BY <1>2, <1>3

LEMMA PermitsSame ==
    ASSUME WaitInv, WaitInv', NEW s \in Semaphores, Untouched(s)
    PROVE  /\ count'[s] = count[s] /\ Waiting(s)' = Waiting(s) /\ Given(s)' = Given(s)
           /\ Late(s)' = Late(s)
<1>1. Waiters(s)' = Waiters(s) /\ Late(s)' = Late(s)
  BY DEF Untouched, Bystanders, Waiters, Late
<1> QED
  BY <1>1, PermitState DEF Untouched

(* A step at semaphore s, in terms of Permits. *)
LEMMA PermitsAt ==
    ASSUME WaitInv, WaitInv', NEW s \in Semaphores, \A p \in Objects \ {s} : Untouched(p)
    PROVE  /\ [p \in Semaphores |-> count'[p]] = [[p \in Semaphores |-> count[p]] EXCEPT ![s] = count'[s]]
           /\ [p \in Semaphores |-> Waiting(p)'] = [[p \in Semaphores |-> Waiting(p)] EXCEPT ![s] = Waiting(s)']
           /\ [p \in Semaphores |-> Given(p)'] = [[p \in Semaphores |-> Given(p)] EXCEPT ![s] = Given(s)']
           /\ [p \in Semaphores |-> Late(p)'] = [[p \in Semaphores |-> Late(p)] EXCEPT ![s] = Late(s)']
           /\ count'[s] = count[s] => UNCHANGED [p \in Semaphores |-> count[p]]
           /\ Waiting(s)' = Waiting(s) => UNCHANGED [p \in Semaphores |-> Waiting(p)]
           /\ Given(s)' = Given(s) => UNCHANGED [p \in Semaphores |-> Given(p)]
           /\ Late(s)' = Late(s) => UNCHANGED [p \in Semaphores |-> Late(p)]
<1>1. \A p \in Semaphores \ {s} : /\ count'[p] = count[p] /\ Late(p)' = Late(p)
                                  /\ Waiting(p)' = Waiting(p) /\ Given(p)' = Given(p)
  BY Apart, PermitsSame
<1> QED
  BY <1>1

LEMMA PermitsElsewhere ==
    ASSUME WaitInv, WaitInv', \A s \in Semaphores : Untouched(s)
    PROVE  /\ [s \in Semaphores |-> count'[s]] = [s \in Semaphores |-> count[s]]
           /\ [s \in Semaphores |-> Waiting(s)'] = [s \in Semaphores |-> Waiting(s)]
           /\ [s \in Semaphores |-> Given(s)'] = [s \in Semaphores |-> Given(s)]
           /\ [s \in Semaphores |-> Late(s)'] = [s \in Semaphores |-> Late(s)]
BY PermitsSame

LEMMA ReleaseSeen ==
    ASSUME ObjectsInv, NEW s \in Semaphores, semaphore_release(s)
    PROVE  P!Next
<1>1. WaitInv /\ WaitInv' /\ \A p \in Objects \ {s} : Untouched(p)
  BY InvParts, SemaphoreRelease
<1>2. s \in Objects /\ queue[s] \in Seq(Threads) /\ NoDuplicates(queue[s])
  BY SemaphoreParts
<1>3. /\ outcome' = [thread |-> Quiet.thread, semaphore |-> s, ok |-> TRUE]
      /\ Waiters(s)' = Waiters(s) /\ Late(s)' = Late(s)
  <2>1. outcome' = [thread |-> None, semaphore |-> s, ok |-> TRUE]
    BY DEF semaphore_release, Outcome
  <2>2. Quiet.thread = None
    BY DEF Quiet
  <2>3. Waiters(s)' = Waiters(s) /\ Late(s)' = Late(s)
    BY DEF semaphore_release, Waiters, Late
  <2> QED
    BY <2>1, <2>2, <2>3
<1>4. CASE queue[s] # <<>> /\ wakeup_thread_default(Head(queue[s]), s) /\ UNCHANGED count
  <2> DEFINE t == Head(queue[s])
  <2>1. t \in ToSet(queue[s])
    BY <1>1, <1>2, <1>4, FirstWaits
  <2>2. queue'[s] = Without(queue[s], t)
    BY <1>1, <1>2, <1>4 DEF wakeup_thread_default, Unlink, WaitInv, WaitTypes
  <2>3. ToSet(Without(queue[s], t)) = ToSet(queue[s]) \ {t}
    BY <1>2, <2>1, WithoutExact
  <2> HIDE DEF t
  <2>4. Waiting(s)' = Waiting(s) \ {t} /\ Given(s)' = Given(s) \cup {t} /\ t \in Waiting(s)
    BY <1>1, <1>3, <2>1, <2>2, <2>3, PermitState
  <2>5. UNCHANGED [p \in Semaphores |-> count[p]] /\ UNCHANGED [p \in Semaphores |-> Late(p)]
    <3>1. UNCHANGED [p \in Semaphores |-> count[p]]
      BY <1>4
    <3>2. UNCHANGED [p \in Semaphores |-> Late(p)]
      BY <1>1, <1>3, <2>4, PermitsAt
    <3> QED
      BY <3>1, <3>2
  <2>6. /\ [p \in Semaphores |-> Waiting(p)'] = [[p \in Semaphores |-> Waiting(p)] EXCEPT ![s] = Waiting(s) \ {t}]
        /\ [p \in Semaphores |-> Given(p)'] = [[p \in Semaphores |-> Given(p)] EXCEPT ![s] = Given(s) \cup {t}]
    BY <1>1, <1>3, <2>4, PermitsAt
  <2>7. P!Release(s)
    BY <1>3, <2>4, <2>5, <2>6 DEF P!Release
  <2> QED
    BY <2>7 DEF P!Next
<1>5. CASE /\ queue[s] = <<>> /\ UNCHANGED threadVars
           /\ SetCount(s, IF count[s] < MaxCount[s] THEN count[s] + 1 ELSE count[s])
  <2>1. queue'[s] = queue[s]
    BY <1>5 DEF threadVars, waitVars
  <2>2. Waiting(s)' = Waiting(s) /\ Given(s)' = Given(s) /\ Waiting(s) = {}
    <3>1. ToSet(queue[s]) = {}
      BY <1>5 DEF ToSet
    <3> QED
      BY <1>1, <1>3, <2>1, <3>1, PermitState
  <2>3. count'[s] = IF count[s] < MaxCount[s] THEN count[s] + 1 ELSE count[s]
    BY <1>5, SemaphoreParts DEF SetCount, LockTypes
  <2>4. /\ [p \in Semaphores |-> count'[p]] = [[p \in Semaphores |-> count[p]] EXCEPT ![s] = count'[s]]
        /\ UNCHANGED [p \in Semaphores |-> Waiting(p)] /\ UNCHANGED [p \in Semaphores |-> Given(p)]
        /\ UNCHANGED [p \in Semaphores |-> Late(p)]
    BY <1>1, <1>3, <2>2, PermitsAt
  <2>5. P!Release(s)
    BY <1>3, <2>2, <2>3, <2>4 DEF P!Release
  <2> QED
    BY <2>5 DEF P!Next
<1> QED
  BY <1>4, <1>5 DEF semaphore_release

LEMMA WaitSeen ==
    ASSUME ObjectsInv, NEW t \in Threads, NEW s \in Semaphores, NEW timeout,
           semaphore_wait(t, s, timeout)
    PROVE  P!Next
<1>1. WaitInv /\ WaitInv' /\ \A p \in Objects \ {s} : Untouched(p)
  BY InvParts, SemaphoreWait
<1>2. /\ s \in Objects /\ queue[s] \in Seq(Threads) /\ NoDuplicates(queue[s]) /\ count[s] \in Nat
      /\ s \notin Blockers
  BY SemaphoreParts
<1>3. CanCall(t)
  BY DEF semaphore_wait
<1>4. ASSUME UNCHANGED <<threadVars, call>>
      PROVE  Waiting(s)' = Waiting(s) /\ Given(s)' = Given(s) /\ Late(s)' = Late(s)
  <2>1. queue'[s] = queue[s] /\ Waiters(s)' = Waiters(s) /\ Late(s)' = Late(s)
    BY <1>4 DEF threadVars, waitVars, Waiters, Late
  <2> QED
    BY <1>1, <2>1, PermitState
<1>5. CASE count[s] > 0 /\ SetCount(s, count[s] - 1) /\ Outcome(t, s, TRUE) /\ UNCHANGED <<threadVars, call>>
  <2>1. count'[s] = count[s] - 1
    BY <1>5, SemaphoreParts DEF SetCount, LockTypes
  <2>2. /\ [p \in Semaphores |-> count'[p]] = [[p \in Semaphores |-> count[p]] EXCEPT ![s] = count[s] - 1]
        /\ UNCHANGED [p \in Semaphores |-> Waiting(p)] /\ UNCHANGED [p \in Semaphores |-> Given(p)]
        /\ UNCHANGED [p \in Semaphores |-> Late(p)]
    <3>1. Waiting(s)' = Waiting(s) /\ Given(s)' = Given(s) /\ Late(s)' = Late(s)
      BY <1>4, <1>5
    <3> QED
      BY <1>1, <2>1, <3>1, PermitsAt
  <2>3. P!Take(t, s)
    BY <1>5, <2>2 DEF P!Take, P!Returns, Outcome
  <2> QED
    BY <2>3 DEF P!Next
<1>6. CASE count[s] <= 0 /\ Outcome(t, s, FALSE) /\ UNCHANGED <<threadVars, count, call>>
  <2>1. /\ UNCHANGED [p \in Semaphores |-> count[p]]
        /\ UNCHANGED [p \in Semaphores |-> Waiting(p)] /\ UNCHANGED [p \in Semaphores |-> Given(p)]
        /\ UNCHANGED [p \in Semaphores |-> Late(p)]
    BY <1>1, <1>4, <1>6, PermitsAt
  <2>2. count[s] = 0
    BY <1>2, <1>6
  <2>3. P!FindNone(t, s)
    BY <1>6, <2>1, <2>2 DEF P!FindNone, P!Returns, Outcome
  <2> QED
    BY <2>3 DEF P!Next
<1>7. CASE /\ count[s] <= 0 /\ block_thread(t, s, IF timeout = "some" THEN "blocked_w_tmo" ELSE "blocked")
           /\ call' = [call EXCEPT ![t] = [obj |-> s, mode |-> "wait"]]
           /\ outcome' = Quiet /\ UNCHANGED <<count, retval>>
  <2>1. t \notin ToSet(queue[s]) /\ t \notin Waiters(s)
    BY <1>1, <1>2, <1>3, Idle, Apart DEF CanCall, Runs, Waiters, NoCall
  <2>2. queue'[s] = Append(queue[s], t)
    BY <1>1, <1>2, <1>7 DEF block_thread, WaitInv, WaitTypes
  <2>3. ToSet(queue'[s]) = ToSet(queue[s]) \cup {t}
    BY <1>2, <2>1, <2>2, Appended
  <2>4. Waiters(s)' = Waiters(s) \cup {t} /\ Late(s)' = Late(s)
    <3>1. /\ call'[t] = [obj |-> s, mode |-> "wait"] /\ call[t] = NoCall
          /\ \A u \in Threads \ {t} : call'[u] = call[u]
      BY <1>1, <1>3, <1>7 DEF CanCall, WaitInv, WaitTypes
    <3>2. Waiters(s)' = Waiters(s) \cup {t}
      BY <3>1 DEF Waiters
    <3> QED
      BY <3>1, <3>2 DEF Late, Waiters, NoCall
  <2>5. Waiting(s)' = Waiting(s) \cup {t} /\ Given(s)' = Given(s)
    <3>1. /\ Waiting(s)' = ToSet(queue'[s]) /\ Waiting(s) = ToSet(queue[s])
          /\ Given(s)' = Waiters(s)' \ ToSet(queue'[s]) /\ Given(s) = Waiters(s) \ ToSet(queue[s])
      BY <1>1, PermitState
    <3>2. (Waiters(s) \cup {t}) \ (ToSet(queue[s]) \cup {t}) = Waiters(s) \ ToSet(queue[s])
      BY <2>1
    <3> QED
      BY <2>3, <2>4, <3>1, <3>2
  <2>6. /\ UNCHANGED [p \in Semaphores |-> count[p]] /\ UNCHANGED [p \in Semaphores |-> Given(p)]
        /\ UNCHANGED [p \in Semaphores |-> Late(p)]
        /\ [p \in Semaphores |-> Waiting(p)'] = [[p \in Semaphores |-> Waiting(p)] EXCEPT ![s] = Waiting(s) \cup {t}]
    BY <1>1, <1>7, <2>4, <2>5, PermitsAt
  <2>7. count[s] = 0
    BY <1>2, <1>7
  <2>8. P!Join(t, s)
    BY <1>7, <2>6, <2>7 DEF P!Join
  <2> QED
    BY <2>8 DEF P!Next
<1> QED
  BY <1>5, <1>6, <1>7 DEF semaphore_wait

LEMMA WaitReturnSeen ==
    ASSUME ObjectsInv, NEW t \in Threads, WaitReturn(t)
    PROVE  P!Next
<1>1. PICK s : s = call[t].obj
  OBVIOUS
<1>2. WaitInv /\ WaitInv' /\ s \in Semaphores /\ \A p \in Objects \ {s} : Untouched(p)
  BY <1>1, InvParts, SemaphoreWaitReturn
<1>3. s \in Objects /\ s # None /\ call[t].mode = "wait"
  BY <1>2, Apart DEF WaitReturn
<1>4. call[t] = [obj |-> s, mode |-> "wait"] /\ wqp[t] \in {None, s}
  BY <1>1, <1>3, WaiterParts
<1>5. ToSet(queue[s]) = {u \in Threads : wqp[u] = s}
  BY <1>2, <1>3 DEF WaitInv, QueueExact
<1>6. queue'[s] = queue[s] /\ count' = count
  BY DEF WaitReturn, threadVars, waitVars, fieldVars
<1>7. t \in Waiters(s) /\ t \notin Late(s)
  BY <1>4 DEF Waiters, Late
<1>8. CASE wqp[t] = None /\ call' = [call EXCEPT ![t] = NoCall] /\ Outcome(t, s, TRUE)
  <2>1. call'[t] = NoCall /\ \A u \in Threads \ {t} : call'[u] = call[u]
    BY <1>2, <1>8 DEF WaitInv, WaitTypes
  <2>2. Waiters(s)' = Waiters(s) \ {t}
    BY <1>3, <2>1 DEF Waiters, NoCall
  <2>3. Late(s)' = Late(s)
    BY <1>4, <1>7, <2>1 DEF Late, Waiters, NoCall
  <2>4. t \notin ToSet(queue[s])
    BY <1>3, <1>5, <1>8
  <2>5. Waiting(s)' = Waiting(s) /\ Given(s)' = Given(s) \ {t} /\ t \in Given(s)
    BY <1>2, <1>6, <1>7, <2>2, <2>4, PermitState
  <2>6. /\ UNCHANGED [p \in Semaphores |-> count[p]] /\ UNCHANGED [p \in Semaphores |-> Waiting(p)]
        /\ UNCHANGED [p \in Semaphores |-> Late(p)]
        /\ [p \in Semaphores |-> Given(p)'] = [[p \in Semaphores |-> Given(p)] EXCEPT ![s] = Given(s) \ {t}]
    BY <1>2, <1>6, <2>3, <2>5, PermitsAt
  <2>7. P!Succeed(t, s)
    BY <1>2, <1>7, <1>8, <2>5, <2>6 DEF P!Succeed, P!Returns, Outcome
  <2> QED
    BY <1>2, <2>7 DEF P!Next
<1>9. CASE /\ wqp[t] # None /\ call' = [call EXCEPT ![t] = [obj |-> s, mode |-> "late"]]
           /\ outcome' = Quiet
  <2>1. /\ call'[t] = [obj |-> s, mode |-> "late"]
        /\ \A u \in Threads \ {t} : call'[u] = call[u]
    BY <1>2, <1>9 DEF WaitInv, WaitTypes
  <2>2. Waiters(s)' = Waiters(s)
    BY <1>4, <2>1 DEF Waiters
  <2>3. Late(s)' = Late(s) \cup {t}
    BY <1>4, <1>7, <2>1 DEF Late, Waiters, NoCall
  <2>4. Waiting(s)' = Waiting(s) /\ Given(s)' = Given(s) /\ t \in Waiting(s)
    BY <1>2, <1>4, <1>5, <1>6, <1>9, <2>2, PermitState
  <2>5. /\ UNCHANGED [p \in Semaphores |-> count[p]] /\ UNCHANGED [p \in Semaphores |-> Waiting(p)]
        /\ UNCHANGED [p \in Semaphores |-> Given(p)]
        /\ [p \in Semaphores |-> Late(p)'] = [[p \in Semaphores |-> Late(p)] EXCEPT ![s] = Late(s) \cup {t}]
    BY <1>2, <1>6, <2>3, <2>4, PermitsAt
  <2>6. P!Look(t, s)
    BY <1>2, <1>7, <1>9, <2>4, <2>5 DEF P!Look
  <2> QED
    BY <1>2, <2>6 DEF P!Next
<1> QED
  BY <1>1, <1>8, <1>9 DEF WaitReturn

LEMMA WaitExpiredSeen ==
    ASSUME ObjectsInv, NEW t \in Threads, WaitExpired(t)
    PROVE  P!Next
<1>1. PICK s : s = call[t].obj
  OBVIOUS
<1>2. /\ WaitInv /\ WaitInv' /\ s \in Semaphores /\ \A p \in Objects \ {s} : Untouched(p)
      /\ count' = count
  BY <1>1, InvParts, SemaphoreWaitExpired
<1>3. /\ s \in Objects /\ queue[s] \in Seq(Threads) /\ NoDuplicates(queue[s]) /\ s # None
      /\ call[t].mode = "late"
  BY <1>2, SemaphoreParts, Apart DEF WaitExpired
<1>4. /\ call[t] = [obj |-> s, mode |-> "late"] /\ wqp[t] \in {None, s}
      /\ wqp[t] # None => count[s] = 0
  BY <1>1, <1>3, WaiterParts
<1>5. ToSet(queue[s]) = {u \in Threads : wqp[u] = s}
  BY <1>2, <1>3 DEF WaitInv, QueueExact
<1>6. /\ call' = [call EXCEPT ![t] = NoCall]
      /\ queue' = [queue EXCEPT ![s] = IF wqp[t] # None THEN Without(@, t) ELSE @]
      /\ outcome' = [thread |-> t, semaphore |-> s, ok |-> wqp[t] # None /\ count[s] > 0]
  BY <1>1 DEF WaitExpired, Outcome
<1>7. outcome' = [thread |-> t, semaphore |-> s, ok |-> FALSE]
  <2>1. (wqp[t] # None /\ count[s] > 0) = FALSE
    BY <1>4
  <2> QED
    BY <1>6, <2>1
<1>8. call'[t] = NoCall /\ \A u \in Threads \ {t} : call'[u] = call[u]
  BY <1>2, <1>6 DEF WaitInv, WaitTypes
<1>9. t \in Waiters(s) /\ Waiters(s)' = Waiters(s) \ {t}
  BY <1>3, <1>4, <1>8 DEF Waiters, NoCall
<1>10. t \in Late(s) /\ Late(s)' = Late(s) \ {t}
  BY <1>4, <1>8 DEF Late, Waiters, NoCall
<1>11. /\ Waiting(s)' = ToSet(queue'[s]) /\ Waiting(s) = ToSet(queue[s])
       /\ Given(s)' = Waiters(s)' \ ToSet(queue'[s]) /\ Given(s) = Waiters(s) \ ToSet(queue[s])
  BY <1>2, PermitState
<1>12. CASE wqp[t] = None
  <2>1. t \notin ToSet(queue[s]) /\ queue'[s] = queue[s]
    BY <1>2, <1>3, <1>5, <1>6, <1>12 DEF WaitInv, WaitTypes
  <2>2. Waiting(s)' = Waiting(s) /\ Given(s)' = Given(s) \ {t} /\ t \in Given(s)
    BY <1>9, <1>11, <2>1
  <2>3. /\ UNCHANGED [p \in Semaphores |-> count[p]] /\ UNCHANGED [p \in Semaphores |-> Waiting(p)]
        /\ [p \in Semaphores |-> Given(p)'] = [[p \in Semaphores |-> Given(p)] EXCEPT ![s] = Given(s) \ {t}]
        /\ [p \in Semaphores |-> Late(p)'] = [[p \in Semaphores |-> Late(p)] EXCEPT ![s] = Late(s) \ {t}]
    <3>1. UNCHANGED [p \in Semaphores |-> count[p]]
      BY <1>2
    <3>2. UNCHANGED [p \in Semaphores |-> Waiting(p)]
      BY <1>2, <2>2, PermitsAt
    <3>3. [p \in Semaphores |-> Given(p)'] = [[p \in Semaphores |-> Given(p)] EXCEPT ![s] = Given(s) \ {t}]
      BY <1>2, <2>2, PermitsAt
    <3>4. [p \in Semaphores |-> Late(p)'] = [[p \in Semaphores |-> Late(p)] EXCEPT ![s] = Late(s) \ {t}]
      BY <1>2, <1>10, PermitsAt
    <3> QED
      BY <3>1, <3>2, <3>3, <3>4
  <2>4. P!Lose(t, s)
    BY <1>2, <1>7, <1>10, <2>2, <2>3 DEF P!Lose, P!Returns
  <2> QED
    BY <1>2, <2>4 DEF P!Next
<1>13. CASE wqp[t] # None
  <2>1. wqp[t] = s /\ count[s] = 0 /\ t \in ToSet(queue[s])
    BY <1>4, <1>5, <1>13
  <2>2. queue'[s] = Without(queue[s], t)
    BY <1>2, <1>3, <1>6, <1>13 DEF WaitInv, WaitTypes
  <2>3. ToSet(queue'[s]) = ToSet(queue[s]) \ {t}
    BY <1>3, <2>1, <2>2, WithoutExact
  <2>4. Waiting(s)' = Waiting(s) \ {t} /\ Given(s)' = Given(s) /\ t \in Waiting(s)
    <3>1. (Waiters(s) \ {t}) \ (ToSet(queue[s]) \ {t}) = Waiters(s) \ ToSet(queue[s])
      BY <2>1
    <3> QED
      BY <1>9, <1>11, <2>1, <2>3, <3>1
  <2>5. /\ UNCHANGED [p \in Semaphores |-> count[p]] /\ UNCHANGED [p \in Semaphores |-> Given(p)]
        /\ [p \in Semaphores |-> Waiting(p)'] = [[p \in Semaphores |-> Waiting(p)] EXCEPT ![s] = Waiting(s) \ {t}]
        /\ [p \in Semaphores |-> Late(p)'] = [[p \in Semaphores |-> Late(p)] EXCEPT ![s] = Late(s) \ {t}]
    <3>1. UNCHANGED [p \in Semaphores |-> count[p]]
      BY <1>2
    <3>2. UNCHANGED [p \in Semaphores |-> Given(p)]
      BY <1>2, <2>4, PermitsAt
    <3>3. [p \in Semaphores |-> Waiting(p)'] = [[p \in Semaphores |-> Waiting(p)] EXCEPT ![s] = Waiting(s) \ {t}]
      BY <1>2, <2>4, PermitsAt
    <3>4. [p \in Semaphores |-> Late(p)'] = [[p \in Semaphores |-> Late(p)] EXCEPT ![s] = Late(s) \ {t}]
      BY <1>2, <1>10, PermitsAt
    <3> QED
      BY <3>1, <3>2, <3>3, <3>4
  <2>6. P!GiveUp(t, s)
    BY <1>2, <1>7, <1>10, <2>1, <2>4, <2>5 DEF P!GiveUp, P!Returns
  <2> QED
    BY <1>2, <2>6 DEF P!Next
<1> QED
  BY <1>12, <1>13

(* The steps that are no business of the semaphores. *)
LEMMA OthersStay ==
    ASSUME ObjectsInv, OtherStep
    PROVE  \A s \in Semaphores : Untouched(s)
<1>1. ASSUME NEW o \in Blockers, \A p \in Objects \ {o} : Untouched(p)
      PROVE  \A s \in Semaphores : Untouched(s)
  BY <1>1, Apart
<1>2. ASSUME UNCHANGED <<waitVars, ownVars, fieldVars, call, reads, writes>>
      PROVE  \A s \in Semaphores : Untouched(s)
  BY <1>2, PriorityStep, Apart
<1>3. CASE Inheritance
  BY <1>2, <1>3 DEF Inheritance, inherit_priority
<1>4. ASSUME NEW t \in Threads, Return(t)
      PROVE  \A s \in Semaphores : Untouched(s)
  <2>1. PICK o, m : o = call[t].obj /\ m = call[t].mode
    OBVIOUS
  <2> QED
    BY <1>1, <1>4, <2>1, Returns
<1>5. ASSUME NEW t \in Threads, Expire(t)
      PROVE  \A s \in Semaphores : Untouched(s)
  BY <1>5, Expires, Apart
<1>6. ASSUME NEW t \in Threads, NEW p, SetPriority(t, p)
      PROVE  \A s \in Semaphores : Untouched(s)
  BY <1>2, <1>6 DEF SetPriority, thread_set_priority
<1>7. ASSUME NEW t \in Threads, NEW m \in Mutexes, mutex_lock(t, m) \/ mutex_unlock(t, m)
      PROVE  \A s \in Semaphores : Untouched(s)
  BY <1>1, <1>7, MutexLock, MutexUnlock, Apart
<1>8. ASSUME NEW t \in Threads, NEW l \in Mrsws,
             \/ mrsw_read_acquire(t, l) \/ mrsw_read_release(t, l)
             \/ mrsw_write_acquire(t, l) \/ mrsw_write_release(t, l)
      PROVE  \A s \in Semaphores : Untouched(s)
  BY <1>1, <1>8, MrswReadAcquire, MrswReadRelease, MrswWriteAcquire, MrswWriteRelease, Apart
<1>9. ASSUME NEW t \in Threads, NEW q \in Queues, queue_send(t, q) \/ queue_release_sender(t, q)
      PROVE  \A s \in Semaphores : Untouched(s)
  BY <1>1, <1>9, QueueSend, QueueReleaseSender, Apart
<1> QED
  BY <1>3, <1>4, <1>5, <1>6, <1>7, <1>8, <1>9 DEF OtherStep

LEMMA PermitsSeen ==
    ASSUME ObjectsInv, [Next]_vars
    PROVE  P!Next \/ UNCHANGED P!vars
<1>1. WaitInv /\ WaitInv'
  BY ObjectsKept, InvParts
<1>2. CASE UNCHANGED vars
  <2>1. \A s \in Semaphores : Untouched(s)
    BY <1>2, PriorityStep, Apart DEF vars, threadVars
  <2> QED
    BY <1>1, <1>2, <2>1, PermitsElsewhere DEF P!vars, vars
<1>3. CASE OtherStep /\ outcome' = Quiet
  <2>1. P!Elsewhere
    BY <1>1, <1>3, OthersStay, PermitsElsewhere DEF P!Elsewhere
  <2> QED
    BY <2>1 DEF P!Next
<1>4. CASE SemaphoreStep
  BY <1>4, ReleaseSeen, WaitSeen, WaitReturnSeen, WaitExpiredSeen DEF SemaphoreStep
<1> QED
  BY <1>2, <1>3, <1>4 DEF Next

LEMMA PermitsAtRest ==
    ASSUME Init
    PROVE  P!Init
<1>1. WaitInv
  BY Began, InvParts
<1>2. ASSUME NEW s \in Semaphores
      PROVE  count[s] = 0 /\ Waiting(s) = {} /\ Given(s) = {} /\ Late(s) = {}
  <2>1. count[s] = 0 /\ queue[s] = <<>> /\ \A t \in Threads : call[t] = NoCall
    BY Apart DEF Init, ThreadsInit
  <2>2. Waiters(s) = {}
    BY <2>1, Apart DEF Waiters, NoCall
  <2> QED
    BY <1>1, <2>1, <2>2, PermitState DEF ToSet, Late
<1> QED
  BY <1>2 DEF P!Init, Init

(* A semaphore gives each permit to one wait or keeps it, in whatever      *)
(* order releases, timeouts and the two steps at the end of a wait come:   *)
(* no permit is given twice, a wait succeeds only with one of its own, and *)
(* nobody waits while there is one to take.  A permit is lost in one way   *)
(* only: an interrupt gives it to a wait whose time is up between its look *)
(* at its queue pointer (semaphore.c:72) and disable_irq (75).             *)
THEOREM PermitsKept == Spec => ImplementsPermits
<1>1. Init => P!Init
  BY PermitsAtRest
<1>2. ObjectsInv /\ [Next]_vars => [P!Next]_(P!vars)
  BY PermitsSeen
<1> QED
  BY <1>1, <1>2, LocksExact, PTL DEF Spec, ImplementsPermits, P!Spec

=============================================================================
