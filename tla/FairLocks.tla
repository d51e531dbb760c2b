----------------------------- MODULE FairLocks -----------------------------
(***************************************************************************)
(* What mutexes and reader-writer locks promise: one writer, or any number *)
(* of readers; whoever cannot be served waits in line, and the line is     *)
(* served in the order of arrival, readers that stand together together.   *)
(* Nobody passes the line, and a lock is never free while somebody waits.  *)
(***************************************************************************)
EXTENDS Sequences, FiniteSets, SequencesExt

CONSTANTS Locks, Threads

VARIABLES
    readers, writers, \* lock -> the threads that have it
    line              \* lock -> those that wait, with what they ask for

vars == <<readers, writers, line>>

Init == /\ readers = [o \in Locks |-> {}]
        /\ writers = [o \in Locks |-> {}]
        /\ line = [o \in Locks |-> <<>>]

Free(o) == readers[o] = {} /\ writers[o] = {}

Grant(o, rs, ws, rest) ==
    /\ readers' = [readers EXCEPT ![o] = rs]
    /\ writers' = [writers EXCEPT ![o] = ws]
    /\ line' = [line EXCEPT ![o] = rest]

(* At once when nobody is in line and those who have the lock allow it. *)
Request(t, o, mode) ==
    /\ t \notin readers[o] \cup writers[o]
    /\ \A i \in 1..Len(line[o]) : line[o][i].thread # t
    /\ IF line[o] = <<>> /\ (Free(o) \/ (mode = "read" /\ writers[o] = {}))
       THEN IF mode = "read" THEN Grant(o, readers[o] \cup {t}, {}, <<>>)
            ELSE Grant(o, {}, {t}, <<>>)
       ELSE Grant(o, readers[o], writers[o],
                  Append(line[o], [thread |-> t, mode |-> mode]))

(* The readers at the head of the line, and what is behind them. *)
HeadReaders(o) ==
    {i \in 1..Len(line[o]) : \A j \in 1..i : line[o][j].mode = "read"}

Foremost(o) == {line[o][i].thread : i \in HeadReaders(o)}

Behind(o, n) == SubSeq(line[o], n + 1, Len(line[o]))

Release(t, o) ==
    /\ t \in readers[o] \cup writers[o]
    /\ LET rs == readers[o] \ {t}
           ws == writers[o] \ {t}
       IN IF rs \cup ws # {} \/ line[o] = <<>> THEN Grant(o, rs, ws, line[o])
          ELSE IF Head(line[o]).mode = "write"
               THEN Grant(o, {}, {Head(line[o]).thread}, Behind(o, 1))
               ELSE Grant(o, Foremost(o), {}, Behind(o, Cardinality(HeadReaders(o))))

(* Whatever happens to a lock changes it; asking first keeps TLC fast.     *)
Touched(o) ==
    \/ line'[o] # line[o]
    \/ readers'[o] # readers[o]
    \/ writers'[o] # writers[o]

Next == \E o \in Locks :
            /\ Touched(o)
            /\ \E t \in Threads :
                 \/ Release(t, o)
                 \/ \E mode \in {"read", "write"} : Request(t, o, mode)

Spec == Init /\ [][Next]_vars
=============================================================================
