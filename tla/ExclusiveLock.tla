--------------------------- MODULE ExclusiveLock ---------------------------
(***************************************************************************)
(* What every exclusive lock of the kernel promises its callers, whatever  *)
(* it is built from: at most one holder at a time, a holder that keeps the *)
(* lock until it gives it up itself, and a lock that passes either to      *)
(* whoever finds it open or straight from the holder to the next one.      *)
(***************************************************************************)
CONSTANT Competitors  \* the cores, or the threads, that compete for the lock

VARIABLE holders      \* who believes to hold the lock

Init == holders = {}

Acquire(h) == /\ holders = {}
              /\ holders' = {h}

Release(h) == /\ holders = {h}
              /\ holders' = {}

HandOver(h, n) == /\ holders = {h}
                  /\ holders' = {n}

Next == \E h \in Competitors :
            \/ Acquire(h)
            \/ Release(h)
            \/ \E n \in Competitors : HandOver(h, n)

Spec == Init /\ [][Next]_holders
=============================================================================
