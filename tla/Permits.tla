------------------------------ MODULE Permits ------------------------------
(***************************************************************************)
(* What a semaphore promises: a permit is given to one waiter or kept, up  *)
(* to a maximum; a wait succeeds only if it was given one, and fails only  *)
(* if there was none to give when it looked for the last time; nobody      *)
(* waits while there is one.  A permit that a waiter is given after it has *)
(* looked for the last time is lost: this is the only way to lose one.     *)
(***************************************************************************)
EXTENDS Integers

CONSTANTS Semaphores, Threads, MaxCount, Quiet

VARIABLES
    permits,   \* semaphore -> how many there are
    waiting,   \* semaphore -> the threads that wait
    given,     \* semaphore -> those that have been given one and do not know
    late,      \* semaphore -> those that have looked for the last time
    outcome    \* what a wait has just returned, or the release just made

vars == <<permits, waiting, given, late, outcome>>

Init == /\ permits = [s \in Semaphores |-> 0]
        /\ waiting = [s \in Semaphores |-> {}]
        /\ given = [s \in Semaphores |-> {}]
        /\ late = [s \in Semaphores |-> {}]
        /\ outcome = Quiet

Returns(t, s, ok) == outcome' = [thread |-> t, semaphore |-> s, ok |-> ok]

(* Without waiting. *)
Take(t, s) ==
    /\ permits[s] > 0
    /\ permits' = [permits EXCEPT ![s] = @ - 1]
    /\ Returns(t, s, TRUE)
    /\ UNCHANGED <<waiting, given, late>>

FindNone(t, s) ==
    /\ permits[s] = 0
    /\ Returns(t, s, FALSE)
    /\ UNCHANGED <<permits, waiting, given, late>>

Join(t, s) ==
    /\ permits[s] = 0
    /\ waiting' = [waiting EXCEPT ![s] = @ \cup {t}]
    /\ outcome' = Quiet
    /\ UNCHANGED <<permits, given, late>>

Release(s) ==
    /\ UNCHANGED late
    /\ outcome' = [thread |-> Quiet.thread, semaphore |-> s, ok |-> TRUE]
    /\ IF waiting[s] = {}
       THEN /\ permits' = [permits EXCEPT ![s] = IF @ < MaxCount[s] THEN @ + 1 ELSE @]
            /\ UNCHANGED <<waiting, given>>
       ELSE \E t \in waiting[s] :
              /\ waiting' = [waiting EXCEPT ![s] = @ \ {t}]
              /\ given' = [given EXCEPT ![s] = @ \cup {t}]
              /\ UNCHANGED permits

Succeed(t, s) ==
    /\ t \in given[s] \ late[s]
    /\ given' = [given EXCEPT ![s] = @ \ {t}]
    /\ Returns(t, s, TRUE)
    /\ UNCHANGED <<permits, waiting, late>>

(* A waiter looks for the last time; it has not been given one. *)
Look(t, s) ==
    /\ t \in waiting[s] \ late[s]
    /\ late' = [late EXCEPT ![s] = @ \cup {t}]
    /\ outcome' = Quiet
    /\ UNCHANGED <<permits, waiting, given>>

GiveUp(t, s) ==
    /\ t \in waiting[s] \cap late[s]
    /\ permits[s] = 0
    /\ waiting' = [waiting EXCEPT ![s] = @ \ {t}]
    /\ late' = [late EXCEPT ![s] = @ \ {t}]
    /\ Returns(t, s, FALSE)
    /\ UNCHANGED <<permits, given>>

Lose(t, s) ==
    /\ t \in given[s] \cap late[s]
    /\ given' = [given EXCEPT ![s] = @ \ {t}]
    /\ late' = [late EXCEPT ![s] = @ \ {t}]
    /\ Returns(t, s, FALSE)
    /\ UNCHANGED <<permits, waiting>>

Elsewhere == outcome' = Quiet /\ UNCHANGED <<permits, waiting, given, late>>

Next == \/ Elsewhere
        \/ \E s \in Semaphores :
             \/ Release(s)
             \/ \E t \in Threads : \/ Take(t, s) \/ FindNone(t, s) \/ Join(t, s)
                                   \/ Succeed(t, s) \/ Look(t, s)
                                   \/ GiveUp(t, s) \/ Lose(t, s)

Spec == Init /\ [][Next]_vars
=============================================================================
