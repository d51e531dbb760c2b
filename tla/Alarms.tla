------------------------------- MODULE Alarms -------------------------------
(***************************************************************************)
(* What the kernel's timeouts promise: an alarm that is set rings no       *)
(* earlier than its interval and at most MaxLate ticks late, again after   *)
(* every reload, and never once it is cancelled.                           *)
(***************************************************************************)
EXTENDS Integers

CONSTANTS Things, MaxInterval, MaxLate, None

VARIABLES left,       \* thing -> ticks until it is due, 0 or less when it is
          armed,      \* the things that are set
          ringing     \* the one that rings now

vars == <<left, armed, ringing>>

Init == left = [t \in Things |-> 0] /\ armed = {} /\ ringing = None

SetAlarm(t, n) == /\ left' = [left EXCEPT ![t] = n]
                  /\ armed' = armed \cup {t}
                  /\ UNCHANGED ringing

Cancel(t) == /\ left' = [left EXCEPT ![t] = 0]
             /\ armed' = armed \ {t}
             /\ UNCHANGED ringing

Clock == /\ ringing = None
         /\ \A t \in armed : left[t] >= -MaxLate
         /\ left' = [t \in Things |-> IF t \in armed THEN left[t] - 1 ELSE 0]
         /\ UNCHANGED <<armed, ringing>>

Ring(t) == /\ ringing = None
           /\ t \in armed /\ left[t] <= 0
           /\ ringing' = t
           /\ UNCHANGED <<left, armed>>

(* The handler asks for another interval, or for none. *)
RingDone(t) == /\ ringing = t
               /\ ringing' = None
               /\ \/ UNCHANGED <<left, armed>> /\ t \notin armed
                  \/ /\ \E n \in 1..MaxInterval : left' = [left EXCEPT ![t] = n]
                     /\ t \in armed /\ UNCHANGED armed
                  \/ left' = [left EXCEPT ![t] = 0] /\ armed' = armed \ {t}

Next == \/ Clock
        \/ \E t \in Things : \/ Cancel(t) \/ Ring(t) \/ RingDone(t)
                             \/ \E n \in 1..MaxInterval : SetAlarm(t, n)

Spec == Init /\ [][Next]_vars
=============================================================================
