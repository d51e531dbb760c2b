-------------------------- MODULE MCKernelObjects --------------------------
(* Small instances of KernelObjects for TLC. *)
EXTENDS KernelObjects

CONSTANTS t1, t2, t3, t4, m1, m2, l1, q1, s1

(* t1 owns the queue; the objects are taken in the order queue, mutexes,   *)
(* lock.                                                                   *)
Served == [q \in Queues |-> t1]
Order == [o \in Objects |-> CASE o = q1 -> 1 [] o = m1 -> 2 [] o = m2 -> 3
                              [] o = l1 -> 4 [] OTHER -> 5]
One == [s \in Semaphores |-> 1]

Base3 == [t \in Threads |-> CASE t = t1 -> 3 [] t = t2 -> 3 [] OTHER -> 2]

(* One thread's priority is changed while it runs or waits, as playback    *)
(* does with the codec thread.                                             *)
Boost == [t \in Threads |-> IF t = t2 THEN {1, 3} ELSE {}]

(* Two threads of different priority wait for the owner of m2, the worse   *)
(* of them owning m1, which a third one asks for.                          *)
Base4 == [t \in Threads |-> CASE t = t1 -> 3 [] t = t2 -> 3 [] t = t3 -> 1
                              [] OTHER -> 2]
Never == [t \in Threads |-> {}]

=============================================================================
