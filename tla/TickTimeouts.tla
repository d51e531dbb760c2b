---------------------------- MODULE TickTimeouts ----------------------------
(***************************************************************************)
(* The timer interrupt of the kernel: current_tick, the list of tick tasks *)
(* (kernel/tick.c, call_tick_tasks of tick.h) and the timeouts that one of *)
(* these tasks, timeout_tick, runs (kernel/timeout.c).                     *)
(*                                                                         *)
(* Both lists are arrays without gaps that end with NULL; removing an      *)
(* entry moves the following ones up (firmware/general.c).  The handler    *)
(* walks them by position while the functions it calls add and remove      *)
(* entries, their own included.  So each call of the interrupt handler to  *)
(* a task or to a timeout's callback is a state in which these may be      *)
(* called; threads call them with interrupts disabled, in between ticks.   *)
(* An array is the sequence of its entries before NULL: every slot after   *)
(* the first NULL is NULL, so a walk that is past the end ends.            *)
(***************************************************************************)
EXTENDS Integers, Sequences, FiniteSets, SequencesExt

CONSTANTS
    Timeouts,      \* the struct timeout objects
    Tasks,         \* the tick tasks other than timeout_tick
    TimeoutTick,   \* timeout_tick
    MaxTimeouts,   \* MAX_NUM_TIMEOUTS
    MaxTasks,      \* MAX_NUM_TICK_TASKS
    Modulus,       \* 2^32 in the code: the tick counter wraps
    MaxInterval,   \* bound: ticks of a timeout_register
    None

(* tick_add_task panics when there is no room: the tasks of the build fit. *)
ASSUME TickAssumption ==
    /\ IsFiniteSet(Tasks) /\ Cardinality(Tasks) < MaxTasks
    /\ TimeoutTick \notin Tasks
    /\ None \notin Timeouts
    /\ MaxTimeouts \in Nat \ {0}
    /\ MaxTasks \in Nat \ {0}
    /\ MaxInterval \in Nat \ {0}
    /\ Modulus \in Nat \ {0} /\ Modulus % 2 = 0
    /\ MaxInterval < Modulus \div 2
    /\ MaxTimeouts + MaxTasks <= Modulus \div 2

VARIABLES
    current_tick,
    tick_funcs,    \* the tick tasks
    tmo_list,      \* the active timeouts
    expires,       \* timeout -> its expires field
    pc,            \* where the interrupt handler is, or "thread"
    fnPos,         \* the position it has reached in tick_funcs
    tmoPos,        \* the position it has reached in tmo_list
    curr           \* the timeout whose callback runs

listVars == <<tick_funcs, tmo_list, expires>>
vars == <<current_tick, listVars, pc, fnPos, tmoPos, curr>>

-----------------------------------------------------------------------------
(* Lists *)

Position(list, x) == CHOOSE i \in 1..Len(list) : list[i] = x

Without(list, x) ==
    IF Contains(list, x) THEN RemoveAt(list, Position(list, x)) ELSE list

With(list, x, max) ==
    IF Contains(list, x) \/ Len(list) = max THEN list ELSE Append(list, x)

(* A difference of ticks as a signed number of the counter's width, and    *)
(* TIME_BEFORE of system.h.                                                *)
Signed(d) == LET u == d % Modulus IN IF u < Modulus \div 2 THEN u ELSE u - Modulus

(* Mutant: compared as they are. *)
TimeBeforeUnwrapped(a, b) == a < b

TimeBefore(a, b) == Signed(a - b) < 0

-----------------------------------------------------------------------------
Init == /\ current_tick = 0
        /\ tick_funcs = <<>>
        /\ tmo_list = <<>>
        /\ expires = [t \in Timeouts |-> 0]
        /\ pc = "thread"
        /\ fnPos = 0 /\ tmoPos = 0 /\ curr = None

(* Mutant: the tick task stays when the last timeout goes. *)
DeactivateKeepingTask(t) ==
    tmo_list' = Without(tmo_list, t) /\ UNCHANGED tick_funcs

(* What timeout_cancel does to the lists; it leaves them alone when the    *)
(* timeout is not active.                                                  *)
Deactivate(t) ==
    /\ tmo_list' = Without(tmo_list, t)
    /\ tick_funcs' = IF Contains(tmo_list, t) /\ Len(tmo_list) = 1
                     THEN Without(tick_funcs, TimeoutTick) ELSE tick_funcs

timeout_cancel(t) ==
    /\ Deactivate(t)
    /\ UNCHANGED <<current_tick, expires, pc, fnPos, tmoPos, curr>>

(* A timeout that finds the list full is not registered, and nobody is told. *)
timeout_register(t, ticks) ==
    /\ tmo_list' = With(tmo_list, t, MaxTimeouts)
    /\ tick_funcs' = IF tmo_list = <<>> THEN With(tick_funcs, TimeoutTick, MaxTasks)
                     ELSE tick_funcs
    /\ expires' = IF Contains(tmo_list', t)
                  THEN [expires EXCEPT ![t] = (current_tick + ticks) % Modulus]
                  ELSE expires
    /\ UNCHANGED <<current_tick, pc, fnPos, tmoPos, curr>>

tick_add_task(f) ==
    /\ tick_funcs' = With(tick_funcs, f, MaxTasks)
    /\ UNCHANGED <<current_tick, tmo_list, expires, pc, fnPos, tmoPos, curr>>

tick_remove_task(f) ==
    /\ tick_funcs' = Without(tick_funcs, f)
    /\ UNCHANGED <<current_tick, tmo_list, expires, pc, fnPos, tmoPos, curr>>

(* Whoever runs (a thread, a tick task, a callback) may call these. *)
Call ==
    /\ pc \in {"thread", "task", "callback"}
    /\ \/ \E t \in Timeouts : timeout_cancel(t)
       \/ \E t \in Timeouts, n \in 1..MaxInterval : timeout_register(t, n)
       \/ \E f \in Tasks : tick_add_task(f)
       \/ \E f \in Tasks : tick_remove_task(f)

-----------------------------------------------------------------------------
(* The interrupt handler *)

TimerInterrupt ==
    /\ pc = "thread" /\ pc' = "tasks"
    /\ current_tick' = (current_tick + 1) % Modulus
    /\ fnPos' = 1
    /\ UNCHANGED <<listVars, tmoPos, curr>>

CallTask ==
    /\ pc = "tasks" /\ fnPos <= Len(tick_funcs)
    /\ IF tick_funcs[fnPos] = TimeoutTick
       THEN pc' = "timeouts" /\ tmoPos' = 1
       ELSE pc' = "task" /\ UNCHANGED tmoPos
    /\ UNCHANGED <<current_tick, listVars, fnPos, curr>>

TaskReturns ==
    /\ pc = "task" /\ pc' = "tasks"
    /\ fnPos' = fnPos + 1
    /\ UNCHANGED <<current_tick, listVars, tmoPos, curr>>

InterruptReturns ==
    /\ pc = "tasks" /\ fnPos > Len(tick_funcs)
    /\ pc' = "thread" /\ fnPos' = 0
    /\ UNCHANGED <<current_tick, listVars, tmoPos, curr>>

(* Mutant: due only when its tick has passed. *)
LookAtTimeoutAfter ==
    /\ pc = "timeouts" /\ tmoPos <= Len(tmo_list)
    /\ IF TimeBefore(expires[tmo_list[tmoPos]], current_tick)
       THEN pc' = "callback" /\ curr' = tmo_list[tmoPos] /\ UNCHANGED tmoPos
       ELSE tmoPos' = tmoPos + 1 /\ UNCHANGED <<pc, curr>>
    /\ UNCHANGED <<current_tick, listVars, fnPos>>

(* timeout_tick looks at the next timeout: not due, or its callback is     *)
(* called.                                                                 *)
LookAtTimeout ==
    /\ pc = "timeouts" /\ tmoPos <= Len(tmo_list)
    /\ IF TimeBefore(current_tick, expires[tmo_list[tmoPos]])
       THEN tmoPos' = tmoPos + 1 /\ UNCHANGED <<pc, curr>>
       ELSE pc' = "callback" /\ curr' = tmo_list[tmoPos] /\ UNCHANGED tmoPos
    /\ UNCHANGED <<current_tick, listVars, fnPos>>

(* The callback returns the next interval, written even if it has          *)
(* cancelled its timeout itself.                                           *)
CallbackReturns ==
    /\ pc = "callback" /\ pc' = "timeouts"
    /\ \/ /\ \E n \in 1..MaxInterval :
                expires' = [expires EXCEPT ![curr] = (current_tick + n) % Modulus]
          /\ UNCHANGED <<tick_funcs, tmo_list>>
       \/ Deactivate(curr) /\ UNCHANGED expires
    /\ tmoPos' = tmoPos + 1 /\ curr' = None
    /\ UNCHANGED <<current_tick, fnPos>>

TimeoutsDone ==
    /\ pc = "timeouts" /\ tmoPos > Len(tmo_list)
    /\ pc' = "tasks" /\ fnPos' = fnPos + 1 /\ tmoPos' = 0
    /\ UNCHANGED <<current_tick, listVars, curr>>

Next == \/ Call
        \/ TimerInterrupt \/ CallTask \/ TaskReturns \/ InterruptReturns
        \/ LookAtTimeout \/ CallbackReturns \/ TimeoutsDone

Spec == Init /\ [][Next]_vars

-----------------------------------------------------------------------------
(* Properties *)

NoDuplicates(list) == \A i, j \in 1..Len(list) : list[i] = list[j] => i = j

(* The lists fit their arrays and hold nothing twice although they are     *)
(* changed while they are walked, and timeout_tick is a tick task exactly  *)
(* while there is an active timeout: else timers would stop for good, or   *)
(* the task would be run for nothing.                                      *)
ListsExact ==
    /\ current_tick \in 0..(Modulus - 1)
    /\ expires \in [Timeouts -> 0..(Modulus - 1)]
    /\ pc \in {"thread", "tasks", "task", "timeouts", "callback"}
    /\ fnPos \in Nat
    /\ tmoPos \in IF pc \in {"timeouts", "callback"} THEN Nat \ {0} ELSE {0}
    /\ curr \in IF pc = "callback" THEN Timeouts ELSE {None}
    /\ tmo_list \in Seq(Timeouts) /\ Len(tmo_list) <= MaxTimeouts
    /\ tick_funcs \in Seq(Tasks \cup {TimeoutTick}) /\ Len(tick_funcs) <= MaxTasks
    /\ NoDuplicates(tmo_list) /\ NoDuplicates(tick_funcs)
    /\ Contains(tick_funcs, TimeoutTick) <=> tmo_list # <<>>

Overdue(t) == Signed(current_tick - expires[t])

(* A removal under the handler's feet makes it skip the entry that moved   *)
(* up, for this tick.  A timeout can lose a tick only by moving up in one  *)
(* of the lists, and it can move up only so often: it is never later than  *)
(* the places it, and timeout_tick, have moved up from.                    *)
OverdueBounded ==
    pc = "thread" =>
        \A t \in ToSet(tmo_list) :
            Overdue(t) < (MaxTimeouts - Position(tmo_list, t))
                       + (MaxTasks - Position(tick_funcs, TimeoutTick))

MaxLate == MaxTimeouts + MaxTasks - 3

(* The timeouts are alarms: never early, never after a cancel, at most     *)
(* MaxLate ticks late, also when the tick counter wraps.                   *)
Alarm == INSTANCE Alarms WITH
    Things <- Timeouts,
    left <- [t \in Timeouts |-> IF Contains(tmo_list, t) THEN -Overdue(t) ELSE 0],
    armed <- ToSet(tmo_list),
    ringing <- curr
ImplementsAlarms == Alarm!Spec
=============================================================================
