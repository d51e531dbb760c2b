------------------------- MODULE TickTimeoutsProofs -------------------------
(***************************************************************************)
(* The lists of TickTimeouts stay exact, for every number of timeouts,     *)
(* tasks and slots and every width of the tick counter; no timeout is      *)
(* later than its bound, and timeouts implement Alarms.                    *)
(***************************************************************************)
EXTENDS TickTimeouts, FiniteSetTheorems, SequenceTheorems, TLAPS

(* A list is empty, or something is in it.                                 *)
LEMMA EmptyOrNot ==
    ASSUME NEW S, NEW s \in Seq(S)
    PROVE  /\ Len(s) \in Nat /\ (s = <<>> <=> Len(s) = 0)
           /\ s # <<>> <=> \E x : Contains(s, x)
<1>1. Len(s) \in Nat /\ (s = <<>> <=> Len(s) = 0)
  <2>1. Len(s) = 0 => s = <<>>
    BY EmptySeq
  <2> QED
    BY <2>1
<1>2. s # <<>> <=> \E i \in 1..Len(s) : TRUE
  <2>1. Len(s) # 0 => 1 \in 1..Len(s)
    BY <1>1
  <2> QED
    BY <1>1, <2>1
<1> QED
  BY <1>1, <1>2 DEF Contains

(* What a sequence made of two holds where.                                *)
LEMMA Joined ==
    ASSUME NEW S, NEW a \in Seq(S), NEW b \in Seq(S)
    PROVE  /\ a \o b \in Seq(S)
           /\ Len(a \o b) = Len(a) + Len(b)
           /\ \A i \in 1..(Len(a) + Len(b)) :
                (a \o b)[i] = IF i <= Len(a) THEN a[i] ELSE b[i - Len(a)]
OBVIOUS

(* remove_array_ptr: the entries behind the removed one move up by one.    *)
LEMMA WithoutEntry ==
    ASSUME NEW S, NEW s \in Seq(S), NEW x, Contains(s, x)
    PROVE  /\ Position(s, x) \in 1..Len(s) /\ s[Position(s, x)] = x
           /\ Without(s, x) \in Seq(S)
           /\ Len(Without(s, x)) = Len(s) - 1
           /\ \A i \in 1..(Len(s) - 1) :
                Without(s, x)[i] = IF i < Position(s, x) THEN s[i] ELSE s[i + 1]
<1> DEFINE p == Position(s, x)
<1>1. p \in 1..Len(s) /\ s[p] = x
  BY DEF Contains, Position
<1> HIDE DEF p
<1>2. Without(s, x) = SubSeq(s, 1, p - 1) \o SubSeq(s, p + 1, Len(s))
  BY DEF Without, RemoveAt, p
<1> DEFINE front == SubSeq(s, 1, p - 1)
           back == SubSeq(s, p + 1, Len(s))
<1>3. /\ front \in Seq(S) /\ Len(front) = p - 1
      /\ \A i \in 1..(p - 1) : front[i] = s[i]
  BY <1>1
<1>4. /\ back \in Seq(S) /\ Len(back) = Len(s) - p
      /\ \A i \in 1..(Len(s) - p) : back[i] = s[p + i]
  BY <1>1
<1> HIDE DEF front, back
<1>5. /\ front \o back \in Seq(S) /\ Len(front \o back) = Len(s) - 1
      /\ \A i \in 1..(Len(s) - 1) :
           (front \o back)[i] = IF i < p THEN front[i] ELSE back[i - p + 1]
  <2> DEFINE joined == front \o back
  <2>1. /\ joined \in Seq(S) /\ Len(joined) = Len(front) + Len(back)
        /\ \A i \in 1..(Len(front) + Len(back)) :
             joined[i] = IF i <= Len(front) THEN front[i] ELSE back[i - Len(front)]
    BY <1>3, <1>4, Joined
  <2>2. Len(s) \in Nat
    OBVIOUS
  <2>3. Len(front) + Len(back) = Len(s) - 1
    BY <1>1, <1>3, <1>4, <2>2
  <2> HIDE DEF joined
  <2>4. ASSUME NEW i \in 1..(Len(s) - 1)
        PROVE  joined[i] = IF i < p THEN front[i] ELSE back[i - p + 1]
    <3>1. (i <= Len(front) <=> i < p) /\ i - Len(front) = i - p + 1
      BY <1>1, <1>3, <2>2
    <3> QED
      BY <2>1, <2>3, <3>1
  <2>5. joined \in Seq(S) /\ Len(joined) = Len(s) - 1
    BY <2>1, <2>3
  <2> QED
    BY <2>4, <2>5 DEF joined
<1>6. ASSUME NEW i \in 1..(Len(s) - 1)
      PROVE  (front \o back)[i] = IF i < p THEN s[i] ELSE s[i + 1]
  <2>1. CASE i < p
    BY <1>1, <1>3, <1>5, <2>1
  <2>2. CASE ~(i < p)
    <3>1. i - p + 1 \in 1..(Len(s) - p) /\ p + (i - p + 1) = i + 1
      BY <1>1, <2>2
    <3>2. back[i - p + 1] = s[i + 1]
      BY <1>4, <3>1
    <3> QED
      BY <1>5, <2>2, <3>2
  <2> QED
    BY <2>1, <2>2
<1> QED
  BY <1>1, <1>2, <1>5, <1>6 DEF p, front, back

(* Removing an entry keeps the others, once each.                          *)
LEMMA WithoutKeeps ==
    ASSUME NEW S, NEW s \in Seq(S), NEW x, NoDuplicates(s)
    PROVE  /\ Without(s, x) \in Seq(S)
           /\ Len(Without(s, x)) = IF Contains(s, x) THEN Len(s) - 1 ELSE Len(s)
           /\ NoDuplicates(Without(s, x))
           /\ \A y : Contains(Without(s, x), y) <=> Contains(s, y) /\ y # x
<1>1. CASE ~Contains(s, x)
  BY <1>1 DEF Without
<1>2. CASE Contains(s, x)
  <2> DEFINE r == Without(s, x)
             p == Position(s, x)
  <2>1. /\ p \in 1..Len(s) /\ s[p] = x
        /\ r \in Seq(S) /\ Len(r) = Len(s) - 1
        /\ \A i \in 1..(Len(s) - 1) : r[i] = IF i < p THEN s[i] ELSE s[i + 1]
    BY <1>2, WithoutEntry
  <2> HIDE DEF r, p
  <2>2. NoDuplicates(r)
    BY <2>1 DEF NoDuplicates
  <2>3. \A y : Contains(r, y) => Contains(s, y) /\ y # x
    BY <2>1 DEF Contains, NoDuplicates
  <2>4. ASSUME NEW i \in 1..Len(s), i # p PROVE Contains(r, s[i])
    <3>1. CASE i < p
      BY <2>1, <3>1 DEF Contains
    <3>2. CASE p < i
      <4>1. i - 1 \in 1..(Len(s) - 1) /\ ~(i - 1 < p) /\ (i - 1) + 1 = i
        BY <2>1, <3>2
      <4>2. r[i - 1] = s[i]
        BY <2>1, <4>1
      <4> QED
        BY <2>1, <4>1, <4>2 DEF Contains
    <3> QED
      BY <2>1, <2>4, <3>1, <3>2
  <2>5. \A y : Contains(s, y) /\ y # x => Contains(r, y)
    BY <2>1, <2>4 DEF Contains
  <2> QED
    BY <1>2, <2>1, <2>2, <2>3, <2>5 DEF r
<1> QED
  BY <1>1, <1>2

(* The way timeout_register and tick_add_task add an entry.                *)
LEMMA WithKeeps ==
    ASSUME NEW S, NEW s \in Seq(S), NEW x \in S, NEW max \in Nat,
           NoDuplicates(s), Len(s) <= max
    PROVE  /\ With(s, x, max) \in Seq(S)
           /\ Len(With(s, x, max)) <= max
           /\ NoDuplicates(With(s, x, max))
           /\ \A y : Contains(s, y) => Contains(With(s, x, max), y)
           /\ \A y : Contains(With(s, x, max), y) => Contains(s, y) \/ y = x
           /\ Len(s) < max => Contains(With(s, x, max), x)
<1>1. CASE Contains(s, x) \/ Len(s) = max
  BY <1>1 DEF With
<1>2. CASE ~Contains(s, x) /\ Len(s) # max
  <2> DEFINE r == Append(s, x)
  <2>1. With(s, x, max) = r
    BY <1>2 DEF With
  <2>2. /\ r \in Seq(S) /\ Len(r) = Len(s) + 1 /\ r[Len(s) + 1] = x
        /\ \A i \in 1..Len(s) : r[i] = s[i]
    OBVIOUS
  <2> HIDE DEF r
  <2>3. Len(r) <= max
    BY <1>2, <2>2
  <2>4. NoDuplicates(r)
    BY <1>2, <2>2 DEF NoDuplicates, Contains
  <2>5. \A y : Contains(r, y) <=> Contains(s, y) \/ y = x
    BY <2>2 DEF Contains
  <2> QED
    BY <2>1, <2>2, <2>3, <2>4, <2>5
<1> QED
  BY <1>1, <1>2

(* Adding any tick task keeps what is there.                               *)
LEMMA WithTask ==
    ASSUME NEW s \in Seq(Tasks \cup {TimeoutTick}), NEW f \in Tasks \cup {TimeoutTick},
           NoDuplicates(s), Len(s) <= MaxTasks
    PROVE  LET r == With(s, f, MaxTasks)
           IN  /\ r \in Seq(Tasks \cup {TimeoutTick})
               /\ Len(r) <= MaxTasks /\ NoDuplicates(r)
               /\ \A y : Contains(s, y) => Contains(r, y)
               /\ \A y : Contains(r, y) => Contains(s, y) \/ y = f
               /\ Len(s) < MaxTasks => Contains(r, f)
<1> DEFINE AllTasks == Tasks \cup {TimeoutTick}
<1>1. s \in Seq(AllTasks) /\ f \in AllTasks /\ MaxTasks \in Nat
  BY TickAssumption
<1> HIDE DEF AllTasks
<1>2. /\ With(s, f, MaxTasks) \in Seq(AllTasks)
      /\ Len(With(s, f, MaxTasks)) <= MaxTasks
      /\ NoDuplicates(With(s, f, MaxTasks))
      /\ \A y : Contains(s, y) => Contains(With(s, f, MaxTasks), y)
      /\ \A y : Contains(With(s, f, MaxTasks), y) => Contains(s, y) \/ y = f
      /\ Len(s) < MaxTasks => Contains(With(s, f, MaxTasks), f)
  BY <1>1, WithKeeps
<1> QED
  BY <1>2 DEF AllTasks

(* The tick tasks fit: without timeout_tick there is room for it.          *)
LEMMA RoomForTimeoutTick ==
    ASSUME NEW s \in Seq(Tasks \cup {TimeoutTick}), NoDuplicates(s),
           Len(s) <= MaxTasks, ~Contains(s, TimeoutTick)
    PROVE  Len(s) < MaxTasks
<1>1. IsFiniteSet(1..Len(s)) /\ Cardinality(1..Len(s)) = Len(s)
  <2>1. Len(s) \in Nat
    OBVIOUS
  <2> QED
    BY <2>1, FS_Interval
<1>2. s \in [1..Len(s) -> Tasks]
  BY DEF Contains
<1>3. \A i, j \in 1..Len(s) : s[i] = s[j] => i = j
  BY DEF NoDuplicates
<1>4. Cardinality(1..Len(s)) <= Cardinality(Tasks)
  <2>1. s \in Injection(1..Len(s), Tasks)
    BY <1>2, <1>3 DEF Injection, IsInjective
  <2> QED
    BY <2>1, TickAssumption, FS_Injection
<1>5. Cardinality(Tasks) \in Nat /\ Cardinality(Tasks) < MaxTasks
  BY TickAssumption, FS_CardinalityType
<1> QED
  BY <1>1, <1>4, <1>5, TickAssumption

-----------------------------------------------------------------------------
(* The tick counter and the times kept in its unit stay below Modulus.     *)
LEMMA Wraps ==
    ASSUME NEW n \in Nat
    PROVE  n % Modulus \in 0..(Modulus - 1)
BY TickAssumption

(* ListsExact in two parts: what the interrupt handler keeps, and the two  *)
(* lists that it and its callers share.                                    *)
HandlerExact ==
    /\ current_tick \in 0..(Modulus - 1)
    /\ expires \in [Timeouts -> 0..(Modulus - 1)]
    /\ pc \in {"thread", "tasks", "task", "timeouts", "callback"}
    /\ fnPos \in Nat
    /\ tmoPos \in IF pc \in {"timeouts", "callback"} THEN Nat \ {0} ELSE {0}
    /\ curr \in IF pc = "callback" THEN Timeouts ELSE {None}

SharedExact ==
    /\ tmo_list \in Seq(Timeouts) /\ Len(tmo_list) <= MaxTimeouts
    /\ tick_funcs \in Seq(Tasks \cup {TimeoutTick}) /\ Len(tick_funcs) <= MaxTasks
    /\ NoDuplicates(tmo_list) /\ NoDuplicates(tick_funcs)
    /\ Contains(tick_funcs, TimeoutTick) <=> tmo_list # <<>>

(* timeout_cancel, and a callback that returns 0, keep both lists exact:   *)
(* timeout_tick goes exactly with the last timeout.                        *)
LEMMA DeactivateKeeps ==
    ASSUME SharedExact, NEW t \in Timeouts, Deactivate(t)
    PROVE  SharedExact'
<1>1. /\ tmo_list' \in Seq(Timeouts) /\ NoDuplicates(tmo_list')
      /\ Len(tmo_list') = IF Contains(tmo_list, t) THEN Len(tmo_list) - 1
                          ELSE Len(tmo_list)
  BY WithoutKeeps DEF SharedExact, Deactivate
<1>2. Len(tmo_list) \in Nat /\ Len(tmo_list') \in Nat
  BY <1>1 DEF SharedExact
<1>3. (tmo_list' = <<>> <=> Len(tmo_list') = 0) /\ (tmo_list = <<>> <=> Len(tmo_list) = 0)
  BY <1>1, EmptyOrNot DEF SharedExact
<1>4. CASE Contains(tmo_list, t) /\ Len(tmo_list) = 1
  <2>1. tmo_list' = <<>>
    BY <1>1, <1>3, <1>4
  <2>2. tick_funcs' = Without(tick_funcs, TimeoutTick)
    BY <1>4 DEF Deactivate
  <2>3. /\ tick_funcs' \in Seq(Tasks \cup {TimeoutTick})
        /\ Len(tick_funcs') = IF Contains(tick_funcs, TimeoutTick)
                              THEN Len(tick_funcs) - 1 ELSE Len(tick_funcs)
        /\ NoDuplicates(tick_funcs')
        /\ ~Contains(tick_funcs', TimeoutTick)
    BY <2>2, WithoutKeeps DEF SharedExact
  <2>4. Len(tick_funcs') <= MaxTasks
    BY <2>3, TickAssumption DEF SharedExact
  <2> QED
    BY <1>1, <1>2, <1>4, <2>1, <2>3, <2>4, TickAssumption DEF SharedExact
<1>5. CASE ~(Contains(tmo_list, t) /\ Len(tmo_list) = 1)
  <2>1. tick_funcs' = tick_funcs
    BY <1>5 DEF Deactivate
  <2>2. tmo_list' = <<>> <=> tmo_list = <<>>
    BY <1>1, <1>2, <1>3, <1>5
  <2>3. Len(tmo_list') <= MaxTimeouts
    BY <1>1, <1>2, TickAssumption DEF SharedExact
  <2> QED
    BY <1>1, <2>1, <2>2, <2>3 DEF SharedExact
<1> QED
  BY <1>4, <1>5

(* timeout_register: the first timeout brings timeout_tick with it, which  *)
(* always finds a slot.                                                    *)
LEMMA RegisterKeeps ==
    ASSUME SharedExact, NEW t \in Timeouts, NEW n \in Nat, timeout_register(t, n)
    PROVE  SharedExact'
<1>1. tmo_list' = With(tmo_list, t, MaxTimeouts)
  BY DEF timeout_register
<1>2. /\ tmo_list' \in Seq(Timeouts) /\ Len(tmo_list') <= MaxTimeouts
      /\ NoDuplicates(tmo_list')
      /\ \A y : Contains(tmo_list, y) => Contains(tmo_list', y)
      /\ Len(tmo_list) < MaxTimeouts => Contains(tmo_list', t)
  BY <1>1, WithKeeps, TickAssumption DEF SharedExact
<1>3. CASE tmo_list = <<>>
  <2>1. tmo_list' # <<>>
    <3>1. Len(tmo_list) < MaxTimeouts
      BY <1>3, TickAssumption
    <3> QED
      BY <1>2, <3>1, EmptyOrNot
  <2>2. Len(tick_funcs) < MaxTasks
    BY <1>3, RoomForTimeoutTick DEF SharedExact
  <2>3. tick_funcs' = With(tick_funcs, TimeoutTick, MaxTasks)
    BY <1>3 DEF timeout_register
  <2>4. /\ tick_funcs' \in Seq(Tasks \cup {TimeoutTick})
        /\ Len(tick_funcs') <= MaxTasks /\ NoDuplicates(tick_funcs')
        /\ Contains(tick_funcs', TimeoutTick)
    <3>1. TimeoutTick \in Tasks \cup {TimeoutTick} /\ MaxTasks \in Nat
      BY TickAssumption
    <3> QED
      BY <2>2, <2>3, <3>1, WithTask DEF SharedExact
  <2> QED
    BY <1>2, <2>1, <2>4 DEF SharedExact
<1>4. CASE tmo_list # <<>>
  <2>1. tick_funcs' = tick_funcs
    BY <1>4 DEF timeout_register
  <2>2. tmo_list' # <<>>
    <3>1. \E x : Contains(tmo_list, x)
      BY <1>4, EmptyOrNot DEF SharedExact
    <3> QED
      BY <1>2, <3>1, EmptyOrNot
  <2> QED
    BY <1>2, <1>4, <2>1, <2>2 DEF SharedExact
<1> QED
  BY <1>3, <1>4

(* Adding and removing another tick task leaves timeout_tick where it is.  *)
LEMMA OtherTaskKeeps ==
    ASSUME SharedExact, NEW f \in Tasks, tick_add_task(f) \/ tick_remove_task(f)
    PROVE  SharedExact'
<1> USE DEF SharedExact
<1>1. f # TimeoutTick /\ f \in Tasks \cup {TimeoutTick} /\ MaxTasks \in Nat
  BY TickAssumption
<1>2. tmo_list' = tmo_list
  BY DEF tick_add_task, tick_remove_task
<1>3. CASE tick_add_task(f)
  <2>1. tick_funcs' = With(tick_funcs, f, MaxTasks)
    BY <1>3 DEF tick_add_task
  <2>2. /\ tick_funcs' \in Seq(Tasks \cup {TimeoutTick})
        /\ Len(tick_funcs') <= MaxTasks /\ NoDuplicates(tick_funcs')
        /\ \A y : Contains(tick_funcs, y) => Contains(tick_funcs', y)
        /\ \A y : Contains(tick_funcs', y) => Contains(tick_funcs, y) \/ y = f
    BY <1>1, <2>1, WithTask
  <2> QED
    BY <1>1, <1>2, <2>2
<1>4. CASE tick_remove_task(f)
  <2>1. tick_funcs' = Without(tick_funcs, f)
    BY <1>4 DEF tick_remove_task
  <2>2. /\ tick_funcs' \in Seq(Tasks \cup {TimeoutTick})
        /\ Len(tick_funcs') = IF Contains(tick_funcs, f) THEN Len(tick_funcs) - 1
                              ELSE Len(tick_funcs)
        /\ NoDuplicates(tick_funcs')
        /\ \A y : Contains(tick_funcs', y) <=> Contains(tick_funcs, y) /\ y # f
    BY <2>1, WithoutKeeps
  <2>3. Len(tick_funcs') <= MaxTasks
    BY <1>1, <2>2
  <2> QED
    BY <1>1, <1>2, <2>2, <2>3
<1> QED
  BY <1>3, <1>4

(* One step per caller's operation and per step of the interrupt handler.  *)
LEMMA SharedKept ==
    ASSUME HandlerExact, SharedExact, [Next]_vars
    PROVE  SharedExact'
<1>1. CASE Call
  <2>1. CASE \E t \in Timeouts : timeout_cancel(t)
    BY <2>1, DeactivateKeeps DEF timeout_cancel
  <2>2. CASE \E t \in Timeouts, n \in 1..MaxInterval : timeout_register(t, n)
    BY <2>2, RegisterKeeps, TickAssumption
  <2>3. CASE \E f \in Tasks : tick_add_task(f) \/ tick_remove_task(f)
    BY <2>3, OtherTaskKeeps
  <2> QED
    BY <1>1, <2>1, <2>2, <2>3 DEF Call
<1>2. CASE CallbackReturns
  <2>1. CASE Deactivate(curr)
    <3>1. curr \in Timeouts
      BY <1>2 DEF HandlerExact, CallbackReturns
    <3> QED
      BY <2>1, <3>1, DeactivateKeeps
  <2>2. CASE UNCHANGED <<tick_funcs, tmo_list>>
    BY <2>2 DEF SharedExact
  <2> QED
    BY <1>2, <2>1, <2>2 DEF CallbackReturns
<1>3. ASSUME UNCHANGED <<tick_funcs, tmo_list>> PROVE SharedExact'
  BY <1>3 DEF SharedExact
<1>4. CASE \/ TimerInterrupt \/ CallTask \/ TaskReturns \/ InterruptReturns
           \/ LookAtTimeout \/ TimeoutsDone \/ UNCHANGED vars
  BY <1>3, <1>4 DEF TimerInterrupt, CallTask, TaskReturns, InterruptReturns,
                    LookAtTimeout, TimeoutsDone, vars, listVars
<1> QED
  BY <1>1, <1>2, <1>4 DEF Next

(* Where the handler is, and the times, in each step.                      *)
LEMMA HandlerKept ==
    ASSUME HandlerExact, SharedExact, [Next]_vars
    PROVE  HandlerExact'
<1> USE DEF HandlerExact
<1>1. CASE Call
  <2>1. CASE \/ \E t \in Timeouts : timeout_cancel(t)
             \/ \E f \in Tasks : tick_add_task(f) \/ tick_remove_task(f)
    BY <2>1 DEF timeout_cancel, tick_add_task, tick_remove_task
  <2>2. ASSUME NEW t \in Timeouts, NEW n \in 1..MaxInterval, timeout_register(t, n)
        PROVE  HandlerExact'
    <3>1. (current_tick + n) % Modulus \in 0..(Modulus - 1)
      BY Wraps, TickAssumption
    <3> QED
      BY <2>2, <3>1 DEF timeout_register
  <2> QED
    BY <1>1, <2>1, <2>2 DEF Call
<1>2. CASE TimerInterrupt
  <2>1. (current_tick + 1) % Modulus \in 0..(Modulus - 1)
    BY Wraps, TickAssumption
  <2> QED
    BY <1>2, <2>1 DEF TimerInterrupt, listVars
<1>3. CASE CallTask
  BY <1>3 DEF CallTask, listVars
<1>4. CASE TaskReturns \/ InterruptReturns \/ TimeoutsDone
  BY <1>4 DEF TaskReturns, InterruptReturns, TimeoutsDone, listVars
<1>5. CASE LookAtTimeout
  <2>1. tmoPos \in 1..Len(tmo_list) /\ tmo_list[tmoPos] \in Timeouts
    BY <1>5 DEF LookAtTimeout, SharedExact
  <2> QED
    BY <1>5, <2>1 DEF LookAtTimeout, listVars
<1>6. CASE CallbackReturns
  <2>1. \A n \in 1..MaxInterval : (current_tick + n) % Modulus \in 0..(Modulus - 1)
    BY Wraps, TickAssumption
  <2>2. expires' \in [Timeouts -> 0..(Modulus - 1)]
    BY <1>6, <2>1 DEF CallbackReturns
  <2> QED
    BY <1>6, <2>2 DEF CallbackReturns
<1>7. CASE UNCHANGED vars
  BY <1>7 DEF vars, listVars
<1> QED
  BY <1>1, <1>2, <1>3, <1>4, <1>5, <1>6, <1>7 DEF Next

(* The two arrays never hold an entry twice or run over, and timeout_tick  *)
(* is installed exactly while a timeout is active, whatever the callbacks  *)
(* and tick tasks add and remove while the handler walks the lists.        *)
THEOREM TicksListsExact == Spec => []ListsExact
<1>1. ListsExact <=> HandlerExact /\ SharedExact
  BY DEF ListsExact, HandlerExact, SharedExact
<1>2. Init => HandlerExact /\ SharedExact
  <2> SUFFICES ASSUME Init PROVE HandlerExact /\ SharedExact
    OBVIOUS
  <2>1. HandlerExact
    BY TickAssumption DEF Init, HandlerExact
  <2>2. SharedExact
    BY TickAssumption DEF Init, SharedExact, NoDuplicates, Contains
  <2> QED
    BY <2>1, <2>2
<1>3. HandlerExact /\ SharedExact /\ [Next]_vars => (HandlerExact /\ SharedExact)'
  BY HandlerKept, SharedKept
<1> QED
  BY <1>1, <1>2, <1>3, PTL DEF Spec

-----------------------------------------------------------------------------
(* The tick counter *)

LEMMA ModOf ==
    ASSUME NEW m \in Nat \ {0}, NEW x \in Int, -m <= x, x < 2 * m
    PROVE  x % m = IF x < 0 THEN x + m ELSE IF x < m THEN x ELSE x - m
<1>1. CASE x < 0
  BY <1>1
<1>2. CASE 0 <= x /\ x < m
  BY <1>2
<1>3. CASE m <= x
  BY <1>3
<1> QED
  BY <1>1, <1>2, <1>3

(* A difference that fits the signed range is what TIME_BEFORE sees, one   *)
(* step of the counter is one tick more, and a time n ticks ahead is n     *)
(* ticks ahead, also where the counter wraps.                              *)
LEMMA Differences ==
    ASSUME NEW c \in 0..(Modulus - 1), NEW e \in 0..(Modulus - 1)
    PROVE  /\ Signed(c - e) \in Int
           /\ Signed(c - e) < Modulus \div 2 - 1 =>
                 Signed(((c + 1) % Modulus) - e) = Signed(c - e) + 1
           /\ \A n \in 1..MaxInterval : Signed(c - ((c + n) % Modulus)) = -n
<1> DEFINE half == Modulus \div 2
<1>1. Modulus \in Nat \ {0} /\ half \in Nat /\ Modulus = 2 * half
  BY TickAssumption
<1>2. MaxInterval \in Nat \ {0} /\ MaxInterval < half
  BY TickAssumption
<1> HIDE DEF half
<1>3. ASSUME NEW d \in Int, -Modulus <= d, d < Modulus
      PROVE  Signed(d) = IF d < -half THEN d + Modulus
                         ELSE IF d < half THEN d ELSE d - Modulus
  <2>1. d % Modulus = IF d < 0 THEN d + Modulus ELSE d
    <3>1. d < 2 * Modulus
      BY <1>1, <1>3
    <3> QED
      BY <1>1, <1>3, <3>1, ModOf
  <2> QED
    BY <1>1, <1>3, <2>1 DEF Signed, half
<1>4. -Modulus <= c - e /\ c - e < Modulus /\ c - e \in Int
  BY <1>1
<1>5. Signed(c - e) \in Int
  BY <1>1, <1>3, <1>4
<1>6. ASSUME Signed(c - e) < half - 1
      PROVE  Signed(((c + 1) % Modulus) - e) = Signed(c - e) + 1
  <2>1. (c + 1) % Modulus = IF c + 1 < Modulus THEN c + 1 ELSE 0
    <3>1. PICK x \in Int : x = c + 1
      BY <1>1
    <3>2. -Modulus <= x /\ x < 2 * Modulus /\ 0 <= x /\ x <= Modulus
      BY <1>1, <3>1
    <3>3. x % Modulus = IF x < 0 THEN x + Modulus ELSE IF x < Modulus THEN x ELSE x - Modulus
      BY <1>1, <3>2, ModOf
    <3> QED
      BY <1>1, <3>1, <3>2, <3>3
  <2>2. CASE c + 1 < Modulus
    <3>1. -Modulus <= c + 1 - e /\ c + 1 - e < Modulus /\ c + 1 - e \in Int
      BY <1>1, <2>2, <1>4, <1>6, <1>3
    <3> QED
      BY <1>1, <1>3, <1>4, <1>6, <2>1, <2>2, <3>1
  <2>3. CASE c + 1 = Modulus
    <3>1. -Modulus <= 0 - e /\ 0 - e < Modulus /\ 0 - e \in Int
      BY <1>1
    <3> QED
      BY <1>1, <1>3, <1>4, <1>6, <2>1, <2>3, <3>1
  <2> QED
    BY <1>1, <2>2, <2>3
<1>7. ASSUME NEW n \in 1..MaxInterval
      PROVE  Signed(c - ((c + n) % Modulus)) = -n
  <2>1. (c + n) % Modulus = IF c + n < Modulus THEN c + n ELSE c + n - Modulus
    <3>1. PICK x \in Int : x = c + n
      BY <1>1, <1>2
    <3>2. -Modulus <= x /\ x < 2 * Modulus /\ 0 <= x
      BY <1>1, <1>2, <3>1
    <3>3. x % Modulus = IF x < 0 THEN x + Modulus ELSE IF x < Modulus THEN x ELSE x - Modulus
      BY <1>1, <3>2, ModOf
    <3> QED
      BY <1>1, <3>1, <3>2, <3>3
  <2>2. c - ((c + n) % Modulus) = IF c + n < Modulus THEN -n ELSE Modulus - n
    BY <1>1, <1>2, <2>1
  <2>3. Signed(-n) = -n /\ Signed(Modulus - n) = -n
    BY <1>1, <1>2, <1>3
  <2> QED
    BY <2>2, <2>3
<1> QED
  BY <1>5, <1>6, <1>7 DEF half

-----------------------------------------------------------------------------
(* Lists: a removal moves entries towards the front only, an addition      *)
(* moves none.                                                             *)

LEMMA MovesUp ==
    ASSUME NEW S, NEW s \in Seq(S), NEW x, NEW k \in 1..Len(Without(s, x))
    PROVE  \E l \in 1..Len(s) : k <= l /\ s[l] = Without(s, x)[k]
<1>1. CASE ~Contains(s, x)
  <2>1. Len(s) \in Nat
    OBVIOUS
  <2> QED
    BY <1>1, <2>1 DEF Without
<1>2. CASE Contains(s, x)
  <2>1. /\ Len(Without(s, x)) = Len(s) - 1 /\ Len(s) \in Nat
        /\ \A i \in 1..(Len(s) - 1) :
             Without(s, x)[i] = IF i < Position(s, x) THEN s[i] ELSE s[i + 1]
    BY <1>2, WithoutEntry
  <2>2. k \in 1..Len(s) /\ k + 1 \in 1..Len(s) /\ k <= k + 1 /\ k <= k
    BY <2>1
  <2> QED
    BY <2>1, <2>2
<1> QED
  BY <1>1, <1>2

LEMMA StaysPut ==
    ASSUME NEW S, NEW s \in Seq(S), NEW x \in S, NEW max \in Nat,
           NEW k \in 1..Len(With(s, x, max))
    PROVE  \/ k \in 1..Len(s) /\ s[k] = With(s, x, max)[k]
           \/ With(s, x, max)[k] = x
BY DEF With

LEMMA PositionIs ==
    ASSUME NEW s, NoDuplicates(s), NEW k \in 1..Len(s)
    PROVE  Position(s, s[k]) = k
BY DEF Position, NoDuplicates

-----------------------------------------------------------------------------
(* With timeout_tick at i and a timeout t at j: the interrupt handler has  *)
(* still to look at t in this tick, or is at it.                           *)
Ahead(i, j, t) ==
    \/ pc = "tasks" /\ fnPos <= i
    \/ pc \in {"task", "timeouts", "callback"} /\ fnPos < i
    \/ pc = "timeouts" /\ tmoPos <= j
    \/ pc = "callback" /\ (tmoPos < j \/ curr = t)

Where(i, j, t) == /\ i \in 1..Len(tick_funcs) /\ tick_funcs[i] = TimeoutTick
                  /\ j \in 1..Len(tmo_list) /\ tmo_list[j] = t

(* The ticks a timeout is late by are paid for by the places it, and       *)
(* timeout_tick, have moved up from; the tick that is being worked on is   *)
(* not yet lost while the handler has still to come to it.                 *)
Lateness ==
    \A t \in Timeouts, i, j \in Nat : Where(i, j, t) =>
        Overdue(t) <= (MaxTimeouts - j) + (MaxTasks - i) - (IF Ahead(i, j, t) THEN 0 ELSE 1)

LEMMA Sizes ==
    ASSUME SharedExact
    PROVE  /\ Len(tick_funcs) \in Nat /\ Len(tmo_list) \in Nat
           /\ MaxTimeouts \in Nat /\ MaxTasks \in Nat /\ Modulus \div 2 \in Nat
           /\ Len(tick_funcs) <= MaxTasks /\ Len(tmo_list) <= MaxTimeouts
           /\ MaxTimeouts + MaxTasks <= Modulus \div 2
BY TickAssumption DEF SharedExact

LEMMA OverdueInt ==
    ASSUME HandlerExact, NEW t \in Timeouts
    PROVE  Overdue(t) \in Int
BY Differences DEF HandlerExact, Overdue

(* What is left of a step once each timeout that is late has been found at *)
(* its place before the step: no further behind than now, and if the       *)
(* handler is past it that was so before, or it has moved up.              *)
LEMMA NoLater ==
    ASSUME HandlerExact, HandlerExact', SharedExact, SharedExact', Lateness,
           \A t \in Timeouts, i, j \in Nat : Where(i, j, t)' =>
               \/ Overdue(t)' < 0
               \/ /\ Overdue(t)' = Overdue(t)
                  /\ \E k, l \in Nat :
                       /\ Where(k, l, t) /\ i <= k /\ j <= l
                       /\ (Ahead(k, l, t) => Ahead(i, j, t)') \/ i + j < k + l
    PROVE  Lateness'
<1> SUFFICES ASSUME NEW t \in Timeouts, NEW i \in Nat, NEW j \in Nat, Where(i, j, t)'
             PROVE  Overdue(t)' <= (MaxTimeouts - j) + (MaxTasks - i)
                                      - (IF Ahead(i, j, t)' THEN 0 ELSE 1)
  BY DEF Lateness
<1>1. /\ MaxTimeouts \in Nat /\ MaxTasks \in Nat /\ j <= MaxTimeouts /\ i <= MaxTasks
  <2>1. Len(tick_funcs') <= MaxTasks /\ Len(tmo_list') <= MaxTimeouts
        /\ Len(tick_funcs') \in Nat /\ Len(tmo_list') \in Nat
    BY TickAssumption DEF SharedExact
  <2>2. i <= Len(tick_funcs') /\ j <= Len(tmo_list')
    BY <2>1 DEF Where
  <2> QED
    BY <2>1, <2>2, TickAssumption
<1>2. Overdue(t)' \in Int /\ Overdue(t) \in Int
  <2>1. Overdue(t) \in Int
    BY OverdueInt
  <2>2. Overdue(t)' \in Int
    BY Differences DEF HandlerExact, Overdue
  <2> QED
    BY <2>1, <2>2
<1>3. CASE Overdue(t)' < 0
  BY <1>1, <1>2, <1>3
<1>4. CASE ~(Overdue(t)' < 0)
  <2>1. PICK k \in Nat, l \in Nat :
          /\ Where(k, l, t) /\ i <= k /\ j <= l
          /\ (Ahead(k, l, t) => Ahead(i, j, t)') \/ i + j < k + l
    BY <1>4
  <2>2. Overdue(t)' = Overdue(t)
    BY <1>4
  <2>3. Overdue(t) <= (MaxTimeouts - l) + (MaxTasks - k) - (IF Ahead(k, l, t) THEN 0 ELSE 1)
    BY <2>1 DEF Lateness
  <2> QED
    BY <1>1, <1>2, <2>1, <2>2, <2>3
<1> QED
  BY <1>3, <1>4

(* Adding, removing and cancelling, by whoever calls. *)
LEMMA CallNoLater ==
    ASSUME HandlerExact, HandlerExact', SharedExact, SharedExact', Lateness, Call
    PROVE  Lateness'
<1> DEFINE Same(t) == Overdue(t)' = Overdue(t)
           Found(t, i, j) == \E k, l \in Nat : Where(k, l, t) /\ i <= k /\ j <= l
<1>1. UNCHANGED <<pc, fnPos, tmoPos, curr, current_tick>>
  BY DEF Call, timeout_cancel, timeout_register, tick_add_task, tick_remove_task
<1>2. ASSUME \A t \in Timeouts, i, j \in Nat : Where(i, j, t)' =>
                 \/ Overdue(t)' < 0
                 \/ Same(t) /\ Found(t, i, j)
      PROVE  Lateness'
  <2>1. ASSUME NEW t \in Timeouts, NEW i \in Nat, NEW j \in Nat, Found(t, i, j)
        PROVE  \E k, l \in Nat : /\ Where(k, l, t) /\ i <= k /\ j <= l
                                 /\ (Ahead(k, l, t) => Ahead(i, j, t)') \/ i + j < k + l
    <3>1. PICK k \in Nat, l \in Nat : Where(k, l, t) /\ i <= k /\ j <= l
      BY <2>1
    <3>2. CASE i = k /\ j = l
      <4>1. Ahead(i, j, t)' <=> Ahead(k, l, t)
        BY <1>1, <3>2 DEF Ahead
      <4> QED
        BY <3>1, <4>1
    <3>3. CASE ~(i = k /\ j = l)
      <4>1. i + j < k + l
        BY <3>1, <3>3
      <4> QED
        BY <3>1, <4>1
    <3> QED
      BY <3>2, <3>3
  <2> QED
    BY <1>2, <2>1, NoLater
<1>3. ASSUME UNCHANGED expires PROVE \A t \in Timeouts : Same(t)
  BY <1>1, <1>3 DEF Overdue
<1>4. ASSUME NEW u \in Timeouts, timeout_cancel(u)
      PROVE  Lateness'
  <2>1. \A t \in Timeouts : Same(t)
    BY <1>3, <1>4 DEF timeout_cancel
  <2>2. ASSUME NEW t \in Timeouts, NEW i \in Nat, NEW j \in Nat, Where(i, j, t)'
        PROVE  Found(t, i, j)
    <3>1. /\ tmo_list' = Without(tmo_list, u)
          /\ tick_funcs' = tick_funcs \/ tick_funcs' = Without(tick_funcs, TimeoutTick)
      BY <1>4 DEF timeout_cancel, Deactivate
    <3>2. \E l \in 1..Len(tmo_list) : j <= l /\ tmo_list[l] = t
      BY <2>2, <3>1, MovesUp DEF Where, SharedExact
    <3>3. \E k \in 1..Len(tick_funcs) : i <= k /\ tick_funcs[k] = TimeoutTick
      <4>1. CASE tick_funcs' = tick_funcs
        BY <2>2, <4>1 DEF Where
      <4>2. CASE tick_funcs' = Without(tick_funcs, TimeoutTick)
        <5> DEFINE AllTasks == Tasks \cup {TimeoutTick}
        <5>1. tick_funcs \in Seq(AllTasks)
          BY DEF SharedExact
        <5> HIDE DEF AllTasks
        <5>2. i \in 1..Len(tick_funcs') /\ tick_funcs'[i] = TimeoutTick
          BY <2>2 DEF Where
        <5> QED
          BY <4>2, <5>1, <5>2, MovesUp
      <4> QED
        BY <3>1, <4>1, <4>2
    <3>4. 1..Len(tmo_list) \subseteq Nat /\ 1..Len(tick_funcs) \subseteq Nat
      BY Sizes
    <3> QED
      BY <3>2, <3>3, <3>4 DEF Where
  <2> QED
    BY <1>2, <2>1, <2>2
<1>5. ASSUME NEW u \in Timeouts, NEW n \in 1..MaxInterval, timeout_register(u, n)
      PROVE  Lateness'
  <2>1. ASSUME NEW t \in Timeouts, NEW i \in Nat, NEW j \in Nat, Where(i, j, t)'
        PROVE  Overdue(t)' < 0 \/ (Same(t) /\ Found(t, i, j))
    <3>1. /\ tmo_list' = With(tmo_list, u, MaxTimeouts)
          /\ expires' = IF Contains(tmo_list', u)
                        THEN [expires EXCEPT ![u] = (current_tick + n) % Modulus]
                        ELSE expires
          /\ tick_funcs' = IF tmo_list = <<>> THEN With(tick_funcs, TimeoutTick, MaxTasks)
                           ELSE tick_funcs
      BY <1>5 DEF timeout_register
    <3>2. CASE t = u
      <4>1. Contains(tmo_list', u)
        BY <2>1, <3>2 DEF Where, Contains
      <4>2. expires'[t] = (current_tick + n) % Modulus /\ current_tick' = current_tick
        BY <1>1, <3>1, <3>2, <4>1 DEF HandlerExact
      <4>3. Overdue(t)' = -n
        BY <4>2, Differences DEF HandlerExact, Overdue
      <4> QED
        BY <4>3, TickAssumption
    <3>3. CASE t # u
      <4>1. expires'[t] = expires[t]
        BY <3>1, <3>3 DEF HandlerExact
      <4>2. Same(t)
        BY <1>1, <4>1 DEF Overdue
      <4>3. j \in 1..Len(tmo_list) /\ tmo_list[j] = t
        <5>1. j \in 1..Len(tmo_list') /\ tmo_list'[j] = t
          BY <2>1 DEF Where
        <5> QED
          BY <3>1, <3>3, <5>1, StaysPut, TickAssumption DEF SharedExact
      <4>4. tmo_list # <<>>
        BY <4>3, EmptyOrNot DEF Contains, SharedExact
      <4>5. tick_funcs' = tick_funcs
        BY <3>1, <4>4
      <4>6. Where(i, j, t)
        BY <2>1, <4>3, <4>5 DEF Where
      <4>7. i <= i /\ j <= j
        OBVIOUS
      <4> QED
        BY <4>2, <4>6, <4>7
    <3> QED
      BY <3>2, <3>3
  <2> QED
    BY <1>2, <2>1
<1>6. ASSUME NEW f \in Tasks, tick_add_task(f) \/ tick_remove_task(f)
      PROVE  Lateness'
  <2>1. f # TimeoutTick /\ UNCHANGED <<tmo_list, expires>>
    BY <1>6, TickAssumption DEF tick_add_task, tick_remove_task
  <2>2. ASSUME NEW i \in 1..Len(tick_funcs'), tick_funcs'[i] = TimeoutTick
        PROVE  \E k \in 1..Len(tick_funcs) : i <= k /\ tick_funcs[k] = TimeoutTick
    <3>1. CASE tick_add_task(f)
      <4>1. tick_funcs' = With(tick_funcs, f, MaxTasks)
        BY <3>1 DEF tick_add_task
      <4>2. i \in 1..Len(tick_funcs) /\ tick_funcs[i] = tick_funcs'[i]
        <5> DEFINE AllTasks == Tasks \cup {TimeoutTick}
        <5>1. tick_funcs \in Seq(AllTasks) /\ f \in AllTasks /\ MaxTasks \in Nat
          BY TickAssumption DEF SharedExact
        <5> HIDE DEF AllTasks
        <5> QED
          BY <2>1, <2>2, <4>1, <5>1, StaysPut
      <4>3. i <= i
        BY Sizes
      <4> QED
        BY <2>2, <4>2, <4>3
    <3>2. CASE tick_remove_task(f)
      <4>1. tick_funcs' = Without(tick_funcs, f)
        BY <3>2 DEF tick_remove_task
      <4> QED
        BY <2>2, <4>1, MovesUp DEF SharedExact
    <3> QED
      BY <1>6, <3>1, <3>2
  <2>3. ASSUME NEW t \in Timeouts, NEW i \in Nat, NEW j \in Nat, Where(i, j, t)'
        PROVE  Found(t, i, j)
    <3>1. \E k \in 1..Len(tick_funcs) : i <= k /\ tick_funcs[k] = TimeoutTick
      BY <2>2, <2>3 DEF Where
    <3>2. j \in 1..Len(tmo_list) /\ tmo_list[j] = t /\ j <= j
      BY <2>1, <2>3 DEF Where
    <3>3. 1..Len(tick_funcs) \subseteq Nat
      BY Sizes
    <3> QED
      BY <3>1, <3>2, <3>3 DEF Where
  <2> QED
    BY <1>2, <1>3, <2>1, <2>3
<1> QED
  BY <1>4, <1>5, <1>6 DEF Call

(* A callback that returns: its own timeout is re-armed or gone, the       *)
(* others may have moved up.                                               *)
LEMMA CallbackNoLater ==
    ASSUME HandlerExact, HandlerExact', SharedExact, SharedExact', Lateness, CallbackReturns
    PROVE  Lateness'
<1>1. /\ pc = "callback" /\ pc' = "timeouts" /\ curr \in Timeouts
      /\ tmoPos' = tmoPos + 1 /\ tmoPos \in Nat /\ fnPos \in Nat
      /\ UNCHANGED <<current_tick, fnPos>>
  BY DEF CallbackReturns, HandlerExact
<1>2. ASSUME NEW t \in Timeouts, t # curr, NEW i \in Nat, NEW j \in Nat, NEW k \in Nat, NEW l \in Nat,
             i <= k, j <= l
      PROVE  (Ahead(k, l, t) => Ahead(i, j, t)') \/ i + j < k + l
  <2>1. CASE i = k /\ j = l
    <3>1. Ahead(k, l, t) => fnPos < i \/ tmoPos < j
      BY <1>1, <1>2, <2>1 DEF Ahead
    <3>2. tmoPos < j => tmoPos' <= j
      BY <1>1
    <3>3. fnPos < i \/ tmoPos' <= j => Ahead(i, j, t)'
      BY <1>1 DEF Ahead
    <3> QED
      BY <1>1, <3>1, <3>2, <3>3
  <2>2. CASE ~(i = k /\ j = l)
    BY <1>2, <2>2
  <2> QED
    BY <2>1, <2>2
<1>3. CASE /\ \E n \in 1..MaxInterval :
                expires' = [expires EXCEPT ![curr] = (current_tick + n) % Modulus]
           /\ UNCHANGED <<tick_funcs, tmo_list>>
  <2>1. PICK n \in 1..MaxInterval, c \in Timeouts :
          c = curr /\ expires' = [expires EXCEPT ![c] = (current_tick + n) % Modulus]
    BY <1>1, <1>3
  <2>2. Overdue(c)' < 0
    <3>1. expires'[c] = (current_tick + n) % Modulus /\ current_tick' = current_tick
      BY <1>1, <2>1 DEF HandlerExact
    <3>2. Overdue(c)' = -n
      BY <3>1, Differences DEF HandlerExact, Overdue
    <3> QED
      BY <3>2, TickAssumption
  <2>3. ASSUME NEW t \in Timeouts, NEW i \in Nat, NEW j \in Nat, Where(i, j, t)', t # c
        PROVE  /\ Overdue(t)' = Overdue(t)
               /\ \E k, l \in Nat :
                    /\ Where(k, l, t) /\ i <= k /\ j <= l
                    /\ (Ahead(k, l, t) => Ahead(i, j, t)') \/ i + j < k + l
    <3>1. Overdue(t)' = Overdue(t)
      BY <1>1, <2>1, <2>3 DEF HandlerExact, Overdue
    <3>2. Where(i, j, t) /\ i <= i /\ j <= j
      BY <1>3, <2>3 DEF Where
    <3> QED
      BY <1>2, <2>1, <2>3, <3>1, <3>2
  <2>4. ASSUME NEW t \in Timeouts, NEW i \in Nat, NEW j \in Nat, Where(i, j, t)'
        PROVE  \/ Overdue(t)' < 0
               \/ /\ Overdue(t)' = Overdue(t)
                  /\ \E k, l \in Nat :
                       /\ Where(k, l, t) /\ i <= k /\ j <= l
                       /\ (Ahead(k, l, t) => Ahead(i, j, t)') \/ i + j < k + l
    <3>1. CASE t = c
      BY <2>2, <3>1
    <3>2. CASE t # c
      BY <2>3, <2>4, <3>2
    <3> QED
      BY <3>1, <3>2
  <2> QED
    BY <2>4, NoLater
<1>4. CASE Deactivate(curr) /\ UNCHANGED expires
  <2>1. ASSUME NEW t \in Timeouts, NEW i \in Nat, NEW j \in Nat, Where(i, j, t)'
        PROVE  t # curr /\ \E k, l \in Nat : Where(k, l, t) /\ i <= k /\ j <= l
    <3>1. /\ tmo_list' = Without(tmo_list, curr)
          /\ tick_funcs' = tick_funcs \/ tick_funcs' = Without(tick_funcs, TimeoutTick)
      BY <1>4 DEF Deactivate
    <3>2. \E l \in 1..Len(tmo_list) : j <= l /\ tmo_list[l] = t
      BY <2>1, <3>1, MovesUp DEF Where, SharedExact
    <3>3. t # curr
      <4>1. Contains(tmo_list', t)
        BY <2>1 DEF Where, Contains
      <4> QED
        BY <3>1, <4>1, WithoutKeeps DEF SharedExact
    <3>4. \E k \in 1..Len(tick_funcs) : i <= k /\ tick_funcs[k] = TimeoutTick
      <4> DEFINE AllTasks == Tasks \cup {TimeoutTick}
      <4>1. tick_funcs \in Seq(AllTasks) /\ i <= i
        BY DEF SharedExact
      <4> HIDE DEF AllTasks
      <4>2. i \in 1..Len(tick_funcs') /\ tick_funcs'[i] = TimeoutTick
        BY <2>1 DEF Where
      <4>3. CASE tick_funcs' = tick_funcs
        BY <4>1, <4>2, <4>3
      <4>4. CASE tick_funcs' = Without(tick_funcs, TimeoutTick)
        BY <4>1, <4>2, <4>4, MovesUp
      <4> QED
        BY <3>1, <4>3, <4>4
    <3>5. 1..Len(tmo_list) \subseteq Nat /\ 1..Len(tick_funcs) \subseteq Nat
      BY Sizes
    <3> QED
      BY <3>2, <3>3, <3>4, <3>5 DEF Where
  <2>2. \A t \in Timeouts : Overdue(t)' = Overdue(t)
    BY <1>1, <1>4 DEF Overdue
  <2>3. ASSUME NEW t \in Timeouts, NEW i \in Nat, NEW j \in Nat, Where(i, j, t)'
        PROVE  \E k, l \in Nat :
                 /\ Where(k, l, t) /\ i <= k /\ j <= l
                 /\ (Ahead(k, l, t) => Ahead(i, j, t)') \/ i + j < k + l
    BY <1>2, <2>1, <2>3
  <2> QED
    BY <2>2, <2>3, NoLater
<1> QED
  BY <1>3, <1>4 DEF CallbackReturns

(* The steps of the handler that change neither list: who is passed was    *)
(* not due, or had been passed.                                            *)
LEMMA HandlerNoLater ==
    ASSUME HandlerExact, HandlerExact', SharedExact, SharedExact', Lateness,
           \/ CallTask \/ TaskReturns \/ InterruptReturns \/ LookAtTimeout \/ TimeoutsDone
           \/ UNCHANGED vars
    PROVE  Lateness'
<1>1. UNCHANGED <<current_tick, expires, tick_funcs, tmo_list>>
  BY DEF CallTask, TaskReturns, InterruptReturns, LookAtTimeout, TimeoutsDone, vars, listVars
<1>2. /\ \A t \in Timeouts : Overdue(t)' = Overdue(t)
      /\ \A t, i, j : Where(i, j, t)' <=> Where(i, j, t)
  BY <1>1 DEF Overdue, Where
<1>3. ASSUME NEW t \in Timeouts, NEW i \in Nat, NEW j \in Nat, Where(i, j, t), Ahead(i, j, t)
      PROVE  Ahead(i, j, t)' \/ Overdue(t) < 0
  <2>1. /\ fnPos \in Nat /\ tmoPos \in Nat
        /\ Len(tick_funcs) \in Nat /\ Len(tmo_list) \in Nat
        /\ i <= Len(tick_funcs) /\ j <= Len(tmo_list) /\ 1 <= j
        /\ tick_funcs[i] = TimeoutTick /\ tmo_list[j] = t
    <3>1. Len(tick_funcs) \in Nat /\ Len(tmo_list) \in Nat
      BY Sizes
    <3> QED
      BY <1>3, <3>1 DEF HandlerExact, Where
  <2>2. CASE CallTask
    <3>1. pc = "tasks" /\ fnPos <= i
      BY <1>3, <2>2 DEF Ahead, CallTask
    <3>2. CASE tick_funcs[fnPos] = TimeoutTick
      BY <2>1, <2>2, <3>2 DEF Ahead, CallTask
    <3>3. CASE tick_funcs[fnPos] # TimeoutTick
      <4>1. fnPos < i /\ pc' = "task" /\ fnPos' = fnPos
        BY <2>1, <2>2, <3>1, <3>3 DEF CallTask
      <4> QED
        BY <4>1 DEF Ahead
    <3> QED
      BY <3>2, <3>3
  <2>3. CASE TaskReturns
    BY <1>3, <2>1, <2>3 DEF Ahead, TaskReturns
  <2>4. CASE InterruptReturns
    BY <1>3, <2>1, <2>4 DEF Ahead, InterruptReturns
  <2>5. CASE LookAtTimeout
    <3>1. /\ pc = "timeouts" /\ fnPos' = fnPos /\ tmoPos \in 1..Len(tmo_list)
          /\ fnPos < i \/ tmoPos <= j
      BY <1>3, <2>1, <2>5 DEF Ahead, LookAtTimeout, HandlerExact
    <3>2. CASE fnPos < i
      <4>1. pc' \in {"timeouts", "callback"}
        BY <2>5, <3>1 DEF LookAtTimeout
      <4> QED
        BY <3>1, <3>2, <4>1 DEF Ahead
    <3>3. CASE tmoPos = j
      <4>1. CASE TimeBefore(current_tick, expires[t])
        BY <4>1 DEF TimeBefore, Overdue
      <4>2. CASE ~TimeBefore(current_tick, expires[t])
        BY <2>1, <2>5, <3>3, <4>2 DEF LookAtTimeout, Ahead
      <4> QED
        BY <4>1, <4>2
    <3>4. CASE tmoPos < j
      <4>1. \/ pc' = "timeouts" /\ tmoPos' = tmoPos + 1
            \/ pc' = "callback" /\ tmoPos' = tmoPos
        BY <2>5, <3>1 DEF LookAtTimeout
      <4>2. tmoPos + 1 <= j
        BY <2>1, <3>4
      <4> QED
        BY <3>4, <4>1, <4>2 DEF Ahead
    <3> QED
      BY <2>1, <3>1, <3>2, <3>3, <3>4
  <2>6. CASE TimeoutsDone
    <3>1. pc = "timeouts" /\ tmoPos > Len(tmo_list) /\ pc' = "tasks" /\ fnPos' = fnPos + 1
      BY <2>6 DEF TimeoutsDone
    <3>2. fnPos < i
      BY <1>3, <2>1, <3>1 DEF Ahead
    <3>3. fnPos' <= i
      BY <2>1, <3>1, <3>2
    <3> QED
      BY <3>1, <3>3 DEF Ahead
  <2>7. CASE UNCHANGED vars
    BY <1>3, <2>7 DEF vars, Ahead
  <2> QED
    BY <2>2, <2>3, <2>4, <2>5, <2>6, <2>7
<1>4. ASSUME NEW t \in Timeouts, NEW i \in Nat, NEW j \in Nat, Where(i, j, t)'
      PROVE  \/ Overdue(t)' < 0
             \/ /\ Overdue(t)' = Overdue(t)
                /\ \E k, l \in Nat :
                     /\ Where(k, l, t) /\ i <= k /\ j <= l
                     /\ (Ahead(k, l, t) => Ahead(i, j, t)') \/ i + j < k + l
  <2>1. i <= i /\ j <= j /\ Where(i, j, t)
    BY <1>2, <1>4
  <2> QED
    BY <1>2, <1>3, <2>1
<1> QED
  BY <1>4, NoLater

(* A tick passes: before it nobody was waited for, after it everybody is.  *)
LEMMA TickNoLater ==
    ASSUME HandlerExact, SharedExact, Lateness, TimerInterrupt
    PROVE  Lateness'
<1> SUFFICES ASSUME NEW t \in Timeouts, NEW i \in Nat, NEW j \in Nat, Where(i, j, t)'
             PROVE  Overdue(t)' <= (MaxTimeouts - j) + (MaxTasks - i)
                                      - (IF Ahead(i, j, t)' THEN 0 ELSE 1)
  BY DEF Lateness
<1>1. /\ pc = "thread" /\ pc' = "tasks" /\ fnPos' = 1
      /\ current_tick' = (current_tick + 1) % Modulus
      /\ UNCHANGED <<expires, tick_funcs, tmo_list>>
  BY DEF TimerInterrupt, listVars
<1>2. Where(i, j, t) /\ ~Ahead(i, j, t)
  BY <1>1 DEF Where, Ahead
<1>3. 1 <= i /\ 1 <= j
  BY <1>2, Sizes DEF Where
<1>4. Ahead(i, j, t)'
  BY <1>1, <1>3 DEF Ahead
<1>5. Overdue(t) <= (MaxTimeouts - j) + (MaxTasks - i) - 1
  BY <1>2 DEF Lateness
<1>6. Overdue(t) \in Int /\ Overdue(t) < Modulus \div 2 - 1
  <2>1. Overdue(t) \in Int
    BY OverdueInt
  <2> QED
    BY <1>3, <1>5, <2>1, Sizes
<1>7. Overdue(t)' = Overdue(t) + 1
  BY <1>1, <1>6, Differences DEF HandlerExact, Overdue
<1> QED
  BY <1>3, <1>4, <1>5, <1>6, <1>7, Sizes

-----------------------------------------------------------------------------
TickInv == HandlerExact /\ SharedExact /\ Lateness

LEMMA TickInvInductive == Spec => []TickInv
<1>1. Init => TickInv
  <2> SUFFICES ASSUME Init PROVE TickInv
    OBVIOUS
  <2>1. HandlerExact
    BY TickAssumption DEF Init, HandlerExact
  <2>2. SharedExact
    BY TickAssumption DEF Init, SharedExact, NoDuplicates, Contains
  <2>3. Lateness
    BY DEF Init, Lateness, Where
  <2> QED
    BY <2>1, <2>2, <2>3 DEF TickInv
<1>2. TickInv /\ [Next]_vars => TickInv'
  <2> SUFFICES ASSUME TickInv, [Next]_vars PROVE TickInv'
    OBVIOUS
  <2>1. HandlerExact' /\ SharedExact'
    BY HandlerKept, SharedKept DEF TickInv
  <2>2. Lateness'
    BY <2>1, CallNoLater, CallbackNoLater, HandlerNoLater, TickNoLater DEF TickInv, Next
  <2> QED
    BY <2>1, <2>2 DEF TickInv
<1> QED
  BY <1>1, <1>2, PTL DEF Spec

(* A removal under the handler's feet costs the entry that moves up one    *)
(* tick, and no more: between ticks a timeout is overdue by less than the  *)
(* places that it and timeout_tick can have moved up from.                 *)
THEOREM TicksOverdueBounded == Spec => []OverdueBounded
<1>1. ASSUME TickInv PROVE OverdueBounded
  <2> SUFFICES ASSUME pc = "thread", NEW t \in ToSet(tmo_list)
               PROVE  Overdue(t) < (MaxTimeouts - Position(tmo_list, t))
                                 + (MaxTasks - Position(tick_funcs, TimeoutTick))
    BY DEF OverdueBounded
  <2>1. PICK j \in 1..Len(tmo_list) : tmo_list[j] = t
    BY <1>1 DEF ToSet, TickInv, SharedExact
  <2>2. Contains(tick_funcs, TimeoutTick)
    BY <1>1, <2>1, EmptyOrNot DEF TickInv, SharedExact, Contains
  <2>3. PICK i \in 1..Len(tick_funcs) : tick_funcs[i] = TimeoutTick
    BY <2>2 DEF Contains
  <2>4. Position(tmo_list, t) = j /\ Position(tick_funcs, TimeoutTick) = i
    BY <1>1, <2>1, <2>3, PositionIs DEF TickInv, SharedExact
  <2>5. i \in Nat /\ j \in Nat /\ t \in Timeouts /\ Where(i, j, t) /\ ~Ahead(i, j, t)
    BY <1>1, <2>1, <2>3, Sizes DEF TickInv, SharedExact, Where, Ahead
  <2>6. Overdue(t) <= (MaxTimeouts - j) + (MaxTasks - i) - 1
    BY <1>1, <2>5 DEF TickInv, Lateness
  <2>7. Overdue(t) \in Int /\ MaxTimeouts \in Nat /\ MaxTasks \in Nat
    BY <1>1, <2>5, OverdueInt, Sizes DEF TickInv
  <2> QED
    BY <2>4, <2>5, <2>6, <2>7
<1> QED
  BY <1>1, TickInvInductive, PTL

-----------------------------------------------------------------------------
(* The refinement: what of TickTimeouts an observer of Alarms sees. *)
Left == [t \in Timeouts |-> IF Contains(tmo_list, t) THEN -Overdue(t) ELSE 0]
Armed == ToSet(tmo_list)

LEMMA Seen ==
    ASSUME SharedExact
    PROVE  /\ \A t : t \in Armed <=> Contains(tmo_list, t)
           /\ Armed \subseteq Timeouts
           /\ \A t \in Timeouts : Left[t] = IF t \in Armed THEN -Overdue(t) ELSE 0
<1>1. \A t : t \in Armed <=> Contains(tmo_list, t)
  BY DEF Armed, ToSet, Contains
<1>2. Armed \subseteq Timeouts
  BY DEF Armed, ToSet, SharedExact
<1> QED
  BY <1>1, <1>2 DEF Left

LEMMA SeenNext ==
    ASSUME SharedExact'
    PROVE  /\ \A t : t \in Armed' <=> Contains(tmo_list', t)
           /\ Armed' \subseteq Timeouts
           /\ Left' = [t \in Timeouts |-> IF t \in Armed' THEN -Overdue(t)' ELSE 0]
<1>1. \A t : t \in Armed' <=> Contains(tmo_list', t)
  BY DEF Armed, ToSet, Contains
<1>2. Armed' \subseteq Timeouts
  BY DEF Armed, ToSet, SharedExact
<1> QED
  BY <1>1, <1>2 DEF Left

(* A timeout that leaves the list, or was not in it. *)
LEMMA Silenced ==
    ASSUME SharedExact, SharedExact', NEW u \in Timeouts,
           Deactivate(u), UNCHANGED <<expires, current_tick>>
    PROVE  Left' = [Left EXCEPT ![u] = 0] /\ Armed' = Armed \ {u}
<1>1. \A t : Contains(tmo_list', t) <=> Contains(tmo_list, t) /\ t # u
  BY WithoutKeeps DEF SharedExact, Deactivate
<1>2. \A t : t \in Armed' <=> t \in Armed /\ t # u
  BY <1>1, Seen, SeenNext
<1>3. \A t \in Timeouts : Overdue(t)' = Overdue(t)
  BY DEF Overdue
<1>4. /\ Left' = [t \in Timeouts |-> IF t \in Armed' THEN -Overdue(t)' ELSE 0]
      /\ \A t \in Timeouts : Left[t] = IF t \in Armed THEN -Overdue(t) ELSE 0
  BY Seen, SeenNext
<1>5. ASSUME NEW t \in Timeouts
      PROVE  Left'[t] = IF t = u THEN 0 ELSE Left[t]
  BY <1>2, <1>3, <1>4
<1>6. Left' = [Left EXCEPT ![u] = 0]
  BY <1>4, <1>5 DEF Left
<1>7. Armed' = Armed \ {u}
  BY <1>2
<1> QED
  BY <1>6, <1>7

(* A timeout in the list that gets a new time. *)
LEMMA Rearmed ==
    ASSUME HandlerExact, SharedExact', NEW u \in Timeouts, NEW n \in 1..MaxInterval,
           expires' = [expires EXCEPT ![u] = (current_tick + n) % Modulus],
           current_tick' = current_tick, u \in Armed',
           \A t \in Timeouts : t # u => (t \in Armed' <=> t \in Armed), SharedExact
    PROVE  Left' = [Left EXCEPT ![u] = n]
<1>1. Overdue(u)' = -n
  <2>1. expires'[u] = (current_tick + n) % Modulus
    BY DEF HandlerExact
  <2> QED
    BY <2>1, Differences DEF HandlerExact, Overdue
<1>2. ASSUME NEW t \in Timeouts, t # u PROVE Overdue(t)' = Overdue(t)
  <2>1. expires'[t] = expires[t]
    BY <1>2 DEF HandlerExact
  <2> QED
    BY <2>1 DEF Overdue
<1>3. /\ Left' = [t \in Timeouts |-> IF t \in Armed' THEN -Overdue(t)' ELSE 0]
      /\ \A t \in Timeouts : Left[t] = IF t \in Armed THEN -Overdue(t) ELSE 0
  BY Seen, SeenNext
<1>4. -(-n) = n
  OBVIOUS
<1>5. ASSUME NEW t \in Timeouts
      PROVE  Left'[t] = IF t = u THEN n ELSE Left[t]
  BY <1>1, <1>2, <1>3, <1>4
<1> QED
  BY <1>3, <1>5 DEF Left

(* The calls. *)
LEMMA CallSeen ==
    ASSUME HandlerExact, SharedExact, SharedExact', Call
    PROVE  \/ UNCHANGED <<Left, Armed, curr>>
           \/ \E t \in Timeouts : /\ Left' = [Left EXCEPT ![t] = 0] /\ Armed' = Armed \ {t}
                                  /\ UNCHANGED curr
           \/ \E t \in Timeouts, n \in 1..MaxInterval :
                /\ Left' = [Left EXCEPT ![t] = n] /\ Armed' = Armed \cup {t}
                /\ UNCHANGED curr
<1>1. UNCHANGED <<curr, current_tick>>
  BY DEF Call, timeout_cancel, timeout_register, tick_add_task, tick_remove_task
<1>2. ASSUME NEW t \in Timeouts, timeout_cancel(t)
      PROVE  Left' = [Left EXCEPT ![t] = 0] /\ Armed' = Armed \ {t}
  BY <1>2, Silenced DEF timeout_cancel
<1>3. ASSUME NEW t \in Timeouts, NEW n \in 1..MaxInterval, timeout_register(t, n)
      PROVE  \/ UNCHANGED <<Left, Armed>>
             \/ Left' = [Left EXCEPT ![t] = n] /\ Armed' = Armed \cup {t}
  <2>1. tmo_list' = With(tmo_list, t, MaxTimeouts)
    BY <1>3 DEF timeout_register
  <2>2. CASE Contains(tmo_list', t)
    <3>1. expires' = [expires EXCEPT ![t] = (current_tick + n) % Modulus]
      BY <1>3, <2>2 DEF timeout_register
    <3>2. /\ \A y : Contains(tmo_list, y) => Contains(tmo_list', y)
          /\ \A y : Contains(tmo_list', y) => Contains(tmo_list, y) \/ y = t
      BY <2>1, WithKeeps, TickAssumption DEF SharedExact
    <3>3. t \in Armed' /\ \A y : y \in Armed' <=> y \in Armed \/ y = t
      BY <2>2, <3>2, Seen, SeenNext
    <3>4. Left' = [Left EXCEPT ![t] = n]
      BY <1>1, <3>1, <3>3, Rearmed
    <3> QED
      BY <3>3, <3>4
  <2>3. CASE ~Contains(tmo_list', t)
    <3>1. expires' = expires
      BY <1>3, <2>3 DEF timeout_register
    <3>2. tmo_list' = tmo_list
      <4>1. Contains(Append(tmo_list, t), t)
        <5>1. /\ Len(tmo_list) + 1 \in 1..Len(Append(tmo_list, t))
              /\ Append(tmo_list, t)[Len(tmo_list) + 1] = t
          BY DEF SharedExact
        <5> QED
          BY <5>1 DEF Contains
      <4> QED
        BY <2>1, <2>3, <4>1 DEF With
    <3> QED
      BY <1>1, <3>1, <3>2 DEF Left, Armed, Overdue
  <2> QED
    BY <2>2, <2>3
<1>4. ASSUME NEW f \in Tasks, tick_add_task(f) \/ tick_remove_task(f)
      PROVE  UNCHANGED <<Left, Armed>>
  BY <1>4 DEF tick_add_task, tick_remove_task, Left, Armed, Overdue
<1> QED
  BY <1>1, <1>2, <1>3, <1>4 DEF Call

(* A tick: everybody armed is one tick nearer, and nobody was too late.    *)
LEMMA TickSeen ==
    ASSUME TickInv, TickInv', TimerInterrupt
    PROVE  /\ curr = None /\ UNCHANGED <<Armed, curr>>
           /\ \A t \in Armed : Left[t] >= -MaxLate
           /\ Left' = [t \in Timeouts |-> IF t \in Armed THEN Left[t] - 1 ELSE 0]
<1>1. /\ pc = "thread" /\ curr = None /\ curr' = curr /\ Armed' = Armed
      /\ current_tick' = (current_tick + 1) % Modulus /\ expires' = expires
  BY DEF TimerInterrupt, listVars, TickInv, HandlerExact, Armed
<1>2. /\ Left' = [t \in Timeouts |-> IF t \in Armed' THEN -Overdue(t)' ELSE 0]
      /\ \A t \in Timeouts : Left[t] = IF t \in Armed THEN -Overdue(t) ELSE 0
      /\ Armed \subseteq Timeouts
  BY Seen, SeenNext DEF TickInv
<1>3. ASSUME NEW t \in Timeouts, t \in Armed
      PROVE  /\ Left[t] >= -MaxLate
             /\ -Overdue(t)' = Left[t] - 1
  <2>1. PICK j \in 1..Len(tmo_list) : tmo_list[j] = t
    BY <1>3, Seen DEF TickInv, Contains
  <2>2. Contains(tick_funcs, TimeoutTick)
    BY <1>3, Seen, EmptyOrNot DEF TickInv, SharedExact
  <2>3. PICK i \in 1..Len(tick_funcs) : tick_funcs[i] = TimeoutTick
    BY <2>2 DEF Contains
  <2>4. /\ i \in Nat /\ j \in Nat /\ 1 <= i /\ 1 <= j
        /\ MaxTimeouts \in Nat /\ MaxTasks \in Nat /\ Modulus \div 2 \in Nat
        /\ MaxTimeouts + MaxTasks <= Modulus \div 2
    BY <2>1, <2>3, Sizes DEF TickInv
  <2>5. Where(i, j, t) /\ ~Ahead(i, j, t)
    BY <1>1, <2>1, <2>3 DEF Where, Ahead
  <2>6. Overdue(t) <= (MaxTimeouts - j) + (MaxTasks - i) - 1
    BY <2>4, <2>5 DEF TickInv, Lateness
  <2>7. Overdue(t) \in Int
    BY OverdueInt DEF TickInv
  <2>8. Overdue(t) <= MaxTimeouts + MaxTasks - 3 /\ Overdue(t) < Modulus \div 2 - 1
    BY <2>4, <2>6, <2>7
  <2>9. Overdue(t)' = Overdue(t) + 1
    BY <1>1, <2>8, Differences DEF TickInv, HandlerExact, Overdue
  <2>10. Left[t] = -Overdue(t)
    BY <1>2, <1>3
  <2> QED
    BY <2>4, <2>7, <2>8, <2>9, <2>10 DEF MaxLate
<1> QED
  BY <1>1, <1>2, <1>3

(* The walk over the timeouts: a callback is called only for a timeout     *)
(* that is armed and due.                                                  *)
LEMMA LookSeen ==
    ASSUME HandlerExact, SharedExact, LookAtTimeout
    PROVE  /\ UNCHANGED <<Left, Armed>> /\ curr = None
           /\ \/ curr' = curr
              \/ curr' \in Armed /\ Left[curr'] <= 0
<1>1. UNCHANGED <<Left, Armed>> /\ curr = None
  BY DEF LookAtTimeout, listVars, Left, Armed, Overdue, HandlerExact
<1>2. PICK t \in Timeouts : t = tmo_list[tmoPos] /\ Contains(tmo_list, t)
  <2>1. tmoPos \in 1..Len(tmo_list)
    BY DEF LookAtTimeout, HandlerExact, SharedExact
  <2> QED
    BY <2>1 DEF SharedExact, Contains
<1>3. CASE TimeBefore(current_tick, expires[t])
  BY <1>1, <1>2, <1>3 DEF LookAtTimeout
<1>4. CASE ~TimeBefore(current_tick, expires[t])
  <2>1. curr' = t /\ t \in Armed
    BY <1>2, <1>4, Seen DEF LookAtTimeout
  <2>2. Overdue(t) \in Int /\ ~(Overdue(t) < 0)
    BY <1>4, OverdueInt DEF TimeBefore, Overdue
  <2>3. Left[t] = -Overdue(t)
    BY <2>1, Seen
  <2>4. Left[t] <= 0
    BY <2>2, <2>3
  <2> QED
    BY <1>1, <2>1, <2>4
<1> QED
  BY <1>3, <1>4

(* A callback returns. *)
LEMMA ReturnSeen ==
    ASSUME HandlerExact, SharedExact, SharedExact', CallbackReturns
    PROVE  /\ curr \in Timeouts /\ curr' = None
           /\ \/ UNCHANGED <<Left, Armed>> /\ curr \notin Armed
              \/ /\ \E n \in 1..MaxInterval : Left' = [Left EXCEPT ![curr] = n]
                 /\ curr \in Armed /\ UNCHANGED Armed
              \/ Left' = [Left EXCEPT ![curr] = 0] /\ Armed' = Armed \ {curr}
<1>1. PICK c \in Timeouts : c = curr
  BY DEF HandlerExact, CallbackReturns
<1>2. curr' = None /\ current_tick' = current_tick
  BY DEF CallbackReturns
<1>3. CASE Deactivate(c) /\ UNCHANGED expires
  <2>1. Left' = [Left EXCEPT ![c] = 0] /\ Armed' = Armed \ {c}
    BY <1>2, <1>3, Silenced
  <2> QED
    BY <1>1, <1>2, <2>1
<1>4. ASSUME NEW n \in 1..MaxInterval, UNCHANGED tmo_list,
             expires' = [expires EXCEPT ![c] = (current_tick + n) % Modulus]
      PROVE  \/ UNCHANGED <<Left, Armed>> /\ c \notin Armed
             \/ Left' = [Left EXCEPT ![c] = n] /\ c \in Armed /\ UNCHANGED Armed
  <2>1. Armed' = Armed
    BY <1>4 DEF Armed
  <2>2. CASE c \in Armed
    <3>1. Left' = [Left EXCEPT ![c] = n]
      BY <1>2, <1>4, <2>1, <2>2, Rearmed
    <3> QED
      BY <2>1, <2>2, <3>1
  <2>3. CASE c \notin Armed
    <3>1. ASSUME NEW t \in Timeouts, t \in Armed PROVE Overdue(t)' = Overdue(t)
      <4>1. expires'[t] = expires[t]
        BY <1>4, <2>3, <3>1 DEF HandlerExact
      <4> QED
        BY <1>2, <4>1 DEF Overdue
    <3>2. /\ Left' = [t \in Timeouts |-> IF t \in Armed THEN -Overdue(t)' ELSE 0]
          /\ Left = [t \in Timeouts |-> IF t \in Armed THEN -Overdue(t) ELSE 0]
      BY <2>1, Seen, SeenNext DEF Left
    <3> QED
      BY <2>1, <2>3, <3>1, <3>2
  <2> QED
    BY <2>2, <2>3
<1> QED
  BY <1>1, <1>2, <1>3, <1>4 DEF CallbackReturns

(* The timeouts are alarms, whatever the callbacks and tick tasks do to    *)
(* the lists while the handler walks them, for every width of the counter: *)
(* none rings early or after it was cancelled, and none is ever more than  *)
(* MaxLate ticks late.                                                     *)
THEOREM TicksImplementAlarms == Spec => ImplementsAlarms
<1> USE DEF Left, Armed
<1>1. Init /\ TickInv => Alarm!Init
  <2> SUFFICES ASSUME Init, TickInv PROVE Alarm!Init
    OBVIOUS
  <2>1. \A t : ~Contains(tmo_list, t)
    BY DEF Init, Contains
  <2>2. Armed = {}
    BY <2>1, Seen DEF TickInv
  <2> QED
    BY <2>1, <2>2 DEF Init, Alarm!Init
<1>2. ASSUME TickInv, TickInv', Next
      PROVE  Alarm!Next \/ UNCHANGED <<Left, Armed, curr>>
  <2>1. CASE Call
    BY <1>2, <2>1, CallSeen DEF TickInv, Alarm!Next, Alarm!Cancel, Alarm!SetAlarm
  <2>2. CASE TimerInterrupt
    BY <1>2, <2>2, TickSeen DEF Alarm!Next, Alarm!Clock
  <2>3. CASE LookAtTimeout
    BY <1>2, <2>3, LookSeen, Seen DEF TickInv, Alarm!Next, Alarm!Ring
  <2>4. CASE CallbackReturns
    BY <1>2, <2>4, ReturnSeen DEF TickInv, Alarm!Next, Alarm!RingDone
  <2>5. CASE CallTask \/ TaskReturns \/ InterruptReturns \/ TimeoutsDone
    BY <2>5 DEF CallTask, TaskReturns, InterruptReturns, TimeoutsDone, listVars, Overdue
  <2> QED
    BY <1>2, <2>1, <2>2, <2>3, <2>4, <2>5 DEF Next
<1>3. UNCHANGED vars => UNCHANGED <<Left, Armed, curr>>
  BY DEF vars, listVars, Overdue
<1>4. TickInv /\ TickInv' /\ [Next]_vars => [Alarm!Next]_<<Left, Armed, curr>>
  BY <1>2, <1>3
<1> QED
  BY <1>1, <1>4, TickInvInductive, PTL DEF Spec, ImplementsAlarms, Alarm!Spec, Alarm!vars
=============================================================================
