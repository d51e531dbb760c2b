----------------------------- MODULE EventQueue -----------------------------
(***************************************************************************)
(* struct event_queue of firmware/kernel/queue.c: the ring of messages     *)
(* every firmware thread is driven by, with the synchronous sends whose    *)
(* callers block until the receiver replies.                               *)
(*                                                                         *)
(* One step is one stretch of code run with interrupts disabled and the    *)
(* queue's core lock held.  A call that blocks is split where              *)
(* switch_thread() gives the processor away: everything the other threads  *)
(* and the interrupt handlers may do to the queue happens between the two  *)
(* halves.  "running" is STATE_RUNNING, on the run queue; which runnable   *)
(* thread goes on is left open.                                            *)
(*                                                                         *)
(* The release build is modelled: KERNEL_ASSERT is empty, so a post to a   *)
(* full ring overwrites the oldest slot.                                   *)
(***************************************************************************)
EXTENDS Naturals, Sequences, SequencesExt

CONSTANTS Threads,      \* the threads that use the queue
          Receivers,    \* those that take messages off it: its owner
          Nil,          \* the null thread pointer
          Ids,          \* message identifiers
          QueueLength,  \* QUEUE_LENGTH, 16 in the builds
          Wrap,         \* the counters are unsigned: 2^32 in the builds
          Starts,       \* what queue_init finds in q->write
          ScrubDepth,   \* how far behind the head a removing peek may match
          MaxPosts      \* bound: messages ever posted

ASSUME QueueAssumption ==
    /\ Receivers \subseteq Threads
    /\ Nil \notin Threads
    /\ Ids # {}
    /\ QueueLength \in Nat \ {0}
    /\ Wrap \in Nat \ {0}
    /\ Starts \subseteq 0..(Wrap - 1)
    /\ ScrubDepth \in Nat
    /\ MaxPosts \in Nat

(* q->read and q->write wrap around without being reset, so the masked     *)
(* slot stays in step only if the length divides the counters' range       *)
(* ("MUST be a power of 2").                                               *)
ASSUME WrapAssumption == Wrap % QueueLength = 0

VARIABLES
    events,       \* q->events: slot -> message
    read, write,  \* q->read, q->write: free-running counters
    sending,      \* q->send # NULL: queue_send is enabled
    usable,       \* queue_delete has not been called
    senders,      \* q->send->senders: slot -> thread or Nil
    curr_sender,  \* q->send->curr_sender: sender of the last message taken
    waitq,        \* q->queue: the threads waiting for a message, in order
    state,        \* thread->state
    wqp,          \* thread->wqp: the list the thread is linked in
    retval,       \* thread->retval: the reply handed to a sender
    call,         \* the blocking call a thread is inside
    expired,      \* the thread's tmo_tick has passed
    posted,       \* history: messages posted so far, numbered from 1
    asked,        \* history: number of the message a sender waits on, 0 if none
    taken,        \* history: number of the message last copied to *ev, 0 if none
    gone,         \* history: numbers taken or thrown away by request
    overflowed    \* history: a post found the ring full

ring == <<events, read, write, sending, usable, senders, curr_sender>>
threadVars == <<waitq, state, wqp, retval, call, expired>>
history == <<posted, asked, taken, gone, overflowed>>
vars == <<ring, threadVars, history>>

Slots == 0..(QueueLength - 1)
Indices == 0..(Wrap - 1)
NoMessage == [id |-> CHOOSE i \in Ids : TRUE, num |-> 0]
Messages == [id : Ids, num : 0..MaxPosts]

-----------------------------------------------------------------------------
(* The ring *)

Slot(i) == i % QueueLength

(* Mutant: the counter does not wrap. *)
SuccNoWrap(i) == i + 1

Succ(i) == IF i + 1 = Wrap THEN 0 ELSE i + 1

(* Position k behind the head. *)
At(k) == (read + k) % Wrap

queue_count == (write - read + Wrap) % Wrap
queue_full == queue_count >= QueueLength

Empty == read = write

(* The counter values from q->read up to but not including q->write. *)
Pending == {i \in Indices : IF read <= write THEN read <= i /\ i < write
                                             ELSE read <= i \/ i < write}

NumAt(i) == events[Slot(i)].num

-----------------------------------------------------------------------------
(* wakeup_thread: whatever it was blocked on, a thread that is woken is    *)
(* runnable and in no wait list.  A thread that timed out and has not run  *)
(* yet is only unlinked; one that is in no list is left as it is.          *)

WokenState(ts) == [t \in Threads |-> IF t \in ts THEN "running" ELSE state[t]]
WokenWqp(ts) == [t \in Threads |-> IF t \in ts THEN "none" ELSE wqp[t]]

(* queue_release_sender: the reply is stored before the wake-up, and it is *)
(* stored whatever the thread is doing.                                    *)
Replied(ts, val) == [t \in Threads |-> IF t \in ts THEN val ELSE retval[t]]

NonNil(ts) == ts \ {Nil}

(* queue_wake_waiter: the first thread of the list, woken and unlinked.    *)
(* Mutants: the waiter is not woken, or woken and left in the list. *)
FirstWaiterNone == {}
WaitersLeftAll == waitq

FirstWaiter == IF waitq = <<>> THEN {} ELSE {Head(waitq)}
WaitersLeft == IF waitq = <<>> THEN waitq ELSE Tail(waitq)

Idle(t) == /\ state[t] = "running"
           /\ call[t] = "none"

-----------------------------------------------------------------------------
TypeOK ==
    /\ events \in [Slots -> Messages]
    /\ read \in Indices /\ write \in Indices
    /\ sending \in BOOLEAN
    /\ usable \in BOOLEAN
    /\ senders \in [Slots -> Threads \cup {Nil}]
    /\ curr_sender \in Threads \cup {Nil}
    /\ waitq \in Seq(Threads)
    /\ state \in [Threads -> {"running", "blocked", "blocked_tmo"}]
    /\ wqp \in [Threads -> {"none", "queue", "send", "other"}]
    /\ retval \in [Threads -> 0..MaxPosts]
    /\ call \in [Threads -> {"none", "wait", "wait_null", "tmo", "tmo_null",
                             "send", "other"}]
    /\ expired \in [Threads -> BOOLEAN]
    /\ posted \in 0..MaxPosts
    /\ asked \in [Threads -> 0..MaxPosts]
    /\ taken \in [Threads -> 0..MaxPosts]
    /\ gone \subseteq 0..MaxPosts
    /\ overflowed \in BOOLEAN

(* queue_init: whatever is in q->write, the ring is empty. *)
Init ==
    /\ events = [s \in Slots |-> NoMessage]
    /\ write \in Starts /\ read = write
    /\ sending = FALSE
    /\ usable = TRUE
    /\ senders = [s \in Slots |-> Nil]
    /\ curr_sender = Nil
    /\ waitq = <<>>
    /\ state = [t \in Threads |-> "running"]
    /\ wqp = [t \in Threads |-> "none"]
    /\ retval = [t \in Threads |-> 0]
    /\ call = [t \in Threads |-> "none"]
    /\ expired = [t \in Threads |-> FALSE]
    /\ posted = 0
    /\ asked = [t \in Threads |-> 0]
    /\ taken = [t \in Threads |-> 0]
    /\ gone = {}
    /\ overflowed = FALSE

(* queue_enable_queue_send *)
EnableSend ==
    /\ usable /\ ~sending
    /\ sending' = TRUE
    /\ senders' = [s \in Slots |-> Nil]
    /\ curr_sender' = Nil
    /\ UNCHANGED <<events, read, write, usable, threadVars, history>>

-----------------------------------------------------------------------------
(* Posting *)

(* The part queue_post and queue_send share: the message goes to the next  *)
(* slot, full or not.                                                      *)
Store(id) ==
    /\ usable
    /\ posted < MaxPosts /\ Succ(write) # read      \* bounds
    /\ events' = [events EXCEPT ![Slot(write)] = [id |-> id, num |-> posted + 1]]
    /\ write' = Succ(write)
    /\ posted' = posted + 1
    /\ overflowed' = (overflowed \/ queue_full)
    /\ UNCHANGED <<read, sending, usable, curr_sender, expired, taken, gone>>

(* queue_post, also from interrupt handlers and by queue_broadcast: an     *)
(* older sender at the same slot is bumped with a reply of 0.              *)
Post(id) ==
    LET bumped == IF sending THEN NonNil({senders[Slot(write)]}) ELSE {}
        woken == bumped \cup FirstWaiter
    IN  /\ Store(id)
        /\ senders' = IF sending THEN [senders EXCEPT ![Slot(write)] = Nil]
                                 ELSE senders
        /\ retval' = Replied(bumped, 0)
        /\ state' = WokenState(woken)
        /\ wqp' = WokenWqp(woken)
        /\ waitq' = WaitersLeft
        /\ UNCHANGED <<call, asked>>

(* queue_send, up to switch_thread *)
Send(t, id) ==
    LET bumped == NonNil({senders[Slot(write)]})
        woken == bumped \cup FirstWaiter
    IN  /\ Idle(t) /\ sending /\ t \notin Receivers
        /\ Store(id)
        /\ senders' = [senders EXCEPT ![Slot(write)] = t]
        /\ retval' = Replied(bumped, 0)
        /\ state' = [WokenState(woken) EXCEPT ![t] = "blocked"]
        /\ wqp' = [WokenWqp(woken) EXCEPT ![t] = "send"]
        /\ waitq' = WaitersLeft
        /\ call' = [call EXCEPT ![t] = "send"]
        /\ asked' = [asked EXCEPT ![t] = posted + 1]

(* queue_send, from switch_thread on: it returns thread->retval. *)
SendReturn(t) ==
    /\ call[t] = "send" /\ state[t] = "running"
    /\ call' = [call EXCEPT ![t] = "none"]
    /\ asked' = [asked EXCEPT ![t] = 0]
    /\ UNCHANGED <<ring, waitq, state, wqp, retval, expired, posted, taken, gone, overflowed>>

(* queue_reply by the receiver.  The reply is named after the message it   *)
(* is meant for, the one the receiver took last.                           *)
Reply(t) ==
    /\ Idle(t) /\ t \in Receivers
    /\ sending /\ curr_sender # Nil
    /\ retval' = Replied({curr_sender}, taken[t])
    /\ state' = WokenState({curr_sender})
    /\ wqp' = WokenWqp({curr_sender})
    /\ curr_sender' = Nil
    /\ UNCHANGED <<events, read, write, sending, usable, senders, waitq, call, expired, history>>

-----------------------------------------------------------------------------
(* Waiting *)

(* queue_do_auto_reply releases the sender of the message taken before,    *)
(* queue_do_fetch_sender makes the sender at the head the current one.     *)
(* Mutant: the auto-reply is forgotten. *)
AutoRepliedNone == {}

AutoReplied == IF sending THEN NonNil({curr_sender}) ELSE {}
CurrAfterAutoReply == IF sending THEN Nil ELSE curr_sender

(* Mutant: the sender also stays at its slot. *)
FetchKeep(s, curr) ==
    /\ curr_sender' = IF sending /\ senders[s] # Nil THEN senders[s] ELSE curr
    /\ UNCHANGED senders

Fetch(s, curr) ==
    IF sending /\ senders[s] # Nil
    THEN /\ curr_sender' = senders[s]
         /\ senders' = [senders EXCEPT ![s] = Nil]
    ELSE /\ curr_sender' = curr
         /\ UNCHANGED senders

(* Copy the head to *ev and advance. *)
TakeHead(t, curr) ==
    /\ read' = Succ(read)
    /\ taken' = [taken EXCEPT ![t] = NumAt(read)]
    /\ gone' = gone \cup {NumAt(read)}
    /\ Fetch(Slot(read), curr)

Block(t, st, inside) ==
    /\ state' = [WokenState(AutoReplied) EXCEPT ![t] = st]
    /\ wqp' = [WokenWqp(AutoReplied) EXCEPT ![t] = "queue"]
    /\ waitq' = Append(waitq, t)
    /\ call' = [call EXCEPT ![t] = inside]
    /\ expired' = [expired EXCEPT ![t] = FALSE]

(* The entry of queue_wait(q, &ev), queue_wait(q, NULL), and of            *)
(* queue_wait_w_tmo with either: a reply of 0 to the message before, and   *)
(* then a message, a block or, with ticks == 0, SYS_TIMEOUT.               *)
WaitEnter(t, inside) ==
    /\ Idle(t) /\ t \in Receivers /\ usable
    /\ retval' = Replied(AutoReplied, 0)
    /\ UNCHANGED <<events, write, sending, usable, posted, asked, overflowed>>
    /\ \/ /\ ~Empty
          /\ \/ inside \in {"wait", "tmo"} /\ TakeHead(t, CurrAfterAutoReply)
             \/ /\ inside \in {"wait_null", "tmo_null"}
                /\ curr_sender' = CurrAfterAutoReply
                /\ UNCHANGED <<read, senders, taken, gone>>
          /\ state' = WokenState(AutoReplied)
          /\ wqp' = WokenWqp(AutoReplied)
          /\ UNCHANGED <<waitq, call, expired>>
       \/ /\ Empty
          /\ \/ inside \in {"wait", "wait_null"} /\ Block(t, "blocked", inside)
             \/ inside \in {"tmo", "tmo_null"} /\ Block(t, "blocked_tmo", inside)
          /\ curr_sender' = CurrAfterAutoReply
          /\ UNCHANGED <<read, senders, taken, gone>>
       \/ /\ Empty /\ inside \in {"tmo", "tmo_null"}     \* ticks == 0
          /\ taken' = IF inside = "tmo" THEN [taken EXCEPT ![t] = 0] ELSE taken
          /\ state' = WokenState(AutoReplied)
          /\ wqp' = WokenWqp(AutoReplied)
          /\ curr_sender' = CurrAfterAutoReply
          /\ UNCHANGED <<waitq, call, expired, read, senders, gone>>

(* check_tmo_expired finds the thread's time has come.  A thread that is   *)
(* still blocked is put on the run queue but stays linked in the wait      *)
(* list; for one that was woken meanwhile only the time has passed.        *)
TmoExpire(t) ==
    /\ call[t] \in {"tmo", "tmo_null"} /\ ~expired[t]
    /\ expired' = [expired EXCEPT ![t] = TRUE]
    /\ state' = [state EXCEPT ![t] = "running"]
    /\ UNCHANGED <<ring, waitq, wqp, retval, call, history>>

(* The waiter runs again and finds a message: the loop ends.  It unlinks   *)
(* nothing: whoever posted the message has done that.                      *)
WakeWithMessage(t) ==
    /\ state[t] = "running" /\ call[t] \in {"wait", "wait_null", "tmo", "tmo_null"}
    /\ ~Empty
    /\ \/ call[t] \in {"wait", "tmo"} /\ TakeHead(t, curr_sender)
       \/ call[t] \in {"wait_null", "tmo_null"} /\ UNCHANGED <<read, curr_sender, senders, taken, gone>>
    /\ call' = [call EXCEPT ![t] = "none"]
    /\ UNCHANGED <<events, write, sending, usable, waitq, state, wqp, retval, expired,
                   posted, asked, overflowed>>

(* The message that woke it is gone again: block once more, for the time   *)
(* that is left.                                                           *)
WakeEmptyBlock(t) ==
    /\ state[t] = "running" /\ Empty
    /\ \/ /\ call[t] \in {"wait", "wait_null"}
          /\ state' = [state EXCEPT ![t] = "blocked"]
       \/ /\ call[t] \in {"tmo", "tmo_null"} /\ wqp[t] = "none" /\ ~expired[t]
          /\ state' = [state EXCEPT ![t] = "blocked_tmo"]
    /\ wqp' = [wqp EXCEPT ![t] = "queue"]
    /\ waitq' = Append(waitq, t)
    /\ UNCHANGED <<ring, retval, call, expired, history>>

(* Mutant: the time that is left is not looked at. *)
NoTimeLeftNever(t) == FALSE

NoTimeLeft(t) == wqp[t] = "none" /\ expired[t]

(* The wait is over without a message: the thread is still linked, and     *)
(* unlinks itself (wait_queue_try_remove), or it was woken for a message   *)
(* that disappeared and no time is left.                                   *)
WakeTimedOut(t) ==
    /\ state[t] = "running" /\ Empty /\ call[t] \in {"tmo", "tmo_null"}
    /\ \/ /\ wqp[t] # "none"
          /\ \E i \in DOMAIN waitq : waitq[i] = t /\ waitq' = RemoveAt(waitq, i)
       \/ NoTimeLeft(t) /\ UNCHANGED waitq
    /\ wqp' = [wqp EXCEPT ![t] = "none"]
    /\ taken' = IF call[t] = "tmo" THEN [taken EXCEPT ![t] = 0] ELSE taken
    /\ call' = [call EXCEPT ![t] = "none"]
    /\ UNCHANGED <<ring, state, retval, expired, posted, asked, gone, overflowed>>

-----------------------------------------------------------------------------
(* Peeking and clearing *)

Matches(k, filter) == filter = {} \/ events[Slot(At(k))].id \in filter

(* queue_peek_ex finds the first match from the head on; QPEEK_FILTER_HEAD *)
(* _ONLY is the case where only position 0 may match.                      *)
FirstMatch(k, filter) ==
    /\ k < queue_count /\ Matches(k, filter)
    /\ \A j \in 0..(k - 1) : ~Matches(j, filter)

(* The slide into the gap, slot by slot from the match back to the head:   *)
(* a message and its sender move together, and the slot the head leaves    *)
(* keeps what was in it.                                                   *)
SlideOf(k, snd, move_senders) ==
    IF k = 0 THEN [ev |-> events, sn |-> snd]
    ELSE LET slid[n \in 0..k] ==
                 IF n = 0 THEN [ev |-> events, sn |-> snd]
                 ELSE LET dst == Slot(At(k - n + 1))
                          src == Slot(At(k - n))
                      IN  [ev |-> [slid[n-1].ev EXCEPT ![dst] = slid[n-1].ev[src]],
                           sn |-> IF move_senders
                                  THEN [slid[n-1].sn EXCEPT ![dst] = slid[n-1].sn[src]]
                                  ELSE slid[n-1].sn]
         IN  slid[k]

(* Mutant: the head just advances over the gap. *)
SlideNot(k, snd) == [ev |-> events, sn |-> snd]

Slide(k, snd) == SlideOf(k, snd, sending)

(* queue_peek_ex(q, &ev, QPEEK_REMOVE_EVENTS, filter): taken out of order  *)
(* by the owner, with the auto-reply of a wait.                            *)
PeekTake(t, k, filter) ==
    LET s == Slot(At(k))
        fetched == sending /\ senders[s] # Nil
        slid == Slide(k, IF fetched THEN [senders EXCEPT ![s] = Nil] ELSE senders)
    IN  /\ Idle(t) /\ t \in Receivers
        /\ FirstMatch(k, filter)
        /\ retval' = Replied(AutoReplied, 0)
        /\ state' = WokenState(AutoReplied)
        /\ wqp' = WokenWqp(AutoReplied)
        /\ curr_sender' = IF fetched THEN senders[s] ELSE CurrAfterAutoReply
        /\ read' = Succ(read)
        /\ events' = slid.ev /\ senders' = slid.sn
        /\ taken' = [taken EXCEPT ![t] = NumAt(At(k))]
        /\ gone' = gone \cup {NumAt(At(k))}
        /\ UNCHANGED <<write, sending, usable, waitq, call, expired, posted, asked, overflowed>>

(* queue_peek_ex(q, NULL, QPEEK_REMOVE_EVENTS, filter), and each round of  *)
(* queue_remove_from_head: thrown away by any thread, its sender released. *)
Discard(k, filter) ==
    LET s == Slot(At(k))
        released == IF sending THEN NonNil({senders[s]}) ELSE {}
        slid == Slide(k, [senders EXCEPT ![s] = IF sending THEN Nil ELSE @])
    IN  /\ FirstMatch(k, filter)
        /\ retval' = Replied(released, 0)
        /\ state' = WokenState(released)
        /\ wqp' = WokenWqp(released)
        /\ read' = Succ(read)
        /\ events' = slid.ev /\ senders' = slid.sn
        /\ gone' = gone \cup {NumAt(At(k))}
        /\ UNCHANGED <<write, sending, usable, curr_sender, waitq, call, expired,
                       posted, asked, taken, overflowed>>

PendingSlots == {Slot(i) : i \in Pending}
PendingSenders == NonNil({senders[s] : s \in PendingSlots})

(* queue_clear: every sender in the ring is released, the one whose        *)
(* message was taken is not.                                               *)
Clear ==
    LET released == IF sending THEN PendingSenders ELSE {}
    IN  /\ ~Empty
        /\ retval' = Replied(released, 0)
        /\ state' = WokenState(released)
        /\ wqp' = WokenWqp(released)
        /\ senders' = IF sending
                      THEN [s \in Slots |-> IF s \in PendingSlots THEN Nil ELSE senders[s]]
                      ELSE senders
        /\ read' = write
        /\ gone' = gone \cup {NumAt(i) : i \in Pending}
        /\ UNCHANGED <<events, write, sending, usable, curr_sender, waitq, call, expired,
                       posted, asked, taken, overflowed>>

(* queue_delete: the waiters and every sender are released, and the queue  *)
(* is not used again (it may be empty already).                            *)
Delete ==
    LET waiters == {t \in Threads : wqp[t] = "queue"}
        replied == IF sending THEN PendingSenders \cup NonNil({curr_sender}) ELSE {}
    IN  /\ usable
        /\ usable' = FALSE
        /\ sending' = FALSE
        /\ retval' = Replied(replied, 0)
        /\ state' = WokenState(waiters \cup replied)
        /\ wqp' = WokenWqp(waiters \cup replied)
        /\ waitq' = <<>>
        /\ senders' = [s \in Slots |-> IF sending /\ s \in PendingSlots THEN Nil ELSE senders[s]]
        /\ curr_sender' = IF sending THEN Nil ELSE curr_sender
        /\ read' = write
        /\ gone' = gone \cup {NumAt(i) : i \in Pending}
        /\ UNCHANGED <<events, write, call, expired, posted, asked, taken, overflowed>>

-----------------------------------------------------------------------------
(* A thread's life besides this queue: it blocks on some other object and  *)
(* goes on when that object wakes it.                                      *)

BlockOther(t) ==
    /\ Idle(t)
    /\ state' = [state EXCEPT ![t] = "blocked"]
    /\ wqp' = [wqp EXCEPT ![t] = "other"]
    /\ call' = [call EXCEPT ![t] = "other"]
    /\ UNCHANGED <<ring, waitq, retval, expired, history>>

WakeOther(t) ==
    /\ wqp[t] = "other"
    /\ state' = [state EXCEPT ![t] = "running"]
    /\ wqp' = [wqp EXCEPT ![t] = "none"]
    /\ UNCHANGED <<ring, waitq, retval, call, expired, history>>

OtherReturn(t) ==
    /\ call[t] = "other" /\ state[t] = "running"
    /\ call' = [call EXCEPT ![t] = "none"]
    /\ UNCHANGED <<ring, waitq, state, wqp, retval, expired, history>>

WaitCalls == {"wait", "wait_null", "tmo", "tmo_null"}
Filters == SUBSET Ids

Resume(t) == WakeWithMessage(t) \/ WakeEmptyBlock(t) \/ WakeTimedOut(t)

Next ==
    \/ EnableSend
    \/ \E id \in Ids : Post(id)
    \/ \E t \in Threads :
        \/ \E id \in Ids : Send(t, id)
        \/ SendReturn(t)
        \/ Reply(t)
        \/ \E inside \in WaitCalls : WaitEnter(t, inside)
        \/ TmoExpire(t)
        \/ Resume(t)
        \/ BlockOther(t)
        \/ WakeOther(t)
        \/ OtherReturn(t)
        \/ \E k \in 0..ScrubDepth, f \in Filters : PeekTake(t, k, f)
    \/ \E k \in 0..ScrubDepth, f \in Filters : Discard(k, f)
    \/ Clear
    \/ Delete

Spec == Init /\ [][Next]_vars

(* A runnable thread runs; a timed wait's tick comes; whatever else a      *)
(* thread blocks on wakes it; and the receiver, however often it blocks on *)
(* other objects while it deals with a message, is back at the queue in    *)
(* the end, as every thread's main loop is (strong fairness: in between    *)
(* it is not at its loop).  Posting, peeking, clearing and replying are    *)
(* never assumed.                                                          *)
Fairness ==
    /\ \A t \in Threads : /\ WF_vars(SendReturn(t) \/ OtherReturn(t))
                          /\ WF_vars(WakeOther(t))
    /\ \A t \in Receivers : /\ SF_vars(WaitEnter(t, "wait"))
                            /\ WF_vars(Resume(t))
                            /\ WF_vars(TmoExpire(t))

FairSpec == Spec /\ Fairness

-----------------------------------------------------------------------------
(* Properties *)

BlockedSender(t) == state[t] = "blocked" /\ wqp[t] = "send"

(* Nobody who waits for a reply is forgotten: a blocked sender is either   *)
(* the one the next reply goes to or sits at the slot of a message still   *)
(* in the ring (queue_send and every operation that moves messages).       *)
SendersAccounted ==
    \A t \in Threads : BlockedSender(t) =>
        /\ sending
        /\ curr_sender = t \/ \E s \in PendingSlots : senders[s] = t

(* "If non-NULL, there is a thread waiting for the corresponding event"    *)
(* (queue.h, struct queue_sender_list): the thread at a slot is blocked    *)
(* for the very message at that slot, and that message is in the ring.     *)
SenderSlotsLive ==
    \A s \in Slots : sending /\ senders[s] # Nil =>
        /\ s \in PendingSlots
        /\ BlockedSender(senders[s])
        /\ asked[senders[s]] = events[s].num

(* A sender gets the reply to its own message or the default 0, never      *)
(* the reply meant for another one.                                        *)
ReplyMatches ==
    \A t \in Threads : call[t] = "send" /\ state[t] = "running" =>
        retval[t] \in {0, asked[t]}

(* The queue implements RemoteCall: whatever happens in between, a sender  *)
(* is released once, by the reply to its own message only after that was   *)
(* taken, and what it was released with is final: no later operation on    *)
(* the queue stores another value before the sender runs and reads it.     *)
Phase(t) ==
    IF call[t] # "send" THEN "idle"
    ELSE IF state[t] = "running"
    THEN IF retval[t] = 0 THEN "defaulted"
         ELSE IF retval[t] = asked[t] THEN "replied" ELSE "wrong"
    ELSE IF curr_sender = t THEN "taken" ELSE "asked"

Abstract == INSTANCE RemoteCall WITH Clients <- Threads,
                                     phase <- [t \in Threads |-> Phase(t)]
ImplementsRemoteCall == Abstract!Spec

(* A thread blocked on some other object is woken by that object only: no  *)
(* operation of the queue releases it.                                     *)
NoForeignWakeup ==
    [][\A t \in Threads : wqp[t] = "other" /\ wqp'[t] # "other" => WakeOther(t)]_vars

(* The wait list and the threads' links agree, and a thread never leaves a *)
(* wait while it is still linked: its next block would link it twice.      *)
WaitListExact ==
    /\ \A t \in Threads : wqp[t] = "queue" <=> t \in ToSet(waitq)
    /\ \A i, j \in DOMAIN waitq : waitq[i] = waitq[j] => i = j
    /\ \A t \in Threads : call[t] = "none" => wqp[t] = "none"

(* No lost wake-up: the receiver neither sleeps on the queue nor is still  *)
(* linked in its wait list while there is a message in it, although        *)
(* whoever takes a message unlinks nothing.                                *)
NoSleepOnMessage == \A t \in Receivers : wqp[t] = "queue" => Empty

(* Without overflow, every message posted is in the ring or was removed    *)
(* once, and the ring holds them in the order they were posted, whatever   *)
(* was taken, slid, discarded or cleared in between and wherever the       *)
(* counters wrap.                                                          *)
RingExact ==
    ~overflowed =>
        LET inRing == {NumAt(i) : i \in Pending}
        IN  /\ inRing \cap gone = {}
            /\ inRing \cup gone = 1..posted
            /\ \A j, k \in 0..(queue_count - 1) : j < k => NumAt(At(j)) < NumAt(At(k))

-----------------------------------------------------------------------------
(* The inductive invariant behind the properties above, for a queue with   *)
(* one receiver whose removing peeks match at the head only.               *)

(* What a thread is linked in and blocked on is what its call says.        *)
LinksMatchCalls ==
    \A t \in Threads :
        /\ wqp[t] = "none" => state[t] = "running"
        /\ wqp[t] = "send" => call[t] = "send" /\ state[t] = "blocked"
        /\ wqp[t] = "other" => call[t] = "other" /\ state[t] = "blocked"
        /\ wqp[t] = "queue" => /\ call[t] \in WaitCalls
                               /\ state[t] = "running" => expired[t]
        /\ call[t] = "send" => t \notin Receivers
        /\ call[t] \in WaitCalls => t \in Receivers
        /\ expired[t] /\ call[t] \in WaitCalls => call[t] \in {"tmo", "tmo_null"}

(* The wait list holds the receiver or nobody.                             *)
WaitListShape ==
    \A r \in Receivers : waitq = IF wqp[r] = "queue" THEN <<r>> ELSE <<>>

(* A blocked sender has one place: one slot, or curr_sender.               *)
OnePlace ==
    /\ \A s, u \in Slots : sending /\ senders[s] # Nil /\ senders[s] = senders[u] => s = u
    /\ \A s \in Slots : sending /\ senders[s] # Nil => senders[s] # curr_sender

(* The current sender waits for the reply to the message the receiver took *)
(* last, and there is none while the receiver waits for the next message.  *)
CurrentSender ==
    /\ curr_sender # Nil =>
           /\ sending /\ BlockedSender(curr_sender)
           /\ \A r \in Receivers : /\ taken[r] = asked[curr_sender]
                                   /\ call[r] \notin WaitCalls

QueueInv == /\ TypeOK
            /\ LinksMatchCalls
            /\ WaitListShape
            /\ OnePlace
            /\ CurrentSender
            /\ SendersAccounted
            /\ SenderSlotsLive
            /\ ReplyMatches
            /\ NoSleepOnMessage

-----------------------------------------------------------------------------
(* A queue_send returns: by a reply, an auto-reply, an overflow, a clear   *)
(* or the deletion of the queue.                                           *)
SendReturns == \A t \in Threads : call[t] = "send" ~> call[t] = "none"

(* A timed wait returns, even when the messages that wake it keep          *)
(* disappearing before it runs.                                            *)
TimedWaitReturns ==
    \A t \in Receivers : call[t] \in {"tmo", "tmo_null"} ~> call[t] = "none"
=============================================================================
