-------------------------- MODULE EventQueueProofs --------------------------
(***************************************************************************)
(* The invariants of EventQueue for a queue with one receiver whose        *)
(* removing peeks match at the head only, for every ring length, counter   *)
(* width, set of threads and number of messages; that such a queue         *)
(* implements RemoteCall; and the ring's contents, for any receivers and   *)
(* removals.                                                               *)
(***************************************************************************)
EXTENDS EventQueue, TLAPS, WellFoundedInduction

(* What the theorems assume of the queue's users: one receiver, and no     *)
(* removal behind the head (ScrubDepth = 0).  Both are needed: a second    *)
(* receiver overwrites curr_sender, and a removal behind the head leaves   *)
(* its sender in the slot that the head moves out of.                      *)
ProperUse == /\ \E r \in Threads : Receivers = {r}
             /\ ScrubDepth = 0

-----------------------------------------------------------------------------
(* The ring's arithmetic *)

LEMMA SlotType == \A i \in Nat : Slot(i) \in Slots
  BY QueueAssumption DEF Slot, Slots

LEMMA HeadPosition == Wrap % Wrap = 0 /\ \A i \in Indices : (i + 0) % Wrap = i
  BY QueueAssumption DEF Indices

LEMMA NotEmpty ==
    ASSUME read \in Indices, write \in Indices, 0 < queue_count
    PROVE  ~Empty
<1> SUFFICES ASSUME read = write PROVE FALSE
  BY DEF Empty
<1>1. write - read + Wrap = Wrap
  BY QueueAssumption DEF Indices
<1> QED
  BY <1>1, HeadPosition DEF queue_count

(* A post adds the old q->write to the pending counter values.             *)
LEMMA PendingPost ==
    ASSUME read \in Indices, write \in Indices,
           Succ(write) # read, read' = read, write' = Succ(write)
    PROVE  /\ write' \in Indices
           /\ Pending' = Pending \cup {write}
           /\ ~(Empty')
  BY QueueAssumption DEF Indices, Succ, Pending, Empty

(* Taking the head removes the old q->read from them.                      *)
LEMMA PendingTake ==
    ASSUME read \in Indices, write \in Indices, ~Empty,
           read' = Succ(read), write' = write
    PROVE  /\ read' \in Indices
           /\ read \in Pending
           /\ Pending' = Pending \ {read}
  BY QueueAssumption DEF Indices, Succ, Pending, Empty

LEMMA PendingClear ==
    ASSUME read \in Indices, write \in Indices, read' = write, write' = write
    PROVE  Pending' = {} /\ Empty'
  BY QueueAssumption DEF Pending, Empty, Indices

LEMMA PendingSlotsType == Pending \subseteq Indices /\ PendingSlots \subseteq Slots
  BY SlotType, QueueAssumption DEF Pending, PendingSlots, Indices

-----------------------------------------------------------------------------
(* One lemma per operation: it preserves the invariant. *)

(* With one receiver, the wait list holds exactly the threads linked in it. *)
LEMMA WaitersAreListed ==
    ASSUME ProperUse, TypeOK, LinksMatchCalls, WaitListShape
    PROVE  /\ FirstWaiter = {t \in Threads : wqp[t] = "queue"}
           /\ WaitersLeft = <<>>
<1>1. PICK r \in Threads : Receivers = {r}
  BY DEF ProperUse
<1>2. {t \in Threads : wqp[t] = "queue"} = IF wqp[r] = "queue" THEN {r} ELSE {}
  BY <1>1 DEF LinksMatchCalls
<1>3. waitq = IF wqp[r] = "queue" THEN <<r>> ELSE <<>>
  BY <1>1 DEF WaitListShape
<1>4. Head(<<r>>) = r /\ Tail(<<r>>) = <<>> /\ <<r>> # <<>>
  OBVIOUS
<1> QED
  BY <1>2, <1>3, <1>4 DEF FirstWaiter, WaitersLeft

LEMMA PostInv ==
    ASSUME ProperUse, QueueInv, NEW id \in Ids, Post(id)
    PROVE  QueueInv'
<1> DEFINE w == Slot(write)
           bumped == IF sending THEN NonNil({senders[w]}) ELSE {}
           waiters == {t \in Threads : wqp[t] = "queue"}
           woken == bumped \cup waiters
<1>1. /\ write \in Indices /\ write' \in Indices /\ ~(Empty')
      /\ Pending' = Pending \cup {write}
  BY PendingPost DEF QueueInv, TypeOK, Post, Store
<1>2. w \in Slots /\ PendingSlots' = PendingSlots \cup {w}
  BY <1>1, SlotType, QueueAssumption DEF PendingSlots, Indices
<1>3. bumped \subseteq Threads /\ waiters \subseteq Threads
  BY <1>2 DEF NonNil, QueueInv, TypeOK
<1>4. FirstWaiter = waiters /\ WaitersLeft = <<>>
  BY WaitersAreListed DEF QueueInv
<1>5. /\ events' = [events EXCEPT ![w] = [id |-> id, num |-> posted + 1]]
      /\ senders' = IF sending THEN [senders EXCEPT ![w] = Nil] ELSE senders
      /\ wqp' = [t \in Threads |-> IF t \in woken THEN "none" ELSE wqp[t]]
      /\ state' = [t \in Threads |-> IF t \in woken THEN "running" ELSE state[t]]
      /\ retval' = [t \in Threads |-> IF t \in bumped THEN 0 ELSE retval[t]]
      /\ waitq' = <<>>
      /\ posted' = posted + 1 /\ posted + 1 \in 0..MaxPosts
      /\ overflowed' \in BOOLEAN
      /\ UNCHANGED <<read, sending, usable, curr_sender, expired, taken, gone, call, asked>>
  BY <1>4, QueueAssumption
  DEF Post, Store, WokenWqp, WokenState, Replied, QueueInv, TypeOK, queue_full
<1> HIDE DEF w
<1>6. TypeOK'
  BY <1>1, <1>2, <1>3, <1>5, QueueAssumption DEF Messages, QueueInv, TypeOK
<1>7. \A t \in bumped : BlockedSender(t) /\ t # curr_sender
  BY <1>2 DEF NonNil, SenderSlotsLive, OnePlace, QueueInv
<1> HIDE DEF bumped
<1>8. LinksMatchCalls'
  BY <1>3, <1>5 DEF LinksMatchCalls, QueueInv
<1>9. WaitListShape'
  BY <1>3, <1>5, QueueAssumption DEF WaitListShape, QueueInv
<1>10. OnePlace'
  BY <1>2, <1>5 DEF OnePlace, QueueInv, TypeOK
<1>11. CurrentSender'
  BY <1>3, <1>5, <1>7 DEF CurrentSender, BlockedSender, QueueInv, TypeOK
<1>12. SendersAccounted'
  <2> SUFFICES ASSUME NEW t \in Threads, BlockedSender(t)'
               PROVE  sending' /\ (curr_sender' = t \/ \E s \in PendingSlots' : senders'[s] = t)
    BY DEF SendersAccounted
  <2>1. t \notin woken /\ BlockedSender(t)
    BY <1>5 DEF BlockedSender
  <2>2. sending /\ (curr_sender = t \/ \E s \in PendingSlots : senders[s] = t)
    BY <2>1 DEF SendersAccounted, QueueInv
  <2>3. CASE curr_sender = t
    BY <2>2, <2>3, <1>5
  <2>4. CASE curr_sender # t
    <3>1. PICK s \in PendingSlots : senders[s] = t
      BY <2>2, <2>4
    <3>2. t # Nil /\ s \in Slots
      BY QueueAssumption, PendingSlotsType
    <3>3. s # w
      BY <2>1, <2>2, <3>1, <3>2 DEF bumped, NonNil
    <3>4. senders'[s] = t
      BY <1>5, <2>2, <3>1, <3>2, <3>3 DEF QueueInv, TypeOK
    <3> QED
      BY <1>2, <1>5, <2>2, <3>4
  <2> QED
    BY <2>3, <2>4
<1>13. SenderSlotsLive'
  BY <1>2, <1>3, <1>5, <1>7 DEF SenderSlotsLive, BlockedSender, OnePlace, bumped, NonNil, QueueInv, TypeOK
<1>14. ReplyMatches'
  BY <1>3, <1>5, <1>7 DEF ReplyMatches, LinksMatchCalls, WaitCalls, BlockedSender, QueueInv
<1>15. NoSleepOnMessage'
  BY <1>3, <1>5, QueueAssumption DEF NoSleepOnMessage
<1> QED
  BY <1>6, <1>8, <1>9, <1>10, <1>11, <1>12, <1>13, <1>14, <1>15 DEF QueueInv

LEMMA SendInv ==
    ASSUME ProperUse, QueueInv, NEW me \in Threads, NEW id \in Ids, Send(me, id)
    PROVE  QueueInv'
<1> DEFINE w == Slot(write)
           bumped == NonNil({senders[w]})
           waiters == {t \in Threads : wqp[t] = "queue"}
           woken == bumped \cup waiters
<1>1. /\ write \in Indices /\ write' \in Indices /\ ~(Empty')
      /\ Pending' = Pending \cup {write}
  BY PendingPost DEF QueueInv, TypeOK, Send, Store
<1>2. w \in Slots /\ PendingSlots' = PendingSlots \cup {w}
  BY <1>1, SlotType, QueueAssumption DEF PendingSlots, Indices
<1>3. bumped \subseteq Threads /\ waiters \subseteq Threads
  BY <1>2 DEF NonNil, QueueInv, TypeOK
<1>4. FirstWaiter = waiters /\ WaitersLeft = <<>>
  BY WaitersAreListed DEF QueueInv
<1>5. /\ events' = [events EXCEPT ![w] = [id |-> id, num |-> posted + 1]]
      /\ senders' = [senders EXCEPT ![w] = me]
      /\ wqp' = [t \in Threads |-> IF t = me THEN "send" ELSE IF t \in woken THEN "none" ELSE wqp[t]]
      /\ state' = [t \in Threads |-> IF t = me THEN "blocked" ELSE IF t \in woken THEN "running" ELSE state[t]]
      /\ retval' = [t \in Threads |-> IF t \in bumped THEN 0 ELSE retval[t]]
      /\ call' = [call EXCEPT ![me] = "send"]
      /\ asked' = [asked EXCEPT ![me] = posted + 1]
      /\ waitq' = <<>>
      /\ posted' = posted + 1 /\ posted + 1 \in 0..MaxPosts
      /\ overflowed' \in BOOLEAN
      /\ UNCHANGED <<read, sending, usable, curr_sender, expired, taken, gone>>
  <2>1. FirstWaiter = waiters /\ waitq' = <<>>
    BY <1>4 DEF Send
  <2>2. /\ wqp' = [WokenWqp(woken) EXCEPT ![me] = "send"]
        /\ state' = [WokenState(woken) EXCEPT ![me] = "blocked"]
    BY <2>1 DEF Send
  <2>3. posted + 1 \in 0..MaxPosts /\ overflowed' \in BOOLEAN
    BY QueueAssumption DEF Send, Store, QueueInv, TypeOK, queue_full
  <2> QED
    BY <2>1, <2>2, <2>3 DEF Send, Store, WokenWqp, WokenState, Replied
<1>6. sending /\ call[me] = "none" /\ state[me] = "running" /\ me \notin Receivers
  BY DEF Send, Idle
<1> HIDE DEF w
<1>7. \A t \in bumped : BlockedSender(t) /\ t # curr_sender
  BY <1>2, <1>6 DEF NonNil, SenderSlotsLive, OnePlace, QueueInv
<1>8. me \notin woken /\ me # curr_sender /\ \A s \in Slots : senders[s] # me
  <2>1. ~BlockedSender(me) /\ wqp[me] # "queue"
    BY <1>6 DEF BlockedSender, LinksMatchCalls, WaitCalls, QueueInv
  <2>2. me # Nil
    BY QueueAssumption
  <2> QED
    BY <1>6, <1>7, <2>1, <2>2 DEF CurrentSender, SenderSlotsLive, QueueInv
<1>9. TypeOK'
  BY <1>1, <1>2, <1>3, <1>5, QueueAssumption DEF Messages, QueueInv, TypeOK
<1> HIDE DEF bumped
<1>10. LinksMatchCalls'
  BY <1>3, <1>5, <1>6 DEF LinksMatchCalls, WaitCalls, QueueInv, TypeOK
<1>11. WaitListShape'
  BY <1>3, <1>5, QueueAssumption DEF WaitListShape, QueueInv
<1>12. OnePlace'
  BY <1>2, <1>5, <1>8 DEF OnePlace, QueueInv, TypeOK
<1>13. CurrentSender'
  BY <1>3, <1>5, <1>6, <1>7, <1>8, QueueAssumption DEF CurrentSender, BlockedSender, WaitCalls, QueueInv, TypeOK
<1>14. SendersAccounted'
  <2> SUFFICES ASSUME NEW t \in Threads, BlockedSender(t)'
               PROVE  sending' /\ (curr_sender' = t \/ \E s \in PendingSlots' : senders'[s] = t)
    BY DEF SendersAccounted
  <2>1. CASE t = me
    BY <1>2, <1>5, <1>6, <2>1 DEF QueueInv, TypeOK
  <2>2. CASE t # me
    <3>1. t \notin woken /\ BlockedSender(t)
      BY <1>5, <2>2 DEF BlockedSender
    <3>2. curr_sender = t \/ \E s \in PendingSlots : senders[s] = t
      BY <3>1 DEF SendersAccounted, QueueInv
    <3>3. CASE curr_sender = t
      BY <1>5, <1>6, <3>3
    <3>4. CASE curr_sender # t
      <4>1. PICK s \in PendingSlots : senders[s] = t
        BY <3>2, <3>4
      <4>2. t # Nil /\ s \in Slots
        BY QueueAssumption, PendingSlotsType
      <4>3. s # w
        BY <3>1, <4>1, <4>2 DEF bumped, NonNil
      <4>4. senders'[s] = t
        BY <1>5, <4>1, <4>2, <4>3 DEF QueueInv, TypeOK
      <4> QED
        BY <1>2, <1>5, <1>6, <4>4
    <3> QED
      BY <3>3, <3>4
  <2> QED
    BY <2>1, <2>2
<1>15. SenderSlotsLive'
  <2> SUFFICES ASSUME NEW s \in Slots, senders'[s] # Nil
               PROVE  /\ s \in PendingSlots' /\ BlockedSender(senders[s])'
                      /\ asked'[senders'[s]] = events'[s].num
    BY DEF SenderSlotsLive
  <2>1. CASE s = w
    BY <1>2, <1>5, <2>1 DEF BlockedSender, QueueInv, TypeOK
  <2>2. CASE s # w
    <3>1. senders'[s] = senders[s] /\ events'[s] = events[s] /\ senders[s] \in Threads
      BY <1>2, <1>5, <2>2 DEF QueueInv, TypeOK
    <3>2. s \in PendingSlots /\ BlockedSender(senders[s]) /\ asked[senders[s]] = events[s].num
      BY <1>6, <3>1 DEF SenderSlotsLive, QueueInv
    <3>3. senders[s] \notin woken /\ senders[s] # me
      BY <1>2, <1>6, <1>8, <2>2, <3>1, <3>2 DEF bumped, NonNil, OnePlace, BlockedSender, QueueInv
    <3> QED
      BY <1>2, <1>5, <3>1, <3>2, <3>3 DEF BlockedSender, QueueInv, TypeOK
  <2> QED
    BY <2>1, <2>2
<1>16. ReplyMatches'
  BY <1>3, <1>5, <1>7 DEF ReplyMatches, LinksMatchCalls, WaitCalls, BlockedSender, QueueInv, TypeOK
<1>17. NoSleepOnMessage'
  BY <1>3, <1>5, <1>6, QueueAssumption DEF NoSleepOnMessage
<1> QED
  BY <1>9, <1>10, <1>11, <1>12, <1>13, <1>14, <1>15, <1>16, <1>17 DEF QueueInv

(* The steps that leave the ring, its senders and the wait list alone. *)

LEMMA EnableSendInv ==
    ASSUME ProperUse, QueueInv, EnableSend
    PROVE  QueueInv'
<1>1. /\ sending' = TRUE /\ ~sending
      /\ senders' = [s \in Slots |-> Nil] /\ curr_sender' = Nil
      /\ UNCHANGED <<events, read, write, usable, threadVars, history>>
  BY DEF EnableSend
<1>2. TypeOK'
  BY <1>1 DEF QueueInv, TypeOK, threadVars, history
<1>3. LinksMatchCalls' /\ WaitListShape' /\ ReplyMatches' /\ NoSleepOnMessage'
  BY <1>1 DEF QueueInv, LinksMatchCalls, WaitListShape, ReplyMatches, NoSleepOnMessage, Empty,
              threadVars, history
<1>4. OnePlace' /\ CurrentSender' /\ SenderSlotsLive'
  BY <1>1 DEF OnePlace, CurrentSender, SenderSlotsLive
<1>5. SendersAccounted'
  BY <1>1 DEF QueueInv, SendersAccounted, BlockedSender, threadVars
<1> QED
  BY <1>2, <1>3, <1>4, <1>5 DEF QueueInv

(* A step of one thread that changes neither the ring nor the wait list and *)
(* neither starts nor ends a blocked send.                                  *)
LEMMA LocalInv ==
    ASSUME QueueInv, UNCHANGED <<ring, retval, posted, gone, overflowed>>,
           UNCHANGED taken \/ curr_sender = Nil,
           TypeOK', LinksMatchCalls', WaitListShape', NoSleepOnMessage',
           \A t \in Threads : BlockedSender(t)' <=> BlockedSender(t),
           \A t \in Threads : BlockedSender(t) => asked'[t] = asked[t],
           \A t \in Threads : call'[t] = "send" => call[t] = "send" /\ asked'[t] = asked[t]
                                                  /\ (state'[t] = "running" => state[t] = "running"),
           \A r \in Receivers : call'[r] \in WaitCalls => call[r] \in WaitCalls
    PROVE  QueueInv'
<1>1. OnePlace'
  BY DEF QueueInv, OnePlace, ring
<1>2. CurrentSender'
  BY DEF QueueInv, CurrentSender, ring, TypeOK
<1>3. PendingSlots' = PendingSlots
  BY DEF ring, PendingSlots, Pending
<1>5. SendersAccounted'
  BY <1>3 DEF QueueInv, SendersAccounted, ring
<1>6. SenderSlotsLive'
  BY <1>3, QueueAssumption DEF QueueInv, SenderSlotsLive, ring, TypeOK
<1>4. ReplyMatches'
  BY DEF QueueInv, ReplyMatches
<1> QED
  BY <1>1, <1>2, <1>4, <1>5, <1>6 DEF QueueInv

LEMMA SendReturnInv ==
    ASSUME QueueInv, NEW t \in Threads, SendReturn(t)
    PROVE  QueueInv'
<1>1. /\ call[t] = "send" /\ state[t] = "running"
      /\ call' = [call EXCEPT ![t] = "none"] /\ asked' = [asked EXCEPT ![t] = 0]
      /\ UNCHANGED <<ring, waitq, state, wqp, retval, expired, posted, taken, gone, overflowed>>
  BY DEF SendReturn
<1>2. TypeOK'
  BY <1>1, QueueAssumption DEF QueueInv, TypeOK, ring
<1>3. LinksMatchCalls' /\ WaitListShape' /\ NoSleepOnMessage'
  BY <1>1 DEF QueueInv, TypeOK, LinksMatchCalls, WaitListShape, NoSleepOnMessage, WaitCalls, Empty, ring
<1> QED
  BY <1>1, <1>2, <1>3, LocalInv DEF BlockedSender, WaitCalls, QueueInv, TypeOK

LEMMA TmoExpireInv ==
    ASSUME QueueInv, NEW t \in Threads, TmoExpire(t)
    PROVE  QueueInv'
<1>1. /\ call[t] \in {"tmo", "tmo_null"}
      /\ expired' = [expired EXCEPT ![t] = TRUE] /\ state' = [state EXCEPT ![t] = "running"]
      /\ UNCHANGED <<ring, waitq, wqp, retval, call, posted, asked, taken, gone, overflowed>>
  BY DEF TmoExpire, history
<1>2. TypeOK'
  BY <1>1 DEF QueueInv, TypeOK, ring
<1>3. LinksMatchCalls' /\ WaitListShape' /\ NoSleepOnMessage'
  BY <1>1 DEF QueueInv, TypeOK, LinksMatchCalls, WaitListShape, NoSleepOnMessage, WaitCalls, Empty, ring
<1>4. wqp[t] # "send"
  BY <1>1 DEF QueueInv, LinksMatchCalls
<1> QED
  BY <1>1, <1>2, <1>3, <1>4, LocalInv DEF BlockedSender, WaitCalls, QueueInv, TypeOK

LEMMA WakeEmptyBlockInv ==
    ASSUME ProperUse, QueueInv, NEW t \in Threads, WakeEmptyBlock(t)
    PROVE  QueueInv'
<1>1. PICK r \in Threads : Receivers = {r}
  BY DEF ProperUse
<1>2. /\ call[t] \in WaitCalls /\ t = r /\ wqp[t] = "none" /\ Empty
      /\ ~expired[t]
  BY <1>1 DEF WakeEmptyBlock, WaitCalls, QueueInv, TypeOK, LinksMatchCalls
<1>3. waitq = <<>> /\ waitq' = <<t>>
  <2>1. waitq = <<>> /\ waitq' = Append(waitq, t)
    BY <1>1, <1>2 DEF WakeEmptyBlock, QueueInv, WaitListShape
  <2>2. Append(<<>>, t) = <<t>>
    OBVIOUS
  <2> QED
    BY <2>1, <2>2
<1>4. /\ wqp' = [wqp EXCEPT ![t] = "queue"]
      /\ state' \in {[state EXCEPT ![t] = "blocked"], [state EXCEPT ![t] = "blocked_tmo"]}
      /\ UNCHANGED <<ring, retval, call, expired, posted, asked, taken, gone, overflowed>>
  BY DEF WakeEmptyBlock, history
<1>5. TypeOK'
  <2>1. state' \in [Threads -> {"running", "blocked", "blocked_tmo"}]
    BY <1>4 DEF QueueInv, TypeOK
  <2>2. waitq' \in Seq(Threads)
    BY <1>3
  <2>3. wqp' \in [Threads -> {"none", "queue", "send", "other"}]
    BY <1>4 DEF QueueInv, TypeOK
  <2> QED
    BY <1>4, <2>1, <2>2, <2>3 DEF QueueInv, TypeOK, ring
<1>6. LinksMatchCalls'
  BY <1>2, <1>4 DEF QueueInv, TypeOK, LinksMatchCalls, WaitCalls
<1>7. WaitListShape' /\ NoSleepOnMessage'
  BY <1>1, <1>2, <1>3, <1>4 DEF QueueInv, TypeOK, WaitListShape, NoSleepOnMessage, Empty, ring
<1> QED
  BY <1>2, <1>4, <1>5, <1>6, <1>7, LocalInv DEF BlockedSender, WaitCalls, QueueInv, TypeOK

LEMMA WakeTimedOutInv ==
    ASSUME ProperUse, QueueInv, NEW t \in Threads, WakeTimedOut(t)
    PROVE  QueueInv'
<1>1. PICK r \in Threads : Receivers = {r}
  BY DEF ProperUse
<1>2. call[t] \in WaitCalls /\ t = r /\ Empty /\ state[t] = "running" /\ wqp[t] # "send"
  BY <1>1 DEF WakeTimedOut, WaitCalls, QueueInv, TypeOK, LinksMatchCalls
<1>3. waitq' = <<>>
  <2>1. CASE wqp[t] = "none"
    BY <1>1, <1>2, <2>1 DEF WakeTimedOut, QueueInv, WaitListShape
  <2>2. CASE wqp[t] # "none"
    <3>1. wqp[t] = "queue"
      BY <1>2, <2>2 DEF QueueInv, TypeOK, LinksMatchCalls, WaitCalls
    <3>2. waitq = <<t>>
      BY <1>1, <1>2, <3>1 DEF QueueInv, WaitListShape
    <3>3. PICK i \in DOMAIN waitq : waitq' = RemoveAt(waitq, i)
      BY <2>2 DEF WakeTimedOut, NoTimeLeft
    <3>4. i = 1 /\ RemoveAt(<<t>>, 1) = <<>>
      BY <3>2, <3>3 DEF RemoveAt
    <3> QED
      BY <3>2, <3>3, <3>4
  <2> QED
    BY <2>1, <2>2
<1>4. /\ wqp' = [wqp EXCEPT ![t] = "none"] /\ call' = [call EXCEPT ![t] = "none"]
      /\ taken' \in {taken, [taken EXCEPT ![t] = 0]}
      /\ UNCHANGED <<ring, state, retval, expired, posted, asked, gone, overflowed>>
  BY DEF WakeTimedOut
<1>5. TypeOK'
  <2>1. taken' \in [Threads -> 0..MaxPosts]
    BY <1>4, QueueAssumption DEF QueueInv, TypeOK
  <2>2. waitq' \in Seq(Threads)
    BY <1>3
  <2> QED
    BY <1>4, <2>1, <2>2 DEF QueueInv, TypeOK, ring
<1>6. LinksMatchCalls'
  BY <1>2, <1>4 DEF QueueInv, TypeOK, LinksMatchCalls, WaitCalls
<1>7. WaitListShape' /\ NoSleepOnMessage'
  BY <1>1, <1>2, <1>3, <1>4 DEF QueueInv, TypeOK, WaitListShape, NoSleepOnMessage, Empty, ring
<1>8. curr_sender = Nil
  BY <1>1, <1>2 DEF QueueInv, CurrentSender
<1>9. /\ \A u \in Threads : BlockedSender(u)' <=> BlockedSender(u)
      /\ \A u \in Threads : call'[u] = "send" => call[u] = "send"
      /\ \A u \in Receivers : call'[u] \in WaitCalls => call[u] \in WaitCalls
  BY <1>2, <1>4 DEF BlockedSender, WaitCalls, QueueInv, TypeOK
<1> QED
  BY <1>4, <1>5, <1>6, <1>7, <1>8, <1>9, LocalInv

LEMMA OtherInv ==
    ASSUME QueueInv, NEW t \in Threads, BlockOther(t) \/ WakeOther(t) \/ OtherReturn(t)
    PROVE  QueueInv'
<1>1. UNCHANGED <<ring, waitq, retval, expired, posted, asked, taken, gone, overflowed>>
  BY DEF BlockOther, WakeOther, OtherReturn, history
<1>2. /\ wqp[t] \in {"none", "other"} /\ wqp'[t] \in {"none", "other"}
      /\ call[t] \in {"none", "other"} /\ call'[t] \in {"none", "other"}
      /\ wqp' \in {wqp, [wqp EXCEPT ![t] = "other"], [wqp EXCEPT ![t] = "none"]}
      /\ state' \in {state, [state EXCEPT ![t] = "blocked"], [state EXCEPT ![t] = "running"]}
      /\ call' \in {call, [call EXCEPT ![t] = "other"], [call EXCEPT ![t] = "none"]}
      /\ wqp'[t] = "other" => call'[t] = "other" /\ state'[t] = "blocked"
      /\ wqp'[t] = "none" => state'[t] = "running"
  BY DEF BlockOther, WakeOther, OtherReturn, Idle, QueueInv, TypeOK, LinksMatchCalls, WaitCalls
<1>3. TypeOK'
  BY <1>1, <1>2 DEF QueueInv, TypeOK, ring
<1>4. LinksMatchCalls'
  BY <1>1, <1>2 DEF QueueInv, TypeOK, LinksMatchCalls, WaitCalls
<1>5. \A u \in Threads : wqp'[u] = "queue" <=> wqp[u] = "queue"
  BY <1>2 DEF QueueInv, TypeOK
<1>6. WaitListShape' /\ NoSleepOnMessage'
  BY <1>1, <1>5, QueueAssumption DEF QueueInv, WaitListShape, NoSleepOnMessage, Empty, ring
<1>7. /\ \A u \in Threads : BlockedSender(u)' <=> BlockedSender(u)
      /\ \A u \in Threads : call'[u] = "send" => u # t
      /\ \A u \in Threads : u # t => call'[u] = call[u] /\ state'[u] = state[u]
      /\ \A u \in Receivers : call'[u] \in WaitCalls => call[u] \in WaitCalls
  BY <1>2, QueueAssumption DEF BlockedSender, WaitCalls, QueueInv, TypeOK
<1> QED
  BY <1>1, <1>3, <1>4, <1>6, <1>7, LocalInv

-----------------------------------------------------------------------------
(* The steps that release senders without posting: what is left to show of *)
(* each is which senders it releases and where it leaves the others.       *)
LEMMA ReleaseInv ==
    ASSUME QueueInv, NEW rel \in SUBSET Threads,
           TypeOK', LinksMatchCalls', WaitListShape', NoSleepOnMessage',
           UNCHANGED <<events, asked>>,
           \A t \in rel : BlockedSender(t) /\ retval'[t] \in {0, asked[t]},
           \A t \in Threads : BlockedSender(t)' <=> BlockedSender(t) /\ t \notin rel,
           \A t \in Threads : call'[t] = "send" <=> call[t] = "send",
           \A t \in Threads \ rel :
               call[t] = "send" => retval'[t] = retval[t] /\ state'[t] = state[t],
           sending' => sending,
           \A s \in Slots : sending' /\ senders'[s] # Nil =>
               /\ s \in PendingSlots' /\ senders'[s] = senders[s]
               /\ senders[s] \notin rel /\ senders[s] # curr_sender',
           curr_sender' # Nil =>
               /\ sending' /\ BlockedSender(curr_sender') /\ curr_sender' \notin rel
               /\ \A r \in Receivers : /\ taken'[r] = asked[curr_sender']
                                       /\ call'[r] \notin WaitCalls,
           \A t \in Threads \ rel : BlockedSender(t) =>
               sending' /\ (curr_sender' = t \/ \E s \in PendingSlots' : senders'[s] = t)
    PROVE  QueueInv'
<1>1. OnePlace'
  BY DEF QueueInv, OnePlace
<1>2. curr_sender' # Nil => curr_sender' \in Threads
  BY DEF TypeOK
<1>3. CurrentSender'
  <2> SUFFICES ASSUME curr_sender' # Nil
               PROVE  /\ sending' /\ (state'[curr_sender'] = "blocked" /\ wqp'[curr_sender'] = "send")
                      /\ \A r \in Receivers : /\ taken'[r] = asked'[curr_sender']
                                              /\ call'[r] \notin WaitCalls
    BY DEF CurrentSender, BlockedSender
  <2>1. BlockedSender(curr_sender')
    OBVIOUS
  <2>2. \A t \in Threads : BlockedSender(t) /\ t \notin rel => state'[t] = "blocked" /\ wqp'[t] = "send"
    BY DEF BlockedSender
  <2> QED
    BY <1>2, <2>1, <2>2
<1>4. SendersAccounted'
  BY DEF SendersAccounted
<1>5. SenderSlotsLive'
  <2> SUFFICES ASSUME NEW s \in Slots, sending', senders'[s] # Nil
               PROVE  /\ s \in PendingSlots'
                      /\ state'[senders'[s]] = "blocked" /\ wqp'[senders'[s]] = "send"
                      /\ asked'[senders'[s]] = events'[s].num
    BY DEF SenderSlotsLive, BlockedSender
  <2>1. senders[s] \in Threads /\ BlockedSender(senders[s]) /\ asked[senders[s]] = events[s].num
    BY DEF QueueInv, TypeOK, SenderSlotsLive
  <2> QED
    BY <2>1 DEF BlockedSender
<1>6. ReplyMatches'
  <2> SUFFICES ASSUME NEW t \in Threads, call'[t] = "send", state'[t] = "running"
               PROVE  retval'[t] \in {0, asked'[t]}
    BY DEF ReplyMatches
  <2>1. t \notin rel => retval[t] \in {0, asked[t]}
    BY DEF QueueInv, ReplyMatches
  <2> QED
    BY <2>1
<1> QED
  BY <1>1, <1>3, <1>4, <1>5, <1>6 DEF QueueInv

(* A release unlinks blocked senders only: the threads' links and the wait *)
(* list stay as they were for everybody else.                              *)
LEMMA ReleaseLinks ==
    ASSUME QueueInv, NEW rel \in SUBSET Threads, \A t \in rel : BlockedSender(t),
           state' = WokenState(rel), wqp' = WokenWqp(rel), UNCHANGED <<waitq, expired>>,
           \/ UNCHANGED call
           \/ \E t \in Threads : /\ wqp[t] = "none" /\ call[t] \in WaitCalls
                                /\ call' = [call EXCEPT ![t] = "none"]
    PROVE  /\ LinksMatchCalls' /\ WaitListShape'
           /\ \A t \in Threads : wqp'[t] = "queue" <=> wqp[t] = "queue"
           /\ \A t \in Threads : BlockedSender(t)' <=> BlockedSender(t) /\ t \notin rel
           /\ \A t \in Threads : call'[t] = "send" <=> call[t] = "send"
           /\ \A t \in Threads \ rel : state'[t] = state[t]
           /\ \A t \in Threads : call'[t] \in WaitCalls => call[t] \in WaitCalls
           /\ state' \in [Threads -> {"running", "blocked", "blocked_tmo"}]
           /\ wqp' \in [Threads -> {"none", "queue", "send", "other"}]
           /\ call' \in [Threads -> {"none", "wait", "wait_null", "tmo", "tmo_null", "send", "other"}]
<1>1. /\ state' = [t \in Threads |-> IF t \in rel THEN "running" ELSE state[t]]
      /\ wqp' = [t \in Threads |-> IF t \in rel THEN "none" ELSE wqp[t]]
  BY DEF WokenState, WokenWqp
<1>2. \A t \in Threads : call'[t] = call[t] \/ (call'[t] = "none" /\ wqp[t] = "none" /\ call[t] \in WaitCalls)
  BY DEF QueueInv, TypeOK
<1>3. call' \in [Threads -> {"none", "wait", "wait_null", "tmo", "tmo_null", "send", "other"}]
  BY DEF QueueInv, TypeOK
<1>4. LinksMatchCalls'
  BY <1>1, <1>2 DEF QueueInv, TypeOK, LinksMatchCalls, BlockedSender, WaitCalls
<1>5. \A t \in Threads : wqp'[t] = "queue" <=> wqp[t] = "queue"
  BY <1>1 DEF BlockedSender
<1>6. WaitListShape'
  BY <1>5, QueueAssumption DEF QueueInv, WaitListShape
<1>7. \A t \in Threads : BlockedSender(t)' <=> BlockedSender(t) /\ t \notin rel
  BY <1>1 DEF BlockedSender
<1>8. \A t \in Threads : call'[t] = "send" <=> call[t] = "send"
  BY <1>2 DEF WaitCalls
<1> QED
  BY <1>1, <1>2, <1>3, <1>4, <1>5, <1>6, <1>7, <1>8 DEF QueueInv, TypeOK, WaitCalls

LEMMA ReplyInv ==
    ASSUME ProperUse, QueueInv, NEW me \in Threads, Reply(me)
    PROVE  QueueInv'
<1> DEFINE rel == {curr_sender}
<1>1. PICK r \in Threads : Receivers = {r}
  BY DEF ProperUse
<1>2. /\ me = r /\ sending /\ curr_sender # Nil /\ curr_sender \in Threads
      /\ retval' = Replied(rel, taken[me])
      /\ state' = WokenState(rel) /\ wqp' = WokenWqp(rel) /\ curr_sender' = Nil
      /\ UNCHANGED <<events, read, write, sending, usable, senders, waitq, call, expired>>
      /\ UNCHANGED <<posted, asked, taken, gone, overflowed>>
  BY <1>1 DEF Reply, QueueInv, TypeOK, history
<1>3. BlockedSender(curr_sender) /\ taken[me] = asked[curr_sender]
  BY <1>1, <1>2 DEF QueueInv, CurrentSender
<1>4. retval' = [t \in Threads |-> IF t = curr_sender THEN taken[me] ELSE retval[t]]
  BY <1>2 DEF Replied
<1>5. /\ LinksMatchCalls' /\ WaitListShape'
      /\ \A t \in Threads : wqp'[t] = "queue" <=> wqp[t] = "queue"
      /\ \A t \in Threads : BlockedSender(t)' <=> BlockedSender(t) /\ t \notin rel
      /\ \A t \in Threads \ rel : state'[t] = state[t]
      /\ state' \in [Threads -> {"running", "blocked", "blocked_tmo"}]
      /\ wqp' \in [Threads -> {"none", "queue", "send", "other"}]
  BY <1>2, <1>3, ReleaseLinks
<1>6. TypeOK'
  <2>1. taken[me] \in 0..MaxPosts
    BY DEF QueueInv, TypeOK
  <2>2. retval' \in [Threads -> 0..MaxPosts]
    BY <1>4, <2>1 DEF QueueInv, TypeOK
  <2> QED
    BY <1>2, <1>5, <2>2 DEF QueueInv, TypeOK
<1>7. NoSleepOnMessage'
  BY <1>2, <1>5, QueueAssumption DEF QueueInv, NoSleepOnMessage, Empty
<1>8. PendingSlots' = PendingSlots
  BY <1>2 DEF PendingSlots, Pending
<1>9. \A s \in Slots : senders[s] # Nil => /\ s \in PendingSlots /\ senders[s] \notin rel
                                          /\ senders[s] # Nil
  BY <1>2 DEF QueueInv, SenderSlotsLive, OnePlace
<1>10. \A t \in Threads \ rel : BlockedSender(t) => \E s \in PendingSlots : senders[s] = t
  BY DEF QueueInv, SendersAccounted
<1>11. /\ \A t \in rel : BlockedSender(t) /\ retval'[t] \in {0, asked[t]}
       /\ \A t \in Threads \ rel : retval'[t] = retval[t] /\ state'[t] = state[t]
       /\ UNCHANGED <<events, asked, call>> /\ rel \in SUBSET Threads
  BY <1>2, <1>3, <1>4, <1>5
<1>12. /\ \A s \in Slots : sending' /\ senders'[s] # Nil =>
              /\ s \in PendingSlots' /\ senders'[s] = senders[s]
              /\ senders[s] \notin rel /\ senders[s] # curr_sender'
       /\ \A t \in Threads \ rel : BlockedSender(t) =>
              sending' /\ (curr_sender' = t \/ \E s \in PendingSlots' : senders'[s] = t)
  BY <1>2, <1>8, <1>9, <1>10
<1> QED
  BY <1>2, <1>5, <1>6, <1>7, <1>11, <1>12, ReleaseInv

(* What the auto-reply releases, and what it leaves. *)
LEMMA AutoReplyFacts ==
    ASSUME QueueInv
    PROVE  /\ AutoReplied \subseteq Threads /\ CurrAfterAutoReply = Nil
           /\ \A t \in AutoReplied : BlockedSender(t)
           /\ \A t \in Threads : curr_sender = t => t \in AutoReplied
           /\ \A s \in Slots : sending /\ senders[s] # Nil => senders[s] \notin AutoReplied
           /\ \A t \in Threads \ AutoReplied :
                  BlockedSender(t) => sending /\ \E s \in PendingSlots : senders[s] = t
  BY QueueAssumption DEF QueueInv, TypeOK, CurrentSender, OnePlace, SendersAccounted, AutoReplied,
                         CurrAfterAutoReply, NonNil

(* A receiver takes the message at the head, by a wait or by a peek.       *)
LEMMA TakeInv ==
    ASSUME ProperUse, QueueInv, NEW me \in Receivers, ~Empty,
           TakeHead(me, CurrAfterAutoReply),
           retval' = Replied(AutoReplied, 0), state' = WokenState(AutoReplied),
           wqp' = WokenWqp(AutoReplied),
           wqp[me] = "none" /\ call[me] \in WaitCalls \cup {"none"},
           call' = [call EXCEPT ![me] = "none"],
           UNCHANGED <<events, write, sending, usable, waitq, expired, posted, asked, overflowed>>
    PROVE  QueueInv'
<1> DEFINE h == Slot(read)
           rel == AutoReplied
           found == sending /\ senders[h] # Nil
<1>1. PICK r \in Threads : Receivers = {r}
  BY DEF ProperUse
<1>2. /\ read \in Indices /\ read' \in Indices /\ read \in Pending /\ Pending' = Pending \ {read}
  BY PendingTake DEF QueueInv, TypeOK, TakeHead
<1>3. h \in Slots /\ h \in PendingSlots /\ \A s \in PendingSlots : s # h => s \in PendingSlots'
  BY <1>2, SlotType, QueueAssumption DEF PendingSlots, Indices
<1>4. /\ taken' = [taken EXCEPT ![me] = events[h].num]
      /\ gone' = gone \cup {events[h].num}
      /\ curr_sender' = IF found THEN senders[h] ELSE Nil
      /\ senders' = IF found THEN [senders EXCEPT ![h] = Nil] ELSE senders
  BY AutoReplyFacts DEF TakeHead, NumAt, Fetch
<1>5. retval' = [t \in Threads |-> IF t \in rel THEN 0 ELSE retval[t]]
  BY DEF Replied
<1>6. /\ rel \in SUBSET Threads
      /\ \A t \in rel : BlockedSender(t)
      /\ \A s \in Slots : sending /\ senders[s] # Nil => senders[s] \notin rel
      /\ \A t \in Threads \ rel : BlockedSender(t) => sending /\ \E s \in PendingSlots : senders[s] = t
  BY AutoReplyFacts
<1>7. \/ UNCHANGED call
      \/ \E t \in Threads : /\ wqp[t] = "none" /\ call[t] \in WaitCalls
                           /\ call' = [call EXCEPT ![t] = "none"]
  BY <1>1 DEF QueueInv, TypeOK
<1> HIDE DEF rel, h
<1>8. /\ LinksMatchCalls' /\ WaitListShape'
      /\ \A t \in Threads : wqp'[t] = "queue" <=> wqp[t] = "queue"
      /\ \A t \in Threads : BlockedSender(t)' <=> BlockedSender(t) /\ t \notin rel
      /\ \A t \in Threads : call'[t] = "send" <=> call[t] = "send"
      /\ \A t \in Threads \ rel : state'[t] = state[t]
      /\ state' \in [Threads -> {"running", "blocked", "blocked_tmo"}]
      /\ wqp' \in [Threads -> {"none", "queue", "send", "other"}]
      /\ call' \in [Threads -> {"none", "wait", "wait_null", "tmo", "tmo_null", "send", "other"}]
  BY <1>6, <1>7, ReleaseLinks DEF rel
<1>9. events[h].num \in 0..MaxPosts
  BY <1>3 DEF QueueInv, TypeOK, Messages
<1>10. TypeOK'
  <2>1. retval' \in [Threads -> 0..MaxPosts]
    <3>1. retval \in [Threads -> 0..MaxPosts] /\ 0 \in 0..MaxPosts
      BY QueueAssumption DEF QueueInv, TypeOK
    <3> QED
      BY <1>5, <3>1
  <2>2. taken' \in [Threads -> 0..MaxPosts] /\ gone' \subseteq 0..MaxPosts
    BY <1>4, <1>9 DEF QueueInv, TypeOK
  <2>3. senders' \in [Slots -> Threads \cup {Nil}] /\ curr_sender' \in Threads \cup {Nil}
    BY <1>3, <1>4 DEF QueueInv, TypeOK
  <2> QED
    BY <1>2, <1>8, <2>1, <2>2, <2>3 DEF QueueInv, TypeOK
<1>11. NoSleepOnMessage'
  <2>1. wqp'[me] # "queue"
    BY <1>8, <1>1
  <2> QED
    BY <1>1, <2>1 DEF NoSleepOnMessage
<1>12. \A s \in Slots : sending /\ senders'[s] # Nil =>
          /\ s \in PendingSlots' /\ senders'[s] = senders[s]
          /\ senders[s] \notin rel /\ senders[s] # curr_sender'
  <2> SUFFICES ASSUME NEW s \in Slots, sending, senders'[s] # Nil
               PROVE  /\ s \in PendingSlots' /\ senders'[s] = senders[s]
                      /\ senders[s] \notin rel /\ senders[s] # curr_sender'
    OBVIOUS
  <2>1. s # h /\ senders'[s] = senders[s] /\ senders[s] # Nil
    BY <1>3, <1>4 DEF QueueInv, TypeOK
  <2>2. s \in PendingSlots'
    BY <1>3, <2>1 DEF QueueInv, SenderSlotsLive
  <2>3. senders[s] # curr_sender'
    BY <1>3, <1>4, <2>1 DEF QueueInv, OnePlace
  <2> QED
    BY <1>6, <2>1, <2>2, <2>3
<1>13. curr_sender' # Nil =>
          /\ sending /\ BlockedSender(curr_sender') /\ curr_sender' \notin rel
          /\ \A u \in Receivers : /\ taken'[u] = asked[curr_sender']
                                  /\ call'[u] \notin WaitCalls
  <2> SUFFICES ASSUME found
               PROVE  /\ sending /\ BlockedSender(senders[h]) /\ senders[h] \notin rel
                      /\ \A u \in Receivers : /\ taken'[u] = asked[senders[h]]
                                              /\ call'[u] \notin WaitCalls
    BY <1>4
  <2>1. BlockedSender(senders[h]) /\ asked[senders[h]] = events[h].num
    BY <1>3 DEF QueueInv, SenderSlotsLive
  <2>2. taken'[me] = events[h].num /\ call'[me] = "none"
    BY <1>1, <1>4 DEF QueueInv, TypeOK
  <2> QED
    BY <1>1, <1>3, <1>6, <2>1, <2>2 DEF WaitCalls
<1>14. \A t \in Threads \ rel : BlockedSender(t) =>
          sending' /\ (curr_sender' = t \/ \E s \in PendingSlots' : senders'[s] = t)
  <2> SUFFICES ASSUME NEW t \in Threads \ rel, BlockedSender(t)
               PROVE  sending /\ (curr_sender' = t \/ \E s \in PendingSlots' : senders'[s] = t)
    OBVIOUS
  <2>1. PICK s \in PendingSlots : sending /\ senders[s] = t
    BY <1>6
  <2>2. t # Nil /\ s \in Slots
    BY QueueAssumption, PendingSlotsType
  <2>3. CASE s = h
    BY <1>4, <2>1, <2>2, <2>3
  <2>4. CASE s # h
    BY <1>3, <1>4, <2>1, <2>2, <2>4 DEF QueueInv, TypeOK
  <2> QED
    BY <2>3, <2>4
<1> HIDE DEF found
<1>15. /\ \A t \in rel : BlockedSender(t) /\ retval'[t] \in {0, asked[t]}
       /\ \A t \in Threads \ rel : retval'[t] = retval[t] /\ state'[t] = state[t]
  BY <1>5, <1>6, <1>8
<1> QED
  BY <1>6, <1>8, <1>10, <1>11, <1>12, <1>13, <1>14, <1>15, ReleaseInv

LEMMA WakeWithMessageInv ==
    ASSUME ProperUse, QueueInv, NEW me \in Threads, WakeWithMessage(me)
    PROVE  QueueInv'
<1>1. PICK r \in Threads : Receivers = {r}
  BY DEF ProperUse
<1>2. call[me] \in WaitCalls /\ me = r /\ state[me] = "running" /\ ~Empty
  BY <1>1 DEF WakeWithMessage, WaitCalls, QueueInv, LinksMatchCalls
<1>3. wqp[me] = "none"
  BY <1>1, <1>2 DEF QueueInv, TypeOK, NoSleepOnMessage, LinksMatchCalls, WaitCalls
<1>4. curr_sender = Nil /\ AutoReplied = {} /\ CurrAfterAutoReply = Nil
  BY <1>1, <1>2 DEF QueueInv, CurrentSender, AutoReplied, CurrAfterAutoReply, NonNil
<1>5. /\ call' = [call EXCEPT ![me] = "none"]
      /\ UNCHANGED <<events, write, sending, usable, waitq, state, wqp, retval, expired,
                     posted, asked, overflowed>>
  BY DEF WakeWithMessage
<1>6. retval' = Replied({}, 0) /\ state' = WokenState({}) /\ wqp' = WokenWqp({})
  BY <1>5 DEF Replied, WokenState, WokenWqp, QueueInv, TypeOK
<1>7. CASE TakeHead(me, curr_sender)
  BY <1>1, <1>2, <1>3, <1>4, <1>5, <1>6, <1>7, TakeInv
<1>8. CASE UNCHANGED <<read, curr_sender, senders, taken, gone>>
  <2>1. ring' = ring
    BY <1>5, <1>8 DEF ring
  <2>2. TypeOK'
    BY <1>5, <1>8 DEF QueueInv, TypeOK
  <2>3. LinksMatchCalls' /\ WaitListShape' /\ NoSleepOnMessage'
    BY <1>2, <1>3, <1>5, <1>8, QueueAssumption
    DEF QueueInv, TypeOK, LinksMatchCalls, WaitListShape, NoSleepOnMessage, WaitCalls, Empty
  <2>4. /\ \A t \in Threads : BlockedSender(t)' <=> BlockedSender(t)
        /\ \A t \in Threads : call'[t] = "send" => call[t] = "send"
        /\ \A t \in Receivers : call'[t] \in WaitCalls => call[t] \in WaitCalls
    BY <1>2, <1>5 DEF BlockedSender, WaitCalls, QueueInv, TypeOK
  <2> QED
    BY <1>4, <1>5, <1>8, <2>1, <2>2, <2>3, <2>4, LocalInv
<1> QED
  BY <1>7, <1>8 DEF WakeWithMessage

(* A receiver enters a wait, or leaves it at once, without a message: only *)
(* the auto-reply has happened to the senders.                             *)
LEMMA NoMessageInv ==
    ASSUME QueueInv, TypeOK', LinksMatchCalls', WaitListShape', NoSleepOnMessage',
           retval' = Replied(AutoReplied, 0), curr_sender' = Nil,
           UNCHANGED <<events, asked, read, write, sending, senders>>,
           \A t \in Threads : BlockedSender(t)' <=> BlockedSender(t) /\ t \notin AutoReplied,
           \A t \in Threads : call'[t] = "send" <=> call[t] = "send",
           \A t \in Threads \ AutoReplied : call[t] = "send" => state'[t] = state[t]
    PROVE  QueueInv'
<1>1. PendingSlots' = PendingSlots
  BY DEF PendingSlots, Pending
<1>2. retval' = [t \in Threads |-> IF t \in AutoReplied THEN 0 ELSE retval[t]]
  BY DEF Replied
<1>3. /\ AutoReplied \in SUBSET Threads
      /\ \A t \in AutoReplied : BlockedSender(t) /\ retval'[t] \in {0, asked[t]}
      /\ \A t \in Threads \ AutoReplied : retval'[t] = retval[t]
  BY <1>2, AutoReplyFacts
<1>4. /\ \A s \in Slots : sending' /\ senders'[s] # Nil =>
              /\ s \in PendingSlots' /\ senders'[s] = senders[s]
              /\ senders[s] \notin AutoReplied /\ senders[s] # curr_sender'
      /\ \A t \in Threads \ AutoReplied : BlockedSender(t) =>
              sending' /\ (curr_sender' = t \/ \E s \in PendingSlots' : senders'[s] = t)
  BY <1>1, AutoReplyFacts DEF QueueInv, SenderSlotsLive
<1> QED
  BY <1>3, <1>4, ReleaseInv

LEMMA WaitEnterInv ==
    ASSUME ProperUse, QueueInv, NEW me \in Threads, NEW inside \in WaitCalls, WaitEnter(me, inside)
    PROVE  QueueInv'
<1>1. PICK r \in Threads : Receivers = {r}
  BY DEF ProperUse
<1>2. /\ me = r /\ call[me] = "none" /\ state[me] = "running"
      /\ retval' = Replied(AutoReplied, 0)
      /\ UNCHANGED <<events, write, sending, usable, posted, asked, overflowed>>
  BY <1>1 DEF WaitEnter, Idle
<1>3. wqp[me] = "none" /\ waitq = <<>>
  BY <1>1, <1>2 DEF QueueInv, TypeOK, LinksMatchCalls, WaitListShape, WaitCalls
<1>4. /\ AutoReplied \in SUBSET Threads /\ CurrAfterAutoReply = Nil
      /\ \A t \in AutoReplied : BlockedSender(t)
  BY AutoReplyFacts
<1>5. me \notin AutoReplied
  BY <1>2, <1>4 DEF BlockedSender
<1>6. retval' \in [Threads -> 0..MaxPosts]
  <2>1. retval \in [Threads -> 0..MaxPosts] /\ 0 \in 0..MaxPosts
    BY QueueAssumption DEF QueueInv, TypeOK
  <2> QED
    BY <1>2, <2>1 DEF Replied
<1>7. CASE /\ ~Empty /\ TakeHead(me, CurrAfterAutoReply)
           /\ state' = WokenState(AutoReplied) /\ wqp' = WokenWqp(AutoReplied)
           /\ UNCHANGED <<waitq, call, expired>>
  <2>1. call' = [call EXCEPT ![me] = "none"]
    BY <1>2, <1>7 DEF QueueInv, TypeOK
  <2> QED
    BY <1>1, <1>2, <1>3, <1>7, <2>1, TakeInv
<1>8. CASE /\ state' = WokenState(AutoReplied) /\ wqp' = WokenWqp(AutoReplied)
           /\ curr_sender' = CurrAfterAutoReply
           /\ taken' \in {taken, [taken EXCEPT ![me] = 0]}
           /\ UNCHANGED <<read, senders, gone, waitq, call, expired>>
  <2>1. /\ LinksMatchCalls' /\ WaitListShape'
        /\ \A t \in Threads : wqp'[t] = "queue" <=> wqp[t] = "queue"
        /\ \A t \in Threads : BlockedSender(t)' <=> BlockedSender(t) /\ t \notin AutoReplied
        /\ \A t \in Threads : call'[t] = "send" <=> call[t] = "send"
        /\ \A t \in Threads \ AutoReplied : state'[t] = state[t]
        /\ state' \in [Threads -> {"running", "blocked", "blocked_tmo"}]
        /\ wqp' \in [Threads -> {"none", "queue", "send", "other"}]
    BY <1>4, <1>8, ReleaseLinks
  <2>2. TypeOK'
    <3>1. taken' \in [Threads -> 0..MaxPosts]
      <4>1. taken \in [Threads -> 0..MaxPosts] /\ 0 \in 0..MaxPosts
        BY QueueAssumption DEF QueueInv, TypeOK
      <4> QED
        BY <1>8, <4>1
    <3> QED
      BY <1>2, <1>4, <1>6, <1>8, <2>1, <3>1 DEF QueueInv, TypeOK
  <2>3. NoSleepOnMessage'
    BY <1>2, <1>8, <2>1, QueueAssumption DEF QueueInv, NoSleepOnMessage, Empty
  <2> QED
    BY <1>2, <1>4, <1>8, <2>1, <2>2, <2>3, NoMessageInv
<1>9. CASE /\ Empty
           /\ \/ inside \in {"wait", "wait_null"} /\ Block(me, "blocked", inside)
              \/ inside \in {"tmo", "tmo_null"} /\ Block(me, "blocked_tmo", inside)
           /\ curr_sender' = CurrAfterAutoReply
           /\ UNCHANGED <<read, senders, taken, gone>>
  <2>1. PICK st \in {"blocked", "blocked_tmo"} : Block(me, st, inside)
    BY <1>9
  <2>2. /\ state' = [t \in Threads |-> IF t = me THEN st
                                      ELSE IF t \in AutoReplied THEN "running" ELSE state[t]]
        /\ wqp' = [t \in Threads |-> IF t = me THEN "queue"
                                    ELSE IF t \in AutoReplied THEN "none" ELSE wqp[t]]
        /\ call' = [call EXCEPT ![me] = inside]
        /\ expired' = [expired EXCEPT ![me] = FALSE]
    BY <2>1 DEF Block, WokenState, WokenWqp
  <2>3. waitq' = <<me>>
    <3>1. waitq' = Append(<<>>, me)
      BY <1>3, <2>1 DEF Block
    <3> QED
      BY <3>1
  <2>4. call' \in [Threads -> {"none", "wait", "wait_null", "tmo", "tmo_null", "send", "other"}]
    BY <2>2 DEF QueueInv, TypeOK, WaitCalls
  <2>5. LinksMatchCalls'
    BY <1>1, <1>2, <1>4, <2>2 DEF QueueInv, TypeOK, LinksMatchCalls, WaitCalls, BlockedSender
  <2>6. WaitListShape' /\ NoSleepOnMessage'
    BY <1>1, <1>2, <1>9, <2>2, <2>3 DEF QueueInv, TypeOK, WaitListShape, NoSleepOnMessage, Empty
  <2>7. TypeOK'
    <3>1. /\ state' \in [Threads -> {"running", "blocked", "blocked_tmo"}]
          /\ wqp' \in [Threads -> {"none", "queue", "send", "other"}]
          /\ expired' \in [Threads -> BOOLEAN]
      BY <2>2 DEF QueueInv, TypeOK
    <3>2. waitq' \in Seq(Threads)
      BY <2>3
    <3> QED
      BY <1>2, <1>4, <1>6, <1>9, <2>4, <3>1, <3>2 DEF QueueInv, TypeOK
  <2>8. /\ \A t \in Threads : BlockedSender(t)' <=> BlockedSender(t) /\ t \notin AutoReplied
        /\ \A t \in Threads \ AutoReplied : call[t] = "send" => state'[t] = state[t]
    BY <1>2, <2>2 DEF BlockedSender
  <2>9. \A t \in Threads : call'[t] = "send" <=> call[t] = "send"
    BY <1>2, <2>2 DEF WaitCalls, QueueInv, TypeOK
  <2> QED
    BY <1>2, <1>4, <1>9, <2>5, <2>6, <2>7, <2>8, <2>9, NoMessageInv
<1> QED
  BY <1>7, <1>8, <1>9 DEF WaitEnter

LEMMA PeekTakeInv ==
    ASSUME ProperUse, QueueInv, NEW me \in Threads, NEW f \in Filters, PeekTake(me, 0, f)
    PROVE  QueueInv'
<1>1. At(0) = read /\ ~Empty
  <2>1. read \in Indices /\ write \in Indices /\ 0 < queue_count
    BY DEF QueueInv, TypeOK, PeekTake, FirstMatch
  <2> QED
    BY <2>1, HeadPosition, NotEmpty DEF At
<1>2. /\ Idle(me) /\ me \in Receivers
      /\ retval' = Replied(AutoReplied, 0)
      /\ state' = WokenState(AutoReplied) /\ wqp' = WokenWqp(AutoReplied)
      /\ read' = Succ(read)
      /\ taken' = [taken EXCEPT ![me] = NumAt(read)] /\ gone' = gone \cup {NumAt(read)}
      /\ UNCHANGED <<write, sending, usable, waitq, call, expired, posted, asked, overflowed>>
  BY <1>1 DEF PeekTake
<1>3. events' = events /\ Fetch(Slot(read), CurrAfterAutoReply)
  BY <1>1 DEF PeekTake, Slide, SlideOf, Fetch
<1>4. TakeHead(me, CurrAfterAutoReply)
  BY <1>2, <1>3 DEF TakeHead
<1>5. wqp[me] = "none" /\ call[me] = "none" /\ call' = [call EXCEPT ![me] = "none"]
  <2>1. call[me] = "none" /\ wqp[me] \in {"none", "queue", "send", "other"}
    BY <1>2 DEF Idle, QueueInv, TypeOK
  <2>2. wqp[me] = "none"
    BY <2>1 DEF QueueInv, LinksMatchCalls, WaitCalls
  <2> QED
    BY <1>2, <2>1, <2>2 DEF QueueInv, TypeOK
<1> QED
  BY <1>1, <1>2, <1>3, <1>4, <1>5, TakeInv

LEMMA DiscardInv ==
    ASSUME QueueInv, NEW f \in Filters, Discard(0, f)
    PROVE  QueueInv'
<1> DEFINE h == Slot(read)
           rel == IF sending THEN NonNil({senders[h]}) ELSE {}
<1>1. At(0) = read /\ ~Empty
  <2>1. read \in Indices /\ write \in Indices /\ 0 < queue_count
    BY DEF QueueInv, TypeOK, Discard, FirstMatch
  <2> QED
    BY <2>1, HeadPosition, NotEmpty DEF At
<1>2. /\ retval' = Replied(rel, 0)
      /\ state' = WokenState(rel) /\ wqp' = WokenWqp(rel)
      /\ read' = Succ(read) /\ gone' = gone \cup {NumAt(read)}
      /\ UNCHANGED <<write, sending, usable, curr_sender, waitq, call, expired,
                     posted, asked, taken, overflowed>>
  BY <1>1 DEF Discard
<1>3. events' = events /\ senders' = [senders EXCEPT ![h] = IF sending THEN Nil ELSE @]
  BY <1>1 DEF Discard, Slide, SlideOf
<1>4. read' \in Indices /\ read \in Pending /\ Pending' = Pending \ {read}
  BY <1>1, <1>2, PendingTake DEF QueueInv, TypeOK
<1>5. h \in Slots /\ h \in PendingSlots /\ \A s \in PendingSlots : s # h => s \in PendingSlots'
  BY <1>4, SlotType, QueueAssumption DEF PendingSlots, Pending, Indices
<1>6. NumAt(read) \in 0..MaxPosts
  BY <1>5 DEF QueueInv, TypeOK, Messages, NumAt
<1> HIDE DEF h
<1>7. /\ rel \in SUBSET Threads
      /\ \A t \in rel : BlockedSender(t) /\ t # curr_sender /\ t = senders[h]
      /\ sending /\ senders[h] # Nil => senders[h] \in rel
  BY <1>5 DEF NonNil, QueueInv, TypeOK, SenderSlotsLive, OnePlace
<1> HIDE DEF rel
<1>8. /\ LinksMatchCalls' /\ WaitListShape'
      /\ \A t \in Threads : wqp'[t] = "queue" <=> wqp[t] = "queue"
      /\ \A t \in Threads : BlockedSender(t)' <=> BlockedSender(t) /\ t \notin rel
      /\ \A t \in Threads : call'[t] = "send" <=> call[t] = "send"
      /\ \A t \in Threads \ rel : state'[t] = state[t]
      /\ state' \in [Threads -> {"running", "blocked", "blocked_tmo"}]
      /\ wqp' \in [Threads -> {"none", "queue", "send", "other"}]
  BY <1>2, <1>7, ReleaseLinks
<1>9. retval' = [t \in Threads |-> IF t \in rel THEN 0 ELSE retval[t]]
  BY <1>2 DEF Replied
<1>10. TypeOK'
  <2>1. retval \in [Threads -> 0..MaxPosts] /\ 0 \in 0..MaxPosts
    BY QueueAssumption DEF QueueInv, TypeOK
  <2>2. retval' \in [Threads -> 0..MaxPosts]
    BY <1>9, <2>1
  <2>3. senders' \in [Slots -> Threads \cup {Nil}] /\ gone' \subseteq 0..MaxPosts
    BY <1>2, <1>3, <1>6 DEF QueueInv, TypeOK
  <2> QED
    BY <1>2, <1>3, <1>4, <1>8, <2>2, <2>3 DEF QueueInv, TypeOK
<1>11. NoSleepOnMessage'
  BY <1>1, <1>8, QueueAssumption DEF QueueInv, NoSleepOnMessage
<1>12. \A s \in Slots : sending' /\ senders'[s] # Nil =>
          /\ s \in PendingSlots' /\ senders'[s] = senders[s]
          /\ senders[s] \notin rel /\ senders[s] # curr_sender'
  <2> SUFFICES ASSUME NEW s \in Slots, sending, senders'[s] # Nil
               PROVE  /\ s \in PendingSlots' /\ senders'[s] = senders[s]
                      /\ senders[s] \notin rel /\ senders[s] # curr_sender'
    BY <1>2
  <2>1. s # h /\ senders'[s] = senders[s] /\ senders[s] # Nil
    BY <1>3, <1>5 DEF QueueInv, TypeOK
  <2>2. s \in PendingSlots /\ senders[s] # curr_sender
    BY <2>1 DEF QueueInv, SenderSlotsLive, OnePlace
  <2>3. senders[s] \notin rel
    BY <1>5, <1>7, <2>1 DEF QueueInv, OnePlace
  <2> QED
    BY <1>2, <1>5, <2>1, <2>2, <2>3
<1>13. curr_sender' # Nil =>
          /\ sending' /\ BlockedSender(curr_sender') /\ curr_sender' \notin rel
          /\ \A r \in Receivers : /\ taken'[r] = asked[curr_sender']
                                  /\ call'[r] \notin WaitCalls
  BY <1>2, <1>7 DEF QueueInv, CurrentSender
<1>14. \A t \in Threads \ rel : BlockedSender(t) =>
          sending' /\ (curr_sender' = t \/ \E s \in PendingSlots' : senders'[s] = t)
  <2> SUFFICES ASSUME NEW t \in Threads \ rel, BlockedSender(t), curr_sender # t
               PROVE  \E s \in PendingSlots' : senders'[s] = t
    BY <1>2 DEF QueueInv, SendersAccounted
  <2>1. PICK s \in PendingSlots : sending /\ senders[s] = t
    BY DEF QueueInv, SendersAccounted
  <2>2. t # Nil /\ s \in Slots
    BY QueueAssumption, PendingSlotsType
  <2>3. s # h
    BY <1>7, <2>1, <2>2
  <2> QED
    BY <1>3, <1>5, <2>1, <2>2, <2>3 DEF QueueInv, TypeOK
<1> QED
  BY <1>2, <1>3, <1>7, <1>8, <1>9, <1>10, <1>11, <1>12, <1>13, <1>14, ReleaseInv

LEMMA ClearInv ==
    ASSUME QueueInv, Clear
    PROVE  QueueInv'
<1> DEFINE rel == IF sending THEN PendingSenders ELSE {}
<1>1. /\ retval' = Replied(rel, 0)
      /\ state' = WokenState(rel) /\ wqp' = WokenWqp(rel)
      /\ senders' = IF sending
                    THEN [s \in Slots |-> IF s \in PendingSlots THEN Nil ELSE senders[s]]
                    ELSE senders
      /\ read' = write /\ gone' = gone \cup {NumAt(i) : i \in Pending}
      /\ UNCHANGED <<events, write, sending, usable, curr_sender, waitq, call, expired,
                     posted, asked, taken, overflowed>>
  BY DEF Clear
<1>2. Empty'
  BY <1>1 DEF Empty
<1>3. \A t \in rel : \E s \in PendingSlots : s \in Slots /\ t = senders[s] /\ t # Nil /\ sending
  BY PendingSlotsType DEF PendingSenders, NonNil
<1>4. /\ rel \in SUBSET Threads
      /\ \A t \in rel : BlockedSender(t) /\ t # curr_sender
  BY <1>3 DEF QueueInv, TypeOK, SenderSlotsLive, OnePlace
<1>5. {NumAt(i) : i \in Pending} \subseteq 0..MaxPosts
  BY PendingSlotsType, SlotType, QueueAssumption DEF NumAt, QueueInv, TypeOK, Messages, Indices
<1>6. \A t \in Threads \ rel : BlockedSender(t) => curr_sender = t /\ sending
  BY QueueAssumption DEF QueueInv, SendersAccounted, PendingSenders, NonNil
<1>7. \A s \in Slots : sending => senders'[s] = Nil
  BY <1>1 DEF QueueInv, SenderSlotsLive
<1> HIDE DEF rel
<1>8. /\ LinksMatchCalls' /\ WaitListShape'
      /\ \A t \in Threads : BlockedSender(t)' <=> BlockedSender(t) /\ t \notin rel
      /\ \A t \in Threads : call'[t] = "send" <=> call[t] = "send"
      /\ \A t \in Threads \ rel : state'[t] = state[t]
      /\ state' \in [Threads -> {"running", "blocked", "blocked_tmo"}]
      /\ wqp' \in [Threads -> {"none", "queue", "send", "other"}]
  BY <1>1, <1>4, ReleaseLinks
<1>9. retval' = [t \in Threads |-> IF t \in rel THEN 0 ELSE retval[t]]
  BY <1>1 DEF Replied
<1>10. TypeOK'
  <2>1. retval \in [Threads -> 0..MaxPosts] /\ 0 \in 0..MaxPosts
    BY QueueAssumption DEF QueueInv, TypeOK
  <2>2. retval' \in [Threads -> 0..MaxPosts]
    BY <1>9, <2>1
  <2>3. senders' \in [Slots -> Threads \cup {Nil}] /\ gone' \subseteq 0..MaxPosts
    BY <1>1, <1>5 DEF QueueInv, TypeOK
  <2> QED
    BY <1>1, <1>8, <2>2, <2>3 DEF QueueInv, TypeOK
<1>11. NoSleepOnMessage'
  BY <1>2 DEF NoSleepOnMessage
<1>12. curr_sender' # Nil =>
          /\ sending' /\ BlockedSender(curr_sender') /\ curr_sender' \notin rel
          /\ \A r \in Receivers : /\ taken'[r] = asked[curr_sender']
                                  /\ call'[r] \notin WaitCalls
  BY <1>1, <1>4 DEF QueueInv, CurrentSender
<1> QED
  BY <1>1, <1>4, <1>6, <1>7, <1>8, <1>9, <1>10, <1>11, <1>12, ReleaseInv

LEMMA DeleteInv ==
    ASSUME ProperUse, QueueInv, Delete
    PROVE  QueueInv'
<1> DEFINE waiters == {t \in Threads : wqp[t] = "queue"}
           replied == IF sending THEN PendingSenders \cup NonNil({curr_sender}) ELSE {}
           woken == waiters \cup replied
<1>1. /\ usable' = FALSE /\ sending' = FALSE
      /\ retval' = Replied(replied, 0)
      /\ state' = WokenState(woken) /\ wqp' = WokenWqp(woken) /\ waitq' = <<>>
      /\ senders' = [s \in Slots |-> IF sending /\ s \in PendingSlots THEN Nil ELSE senders[s]]
      /\ curr_sender' = IF sending THEN Nil ELSE curr_sender
      /\ read' = write /\ gone' = gone \cup {NumAt(i) : i \in Pending}
      /\ UNCHANGED <<events, write, call, expired, posted, asked, taken, overflowed>>
  BY DEF Delete
<1>2. Empty'
  BY <1>1 DEF Empty
<1>3. curr_sender' = Nil
  BY <1>1 DEF QueueInv, CurrentSender
<1>4. \A t \in PendingSenders : \E s \in PendingSlots : s \in Slots /\ t = senders[s] /\ t # Nil
  BY PendingSlotsType DEF PendingSenders, NonNil
<1>5. replied \subseteq Threads /\ \A t \in replied : BlockedSender(t)
  BY <1>4 DEF QueueInv, TypeOK, SenderSlotsLive, CurrentSender, NonNil
<1>6. \A t \in Threads : BlockedSender(t) => t \in replied
  BY QueueAssumption DEF QueueInv, SendersAccounted, PendingSenders, NonNil
<1>7. {NumAt(i) : i \in Pending} \subseteq 0..MaxPosts
  BY PendingSlotsType, SlotType, QueueAssumption DEF NumAt, QueueInv, TypeOK, Messages, Indices
<1> HIDE DEF replied
<1>8. /\ state' = [t \in Threads |-> IF t \in woken THEN "running" ELSE state[t]]
      /\ wqp' = [t \in Threads |-> IF t \in woken THEN "none" ELSE wqp[t]]
      /\ retval' = [t \in Threads |-> IF t \in replied THEN 0 ELSE retval[t]]
  BY <1>1 DEF WokenState, WokenWqp, Replied
<1>9. LinksMatchCalls'
  BY <1>1, <1>8 DEF QueueInv, LinksMatchCalls
<1>10. WaitListShape'
  BY <1>1, <1>8, QueueAssumption DEF WaitListShape
<1>11. \A t \in Threads : ~BlockedSender(t)'
  BY <1>6, <1>8 DEF BlockedSender
<1>12. TypeOK'
  <2>1. retval \in [Threads -> 0..MaxPosts] /\ 0 \in 0..MaxPosts
    BY QueueAssumption DEF QueueInv, TypeOK
  <2>2. retval' \in [Threads -> 0..MaxPosts]
    BY <1>8, <2>1
  <2>3. senders' \in [Slots -> Threads \cup {Nil}] /\ gone' \subseteq 0..MaxPosts
    BY <1>1, <1>7 DEF QueueInv, TypeOK
  <2>4. waitq' \in Seq(Threads)
    BY <1>1
  <2>5. /\ state' \in [Threads -> {"running", "blocked", "blocked_tmo"}]
        /\ wqp' \in [Threads -> {"none", "queue", "send", "other"}]
    BY <1>8 DEF QueueInv, TypeOK
  <2> QED
    BY <1>1, <1>3, <2>2, <2>3, <2>4, <2>5 DEF QueueInv, TypeOK
<1>13. OnePlace' /\ CurrentSender' /\ SendersAccounted' /\ SenderSlotsLive' /\ NoSleepOnMessage'
  BY <1>1, <1>2, <1>3, <1>11 DEF OnePlace, CurrentSender, SendersAccounted, SenderSlotsLive,
                                 NoSleepOnMessage
<1>14. ReplyMatches'
  <2> SUFFICES ASSUME NEW t \in Threads, call[t] = "send"
               PROVE  retval'[t] \in {0, asked[t]}
    BY <1>1 DEF ReplyMatches
  <2>1. CASE t \in replied
    BY <1>8, <2>1
  <2>2. CASE t \notin replied
    <3>1. ~BlockedSender(t) /\ wqp[t] \in {"none", "queue", "send", "other"}
      BY <1>6, <2>2 DEF QueueInv, TypeOK
    <3>2. state[t] = "running"
      BY <3>1 DEF QueueInv, LinksMatchCalls, BlockedSender, WaitCalls
    <3> QED
      BY <1>8, <2>2, <3>2 DEF QueueInv, ReplyMatches
  <2> QED
    BY <2>1, <2>2
<1> QED
  BY <1>9, <1>10, <1>12, <1>13, <1>14 DEF QueueInv

-----------------------------------------------------------------------------
(* The theorems *)

LEMMA InitInv == ASSUME ProperUse, Init PROVE QueueInv
<1>1. TypeOK
  <2>1. NoMessage \in Messages
    BY QueueAssumption DEF NoMessage, Messages
  <2>2. Starts \subseteq Indices /\ 0 \in 0..MaxPosts
    BY QueueAssumption DEF Indices
  <2>3. /\ events \in [Slots -> Messages] /\ senders \in [Slots -> Threads \cup {Nil}]
        /\ read \in Indices /\ write \in Indices /\ waitq \in Seq(Threads)
    BY <2>1, <2>2 DEF Init
  <2>4. /\ state \in [Threads -> {"running", "blocked", "blocked_tmo"}]
        /\ wqp \in [Threads -> {"none", "queue", "send", "other"}]
        /\ call \in [Threads -> {"none", "wait", "wait_null", "tmo", "tmo_null", "send", "other"}]
        /\ expired \in [Threads -> BOOLEAN]
    BY DEF Init
  <2>5. /\ retval \in [Threads -> 0..MaxPosts] /\ asked \in [Threads -> 0..MaxPosts]
        /\ taken \in [Threads -> 0..MaxPosts] /\ posted \in 0..MaxPosts /\ gone \subseteq 0..MaxPosts
    BY <2>2 DEF Init
  <2> QED
    BY <2>3, <2>4, <2>5 DEF Init, TypeOK
<1>2. Receivers \subseteq Threads
  BY QueueAssumption
<1> QED
  BY <1>1, <1>2 DEF Init, QueueInv, LinksMatchCalls, WaitListShape, OnePlace, CurrentSender, SendersAccounted,
          BlockedSender, SenderSlotsLive, ReplyMatches, NoSleepOnMessage, Empty, WaitCalls

LEMMA NextInv == ASSUME ProperUse, QueueInv, Next PROVE QueueInv'
<1>1. 0..ScrubDepth = {0}
  BY DEF ProperUse
<1>2. CASE EnableSend
  BY <1>2, EnableSendInv
<1>3. CASE \E id \in Ids : Post(id)
  BY <1>3, PostInv
<1>4. CASE \E t \in Threads : \E id \in Ids : Send(t, id)
  BY <1>4, SendInv
<1>5. CASE \E t \in Threads : SendReturn(t)
  BY <1>5, SendReturnInv
<1>6. CASE \E t \in Threads : Reply(t)
  BY <1>6, ReplyInv
<1>7. CASE \E t \in Threads : \E inside \in WaitCalls : WaitEnter(t, inside)
  BY <1>7, WaitEnterInv
<1>8. CASE \E t \in Threads : TmoExpire(t)
  BY <1>8, TmoExpireInv
<1>9. CASE \E t \in Threads : Resume(t)
  BY <1>9, WakeWithMessageInv, WakeEmptyBlockInv, WakeTimedOutInv DEF Resume
<1>10. CASE \E t \in Threads : BlockOther(t) \/ WakeOther(t) \/ OtherReturn(t)
  BY <1>10, OtherInv
<1>11. CASE \E t \in Threads : \E k \in 0..ScrubDepth, f \in Filters : PeekTake(t, k, f)
  BY <1>1, <1>11, PeekTakeInv
<1>12. CASE \E k \in 0..ScrubDepth, f \in Filters : Discard(k, f)
  BY <1>1, <1>12, DiscardInv
<1>13. CASE Clear
  BY <1>13, ClearInv
<1>14. CASE Delete
  BY <1>14, DeleteInv
<1> QED
  BY <1>2, <1>3, <1>4, <1>5, <1>6, <1>7, <1>8, <1>9, <1>10, <1>11, <1>12, <1>13, <1>14 DEF Next

LEMMA StutterInv == ASSUME QueueInv, UNCHANGED vars PROVE QueueInv'
<1>1. /\ UNCHANGED <<events, read, write, sending, usable, senders, curr_sender, waitq, state,
                     wqp, retval, call, expired, posted, asked, taken, gone, overflowed>>
  BY DEF vars, ring, threadVars, history
<1>2. TypeOK' /\ LinksMatchCalls' /\ WaitListShape' /\ NoSleepOnMessage'
  BY <1>1 DEF QueueInv, TypeOK, LinksMatchCalls, WaitListShape, NoSleepOnMessage, Empty
<1> QED
  BY <1>1, <1>2, LocalInv DEF ring, BlockedSender

(* For every ring length, counter width, set of threads and number of      *)
(* messages, QueueInv holds in every state of a queue with one receiver    *)
(* whose removing peeks match at the head: the types of queue.c's state,   *)
(* the wait list, the places of the blocked senders and their replies.     *)
THEOREM QueueInvInductive == ProperUse => (Spec => []QueueInv)
<1> SUFFICES ASSUME ProperUse PROVE Spec => []QueueInv
  OBVIOUS
<1>1. Init => QueueInv
  BY InitInv
<1>2. QueueInv /\ [Next]_vars => QueueInv'
  BY NextInv, StutterInv
<1> QED
  BY <1>1, <1>2, PTL DEF Spec

(* Nobody who waits for a reply is forgotten: at every moment a blocked    *)
(* sender is the current one or sits at the slot of a message in the ring. *)
THEOREM QueueSendersAccounted == ProperUse => (Spec => []SendersAccounted)
<1>1. QueueInv => SendersAccounted
  BY DEF QueueInv
<1> QED
  BY <1>1, QueueInvInductive, PTL

(* A sender that was released returns the reply to its own message, or the *)
(* default 0.                                                              *)
THEOREM QueueReplyMatches == ProperUse => (Spec => []ReplyMatches)
<1>1. QueueInv => ReplyMatches
  BY DEF QueueInv
<1> QED
  BY <1>1, QueueInvInductive, PTL

(* No lost wake-up, with timeouts, overflow and deletion taken into account. *)
THEOREM QueueNoSleepOnMessage == ProperUse => (Spec => []NoSleepOnMessage)
<1>1. QueueInv => NoSleepOnMessage
  BY DEF QueueInv
<1> QED
  BY <1>1, QueueInvInductive, PTL

(* A timed wait that expires, a wake-up and a deletion never leave a thread *)
(* linked twice, or linked after it has returned.                          *)
THEOREM QueueWaitListExact == ProperUse => (Spec => []WaitListExact)
<1> SUFFICES ASSUME ProperUse PROVE Spec => []WaitListExact
  OBVIOUS
<1>1. ASSUME QueueInv PROVE WaitListExact
  <2>1. PICK r \in Threads : Receivers = {r}
    BY DEF ProperUse
  <2>2. /\ waitq = IF wqp[r] = "queue" THEN <<r>> ELSE <<>>
        /\ \A t \in Threads : wqp[t] = "queue" => t = r
    BY <1>1, <2>1 DEF QueueInv, WaitListShape, LinksMatchCalls, WaitCalls
  <2>3. ToSet(waitq) = IF wqp[r] = "queue" THEN {r} ELSE {}
    BY <2>2 DEF ToSet
  <2>4. \A t \in Threads : wqp[t] = "queue" <=> t \in ToSet(waitq)
    BY <2>2, <2>3
  <2>5. \A i, j \in DOMAIN waitq : waitq[i] = waitq[j] => i = j
    BY <2>2
  <2>6. \A t \in Threads : call[t] = "none" => wqp[t] = "none"
    BY <1>1 DEF QueueInv, LinksMatchCalls, WaitCalls, TypeOK
  <2> QED
    BY <2>4, <2>5, <2>6 DEF WaitListExact
<1> QED
  BY <1>1, QueueInvInductive, PTL

(* Whoever an operation of the queue wakes is linked in it.                *)
LEMMA WokenAreLinked ==
    ASSUME ProperUse, QueueInv
    PROVE  /\ \A t \in FirstWaiter \cup AutoReplied : wqp[t] \in {"queue", "send"}
           /\ sending => /\ \A s \in Slots : senders[s] # Nil => wqp[senders[s]] = "send"
                         /\ curr_sender # Nil => wqp[curr_sender] = "send"
                         /\ \A t \in PendingSenders : wqp[t] = "send"
<1>1. sending => /\ \A s \in Slots : senders[s] # Nil => wqp[senders[s]] = "send"
                 /\ curr_sender # Nil => wqp[curr_sender] = "send"
  BY DEF QueueInv, SenderSlotsLive, CurrentSender, BlockedSender
<1>2. sending => \A t \in PendingSenders : wqp[t] = "send"
  BY <1>1, PendingSlotsType DEF PendingSenders, NonNil
<1>3. \A t \in AutoReplied : wqp[t] = "send"
  BY <1>1 DEF AutoReplied, NonNil
<1>4. \A t \in FirstWaiter : wqp[t] = "queue"
  <2>1. PICK r \in Threads : Receivers = {r}
    BY DEF ProperUse
  <2>2. waitq = IF wqp[r] = "queue" THEN <<r>> ELSE <<>>
    BY <2>1 DEF QueueInv, WaitListShape
  <2> QED
    BY <2>2 DEF FirstWaiter
<1> QED
  BY <1>1, <1>2, <1>3, <1>4

(* A thread that waits for something else is woken by that only: no        *)
(* operation of the queue ends a wait that is not its own, although slots, *)
(* the current sender and the wait list name threads, not calls.           *)
THEOREM QueueNoForeignWakeup == ProperUse => (Spec => NoForeignWakeup)
<1> SUFFICES ASSUME ProperUse PROVE Spec => NoForeignWakeup
  OBVIOUS
<1>1. ASSUME QueueInv, Next, NEW t \in Threads, wqp[t] = "other", wqp'[t] # "other"
      PROVE  WakeOther(t)
  <2>1. call[t] = "other" /\ wqp \in [Threads -> {"none", "queue", "send", "other"}]
    BY <1>1 DEF QueueInv, LinksMatchCalls, TypeOK
  <2>2. \A ts : (\A u \in ts : wqp[u] \in {"queue", "send"}) => WokenWqp(ts)[t] = "other"
    BY <1>1 DEF WokenWqp
  <2>3. /\ \A u \in FirstWaiter \cup AutoReplied : wqp[u] \in {"queue", "send"}
        /\ sending => /\ \A s \in Slots : senders[s] # Nil => wqp[senders[s]] = "send"
                      /\ curr_sender # Nil => wqp[curr_sender] = "send"
                      /\ \A u \in PendingSenders : wqp[u] = "send"
    BY <1>1, WokenAreLinked
  <2>4. WokenWqp(AutoReplied)[t] = "other"
    BY <2>2, <2>3
  <2>5. Slot(write) \in Slots
    BY <1>1, SlotType DEF QueueInv, TypeOK, Indices
  <2>6. /\ sending => WokenWqp(NonNil({senders[Slot(write)]}) \cup FirstWaiter)[t] = "other"
        /\ WokenWqp(FirstWaiter)[t] = "other"
    BY <2>2, <2>3, <2>5 DEF NonNil
  <2>10. ~ \E id \in Ids : Post(id)
    BY <1>1, <2>6 DEF Post
  <2>11. ASSUME NEW u \in Threads, NEW id \in Ids, Send(u, id) PROVE FALSE
    <3>1. t # u
      BY <2>1, <2>11 DEF Send, Idle
    <3>2. wqp'[t] = WokenWqp(NonNil({senders[Slot(write)]}) \cup FirstWaiter)[t]
      BY <2>11, <3>1 DEF Send, WokenWqp
    <3> QED
      BY <1>1, <2>6, <2>11, <3>2 DEF Send
  <2>12. ~ \E u \in Threads : Reply(u)
    BY <1>1, <2>2, <2>3 DEF Reply
  <2>13. ASSUME NEW u \in Threads, NEW inside \in WaitCalls, WaitEnter(u, inside) PROVE FALSE
    <3>1. t # u
      BY <2>1, <2>13 DEF WaitEnter, Idle
    <3>2. \/ wqp' = WokenWqp(AutoReplied)
          \/ wqp' = [WokenWqp(AutoReplied) EXCEPT ![u] = "queue"]
      BY <2>13 DEF WaitEnter, Block
    <3>3. wqp'[t] = WokenWqp(AutoReplied)[t]
      BY <3>1, <3>2 DEF WokenWqp
    <3> QED
      BY <1>1, <2>4, <3>3
  <2>14. ASSUME NEW u \in Threads, Resume(u) PROVE FALSE
    <3>1. call[u] # "other" /\ (wqp' = wqp \/ \E w : wqp' = [wqp EXCEPT ![u] = w])
      BY <2>14 DEF Resume, WakeWithMessage, WakeEmptyBlock, WakeTimedOut
    <3> QED
      BY <1>1, <2>1, <3>1
  <2>15. ASSUME NEW u \in Threads, BlockOther(u) PROVE FALSE
    BY <1>1, <2>1, <2>15 DEF BlockOther
  <2>16. ASSUME NEW u \in Threads, WakeOther(u) PROVE WakeOther(t)
    BY <1>1, <2>1, <2>16 DEF WakeOther
  <2>17. ~ \E u \in Threads, k \in 0..ScrubDepth, f \in Filters : PeekTake(u, k, f)
    BY <1>1, <2>4 DEF PeekTake
  <2>18. ASSUME NEW k \in 0..ScrubDepth, NEW f \in Filters, Discard(k, f) PROVE FALSE
    <3>1. k = 0
      BY DEF ProperUse
    <3>2. Slot(At(k)) \in Slots
      BY <1>1, <3>1, SlotType, HeadPosition DEF QueueInv, TypeOK, At, Indices
    <3>3. wqp' = WokenWqp(IF sending THEN NonNil({senders[Slot(At(k))]}) ELSE {})
      BY <2>18 DEF Discard
    <3> QED
      BY <1>1, <2>2, <2>3, <3>2, <3>3 DEF NonNil
  <2>19. ~Clear
    BY <1>1, <2>2, <2>3 DEF Clear
  <2>20. ~Delete
    <3>1. \A u \in {v \in Threads : wqp[v] = "queue"}
                 \cup (IF sending THEN PendingSenders \cup NonNil({curr_sender}) ELSE {}) :
             wqp[u] \in {"queue", "send"}
      BY <2>3 DEF NonNil
    <3> QED
      BY <1>1, <2>2, <3>1 DEF Delete
  <2>21. wqp' # wqp
    BY <1>1
  <2>22. /\ ~EnableSend
         /\ \A u \in Threads : ~SendReturn(u) /\ ~TmoExpire(u) /\ ~OtherReturn(u)
    BY <2>21 DEF EnableSend, SendReturn, TmoExpire, OtherReturn, threadVars
  <2> QED
    BY <1>1, <2>10, <2>11, <2>12, <2>13, <2>14, <2>15, <2>16, <2>17, <2>18, <2>19, <2>20, <2>22
       DEF Next
<1>2. QueueInv /\ [Next]_vars =>
        [\A t \in Threads : wqp[t] = "other" /\ wqp'[t] # "other" => WakeOther(t)]_vars
  BY <1>1
<1> QED
  BY <1>2, QueueInvInductive, PTL DEF Spec, NoForeignWakeup

-----------------------------------------------------------------------------
(* An event queue with one receiver whose removing peeks match at the head *)
(* implements RemoteCall.                                                  *)

(* What a step may do to one thread's request: a caller outside may block, *)
(* without being the current sender; one that was released keeps its reply *)
(* until it returns; a blocked one stays what it is, becomes the current   *)
(* sender, or is released with 0 or, if it is current, with its reply.     *)
RequestStep(t) ==
    /\ call[t] # "send" /\ call'[t] = "send" => state'[t] = "blocked" /\ curr_sender' # t
    /\ call[t] = "send" /\ state[t] = "running" =>
          \/ call'[t] # "send"
          \/ call'[t] = "send" /\ state'[t] = "running"
             /\ retval'[t] = retval[t] /\ asked'[t] = asked[t]
    /\ call[t] = "send" /\ state[t] # "running" =>
          /\ call'[t] = "send" /\ asked'[t] = asked[t]
          /\ \/ state'[t] # "running" /\ (curr_sender = t => curr_sender' = t)
             \/ state'[t] = "running" /\ retval'[t] = 0
             \/ state'[t] = "running" /\ curr_sender = t /\ retval'[t] = asked[t]

-----------------------------------------------------------------------------
(* A sender that has not been released is blocked in queue_send. *)
LEMMA SendersBlocked ==
    ASSUME QueueInv, NEW t \in Threads, call[t] = "send"
    PROVE  /\ state[t] # "running" => BlockedSender(t)
           /\ wqp[t] \notin {"queue", "other"}
           /\ BlockedSender(t) => state[t] # "running"
BY DEF QueueInv, LinksMatchCalls, BlockedSender, WaitCalls, TypeOK

(* The steps that release some senders and leave the other callers alone. *)
LEMMA Releases ==
    ASSUME QueueInv, NEW rel, \A u \in rel : u \in Threads => BlockedSender(u),
           \A u \in Threads : call'[u] = "send" <=> call[u] = "send",
           \A u \in Threads : call[u] = "send" => asked'[u] = asked[u],
           \A u \in Threads : call[u] = "send" /\ u \notin rel =>
               /\ state'[u] = state[u] /\ retval'[u] = retval[u]
               /\ curr_sender = u => curr_sender' = u,
           \A u \in rel : u \in Threads =>
               /\ state'[u] = "running"
               /\ retval'[u] = 0 \/ (curr_sender = u /\ retval'[u] = asked[u]),
           NEW t \in Threads
    PROVE  RequestStep(t)
BY SendersBlocked DEF RequestStep

LEMMA PostStep ==
    ASSUME ProperUse, QueueInv, NEW id \in Ids, Post(id), NEW t \in Threads
    PROVE  RequestStep(t)
<1> DEFINE bumped == IF sending THEN NonNil({senders[Slot(write)]}) ELSE {}
<1>1. Slot(write) \in Slots
  BY SlotType DEF QueueInv, TypeOK, Indices
<1>2. \A u \in bumped : BlockedSender(u)
  BY <1>1 DEF QueueInv, SenderSlotsLive, NonNil
<1>3. \A u \in FirstWaiter : wqp[u] \in {"queue", "send"} /\ ~(wqp[u] = "send")
  <2>1. FirstWaiter = {u \in Threads : wqp[u] = "queue"}
    BY WaitersAreListed DEF QueueInv
  <2> QED
    BY <2>1
<1>4. /\ state' = WokenState(bumped \cup FirstWaiter) /\ retval' = Replied(bumped, 0)
      /\ UNCHANGED <<call, asked, curr_sender>>
  BY DEF Post, Store
<1>5. \A u \in Threads : call[u] = "send" => u \notin FirstWaiter
  BY <1>3, SendersBlocked
<1> HIDE DEF bumped
<1>6. /\ \A u \in Threads : call[u] = "send" /\ u \notin bumped =>
              state'[u] = state[u] /\ retval'[u] = retval[u]
      /\ \A u \in bumped : u \in Threads => state'[u] = "running" /\ retval'[u] = 0
  BY <1>4, <1>5 DEF WokenState, Replied
<1> QED
  BY <1>2, <1>4, <1>6, Releases

LEMMA SendStep ==
    ASSUME ProperUse, QueueInv, NEW me \in Threads, NEW id \in Ids, Send(me, id), NEW t \in Threads
    PROVE  RequestStep(t)
<1> DEFINE bumped == NonNil({senders[Slot(write)]})
<1>1. sending /\ call[me] = "none" /\ state[me] = "running" /\ Slot(write) \in Slots
  BY SlotType DEF Send, Idle, QueueInv, TypeOK, Indices
<1>2. \A u \in bumped : BlockedSender(u)
  BY <1>1 DEF QueueInv, SenderSlotsLive, NonNil
<1>3. FirstWaiter = {u \in Threads : wqp[u] = "queue"}
  BY WaitersAreListed DEF QueueInv
<1>4. /\ state' = [WokenState(bumped \cup FirstWaiter) EXCEPT ![me] = "blocked"]
      /\ retval' = Replied(bumped, 0)
      /\ call' = [call EXCEPT ![me] = "send"]
      /\ asked' = [asked EXCEPT ![me] = posted + 1]
      /\ UNCHANGED curr_sender
      /\ call \in [Threads -> {"none", "wait", "wait_null", "tmo", "tmo_null", "send", "other"}]
      /\ asked \in [Threads -> 0..MaxPosts]
  BY DEF Send, Store, QueueInv, TypeOK
<1>5. curr_sender # Nil => state[curr_sender] = "blocked"
  BY DEF QueueInv, CurrentSender, BlockedSender
<1> HIDE DEF bumped
<1>6. CASE t = me
  <2>1. state'[t] = "blocked" /\ call'[t] = "send"
    BY <1>4, <1>6 DEF WokenState
  <2>2. curr_sender' # t
    BY <1>1, <1>4, <1>5, <1>6, QueueAssumption
  <2> QED
    BY <1>1, <1>6, <2>1, <2>2 DEF RequestStep
<1>7. CASE t # me
  <2>1. call'[t] = call[t] /\ asked'[t] = asked[t]
    BY <1>4, <1>7
  <2>2. state'[t] = (IF t \in bumped \cup FirstWaiter THEN "running" ELSE state[t])
        /\ retval'[t] = IF t \in bumped THEN 0 ELSE retval[t]
    BY <1>4, <1>7 DEF WokenState, Replied
  <2>3. call[t] = "send" => t \notin FirstWaiter
    BY <1>3, SendersBlocked
  <2>4. t \in bumped /\ call[t] = "send" => state[t] # "running"
    BY <1>2 DEF BlockedSender
  <2> QED
    BY <1>4, <2>1, <2>2, <2>3, <2>4 DEF RequestStep
<1> QED
  BY <1>6, <1>7

(* Steps that release nobody and change nothing a sender looks at. *)
LEMMA QuietStep ==
    ASSUME QueueInv, NEW t \in Threads,
           call'[t] = "send" <=> call[t] = "send",
           call[t] = "send" => /\ asked'[t] = asked[t] /\ state'[t] = state[t]
                               /\ retval'[t] = retval[t]
                               /\ curr_sender = t => curr_sender' = t
    PROVE  RequestStep(t)
BY DEF RequestStep

LEMMA ThreadStep ==
    ASSUME QueueInv, NEW me \in Threads,
           \/ SendReturn(me) \/ TmoExpire(me) \/ WakeEmptyBlock(me) \/ WakeTimedOut(me)
           \/ BlockOther(me) \/ WakeOther(me) \/ OtherReturn(me),
           NEW t \in Threads
    PROVE  RequestStep(t)
<1> USE DEF QueueInv, TypeOK
<1>1. CASE SendReturn(me)
  BY <1>1 DEF SendReturn, RequestStep, ring
<1>2. CASE TmoExpire(me)
  BY <1>2, QuietStep DEF TmoExpire, ring, history
<1>3. CASE WakeEmptyBlock(me)
  <2>1. call[me] # "send" /\ (\E w : state' = [state EXCEPT ![me] = w])
        /\ UNCHANGED <<retval, call, asked, curr_sender>>
    BY <1>3 DEF WakeEmptyBlock, ring, history
  <2> QED
    BY <2>1, QuietStep
<1>4. CASE WakeTimedOut(me)
  BY <1>4, QuietStep DEF WakeTimedOut, ring
<1>5. CASE BlockOther(me)
  BY <1>5, QuietStep DEF BlockOther, Idle, ring, history
<1>6. CASE WakeOther(me)
  <2>1. call[me] = "other"
    BY <1>6 DEF WakeOther, LinksMatchCalls
  <2> QED
    BY <1>6, <2>1, QuietStep DEF WakeOther, ring, history
<1>7. CASE OtherReturn(me)
  BY <1>7, QuietStep DEF OtherReturn, ring, history
<1> QED
  BY <1>1, <1>2, <1>3, <1>4, <1>5, <1>6, <1>7

LEMMA WakeWithMessageStep ==
    ASSUME ProperUse, QueueInv, NEW me \in Threads, WakeWithMessage(me), NEW t \in Threads
    PROVE  RequestStep(t)
<1>1. call[me] \in WaitCalls /\ me \in Receivers
  BY DEF WakeWithMessage, QueueInv, LinksMatchCalls, WaitCalls
<1>2. curr_sender = Nil
  BY <1>1 DEF QueueInv, CurrentSender
<1>3. /\ call' = [call EXCEPT ![me] = "none"] /\ UNCHANGED <<state, retval, asked>>
      /\ call[me] # "send"
  BY <1>1 DEF WakeWithMessage, WaitCalls
<1>4. t # Nil
  BY QueueAssumption
<1> QED
  BY <1>2, <1>3, <1>4, QuietStep DEF QueueInv, TypeOK

LEMMA ReplyStep ==
    ASSUME ProperUse, QueueInv, NEW me \in Threads, Reply(me), NEW t \in Threads
    PROVE  RequestStep(t)
<1>1. /\ me \in Receivers /\ curr_sender # Nil
      /\ retval' = Replied({curr_sender}, taken[me]) /\ state' = WokenState({curr_sender})
      /\ UNCHANGED <<call, asked>>
  BY DEF Reply, history
<1>2. BlockedSender(curr_sender) /\ taken[me] = asked[curr_sender]
  BY <1>1 DEF QueueInv, CurrentSender
<1> DEFINE rel == {curr_sender}
<1>3. /\ \A u \in Threads : u \notin rel => state'[u] = state[u] /\ retval'[u] = retval[u]
      /\ \A u \in rel : u \in Threads =>
             state'[u] = "running" /\ curr_sender = u /\ retval'[u] = asked[u]
  BY <1>1, <1>2 DEF WokenState, Replied
<1>4. /\ \A u \in rel : BlockedSender(u)
      /\ \A u \in Threads : u \notin rel => curr_sender # u
  BY <1>2
<1> HIDE DEF rel
<1> QED
  BY <1>1, <1>3, <1>4, Releases

(* The entry of a wait and a removing peek give the auto-reply. *)
LEMMA AutoReplyStep ==
    ASSUME QueueInv, NEW t \in Threads, retval' = Replied(AutoReplied, 0),
           \E me \in Threads :
             /\ call[me] # "send"
             /\ \/ state' = WokenState(AutoReplied)
                \/ \E w : state' = [WokenState(AutoReplied) EXCEPT ![me] = w],
           \A u \in Threads : call'[u] = "send" <=> call[u] = "send",
           UNCHANGED asked
    PROVE  RequestStep(t)
<1>1. /\ \A u \in AutoReplied : BlockedSender(u)
      /\ \A u \in Threads : curr_sender = u => u \in AutoReplied
  BY AutoReplyFacts
<1>2. PICK me \in Threads :
        /\ call[me] # "send"
        /\ \/ state' = WokenState(AutoReplied)
           \/ \E w : state' = [WokenState(AutoReplied) EXCEPT ![me] = w]
  OBVIOUS
<1>3. \A u \in AutoReplied : u \in Threads => u # me
  <2>1. \A u \in Threads : BlockedSender(u) => call[u] = "send"
    BY DEF BlockedSender, QueueInv, LinksMatchCalls
  <2> QED
    BY <1>1, <1>2, <2>1
<1>4. /\ \A u \in Threads : call[u] = "send" /\ u \notin AutoReplied =>
              state'[u] = state[u] /\ retval'[u] = retval[u]
      /\ \A u \in AutoReplied : u \in Threads => state'[u] = "running" /\ retval'[u] = 0
  BY <1>2, <1>3 DEF WokenState, Replied
<1> QED
  BY <1>1, <1>4, Releases

LEMMA WaitEnterStep ==
    ASSUME QueueInv, NEW me \in Threads, NEW inside \in WaitCalls, WaitEnter(me, inside),
           NEW t \in Threads
    PROVE  RequestStep(t)
<1>1. /\ call[me] = "none" /\ retval' = Replied(AutoReplied, 0) /\ UNCHANGED asked
      /\ \/ state' = WokenState(AutoReplied)
         \/ \E w : state' = [WokenState(AutoReplied) EXCEPT ![me] = w]
      /\ \/ UNCHANGED call
         \/ call' = [call EXCEPT ![me] = inside]
  BY DEF WaitEnter, Idle, Block
<1>2. \A u \in Threads : call'[u] = "send" <=> call[u] = "send"
  BY <1>1 DEF QueueInv, TypeOK, WaitCalls
<1> QED
  BY <1>1, <1>2, AutoReplyStep

LEMMA RemoveStep ==
    ASSUME ProperUse, QueueInv, NEW t \in Threads,
           \/ \E me \in Threads, k \in 0..ScrubDepth, f \in Filters : PeekTake(me, k, f)
           \/ \E k \in 0..ScrubDepth, f \in Filters : Discard(k, f)
           \/ Clear \/ Delete \/ EnableSend
    PROVE  RequestStep(t)
<1>1. ASSUME NEW me \in Threads, NEW k \in 0..ScrubDepth, NEW f \in Filters, PeekTake(me, k, f)
      PROVE  RequestStep(t)
  <2>1. /\ call[me] = "none" /\ retval' = Replied(AutoReplied, 0)
        /\ state' = WokenState(AutoReplied) /\ UNCHANGED <<call, asked>>
    BY <1>1 DEF PeekTake, Idle
  <2> QED
    BY <2>1, AutoReplyStep
<1>2. ASSUME NEW rel, \A u \in rel : BlockedSender(u),
             retval' = Replied(rel, 0), UNCHANGED <<call, asked>>,
             \A u \in Threads : u \notin rel /\ curr_sender = u => curr_sender' = u,
             \E ts : state' = WokenState(ts) /\ rel \subseteq ts
                     /\ \A u \in ts : u \in rel \/ wqp[u] = "queue"
      PROVE  RequestStep(t)
  <2>1. PICK ts : state' = WokenState(ts) /\ rel \subseteq ts
                  /\ \A u \in ts : u \in rel \/ wqp[u] = "queue"
    BY <1>2
  <2>2. \A u \in Threads : call[u] = "send" /\ u \notin rel => u \notin ts
    BY <2>1, SendersBlocked
  <2>3. /\ \A u \in Threads : call[u] = "send" /\ u \notin rel =>
                state'[u] = state[u] /\ retval'[u] = retval[u]
        /\ \A u \in rel : u \in Threads => state'[u] = "running" /\ retval'[u] = 0
    BY <1>2, <2>1, <2>2 DEF WokenState, Replied
  <2> QED
    BY <1>2, <2>3, Releases
<1>3. sending => /\ \A s \in Slots : senders[s] # Nil => BlockedSender(senders[s])
                 /\ \A u \in PendingSenders : BlockedSender(u)
                 /\ curr_sender # Nil => BlockedSender(curr_sender)
  BY PendingSlotsType DEF QueueInv, SenderSlotsLive, CurrentSender, PendingSenders, NonNil
<1>4. ASSUME NEW k \in 0..ScrubDepth, NEW f \in Filters, Discard(k, f)
      PROVE  RequestStep(t)
  <2> DEFINE rel == IF sending THEN NonNil({senders[Slot(At(k))]}) ELSE {}
  <2>1. Slot(At(k)) \in Slots
    <3>1. k = 0
      BY DEF ProperUse
    <3> QED
      BY <3>1, SlotType, HeadPosition DEF QueueInv, TypeOK, At, Indices
  <2>2. \A u \in rel : BlockedSender(u)
    BY <1>3, <2>1 DEF NonNil
  <2>3. /\ retval' = Replied(rel, 0) /\ state' = WokenState(rel)
        /\ UNCHANGED <<call, asked, curr_sender>>
    BY <1>4 DEF Discard
  <2> HIDE DEF rel
  <2> QED
    BY <1>2, <2>2, <2>3
<1>5. CASE Clear
  <2> DEFINE rel == IF sending THEN PendingSenders ELSE {}
  <2>1. \A u \in rel : BlockedSender(u)
    BY <1>3
  <2>2. /\ retval' = Replied(rel, 0) /\ state' = WokenState(rel)
        /\ UNCHANGED <<call, asked, curr_sender>>
    BY <1>5 DEF Clear
  <2> HIDE DEF rel
  <2> QED
    BY <1>2, <2>1, <2>2
<1>6. CASE Delete
  <2> DEFINE rel == IF sending THEN PendingSenders \cup NonNil({curr_sender}) ELSE {}
             waiters == {u \in Threads : wqp[u] = "queue"}
  <2>1. \A u \in rel : BlockedSender(u)
    BY <1>3 DEF NonNil
  <2>2. /\ retval' = Replied(rel, 0) /\ state' = WokenState(waiters \cup rel)
        /\ UNCHANGED <<call, asked>>
    BY <1>6 DEF Delete
  <2>3. \A u \in Threads : curr_sender = u => u \in rel
    BY QueueAssumption DEF QueueInv, CurrentSender, NonNil
  <2>4. \A u \in waiters \cup rel : u \in rel \/ wqp[u] = "queue"
    OBVIOUS
  <2> HIDE DEF rel, waiters
  <2> QED
    BY <1>2, <2>1, <2>2, <2>3, <2>4
<1>7. CASE EnableSend
  <2>1. /\ ~sending /\ UNCHANGED <<call, state, retval, asked>>
    BY <1>7 DEF EnableSend, threadVars, history
  <2>2. curr_sender = Nil /\ t # Nil
    BY <2>1, QueueAssumption DEF QueueInv, CurrentSender
  <2> QED
    BY <2>1, <2>2, QuietStep
<1> QED
  BY <1>1, <1>4, <1>5, <1>6, <1>7

LEMMA EveryRequestStep ==
    ASSUME ProperUse, QueueInv, Next, NEW t \in Threads
    PROVE  RequestStep(t)
<1>1. CASE \E id \in Ids : Post(id)
  BY <1>1, PostStep
<1>2. ASSUME NEW me \in Threads,
             \/ \E id \in Ids : Send(me, id)
             \/ SendReturn(me) \/ Reply(me)
             \/ \E inside \in WaitCalls : WaitEnter(me, inside)
             \/ TmoExpire(me) \/ Resume(me)
             \/ BlockOther(me) \/ WakeOther(me) \/ OtherReturn(me)
      PROVE  RequestStep(t)
  <2>1. CASE \E id \in Ids : Send(me, id)
    BY <2>1, SendStep
  <2>2. CASE \/ SendReturn(me) \/ TmoExpire(me) \/ WakeEmptyBlock(me) \/ WakeTimedOut(me)
             \/ BlockOther(me) \/ WakeOther(me) \/ OtherReturn(me)
    BY <2>2, ThreadStep
  <2>3. CASE Reply(me)
    BY <2>3, ReplyStep
  <2>4. CASE \E inside \in WaitCalls : WaitEnter(me, inside)
    BY <2>4, WaitEnterStep
  <2>5. CASE WakeWithMessage(me)
    BY <2>5, WakeWithMessageStep
  <2> QED
    BY <1>2, <2>1, <2>2, <2>3, <2>4, <2>5 DEF Resume
<1>3. CASE \/ \E me \in Threads, k \in 0..ScrubDepth, f \in Filters : PeekTake(me, k, f)
           \/ \E k \in 0..ScrubDepth, f \in Filters : Discard(k, f)
           \/ Clear \/ Delete \/ EnableSend
  BY <1>3, RemoveStep
<1> QED
  BY <1>1, <1>2, <1>3 DEF Next

-----------------------------------------------------------------------------
(* Such a step moves the request as RemoteCall allows.                     *)
LEMMA PhaseMoves ==
    ASSUME QueueInv, QueueInv', NEW t \in Threads, RequestStep(t)
    PROVE  Phase(t)' = Phase(t) \/ Phase(t)' \in Abstract!Moves(Phase(t))
<1>1. CASE call[t] # "send"
  <2>1. Phase(t) = "idle" /\ Phase(t)' \in {"idle", "asked"}
    BY <1>1 DEF Phase, RequestStep
  <2> QED
    BY <2>1 DEF Abstract!Moves
<1>2. CASE call[t] = "send" /\ state[t] = "running"
  <2>1. Phase(t) \in {"replied", "defaulted"} /\ Phase(t)' \in {Phase(t), "idle"}
    BY <1>2 DEF Phase, RequestStep, QueueInv, ReplyMatches
  <2> QED
    BY <2>1 DEF Abstract!Moves
<1>3. CASE call[t] = "send" /\ state[t] # "running" /\ curr_sender # t
  <2>1. Phase(t) = "asked" /\ Phase(t)' \in {"asked", "taken", "defaulted"}
    BY <1>3 DEF Phase, RequestStep
  <2> QED
    BY <2>1 DEF Abstract!Moves
<1>4. CASE call[t] = "send" /\ state[t] # "running" /\ curr_sender = t
  <2>1. Phase(t) = "taken" /\ Phase(t)' \in {"taken", "replied", "defaulted"}
    BY <1>4 DEF Phase, RequestStep
  <2> QED
    BY <2>1 DEF Abstract!Moves
<1> QED
  BY <1>1, <1>2, <1>3, <1>4

(* Every operation of the queue is a step of RemoteCall: a request is      *)
(* taken at most once and answered at most once, its own reply comes only  *)
(* after it was taken, and what a sender was released with is what         *)
(* queue_send returns.                                                     *)
THEOREM QueueImplementsRemoteCall == ProperUse => (Spec => ImplementsRemoteCall)
<1> SUFFICES ASSUME ProperUse PROVE Spec => ImplementsRemoteCall
  OBVIOUS
<1> DEFINE phases == [t \in Threads |-> Phase(t)]
<1>1. Init => Abstract!Init
  BY DEF Init, Abstract!Init, Phase
<1>2. ASSUME QueueInv, QueueInv', Next
      PROVE  Abstract!Next
  <2>1. \A t \in Threads : Phase(t)' = Phase(t) \/ Phase(t)' \in Abstract!Moves(Phase(t))
    BY <1>2, EveryRequestStep, PhaseMoves
  <2>2. \A t \in Threads : /\ Phase(t)' \in {"idle", "asked", "taken", "replied", "defaulted"}
                           /\ Phase(t)' = "taken" => curr_sender' = t
    BY <1>2 DEF Phase, QueueInv, ReplyMatches
  <2> QED
    BY <2>1, <2>2 DEF Abstract!Next, Abstract!Phases, Abstract!OneAtATime
<1>3. UNCHANGED vars => UNCHANGED phases
  <2> SUFFICES ASSUME UNCHANGED vars PROVE UNCHANGED phases
    OBVIOUS
  <2>1. UNCHANGED <<call, state, retval, asked, curr_sender>>
    BY DEF vars, ring, threadVars, history
  <2>2. \A t \in Threads : Phase(t)' = Phase(t)
    BY <2>1 DEF Phase
  <2> QED
    BY <2>2
<1>4. QueueInv /\ QueueInv' /\ [Next]_vars => [Abstract!Next]_phases
  BY <1>2, <1>3
<1> QED
  BY <1>1, <1>4, QueueInvInductive, PTL DEF Spec, ImplementsRemoteCall, Abstract!Spec

-----------------------------------------------------------------------------
(* The ring's contents, for any receivers and removals.                    *)

(* Induction over the naturals for a set of them. *)
LEMMA FromZeroOn ==
    ASSUME NEW S, 0 \in S, \A n \in Nat : n \in S => n + 1 \in S
    PROVE  Nat \subseteq S
<1> SUFFICES ASSUME Nat \ S # {}
             PROVE  FALSE
  OBVIOUS
<1>1. PICK x \in Nat \ S : \A y \in Nat \ S : ~(<<y, x>> \in OpToRel(<, Nat))
  <2>1. Nat \ S \subseteq Nat
    OBVIOUS
  <2> QED
    BY <2>1, NatLessThanWellFounded, WFMin
<1>2. x # 0 /\ x - 1 \in Nat /\ (x - 1) + 1 = x
  OBVIOUS
<1>3. x - 1 \notin S
  BY <1>2
<1>4. <<x - 1, x>> \in OpToRel(<, Nat)
  BY <1>2 DEF OpToRel
<1> QED
  BY <1>1, <1>2, <1>3, <1>4

LEMMA Quotient ==
    ASSUME NEW n \in Nat \ {0}, NEW x \in Nat
    PROVE  x % n \in 0..(n - 1) /\ x \div n \in Nat /\ x = n * (x \div n) + (x % n)
OBVIOUS

LEMMA Wraps ==
    ASSUME NEW n \in Nat \ {0}, NEW x \in Nat, x < 2 * n
    PROVE  x % n = IF x < n THEN x ELSE x - n
OBVIOUS

LEMMA NoMultiple ==
    ASSUME NEW n \in Nat \ {0}, NEW d \in Int, -n < n * d, n * d < n
    PROVE  d = 0
<1>1. CASE d >= 1
  BY <1>1
<1>2. CASE d <= -1
  BY <1>2
<1> QED
  BY <1>1, <1>2

LEMMA LengthFits == QueueLength <= Wrap /\ Wrap = QueueLength * (Wrap \div QueueLength)
<1>1. /\ QueueLength \in Nat \ {0} /\ Wrap \in Nat \ {0}
      /\ Wrap % QueueLength = 0 /\ Wrap \div QueueLength \in Nat
      /\ Wrap = QueueLength * (Wrap \div QueueLength) + (Wrap % QueueLength)
  BY QueueAssumption, WrapAssumption, Quotient
<1>2. Wrap \div QueueLength # 0
  BY <1>1
<1> QED
  BY <1>1, <1>2

(* The counter k positions behind r, how far w is ahead of r, and the      *)
(* counters from r up to but not including w.                              *)
Pos(r, k) == (r + k) % Wrap
Dist(r, w) == (w - r + Wrap) % Wrap
Span(r, w) == {i \in Indices : IF r <= w THEN r <= i /\ i < w ELSE r <= i \/ i < w}

LEMMA PosOf ==
    ASSUME NEW r \in Indices, NEW k \in 0..Wrap
    PROVE  Pos(r, k) = (IF r + k < Wrap THEN r + k ELSE r + k - Wrap) /\ Pos(r, k) \in Indices
<1>1. r + k \in Nat /\ r + k < 2 * Wrap /\ Wrap \in Nat \ {0} /\ r \in Nat /\ k \in Nat
  BY QueueAssumption DEF Indices
<1>2. (r + k) % Wrap = IF r + k < Wrap THEN r + k ELSE r + k - Wrap
  <2>1. PICK x \in Nat : x = r + k
    BY <1>1
  <2>2. x % Wrap = IF x < Wrap THEN x ELSE x - Wrap
    BY <1>1, <2>1, Wraps
  <2> QED
    BY <1>1, <2>1, <2>2
<1>3. Pos(r, k) = IF r + k < Wrap THEN r + k ELSE r + k - Wrap
  BY <1>2 DEF Pos
<1> QED
  BY <1>1, <1>3 DEF Indices

LEMMA DistOf ==
    ASSUME NEW r \in Indices, NEW w \in Indices
    PROVE  /\ Dist(r, w) = IF r <= w THEN w - r ELSE w - r + Wrap
           /\ Dist(r, w) \in 0..(Wrap - 1)
           /\ Pos(r, Dist(r, w)) = w
           /\ r = w <=> Dist(r, w) = 0
<1>1. /\ w - r + Wrap \in Nat /\ w - r + Wrap < 2 * Wrap /\ Wrap \in Nat \ {0}
      /\ r \in Nat /\ w \in Nat /\ r < Wrap /\ w < Wrap
  BY QueueAssumption DEF Indices
<1>2. Dist(r, w) = IF w - r + Wrap < Wrap THEN w - r + Wrap ELSE w - r
  <2>1. PICK x \in Nat : x = w - r + Wrap
    BY <1>1
  <2>2. x % Wrap = IF x < Wrap THEN x ELSE x - Wrap
    BY <1>1, <2>1, Wraps
  <2>3. x - Wrap = w - r /\ Dist(r, w) = x % Wrap
    BY <1>1, <2>1 DEF Dist
  <2> QED
    BY <1>1, <2>1, <2>2, <2>3
<1>3. Dist(r, w) = IF r <= w THEN w - r ELSE w - r + Wrap
  BY <1>1, <1>2
<1>4. Dist(r, w) \in 0..(Wrap - 1)
  BY <1>1, <1>3
<1>5. Pos(r, Dist(r, w)) = w
  BY <1>1, <1>3, <1>4, PosOf
<1> QED
  BY <1>1, <1>3, <1>4, <1>5

LEMMA SpanAt ==
    ASSUME NEW r \in Indices, NEW w \in Indices
    PROVE  Span(r, w) = {Pos(r, k) : k \in 0..(Dist(r, w) - 1)}
<1>1. /\ Wrap \in Nat \ {0}
      /\ r \in Nat /\ w \in Nat /\ r < Wrap /\ w < Wrap
      /\ Dist(r, w) = IF r <= w THEN w - r ELSE w - r + Wrap
      /\ Dist(r, w) \in 0..(Wrap - 1)
  BY DistOf, QueueAssumption DEF Indices
<1>2. ASSUME NEW k \in 0..(Dist(r, w) - 1)
      PROVE  Pos(r, k) \in Span(r, w)
  <2>1. k \in 0..Wrap
    BY <1>1
  <2>2. Pos(r, k) = (IF r + k < Wrap THEN r + k ELSE r + k - Wrap) /\ Pos(r, k) \in Indices
    BY <2>1, PosOf
  <2> QED
    BY <1>1, <2>2 DEF Span
<1>3. ASSUME NEW i \in Span(r, w)
      PROVE  \E k \in 0..(Dist(r, w) - 1) : i = Pos(r, k)
  <2>1. /\ i \in Nat /\ i < Wrap
        /\ IF r <= w THEN r <= i /\ i < w ELSE r <= i \/ i < w
    BY <1>1 DEF Span, Indices
  <2>2. CASE r <= i
    <3>1. i - r \in 0..(Dist(r, w) - 1) /\ i - r \in 0..Wrap /\ r + (i - r) = i
      BY <1>1, <2>1, <2>2
    <3>2. Pos(r, i - r) = i
      BY <2>1, <3>1, PosOf
    <3> QED
      BY <3>1, <3>2
  <2>3. CASE i < r
    <3> DEFINE k == i - r + Wrap
    <3>1. k \in 0..(Dist(r, w) - 1) /\ k \in 0..Wrap /\ r + k = i + Wrap
      BY <1>1, <2>1, <2>3
    <3>2. Pos(r, k) = i
      <4>1. ~(r + k < Wrap) /\ r + k - Wrap = i
        BY <1>1, <2>1, <3>1
      <4> QED
        BY <3>1, <4>1, PosOf
    <3> QED
      BY <3>1, <3>2
  <2> QED
    BY <1>1, <2>1, <2>2, <2>3
<1> QED
  BY <1>2, <1>3

(* What one step of q->read or of q->write changes. *)
LEMMA HeadMoves ==
    ASSUME NEW r \in Indices, NEW w \in Indices, r # w
    PROVE  /\ Succ(r) \in Indices
           /\ Dist(Succ(r), w) = Dist(r, w) - 1
           /\ \A k \in 0..(Wrap - 1) : Pos(Succ(r), k) = Pos(r, k + 1)
<1>1. /\ Wrap \in Nat \ {0} /\ r \in 0..(Wrap - 1) /\ w \in 0..(Wrap - 1)
      /\ Succ(r) \in Indices
      /\ Succ(r) = IF r + 1 = Wrap THEN 0 ELSE r + 1
  BY QueueAssumption DEF Indices, Succ
<1>2. Dist(Succ(r), w) = Dist(r, w) - 1
  <2>1. Dist(Succ(r), w) = IF Succ(r) <= w THEN w - Succ(r) ELSE w - Succ(r) + Wrap
    BY <1>1, DistOf
  <2>2. Dist(r, w) = IF r <= w THEN w - r ELSE w - r + Wrap
    BY DistOf
  <2> QED
    BY <1>1, <2>1, <2>2
<1>3. ASSUME NEW k \in 0..(Wrap - 1)
      PROVE  Pos(Succ(r), k) = Pos(r, k + 1)
  <2>1. k \in 0..Wrap /\ k + 1 \in 0..Wrap
    BY <1>1
  <2>2. Pos(Succ(r), k) = IF Succ(r) + k < Wrap THEN Succ(r) + k ELSE Succ(r) + k - Wrap
    BY <1>1, <2>1, PosOf
  <2>3. Pos(r, k + 1) = IF r + (k + 1) < Wrap THEN r + (k + 1) ELSE r + (k + 1) - Wrap
    BY <2>1, PosOf
  <2> QED
    BY <1>1, <2>1, <2>2, <2>3
<1> QED
  BY <1>1, <1>2, <1>3

LEMMA TailMoves ==
    ASSUME NEW r \in Indices, NEW w \in Indices, Succ(w) # r
    PROVE  Succ(w) \in Indices /\ Dist(r, Succ(w)) = Dist(r, w) + 1
<1>1. /\ Wrap \in Nat \ {0} /\ r \in 0..(Wrap - 1) /\ w \in 0..(Wrap - 1)
      /\ Succ(w) \in Indices
      /\ Succ(w) = IF w + 1 = Wrap THEN 0 ELSE w + 1
  BY QueueAssumption DEF Indices, Succ
<1>2. Dist(r, Succ(w)) = IF r <= Succ(w) THEN Succ(w) - r ELSE Succ(w) - r + Wrap
  BY <1>1, DistOf
<1>3. Dist(r, w) = IF r <= w THEN w - r ELSE w - r + Wrap
  BY DistOf
<1> QED
  BY <1>1, <1>2, <1>3

LEMMA SlotOf ==
    ASSUME NEW r \in Indices, NEW k \in 0..(QueueLength - 1)
    PROVE  Slot(Pos(r, k)) \in Slots
<1>1. QueueLength \in Nat \ {0} /\ Wrap \in Nat /\ k \in 0..Wrap
  BY LengthFits, QueueAssumption
<1>2. Pos(r, k) \in Indices
  BY <1>1, PosOf
<1>3. Pos(r, k) \in Nat
  BY <1>1, <1>2 DEF Indices
<1>4. Pos(r, k) % QueueLength \in 0..(QueueLength - 1)
  BY <1>1, <1>3, Quotient
<1> QED
  BY <1>4 DEF Slot, Slots

LEMMA SameRemainder ==
    ASSUME NEW n \in Nat \ {0}, NEW a \in Nat, NEW b \in Nat, a % n = b % n
    PROVE  \E q \in Int : a - b = n * q
<1>1. /\ a \div n \in Nat /\ a = n * (a \div n) + (a % n) /\ a % n \in Nat
      /\ b \div n \in Nat /\ b = n * (b \div n) + (b % n)
  <2>1. a \div n \in Nat /\ a = n * (a \div n) + (a % n) /\ a % n \in 0..(n - 1)
    BY Quotient
  <2>2. b \div n \in Nat /\ b = n * (b \div n) + (b % n)
    BY Quotient
  <2> QED
    BY <2>1, <2>2
<1>2. n * ((a \div n) - (b \div n)) = n * (a \div n) - n * (b \div n)
  <2>1. ASSUME NEW x \in Nat, NEW y \in Nat
        PROVE  n * (x - y) = n * x - n * y
    OBVIOUS
  <2> QED
    BY <1>1, <2>1
<1>3. a - b = n * ((a \div n) - (b \div n))
  <2> DEFINE p == n * (a \div n)
             q == n * (b \div n)
             r == a % n
  <2>1. p \in Int /\ q \in Int /\ r \in Nat /\ a = p + r /\ b = q + r
    BY <1>1
  <2>2. n * ((a \div n) - (b \div n)) = p - q
    BY <1>2
  <2> HIDE DEF p, q, r
  <2>3. a - b = p - q
    BY <2>1
  <2> QED
    BY <2>2, <2>3
<1>4. (a \div n) - (b \div n) \in Int
  BY <1>1
<1> QED
  BY <1>3, <1>4

LEMMA Folded ==
    ASSUME NEW n \in Nat, NEW m \in Nat, NEW w, w = n * m,
           NEW d \in Int, NEW q \in Int, NEW e \in {-1, 0, 1}, d + e * w = n * q
    PROVE  d = n * (q - e * m)
<1>1. CASE e = 0
  BY <1>1
<1>2. CASE e = 1
  BY <1>2
<1>3. CASE e = -1
  BY <1>3
<1> QED
  BY <1>1, <1>2, <1>3

(* As long as the ring is not overfull, no two positions share a slot. *)
LEMMA SlotsApart ==
    ASSUME NEW r \in Indices,
           NEW j \in 0..(QueueLength - 1), NEW k \in 0..(QueueLength - 1),
           Slot(Pos(r, j)) = Slot(Pos(r, k))
    PROVE  j = k
<1> DEFINE m == Wrap \div QueueLength
           a == Pos(r, j)
           b == Pos(r, k)
<1>1. /\ QueueLength \in Nat \ {0} /\ QueueLength <= Wrap /\ Wrap = QueueLength * m
      /\ Wrap \in Nat \ {0} /\ m \in Nat
  BY LengthFits, QueueAssumption, Quotient
<1>2. j \in 0..Wrap /\ k \in 0..Wrap /\ r \in Nat
  BY <1>1 DEF Indices
<1>3. /\ a \in Nat /\ a = IF r + j < Wrap THEN r + j ELSE r + j - Wrap
      /\ b \in Nat /\ b = IF r + k < Wrap THEN r + k ELSE r + k - Wrap
  BY <1>1, <1>2, PosOf DEF Indices
<1>4. \E e \in {-1, 0, 1} : a - b = j - k + e * Wrap
  <2>1. a - b = j - k + 0 * Wrap \/ a - b = j - k + 1 * Wrap \/ a - b = j - k + (-1) * Wrap
    BY <1>1, <1>2, <1>3
  <2> QED
    BY <2>1
<1>5. PICK e \in {-1, 0, 1} : a - b = j - k + e * Wrap
  BY <1>4
<1>6. a % QueueLength = b % QueueLength
  BY DEF Slot
<1> HIDE DEF a, b, m
<1>7. PICK q \in Int : a - b = QueueLength * q
  BY <1>1, <1>3, <1>6, SameRemainder
<1>8. j - k = QueueLength * (q - e * m)
  BY <1>1, <1>2, <1>5, <1>7, Folded
<1>9. q - e * m \in Int
  BY <1>1
<1>10. q - e * m = 0
  <2>1. -QueueLength < j - k /\ j - k < QueueLength
    BY <1>1
  <2> DEFINE d == q - e * m
  <2>2. d \in Int /\ -QueueLength < QueueLength * d /\ QueueLength * d < QueueLength
    BY <1>8, <1>9, <2>1
  <2> HIDE DEF d
  <2>3. d = 0
    BY <1>1, <2>2, NoMultiple
  <2> QED
    BY <2>3 DEF d
<1> QED
  BY <1>1, <1>2, <1>8, <1>10

-----------------------------------------------------------------------------
(* The slide into the gap *)

SlideBody(slid, k, snd, move_senders) ==
    [n \in 0..k |->
            IF n = 0 THEN [ev |-> events, sn |-> snd]
            ELSE LET dst == Slot(At(k - n + 1))
                     src == Slot(At(k - n))
                 IN  [ev |-> [slid[n-1].ev EXCEPT ![dst] = slid[n-1].ev[src]],
                      sn |-> IF move_senders
                             THEN [slid[n-1].sn EXCEPT ![dst] = slid[n-1].sn[src]]
                             ELSE slid[n-1].sn]]

(* The recursion of SlideOf has a value: one more step can always be       *)
(* added to the steps so far.                                              *)
LEMMA SlideSteps ==
    ASSUME NEW k \in Nat, NEW snd, NEW move_senders
    PROVE  \E slid : slid = SlideBody(slid, k, snd, move_senders)
<1> DEFINE base == [ev |-> events, sn |-> snd]
           Step(r, n) == [ev |-> [r.ev EXCEPT ![Slot(At(k - n + 1))] = r.ev[Slot(At(k - n))]],
                          sn |-> IF move_senders
                                 THEN [r.sn EXCEPT ![Slot(At(k - n + 1))] = r.sn[Slot(At(k - n))]]
                                 ELSE r.sn]
           S == {m \in Nat : \E g : g = [n \in 0..m |-> IF n = 0 THEN base ELSE Step(g[n-1], n)]}
<1>1. 0 \in S
  <2> DEFINE g == [n \in 0..0 |-> base]
  <2>1. g = [n \in 0..0 |-> IF n = 0 THEN base ELSE Step(g[n-1], n)]
    <3> HIDE DEF base, Step
    <3>1. \A n \in 0..0 : n = 0
      OBVIOUS
    <3> QED
      BY <3>1
  <2> HIDE DEF base, Step, g
  <2> QED
    BY <2>1
<1>2. ASSUME NEW m \in Nat, m \in S
      PROVE  m + 1 \in S
  <2> HIDE DEF base, Step
  <2>1. PICK g : g = [n \in 0..m |-> IF n = 0 THEN base ELSE Step(g[n-1], n)]
    BY <1>2
  <2> DEFINE h == [n \in 0..(m + 1) |-> IF n <= m THEN g[n] ELSE Step(g[m], m + 1)]
  <2>2. ASSUME NEW n \in 0..(m + 1)
        PROVE  h[n] = IF n = 0 THEN base ELSE Step(h[n-1], n)
    <3>1. CASE n = 0
      BY <2>1, <3>1
    <3>2. CASE n # 0 /\ n <= m
      <4>1. n \in 0..m /\ n - 1 \in 0..m /\ n - 1 \in 0..(m + 1) /\ n - 1 <= m
        BY <3>2
      <4>2. h[n] = g[n] /\ h[n-1] = g[n-1]
        BY <3>2, <4>1
      <4>3. g[n] = Step(g[n-1], n)
        BY <2>1, <3>2, <4>1
      <4> QED
        BY <3>2, <4>2, <4>3
    <3>3. CASE n = m + 1
      <4>1. n - 1 = m /\ m \in 0..(m + 1) /\ ~(n <= m) /\ n # 0
        BY <3>3
      <4>2. h[n] = Step(g[m], n) /\ h[n-1] = g[m]
        BY <3>3, <4>1
      <4> QED
        BY <4>1, <4>2
    <3> QED
      BY <3>1, <3>2, <3>3
  <2>3. h = [n \in 0..(m + 1) |-> IF n = 0 THEN base ELSE Step(h[n-1], n)]
    BY <2>2
  <2> HIDE DEF h
  <2> QED
    BY <2>3
<1>3. k \in S
  <2> HIDE DEF S
  <2> QED
    BY <1>1, <1>2, FromZeroOn
<1> QED
  BY <1>3 DEF SlideBody

(* Up to the gap every message is one position further back, the others    *)
(* are where they were.                                                    *)
LEMMA SlideMoves ==
    ASSUME read \in Indices, events \in [Slots -> Messages],
           NEW k \in 0..(QueueLength - 1), NEW snd, NEW move_senders
    PROVE  /\ SlideOf(k, snd, move_senders).ev \in [Slots -> Messages]
           /\ \A m \in 0..(QueueLength - 1) :
                 SlideOf(k, snd, move_senders).ev[Slot(At(m))] =
                     events[Slot(At(IF 1 <= m /\ m <= k THEN m - 1 ELSE m))]
<1>1. QueueLength \in Nat \ {0} /\ k \in Nat /\ QueueLength <= Wrap /\ Wrap \in Nat
  BY QueueAssumption, LengthFits
<1>2. \A m \in 0..(QueueLength - 1) : Slot(At(m)) \in Slots
  BY SlotOf DEF At, Pos
<1>3. CASE k = 0
  <2>1. SlideOf(k, snd, move_senders).ev = events
    BY <1>3 DEF SlideOf
  <2>2. \A m \in 0..(QueueLength - 1) : ~(1 <= m /\ m <= k)
    BY <1>1, <1>3
  <2> QED
    BY <2>1, <2>2
<1>4. CASE k # 0
  <2> DEFINE Body(s) == SlideBody(s, k, snd, move_senders)
         slid == CHOOSE s : s = Body(s)
  <2>1. SlideOf(k, snd, move_senders) = slid[k]
    BY <1>4 DEF SlideOf, SlideBody
  <2>2. slid = Body(slid)
    <3>1. \E s : s = Body(s)
      BY <1>1, SlideSteps
    <3> HIDE DEF Body
    <3> QED
      BY <3>1
  <2>3. slid[0].ev = events
    <3>1. 0 \in 0..k
      BY <1>1
    <3> HIDE DEF slid
    <3>2. slid[0] = Body(slid)[0]
      BY <2>2
    <3> QED
      BY <3>1, <3>2 DEF SlideBody
  <2>4. ASSUME NEW n \in 1..k
        PROVE  slid[n].ev = [slid[n-1].ev EXCEPT ![Slot(At(k - n + 1))] = slid[n-1].ev[Slot(At(k - n))]]
    <3>1. n \in 0..k /\ n # 0
      BY <1>1
    <3> HIDE DEF slid
    <3>2. slid[n] = Body(slid)[n]
      BY <2>2
    <3> QED
      BY <3>1, <3>2 DEF SlideBody
  <2> HIDE DEF slid
  <2> DEFINE Src(n, m) == IF k - n < m /\ m <= k THEN m - 1 ELSE m
             Done(n) == /\ slid[n].ev \in [Slots -> Messages]
                        /\ \A m \in 0..(QueueLength - 1) :
                              slid[n].ev[Slot(At(m))] = events[Slot(At(Src(n, m)))]
             S == {n \in Nat : n <= k => Done(n)}
  <2>5. 0 \in S
    <3>1. \A m \in 0..(QueueLength - 1) : Src(0, m) = m
      BY <1>1
    <3> HIDE DEF Src
    <3> QED
      BY <2>3, <3>1
  <2>6. ASSUME NEW n \in Nat, n \in S
        PROVE  n + 1 \in S
    <3> SUFFICES ASSUME n + 1 <= k
                 PROVE  Done(n + 1)
      OBVIOUS
    <3>1. /\ n + 1 \in 1..k /\ (n + 1) - 1 = n /\ k - (n + 1) + 1 = k - n
          /\ k - n \in 0..(QueueLength - 1) /\ k - (n + 1) \in 0..(QueueLength - 1)
          /\ n <= k /\ n \in Nat
      BY <1>1
    <3>2. Done(n)
      BY <2>6, <3>1
    <3>3. slid[n + 1].ev = [slid[n].ev EXCEPT ![Slot(At(k - n))] = slid[n].ev[Slot(At(k - (n + 1)))]]
      BY <2>4, <3>1
    <3>4. Slot(At(k - n)) \in Slots /\ Slot(At(k - (n + 1))) \in Slots
      BY <1>2, <3>1
    <3>5. slid[n].ev \in [Slots -> Messages]
      BY <3>2
    <3>6. slid[n + 1].ev \in [Slots -> Messages]
      BY <3>3, <3>4, <3>5
    <3>7. ASSUME NEW m \in 0..(QueueLength - 1)
          PROVE  slid[n + 1].ev[Slot(At(m))] = events[Slot(At(Src(n + 1, m)))]
      <4>1. CASE m = k - n
        <5>1. slid[n + 1].ev[Slot(At(m))] = slid[n].ev[Slot(At(k - (n + 1)))]
          BY <3>3, <3>4, <3>5, <4>1
        <5>2. Src(n, k - (n + 1)) = k - (n + 1) /\ Src(n + 1, m) = k - (n + 1)
          BY <1>1, <3>1, <4>1
        <5> HIDE DEF Src
        <5>3. slid[n].ev[Slot(At(k - (n + 1)))] = events[Slot(At(Src(n, k - (n + 1))))]
          BY <3>1, <3>2
        <5> QED
          BY <5>1, <5>2, <5>3
      <4>2. CASE m # k - n
        <5>1. Slot(At(m)) # Slot(At(k - n))
          BY <3>1, <4>2, SlotsApart DEF At, Pos
        <5>2. slid[n + 1].ev[Slot(At(m))] = slid[n].ev[Slot(At(m))]
          BY <1>2, <3>3, <3>5, <5>1
        <5>3. Src(n, m) = Src(n + 1, m)
          BY <1>1, <3>1, <4>2
        <5> HIDE DEF Src
        <5> QED
          BY <3>2, <5>2, <5>3
      <4> QED
        BY <4>1, <4>2
    <3> QED
      BY <3>6, <3>7
  <2>7. k \in S
    <3> HIDE DEF S
    <3> QED
      BY <1>1, <2>5, <2>6, FromZeroOn
  <2>8. Done(k)
    BY <1>1, <2>7
  <2>9. \A m \in 0..(QueueLength - 1) : Src(k, m) = IF 1 <= m /\ m <= k THEN m - 1 ELSE m
    BY <1>1
  <2> HIDE DEF Src
  <2> QED
    BY <2>1, <2>8, <2>9
<1> QED
  BY <1>3, <1>4

-----------------------------------------------------------------------------
(* What the ring holds *)

(* The message k positions behind r. *)
NumBehind(ev, r, k) == ev[Slot(Pos(r, k))].num

(* Of the messages 1 to p, those not in gn are in the ring ev between r    *)
(* and w, in order.                                                        *)
Holds(ev, r, w, gn, p) ==
    LET held == 0..(Dist(r, w) - 1)
    IN  /\ ev \in [Slots -> Messages]
        /\ Dist(r, w) <= QueueLength
        /\ gn \subseteq 1..p
        /\ \A j \in held : NumBehind(ev, r, j) \in (1..p) \ gn
        /\ \A n \in (1..p) \ gn : \E j \in held : n = NumBehind(ev, r, j)
        /\ \A j, k \in held : j < k => NumBehind(ev, r, j) < NumBehind(ev, r, k)

RingInv == /\ read \in Indices /\ write \in Indices
           /\ posted \in 0..MaxPosts
           /\ overflowed \in BOOLEAN
           /\ ~overflowed => Holds(events, read, write, gone, posted)

LEMMA RingInvExact == RingInv => RingExact
<1> SUFFICES ASSUME RingInv, ~overflowed
             PROVE  LET inRing == {NumAt(i) : i \in Pending}
                    IN  /\ inRing \cap gone = {}
                        /\ inRing \cup gone = 1..posted
                        /\ \A j, k \in 0..(queue_count - 1) : j < k => NumAt(At(j)) < NumAt(At(k))
  BY DEF RingExact
<1> DEFINE held == 0..(Dist(read, write) - 1)
<1>1. read \in Indices /\ write \in Indices /\ Holds(events, read, write, gone, posted)
  BY DEF RingInv
<1>2. Pending = {Pos(read, j) : j \in held}
  BY <1>1, SpanAt DEF Pending, Span
<1>3. {NumAt(i) : i \in Pending} = {NumBehind(events, read, j) : j \in held}
  BY <1>2 DEF NumAt, NumBehind
<1>4. queue_count = Dist(read, write)
  BY DEF queue_count, Dist
<1>5. \A j \in held : NumAt(At(j)) = NumBehind(events, read, j)
  BY DEF NumAt, NumBehind, At, Pos
<1>6. /\ gone \subseteq 1..posted
      /\ \A j \in held : NumBehind(events, read, j) \in (1..posted) \ gone
      /\ \A n \in (1..posted) \ gone : \E j \in held : n = NumBehind(events, read, j)
      /\ \A j, k \in held : j < k => NumBehind(events, read, j) < NumBehind(events, read, k)
  BY <1>1 DEF Holds
<1> HIDE DEF held
<1>7. {NumBehind(events, read, j) : j \in held} = (1..posted) \ gone
  BY <1>6
<1>8. \A j, k \in held : j < k => NumAt(At(j)) < NumAt(At(k))
  BY <1>5, <1>6
<1> QED
  BY <1>3, <1>4, <1>6, <1>7, <1>8 DEF held

LEMMA RingInitially == Init => RingInv
<1> SUFFICES ASSUME Init
             PROVE  RingInv
  OBVIOUS
<1>1. read \in Indices /\ write = read /\ posted = 0 /\ gone = {} /\ overflowed = FALSE
  BY QueueAssumption DEF Init, Indices
<1>2. NoMessage \in Messages
  BY QueueAssumption DEF NoMessage, Messages
<1>3. events \in [Slots -> Messages]
  BY <1>2 DEF Init
<1>4. Dist(read, write) = 0 /\ QueueLength \in Nat /\ MaxPosts \in Nat
  BY <1>1, DistOf, QueueAssumption
<1>5. Holds(events, read, write, gone, posted)
  BY <1>1, <1>3, <1>4 DEF Holds
<1>6. read \in Indices /\ write \in Indices /\ posted \in 0..MaxPosts
  BY <1>1, <1>4
<1>7. overflowed \in BOOLEAN
  BY <1>1, Zenon
<1> QED
  BY <1>5, <1>6, <1>7 DEF RingInv

(* A message posted to a ring that is not full. *)
LEMMA HoldsPosted ==
    ASSUME NEW r \in Indices, NEW w \in Indices, NEW p \in 0..MaxPosts, p < MaxPosts,
           NEW ev, NEW gn, NEW id \in Ids,
           Holds(ev, r, w, gn, p), Succ(w) # r, Dist(r, w) < QueueLength
    PROVE  Holds([ev EXCEPT ![Slot(w)] = [id |-> id, num |-> p + 1]], r, Succ(w), gn, p + 1)
<1> DEFINE c == Dist(r, w)
           ev2 == [ev EXCEPT ![Slot(w)] = [id |-> id, num |-> p + 1]]
<1>1. /\ c \in Nat /\ c < QueueLength /\ QueueLength \in Nat \ {0} /\ QueueLength <= Wrap
      /\ Pos(r, c) = w /\ Dist(r, Succ(w)) = c + 1 /\ MaxPosts \in Nat /\ Wrap \in Nat
  BY DistOf, TailMoves, LengthFits, QueueAssumption
<1>2. /\ ev \in [Slots -> Messages]
      /\ gn \subseteq 1..p
      /\ \A j \in 0..(c - 1) : NumBehind(ev, r, j) \in (1..p) \ gn
      /\ \A n \in (1..p) \ gn : \E j \in 0..(c - 1) : n = NumBehind(ev, r, j)
      /\ \A j, k \in 0..(c - 1) : j < k => NumBehind(ev, r, j) < NumBehind(ev, r, k)
  BY DEF Holds
<1>3. \A j \in 0..(QueueLength - 1) : Slot(Pos(r, j)) \in Slots
  BY SlotOf
<1>4. c \in 0..(QueueLength - 1)
  BY <1>1
<1>5. Slot(w) = Slot(Pos(r, c)) /\ Slot(w) \in Slots
  BY <1>1, <1>3, <1>4
<1>6. [id |-> id, num |-> p + 1] \in Messages
  BY <1>1 DEF Messages
<1>7. ev2 \in [Slots -> Messages]
  BY <1>2, <1>5, <1>6
<1>8. NumBehind(ev2, r, c) = p + 1
  BY <1>2, <1>5 DEF NumBehind
<1>9. ASSUME NEW j \in 0..(c - 1)
      PROVE  NumBehind(ev2, r, j) = NumBehind(ev, r, j)
  <2>1. j \in 0..(QueueLength - 1) /\ j # c
    BY <1>1
  <2>2. Slot(Pos(r, j)) # Slot(w)
    BY <1>4, <1>5, <2>1, SlotsApart
  <2>3. Slot(Pos(r, j)) \in Slots
    BY <1>3, <2>1
  <2> QED
    BY <1>2, <2>2, <2>3 DEF NumBehind
<1> HIDE DEF ev2, c
<1>10. \A j \in 0..c : j \in 0..(c - 1) \/ j = c
  BY <1>1
<1>11. 0..(c - 1) \subseteq 0..c /\ c \in 0..c
  BY <1>1
<1>12. \A j \in 0..c : NumBehind(ev2, r, j) \in (1..(p + 1)) \ gn
  BY <1>2, <1>8, <1>9, <1>10
<1>13. \A n \in (1..(p + 1)) \ gn : \E j \in 0..c : n = NumBehind(ev2, r, j)
  <2> TAKE n \in (1..(p + 1)) \ gn
  <2>1. CASE n = p + 1
    BY <1>8, <1>11, <2>1
  <2>2. CASE n # p + 1
    <3>1. n \in (1..p) \ gn
      BY <2>2
    <3> QED
      BY <1>2, <1>9, <1>11, <3>1
  <2> QED
    BY <2>1, <2>2
<1>14. ASSUME NEW j \in 0..c, NEW k \in 0..c, j < k
       PROVE  NumBehind(ev2, r, j) < NumBehind(ev2, r, k)
  <2>1. j \in 0..(c - 1)
    BY <1>1, <1>14
  <2>2. CASE k = c
    BY <1>2, <1>8, <1>9, <2>1, <2>2
  <2>3. CASE k # c
    <3>1. k \in 0..(c - 1)
      BY <1>1, <2>3
    <3> QED
      BY <1>2, <1>9, <1>14, <2>1, <3>1
  <2> QED
    BY <2>2, <2>3
<1>15. (c + 1) - 1 = c /\ c + 1 <= QueueLength /\ gn \subseteq 1..(p + 1)
  BY <1>1, <1>2
<1>16. Holds(ev2, r, Succ(w), gn, p + 1)
  BY <1>1, <1>7, <1>12, <1>13, <1>14, <1>15 DEF Holds
<1> QED
  BY <1>16 DEF ev2

(* A message taken from position k, those in front of it moved back. *)
LEMMA HoldsRemoved ==
    ASSUME NEW r \in Indices, NEW w \in Indices, NEW p \in 0..MaxPosts, NEW ev, NEW gn,
           Holds(ev, r, w, gn, p),
           NEW k \in 0..(Dist(r, w) - 1), NEW ev2 \in [Slots -> Messages],
           \A j \in 0..(QueueLength - 1) :
               ev2[Slot(Pos(r, j))] = ev[Slot(Pos(r, IF 1 <= j /\ j <= k THEN j - 1 ELSE j))]
    PROVE  Holds(ev2, Succ(r), w, gn \cup {NumBehind(ev, r, k)}, p)
<1> DEFINE c == Dist(r, w)
           x == NumBehind(ev, r, k)
           From(j) == IF j < k THEN j ELSE j + 1
<1>1. /\ c \in Nat \ {0} /\ c <= QueueLength /\ QueueLength \in Nat \ {0} /\ QueueLength <= Wrap
      /\ c <= Wrap - 1 /\ Wrap \in Nat \ {0} /\ k \in 0..(c - 1) /\ r # w
  BY DistOf, LengthFits, QueueAssumption DEF Holds
<1>2. /\ gn \subseteq 1..p
      /\ \A j \in 0..(c - 1) : NumBehind(ev, r, j) \in (1..p) \ gn
      /\ \A n \in (1..p) \ gn : \E j \in 0..(c - 1) : n = NumBehind(ev, r, j)
      /\ \A i, j \in 0..(c - 1) : i < j => NumBehind(ev, r, i) < NumBehind(ev, r, j)
  BY DEF Holds
<1>3. Dist(Succ(r), w) = c - 1 /\ \A j \in 0..(Wrap - 1) : Pos(Succ(r), j) = Pos(r, j + 1)
  BY <1>1, HeadMoves
<1>4. ASSUME NEW j \in 0..(c - 2)
      PROVE  NumBehind(ev2, Succ(r), j) = NumBehind(ev, r, From(j))
  <2>1. j \in 0..(Wrap - 1) /\ j + 1 \in 0..(QueueLength - 1) /\ 1 <= j + 1
    BY <1>1
  <2>2. Pos(Succ(r), j) = Pos(r, j + 1)
    BY <1>3, <2>1
  <2>3. ev2[Slot(Pos(r, j + 1))]
          = ev[Slot(Pos(r, IF 1 <= j + 1 /\ j + 1 <= k THEN (j + 1) - 1 ELSE j + 1))]
    BY <2>1
  <2>4. From(j) = IF 1 <= j + 1 /\ j + 1 <= k THEN (j + 1) - 1 ELSE j + 1
    BY <1>1, <2>1
  <2> QED
    BY <2>2, <2>3, <2>4 DEF NumBehind
<1>5. \A j \in 0..(c - 2) : From(j) \in 0..(c - 1) /\ From(j) # k
  BY <1>1
<1>6. \A i, j \in 0..(c - 2) : i < j => From(i) < From(j)
  BY <1>1
<1>7. \A i \in 0..(c - 1) : i # k => \E j \in 0..(c - 2) : i = From(j)
  <2> SUFFICES ASSUME NEW i \in 0..(c - 1), i # k
               PROVE  \E j \in 0..(c - 2) : i = From(j)
    OBVIOUS
  <2>1. CASE i < k
    <3>1. i \in 0..(c - 2) /\ From(i) = i
      BY <1>1, <2>1
    <3> QED
      BY <3>1
  <2>2. CASE i > k
    <3>1. i - 1 \in 0..(c - 2) /\ From(i - 1) = i
      BY <1>1, <2>2
    <3> QED
      BY <3>1
  <2> QED
    BY <1>1, <2>1, <2>2
<1> HIDE DEF c, From, x
<1>8. x \in (1..p) \ gn
  BY <1>1, <1>2 DEF x
<1>9. \A i \in 0..(c - 1) : i # k => NumBehind(ev, r, i) # x
  <2> SUFFICES ASSUME NEW i \in 0..(c - 1), i # k, NumBehind(ev, r, i) = x
               PROVE  FALSE
    OBVIOUS
  <2>1. i < k \/ k < i
    BY <1>1
  <2>2. NumBehind(ev, r, i) < NumBehind(ev, r, k) \/ NumBehind(ev, r, k) < NumBehind(ev, r, i)
    BY <1>1, <1>2, <2>1
  <2> QED
    BY <1>8, <2>2 DEF x
<1>10. \A j \in 0..(c - 2) : NumBehind(ev2, Succ(r), j) \in (1..p) \ (gn \cup {x})
  BY <1>2, <1>4, <1>5, <1>9
<1>11. \A n \in (1..p) \ (gn \cup {x}) : \E j \in 0..(c - 2) : n = NumBehind(ev2, Succ(r), j)
  <2> TAKE n \in (1..p) \ (gn \cup {x})
  <2>1. PICK i \in 0..(c - 1) : n = NumBehind(ev, r, i)
    BY <1>2
  <2>2. i # k
    BY <2>1 DEF x
  <2>3. PICK j \in 0..(c - 2) : i = From(j)
    BY <1>7, <2>2
  <2> QED
    BY <1>4, <2>1, <2>3
<1>12. \A i, j \in 0..(c - 2) : i < j => NumBehind(ev2, Succ(r), i) < NumBehind(ev2, Succ(r), j)
  BY <1>2, <1>4, <1>5, <1>6
<1>13. (c - 1) - 1 = c - 2 /\ c - 1 <= QueueLength /\ gn \cup {x} \subseteq 1..p
  BY <1>1, <1>2, <1>8
<1> QED
  BY <1>3, <1>10, <1>11, <1>12, <1>13 DEF Holds, x

-----------------------------------------------------------------------------
(* The steps *)

LEMMA RingSame == RingInv /\ UNCHANGED <<events, read, write, posted, gone, overflowed>> => RingInv'
BY DEF RingInv, Holds, NumBehind, Pos, Dist

LEMMA RingStored ==
    ASSUME RingInv, NEW id \in Ids, Store(id), gone' = gone
    PROVE  RingInv'
<1>1. /\ read \in Indices /\ write \in Indices /\ posted \in 0..MaxPosts /\ posted < MaxPosts
      /\ overflowed \in BOOLEAN /\ Succ(write) # read /\ MaxPosts \in Nat
      /\ events' = [events EXCEPT ![Slot(write)] = [id |-> id, num |-> posted + 1]]
      /\ read' = read /\ write' = Succ(write) /\ posted' = posted + 1
      /\ overflowed' = (overflowed \/ queue_full)
  BY QueueAssumption DEF RingInv, Store
<1>2. Succ(write) \in Indices
  BY <1>1, TailMoves
<1>3. ASSUME ~overflowed'
      PROVE  Holds(events', read', write', gone', posted')
  <2>1. ~overflowed /\ ~queue_full
    BY <1>1, <1>3
  <2>2. Dist(read, write) < QueueLength
    <3>1. Dist(read, write) \in Nat /\ QueueLength \in Nat
      BY <1>1, DistOf, QueueAssumption
    <3>2. ~(Dist(read, write) >= QueueLength)
      BY <2>1 DEF queue_full, queue_count, Dist
    <3> QED
      BY <3>1, <3>2
  <2>3. Holds(events, read, write, gone, posted)
    BY <2>1 DEF RingInv
  <2>4. Holds([events EXCEPT ![Slot(write)] = [id |-> id, num |-> posted + 1]],
              read, Succ(write), gone, posted + 1)
    BY <1>1, <2>2, <2>3, HoldsPosted
  <2> QED
    BY <1>1, <2>4
<1>4. posted' \in 0..MaxPosts /\ overflowed' \in BOOLEAN
  BY <1>1
<1> QED
  BY <1>1, <1>2, <1>3, <1>4 DEF RingInv

(* TakeHead, and the removal of position k by a peek. *)
LEMMA RingRemoved ==
    ASSUME RingInv, NEW k \in 0..(queue_count - 1), NEW snd, NEW move_senders,
           events' = SlideOf(k, snd, move_senders).ev,
           read' = Succ(read), gone' = gone \cup {NumAt(At(k))},
           UNCHANGED <<write, posted, overflowed>>
    PROVE  RingInv'
<1>1. /\ read \in Indices /\ write \in Indices /\ posted \in 0..MaxPosts
      /\ overflowed \in BOOLEAN
      /\ k \in 0..(Dist(read, write) - 1)
  BY DEF RingInv, queue_count, Dist
<1>2. read # write
  BY <1>1, DistOf
<1>3. Succ(read) \in Indices
  BY <1>1, <1>2, HeadMoves
<1>4. ASSUME ~overflowed
      PROVE  Holds(events', Succ(read), write, gone', posted)
  <2>1. Holds(events, read, write, gone, posted)
    BY <1>4 DEF RingInv
  <2>2. events \in [Slots -> Messages] /\ k \in 0..(QueueLength - 1)
    <3>1. Dist(read, write) \in Nat /\ QueueLength \in Nat /\ Dist(read, write) <= QueueLength
      BY <1>1, <2>1, DistOf, QueueAssumption DEF Holds
    <3> QED
      BY <1>1, <2>1, <3>1 DEF Holds
  <2>3. /\ events' \in [Slots -> Messages]
        /\ \A m \in 0..(QueueLength - 1) :
              events'[Slot(At(m))] = events[Slot(At(IF 1 <= m /\ m <= k THEN m - 1 ELSE m))]
    BY <1>1, <2>2, SlideMoves
  <2>4. \A j \in 0..(QueueLength - 1) :
           events'[Slot(Pos(read, j))]
             = events[Slot(Pos(read, IF 1 <= j /\ j <= k THEN j - 1 ELSE j))]
    BY <2>3 DEF At, Pos
  <2>5. NumAt(At(k)) = NumBehind(events, read, k)
    BY DEF NumAt, NumBehind, At, Pos
  <2>6. Holds(events', Succ(read), write, gone \cup {NumBehind(events, read, k)}, posted)
    BY <1>1, <2>1, <2>3, <2>4, HoldsRemoved
  <2> QED
    BY <2>5, <2>6
<1> QED
  BY <1>1, <1>3, <1>4 DEF RingInv

LEMMA RingHeadTaken ==
    ASSUME RingInv, ~Empty, read' = Succ(read), gone' = gone \cup {NumAt(read)},
           UNCHANGED <<events, write, posted, overflowed>>
    PROVE  RingInv'
<1>1. read \in Indices /\ write \in Indices
  BY DEF RingInv
<1>2. At(0) = read
  <2>1. read \in Nat /\ read < Wrap /\ Wrap \in Nat /\ 0 \in 0..Wrap /\ read + 0 = read
    BY <1>1, QueueAssumption DEF Indices
  <2>2. Pos(read, 0) = read
    BY <1>1, <2>1, PosOf
  <2> QED
    BY <2>2 DEF At, Pos
<1>3. 0 \in 0..(queue_count - 1)
  BY <1>1, DistOf DEF Empty, queue_count, Dist
<1>4. events' = SlideOf(0, senders, FALSE).ev
  BY DEF SlideOf
<1> QED
  BY <1>2, <1>3, <1>4, RingRemoved

LEMMA RingEmptied ==
    ASSUME RingInv, read' = write, gone' = gone \cup {NumAt(i) : i \in Pending},
           UNCHANGED <<events, write, posted, overflowed>>
    PROVE  RingInv'
<1>1. /\ read \in Indices /\ write \in Indices /\ posted \in 0..MaxPosts
      /\ overflowed \in BOOLEAN
  BY DEF RingInv
<1>2. ASSUME ~overflowed
      PROVE  Holds(events, write, write, gone', posted)
  <2> DEFINE held == 0..(Dist(read, write) - 1)
  <2>1. Pending = {Pos(read, j) : j \in held}
    BY <1>1, SpanAt DEF Pending, Span
  <2>2. {NumAt(i) : i \in Pending} = {NumBehind(events, read, j) : j \in held}
    BY <2>1 DEF NumAt, NumBehind
  <2>3. /\ events \in [Slots -> Messages] /\ gone \subseteq 1..posted
        /\ \A j \in held : NumBehind(events, read, j) \in (1..posted) \ gone
        /\ \A n \in (1..posted) \ gone : \E j \in held : n = NumBehind(events, read, j)
    BY <1>2 DEF RingInv, Holds
  <2> HIDE DEF held
  <2>4. gone' = 1..posted
    BY <2>2, <2>3
  <2>5. Dist(write, write) = 0 /\ QueueLength \in Nat
    BY <1>1, DistOf, QueueAssumption
  <2> QED
    BY <2>3, <2>4, <2>5 DEF Holds
<1> QED
  BY <1>1, <1>2 DEF RingInv

LEMMA RingStep == RingInv /\ [Next]_vars => RingInv'
<1> SUFFICES ASSUME RingInv, [Next]_vars
             PROVE  RingInv'
  OBVIOUS
<1>1. CASE EnableSend
  BY <1>1, RingSame DEF EnableSend, history
<1>2. ASSUME NEW id \in Ids, Post(id)
      PROVE  RingInv'
  BY <1>2, RingStored DEF Post, Store
<1>3. ASSUME NEW t \in Threads, NEW id \in Ids, Send(t, id)
      PROVE  RingInv'
  BY <1>3, RingStored DEF Send, Store
<1>4. ASSUME NEW t \in Threads, SendReturn(t) \/ Reply(t) \/ TmoExpire(t)
      PROVE  RingInv'
  BY <1>4, RingSame DEF SendReturn, Reply, TmoExpire, ring, history
<1>5. ASSUME NEW t \in Threads, NEW inside \in WaitCalls, WaitEnter(t, inside)
      PROVE  RingInv'
  <2>1. UNCHANGED <<events, write, posted, overflowed>>
    BY <1>5 DEF WaitEnter
  <2>2. CASE UNCHANGED <<read, gone>>
    BY <2>1, <2>2, RingSame
  <2>3. CASE ~Empty /\ TakeHead(t, CurrAfterAutoReply)
    BY <2>1, <2>3, RingHeadTaken DEF TakeHead
  <2> QED
    BY <1>5, <2>2, <2>3 DEF WaitEnter
<1>6. ASSUME NEW t \in Threads, Resume(t)
      PROVE  RingInv'
  <2>1. CASE WakeWithMessage(t)
    <3>1. UNCHANGED <<events, write, posted, overflowed>>
      BY <2>1 DEF WakeWithMessage
    <3>2. CASE UNCHANGED <<read, gone>>
      BY <3>1, <3>2, RingSame
    <3>3. CASE ~Empty /\ TakeHead(t, curr_sender)
      BY <3>1, <3>3, RingHeadTaken DEF TakeHead
    <3> QED
      BY <2>1, <3>2, <3>3 DEF WakeWithMessage
  <2>2. CASE WakeEmptyBlock(t) \/ WakeTimedOut(t)
    BY <2>2, RingSame DEF WakeEmptyBlock, WakeTimedOut, ring, history
  <2> QED
    BY <1>6, <2>1, <2>2 DEF Resume
<1>7. ASSUME NEW t \in Threads, BlockOther(t) \/ WakeOther(t) \/ OtherReturn(t)
      PROVE  RingInv'
  BY <1>7, RingSame DEF BlockOther, WakeOther, OtherReturn, ring, history
<1>8. ASSUME NEW k \in 0..ScrubDepth, NEW f, FirstMatch(k, f)
      PROVE  k \in 0..(queue_count - 1)
  <2>1. queue_count \in Nat
    BY DistOf DEF RingInv, queue_count, Dist
  <2> QED
    BY <1>8, <2>1, QueueAssumption DEF FirstMatch
<1>9. ASSUME NEW t \in Threads, NEW k \in 0..ScrubDepth, NEW f \in Filters, PeekTake(t, k, f)
      PROVE  RingInv'
  <2>1. k \in 0..(queue_count - 1)
    BY <1>8, <1>9 DEF PeekTake
  <2>2. \E snd : events' = SlideOf(k, snd, sending).ev
    BY <1>9 DEF PeekTake, Slide
  <2>3. /\ read' = Succ(read) /\ gone' = gone \cup {NumAt(At(k))}
        /\ UNCHANGED <<write, posted, overflowed>>
    BY <1>9 DEF PeekTake
  <2> QED
    BY <2>1, <2>2, <2>3, RingRemoved
<1>10. ASSUME NEW k \in 0..ScrubDepth, NEW f \in Filters, Discard(k, f)
       PROVE  RingInv'
  <2>1. k \in 0..(queue_count - 1)
    BY <1>8, <1>10 DEF Discard
  <2>2. \E snd : events' = SlideOf(k, snd, sending).ev
    BY <1>10 DEF Discard, Slide
  <2>3. /\ read' = Succ(read) /\ gone' = gone \cup {NumAt(At(k))}
        /\ UNCHANGED <<write, posted, overflowed>>
    BY <1>10 DEF Discard
  <2> QED
    BY <2>1, <2>2, <2>3, RingRemoved
<1>11. CASE Clear
  BY <1>11, RingEmptied DEF Clear
<1>12. CASE Delete
  BY <1>12, RingEmptied DEF Delete
<1>13. CASE UNCHANGED vars
  BY <1>13, RingSame DEF vars, ring, history
<1> QED
  BY <1>1, <1>2, <1>3, <1>4, <1>5, <1>6, <1>7, <1>9, <1>10, <1>11, <1>12, <1>13 DEF Next

(* Without overflow the ring loses, repeats and reorders nothing: what was *)
(* posted is in it, in order, or was removed once; for any receivers, and  *)
(* wherever a removing peek finds its match.                               *)
THEOREM QueueRingExact == Spec => []RingExact
<1>1. Spec => []RingInv
  BY RingInitially, RingStep, PTL DEF Spec
<1> QED
  BY <1>1, RingInvExact, PTL
=============================================================================
