------------------------- MODULE UsbHandoverProofs -------------------------
(***************************************************************************)
(* The handover of the disk, for any threads, plugins and numbers of       *)
(* requests: HandoverInv is inductive, and what the runs check of it on    *)
(* small instances follows for every one.                                  *)
(***************************************************************************)
EXTENDS UsbHandover, FiniteSetTheorems, TLAPS

-----------------------------------------------------------------------------
(* Queues *)

LEMMA PlacesFinite ==
    ASSUME NEW M, NEW q \in Seq(M), NEW m
    PROVE  IsFiniteSet(Places(q, m)) /\ Cardinality(Places(q, m)) \in Nat
<1>1. DOMAIN q = 1..Len(q) /\ Len(q) \in Nat
  OBVIOUS
<1>2. IsFiniteSet(1..Len(q))
  BY <1>1, FS_Interval
<1> QED
  BY <1>1, <1>2, FS_Subset, FS_CardinalityType DEF Places

LEMMA PlacesAppended ==
    ASSUME NEW M, NEW q \in Seq(M), NEW x \in M, NEW m
    PROVE  Cardinality(Places(Append(q, x), m)) =
             IF x = m THEN Cardinality(Places(q, m)) + 1 ELSE Cardinality(Places(q, m))
<1>1. IsFiniteSet(Places(q, m)) /\ Len(q) + 1 \notin Places(q, m)
  <2>1. Len(q) + 1 \notin DOMAIN q
    OBVIOUS
  <2> QED
    BY <2>1, PlacesFinite DEF Places
<1>2. Places(Append(q, x), m) = IF x = m THEN Places(q, m) \cup {Len(q) + 1} ELSE Places(q, m)
  BY DEF Places
<1> QED
  BY <1>1, <1>2, FS_AddElement

LEMMA PlacesInTail ==
    ASSUME NEW M, NEW q \in Seq(M), q # <<>>, NEW m
    PROVE  Cardinality(Places(q, m)) =
             IF Head(q) = m THEN Cardinality(Places(Tail(q), m)) + 1
                            ELSE Cardinality(Places(Tail(q), m))
<1> DEFINE T == Places(Tail(q), m)
           P == Places(q, m)
           f == [i \in T |-> i + 1]
<1>1. /\ Tail(q) \in Seq(M) /\ Len(Tail(q)) = Len(q) - 1 /\ Len(q) \in Nat \ {0}
      /\ \A i \in 1..(Len(q) - 1) : Tail(q)[i] = q[i + 1]
  OBVIOUS
<1>2. IsFiniteSet(T) /\ Cardinality(T) \in Nat /\ IsFiniteSet(P) /\ Cardinality(P) \in Nat
  BY <1>1, PlacesFinite
<1>3. T \subseteq 1..(Len(q) - 1) /\ P \subseteq 1..Len(q)
  BY <1>1 DEF Places
<1>4. f \in Bijection(T, P \ {1})
  <2>1. \A i \in T : i + 1 \in P \ {1}
    BY <1>1, <1>3 DEF Places
  <2>2. \A j \in P \ {1} : j - 1 \in T
    <3> SUFFICES ASSUME NEW j \in P, j # 1
                 PROVE  j - 1 \in T
      OBVIOUS
    <3>1. j \in 1..Len(q) /\ q[j] = m
      BY DEF Places
    <3>2. j - 1 \in 1..(Len(q) - 1) /\ (j - 1) + 1 = j
      BY <1>1, <3>1
    <3>3. Tail(q)[j - 1] = m
      BY <1>1, <3>1, <3>2
    <3> QED
      BY <1>1, <3>2, <3>3 DEF Places
  <2>3. f \in [T -> P \ {1}]
    BY <2>1
  <2>4. \A i, j \in T : f[i] = f[j] => i = j
    BY <1>3
  <2>5. \A j \in P \ {1} : \E i \in T : f[i] = j
    <3> SUFFICES ASSUME NEW j \in P \ {1}
                 PROVE  \E i \in T : f[i] = j
      OBVIOUS
    <3>1. j - 1 \in T /\ j \in Int
      BY <1>3, <2>2
    <3> QED
      BY <3>1
  <2> QED
    BY <2>3, <2>4, <2>5 DEF Bijection, Injection, Surjection, IsInjective
<1>5. Cardinality(P \ {1}) = Cardinality(T)
  BY <1>2, <1>4, FS_Bijection DEF ExistsBijection
<1>6. 1 \in P <=> Head(q) = m
  BY <1>1 DEF Places
<1>7. CASE Head(q) = m
  <2>1. Cardinality(P) - 1 = Cardinality(T)
    BY <1>2, <1>5, <1>6, <1>7, FS_RemoveElement
  <2> QED
    BY <1>2, <1>7, <2>1
<1>8. CASE Head(q) # m
  <2>1. P \ {1} = P
    BY <1>6, <1>8
  <2> QED
    BY <1>5, <1>8, <2>1
<1> QED
  BY <1>7, <1>8

(* The n-th element of a set of numbers: counting the elements up to one   *)
(* of them is injective, so every count is somebody's.                     *)
LEMMA NthOfSet ==
    ASSUME NEW S, S \subseteq Nat \ {0}, IsFiniteSet(S), NEW n \in 1..Cardinality(S)
    PROVE  Nth(S, n) \in S
<1> DEFINE c == Cardinality(S)
           upTo(k) == S \cap (1..k)
           f == [k \in S |-> Cardinality(upTo(k))]
<1>1. c \in Nat
  BY FS_CardinalityType
<1>2. \A k \in S : IsFiniteSet(upTo(k)) /\ Cardinality(upTo(k)) \in 1..c
  <2> SUFFICES ASSUME NEW k \in S
               PROVE  IsFiniteSet(upTo(k)) /\ Cardinality(upTo(k)) \in 1..c
    OBVIOUS
  <2>1. upTo(k) \in SUBSET S /\ k \in upTo(k)
    OBVIOUS
  <2>2. IsFiniteSet(upTo(k)) /\ Cardinality(upTo(k)) <= c
    BY <2>1, FS_Subset
  <2>3. Cardinality(upTo(k)) \in Nat /\ Cardinality(upTo(k)) # 0
    BY <2>1, <2>2, FS_CardinalityType, FS_EmptySet
  <2> QED
    BY <1>1, <2>2, <2>3
<1>3. ASSUME NEW j \in S, NEW k \in S, j < k
      PROVE  f[j] # f[k]
  <2>1. upTo(j) \in SUBSET upTo(k)
    BY <1>3
  <2>2. k \in upTo(k) /\ k \notin upTo(j)
    BY <1>3
  <2>3. Cardinality(upTo(j)) # Cardinality(upTo(k))
    BY <1>2, <2>1, <2>2, FS_Subset
  <2> QED
    BY <2>3
<1>4. f \in Injection(S, 1..c)
  <2>1. f \in [S -> 1..c]
    BY <1>2
  <2>2. \A j, k \in S : f[j] = f[k] => j = k
    BY <1>3
  <2> QED
    BY <2>1, <2>2 DEF Injection, IsInjective
<1>5. IsFiniteSet(1..c) /\ Cardinality(1..c) = c
  BY <1>1, FS_Interval
<1>6. f \in Surjection(S, 1..c)
  BY <1>4, <1>5, FS_Injection
<1>7. \E k \in S : f[k] = n
  BY <1>6 DEF Surjection
<1>8. \E k \in S : Cardinality(S \cap (1..k)) = n
  BY <1>7
<1> QED
  BY <1>8 DEF Nth

LEMMA CompletionsGone ==
    ASSUME NEW M, NEW q \in Seq(M)
    PROVE  /\ WithoutCompletions(q) \in Seq(M)
           /\ \A i \in DOMAIN WithoutCompletions(q) :
                \E j \in DOMAIN q : /\ WithoutCompletions(q)[i] = q[j]
                                    /\ ~Completion(q[j])
<1>1. DOMAIN q = 1..Len(q) /\ Len(q) \in Nat
  OBVIOUS
<1>2. IsFiniteSet(1..Len(q)) /\ Left(q) \in SUBSET (1..Len(q))
  BY <1>1, FS_Interval DEF Left
<1>3. IsFiniteSet(Left(q)) /\ Left(q) \subseteq Nat \ {0}
  BY <1>2, FS_Subset
<1>4. Cardinality(Left(q)) \in Nat
  BY <1>3, FS_CardinalityType
<1>5. \A n \in 1..Cardinality(Left(q)) : Nth(Left(q), n) \in Left(q)
  BY <1>3, NthOfSet
<1>6. \A n \in 1..Cardinality(Left(q)) :
        /\ Nth(Left(q), n) \in DOMAIN q
        /\ ~Completion(q[Nth(Left(q), n)])
        /\ q[Nth(Left(q), n)] \in M
  BY <1>5 DEF Left
<1>7. WithoutCompletions(q) \in [1..Cardinality(Left(q)) -> M]
  BY <1>6 DEF WithoutCompletions
<1>8. WithoutCompletions(q) \in Seq(M)
  BY <1>4, <1>7
<1> QED
  BY <1>6, <1>8 DEF WithoutCompletions

-----------------------------------------------------------------------------
(* What the usb queue holds                                                *)

Requests(q) == Cardinality(Places(q, Msg("SET_CONFIGURATION", 1)))
Acks(q, n)  == Cardinality(Places(q, Ack(n)))

UsbQueueOK(q, n) ==
    /\ q \in Seq(UsbMsgs)
    /\ \A i \in DOMAIN q : q[i].id = "SYS_USB_CONNECTED_ACK" => q[i].data <= n

LEMMA Counted ==
    ASSUME NEW q, NEW n, UsbQueueOK(q, n)
    PROVE  Requests(q) \in Nat /\ Acks(q, n) \in Nat
BY PlacesFinite DEF UsbQueueOK, Requests, Acks

LEMMA Posted ==
    ASSUME NEW q, NEW n, UsbQueueOK(q, n), NEW m \in UsbMsgs,
           m.id = "SYS_USB_CONNECTED_ACK" => m.data <= n
    PROVE  /\ UsbQueueOK(Append(q, m), n)
           /\ Acks(Append(q, m), n) = IF m = Ack(n) THEN Acks(q, n) + 1 ELSE Acks(q, n)
           /\ Requests(Append(q, m)) =
                IF m = Msg("SET_CONFIGURATION", 1) THEN Requests(q) + 1 ELSE Requests(q)
<1>1. q \in Seq(UsbMsgs)
  BY DEF UsbQueueOK
<1>2. Append(q, m) \in Seq(UsbMsgs)
  BY <1>1
<1>3. ASSUME NEW i \in DOMAIN Append(q, m), Append(q, m)[i].id = "SYS_USB_CONNECTED_ACK"
      PROVE  Append(q, m)[i].data <= n
  <2>1. CASE i = Len(q) + 1
    BY <1>1, <1>3, <2>1
  <2>2. CASE i # Len(q) + 1
    <3>1. i \in DOMAIN q /\ Append(q, m)[i] = q[i]
      BY <1>1, <1>3, <2>2
    <3> QED
      BY <1>3, <3>1 DEF UsbQueueOK
  <2> QED
    BY <2>1, <2>2
<1>4. UsbQueueOK(Append(q, m), n)
  BY <1>2, <1>3 DEF UsbQueueOK
<1> QED
  BY <1>1, <1>4, PlacesAppended DEF Acks, Requests

LEMMA Taken ==
    ASSUME NEW q, NEW n, UsbQueueOK(q, n), q # <<>>
    PROVE  /\ Head(q) \in UsbMsgs
           /\ UsbQueueOK(Tail(q), n)
           /\ Acks(q, n) =
                IF Head(q) = Ack(n) THEN Acks(Tail(q), n) + 1 ELSE Acks(Tail(q), n)
           /\ Requests(q) =
                IF Head(q) = Msg("SET_CONFIGURATION", 1)
                THEN Requests(Tail(q)) + 1 ELSE Requests(Tail(q))
<1>1. q \in Seq(UsbMsgs)
  BY DEF UsbQueueOK
<1>2. Tail(q) \in Seq(UsbMsgs) /\ Head(q) \in UsbMsgs
  BY <1>1
<1>3. \A i \in DOMAIN Tail(q) : i + 1 \in DOMAIN q /\ Tail(q)[i] = q[i + 1]
  BY <1>1
<1>4. UsbQueueOK(Tail(q), n)
  BY <1>2, <1>3 DEF UsbQueueOK
<1> QED
  BY <1>1, <1>2, <1>4, PlacesInTail DEF Acks, Requests

LEMMA Cleared ==
    ASSUME NEW q, NEW n, UsbQueueOK(q, n)
    PROVE  UsbQueueOK(WithoutCompletions(q), n) /\ Requests(WithoutCompletions(q)) = 0
<1> DEFINE w == WithoutCompletions(q)
<1>1. w \in Seq(UsbMsgs)
  BY CompletionsGone DEF UsbQueueOK
<1>2. \A i \in DOMAIN w : \E j \in DOMAIN q : w[i] = q[j] /\ ~Completion(q[j])
  BY CompletionsGone DEF UsbQueueOK
<1>3. UsbQueueOK(w, n)
  BY <1>1, <1>2 DEF UsbQueueOK
<1>4. Completion(Msg("SET_CONFIGURATION", 1))
  BY DEF Completion, Msg
<1>5. Places(w, Msg("SET_CONFIGURATION", 1)) = {}
  BY <1>2, <1>4 DEF Places
<1> QED
  BY <1>3, <1>5, FS_EmptySet DEF Requests

(* Nobody acknowledges the next request before it is made. *)
LEMMA NotYet ==
    ASSUME NEW q, NEW n \in Nat, UsbQueueOK(q, n)
    PROVE  UsbQueueOK(q, n + 1) /\ Acks(q, n + 1) = 0
<1>1. \A i \in DOMAIN q : q[i] \in UsbMsgs
  BY DEF UsbQueueOK
<1>2. \A m \in UsbMsgs : m.id = "SYS_USB_CONNECTED_ACK" => m.data \in Nat
  BY DEF UsbMsgs, Ack, Msg, Configs
<1>3. \A i \in DOMAIN q : q[i].id = "SYS_USB_CONNECTED_ACK" => q[i].data <= n /\ q[i].data \in Nat
  BY <1>1, <1>2 DEF UsbQueueOK
<1>4. UsbQueueOK(q, n + 1)
  BY <1>3 DEF UsbQueueOK
<1>5. \A i \in DOMAIN q : q[i] # Ack(n + 1)
  BY <1>3 DEF Ack, Msg
<1>6. Places(q, Ack(n + 1)) = {}
  BY <1>5 DEF Places
<1> QED
  BY <1>4, <1>6, FS_EmptySet DEF Acks

-----------------------------------------------------------------------------
(* What the threads' queues hold                                           *)

(* A queue whose last message, and no other, is the request n. *)
News(s, n) == \A i \in DOMAIN s : s[i] = Connected(n) <=> i = Len(s)

LEMMA NewsIsLast ==
    ASSUME NEW s \in Seq(ClientMsgs), NEW n, News(s, n)
    PROVE  /\ Contains(s, Connected(n)) <=> s # <<>>
           /\ s # <<>> => /\ News(Tail(s), n)
                          /\ Head(s) = Connected(n) <=> Tail(s) = <<>>
<1>1. s # <<>> => Len(s) \in DOMAIN s /\ 1 \in DOMAIN s /\ Head(s) = s[1]
  OBVIOUS
<1>2. DOMAIN s = 1..Len(s) /\ Len(s) \in Nat
  OBVIOUS
<1>3. Contains(s, Connected(n)) <=> s # <<>>
  BY <1>1, <1>2 DEF News, Contains
<1>4. ASSUME s # <<>>
      PROVE  Head(s) = Connected(n) <=> Tail(s) = <<>>
  <2>1. Head(s) = Connected(n) <=> 1 = Len(s)
    BY <1>1, <1>4 DEF News
  <2>2. Tail(s) \in Seq(ClientMsgs) /\ Len(Tail(s)) = Len(s) - 1 /\ Len(s) \in Nat
    BY <1>4
  <2>3. Tail(s) = <<>> <=> Len(Tail(s)) = 0
    BY <2>2
  <2> QED
    BY <2>1, <2>2, <2>3
<1>5. ASSUME s # <<>>
      PROVE  News(Tail(s), n)
  <2> SUFFICES ASSUME NEW i \in DOMAIN Tail(s)
               PROVE  Tail(s)[i] = Connected(n) <=> i = Len(Tail(s))
    BY DEF News
  <2>1. /\ i \in Nat /\ i + 1 \in DOMAIN s /\ Tail(s)[i] = s[i + 1]
        /\ Len(Tail(s)) = Len(s) - 1 /\ Len(s) \in Nat
    BY <1>5
  <2>2. s[i + 1] = Connected(n) <=> i + 1 = Len(s)
    BY <2>1 DEF News
  <2> QED
    BY <2>1, <2>2
<1> QED
  BY <1>3, <1>4, <1>5

(* Queues with no number beyond n *)
Past(Q, n) ==
    /\ Q \in [Clients -> Seq(ClientMsgs)]
    /\ \A c \in Clients : \A i \in DOMAIN Q[c] : Q[c][i].data <= n

LEMMA PastNext ==
    ASSUME NEW Q, NEW n \in Nat, Past(Q, n)
    PROVE  Past(Q, n + 1)
<1>1. ASSUME NEW c \in Clients, NEW i \in DOMAIN Q[c]
      PROVE  Q[c][i].data <= n + 1
  <2>1. Q[c][i] \in ClientMsgs /\ Q[c][i].data <= n
    BY DEF Past
  <2>2. Q[c][i].data \in Nat
    BY <2>1 DEF ClientMsgs, Connected, Disconnected, Msg
  <2> QED
    BY <2>1, <2>2
<1> QED
  BY <1>1 DEF Past

LEMMA BroadcastPast ==
    ASSUME NEW Q, NEW n \in Nat, Past(Q, n), NEW m \in ClientMsgs, m.data <= n
    PROVE  Past(Broadcast(Q, m), n)
<1>1. ASSUME NEW c \in Clients
      PROVE  /\ Broadcast(Q, m)[c] \in Seq(ClientMsgs)
             /\ \A i \in DOMAIN Broadcast(Q, m)[c] : Broadcast(Q, m)[c][i].data <= n
  <2>1. Q[c] \in Seq(ClientMsgs)
    BY DEF Past
  <2>2. CASE c \in Registered
    <3>1. Broadcast(Q, m)[c] = Append(Q[c], m)
      BY <2>2 DEF Broadcast
    <3>2. ASSUME NEW i \in DOMAIN Append(Q[c], m)
          PROVE  Append(Q[c], m)[i].data <= n
      <4>1. i = Len(Q[c]) + 1 \/ i \in DOMAIN Q[c]
        BY <2>1, <3>2
      <4>2. CASE i = Len(Q[c]) + 1
        <5>1. Append(Q[c], m)[i] = m
          BY <2>1, <4>2
        <5> QED
          BY <5>1
      <4>3. CASE i \in DOMAIN Q[c]
        <5>1. Append(Q[c], m)[i] = Q[c][i]
          BY <2>1, <4>3
        <5> QED
          BY <4>3, <5>1 DEF Past
      <4> QED
        BY <4>1, <4>2, <4>3
    <3> QED
      BY <2>1, <3>1, <3>2
  <2>3. CASE c \notin Registered
    <3>1. Broadcast(Q, m)[c] = Q[c]
      BY <2>3 DEF Broadcast
    <3> QED
      BY <2>1, <3>1 DEF Past
  <2> QED
    BY <2>2, <2>3
<1>2. Broadcast(Q, m) \in [Clients -> Seq(ClientMsgs)]
  BY <1>1 DEF Broadcast
<1> QED
  BY <1>1, <1>2 DEF Past

LEMMA BroadcastIsNews ==
    ASSUME NEW Q, NEW n \in Nat, Past(Q, n), NEW c \in Registered
    PROVE  News(Broadcast(Q, Connected(n + 1))[c], n + 1)
<1> DEFINE m == Connected(n + 1)
<1>1. c \in Clients /\ Broadcast(Q, m)[c] = Append(Q[c], m)
  BY DEF Broadcast, Registered
<1>2. Q[c] \in Seq(ClientMsgs)
  BY <1>1 DEF Past
<1> SUFFICES ASSUME NEW i \in DOMAIN Append(Q[c], m)
             PROVE  Append(Q[c], m)[i] = m <=> i = Len(Append(Q[c], m))
  BY <1>1 DEF News
<1>3. Len(Append(Q[c], m)) = Len(Q[c]) + 1 /\ Len(Q[c]) \in Nat
  BY <1>2
<1>4. CASE i = Len(Q[c]) + 1
  BY <1>2, <1>3, <1>4
<1>5. CASE i # Len(Q[c]) + 1
  <2>1. i \in DOMAIN Q[c] /\ Append(Q[c], m)[i] = Q[c][i]
    BY <1>2, <1>5
  <2>2. Q[c][i].data <= n
    BY <1>1, <2>1 DEF Past
  <2>3. m.data = n + 1
    BY DEF Connected, Msg
  <2>4. Q[c][i] # m
    BY <2>2, <2>3
  <2> QED
    BY <1>3, <1>5, <2>1, <2>4
<1> QED
  BY <1>4, <1>5

-----------------------------------------------------------------------------
(* Steps that leave the disk and the threads alone                         *)

LEMMA Facts ==
    ASSUME HandoverInv
    PROVE  /\ UsbQueueOK(usbQueue, seqnum)
           /\ Past(queue, seqnum)
           /\ seqnum \in Nat /\ MaxSeq \in Nat
           /\ seqnum + Requests(usbQueue) <= MaxSeq
           /\ Stoppers \cup Ackers \subseteq Registered
           /\ IsFiniteSet(Unstopped) /\ Cardinality(Unstopped) \in Nat
           /\ requested => \A c \in Stoppers \cup Ackers :
                /\ News(queue[c], seqnum)
                /\ pc[c] # "working" /\ ackSeq[c] = seqnum => queue[c] = <<>>
<1>1. UsbQueueOK(usbQueue, seqnum)
  BY DEF HandoverInv, TypeOK, AcksPast, UsbQueueOK
<1>2. Past(queue, seqnum)
  BY DEF HandoverInv, TypeOK, ClientTypes, NumbersPast, Past
<1>3. seqnum \in Nat /\ MaxSeq \in Nat
  BY UsbAssumption DEF HandoverInv, TypeOK, DiskTypes
<1>4. seqnum + Requests(usbQueue) <= MaxSeq
  BY DEF HandoverInv, RequestsBounded, Requests
<1>5. Stoppers \cup Ackers \subseteq Registered
  BY DEF HandoverInv, ThreadPlaces, Registered, Clients
<1>6. IsFiniteSet(Unstopped) /\ Cardinality(Unstopped) \in Nat
  <2>1. Unstopped \in SUBSET Clients
    BY DEF Unstopped, Clients
  <2> QED
    BY <2>1, UsbAssumption, FS_Subset, FS_CardinalityType
<1>7. requested => \A c \in Stoppers \cup Ackers :
        /\ News(queue[c], seqnum)
        /\ pc[c] # "working" /\ ackSeq[c] = seqnum => queue[c] = <<>>
  BY DEF HandoverInv, NewsLast, News
<1> QED
  BY <1>1, <1>2, <1>3, <1>4, <1>5, <1>6, <1>7

LEMMA QuietStep ==
    ASSUME HandoverInv, UNCHANGED <<diskVars, clientVars>>,
           ConnTypes', RequestJustified', ConfigKnown',
           UsbQueueOK(usbQueue', seqnum),
           Requests(usbQueue') <= Requests(usbQueue) \/ seqnum + Requests(usbQueue') <= MaxSeq,
           Acks(usbQueue', seqnum) <= Acks(usbQueue, seqnum)
    PROVE  HandoverInv'
<1>1. TypeOK' /\ AcksPast'
  <2>1. DiskTypes' /\ ClientTypes'
    BY DEF HandoverInv, TypeOK, DiskTypes, ClientTypes, diskVars, clientVars
  <2> QED
    BY <2>1 DEF TypeOK, AcksPast, UsbQueueOK, diskVars
<1>2. ThreadPlaces' /\ NumbersPast'
  BY DEF HandoverInv, ThreadPlaces, NumbersPast, diskVars, clientVars
<1>3. RequestsBounded'
  <2>1. /\ seqnum' = seqnum /\ Requests(usbQueue) \in Nat /\ Requests(usbQueue') \in Nat
    BY Facts, Counted DEF diskVars
  <2>2. seqnum + Requests(usbQueue') <= MaxSeq
    BY <2>1, Facts
  <2> QED
    BY <2>1, <2>2 DEF RequestsBounded, Requests
<1>4. NewsLast' /\ AllStopped'
  BY DEF HandoverInv, NewsLast, AllStopped, Stopped, diskVars, clientVars
<1>5. AcksEnough'
  <2> SUFFICES ASSUME requested, ~enabled
               PROVE  (Cardinality(Unstopped) + Cardinality(AcksInFlight) <= acks)'
    BY DEF AcksEnough, diskVars
  <2>1. Unstopped' = Unstopped /\ seqnum' = seqnum /\ acks' = acks
    BY DEF Unstopped, Stopped, diskVars, clientVars
  <2>2. /\ Cardinality(AcksInFlight) = Acks(usbQueue, seqnum)
        /\ Cardinality(AcksInFlight') = Acks(usbQueue', seqnum)
    BY <2>1 DEF AcksInFlight, Acks
  <2>3. Cardinality(Unstopped) + Acks(usbQueue, seqnum) <= acks
    BY <2>2 DEF HandoverInv, AcksEnough
  <2>4. /\ Cardinality(Unstopped) \in Nat /\ acks \in Nat
        /\ Acks(usbQueue, seqnum) \in Nat /\ Acks(usbQueue', seqnum) \in Nat
    <3>1. acks \in 0..Cardinality(Clients) /\ Cardinality(Clients) \in Nat
      BY UsbAssumption, FS_CardinalityType DEF HandoverInv, TypeOK, DiskTypes
    <3> QED
      BY <3>1, Facts, Counted
  <2>5. Cardinality(Unstopped) + Acks(usbQueue', seqnum) <= acks
    BY <2>3, <2>4
  <2> QED
    BY <2>1, <2>2, <2>5
<1> QED
  BY <1>1, <1>2, <1>3, <1>4, <1>5 DEF HandoverInv

LEMMA CableInterruptKeeps ==
    ASSUME HandoverInv, NEW in \in BOOLEAN, CableInterrupt(in)
    PROVE  HandoverInv'
<1>1. UNCHANGED <<diskVars, clientVars>> /\ UNCHANGED <<usbQueue, connVars, coreVars>>
  BY DEF CableInterrupt
<1>2. ConnTypes'
  BY <1>1 DEF HandoverInv, TypeOK, ConnTypes, CableInterrupt, StatusEvent, connVars, coreVars
<1>3. RequestJustified' /\ ConfigKnown'
  BY <1>1 DEF HandoverInv, RequestJustified, ConfigKnown, connVars, coreVars, diskVars
<1>4. usbQueue' = usbQueue /\ Acks(usbQueue, seqnum) \in Nat /\ Requests(usbQueue) \in Nat
  BY <1>1, Facts, Counted
<1> QED
  BY <1>1, <1>2, <1>3, <1>4, Facts, QuietStep

LEMMA StartMonitoringKeeps ==
    ASSUME HandoverInv, StartMonitoring
    PROVE  HandoverInv'
<1>1. UNCHANGED <<diskVars, clientVars>> /\ UNCHANGED <<usbQueue, connVars, coreVars>>
  BY DEF StartMonitoring
<1>2. ConnTypes'
  BY <1>1 DEF HandoverInv, TypeOK, ConnTypes, StartMonitoring, StatusEvent, connVars, coreVars
<1>3. RequestJustified' /\ ConfigKnown'
  BY <1>1 DEF HandoverInv, RequestJustified, ConfigKnown, connVars, coreVars, diskVars
<1>4. usbQueue' = usbQueue /\ Acks(usbQueue, seqnum) \in Nat /\ Requests(usbQueue) \in Nat
  BY <1>1, Facts, Counted
<1> QED
  BY <1>1, <1>2, <1>3, <1>4, Facts, QuietStep

(* What interrupts post is no ack, and no request beyond the bound. *)
LEMMA PostKeeps ==
    ASSUME HandoverInv, UNCHANGED <<diskVars, clientVars>>,
           ConnTypes', RequestJustified', ConfigKnown',
           NEW m \in UsbMsgs, usbQueue' = Append(usbQueue, m),
           m.id # "SYS_USB_CONNECTED_ACK",
           m = Msg("SET_CONFIGURATION", 1) => seqnum + Requests(usbQueue) < MaxSeq
    PROVE  HandoverInv'
<1>1. UsbQueueOK(usbQueue, seqnum) /\ seqnum \in Nat /\ MaxSeq \in Nat
  BY Facts
<1>2. Acks(usbQueue, seqnum) \in Nat /\ Requests(usbQueue) \in Nat
  BY <1>1, Counted
<1>3. m # Ack(seqnum)
  BY DEF Ack, Msg
<1>4. /\ UsbQueueOK(usbQueue', seqnum)
      /\ Acks(usbQueue', seqnum) = Acks(usbQueue, seqnum)
      /\ Requests(usbQueue') =
           IF m = Msg("SET_CONFIGURATION", 1) THEN Requests(usbQueue) + 1 ELSE Requests(usbQueue)
  BY <1>1, <1>3, Posted
<1>5. Requests(usbQueue') <= Requests(usbQueue) \/ seqnum + Requests(usbQueue') <= MaxSeq
  BY <1>1, <1>2, <1>4
<1>6. Acks(usbQueue', seqnum) <= Acks(usbQueue, seqnum)
  BY <1>2, <1>4
<1> QED
  BY <1>4, <1>5, <1>6, QuietStep

LEMMA DebounceExpiredKeeps ==
    ASSUME HandoverInv, DebounceExpired
    PROVE  HandoverInv'
<1>1. UNCHANGED <<diskVars, clientVars>> /\ UNCHANGED <<cable, connVars, coreVars>>
  BY DEF DebounceExpired
<1>2. ConnTypes'
  BY <1>1 DEF HandoverInv, TypeOK, ConnTypes, DebounceExpired, connVars, coreVars
<1>3. RequestJustified' /\ ConfigKnown'
  BY <1>1 DEF HandoverInv, RequestJustified, ConfigKnown, connVars, coreVars, diskVars
<1>4. CASE cable # lastStatus
  <2>1. usbQueue' = usbQueue /\ Acks(usbQueue, seqnum) \in Nat /\ Requests(usbQueue) \in Nat
    BY <1>4, Facts, Counted DEF DebounceExpired
  <2> QED
    BY <1>1, <1>2, <1>3, <2>1, Facts, QuietStep
<1>5. CASE ~(cable # lastStatus)
  <2> DEFINE m == Msg(IF cable THEN "USB_INSERTED" ELSE "USB_EXTRACTED", 0)
  <2>1. usbQueue' = Append(usbQueue, m)
    BY <1>5 DEF DebounceExpired
  <2>2. /\ m \in UsbMsgs /\ m.id # "SYS_USB_CONNECTED_ACK" /\ m # Msg("SET_CONFIGURATION", 1)
    BY DEF UsbMsgs, Msg
  <2> QED
    BY <1>1, <1>2, <1>3, <2>1, <2>2, PostKeeps
<1> QED
  BY <1>4, <1>5

LEMMA HostRequestKeeps ==
    ASSUME HandoverInv,
           NEW m \in {Msg("SET_CONFIGURATION", c) : c \in Configs} \cup {Msg("OTHER_REQUEST", 0)},
           HostRequest(m)
    PROVE  HandoverInv'
<1>1. /\ UNCHANGED <<diskVars, clientVars>> /\ UNCHANGED <<detectVars, connVars, coreVars>>
      /\ usbQueue' = Append(usbQueue, m)
  BY DEF HostRequest
<1>2. ConnTypes' /\ RequestJustified' /\ ConfigKnown'
  BY <1>1 DEF HandoverInv, TypeOK, ConnTypes, RequestJustified, ConfigKnown,
              detectVars, connVars, coreVars, diskVars
<1>3. m \in UsbMsgs /\ m.id # "SYS_USB_CONNECTED_ACK"
  BY DEF UsbMsgs, Msg
<1>4. ASSUME m = Msg("SET_CONFIGURATION", 1)
      PROVE  seqnum + Requests(usbQueue) < MaxSeq
  <2>1. m.data = 1
    BY <1>4 DEF Msg
  <2> QED
    BY <1>4, <2>1 DEF HostRequest, Requests
<1> QED
  BY <1>1, <1>2, <1>3, <1>4, PostKeeps

LEMMA BusResetKeeps ==
    ASSUME HandoverInv, BusReset
    PROVE  HandoverInv'
<1> DEFINE m == Msg("BUS_RESET", 0)
<1>1. /\ UNCHANGED <<diskVars, clientVars>> /\ UNCHANGED <<detectVars, connVars, usbConfig>>
      /\ usbQueue' = Append(usbQueue, m) /\ resetPending' = TRUE
  BY DEF BusReset
<1>2. ConnTypes' /\ RequestJustified' /\ ConfigKnown'
  BY <1>1 DEF HandoverInv, TypeOK, ConnTypes, RequestJustified, ConfigKnown,
              detectVars, connVars, diskVars
<1>3. m \in UsbMsgs /\ m.id # "SYS_USB_CONNECTED_ACK" /\ m # Msg("SET_CONFIGURATION", 1)
  BY DEF UsbMsgs, Msg
<1> QED
  BY <1>1, <1>2, <1>3, PostKeeps

(* The usb thread takes a message that changes nothing else of this. *)
LEMMA TakeKeeps ==
    ASSUME HandoverInv, UNCHANGED <<diskVars, clientVars>>,
           ConnTypes', RequestJustified', ConfigKnown',
           usbQueue # <<>>, usbQueue' = Tail(usbQueue)
    PROVE  HandoverInv'
<1>1. UsbQueueOK(usbQueue, seqnum)
  BY Facts
<1>2. UsbQueueOK(usbQueue', seqnum)
  BY <1>1, Taken
<1>3. /\ Acks(usbQueue, seqnum) \in Nat /\ Requests(usbQueue) \in Nat
      /\ Acks(usbQueue', seqnum) \in Nat /\ Requests(usbQueue') \in Nat
  BY <1>1, <1>2, Counted
<1>4. /\ Acks(usbQueue', seqnum) <= Acks(usbQueue, seqnum)
      /\ Requests(usbQueue') <= Requests(usbQueue)
  BY <1>1, <1>3, Taken
<1> QED
  BY <1>2, <1>4, QuietStep

LEMMA HandleInsertedKeeps ==
    ASSUME HandoverInv, HandleInserted
    PROVE  HandoverInv'
<1>1. /\ UNCHANGED <<diskVars, clientVars>>
      /\ UNCHANGED <<detectVars, coreVars, hostPresent, storageDriver>>
  BY DEF HandleInserted
<1>2. usbQueue # <<>> /\ usbQueue' = Tail(usbQueue)
  BY DEF HandleInserted, Receive
<1>3. ConnTypes'
  BY <1>1 DEF HandoverInv, TypeOK, ConnTypes, HandleInserted, detectVars, coreVars
<1>4. usbConfig # 0 => usbState' = usbState
  BY DEF HandoverInv, ConfigKnown, HandleInserted
<1>5. ConfigKnown'
  BY <1>1, <1>4 DEF HandoverInv, ConfigKnown, coreVars
<1>6. RequestJustified'
  BY <1>1, <1>4 DEF HandoverInv, RequestJustified, coreVars, diskVars
<1> QED
  BY <1>1, <1>2, <1>3, <1>5, <1>6, TakeKeeps

-----------------------------------------------------------------------------
(* Selecting a configuration                                               *)

(* A new request takes a new number: nobody has acknowledged it, and every *)
(* thread but a plugin still has it in its queue.                          *)
LEMMA RequestKeeps ==
    ASSUME HandoverInv,
           seqnum + 1 <= MaxSeq, ~enabled,
           RequestExclusiveStorage(IF requested THEN Broadcast(queue, Disconnected) ELSE queue),
           UNCHANGED <<enabled, mounted, pc, ackSeq, playing>>,
           UsbQueueOK(usbQueue', seqnum), seqnum + 1 + Requests(usbQueue') <= MaxSeq,
           ConnTypes', RequestJustified', ConfigKnown'
    PROVE  HandoverInv'
<1> DEFINE Q == IF requested THEN Broadcast(queue, Disconnected) ELSE queue
           n == seqnum + 1
<1>1. /\ seqnum \in Nat /\ MaxSeq \in Nat /\ n \in Nat /\ seqnum <= n /\ n \in 1..MaxSeq
      /\ seqnum' = n /\ requested' = TRUE /\ acks' = Cardinality(Registered)
      /\ queue' = Broadcast(Q, Connected(n))
  BY Facts DEF RequestExclusiveStorage
<1>2. Past(queue, seqnum)
  BY Facts
<1>3. Past(Q, seqnum)
  <2>1. Disconnected \in ClientMsgs /\ Disconnected.data <= seqnum
    BY <1>1 DEF ClientMsgs, Disconnected, Msg
  <2>2. Past(Broadcast(queue, Disconnected), seqnum)
    BY <1>1, <1>2, <2>1, BroadcastPast
  <2> QED
    BY <1>2, <2>2
<1>4. Past(Q, n)
  BY <1>1, <1>3, PastNext
<1>5. Past(queue', n)
  <2>1. Connected(n) \in ClientMsgs /\ Connected(n).data <= n
    BY <1>1 DEF ClientMsgs, Connected, Msg
  <2> QED
    BY <1>1, <1>4, <2>1, BroadcastPast
<1>6. UsbQueueOK(usbQueue', n) /\ Acks(usbQueue', n) = 0
  BY <1>1, NotYet
<1>7. TypeOK'
  <2>1. Registered \in SUBSET Clients
    BY DEF Registered
  <2>2. /\ Cardinality(Registered) \in Nat /\ Cardinality(Clients) \in Nat
        /\ Cardinality(Registered) <= Cardinality(Clients)
    BY <2>1, UsbAssumption, FS_Subset, FS_CardinalityType
  <2>3. DiskTypes'
    BY <1>1, <2>2 DEF HandoverInv, TypeOK, DiskTypes
  <2>4. ClientTypes'
    BY <1>5 DEF HandoverInv, TypeOK, ClientTypes, Past
  <2> QED
    BY <1>6, <2>3, <2>4 DEF TypeOK, UsbQueueOK
<1>8. AcksPast' /\ ThreadPlaces'
  BY <1>1, <1>6 DEF HandoverInv, AcksPast, UsbQueueOK, ThreadPlaces
<1>9. NumbersPast'
  <2>1. ASSUME NEW c \in Clients
        PROVE  ackSeq[c] <= n
    <3>1. ackSeq[c] \in Nat /\ ackSeq[c] <= seqnum
      BY UsbAssumption DEF HandoverInv, TypeOK, ClientTypes, NumbersPast
    <3> QED
      BY <1>1, <3>1
  <2> QED
    BY <1>1, <1>5, <2>1 DEF HandoverInv, NumbersPast, Past
<1>10. RequestsBounded'
  BY <1>1 DEF RequestsBounded, Requests
<1>11. NewsLast'
  <2>1. ASSUME NEW c \in Stoppers \cup Ackers
        PROVE  News(queue'[c], n) /\ ackSeq'[c] # n
    <3>1. c \in Registered /\ c \in Clients
      BY Facts DEF Registered
    <3>2. News(queue'[c], n)
      BY <1>1, <1>3, <3>1, BroadcastIsNews
    <3>3. ackSeq[c] \in Nat /\ ackSeq[c] <= seqnum
      BY <3>1, UsbAssumption DEF HandoverInv, TypeOK, ClientTypes, NumbersPast
    <3> QED
      BY <1>1, <3>2, <3>3
  <2> QED
    BY <1>1, <2>1 DEF NewsLast, News
<1>12. AllStopped'
  BY DEF AllStopped
<1>13. AcksEnough'
  <2>1. Cardinality(AcksInFlight') = 0
    BY <1>1, <1>6 DEF AcksInFlight, Acks
  <2>2. Unstopped' \in SUBSET Registered
    BY Facts DEF Unstopped
  <2>3. IsFiniteSet(Registered)
    <3>1. Registered \in SUBSET Clients
      BY DEF Registered
    <3> QED
      BY <3>1, UsbAssumption, FS_Subset
  <2>4. /\ Cardinality(Unstopped') \in Nat /\ Cardinality(Registered) \in Nat
        /\ Cardinality(Unstopped') <= Cardinality(Registered)
    BY <2>2, <2>3, FS_Subset, FS_CardinalityType
  <2>5. Cardinality(Unstopped') + Cardinality(AcksInFlight') <= acks'
    BY <1>1, <2>1, <2>4
  <2> QED
    BY <2>5 DEF AcksEnough
<1> QED
  BY <1>7, <1>8, <1>9, <1>10, <1>11, <1>12, <1>13 DEF HandoverInv

LEMMA ReleaseKeeps ==
    ASSUME HandoverInv, ReleaseExclusiveStorage,
           UNCHANGED <<pc, ackSeq, playing>>,
           UsbQueueOK(usbQueue', seqnum), seqnum + Requests(usbQueue') <= MaxSeq,
           ConnTypes', RequestJustified', ConfigKnown'
    PROVE  HandoverInv'
<1>1. /\ seqnum \in Nat /\ seqnum' = seqnum /\ acks' = acks
      /\ requested' = FALSE /\ enabled' = FALSE
      /\ mounted' = (mounted \/ (requested /\ enabled))
      /\ queue' = IF requested THEN Broadcast(queue, Disconnected) ELSE queue
  BY Facts DEF ReleaseExclusiveStorage
<1>2. Past(queue', seqnum)
  <2>1. Disconnected \in ClientMsgs /\ Disconnected.data <= seqnum
    BY <1>1 DEF ClientMsgs, Disconnected, Msg
  <2> QED
    BY <1>1, <2>1, Facts, BroadcastPast
<1>3. TypeOK'
  <2>1. DiskTypes'
    BY <1>1 DEF HandoverInv, TypeOK, DiskTypes
  <2>2. ClientTypes'
    BY <1>2 DEF HandoverInv, TypeOK, ClientTypes, Past
  <2> QED
    BY <2>1, <2>2 DEF TypeOK, UsbQueueOK
<1>4. AcksPast' /\ ThreadPlaces'
  BY <1>1 DEF HandoverInv, AcksPast, UsbQueueOK, ThreadPlaces
<1>5. NumbersPast'
  BY <1>1, <1>2 DEF HandoverInv, NumbersPast, Past
<1>6. RequestsBounded'
  BY <1>1 DEF RequestsBounded, Requests
<1>7. NewsLast' /\ AllStopped' /\ AcksEnough'
  BY <1>1 DEF NewsLast, AllStopped, AcksEnough
<1> QED
  BY <1>3, <1>4, <1>5, <1>6, <1>7 DEF HandoverInv

LEMMA SetConfigKeeps ==
    ASSUME HandoverInv, NEW config \in Configs, NEW q,
           SetConfig(config, storageDriver', q),
           UsbQueueOK(q, seqnum), Requests(q) <= Requests(usbQueue),
           config = 1 => seqnum + 1 + Requests(q) <= MaxSeq,
           config # 0 => hostPresent' /\ usbState' = "inserted",
           usbConfig # 0 => storageDriver' = storageDriver,
           ConnTypes'
    PROVE  HandoverInv'
<1>1. usbConfig' = config /\ UNCHANGED <<pc, ackSeq, playing>>
  BY DEF SetConfig
<1>2. /\ seqnum \in Nat /\ MaxSeq \in Nat
      /\ Requests(q) \in Nat /\ Requests(usbQueue) \in Nat
      /\ seqnum + Requests(q) <= MaxSeq
  BY Facts, Counted
<1>3. /\ UsbQueueOK(usbQueue', seqnum)
      /\ Requests(usbQueue') \in Nat /\ Requests(usbQueue') <= Requests(q)
  <2>1. CASE usbConfig # 0
    <3>1. usbQueue' = WithoutCompletions(q)
      BY <2>1 DEF SetConfig
    <3>2. UsbQueueOK(WithoutCompletions(q), seqnum) /\ Requests(WithoutCompletions(q)) = 0
      BY Cleared
    <3>3. UsbQueueOK(usbQueue', seqnum) /\ Requests(usbQueue') = 0
      BY <3>1, <3>2
    <3> QED
      BY <1>2, <3>3
  <2>2. CASE usbConfig = 0
    <3>1. usbQueue' = q
      BY <2>2 DEF SetConfig
    <3> QED
      BY <1>2, <3>1
  <2> QED
    BY <2>1, <2>2
<1>4. ConfigKnown'
  BY <1>1 DEF ConfigKnown
<1>5. CASE config = 1 /\ storageDriver' /\ enabled
  <2>1. UNCHANGED <<diskVars, clientVars>>
    BY <1>1, <1>5 DEF SetConfig, SetConfigDisk, clientVars
  <2>2. RequestJustified'
    BY <1>1, <1>5, <2>1 DEF HandoverInv, RequestJustified, diskVars
  <2>3. TypeOK' /\ AcksPast'
    <3>1. DiskTypes' /\ ClientTypes'
      BY <2>1 DEF HandoverInv, TypeOK, DiskTypes, ClientTypes, diskVars, clientVars
    <3> QED
      BY <1>3, <2>1, <3>1 DEF TypeOK, AcksPast, UsbQueueOK, diskVars
  <2>4. ThreadPlaces' /\ NumbersPast' /\ NewsLast' /\ AllStopped'
    BY <2>1 DEF HandoverInv, ThreadPlaces, NumbersPast, NewsLast, AllStopped, Stopped,
                diskVars, clientVars
  <2>5. seqnum + Requests(usbQueue') <= MaxSeq
    BY <1>2, <1>3
  <2>6. RequestsBounded'
    BY <2>1, <2>5 DEF RequestsBounded, Requests, diskVars
  <2>7. AcksEnough'
    BY <1>5, <2>1 DEF AcksEnough, diskVars
  <2> QED
    BY <1>4, <2>2, <2>3, <2>4, <2>6, <2>7 DEF HandoverInv
<1>6. CASE config = 1 /\ storageDriver' /\ ~enabled
  <2>1. /\ RequestExclusiveStorage(IF requested THEN Broadcast(queue, Disconnected) ELSE queue)
        /\ UNCHANGED <<enabled, mounted>>
    BY <1>6 DEF SetConfig, SetConfigDisk
  <2>2. RequestJustified'
    BY <1>1, <1>6, <2>1 DEF HandoverInv, RequestJustified, RequestExclusiveStorage
  <2>3. seqnum + 1 + Requests(usbQueue') <= MaxSeq /\ seqnum + 1 <= MaxSeq
    BY <1>2, <1>3, <1>6
  <2> QED
    BY <1>1, <1>3, <1>4, <1>6, <2>1, <2>2, <2>3, RequestKeeps
<1>7. CASE ~(config = 1 /\ storageDriver')
  <2>1. ReleaseExclusiveStorage
    BY <1>7 DEF SetConfig, SetConfigDisk
  <2>2. RequestJustified'
    BY <1>1, <1>7, <2>1
    DEF HandoverInv, TypeOK, DiskTypes, RequestJustified, ReleaseExclusiveStorage
  <2>3. seqnum + Requests(usbQueue') <= MaxSeq
    BY <1>2, <1>3
  <2> QED
    BY <1>1, <1>3, <1>4, <2>1, <2>2, <2>3, ReleaseKeeps
<1> QED
  BY <1>5, <1>6, <1>7

-----------------------------------------------------------------------------
(* The usb thread                                                          *)

LEMMA TailFacts ==
    ASSUME HandoverInv, usbQueue # <<>>
    PROVE  /\ Head(usbQueue) \in UsbMsgs
           /\ UsbQueueOK(Tail(usbQueue), seqnum)
           /\ Requests(Tail(usbQueue)) <= Requests(usbQueue)
           /\ Head(usbQueue) = Msg("SET_CONFIGURATION", 1) =>
                seqnum + 1 + Requests(Tail(usbQueue)) <= MaxSeq
<1>1. /\ UsbQueueOK(usbQueue, seqnum) /\ seqnum + Requests(usbQueue) <= MaxSeq
      /\ seqnum \in Nat /\ MaxSeq \in Nat
  BY Facts
<1>2. Head(usbQueue) \in UsbMsgs /\ UsbQueueOK(Tail(usbQueue), seqnum)
  BY <1>1, Taken
<1>3. Requests(usbQueue) \in Nat /\ Requests(Tail(usbQueue)) \in Nat
  BY <1>1, <1>2, Counted
<1>4. Requests(usbQueue) = IF Head(usbQueue) = Msg("SET_CONFIGURATION", 1)
                           THEN Requests(Tail(usbQueue)) + 1 ELSE Requests(Tail(usbQueue))
  BY <1>1, Taken
<1> QED
  BY <1>1, <1>2, <1>3, <1>4

LEMMA HandleBusResetKeeps ==
    ASSUME HandoverInv, HandleBusReset
    PROVE  HandoverInv'
<1>1. usbQueue # <<>> /\ UNCHANGED <<detectVars, connVars>> /\ 0 \in Configs
  BY DEF HandleBusReset, Receive, Configs
<1>2. CASE StackInitialized
  <2>1. SetConfig(0, storageDriver, Tail(usbQueue)) /\ resetPending' = FALSE
    BY <1>2 DEF HandleBusReset
  <2>2. storageDriver' = storageDriver /\ usbConfig' = 0
    BY <1>1, <2>1 DEF connVars, SetConfig
  <2>3. ConnTypes'
    BY <1>1, <2>1, <2>2 DEF HandoverInv, TypeOK, ConnTypes, detectVars, connVars
  <2> QED
    BY <1>1, <2>1, <2>2, <2>3, TailFacts, SetConfigKeeps
<1>3. CASE ~StackInitialized
  <2>1. usbQueue' = Tail(usbQueue) /\ UNCHANGED <<coreVars, diskVars, clientVars>>
    BY <1>3 DEF HandleBusReset
  <2>2. ConnTypes' /\ ConfigKnown' /\ RequestJustified'
    BY <1>1, <2>1 DEF HandoverInv, TypeOK, ConnTypes, ConfigKnown, RequestJustified,
                      detectVars, connVars, coreVars, diskVars
  <2> QED
    BY <1>1, <2>1, <2>2, TakeKeeps
<1> QED
  BY <1>2, <1>3

LEMMA HandleCompletionKeeps ==
    ASSUME HandoverInv, HandleCompletion
    PROVE  HandoverInv'
<1> DEFINE m == Head(usbQueue)
<1>1. /\ usbQueue # <<>> /\ Completion(m) /\ m \in UsbMsgs
      /\ UNCHANGED <<detectVars, resetPending>>
  BY TailFacts DEF HandleCompletion
<1>2. CASE StackInitialized
  <2>1. HostSeen
    BY <1>2 DEF HandleCompletion
  <2>2. /\ usbState' = "inserted" /\ hostPresent' = TRUE /\ storageDriver' \in BOOLEAN
        /\ powerOnly' = powerOnly /\ (usbConfig # 0 => storageDriver' = storageDriver)
    BY <2>1 DEF HandoverInv, TypeOK, ConnTypes, ConfigKnown, HostSeen
  <2>3. CASE m.id = "SET_CONFIGURATION"
    <3>1. SetConfig(m.data, storageDriver', Tail(usbQueue))
      BY <1>2, <2>3 DEF HandleCompletion
    <3>2. \E c \in Configs : m = Msg("SET_CONFIGURATION", c)
      BY <1>1, <2>3 DEF UsbMsgs, Ack, Msg
    <3>3. m.data \in Configs /\ (m.data = 1 => m = Msg("SET_CONFIGURATION", 1))
      BY <3>2 DEF Msg
    <3>4. usbConfig' = m.data
      BY <3>1 DEF SetConfig
    <3>5. ConnTypes'
      BY <1>1, <2>2, <3>3, <3>4 DEF HandoverInv, TypeOK, ConnTypes, detectVars
    <3> QED
      BY <1>1, <2>2, <3>1, <3>3, <3>5, TailFacts, SetConfigKeeps
  <2>4. CASE m.id # "SET_CONFIGURATION"
    <3>1. usbQueue' = Tail(usbQueue) /\ UNCHANGED <<usbConfig, diskVars, clientVars>>
      BY <1>2, <2>4 DEF HandleCompletion
    <3>2. ConnTypes'
      BY <1>1, <2>2, <3>1 DEF HandoverInv, TypeOK, ConnTypes, detectVars
    <3>3. ConfigKnown'
      BY <2>2 DEF ConfigKnown
    <3>4. RequestJustified'
      BY <2>2, <3>1 DEF HandoverInv, RequestJustified, diskVars
    <3> QED
      BY <1>1, <3>1, <3>2, <3>3, <3>4, TakeKeeps
  <2> QED
    BY <2>3, <2>4
<1>3. CASE ~StackInitialized
  <2>1. usbQueue' = Tail(usbQueue) /\ UNCHANGED <<connVars, usbConfig, diskVars, clientVars>>
    BY <1>3 DEF HandleCompletion
  <2>2. ConnTypes' /\ ConfigKnown' /\ RequestJustified'
    BY <1>1, <2>1 DEF HandoverInv, TypeOK, ConnTypes, ConfigKnown, RequestJustified,
                      detectVars, connVars, diskVars
  <2> QED
    BY <1>1, <2>1, <2>2, TakeKeeps
<1> QED
  BY <1>2, <1>3

LEMMA HandleExtractedKeeps ==
    ASSUME HandoverInv, HandleExtracted
    PROVE  HandoverInv'
<1>1. /\ usbQueue # <<>> /\ 0 \in Configs
      /\ usbState' = "extracted"
      /\ hostPresent' = (hostPresent /\ usbState = "extracted")
      /\ UNCHANGED <<detectVars, powerOnly, storageDriver, resetPending>>
  BY DEF HandleExtracted, Receive, Configs
<1>2. CASE StackInitialized
  <2>1. SetConfig(0, storageDriver', Tail(usbQueue))
    BY <1>1, <1>2 DEF HandleExtracted
  <2>2. usbConfig' = 0
    BY <2>1 DEF SetConfig
  <2>3. ConnTypes'
    BY <1>1, <2>2 DEF HandoverInv, TypeOK, ConnTypes, detectVars, Configs
  <2> QED
    BY <1>1, <2>1, <2>3, TailFacts, SetConfigKeeps
<1>3. CASE ~StackInitialized
  <2>1. usbQueue' = Tail(usbQueue) /\ UNCHANGED <<usbConfig, diskVars, clientVars>>
    BY <1>3 DEF HandleExtracted
  <2>2. usbConfig = 0
    BY <1>3 DEF HandoverInv, ConfigKnown, StackInitialized
  <2>3. ConnTypes'
    BY <1>1, <2>1 DEF HandoverInv, TypeOK, ConnTypes, detectVars
  <2>4. ConfigKnown' /\ RequestJustified'
    BY <1>1, <2>1, <2>2 DEF HandoverInv, ConfigKnown, RequestJustified, diskVars
  <2> QED
    BY <1>1, <2>1, <2>3, <2>4, TakeKeeps
<1> QED
  BY <1>2, <1>3

LEMMA HandleAckKeeps ==
    ASSUME HandoverInv, HandleAck
    PROVE  HandoverInv'
<1>1. /\ usbQueue # <<>> /\ Head(usbQueue).id = "SYS_USB_CONNECTED_ACK"
      /\ usbQueue' = Tail(usbQueue)
      /\ UNCHANGED <<detectVars, connVars, coreVars, requested, seqnum, clientVars>>
  BY DEF HandleAck, Receive
<1>2. CASE ~(Head(usbQueue).data = seqnum /\ acks # 0)
  <2>1. UNCHANGED <<diskVars, clientVars>>
    BY <1>1, <1>2 DEF HandleAck, diskVars
  <2>2. ConnTypes' /\ ConfigKnown' /\ RequestJustified'
    BY <1>1, <2>1 DEF HandoverInv, TypeOK, ConnTypes, ConfigKnown, RequestJustified,
                      detectVars, connVars, coreVars, diskVars
  <2> QED
    BY <1>1, <2>1, <2>2, TakeKeeps
<1>3. CASE Head(usbQueue).data = seqnum /\ acks # 0
  <2> DEFINE given == acks' = 0 /\ hostPresent /\ requested
  <2>1. /\ acks' = acks - 1
        /\ given => enabled' = TRUE /\ mounted' = FALSE
        /\ ~given => enabled' = enabled /\ mounted' = mounted
    BY <1>3 DEF HandleAck
  <2>2. Head(usbQueue) = Ack(seqnum) /\ Head(usbQueue) # Msg("SET_CONFIGURATION", 1)
    <3>1. Head(usbQueue) \in UsbMsgs
      BY <1>1, TailFacts
    <3>2. \E n \in 1..MaxSeq : Head(usbQueue) = Ack(n)
      BY <1>1, <3>1 DEF UsbMsgs, Ack, Msg
    <3> QED
      BY <1>3, <3>2 DEF Ack, Msg
  <2>3. /\ UsbQueueOK(usbQueue', seqnum)
        /\ Acks(usbQueue, seqnum) = Acks(usbQueue', seqnum) + 1
        /\ Requests(usbQueue') = Requests(usbQueue)
    BY <1>1, <2>2, Facts, Taken
  <2>4. acks \in Nat \ {0} /\ acks <= Cardinality(Clients) /\ Cardinality(Clients) \in Nat
    BY <1>3, UsbAssumption, FS_CardinalityType DEF HandoverInv, TypeOK, DiskTypes
  <2>5. TypeOK' /\ AcksPast'
    <3>1. acks' \in 0..Cardinality(Clients)
      BY <2>1, <2>4
    <3>2. DiskTypes'
      BY <1>1, <2>1, <3>1 DEF HandoverInv, TypeOK, DiskTypes
    <3>3. ConnTypes' /\ ClientTypes'
      BY <1>1 DEF HandoverInv, TypeOK, ConnTypes, ClientTypes,
                  detectVars, connVars, coreVars, clientVars
    <3> QED
      BY <1>1, <2>3, <3>2, <3>3 DEF TypeOK, AcksPast, UsbQueueOK
  <2>6. RequestJustified' /\ ConfigKnown'
    <3>1. UNCHANGED <<usbConfig, storageDriver, hostPresent, usbState, requested>>
      BY <1>1 DEF connVars, coreVars
    <3>2. (enabled' => requested') /\ mounted' = ~enabled'
      <4>1. CASE given
        BY <2>1, <3>1, <4>1
      <4>2. CASE ~given
        BY <2>1, <3>1, <4>2 DEF HandoverInv, RequestJustified
      <4> QED
        BY <4>1, <4>2
    <3> QED
      BY <3>1, <3>2 DEF HandoverInv, RequestJustified, ConfigKnown
  <2>7. ThreadPlaces' /\ NumbersPast' /\ NewsLast'
    BY <1>1 DEF HandoverInv, ThreadPlaces, NumbersPast, NewsLast, clientVars
  <2>8. RequestsBounded'
    BY <1>1, <2>3, Facts DEF RequestsBounded, Requests
  <2>9. Unstopped' = Unstopped
    BY <1>1 DEF Unstopped, Stopped, clientVars
  <2>10. /\ requested /\ ~enabled => Cardinality(Unstopped) + Acks(usbQueue, seqnum) <= acks
         /\ Acks(usbQueue', seqnum) \in Nat /\ Cardinality(Unstopped) \in Nat
    <3>1. Acks(usbQueue', seqnum) \in Nat /\ Cardinality(Unstopped) \in Nat
      BY <2>3, Facts, Counted
    <3> QED
      BY <3>1 DEF HandoverInv, AcksEnough, AcksInFlight, Acks
  <2>11. AcksEnough'
    <3> SUFFICES ASSUME requested', ~enabled'
                 PROVE  (Cardinality(Unstopped) + Cardinality(AcksInFlight) <= acks)'
      BY DEF AcksEnough
    <3>1. requested /\ ~enabled
      BY <1>1, <2>1
    <3>2. Cardinality(AcksInFlight') = Acks(usbQueue', seqnum)
      BY <1>1 DEF AcksInFlight, Acks
    <3>3. Cardinality(Unstopped) + Acks(usbQueue', seqnum) <= acks - 1
      <4>1. \A a, b, d, e \in Nat : a + d <= e /\ d = b + 1 => a + b <= e - 1
        OBVIOUS
      <4>2. Acks(usbQueue, seqnum) \in Nat
        BY Facts, Counted
      <4> QED
        BY <2>3, <2>4, <2>10, <3>1, <4>1, <4>2
    <3> QED
      BY <2>1, <2>9, <3>2, <3>3
  <2>12. AllStopped'
    <3> SUFFICES ASSUME enabled', NEW c \in Stoppers
                 PROVE  Stopped(c)'
      BY DEF AllStopped
    <3>1. Stopped(c)' <=> Stopped(c)
      BY <1>1 DEF Stopped, clientVars
    <3>2. CASE enabled
      BY <3>1, <3>2 DEF HandoverInv, AllStopped
    <3>3. CASE ~enabled
      <4>1. acks = 1 /\ requested
        <5>1. given
          BY <2>1, <3>3
        <5> QED
          BY <2>1, <2>4, <5>1
      <4>2. Cardinality(Unstopped) = 0
        <5>1. Cardinality(Unstopped) + Acks(usbQueue, seqnum) <= 1
          BY <2>10, <3>3, <4>1
        <5>2. \A a, b, d \in Nat : a + d <= 1 /\ d = b + 1 => a = 0
          OBVIOUS
        <5>3. Acks(usbQueue, seqnum) \in Nat
          BY Facts, Counted
        <5> QED
          BY <2>3, <2>10, <5>1, <5>2, <5>3
      <4>3. Unstopped = {}
        BY <4>2, Facts, FS_EmptySet
      <4>4. Stopped(c)
        BY <4>3 DEF Unstopped
      <4> QED
        BY <3>1, <4>4
    <3> QED
      BY <3>2, <3>3
  <2> QED
    BY <2>5, <2>6, <2>7, <2>8, <2>11, <2>12 DEF HandoverInv
<1> QED
  BY <1>2, <1>3

-----------------------------------------------------------------------------
(* The threads                                                             *)

(* The acks of the current request that are under way or can still come;   *)
(* no step of a thread changes how many they are.                          *)
Coming == Cardinality(Unstopped) + Acks(usbQueue, seqnum)
SameComing == requested /\ ~enabled => Coming' = Coming

LEMMA ClientKeeps ==
    ASSUME HandoverInv, UNCHANGED othersUnchanged,
           UsbQueueOK(usbQueue', seqnum), Requests(usbQueue') = Requests(usbQueue),
           ClientTypes', ThreadPlaces', NumbersPast', NewsLast', AllStopped',
           requested /\ ~enabled =>
             Cardinality(Unstopped') + Acks(usbQueue', seqnum)
               = Cardinality(Unstopped) + Acks(usbQueue, seqnum)
    PROVE  HandoverInv' /\ SameComing
<1>1. UNCHANGED <<detectVars, connVars, coreVars, diskVars>>
  BY DEF othersUnchanged
<1>2. TypeOK' /\ AcksPast'
  <2>1. ConnTypes' /\ DiskTypes'
    BY <1>1 DEF HandoverInv, TypeOK, ConnTypes, DiskTypes, detectVars, connVars, coreVars, diskVars
  <2> QED
    BY <1>1, <2>1 DEF TypeOK, AcksPast, UsbQueueOK, diskVars
<1>3. RequestJustified' /\ ConfigKnown'
  BY <1>1 DEF HandoverInv, RequestJustified, ConfigKnown, connVars, coreVars, diskVars
<1>4. RequestsBounded'
  BY <1>1 DEF HandoverInv, RequestsBounded, Requests, diskVars
<1>5. AcksEnough'
  BY <1>1 DEF HandoverInv, AcksEnough, AcksInFlight, Acks, diskVars
<1>6. SameComing
  BY <1>1 DEF SameComing, Coming, diskVars
<1> QED
  BY <1>2, <1>3, <1>4, <1>5, <1>6 DEF HandoverInv

LEMMA Popped ==
    ASSUME HandoverInv, NEW c \in Clients, queue[c] # <<>>, Pop(c)
    PROVE  /\ Past(queue', seqnum)
           /\ queue'[c] = Tail(queue[c])
           /\ \A d \in Clients \ {c} : queue'[d] = queue[d]
           /\ Head(queue[c]) \in ClientMsgs /\ Head(queue[c]).data <= seqnum
           /\ requested /\ c \in Stoppers \cup Ackers =>
                /\ News(queue'[c], seqnum)
                /\ Head(queue[c]) = Connected(seqnum) <=> queue'[c] = <<>>
<1>1. /\ queue \in [Clients -> Seq(ClientMsgs)] /\ queue[c] \in Seq(ClientMsgs)
      /\ \A d \in Clients : \A i \in DOMAIN queue[d] : queue[d][i].data <= seqnum
  BY Facts DEF Past
<1>2. queue'[c] = Tail(queue[c]) /\ \A d \in Clients \ {c} : queue'[d] = queue[d]
  BY <1>1 DEF Pop
<1>3. queue' \in [Clients -> Seq(ClientMsgs)]
  <2>1. Tail(queue[c]) \in Seq(ClientMsgs)
    BY <1>1
  <2> QED
    BY <1>1, <2>1 DEF Pop
<1>4. \A i \in DOMAIN queue'[c] : queue'[c][i].data <= seqnum
  <2>1. \A i \in DOMAIN Tail(queue[c]) : i + 1 \in DOMAIN queue[c]
                                         /\ Tail(queue[c])[i] = queue[c][i + 1]
    BY <1>1
  <2> QED
    BY <1>1, <1>2, <2>1
<1>5. Past(queue', seqnum)
  BY <1>1, <1>2, <1>3, <1>4 DEF Past
<1>6. Head(queue[c]) \in ClientMsgs /\ Head(queue[c]).data <= seqnum
  <2>1. 1 \in DOMAIN queue[c] /\ Head(queue[c]) = queue[c][1] /\ Head(queue[c]) \in ClientMsgs
    BY <1>1
  <2> QED
    BY <1>1, <2>1
<1>7. ASSUME requested, c \in Stoppers \cup Ackers
      PROVE  /\ News(queue'[c], seqnum)
             /\ Head(queue[c]) = Connected(seqnum) <=> queue'[c] = <<>>
  BY <1>1, <1>2, <1>7, Facts, NewsIsLast
<1> QED
  BY <1>2, <1>5, <1>6, <1>7

(* When a request is made, who still has it is who has anything.           *)
LEMMA UnstoppedNow ==
    ASSUME HandoverInv, requested
    PROVE  Unstopped = {c \in Stoppers : ~Stopped(c)} \cup {c \in Ackers : queue[c] # <<>>}
<1>1. ASSUME NEW c \in Ackers
      PROVE  Contains(queue[c], Connected(seqnum)) <=> queue[c] # <<>>
  <2>1. queue[c] \in Seq(ClientMsgs)
    BY Facts DEF Past, Clients
  <2> QED
    BY <2>1, Facts, NewsIsLast
<1> QED
  BY <1>1 DEF Unstopped

LEMMA UnstoppedNext ==
    ASSUME UNCHANGED diskVars, requested, Past(queue', seqnum),
           \A c \in Ackers : News(queue'[c], seqnum)
    PROVE  Unstopped' = {c \in Stoppers : ~Stopped(c)'} \cup {c \in Ackers : queue'[c] # <<>>}
<1>1. ASSUME NEW c \in Ackers
      PROVE  Contains(queue'[c], Connected(seqnum)) <=> queue'[c] # <<>>
  <2>1. queue'[c] \in Seq(ClientMsgs)
    BY DEF Past, Clients
  <2> QED
    BY <2>1, NewsIsLast
<1>2. seqnum' = seqnum
  BY DEF diskVars
<1> QED
  BY <1>1, <1>2 DEF Unstopped

LEMMA SameUnstopped ==
    ASSUME UNCHANGED othersUnchanged,
           \A x \in Stoppers : Stopped(x)' <=> Stopped(x),
           \A x \in Ackers : queue'[x] = queue[x]
    PROVE  Unstopped' = Unstopped
BY DEF othersUnchanged, diskVars, Unstopped

LEMMA WhoHasTheDisk ==
    ASSUME HandoverInv
    PROVE  enabled => /\ requested /\ ~mounted
                      /\ \A c \in Stoppers : Stopped(c) /\ queue[c] = <<>>
BY Facts DEF HandoverInv, RequestJustified, AllStopped, Stopped

LEMMA Acked ==
    ASSUME HandoverInv, NEW n \in 1..MaxSeq, n <= seqnum, AcknowledgeWith(n)
    PROVE  /\ UsbQueueOK(usbQueue', seqnum) /\ Requests(usbQueue') = Requests(usbQueue)
           /\ Acks(usbQueue', seqnum) =
                IF n = seqnum THEN Acks(usbQueue, seqnum) + 1 ELSE Acks(usbQueue, seqnum)
<1>1. Ack(n) \in UsbMsgs /\ Ack(n) # Msg("SET_CONFIGURATION", 1) /\ Ack(n).data = n
  BY DEF UsbMsgs, Ack, Msg
<1>2. Ack(n) = Ack(seqnum) <=> n = seqnum
  BY DEF Ack, Msg
<1> QED
  BY <1>1, <1>2, Facts, Posted DEF AcknowledgeWith

LEMMA TakeConnectedKeeps ==
    ASSUME HandoverInv, NEW c \in Clients, TakeConnected(c)
    PROVE  HandoverInv' /\ SameComing
<1> DEFINE n == Head(queue[c]).data
<1>1. /\ pc[c] = "working" /\ c \in Stoppers /\ queue[c] # <<>> /\ Pop(c)
      /\ Head(queue[c]).id = "SYS_USB_CONNECTED"
      /\ pc' = [pc EXCEPT ![c] = "stopping"] /\ ackSeq' = [ackSeq EXCEPT ![c] = n]
      /\ UNCHANGED othersUnchanged /\ UNCHANGED <<usbQueue, playing>>
  BY DEF TakeConnected, HeadIs
<1>2. Head(queue[c]) = Connected(n) /\ n \in 1..MaxSeq /\ n <= seqnum
  BY <1>1, Popped DEF ClientMsgs, Connected, Disconnected, Msg
<1>3. /\ pc \in [Clients -> {"working", "stopping", "waiting", "absent"}]
      /\ ackSeq \in [Clients -> 0..MaxSeq]
  BY DEF HandoverInv, TypeOK, ClientTypes
<1>4. UNCHANGED diskVars
  BY <1>1 DEF othersUnchanged
<1>5. ClientTypes'
  BY <1>1, <1>2, <1>3, Popped DEF HandoverInv, TypeOK, ClientTypes, Past
<1>6. ThreadPlaces'
  BY <1>1, <1>3, UsbAssumption DEF HandoverInv, ThreadPlaces, Clients
<1>7. NumbersPast'
  BY <1>1, <1>2, <1>3, <1>4, Popped DEF HandoverInv, NumbersPast, Past, diskVars
<1>8. NewsLast'
  <2> SUFFICES ASSUME requested, NEW d \in Stoppers \cup Ackers
               PROVE  /\ News(queue'[d], seqnum)
                      /\ pc'[d] # "working" /\ ackSeq'[d] = seqnum => queue'[d] = <<>>
    BY <1>4 DEF NewsLast, News, diskVars
  <2>1. CASE d = c
    BY <1>1, <1>2, <1>3, <2>1, Popped
  <2>2. CASE d # c
    BY <1>1, <1>3, <2>2, Popped, Facts DEF Clients
  <2> QED
    BY <2>1, <2>2
<1>9. ~enabled
  BY <1>1, WhoHasTheDisk DEF Stopped
<1>10. AllStopped'
  BY <1>4, <1>9 DEF AllStopped, diskVars
<1>11. Unstopped' = Unstopped
  <2>1. \A x \in Stoppers : Stopped(x)' <=> Stopped(x)
    BY <1>1, <1>3, <1>4 DEF Stopped, Clients, diskVars
  <2>2. \A x \in Ackers : queue'[x] = queue[x]
    BY <1>1, Popped, UsbAssumption DEF Clients
  <2> QED
    BY <1>1, <2>1, <2>2, SameUnstopped
<1>12. usbQueue' = usbQueue
  BY <1>1
<1> QED
  BY <1>1, <1>5, <1>6, <1>7, <1>8, <1>10, <1>11, <1>12, Facts, ClientKeeps

LEMMA StopPlaybackKeeps ==
    ASSUME HandoverInv, NEW c \in Clients, StopPlayback(c)
    PROVE  HandoverInv' /\ SameComing
<1>1. /\ pc[c] = "stopping" /\ c \in playing /\ playing' \subseteq playing
      /\ queue' = [queue EXCEPT ![c] = <<>>]
      /\ UNCHANGED othersUnchanged /\ UNCHANGED <<usbQueue, pc, ackSeq>>
  BY DEF StopPlayback
<1>2. c \in Stoppers
  BY <1>1, UsbAssumption DEF HandoverInv, TypeOK, ClientTypes
<1>3. /\ queue \in [Clients -> Seq(ClientMsgs)] /\ UNCHANGED diskVars
      /\ queue'[c] = <<>> /\ \A d \in Clients \ {c} : queue'[d] = queue[d]
  BY <1>1 DEF HandoverInv, TypeOK, ClientTypes, othersUnchanged
<1>4. ClientTypes'
  <2>1. queue' \in [Clients -> Seq(ClientMsgs)]
    BY <1>1, <1>3
  <2> QED
    BY <1>1, <2>1 DEF HandoverInv, TypeOK, ClientTypes
<1>5. ThreadPlaces'
  BY <1>1 DEF HandoverInv, ThreadPlaces
<1>6. NumbersPast'
  BY <1>1, <1>3 DEF HandoverInv, NumbersPast, diskVars
<1>7. NewsLast'
  <2> SUFFICES ASSUME requested, NEW d \in Stoppers \cup Ackers
               PROVE  /\ News(queue'[d], seqnum)
                      /\ pc[d] # "working" /\ ackSeq[d] = seqnum => queue'[d] = <<>>
    BY <1>1, <1>3 DEF NewsLast, News, diskVars
  <2>1. CASE d = c
    BY <1>3, <2>1 DEF News
  <2>2. CASE d # c
    BY <1>3, <2>2, Facts DEF Clients
  <2> QED
    BY <2>1, <2>2
<1>8. AllStopped'
  BY <1>1, <1>3 DEF HandoverInv, AllStopped, Stopped, diskVars
<1>9. Unstopped' = Unstopped
  <2>1. \A x \in Stoppers : Stopped(x)' <=> Stopped(x)
    BY <1>1, <1>3 DEF Stopped, diskVars
  <2>2. \A x \in Ackers : queue'[x] = queue[x]
    BY <1>2, <1>3, UsbAssumption DEF Clients
  <2> QED
    BY <1>1, <2>1, <2>2, SameUnstopped
<1>10. usbQueue' = usbQueue
  BY <1>1
<1> QED
  BY <1>1, <1>4, <1>5, <1>6, <1>7, <1>8, <1>9, <1>10, Facts, ClientKeeps

(* With its ack in the queue a thread is no longer among the unstopped, if *)
(* it acknowledged the current request; the sum is the same.               *)
LEMMA AcknowledgeKeeps ==
    ASSUME HandoverInv, NEW c \in Clients, Acknowledge(c)
    PROVE  HandoverInv' /\ SameComing
<1>1. /\ pc[c] = "stopping" /\ (c = Gui => Plugins \cap Registered = {})
      /\ AcknowledgeWith(ackSeq[c]) /\ pc' = [pc EXCEPT ![c] = "waiting"]
      /\ UNCHANGED othersUnchanged /\ UNCHANGED <<queue, ackSeq, playing>>
  BY DEF Acknowledge
<1>2. /\ pc \in [Clients -> {"working", "stopping", "waiting", "absent"}]
      /\ ackSeq \in [Clients -> 0..MaxSeq] /\ UNCHANGED diskVars
  BY <1>1 DEF HandoverInv, TypeOK, ClientTypes, othersUnchanged
<1>3. c \in Stoppers /\ c \notin Ackers
  BY <1>1, UsbAssumption DEF HandoverInv, ThreadPlaces, Clients
<1>4. ackSeq[c] \in 1..MaxSeq /\ ackSeq[c] <= seqnum
  BY <1>1, <1>2, UsbAssumption DEF HandoverInv, NumbersPast
<1>5. /\ UsbQueueOK(usbQueue', seqnum) /\ Requests(usbQueue') = Requests(usbQueue)
      /\ Acks(usbQueue', seqnum) =
           IF ackSeq[c] = seqnum THEN Acks(usbQueue, seqnum) + 1 ELSE Acks(usbQueue, seqnum)
  BY <1>1, <1>4, Acked
<1>6. ClientTypes'
  BY <1>1, <1>2 DEF HandoverInv, TypeOK, ClientTypes
<1>7. ThreadPlaces'
  BY <1>1, <1>2, <1>3, UsbAssumption DEF HandoverInv, ThreadPlaces, Clients, Registered
<1>8. NumbersPast'
  BY <1>1, <1>2 DEF HandoverInv, NumbersPast, diskVars
<1>9. NewsLast'
  <2> SUFFICES ASSUME requested, NEW d \in Stoppers \cup Ackers
               PROVE  /\ News(queue[d], seqnum)
                      /\ pc'[d] # "working" /\ ackSeq[d] = seqnum => queue[d] = <<>>
    BY <1>1, <1>2 DEF NewsLast, News, diskVars
  <2>1. pc'[d] # "working" => pc[d] # "working"
    BY <1>1, <1>2 DEF Clients
  <2> QED
    BY <2>1, Facts
<1>10. ~enabled
  BY <1>1, <1>3, WhoHasTheDisk DEF Stopped
<1>11. AllStopped'
  BY <1>2, <1>10 DEF AllStopped, diskVars
<1>12. Cardinality(Unstopped') + Acks(usbQueue', seqnum)
         = Cardinality(Unstopped) + Acks(usbQueue, seqnum)
  <2>1. ~Stopped(c) /\ (Stopped(c)' <=> ackSeq[c] = seqnum)
    BY <1>1, <1>2 DEF Stopped, diskVars
  <2>2. \A x \in Stoppers \ {c} : Stopped(x)' <=> Stopped(x)
    BY <1>1, <1>2 DEF Stopped, Clients, diskVars
  <2>3. CASE ackSeq[c] = seqnum
    <3>1. Unstopped' = Unstopped \ {c} /\ c \in Unstopped
      BY <1>1, <1>2, <1>3, <2>1, <2>2, <2>3 DEF Unstopped, diskVars
    <3>2. Cardinality(Unstopped') = Cardinality(Unstopped) - 1
      BY <3>1, Facts, FS_RemoveElement
    <3>3. Cardinality(Unstopped) \in Nat /\ Acks(usbQueue, seqnum) \in Nat
      BY Facts, Counted
    <3> QED
      BY <1>5, <2>3, <3>2, <3>3
  <2>4. CASE ackSeq[c] # seqnum
    <3>1. \A x \in Stoppers : Stopped(x)' <=> Stopped(x)
      BY <2>1, <2>2, <2>4
    <3>2. Unstopped' = Unstopped
      BY <1>1, <3>1, SameUnstopped
    <3> QED
      BY <1>5, <2>4, <3>2
  <2> QED
    BY <2>3, <2>4
<1> QED
  BY <1>1, <1>5, <1>6, <1>7, <1>8, <1>9, <1>11, <1>12, ClientKeeps

LEMMA ResumeKeeps ==
    ASSUME HandoverInv, NEW c \in Clients, Resume(c)
    PROVE  HandoverInv' /\ SameComing
<1>1. /\ pc[c] = "waiting" /\ queue[c] # <<>> /\ Pop(c)
      /\ Head(queue[c]).id = "SYS_USB_DISCONNECTED"
      /\ pc' = [pc EXCEPT ![c] = "working"]
      /\ UNCHANGED othersUnchanged /\ UNCHANGED <<usbQueue, ackSeq, playing>>
  BY DEF Resume, HeadIs
<1>2. /\ pc \in [Clients -> {"working", "stopping", "waiting", "absent"}]
      /\ UNCHANGED diskVars
  BY <1>1 DEF HandoverInv, TypeOK, ClientTypes, othersUnchanged
<1>3. c \in Stoppers /\ c \notin Ackers
  BY <1>1, UsbAssumption DEF HandoverInv, ThreadPlaces, Clients
<1>4. ClientTypes'
  BY <1>1, <1>2, Popped DEF HandoverInv, TypeOK, ClientTypes, Past
<1>5. ThreadPlaces'
  BY <1>1, <1>2, <1>3, UsbAssumption DEF HandoverInv, ThreadPlaces, Clients
<1>6. NumbersPast'
  BY <1>1, <1>2, Popped DEF HandoverInv, NumbersPast, Past, diskVars
<1>7. NewsLast'
  <2> SUFFICES ASSUME requested, NEW d \in Stoppers \cup Ackers
               PROVE  /\ News(queue'[d], seqnum)
                      /\ pc'[d] # "working" /\ ackSeq[d] = seqnum => queue'[d] = <<>>
    BY <1>1, <1>2 DEF NewsLast, News, diskVars
  <2>1. CASE d = c
    BY <1>1, <1>2, <2>1, Popped
  <2>2. CASE d # c
    BY <1>1, <1>2, <2>2, Popped, Facts DEF Clients
  <2> QED
    BY <2>1, <2>2
<1>8. ~enabled
  BY <1>1, <1>3, WhoHasTheDisk
<1>9. AllStopped'
  BY <1>2, <1>8 DEF AllStopped, diskVars
<1>10. requested => Unstopped' = Unstopped
  <2> SUFFICES ASSUME requested
               PROVE  Unstopped' = Unstopped
    OBVIOUS
  <2>1. ~Stopped(c)
    BY <1>1, <1>3, Facts DEF Stopped
  <2>2. \A x \in Stoppers : Stopped(x)' <=> Stopped(x)
    BY <1>1, <1>2, <2>1 DEF Stopped, Clients, diskVars
  <2>3. \A x \in Ackers : queue'[x] = queue[x]
    BY <1>1, <1>3, Popped DEF Clients
  <2> QED
    BY <1>1, <2>2, <2>3, SameUnstopped
<1>11. usbQueue' = usbQueue
  BY <1>1
<1> QED
  BY <1>1, <1>4, <1>5, <1>6, <1>7, <1>9, <1>10, <1>11, Facts, ClientKeeps

(* The other threads acknowledge as they take the request, which is the    *)
(* last message they have if it is the current one.                        *)
LEMMA AckAndGoOnKeeps ==
    ASSUME HandoverInv, NEW c \in Clients, AckAndGoOn(c)
    PROVE  HandoverInv' /\ SameComing
<1> DEFINE n == Head(queue[c]).data
<1>1. /\ c \in Ackers /\ queue[c] # <<>> /\ Pop(c) /\ AcknowledgeWith(n)
      /\ Head(queue[c]).id = "SYS_USB_CONNECTED"
      /\ UNCHANGED othersUnchanged /\ UNCHANGED <<pc, ackSeq, playing>>
  BY DEF AckAndGoOn, HeadIs
<1>2. Head(queue[c]) = Connected(n) /\ n \in 1..MaxSeq /\ n <= seqnum
  BY <1>1, Popped DEF ClientMsgs, Connected, Disconnected, Msg
<1>3. UNCHANGED diskVars
  BY <1>1 DEF othersUnchanged
<1>4. /\ UsbQueueOK(usbQueue', seqnum) /\ Requests(usbQueue') = Requests(usbQueue)
      /\ Acks(usbQueue', seqnum) =
           IF n = seqnum THEN Acks(usbQueue, seqnum) + 1 ELSE Acks(usbQueue, seqnum)
  BY <1>1, <1>2, Acked
<1>5. ClientTypes'
  BY <1>1, Popped DEF HandoverInv, TypeOK, ClientTypes, Past
<1>6. ThreadPlaces' /\ AllStopped'
  BY <1>1, <1>3 DEF HandoverInv, ThreadPlaces, AllStopped, Stopped, diskVars
<1>7. NumbersPast'
  BY <1>1, <1>3, Popped DEF HandoverInv, NumbersPast, Past, diskVars
<1>8. pc[c] = "working"
  BY <1>1 DEF HandoverInv, ThreadPlaces
<1>9. ASSUME requested, NEW d \in Stoppers \cup Ackers
      PROVE  /\ News(queue'[d], seqnum)
             /\ pc[d] # "working" /\ ackSeq[d] = seqnum => queue'[d] = <<>>
  <2>1. CASE d = c
    BY <1>1, <1>8, <1>9, <2>1, Popped
  <2>2. CASE d # c
    BY <1>1, <1>9, <2>2, Popped, Facts DEF Clients
  <2> QED
    BY <2>1, <2>2
<1>10. NewsLast'
  BY <1>1, <1>3, <1>9 DEF NewsLast, News, diskVars
<1>11. ASSUME requested
       PROVE  Cardinality(Unstopped') + Acks(usbQueue', seqnum)
                = Cardinality(Unstopped) + Acks(usbQueue, seqnum)
  <2>1. Unstopped = {x \in Stoppers : ~Stopped(x)} \cup {x \in Ackers : queue[x] # <<>>}
    BY <1>11, UnstoppedNow
  <2>2. Unstopped' = {x \in Stoppers : ~Stopped(x)'} \cup {x \in Ackers : queue'[x] # <<>>}
    <3>1. Past(queue', seqnum)
      BY <1>1, Popped
    <3> QED
      BY <1>3, <1>9, <1>11, <3>1, UnstoppedNext
  <2>3. \A x \in Stoppers : Stopped(x)' <=> Stopped(x)
    BY <1>1, <1>3 DEF Stopped, diskVars
  <2>4. \A x \in Ackers \ {c} : queue'[x] = queue[x]
    BY <1>1, Popped DEF Clients
  <2>5. n = seqnum <=> queue'[c] = <<>>
    <3>1. Head(queue[c]) = Connected(seqnum) <=> n = seqnum
      BY <1>2 DEF Connected, Msg
    <3> QED
      BY <1>1, <1>11, <3>1, Popped
  <2>6. c \in Unstopped /\ c \notin Stoppers
    BY <1>1, <2>1, UsbAssumption
  <2>7. CASE n = seqnum
    <3>1. Unstopped' = Unstopped \ {c}
      BY <2>1, <2>2, <2>3, <2>4, <2>5, <2>6, <2>7
    <3>2. Cardinality(Unstopped') = Cardinality(Unstopped) - 1
      BY <2>6, <3>1, Facts, FS_RemoveElement
    <3>3. Cardinality(Unstopped) \in Nat /\ Acks(usbQueue, seqnum) \in Nat
      BY Facts, Counted
    <3> QED
      BY <1>4, <2>7, <3>2, <3>3
  <2>8. CASE n # seqnum
    <3>1. Unstopped' = Unstopped
      BY <1>1, <2>1, <2>2, <2>3, <2>4, <2>5, <2>8
    <3> QED
      BY <1>4, <2>8, <3>1
  <2> QED
    BY <2>7, <2>8
<1> QED
  BY <1>1, <1>4, <1>5, <1>6, <1>7, <1>10, <1>11, ClientKeeps

LEMMA IgnoreKeeps ==
    ASSUME HandoverInv, NEW c \in Clients, Ignore(c)
    PROVE  HandoverInv' /\ SameComing
<1>1. /\ queue[c] # <<>> /\ Pop(c)
      /\ UNCHANGED othersUnchanged /\ UNCHANGED <<usbQueue, pc, ackSeq, playing>>
  BY DEF Ignore, HeadIs
<1>2. UNCHANGED diskVars /\ usbQueue' = usbQueue
  BY <1>1 DEF othersUnchanged
<1>3. \/ c \in Plugins
      \/ pc[c] = "working" /\ Head(queue[c]).id = "SYS_USB_DISCONNECTED"
      \/ pc[c] = "waiting"
  BY DEF Ignore, HeadIs
<1>4. ClientTypes'
  BY <1>1, Popped DEF HandoverInv, TypeOK, ClientTypes, Past
<1>5. ThreadPlaces' /\ AllStopped'
  BY <1>1, <1>2 DEF HandoverInv, ThreadPlaces, AllStopped, Stopped, diskVars
<1>6. NumbersPast'
  BY <1>1, <1>2, Popped DEF HandoverInv, NumbersPast, Past, diskVars
<1>7. ASSUME requested, NEW d \in Stoppers \cup Ackers
      PROVE  /\ News(queue'[d], seqnum)
             /\ pc[d] # "working" /\ ackSeq[d] = seqnum => queue'[d] = <<>>
  <2>1. CASE d = c
    <3>1. pc[c] # "working" => ackSeq[c] # seqnum
      BY <1>1, <1>7, <2>1, Facts
    <3> QED
      BY <1>1, <1>7, <2>1, <3>1, Popped
  <2>2. CASE d # c
    BY <1>1, <1>7, <2>2, Popped, Facts DEF Clients
  <2> QED
    BY <2>1, <2>2
<1>8. NewsLast'
  BY <1>1, <1>2, <1>7 DEF NewsLast, News, diskVars
<1>9. ASSUME requested
      PROVE  Unstopped' = Unstopped
  <2>1. Unstopped = {x \in Stoppers : ~Stopped(x)} \cup {x \in Ackers : queue[x] # <<>>}
    BY <1>9, UnstoppedNow
  <2>2. Unstopped' = {x \in Stoppers : ~Stopped(x)'} \cup {x \in Ackers : queue'[x] # <<>>}
    <3>1. Past(queue', seqnum)
      BY <1>1, Popped
    <3> QED
      BY <1>2, <1>7, <1>9, <3>1, UnstoppedNext
  <2>3. \A x \in Stoppers : Stopped(x)' <=> Stopped(x)
    BY <1>1, <1>2 DEF Stopped, diskVars
  <2>4. \A x \in Ackers \ {c} : queue'[x] = queue[x]
    BY <1>1, Popped DEF Clients
  <2>5. c \in Ackers => queue'[c] # <<>>
    <3> SUFFICES ASSUME c \in Ackers
                 PROVE  queue'[c] # <<>>
      OBVIOUS
    <3>1. Head(queue[c]).id = "SYS_USB_DISCONNECTED"
      BY <1>3, UsbAssumption DEF HandoverInv, ThreadPlaces
    <3>2. Head(queue[c]) # Connected(seqnum)
      BY <3>1 DEF Connected, Msg
    <3> QED
      BY <1>1, <1>9, <3>2, Popped
  <2> QED
    BY <1>1, <2>1, <2>2, <2>3, <2>4, <2>5
<1> QED
  BY <1>1, <1>2, <1>4, <1>5, <1>6, <1>8, <1>9, Facts, ClientKeeps

LEMMA StartPlaybackKeeps ==
    ASSUME HandoverInv, NEW c \in Clients, StartPlayback(c)
    PROVE  HandoverInv' /\ SameComing
<1>1. /\ playing' = playing \cup {c} /\ c \in Players
      /\ UNCHANGED othersUnchanged /\ UNCHANGED <<usbQueue, queue, pc, ackSeq>>
  BY DEF StartPlayback
<1>2. UNCHANGED diskVars /\ usbQueue' = usbQueue
  BY <1>1 DEF othersUnchanged
<1>3. ClientTypes'
  BY <1>1 DEF HandoverInv, TypeOK, ClientTypes
<1>4. ThreadPlaces' /\ AllStopped' /\ NumbersPast' /\ NewsLast'
  BY <1>1, <1>2 DEF HandoverInv, ThreadPlaces, AllStopped, NumbersPast, NewsLast, Stopped, diskVars
<1>5. Unstopped' = Unstopped
  BY <1>1, <1>2 DEF Unstopped, Stopped, diskVars
<1> QED
  BY <1>1, <1>2, <1>3, <1>4, <1>5, Facts, ClientKeeps

LEMMA PluginKeeps ==
    ASSUME HandoverInv, NEW c \in Clients, StartPlugin(c) \/ EndPlugin(c)
    PROVE  HandoverInv' /\ SameComing
<1>1. /\ c \in Plugins /\ pc[Gui] # "waiting"
      /\ \/ pc' = [pc EXCEPT ![c] = "working"] /\ queue' = queue
         \/ pc' = [pc EXCEPT ![c] = "absent"] /\ queue' = [queue EXCEPT ![c] = <<>>]
      /\ UNCHANGED othersUnchanged /\ UNCHANGED <<usbQueue, ackSeq, playing>>
  BY DEF StartPlugin, EndPlugin
<1>2. /\ pc \in [Clients -> {"working", "stopping", "waiting", "absent"}]
      /\ queue \in [Clients -> Seq(ClientMsgs)]
      /\ UNCHANGED diskVars /\ usbQueue' = usbQueue
  BY <1>1 DEF HandoverInv, TypeOK, ClientTypes, othersUnchanged
<1>3. c \notin Stoppers \cup Ackers
  BY <1>1, UsbAssumption
<1>4. \A d \in Clients \ {c} : pc'[d] = pc[d] /\ queue'[d] = queue[d]
  BY <1>1, <1>2
<1>5. ClientTypes'
  <2>1. queue' \in [Clients -> Seq(ClientMsgs)]
    <3>1. <<>> \in Seq(ClientMsgs)
      OBVIOUS
    <3>2. [queue EXCEPT ![c] = <<>>] \in [Clients -> Seq(ClientMsgs)]
      BY <1>2, <3>1
    <3> QED
      BY <1>1, <1>2, <3>2
  <2>2. pc' \in [Clients -> {"working", "stopping", "waiting", "absent"}]
    BY <1>1, <1>2
  <2> QED
    BY <1>1, <2>1, <2>2 DEF HandoverInv, TypeOK, ClientTypes
<1>6. ThreadPlaces'
  <2>1. Gui \in Clients \ {c}
    BY <1>3, UsbAssumption DEF Clients
  <2>2. pc'[c] \in {"working", "absent"}
    BY <1>1, <1>2
  <2> QED
    BY <1>1, <1>3, <1>4, <2>1, <2>2 DEF HandoverInv, ThreadPlaces, Clients
<1>7. NumbersPast'
  <2>1. pc'[c] # "stopping"
    BY <1>1, <1>2
  <2>2. queue'[c] = queue[c] \/ queue'[c] = <<>>
    BY <1>1, <1>2
  <2> QED
    BY <1>1, <1>2, <1>4, <2>1, <2>2 DEF HandoverInv, NumbersPast, diskVars
<1>8. NewsLast' /\ AllStopped'
  BY <1>1, <1>2, <1>3, <1>4
  DEF HandoverInv, NewsLast, AllStopped, Stopped, Clients, diskVars
<1>9. Unstopped' = Unstopped
  BY <1>1, <1>2, <1>3, <1>4 DEF Unstopped, Stopped, Clients, diskVars
<1> QED
  BY <1>1, <1>2, <1>5, <1>6, <1>7, <1>8, <1>9, Facts, ClientKeeps

-----------------------------------------------------------------------------
(* Theorems                                                                *)

LEMMA InitHolds == Init => HandoverInv
<1> SUFFICES ASSUME Init
             PROVE  HandoverInv
  OBVIOUS
<1> USE DEF Init
<1>1. Cardinality(Clients) \in Nat /\ MaxSeq \in Nat
  BY UsbAssumption, FS_CardinalityType
<1>2. TypeOK
  <2>1. ConnTypes
    <3>1. 0 \in Configs
      BY DEF Configs
    <3> QED
      BY <3>1 DEF ConnTypes
  <2>2. DiskTypes
    <3>1. 0 \in 0..Cardinality(Clients) /\ 0 \in 0..MaxSeq
      BY <1>1
    <3> QED
      BY <3>1 DEF DiskTypes
  <2>3. ClientTypes
    BY <1>1 DEF ClientTypes
  <2> QED
    BY <2>1, <2>2, <2>3 DEF TypeOK
<1>3. RequestJustified /\ ConfigKnown
  BY DEF RequestJustified, ConfigKnown
<1>4. ThreadPlaces
  BY UsbAssumption DEF ThreadPlaces, Clients
<1>5. AcksPast /\ NumbersPast
  BY DEF AcksPast, NumbersPast
<1>6. RequestsBounded
  <2>1. Places(usbQueue, Msg("SET_CONFIGURATION", 1)) = {}
    BY DEF Places
  <2>2. Cardinality(Places(usbQueue, Msg("SET_CONFIGURATION", 1))) = 0
    BY <2>1, FS_EmptySet
  <2>3. seqnum = 0 /\ 0 + 0 <= MaxSeq
    BY <1>1
  <2> QED
    BY <2>2, <2>3 DEF RequestsBounded
<1>7. NewsLast /\ AcksEnough /\ AllStopped
  BY DEF NewsLast, AcksEnough, AllStopped
<1> QED
  BY <1>2, <1>3, <1>4, <1>5, <1>6, <1>7 DEF HandoverInv

LEMMA UsbThreadKeeps ==
    ASSUME HandoverInv, UsbThread
    PROVE  HandoverInv'
BY HandleBusResetKeeps, HandleCompletionKeeps, HandleInsertedKeeps, HandleAckKeeps,
   HandleExtractedKeeps DEF UsbThread

LEMMA ClientStepKeeps ==
    ASSUME HandoverInv, NEW c \in Clients, ClientStep(c)
    PROVE  HandoverInv' /\ SameComing
BY TakeConnectedKeeps, StopPlaybackKeeps, AcknowledgeKeeps, ResumeKeeps, AckAndGoOnKeeps,
   IgnoreKeeps DEF ClientStep

LEMMA StutterKeeps ==
    ASSUME HandoverInv, UNCHANGED vars
    PROVE  HandoverInv'
<1>1. UNCHANGED <<diskVars, clientVars>> /\ UNCHANGED <<detectVars, usbQueue, connVars, coreVars>>
  BY DEF vars
<1>2. ConnTypes' /\ RequestJustified' /\ ConfigKnown'
  BY <1>1 DEF HandoverInv, TypeOK, ConnTypes, RequestJustified, ConfigKnown,
              detectVars, connVars, coreVars, diskVars
<1>3. usbQueue' = usbQueue /\ Acks(usbQueue, seqnum) \in Nat /\ Requests(usbQueue) \in Nat
  BY <1>1, Facts, Counted
<1> QED
  BY <1>1, <1>2, <1>3, Facts, QuietStep

LEMMA StepKeeps ==
    ASSUME HandoverInv, [Next]_vars
    PROVE  HandoverInv'
<1>1. ASSUME NEW in \in BOOLEAN, CableInterrupt(in) PROVE HandoverInv'
  BY <1>1, CableInterruptKeeps
<1>2. ASSUME NEW config \in Configs, HostRequest(Msg("SET_CONFIGURATION", config))
      PROVE  HandoverInv'
  BY <1>2, HostRequestKeeps
<1>3. ASSUME HostRequest(Msg("OTHER_REQUEST", 0)) PROVE HandoverInv'
  BY <1>3, HostRequestKeeps
<1>4. ASSUME NEW c \in Clients, ClientStep(c) PROVE HandoverInv'
  BY <1>4, ClientStepKeeps
<1>5. ASSUME NEW c \in Clients, StartPlayback(c) PROVE HandoverInv'
  BY <1>5, StartPlaybackKeeps
<1>6. ASSUME NEW c \in Clients, StartPlugin(c) \/ EndPlugin(c) PROVE HandoverInv'
  BY <1>6, PluginKeeps
<1>7. UNCHANGED vars => HandoverInv'
  BY StutterKeeps
<1>8. StartMonitoring \/ DebounceExpired \/ BusReset \/ UsbThread => HandoverInv'
  BY StartMonitoringKeeps, DebounceExpiredKeeps, BusResetKeeps, UsbThreadKeeps
<1> QED
  BY <1>1, <1>2, <1>3, <1>4, <1>5, <1>6, <1>7, <1>8 DEF Next

(* The inductive invariant of the handover: types, who asked for the disk  *)
(* and why, how many acks are expected and can still come, and what is at  *)
(* the end of every thread's queue.                                        *)
THEOREM HandoverInvInductive == Spec => []HandoverInv
<1>1. HandoverInv /\ [Next]_vars => HandoverInv'
  BY StepKeeps
<1> QED
  BY InitHolds, <1>1, PTL DEF Spec

(* The disk is asked for exactly while the host has selected the mass      *)
(* storage configuration, and unmounted exactly while it is given.         *)
THEOREM HandoverRequestJustified == Spec => []RequestJustified
<1>1. HandoverInv => RequestJustified
  BY DEF HandoverInv
<1> QED
  BY HandoverInvInductive, <1>1, PTL

LEMMA HostAlone ==
    ASSUME HandoverInv, enabled
    PROVE  ~mounted /\ DiskUsers = {} /\ \A c \in Registered \ Ackers : queue[c] = <<>>
<1>1. ~mounted /\ \A c \in Stoppers : pc[c] = "waiting" /\ queue[c] = <<>>
  BY WhoHasTheDisk DEF Stopped
<1>2. \A c \in Plugins : pc[c] = "absent"
  BY <1>1, UsbAssumption DEF HandoverInv, ThreadPlaces
<1>3. Registered \ Ackers \subseteq Stoppers
  BY <1>2 DEF Registered, Clients
<1> QED
  BY <1>1, <1>3 DEF DiskUsers

(* While the computer has the disk nobody else can touch it: the volumes   *)
(* are unmounted, every thread waits, and no disconnect is on its way.     *)
THEOREM HandoverExclusive == Spec => []ExclusiveStorage
<1>1. HandoverInv => ExclusiveStorage
  <2> SUFFICES ASSUME HandoverInv, enabled
               PROVE  /\ ~mounted /\ DiskUsers = {}
                      /\ \A c \in Registered \ Ackers : ~Contains(queue[c], Disconnected)
    BY DEF ExclusiveStorage
  <2>1. ~Contains(<<>>, Disconnected)
    BY DEF Contains
  <2> QED
    BY <2>1, HostAlone
<1> QED
  BY HandoverInvInductive, <1>1, PTL

-----------------------------------------------------------------------------
(* Who moves: the actions that change where a thread is.                   *)

Moves(c) == TakeConnected(c) \/ Acknowledge(c) \/ Resume(c) \/ StartPlugin(c) \/ EndPlugin(c)

LEMMA WhoMoves ==
    ASSUME [Next]_vars
    PROVE  pc' = pc \/ \E c \in Clients : Moves(c)
<1>1. (\E in \in BOOLEAN : CableInterrupt(in)) \/ StartMonitoring \/ DebounceExpired => pc' = pc
  BY DEF CableInterrupt, StartMonitoring, DebounceExpired, clientVars
<1>2. (\E m : HostRequest(m)) \/ BusReset => pc' = pc
  BY DEF HostRequest, BusReset, clientVars
<1>3. UsbThread => pc' = pc
  BY DEF UsbThread, HandleBusReset, HandleCompletion, HandleInserted, HandleAck,
         HandleExtracted, SetConfig, clientVars
<1>4. ASSUME NEW c \in Clients, ClientStep(c)
      PROVE  pc' = pc \/ Moves(c)
  BY <1>4 DEF ClientStep, StopPlayback, AckAndGoOn, Ignore, Moves
<1>5. ASSUME NEW c \in Clients, StartPlayback(c) \/ StartPlugin(c) \/ EndPlugin(c)
      PROVE  pc' = pc \/ Moves(c)
  BY <1>5 DEF StartPlayback, Moves
<1>6. UNCHANGED vars => pc' = pc
  BY DEF vars, clientVars
<1>7. ASSUME Next
      PROVE  pc' = pc \/ \E c \in Clients : Moves(c)
  BY <1>1, <1>2, <1>3, <1>4, <1>5, <1>7 DEF Next
<1> QED
  BY <1>6, <1>7

LEMMA MovesAlone ==
    ASSUME HandoverInv, NEW c \in Clients, Moves(c)
    PROVE  /\ enabled' = enabled
           /\ \E p : pc' = [pc EXCEPT ![c] = p]
           /\ pc[c] # "waiting" \/ Resume(c)
BY DEF Moves, TakeConnected, Acknowledge, Resume, StartPlugin, EndPlugin, othersUnchanged, diskVars

(* Whoever gets back to work finds the volumes mounted, and a request made *)
(* in the meantime still in its queue.                                     *)
THEOREM HandoverResumesMounted == Spec => ResumesOnMountedDisk
<1>1. ASSUME HandoverInv, [Next]_vars, NEW c \in Clients, pc[c] = "waiting", pc'[c] = "working"
      PROVE  mounted /\ (requested => Contains(queue'[c], Connected(seqnum)))
  <2>1. PICK d \in Clients : Moves(d)
    BY <1>1, WhoMoves
  <2>2. pc \in [Clients -> {"working", "stopping", "waiting", "absent"}]
    BY <1>1 DEF HandoverInv, TypeOK, ClientTypes
  <2>3. d = c
    BY <1>1, <2>1, <2>2, MovesAlone
  <2>4. Resume(c)
    BY <1>1, <2>1, <2>3, MovesAlone
  <2>5. /\ queue[c] # <<>> /\ Pop(c) /\ Head(queue[c]) = Disconnected
    <3>1. queue[c] # <<>> /\ Pop(c) /\ Head(queue[c]).id = "SYS_USB_DISCONNECTED"
      BY <2>4 DEF Resume, HeadIs
    <3>2. Head(queue[c]) \in ClientMsgs
      BY <1>1, <3>1, Popped
    <3> QED
      BY <3>1, <3>2 DEF ClientMsgs, Connected, Disconnected, Msg
  <2>6. c \in Stoppers
    BY <1>1 DEF HandoverInv, ThreadPlaces, Clients
  <2>7. mounted
    <3>1. ~enabled
      BY <1>1, <2>5, <2>6, WhoHasTheDisk
    <3> QED
      BY <3>1, <1>1 DEF HandoverInv, RequestJustified
  <2>8. ASSUME requested
        PROVE  Contains(queue'[c], Connected(seqnum))
    <3>1. Disconnected # Connected(seqnum)
      BY DEF Disconnected, Connected, Msg
    <3>2. News(queue'[c], seqnum) /\ queue'[c] # <<>>
      BY <1>1, <2>5, <2>6, <2>8, <3>1, Popped
    <3>3. queue'[c] \in Seq(ClientMsgs)
      BY <1>1, <2>5, Popped DEF Past
    <3> QED
      BY <3>2, <3>3, NewsIsLast
  <2> QED
    BY <2>7, <2>8
<1>2. HandoverInv /\ [Next]_vars =>
        [\A c \in Clients : pc[c] = "waiting" /\ pc'[c] = "working" =>
           mounted /\ (requested => Contains(queue'[c], Connected(seqnum)))]_vars
  BY <1>1
<1> QED
  BY HandoverInvInductive, <1>2, PTL DEF Spec, ResumesOnMountedDisk

(* The broadcasts and acks hand the disk over as DiskHandover allows: only *)
(* when nobody uses it, and nobody starts to before it is back.            *)
THEOREM HandoverImplements == Spec => ImplementsDiskHandover
<1> DEFINE owner == IF enabled THEN "host" ELSE "player"
<1>1. Init => Disk!Init
  BY UsbAssumption DEF Init, Disk!Init, DiskUsers, Registered
<1>2. HandoverInv /\ enabled => DiskUsers = {}
  BY HostAlone
<1>3. (HandoverInv /\ enabled => DiskUsers = {})'
  BY <1>2, PTL
<1>4. ASSUME HandoverInv, HandoverInv', [Next]_vars
      PROVE  [Disk!Next]_(Disk!vars)
  <2>1. enabled \in BOOLEAN /\ enabled' \in BOOLEAN
    BY <1>4 DEF HandoverInv, TypeOK, DiskTypes
  <2>2. CASE pc' = pc
    <3>1. DiskUsers' = DiskUsers
      BY <2>2 DEF DiskUsers, Registered
    <3>2. CASE enabled' = enabled
      BY <3>1, <3>2 DEF Disk!vars
    <3>3. CASE enabled' /\ ~enabled
      <4>1. DiskUsers = {}
        BY <1>4, <1>3, <3>1, <3>3
      <4> QED
        BY <3>1, <3>3, <4>1 DEF Disk!Next, Disk!HandOver
    <3>4. CASE ~enabled' /\ enabled
      BY <3>1, <3>4 DEF Disk!Next, Disk!TakeBack
    <3> QED
      BY <2>1, <3>2, <3>3, <3>4
  <2>3. ASSUME NEW c \in Clients, Moves(c)
        PROVE  [Disk!Next]_(Disk!vars)
    <3>1. /\ enabled' = enabled
          /\ pc \in [Clients -> {"working", "stopping", "waiting", "absent"}]
      BY <1>4, <2>3, MovesAlone DEF HandoverInv, TypeOK, ClientTypes
    <3>2. CASE TakeConnected(c)
      <4>1. pc' = [pc EXCEPT ![c] = "stopping"] /\ pc[c] = "working"
        BY <3>2 DEF TakeConnected
      <4>2. DiskUsers' = DiskUsers
        BY <3>1, <4>1 DEF DiskUsers, Registered
      <4> QED
        BY <3>1, <4>2 DEF Disk!vars
    <3>3. CASE Acknowledge(c) \/ EndPlugin(c)
      <4>1. /\ pc[c] \in {"working", "stopping"} /\ c \notin Ackers
            /\ pc' = [pc EXCEPT ![c] = "waiting"] \/ pc' = [pc EXCEPT ![c] = "absent"]
        <5>1. Acknowledge(c) => c \notin Ackers
          BY <1>4 DEF Acknowledge, HandoverInv, ThreadPlaces
        <5> QED
          BY <3>3, <5>1, UsbAssumption DEF Acknowledge, EndPlugin
      <4>2. c \in DiskUsers /\ DiskUsers' = DiskUsers \ {c}
        BY <3>1, <4>1 DEF DiskUsers, Registered
      <4>3. c \in Clients \ Ackers
        BY <4>1
      <4>4. Disk!Stop(c)
        BY <3>1, <4>2 DEF Disk!Stop
      <4> QED
        BY <4>3, <4>4 DEF Disk!Next
    <3>4. CASE Resume(c) \/ StartPlugin(c)
      <4>1. /\ pc' = [pc EXCEPT ![c] = "working"] /\ c \notin Ackers
        <5>1. Resume(c) => c \notin Ackers
          BY <1>4 DEF Resume, HandoverInv, ThreadPlaces
        <5> QED
          BY <3>4, <5>1, UsbAssumption DEF Resume, StartPlugin
      <4>2. ~enabled
        <5>1. CASE Resume(c)
          <6>1. pc[c] = "waiting" /\ queue[c] # <<>>
            BY <5>1 DEF Resume, HeadIs
          <6>2. c \in Stoppers
            BY <1>4, <6>1 DEF HandoverInv, ThreadPlaces, Clients
          <6> QED
            BY <1>4, <6>1, <6>2, WhoHasTheDisk
        <5>2. CASE StartPlugin(c)
          BY <1>4, <5>2, UsbAssumption, WhoHasTheDisk DEF StartPlugin, Stopped
        <5> QED
          BY <3>4, <5>1, <5>2
      <4>3. DiskUsers' = DiskUsers \cup {c}
        BY <3>1, <4>1 DEF DiskUsers, Registered
      <4>4. c \in Clients \ Ackers
        BY <4>1
      <4>5. Disk!Start(c)
        BY <3>1, <4>2, <4>3 DEF Disk!Start
      <4> QED
        BY <4>4, <4>5 DEF Disk!Next
    <3> QED
      BY <2>3, <3>2, <3>3, <3>4 DEF Moves
  <2> QED
    BY <1>4, <2>2, <2>3, WhoMoves
<1> QED
  BY HandoverInvInductive, <1>1, <1>4, PTL DEF Spec, ImplementsDiskHandover, Disk!Spec

-----------------------------------------------------------------------------
(* What the threads are told.  A thread that has no case for a message     *)
(* throws it away, so it is not enough that the last message is right: the *)
(* messages have to come in turn, and the first has to be the one that the *)
(* thread's place asks for.                                                *)

LastOf(s, p, a) ==
    IF s # <<>> THEN s[Len(s)]
    ELSE IF p = "working" THEN Disconnected
    ELSE Connected(a)

InTurn(s, p) ==
    /\ s # <<>> => (Head(s).id = "SYS_USB_CONNECTED" <=> p = "working")
    /\ \A i \in 1..(Len(s) - 1) : s[i].id # s[i + 1].id

LEMMA TwoIds ==
    ASSUME NEW m \in ClientMsgs
    PROVE  \/ m.id = "SYS_USB_CONNECTED"
           \/ m = Disconnected /\ m.id = "SYS_USB_DISCONNECTED"
<1>1. \A n : Connected(n).id = "SYS_USB_CONNECTED"
  BY DEF Connected, Msg
<1>2. Disconnected.id = "SYS_USB_DISCONNECTED"
  BY DEF Disconnected, Msg
<1> QED
  BY <1>1, <1>2 DEF ClientMsgs

LEMMA IdOfLast ==
    ASSUME NEW p, NEW a
    PROVE  LastOf(<<>>, p, a).id =
             IF p = "working" THEN "SYS_USB_DISCONNECTED" ELSE "SYS_USB_CONNECTED"
BY DEF LastOf, Connected, Disconnected, Msg

LEMMA NoMessages ==
    ASSUME NEW s \in Seq(ClientMsgs)
    PROVE  s = <<>> <=> Len(s) = 0
OBVIOUS

LEMMA HeardMore ==
    ASSUME NEW s \in Seq(ClientMsgs), NEW p, NEW a, NEW m \in ClientMsgs,
           InTurn(s, p), m.id # LastOf(s, p, a).id
    PROVE  InTurn(Append(s, m), p) /\ LastOf(Append(s, m), p, a) = m
<1>1. /\ Append(s, m) # <<>> /\ Len(Append(s, m)) = Len(s) + 1 /\ Len(s) \in Nat
      /\ Append(s, m)[Len(s) + 1] = m
      /\ \A i \in 1..Len(s) : Append(s, m)[i] = s[i]
  OBVIOUS
<1>2. Head(Append(s, m)).id = "SYS_USB_CONNECTED" <=> p = "working"
  <2>1. CASE s = <<>>
    <3>1. Head(Append(s, m)) = m
      BY <2>1
    <3> QED
      BY <2>1, <3>1, IdOfLast, TwoIds
  <2>2. CASE s # <<>>
    <3>1. Head(Append(s, m)) = Head(s)
      BY <2>2
    <3> QED
      BY <2>2, <3>1 DEF InTurn
  <2> QED
    BY <2>1, <2>2
<1>3. ASSUME NEW i \in 1..Len(s)
      PROVE  Append(s, m)[i].id # Append(s, m)[i + 1].id
  <2>1. CASE i = Len(s)
    <3>1. s # <<>> /\ LastOf(s, p, a) = s[Len(s)]
      BY <1>1, <1>3, <2>1 DEF LastOf
    <3> QED
      BY <1>1, <2>1, <3>1
  <2>2. CASE i # Len(s)
    <3>1. i \in 1..(Len(s) - 1) /\ i + 1 \in 1..Len(s)
      BY <1>1, <2>2
    <3> QED
      BY <1>1, <3>1 DEF InTurn
  <2> QED
    BY <2>1, <2>2
<1>4. Len(Append(s, m)) - 1 = Len(s)
  BY <1>1
<1> QED
  BY <1>1, <1>2, <1>3, <1>4 DEF InTurn, LastOf

(* A message that puts the thread where it would be had it been the last. *)
LEMMA HeardOut ==
    ASSUME NEW s \in Seq(ClientMsgs), s # <<>>, NEW p, NEW a, NEW p2, NEW a2,
           InTurn(s, p), LastOf(<<>>, p2, a2) = Head(s)
    PROVE  InTurn(Tail(s), p2) /\ LastOf(Tail(s), p2, a2) = LastOf(s, p, a)
<1>1. /\ Tail(s) \in Seq(ClientMsgs) /\ Len(Tail(s)) = Len(s) - 1 /\ Len(s) \in Nat \ {0}
      /\ \A i \in 1..(Len(s) - 1) : Tail(s)[i] = s[i + 1]
      /\ Head(s) = s[1] /\ \A i \in 1..Len(s) : s[i] \in ClientMsgs
  OBVIOUS
<1>2. CASE Len(s) = 1
  <2>1. Tail(s) = <<>>
    <3>1. Tail(s) \in Seq(ClientMsgs) /\ Len(Tail(s)) = 0
      BY <1>1, <1>2
    <3> QED
      BY <3>1, NoMessages
  <2>2. LastOf(s, p, a) = Head(s)
    BY <1>1, <1>2 DEF LastOf
  <2>3. InTurn(<<>>, p2)
    BY DEF InTurn
  <2> QED
    BY <2>1, <2>2, <2>3
<1>3. CASE Len(s) # 1
  <2>1. /\ Tail(s) # <<>> /\ Head(Tail(s)) = s[2] /\ Len(s) - 1 \in 1..(Len(s) - 1)
        /\ 1 \in 1..(Len(s) - 1) /\ 2 \in 1..Len(s)
    <3>1. /\ Len(s) - 1 \in Nat \ {0} /\ Len(s) - 1 \in 1..(Len(s) - 1)
          /\ 1 \in 1..(Len(s) - 1) /\ 2 \in 1..Len(s)
      BY <1>1, <1>3
    <3>2. Tail(s) \in Seq(ClientMsgs) /\ Len(Tail(s)) # 0
      BY <1>1, <3>1
    <3>3. Tail(s) # <<>>
      BY <3>2, NoMessages
    <3>4. Head(Tail(s)) = Tail(s)[1] /\ Tail(s)[1] = s[2]
      BY <1>1, <3>1, <3>3
    <3> QED
      BY <3>1, <3>3, <3>4
  <2>2. LastOf(Tail(s), p2, a2) = s[Len(s)]
    BY <1>1, <2>1 DEF LastOf
  <2>3. LastOf(s, p, a) = s[Len(s)]
    BY DEF LastOf
  <2>4. s[1].id # s[2].id
    BY <2>1 DEF InTurn
  <2>5. Head(Tail(s)).id = "SYS_USB_CONNECTED" <=> p2 = "working"
    <3>1. s[2] \in ClientMsgs
      BY <1>1, <2>1
    <3> QED
      BY <1>1, <2>1, <2>4, <3>1, TwoIds, IdOfLast
  <2>6. ASSUME NEW i \in 1..(Len(Tail(s)) - 1)
        PROVE  Tail(s)[i].id # Tail(s)[i + 1].id
    <3>1. i \in 1..(Len(s) - 1) /\ i + 1 \in 1..(Len(s) - 1)
      BY <1>1
    <3>2. s[i + 1].id # s[(i + 1) + 1].id
      BY <3>1 DEF InTurn
    <3> QED
      BY <1>1, <3>1, <3>2
  <2> QED
    BY <2>2, <2>3, <2>5, <2>6 DEF InTurn
<1> QED
  BY <1>2, <1>3

CurrentNews == IF requested THEN Connected(seqnum) ELSE Disconnected

Heard(c) == /\ InTurn(queue[c], pc[c])
            /\ LastOf(queue[c], pc[c], ackSeq[c]) = CurrentNews

AllHeard == \A c \in Stoppers : Heard(c)

LEMMA HeardSame ==
    ASSUME AllHeard, UNCHANGED <<queue, pc, ackSeq, requested, seqnum>>
    PROVE  AllHeard'
BY DEF AllHeard, Heard, CurrentNews

(* A stopper hears of every request and of every release. *)
LEMMA BroadcastHeard ==
    ASSUME HandoverInv, NEW Q, Past(Q, seqnum), NEW m \in ClientMsgs, NEW c \in Stoppers,
           InTurn(Q[c], pc[c]), m.id # LastOf(Q[c], pc[c], ackSeq[c]).id
    PROVE  /\ InTurn(Broadcast(Q, m)[c], pc[c])
           /\ LastOf(Broadcast(Q, m)[c], pc[c], ackSeq[c]) = m
<1>1. c \in Registered /\ c \in Clients
  BY Facts DEF Registered
<1>2. Broadcast(Q, m)[c] = Append(Q[c], m) /\ Q[c] \in Seq(ClientMsgs)
  BY <1>1 DEF Broadcast, Past
<1> QED
  BY <1>2, HeardMore

LEMMA SetConfigHeard ==
    ASSUME HandoverInv, HandoverInv', AllHeard,
           NEW config, NEW driver, NEW q, SetConfig(config, driver, q)
    PROVE  AllHeard'
<1>1. UNCHANGED <<pc, ackSeq>> /\ SetConfigDisk(config, driver)
  BY DEF SetConfig
<1>2. Past(queue, seqnum) /\ seqnum \in Nat
  BY Facts
<1>3. Disconnected \in ClientMsgs /\ Disconnected.data <= seqnum
  BY <1>2 DEF ClientMsgs, Disconnected, Msg
<1>4. Past(Broadcast(queue, Disconnected), seqnum)
  BY <1>2, <1>3, BroadcastPast
<1>5. \A n : Disconnected.id # Connected(n).id
  BY DEF Disconnected, Connected, Msg
<1>6. ASSUME NEW c \in Stoppers
      PROVE  LET Q == IF requested THEN Broadcast(queue, Disconnected) ELSE queue
             IN  InTurn(Q[c], pc[c]) /\ LastOf(Q[c], pc[c], ackSeq[c]) = Disconnected
  <2>1. InTurn(queue[c], pc[c]) /\ LastOf(queue[c], pc[c], ackSeq[c]) = CurrentNews
    BY DEF AllHeard, Heard
  <2>2. CASE requested
    <3>1. CurrentNews = Connected(seqnum)
      BY <2>2 DEF CurrentNews
    <3>2. Disconnected.id # LastOf(queue[c], pc[c], ackSeq[c]).id
      BY <1>5, <2>1, <3>1
    <3> QED
      BY <1>2, <1>3, <2>1, <2>2, <3>2, BroadcastHeard
  <2>3. CASE ~requested
    BY <2>1, <2>3 DEF CurrentNews
  <2> QED
    BY <2>2, <2>3
<1>7. CASE ReleaseExclusiveStorage
  <2>1. /\ requested' = FALSE
        /\ queue' = IF requested THEN Broadcast(queue, Disconnected) ELSE queue
    BY <1>7 DEF ReleaseExclusiveStorage
  <2> QED
    BY <1>1, <1>6, <2>1 DEF AllHeard, Heard, CurrentNews
<1>8. CASE UNCHANGED <<diskVars, queue>>
  BY <1>1, <1>8, HeardSame DEF diskVars
<1>9. CASE RequestExclusiveStorage(IF requested THEN Broadcast(queue, Disconnected) ELSE queue)
  <2> DEFINE Q == IF requested THEN Broadcast(queue, Disconnected) ELSE queue
  <2>1. /\ requested' = TRUE /\ seqnum' = seqnum + 1
        /\ queue' = Broadcast(Q, Connected(seqnum'))
    BY <1>9 DEF RequestExclusiveStorage
  <2>2. Connected(seqnum') \in ClientMsgs
    <3>1. seqnum' \in 0..MaxSeq
      BY DEF HandoverInv, TypeOK, DiskTypes
    <3>2. seqnum' \in 1..MaxSeq
      BY <1>2, <2>1, <3>1, Facts
    <3> QED
      BY <3>2 DEF ClientMsgs
  <2>3. Past(Q, seqnum)
    BY <1>2, <1>4
  <2>4. ASSUME NEW c \in Stoppers
        PROVE  Heard(c)'
    <3>1. InTurn(Q[c], pc[c]) /\ LastOf(Q[c], pc[c], ackSeq[c]) = Disconnected
      BY <1>6
    <3>2. Connected(seqnum').id # LastOf(Q[c], pc[c], ackSeq[c]).id
      BY <1>5, <3>1
    <3>3. /\ InTurn(queue'[c], pc[c])
          /\ LastOf(queue'[c], pc[c], ackSeq[c]) = Connected(seqnum')
      BY <2>1, <2>2, <2>3, <3>1, <3>2, BroadcastHeard
    <3> QED
      BY <1>1, <2>1, <3>3 DEF Heard, CurrentNews
  <2> QED
    BY <2>4 DEF AllHeard
<1> QED
  BY <1>1, <1>7, <1>8, <1>9 DEF SetConfigDisk

LEMMA UsbThreadHeard ==
    ASSUME HandoverInv, HandoverInv', AllHeard, UsbThread
    PROVE  AllHeard'
<1>1. CASE HandleBusReset
  <2>1. SetConfig(0, storageDriver, Tail(usbQueue)) \/ UNCHANGED <<diskVars, clientVars>>
    BY <1>1 DEF HandleBusReset
  <2> QED
    BY <2>1, SetConfigHeard, HeardSame DEF diskVars, clientVars
<1>2. CASE HandleCompletion
  <2>1. \/ SetConfig(Head(usbQueue).data, storageDriver', Tail(usbQueue))
        \/ UNCHANGED <<diskVars, clientVars>>
    BY <1>2 DEF HandleCompletion
  <2> QED
    BY <2>1, SetConfigHeard, HeardSame DEF diskVars, clientVars
<1>3. CASE HandleInserted \/ HandleAck
  BY <1>3, HeardSame DEF HandleInserted, HandleAck, diskVars, clientVars
<1>4. CASE HandleExtracted
  <2>1. SetConfig(0, storageDriver, Tail(usbQueue)) \/ UNCHANGED <<diskVars, clientVars>>
    BY <1>4 DEF HandleExtracted
  <2> QED
    BY <2>1, SetConfigHeard, HeardSame DEF diskVars, clientVars
<1> QED
  BY <1>1, <1>2, <1>3, <1>4 DEF UsbThread

LEMMA ClientStepHeard ==
    ASSUME HandoverInv, AllHeard, playing = {}, NEW d \in Clients,
           ClientStep(d) \/ StartPlugin(d) \/ EndPlugin(d)
    PROVE  AllHeard'
<1>1. /\ queue \in [Clients -> Seq(ClientMsgs)]
      /\ pc \in [Clients -> {"working", "stopping", "waiting", "absent"}]
      /\ ackSeq \in [Clients -> 0..MaxSeq]
  BY DEF HandoverInv, TypeOK, ClientTypes
<1>2. /\ CurrentNews' = CurrentNews
      /\ \A c \in Clients \ {d} :
           queue'[c] = queue[c] /\ pc'[c] = pc[c] /\ ackSeq'[c] = ackSeq[c]
  BY <1>1 DEF ClientStep, TakeConnected, StopPlayback, Acknowledge, Resume, AckAndGoOn, Ignore,
              StartPlugin, EndPlugin, Pop, CurrentNews, othersUnchanged, diskVars
<1>3. ASSUME NEW c \in Stoppers, c # d
      PROVE  Heard(c)'
  <2>1. c \in Clients \ {d}
    BY <1>3 DEF Clients
  <2> QED
    BY <1>2, <2>1 DEF AllHeard, Heard
<1>4. ASSUME d \in Stoppers
      PROVE  Heard(d)'
  <2>1. d \notin Ackers /\ d \notin Plugins
    BY <1>4, UsbAssumption
  <2>2. InTurn(queue[d], pc[d]) /\ LastOf(queue[d], pc[d], ackSeq[d]) = CurrentNews
    BY <1>4 DEF AllHeard, Heard
  <2>3. CASE TakeConnected(d)
    <3>1. /\ queue[d] # <<>> /\ Head(queue[d]).id = "SYS_USB_CONNECTED"
          /\ queue'[d] = Tail(queue[d]) /\ pc'[d] = "stopping"
          /\ ackSeq'[d] = Head(queue[d]).data
      BY <1>1, <2>3 DEF TakeConnected, HeadIs, Pop
    <3>2. Head(queue[d]) \in ClientMsgs
      BY <1>1, <3>1
    <3>3. Head(queue[d]) = Connected(Head(queue[d]).data)
      BY <3>1, <3>2 DEF ClientMsgs, Connected, Disconnected, Msg
    <3>4. LastOf(<<>>, pc'[d], ackSeq'[d]) = Head(queue[d])
      BY <3>1, <3>3 DEF LastOf
    <3>5. queue[d] \in Seq(ClientMsgs)
      BY <1>1
    <3> QED
      BY <1>2, <2>2, <3>1, <3>4, <3>5, HeardOut DEF Heard
  <2>4. CASE Resume(d)
    <3>1. /\ queue[d] # <<>> /\ Head(queue[d]).id = "SYS_USB_DISCONNECTED"
          /\ queue'[d] = Tail(queue[d]) /\ pc'[d] = "working"
      BY <1>1, <2>4 DEF Resume, HeadIs, Pop
    <3>2. Head(queue[d]) \in ClientMsgs
      BY <1>1, <3>1
    <3>3. Head(queue[d]) = Disconnected
      BY <3>1, <3>2, TwoIds
    <3>4. LastOf(<<>>, pc'[d], ackSeq'[d]) = Head(queue[d])
      BY <3>1, <3>3 DEF LastOf
    <3>5. queue[d] \in Seq(ClientMsgs)
      BY <1>1
    <3> QED
      BY <1>2, <2>2, <3>1, <3>4, <3>5, HeardOut DEF Heard
  <2>5. CASE Acknowledge(d)
    <3>1. /\ pc[d] = "stopping" /\ pc'[d] = "waiting"
          /\ queue'[d] = queue[d] /\ ackSeq'[d] = ackSeq[d]
      BY <1>1, <2>5 DEF Acknowledge
    <3> QED
      BY <1>2, <2>2, <3>1 DEF Heard, InTurn, LastOf
  <2>6. ~Ignore(d)
    BY <2>1, <2>2 DEF Ignore, HeadIs, InTurn
  <2>7. ~StopPlayback(d)
    BY DEF StopPlayback
  <2>8. ~AckAndGoOn(d) /\ ~StartPlugin(d) /\ ~EndPlugin(d)
    BY <2>1 DEF AckAndGoOn, StartPlugin, EndPlugin
  <2> QED
    BY <2>3, <2>4, <2>5, <2>6, <2>7, <2>8 DEF ClientStep
<1> QED
  BY <1>3, <1>4 DEF AllHeard

LEMMA StepHeard ==
    ASSUME Players = {}, HandoverInv, HandoverInv', AllHeard, [Next]_vars
    PROVE  AllHeard'
<1>1. playing = {}
  BY DEF HandoverInv, TypeOK, ClientTypes
<1>2. (\E in \in BOOLEAN : CableInterrupt(in)) \/ StartMonitoring \/ DebounceExpired => AllHeard'
  BY HeardSame DEF CableInterrupt, StartMonitoring, DebounceExpired, diskVars, clientVars
<1>3. (\E m : HostRequest(m)) \/ BusReset => AllHeard'
  BY HeardSame DEF HostRequest, BusReset, diskVars, clientVars
<1>4. UsbThread => AllHeard'
  BY UsbThreadHeard
<1>5. ASSUME NEW c \in Clients, ClientStep(c) \/ StartPlugin(c) \/ EndPlugin(c)
      PROVE  AllHeard'
  BY <1>1, <1>5, ClientStepHeard
<1>6. ASSUME NEW c \in Clients, StartPlayback(c)
      PROVE  AllHeard'
  BY <1>6, HeardSame DEF StartPlayback, othersUnchanged, diskVars
<1>7. UNCHANGED vars => AllHeard'
  BY HeardSame DEF vars, diskVars, clientVars
<1>8. Next => AllHeard'
  BY <1>2, <1>3, <1>4, <1>5, <1>6 DEF Next
<1> QED
  BY <1>7, <1>8

(* Whatever is requested, withdrawn and requested again, every thread that *)
(* stops is told: once its queue is empty it is stopped for the current    *)
(* request, and works if there is none.  It is the audio thread that makes *)
(* the assumption necessary: while it plays it clears its queue, with      *)
(* whatever was said in the meantime (audio_playback_handler).             *)
THEOREM HandoverToldTheTruth ==
    ASSUME Players = {}
    PROVE  Spec => []ToldTheTruth
<1>1. Init => AllHeard
  BY UsbAssumption
  DEF Init, AllHeard, Heard, InTurn, LastOf, CurrentNews, Clients
<1>2. HandoverInv /\ HandoverInv' /\ AllHeard /\ [Next]_vars => AllHeard'
  BY StepHeard
<1>3. AllHeard => ToldTheTruth
  BY DEF AllHeard, Heard, LastOf, CurrentNews, ToldTheTruth, LastWord, Last
<1> QED
  BY HandoverInvInductive, <1>1, <1>2, <1>3, PTL DEF Spec

-----------------------------------------------------------------------------
(* How many acks are expected.  Without plugins every registered thread    *)
(* acknowledges, so the number is that of the acks that can still come.    *)

AcksExact == requested /\ ~enabled => acks > 0 /\ acks = Coming

LEMMA OwingUnstopped ==
    ASSUME HandoverInv, AllHeard, Plugins = {}, requested
    PROVE  Owing = Unstopped
<1>1. /\ queue \in [Clients -> Seq(ClientMsgs)]
      /\ pc \in [Clients -> {"working", "stopping", "waiting", "absent"}]
      /\ Clients = Stoppers \cup Ackers /\ Registered = Clients
  BY DEF HandoverInv, TypeOK, ClientTypes, ThreadPlaces, Registered, Clients
<1>2. ASSUME NEW c \in Clients
      PROVE  Contains(queue[c], Connected(seqnum)) <=> queue[c] # <<>>
  BY <1>1, <1>2, Facts, NewsIsLast
<1>3. ASSUME NEW c \in Stoppers
      PROVE  ~Stopped(c) <=> \/ queue[c] # <<>>
                             \/ pc[c] = "stopping" /\ ackSeq[c] = seqnum
  <2>1. CASE queue[c] # <<>>
    BY <2>1, Facts DEF Stopped
  <2>2. CASE queue[c] = <<>>
    <3>1. LastOf(<<>>, pc[c], ackSeq[c]) = Connected(seqnum)
      BY <2>2 DEF AllHeard, Heard, CurrentNews
    <3>2. pc[c] # "working" /\ ackSeq[c] = seqnum
      BY <3>1 DEF LastOf, Connected, Disconnected, Msg
    <3>3. pc[c] # "absent"
      BY DEF HandoverInv, ThreadPlaces
    <3>4. pc[c] \in {"working", "stopping", "waiting", "absent"}
      BY <1>1
    <3> QED
      BY <2>2, <3>2, <3>3, <3>4 DEF Stopped
  <2> QED
    BY <2>1, <2>2
<1>4. \A c \in Ackers : pc[c] = "working"
  BY DEF HandoverInv, ThreadPlaces
<1> QED
  BY <1>1, <1>2, <1>3, <1>4 DEF Owing, Unstopped

LEMMA QuietCounted ==
    ASSUME AcksExact, UNCHANGED <<diskVars, clientVars>>,
           Acks(usbQueue', seqnum) = Acks(usbQueue, seqnum)
    PROVE  AcksExact'
<1>1. Unstopped' = Unstopped /\ UNCHANGED <<requested, enabled, acks, seqnum>>
  BY DEF Unstopped, Stopped, diskVars, clientVars
<1> QED
  BY <1>1 DEF AcksExact, Coming

LEMMA PostCounted ==
    ASSUME HandoverInv, AcksExact, UNCHANGED <<diskVars, clientVars>>, NEW m \in UsbMsgs,
           m.id # "SYS_USB_CONNECTED_ACK", usbQueue' = Append(usbQueue, m)
    PROVE  AcksExact'
<1>1. m # Ack(seqnum)
  BY DEF Ack, Msg
<1>2. Acks(usbQueue', seqnum) = Acks(usbQueue, seqnum)
  BY <1>1, Facts, Posted
<1> QED
  BY <1>2, QuietCounted

LEMMA TakeCounted ==
    ASSUME HandoverInv, AcksExact, UNCHANGED <<diskVars, clientVars>>, usbQueue # <<>>,
           Head(usbQueue) # Ack(seqnum), usbQueue' = Tail(usbQueue)
    PROVE  AcksExact'
<1>1. Acks(usbQueue', seqnum) = Acks(usbQueue, seqnum)
  BY Facts, Taken
<1> QED
  BY <1>1, QuietCounted

(* A new request is in every thread's queue, and nobody has answered it. *)
LEMMA SetConfigCounted ==
    ASSUME HandoverInv, HandoverInv', Plugins = {}, NEW config, NEW driver, NEW q,
           SetConfig(config, driver, q), UsbQueueOK(q, seqnum)
    PROVE  AcksExact'
<1>1. UNCHANGED <<pc, ackSeq>> /\ SetConfigDisk(config, driver)
  BY DEF SetConfig
<1>2. CASE ReleaseExclusiveStorage
  BY <1>2 DEF ReleaseExclusiveStorage, AcksExact
<1>3. CASE enabled /\ UNCHANGED <<diskVars, queue>>
  BY <1>3 DEF AcksExact, diskVars
<1>4. CASE RequestExclusiveStorage(IF requested THEN Broadcast(queue, Disconnected) ELSE queue)
  <2>1. /\ requested' = TRUE /\ seqnum' = seqnum + 1 /\ seqnum \in Nat
        /\ acks' = Cardinality(Registered)
    BY <1>4, Facts DEF RequestExclusiveStorage
  <2>2. Acks(usbQueue', seqnum') = 0
    <3>1. UsbQueueOK(usbQueue', seqnum)
      BY Cleared DEF SetConfig
    <3> QED
      BY <2>1, <3>1, NotYet
  <2>3. ASSUME NEW c \in Stoppers
        PROVE  ~Stopped(c)'
    <3>1. c \in Clients /\ ackSeq[c] \in Nat /\ ackSeq[c] <= seqnum
      BY UsbAssumption DEF HandoverInv, TypeOK, ClientTypes, NumbersPast, Clients
    <3> QED
      BY <1>1, <2>1, <3>1 DEF Stopped
  <2>4. ASSUME NEW c \in Ackers
        PROVE  Contains(queue'[c], Connected(seqnum'))
    <3>1. /\ c \in Registered /\ c \in Clients
          /\ queue' = Broadcast(IF requested THEN Broadcast(queue, Disconnected) ELSE queue,
                                Connected(seqnum'))
      BY <1>4, Facts DEF RequestExclusiveStorage, Registered
    <3>2. /\ queue[c] \in Seq(ClientMsgs)
          /\ \A s \in Seq(ClientMsgs) : Append(s, Disconnected) \in Seq(ClientMsgs)
      <4>1. Disconnected \in ClientMsgs
        BY DEF ClientMsgs
      <4> QED
        BY <3>1, <4>1, Facts DEF Past
    <3>3. PICK s \in Seq(ClientMsgs) : queue'[c] = Append(s, Connected(seqnum'))
      BY <3>1, <3>2 DEF Broadcast
    <3>4. Append(s, Connected(seqnum'))[Len(s) + 1] = Connected(seqnum')
          /\ Len(s) + 1 \in 1..Len(Append(s, Connected(seqnum')))
      BY <3>3
    <3> QED
      BY <3>3, <3>4 DEF Contains
  <2>5. Registered = Stoppers \cup Ackers
    BY Facts DEF Registered, Clients
  <2>6. Unstopped' = Registered
    BY <2>3, <2>4, <2>5 DEF Unstopped
  <2>7. Cardinality(Registered) \in Nat /\ Cardinality(Registered) # 0
    <3>1. Registered \in SUBSET Clients /\ Gui \in Registered
      BY <2>5, UsbAssumption DEF Registered
    <3>2. IsFiniteSet(Registered)
      BY <3>1, UsbAssumption, FS_Subset
    <3> QED
      BY <3>1, <3>2, FS_CardinalityType, FS_EmptySet
  <2> QED
    BY <2>1, <2>2, <2>6, <2>7 DEF AcksExact, Coming
<1> QED
  BY <1>1, <1>2, <1>3, <1>4 DEF SetConfigDisk

(* The last ack of the current request gives the disk away. *)
LEMMA AckCounted ==
    ASSUME HandoverInv, AcksExact, HandleAck
    PROVE  AcksExact'
<1>1. /\ usbQueue # <<>> /\ Head(usbQueue).id = "SYS_USB_CONNECTED_ACK"
      /\ usbQueue' = Tail(usbQueue)
      /\ UNCHANGED <<connVars, requested, seqnum, clientVars>>
  BY DEF HandleAck, Receive
<1>2. acks \in Nat
  BY UsbAssumption, FS_CardinalityType DEF HandoverInv, TypeOK, DiskTypes
<1>3. CASE Head(usbQueue).data # seqnum
  <2>1. UNCHANGED diskVars
    BY <1>1, <1>3 DEF HandleAck, diskVars
  <2>2. Head(usbQueue) # Ack(seqnum)
    BY <1>3 DEF Ack, Msg
  <2> QED
    BY <1>1, <2>1, <2>2, TakeCounted
<1>4. CASE Head(usbQueue).data = seqnum
  <2> SUFFICES ASSUME requested', ~enabled'
               PROVE  (acks > 0 /\ acks = Coming)'
    BY DEF AcksExact
  <2>1. CASE acks = 0
    <3>1. ~(requested /\ ~enabled)
      BY <2>1 DEF AcksExact
    <3>2. enabled' = enabled
      BY <2>1 DEF HandleAck
    <3> QED
      BY <1>1, <3>1, <3>2
  <2>2. CASE acks # 0
    <3>1. /\ acks' = acks - 1 /\ ~(acks' = 0 /\ hostPresent /\ requested)
          /\ enabled' = enabled
      BY <1>4, <2>2 DEF HandleAck
    <3>2. hostPresent /\ requested /\ ~enabled
      BY <1>1, <3>1 DEF HandoverInv, RequestJustified
    <3>3. Head(usbQueue) = Ack(seqnum)
      <4>1. Head(usbQueue) \in UsbMsgs
        BY <1>1, TailFacts
      <4>2. \E n \in 1..MaxSeq : Head(usbQueue) = Ack(n)
        BY <1>1, <4>1 DEF UsbMsgs, Ack, Msg
      <4> QED
        BY <1>4, <4>2 DEF Ack, Msg
    <3>4. Acks(usbQueue, seqnum) = Acks(usbQueue', seqnum) + 1
      BY <1>1, <3>3, Facts, Taken
    <3>5. Unstopped' = Unstopped /\ seqnum' = seqnum
      BY <1>1 DEF Unstopped, Stopped, clientVars
    <3>6. /\ Cardinality(Unstopped) \in Nat /\ Acks(usbQueue', seqnum) \in Nat
      BY <1>1, Facts, TailFacts, Counted
    <3>7. acks = Cardinality(Unstopped) + Acks(usbQueue, seqnum)
      BY <3>2 DEF AcksExact, Coming
    <3> QED
      BY <1>2, <2>2, <3>1, <3>2, <3>4, <3>5, <3>6, <3>7 DEF Coming
  <2> QED
    BY <2>1, <2>2
<1> QED
  BY <1>3, <1>4

LEMMA UsbThreadCounted ==
    ASSUME Plugins = {}, HandoverInv, HandoverInv', AcksExact, UsbThread
    PROVE  AcksExact'
<1>1. usbQueue # <<>> => UsbQueueOK(Tail(usbQueue), seqnum)
  BY TailFacts
<1>2. CASE Head(usbQueue) = Ack(seqnum) /\ ~HandleAck
  <2>1. Head(usbQueue).id = "SYS_USB_CONNECTED_ACK"
    BY <1>2 DEF Ack, Msg
  <2> QED
    BY <1>2, <2>1
    DEF UsbThread, HandleBusReset, HandleCompletion, HandleInserted, HandleExtracted,
        Receive, Completion
<1>3. CASE Head(usbQueue) # Ack(seqnum) /\ ~HandleAck
  <2>1. CASE HandleBusReset
    <3>1. \/ SetConfig(0, storageDriver, Tail(usbQueue))
          \/ usbQueue' = Tail(usbQueue) /\ UNCHANGED <<diskVars, clientVars>>
      BY <2>1 DEF HandleBusReset
    <3>2. usbQueue # <<>>
      BY <2>1 DEF HandleBusReset, Receive
    <3> QED
      BY <1>1, <1>3, <3>1, <3>2, SetConfigCounted, TakeCounted
  <2>2. CASE HandleCompletion
    <3>1. \/ SetConfig(Head(usbQueue).data, storageDriver', Tail(usbQueue))
          \/ usbQueue' = Tail(usbQueue) /\ UNCHANGED <<diskVars, clientVars>>
      BY <2>2 DEF HandleCompletion
    <3>2. usbQueue # <<>>
      BY <2>2 DEF HandleCompletion
    <3> QED
      BY <1>1, <1>3, <3>1, <3>2, SetConfigCounted, TakeCounted
  <2>3. CASE HandleInserted
    BY <1>3, <2>3, TakeCounted DEF HandleInserted, Receive
  <2>4. CASE HandleExtracted
    <3>1. \/ SetConfig(0, storageDriver, Tail(usbQueue))
          \/ usbQueue' = Tail(usbQueue) /\ UNCHANGED <<diskVars, clientVars>>
      BY <2>4 DEF HandleExtracted
    <3>2. usbQueue # <<>>
      BY <2>4 DEF HandleExtracted, Receive
    <3> QED
      BY <1>1, <1>3, <3>1, <3>2, SetConfigCounted, TakeCounted
  <2> QED
    BY <1>3, <2>1, <2>2, <2>3, <2>4 DEF UsbThread
<1> QED
  BY <1>2, <1>3, AckCounted

LEMMA StepCounted ==
    ASSUME Plugins = {}, HandoverInv, HandoverInv', AcksExact, [Next]_vars
    PROVE  AcksExact'
<1>1. CASE (\E in \in BOOLEAN : CableInterrupt(in)) \/ StartMonitoring \/ UNCHANGED vars
  BY <1>1, QuietCounted DEF CableInterrupt, StartMonitoring, vars, diskVars, clientVars
<1>2. CASE DebounceExpired
  <2>1. UNCHANGED <<diskVars, clientVars>>
    BY <1>2 DEF DebounceExpired
  <2>2. \/ usbQueue' = usbQueue
        \/ usbQueue' = Append(usbQueue, Msg(IF cable THEN "USB_INSERTED" ELSE "USB_EXTRACTED", 0))
    BY <1>2 DEF DebounceExpired
  <2>3. LET m == Msg(IF cable THEN "USB_INSERTED" ELSE "USB_EXTRACTED", 0)
        IN  m \in UsbMsgs /\ m.id # "SYS_USB_CONNECTED_ACK"
    BY DEF UsbMsgs, Msg
  <2> QED
    BY <2>1, <2>2, <2>3, QuietCounted, PostCounted
<1>3. ASSUME NEW m \in {Msg("SET_CONFIGURATION", c) : c \in Configs} \cup {Msg("OTHER_REQUEST", 0)},
             HostRequest(m)
      PROVE  AcksExact'
  <2>1. m \in UsbMsgs /\ m.id # "SYS_USB_CONNECTED_ACK"
    BY DEF UsbMsgs, Msg
  <2> QED
    BY <1>3, <2>1, PostCounted DEF HostRequest
<1>4. CASE BusReset
  <2>1. Msg("BUS_RESET", 0) \in UsbMsgs /\ Msg("BUS_RESET", 0).id # "SYS_USB_CONNECTED_ACK"
    BY DEF UsbMsgs, Msg
  <2> QED
    BY <1>4, <2>1, PostCounted DEF BusReset
<1>5. UsbThread => AcksExact'
  BY UsbThreadCounted
<1>6. ASSUME NEW c \in Clients, ClientStep(c) \/ StartPlayback(c)
      PROVE  AcksExact'
  <2>1. SameComing
    BY <1>6, ClientStepKeeps, StartPlaybackKeeps
  <2>2. UNCHANGED diskVars
    BY <1>6 DEF ClientStep, StartPlayback, TakeConnected, StopPlayback, Acknowledge, Resume,
                AckAndGoOn, Ignore, othersUnchanged
  <2> QED
    BY <2>1, <2>2 DEF AcksExact, SameComing, diskVars
<1>7. \A c \in Clients : ~StartPlugin(c) /\ ~EndPlugin(c)
  BY DEF StartPlugin, EndPlugin
<1>8. ASSUME NEW config \in Configs, HostRequest(Msg("SET_CONFIGURATION", config))
      PROVE  AcksExact'
  BY <1>3, <1>8
<1>9. HostRequest(Msg("OTHER_REQUEST", 0)) => AcksExact'
  BY <1>3
<1> QED
  BY <1>1, <1>2, <1>4, <1>5, <1>6, <1>7, <1>8, <1>9 DEF Next

(* The acks expected are exactly those that are under way or that threads  *)
(* still owe for the current request, and there is at least one as long as *)
(* the disk has not been given: withdrawn requests and their late acks     *)
(* never disturb the count (usb_num_acks_to_expect).  A plugin's queue is  *)
(* counted but not acknowledged, and an audio thread that clears its queue *)
(* owes an ack that nothing shows; hence the two assumptions.              *)
THEOREM HandoverAcksExact ==
    ASSUME Players = {}, Plugins = {}
    PROVE  Spec => []AckAccounting
<1>1. Init => AcksExact /\ AllHeard
  BY UsbAssumption
  DEF Init, AcksExact, AllHeard, Heard, InTurn, LastOf, CurrentNews, Clients
<1>2. HandoverInv /\ HandoverInv' /\ AllHeard /\ [Next]_vars => AllHeard'
  BY StepHeard
<1>3. HandoverInv /\ HandoverInv' /\ AcksExact /\ [Next]_vars => AcksExact'
  BY StepCounted
<1>4. HandoverInv /\ AllHeard /\ AcksExact => AckAccounting
  BY OwingUnstopped DEF AcksExact, Coming, AckAccounting, AcksInFlight, Acks
<1> QED
  BY HandoverInvInductive, <1>1, <1>2, <1>3, <1>4, PTL DEF Spec

=============================================================================
