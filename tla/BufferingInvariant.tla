------------------------- MODULE BufferingInvariant -------------------------
(***************************************************************************)
(* What makes Buffering safe: the layout of the ring, what a handle's      *)
(* fields say of each other, and what each thread remembers.  It is        *)
(* inductive, as BufferingProofs shows, for the sessions Ordinary allows.  *)
(***************************************************************************)
EXTENDS Buffering

(* How far q is behind p on the ring. *)
Gap(p, q) == IF p <= q THEN q - p ELSE q + buffer_len - p

(* A handle's data begins Off behind its header's start; it holds Held     *)
(* bytes, and its whole file from `start` on would reach to Whole.         *)
Off(h) == Gap(h.at, h.data)
Held(h) == Least(h.end, h.filesize) - h.start
Ext(h) == Off(h) + Held(h)
Whole(h) == Off(h) + h.filesize - h.start

(* One handle's fields agree with each other. *)
Shape(h) ==
    /\ h \in HandleType
    /\ h.size = HeaderSize(h.type) /\ h.at + h.size <= buffer_len /\ h.size <= Off(h)
    /\ h.start <= h.end /\ h.start <= h.pos /\ h.start <= h.filesize
    /\ Off(h) + h.end - h.start <= buffer_len
    /\ h.ridx = ringbuf_add(h.data, h.pos - h.start)
    /\ h.widx = ringbuf_add(h.data, h.end - h.start)
    /\ h.fd # None => h.fd = h.end
    /\ h.fd = None => h.end >= h.filesize \/ h.end = h.start
    /\ h.type # "audio" => Off(h) = h.size
    /\ ~CanWrap(h.type) => h.at = 0 \/ h.at + Whole(h) <= buffer_len
    /\ AllocAll(h.type) => h.start = 0

(* No two handles of L overlap, they lie on the ring in the order of their *)
(* ids, and what is kept whole has room for all of its file, but for the   *)
(* last handle, which is given what it needs before another is opened.     *)
Apart(hs, L) == \A a, b \in L : a # b => Ext(hs[a]) <= Gap(hs[a].at, hs[b].at)
InOrder(hs, L) ==
    \A a, b, c \in L : a < b /\ b < c => Gap(hs[a].at, hs[b].at) <= Gap(hs[a].at, hs[c].at)
HasRoom(hs, L, a) ==
    /\ Whole(hs[a]) <= buffer_len
    /\ \A b \in L : b # a => Whole(hs[a]) <= Gap(hs[a].at, hs[b].at)
RoomForAll(hs, L) ==
    \A a \in L : hs[a].type # "audio" /\ (AllocAll(hs[a].type) \/ \E c \in L : c > a)
                   => HasRoom(hs, L, a)
Laid(hs, L) ==
    /\ \A a \in L : Shape(hs[a])
    /\ Apart(hs, L) /\ InOrder(hs, L) /\ RoomForAll(hs, L)

(* The ring holds the header and the bytes of handle id; by distance from  *)
(* the header's start.                                                     *)
Holds(mem, id, h) ==
    \A x \in Addresses :
        /\ Gap(h.at, x) < h.size => mem[x] = <<id, Header>>
        /\ Gap(h.at, x) \in Off(h) .. Ext(h) - 1 => mem[x] = <<id, h.start + (Gap(h.at, x) - Off(h))>>

(* The ring holds the handles of L, whole and apart.                       *)
Stands(mem, hs, L) ==
    DOMAIN mem = Addresses /\ Laid(hs, L) /\ \A a \in L : Holds(mem, a, hs[a])

(* Ids grow along the list, which is in buffer order. *)
Sorted(list) ==
    list \in Seq(Nat) /\ \A i, j \in DOMAIN list : i < j => list[i] < list[j]

-----------------------------------------------------------------------------
(* The inductive invariant                                                 *)

(* What a session may ask for.  Data that must not wrap is not padded, for *)
(* shrink_handle does not move the padding; a file that is moved whole is  *)
(* not sought in, and one that is sought in can be read.                   *)
Ordinary ==
    /\ ~Cramped /\ ~Racing
    /\ \A s \in Sessions : \A i \in DOMAIN s.files :
         /\ StorageAlign = 1 \/ s.files[i].type \notin {"atomic", "codec"}
         /\ s.seeks = 0 \/ ( /\ s.files[i].type # "atomic"
                             /\ s.files[i].type = "audio" => ~s.files[i].broken)

BtType ==
    [pc : {"wait", "enter", "open", "metadata", "chunk", "read", "yield", "return",
           "fill", "tail", "count", "reset"},
     id : Nat, to_buffer : Int, copy_n : Nat, stop : BOOLEAN,
     then : {"tail", "start", "try", "fill"}, newpos : Nat, timeout : BOOLEAN]
AudioType ==
    [pc : {"idle", "loading", "clearing", "calling", "halting"}, id : Nat, close : SUBSET Ids,
     done : BOOLEAN]
CodecType ==
    [pc : {"idle", "new", "calling", "sleeping"}, id : Nat, size : Nat, held : Nat, pos : Nat,
     ridx : Nat]
MessageType ==
    [ev : {"added", "close", "start", "rebuffer"}, id : Nat, pos : Nat, from : {"audio", "codec"}]

(* The handles in the ring: a bitmap is there before it is linked. *)
There == ToSet(handle_list) \cup (IF audio.pc = "loading" THEN {audio.id} ELSE {})

(* A seek is under way: the codec's handle is short of its read position.  *)
Trying == bt.then = "try" \/ bt.pc = "reset"

TypePart ==
    /\ handle \in [Ids -> HandleType] /\ session \in Sessions
    /\ nextId \in 1 .. Len(session.files) + 1 /\ base_handle_id \in 0 .. Len(session.files)
    /\ asked \in Seq({"low", "rebuffer"}) /\ filling \in BOOLEAN
    /\ bt \in BtType /\ audio \in AudioType /\ codec \in CodecType /\ queue \in Seq(MessageType)

ListPart ==
    /\ Sorted(handle_list)
    /\ \A id \in ToSet(handle_list) :
         id # 0 /\ id < nextId /\ handle[id].type = session.files[id].type
    /\ audio.pc = "loading" =>
         /\ audio.id = nextId - 1 /\ audio.id # 0 /\ audio.id \notin ToSet(handle_list)
         /\ handle[audio.id].type = "bitmap" /\ handle[audio.id].type = session.files[audio.id].type
         /\ handle[audio.id].filesize # 0 /\ handle[audio.id].end = 0 /\ handle[audio.id].fd = None

StandPart == Stands(buffer, handle, There)

CursorPart ==
    \A id \in There : /\ handle[id].pos <= handle[id].filesize
                      /\ handle[id].pos <= handle[id].end \/ (Trying /\ id = bt.id)

(* Room for what is being read. *)
ReadRoom ==
    /\ bt.copy_n # 0 /\ H.end + bt.copy_n <= H.filesize
    /\ Ext(H) + bt.copy_n <= buffer_len
    /\ \A b \in There : b # bt.id => Ext(H) + bt.copy_n <= Gap(H.at, handle[b].at)

BtPart ==
    /\ \/ bt.pc \in {"open", "metadata", "chunk", "read", "yield", "fill", "reset"}
       \/ bt.then \in {"fill", "try"}
       => Linked(bt.id)
    /\ bt.pc \in {"wait", "tail", "fill", "count"} => bt.then \notin {"fill", "try"}
    /\ bt.pc = "open" => H.fd = None /\ H.end = H.start
    /\ bt.pc = "metadata" => H.type = "id3" /\ H.end = H.start
    /\ bt.pc \in {"chunk", "read", "yield"} => H.fd # None
    /\ bt.pc = "read" => ReadRoom
    /\ Trying => /\ bt.id = codec.id /\ codec.pc = "calling" /\ H.type = "audio"
                 /\ session.seeks # 0 /\ bt.newpos <= H.filesize

AudioPart ==
    /\ audio.pc \in {"idle", "loading", "halting"} => audio.close = {}
    /\ codec.id \notin audio.close

CodecPart ==
    /\ codec.id # 0 => /\ Linked(codec.id) /\ C.type \in {"audio", "atomic", "codec"}
                       /\ C.type # "codec" => C.pinned
    /\ codec.pc # "idle" => codec.id # 0 /\ codec.held = 0
    /\ codec.held # 0 =>
         /\ codec.id # 0 /\ C.type # "codec"
         /\ codec.pos = C.pos /\ codec.ridx = C.ridx
         /\ C.pos + codec.held <= C.end /\ C.pos + codec.held <= C.filesize

(* A seek that waits is within the file, and if not an audio file's, then  *)
(* within what was read of it.                                             *)
RebufferOK(pos) ==
    /\ pos <= C.filesize
    /\ (C.type = "audio" /\ session.seeks # 0) \/ (C.pos <= pos /\ pos <= C.end)

MessageOK(m) ==
    /\ m.ev \in {"start", "rebuffer"} => m.from = "codec"
    /\ m.from = "codec" => m.id = codec.id /\ codec.pc = "calling" /\ ~Trying
    /\ m.ev = "close" /\ m.from # "codec" => audio.pc = "calling" /\ m.id \notin {0, codec.id}
    /\ m.ev = "rebuffer" => RebufferOK(m.pos)

(* At most one message of the codec thread, at most one close of the audio *)
(* thread's.                                                               *)
Single(q) ==
    \A i, j \in DOMAIN q :
        /\ q[i].from = "codec" /\ q[j].from = "codec" => i = j
        /\ q[i].ev = "close" /\ q[i].from # "codec" /\ q[j].ev = "close" /\ q[j].from # "codec" => i = j

QueuePart == (\A i \in DOMAIN queue : MessageOK(queue[i])) /\ Single(queue)

BufferingInv ==
    /\ TypePart /\ ListPart /\ StandPart /\ CursorPart
    /\ BtPart /\ AudioPart /\ CodecPart /\ QueuePart

(* The inductive invariant, with the count of seeks that Seek compares     *)
(* with the session's.                                                     *)
Sound == BufferingInv /\ seeks \in Nat
=============================================================================
