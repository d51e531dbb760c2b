----------------------------- MODULE Buffering ------------------------------
(***************************************************************************)
(* apps/buffering.c: files are read ahead into a ring from which the codec *)
(* reads them.                                                             *)
(*                                                                         *)
(* Three threads: the buffering thread (bt), which alone loads audio from  *)
(* the disk, moves handles and closes them; the audio thread (audio),      *)
(* which opens handles and asks for closes; the codec thread (codec),      *)
(* which reads one handle.  They are cooperative: between two places where *)
(* a thread may give up the processor its code is one step, or several     *)
(* during which CanRun keeps the others out.  The buffering thread gives   *)
(* it up in queue_wait, open, read, get_metadata_ex and yield, and for     *)
(* llist_mutex, which the audio thread holds across load_image.            *)
(*                                                                         *)
(* `buffer` holds, in place of bytes, whose they are: <<id, offset>> for a *)
(* byte of the file of handle id, <<id, Header>> for its memory_handle.    *)
(***************************************************************************)
EXTENDS HandleRing, Sequences, FiniteSets, SequencesExt

CONSTANTS
    Sessions,     \* [files, seeks]: what is opened in turn, and how many seeks (a bound)
    Chunk,        \* BUFFERING_DEFAULT_FILECHUNK
    Guard,        \* GUARD_BUFSIZE
    Watermark,    \* the low watermark the audio thread computes
    Wants,        \* amounts the codec asks for; 0 is as much as there is
    Leftovers,    \* how much of what it was given a codec leaves unread
    Cramped,      \* BOOLEAN: files are opened where the padding does not fit
    Racing,       \* BOOLEAN: a file is stripped while the disk reads it
    Finishes,     \* BOOLEAN: the playlist ends, and the audio thread stops watching
    None

Ids == UNION {DOMAIN s.files : s \in Sessions}   \* bound: handles ever opened
Header == -1
Types == {"audio", "atomic", "codec", "id3", "bitmap", "raw"}

ASSUME BufferingAssumption ==
    /\ \A s \in Sessions :
         /\ s.seeks \in Nat
         /\ s.files \in Seq([type : Types, size : Nat \ {0}, offset : Nat,
                            tag : Nat,          \* what the codec may strip
                            broken : BOOLEAN])  \* it may fail to open, read, load
         /\ \A i \in DOMAIN s.files :
              /\ s.files[i].offset <= s.files[i].size
              /\ AllocAll(s.files[i].type) => s.files[i].offset = 0
    /\ {Chunk, Guard, Watermark} \subseteq Nat \ {0} /\ Wants \cup Leftovers \subseteq Nat
    /\ {Cramped, Racing, Finishes} \subseteq BOOLEAN
    /\ None \notin Nat

VARIABLES
    buffer,
    handle_list,   \* ids in buffer order
    handle,        \* id -> struct memory_handle
    nextId,        \* next_handle_id
    queue,         \* buffering_queue
    bt, filling,   \* the buffering thread, with the locals of buffer_handle
    audio, codec,
    asked,         \* the buffer events in audio_queue, oldest first
    conf_watermark, base_handle_id,
    session, seeks

memory == <<buffer, handle_list, handle>>
settings == <<conf_watermark, base_handle_id>>
vars == <<memory, nextId, queue, bt, filling, audio, codec, asked, settings, session, seeks>>

NoHandle == [at |-> 0, size |-> 0, type |-> "raw", pinned |-> FALSE, signaled |-> FALSE,
             fd |-> None, data |-> 0, ridx |-> 0, widx |-> 0,
             filesize |-> 0, start |-> 0, pos |-> 0, end |-> 0]
AtQueue == [pc |-> "wait", id |-> 0, to_buffer |-> 0, copy_n |-> 0, stop |-> FALSE,
            then |-> "tail", newpos |-> 0, timeout |-> FALSE]
AudioIdle == [pc |-> "idle", id |-> 0, close |-> {}, done |-> FALSE]
CodecIdle == [pc |-> "idle", id |-> 0, size |-> 0, held |-> 0, pos |-> 0, ridx |-> 0]

Init ==  \* after buffering_reset
    /\ buffer = [i \in 0 .. buffer_len - 1 |-> <<0, Header>>]
    /\ handle_list = <<>>
    /\ handle = [i \in Ids |-> NoHandle]
    /\ nextId = 1
    /\ queue = <<>>
    /\ bt = AtQueue /\ filling = FALSE
    /\ audio = AudioIdle /\ codec = CodecIdle
    /\ asked = <<>>
    /\ conf_watermark = 0 /\ base_handle_id = 0
    /\ session \in Sessions /\ seeks = 0

-----------------------------------------------------------------------------
(* Handles *)

Linked(id) == id \in ToSet(handle_list)

(* HLIST_NEXT *)
HasNext(id) == id # Last(handle_list)
NextId(id) == handle_list[CHOOSE i \in DOMAIN handle_list : i > 1 /\ handle_list[i - 1] = id]

(* The list with handle id unlinked; it need not be there. *)
Without(id) ==
    IF Linked(id) THEN RemoveAt(handle_list, CHOOSE i \in DOMAIN handle_list : handle_list[i] = id)
    ELSE handle_list

(* The offset behind which h's data may not grow: HLIST_NEXT(h) ?: HLIST_FIRST *)
Limit(id) == handle[IF HasNext(id) THEN NextId(id) ELSE Head(handle_list)].at

(* n bytes of the file of handle id, from offset `from` on, written at p *)
WithBytes(mem, p, id, from, n) ==
    [i \in DOMAIN mem |-> IF ringbuf_sub_empty(i, p) < n
                          THEN <<id, from + ringbuf_sub_empty(i, p)>> ELSE mem[i]]

WithHeader(mem, p, id, n) ==
    [i \in DOMAIN mem |-> IF i \in p .. p + n - 1 THEN <<id, Header>> ELSE mem[i]]

(* Bytes that a handle no longer refers to are nobody's. *)
Outdated(mem, id, h) ==
    [i \in DOMAIN mem |->
       IF /\ mem[i][1] = id
          /\ i \notin h.at .. h.at + h.size - 1
          /\ ringbuf_sub_empty(i, h.data) >= h.end - h.start
       THEN <<0, Header>> ELSE mem[i]]

-----------------------------------------------------------------------------
(* shrink_handle, on s = [mem, h]: audio lets go of what was read, other   *)
(* data moves up to the next handle unless it is pinned.                   *)

(* Mutant: pinned data moves. *)
StaysUnlessNext(h, id) == h.type # "audio" /\ ~HasNext(id)

Stays(h, id) == h.type # "audio" /\ (h.pinned \/ ~HasNext(id))

(* h after its header, or all of it, moved as mv says. *)
(* Mutant: the offset of the first byte held is not moved on. *)
MovedStartKept(h, mv) ==
    LET to(p) == ringbuf_add(p, mv.delta)
    IN  IF h.type = "audio" THEN [h EXCEPT !.at = mv.at, !.data = to(@)]
        ELSE [h EXCEPT !.at = mv.at, !.data = to(@), !.ridx = to(@), !.widx = to(@)]

Moved(h, mv) ==
    LET to(p) == ringbuf_add(p, mv.delta)
    IN  IF h.type = "audio"
        THEN [h EXCEPT !.at = mv.at, !.data = to(@), !.start = @ + mv.delta]
        ELSE [h EXCEPT !.at = mv.at, !.data = to(@), !.ridx = to(@), !.widx = to(@)]

shrink_handle(s, id) ==
    LET h == s.h[id]
        data_size == h.filesize - h.start
        room == ringbuf_sub_empty(s.h[NextId(id)].at, h.data) - data_size
        mv == IF h.type = "audio" THEN move_handle(s.mem, h, ringbuf_sub_empty(h.ridx, h.data), 0)
              ELSE move_handle(s.mem, h, room % Word, data_size)
        new == Moved(h, mv)
    IN  IF Stays(h, id) \/ ~mv.moved THEN s
        ELSE [mem |-> Outdated(mv.mem, id, new), h |-> [s.h EXCEPT ![id] = new]]

Memory == [mem |-> buffer, h |-> handle]
shrink_buffer ==  \* from the last handle to the first
    LET n == Len(handle_list)
        shrunk[k \in 0 .. n] == IF k = 0 THEN Memory
                                ELSE shrink_handle(shrunk[k - 1], handle_list[n + 1 - k])
    IN  shrunk[n]

SetMemory(s) == buffer' = s.mem /\ handle' = s.h

-----------------------------------------------------------------------------
(* update_data_counters *)

remaining == FoldSeq(LAMBDA id, n : n + handle[id].filesize - handle[id].end, 0, handle_list)
useful ==
    LET from == IF Linked(base_handle_id)
                THEN CHOOSE i \in DOMAIN handle_list : handle_list[i] = base_handle_id ELSE 1
    IN  FoldSeq(LAMBDA id, n : n + handle[id].end - handle[id].pos, 0,
                SubSeq(handle_list, from, Len(handle_list)))

(* useful < BUF_WATERMARK, as size_t *)
Low == useful % Word < Least(conf_watermark, (3 * buffer_len) \div 4)

-----------------------------------------------------------------------------
(* Scheduling *)

MutexFree == audio.pc # "loading"   \* llist_mutex

(* The other threads run where the buffering thread gives up the processor. *)
CanRun == \/ bt.pc \in {"wait", "open", "metadata", "read", "yield"}
          \/ ~MutexFree /\ bt.pc \in {"chunk", "reset", "count", "tail"}

Go(pc) == bt' = [bt EXCEPT !.pc = pc]
GoTail == bt' = [AtQueue EXCEPT !.pc = "tail"]
Return(ok) == bt' = [bt EXCEPT !.pc = "return", !.stop = ~ok]

(* send_event: the audio thread's callbacks post to its queue.  An event   *)
(* that is already there is not posted again.                              *)
send_event(event) == IF event \in ToSet(asked) THEN asked ELSE Append(asked, event)

(* buffer_handle(id, n) is called, and what follows it. *)
buffer_handle(id, n, then) ==
    bt' = [AtQueue EXCEPT !.pc = "enter", !.id = id, !.to_buffer = n, !.then = then]

Post(ev, id, pos, from) == Append(queue, [ev |-> ev, id |-> id, pos |-> pos, from |-> from])

-----------------------------------------------------------------------------
(* buffer_handle *)

H == handle[bt.id]
SetH(h) == handle' = [handle EXCEPT ![bt.id] = h]
Outside == <<handle_list, nextId, queue, filling, audio, codec, asked, settings, session, seeks>>

Enter ==
    /\ bt.pc = "enter"
    /\ IF ~Linked(bt.id) \/ H.end >= H.filesize THEN Return(TRUE)
       ELSE Go(IF H.fd = None THEN "open" ELSE "chunk")
    /\ UNCHANGED <<Outside, buffer, handle>>

Opened ==
    /\ bt.pc = "open"
    /\ SetH([H EXCEPT !.fd = H.start])
    /\ Go(IF H.type = "id3" THEN "metadata" ELSE "chunk")
    /\ UNCHANGED <<Outside, buffer>>

OpenFails ==
    /\ bt.pc = "open" /\ session.files[bt.id].broken
    /\ SetH([H EXCEPT !.filesize = H.end])
    /\ Return(TRUE)
    /\ UNCHANGED <<Outside, buffer>>

MetadataRead ==
    /\ bt.pc = "metadata"
    /\ buffer' = WithBytes(buffer, H.data, bt.id, 0, H.filesize)
    /\ SetH([H EXCEPT !.fd = None, !.widx = ringbuf_add(H.data, H.filesize),
                      !.end = H.filesize])
    /\ Return(TRUE)
    /\ UNCHANGED Outside

(* How far copy_n more bytes would reach into the next handle. *)
(* Mutant: a handle that ends where the next begins is taken for empty. *)
OverlapAliased(copy_n) == ringbuf_add_cross_empty(H.widx, copy_n, Limit(bt.id))

Overlap(copy_n) == ringbuf_add_cross_full(H.widx, copy_n, Limit(bt.id))

ReadChunk ==
    /\ bt.pc = "chunk" /\ MutexFree
    /\ LET copy_n == Least(Least(H.filesize - H.end, Chunk), buffer_len - H.widx)
           n == IF Overlap(copy_n) > 0 THEN copy_n - Overlap(copy_n) ELSE copy_n
       IN  IF n <= 0 THEN Return(FALSE)
           ELSE bt' = [bt EXCEPT !.pc = "read", !.copy_n = n, !.stop = Overlap(copy_n) > 0]
    /\ UNCHANGED <<Outside, buffer, handle>>

ReadDone ==
    /\ bt.pc = "read"
    /\ buffer' = WithBytes(buffer, H.widx, bt.id, H.fd, bt.copy_n)
    /\ SetH([H EXCEPT !.widx = ringbuf_add(@, bt.copy_n), !.end = @ + bt.copy_n,
                      !.fd = @ + bt.copy_n])
    /\ Go("yield")
    /\ UNCHANGED Outside

(* The loop is left: a handle that is complete is closed. *)
LeaveWith(h) ==
    /\ SetH(IF h.end >= h.filesize THEN [h EXCEPT !.fd = None] ELSE h)
    /\ Return(~bt.stop)

ReadFails ==
    /\ bt.pc = "read" /\ session.files[bt.id].broken
    /\ LeaveWith(IF H.type = "codec" THEN H ELSE [H EXCEPT !.filesize = H.end])
    /\ UNCHANGED <<Outside, buffer>>

(* yield() returns: on with the next chunk, or enough was read. *)
Yielded ==
    /\ bt.pc = "yield"
    /\ LET enough == IF bt.to_buffer = 0 THEN queue # <<>> ELSE bt.to_buffer <= bt.copy_n
       IN  IF enough \/ bt.stop \/ H.end >= H.filesize THEN LeaveWith(H)
           ELSE /\ bt' = [bt EXCEPT !.pc = "chunk", !.copy_n = 0,
                             !.to_buffer = IF @ = 0 THEN 0 ELSE @ - bt.copy_n]
                /\ UNCHANGED handle
    /\ UNCHANGED <<Outside, buffer>>

-----------------------------------------------------------------------------
(* buffering_thread *)

Message(ev) == bt.pc = "wait" /\ queue # <<>> /\ Head(queue).ev = ev
Msg == Head(queue)
Untouched == <<nextId, settings, session, seeks>>

(* queue_reply to the codec thread, which goes on at pc *)
ReplyCodec(pc) == codec' = [codec EXCEPT !.pc = pc]

HandleAdded ==
    /\ Message("added")
    /\ queue' = Tail(queue) /\ filling' = TRUE /\ GoTail
    /\ UNCHANGED <<memory, audio, codec, asked, Untouched>>

CloseHandle ==
    /\ Message("close") /\ MutexFree
    /\ queue' = Tail(queue) /\ GoTail
    /\ handle_list' = Without(Msg.id)
    /\ handle' = [handle EXCEPT ![Msg.id] = NoHandle]
    /\ buffer' = Outdated(buffer, Msg.id, NoHandle)
    /\ IF Msg.from = "codec" THEN codec' = CodecIdle /\ UNCHANGED audio
       ELSE /\ audio' = [audio EXCEPT !.pc = "clearing"]
            /\ UNCHANGED codec
    /\ UNCHANGED <<filling, asked, Untouched>>

StartFill ==
    /\ Message("start") /\ MutexFree
    /\ queue' = Tail(queue)
    /\ SetMemory(shrink_buffer)
    /\ ReplyCodec("sleeping")
    /\ buffer_handle(Msg.id, 0, "start")
    /\ UNCHANGED <<handle_list, filling, audio, asked, Untouched>>

RebufferHandle ==
    /\ Message("rebuffer")
    /\ queue' = Tail(queue)
    /\ LET id == Msg.id
           newpos == Msg.pos
           h == handle[id]
           moved == [handle EXCEPT ![id].ridx = ringbuf_add(h.data, newpos - h.start),
                                   ![id].pos = newpos]
       IN  IF ~Linked(id)
           THEN ReplyCodec("idle") /\ GoTail /\ UNCHANGED handle
           ELSE IF newpos \in h.start .. h.end
           THEN ReplyCodec("idle") /\ GoTail /\ handle' = moved
           ELSE IF newpos - h.pos \in 1 .. Chunk
           THEN /\ handle' = moved
                /\ bt' = [AtQueue EXCEPT !.pc = "enter", !.id = id, !.then = "try",
                            !.to_buffer = newpos - h.pos + 1, !.newpos = newpos]
                /\ UNCHANGED codec
           ELSE /\ bt' = [AtQueue EXCEPT !.pc = "reset", !.id = id, !.newpos = newpos]
                /\ UNCHANGED <<handle, codec>>
    /\ UNCHANGED <<buffer, handle_list, filling, audio, asked, Untouched>>

(* The handle starts again at newpos with an empty buffer. *)
Reset ==
    /\ bt.pc = "reset" /\ MutexFree
    /\ LET behind == ringbuf_add(H.at, H.size)
           wanted == StoragePad(bt.newpos, behind)
           pad == IF ringbuf_add_cross_full(behind, wanted, Limit(bt.id)) > 0 THEN 0 ELSE wanted
           index == ringbuf_add(behind, pad)
           new == [H EXCEPT !.ridx = index, !.widx = index, !.data = index,
                            !.start = bt.newpos, !.pos = bt.newpos, !.end = bt.newpos,
                            !.fd = IF H.fd = None THEN None ELSE bt.newpos]
       IN  /\ SetH(new) /\ buffer' = Outdated(buffer, bt.id, new)
           /\ asked' = IF /\ HasNext(bt.id)
                          /\ ringbuf_add_cross_full(index, H.filesize - bt.newpos, Limit(bt.id)) > 0
                       THEN send_event("rebuffer") ELSE asked
    /\ ReplyCodec("idle")
    /\ buffer_handle(bt.id, 0, "tail")
    /\ UNCHANGED <<handle_list, queue, filling, audio, Untouched>>

(* What follows buffer_handle in the case that called it. *)
StartReturns ==
    /\ bt.pc = "return" /\ bt.then = "start"
    /\ filling' = (filling \/ ~bt.stop)
    /\ IF bt.stop /\ handle_list # <<>> /\ conf_watermark > 0 THEN Go("count") ELSE GoTail
    /\ UNCHANGED <<memory, queue, audio, codec, asked, Untouched>>

CountAfterStart ==
    /\ bt.pc = "count" /\ MutexFree
    /\ asked' = IF Low THEN asked ELSE send_event("low")
    /\ GoTail
    /\ UNCHANGED <<memory, queue, filling, audio, codec, Untouched>>

TryReturns ==
    /\ bt.pc = "return" /\ bt.then = "try"
    /\ IF ~bt.stop /\ H.end >= H.pos
       THEN ReplyCodec("idle") /\ buffer_handle(bt.id, 0, "tail")
       ELSE /\ bt' = [bt EXCEPT !.pc = "reset", !.newpos = Least(@, H.filesize)]
            /\ UNCHANGED codec
    /\ UNCHANGED <<memory, queue, filling, audio, asked, Untouched>>

RestReturns ==
    /\ bt.pc = "return" /\ bt.then = "tail"
    /\ GoTail
    /\ UNCHANGED <<memory, queue, filling, audio, codec, asked, Untouched>>

(* fill_buffer: on to the handle after m *)
FillAfter(m) ==
    IF HasNext(m) THEN bt' = [AtQueue EXCEPT !.pc = "fill", !.id = NextId(m)] /\ UNCHANGED filling
    ELSE bt' = AtQueue /\ filling' = FALSE

FillReturns ==
    /\ bt.pc = "return" /\ bt.then = "fill"
    /\ IF bt.stop THEN bt' = AtQueue /\ filling' = FALSE ELSE FillAfter(bt.id)
    /\ UNCHANGED <<memory, queue, audio, codec, asked, Untouched>>

Fill ==
    /\ bt.pc = "fill"
    /\ IF queue # <<>> THEN bt' = AtQueue /\ filling' = TRUE
       ELSE IF H.end < H.filesize THEN buffer_handle(bt.id, 0, "fill") /\ UNCHANGED filling
       ELSE FillAfter(bt.id)
    /\ UNCHANGED <<memory, queue, audio, codec, asked, Untouched>>

TimedOut ==
    /\ bt.pc = "wait" /\ queue = <<>> /\ handle_list # <<>>
    /\ bt' = [AtQueue EXCEPT !.pc = "tail", !.timeout = TRUE]
    /\ UNCHANGED <<memory, queue, filling, audio, codec, asked, Untouched>>

(* The end of the loop: continue, or fill the buffer, or watch its level. *)
GoOn ==
    /\ bt.pc = "tail" /\ (handle_list = <<>> \/ queue # <<>>)
    /\ bt' = AtQueue /\ filling' = (filling /\ handle_list # <<>>)
    /\ UNCHANGED <<memory, queue, audio, codec, asked, Untouched>>

Watch ==
    /\ bt.pc = "tail" /\ handle_list # <<>> /\ queue = <<>> /\ MutexFree
    /\ LET low == ~filling /\ bt.timeout /\ Low
           fill == (filling \/ low) /\ remaining # 0
           s == IF low THEN shrink_buffer ELSE Memory
       IN  /\ asked' = IF low THEN send_event("low") ELSE asked
           /\ IF fill
              THEN /\ SetMemory(shrink_handle(s, Head(handle_list)))
                   /\ bt' = [AtQueue EXCEPT !.pc = "fill", !.id = Head(handle_list)]
                   /\ UNCHANGED filling
              ELSE bt' = AtQueue /\ filling' = FALSE /\ UNCHANGED <<buffer, handle>>
    /\ UNCHANGED <<handle_list, queue, audio, codec, Untouched>>
-----------------------------------------------------------------------------
(* The audio thread (apps/playback.c) *)

AudioFree == CanRun /\ audio.pc = "idle"
Inside == <<bt, filling, settings, asked, session, seeks>>

Link(id, h) ==
    /\ handle' = [handle EXCEPT ![id] = h]
    /\ handle_list' = Append(handle_list, id)

(* Room for a new handle of shape s, with the padding its data gets. *)
RoomFor(s) ==
    LET ends == IF handle_list = <<>> THEN [first |-> Empty, last |-> Empty]
                ELSE [first |-> handle[Head(handle_list)], last |-> handle[Last(handle_list)]]
        size == s.size - s.offset + (IF s.type \in {"id3", "raw"} THEN 0 ELSE StorageAlign - 1)
    IN  add_handle(s.type, size, ends.first, ends.last)

PaddingOf(s, r) == IF Padded(s.type) THEN StoragePad(s.offset, r.data) ELSE 0

PaddingFits(s, r) ==
    handle_list # <<>> =>
        ringbuf_add_cross_full(r.data, PaddingOf(s, r), handle[Head(handle_list)].at) <= 0

Opening(s, r) ==
    LET data == ringbuf_add(r.data, PaddingOf(s, r))
    IN  [NoHandle EXCEPT !.at = r.at, !.size = HeaderSize(s.type), !.type = s.type,
                         !.data = data, !.ridx = data, !.widx = data, !.filesize = s.size,
                         !.start = s.offset, !.pos = s.offset, !.end = s.offset]

(* bufopen and bufalloc up to what they load themselves *)
Open ==
    /\ AudioFree /\ nextId \in DOMAIN session.files
    /\ conf_watermark = 0 /\ ~audio.done    \* filling = STATE_FILLING
    /\ LET s == session.files[nextId]
           r == RoomFor(s)
           h == Opening(s, r)
           withHeader == WithHeader(buffer, r.at, nextId, h.size)
       IN  /\ r.ok /\ (~Cramped => PaddingFits(s, r))
           /\ CASE s.type = "raw" ->
                     /\ buffer' = WithBytes(withHeader, h.data, nextId, 0, s.size)
                     /\ Link(nextId, [h EXCEPT !.widx = ringbuf_add(@, s.size), !.end = s.size])
                     /\ UNCHANGED <<queue, audio>>
                [] s.type = "bitmap" ->
                     /\ buffer' = withHeader
                     /\ handle' = [handle EXCEPT ![nextId] = h]
                     /\ audio' = [audio EXCEPT !.pc = "loading", !.id = nextId]
                     /\ UNCHANGED <<queue, handle_list>>
                [] OTHER ->
                     /\ buffer' = withHeader
                     /\ Link(nextId, h)
                     /\ queue' = Post("added", nextId, 0, "audio")
                     /\ UNCHANGED audio
    /\ nextId' = nextId + 1
    /\ UNCHANGED <<Inside, codec>>

(* load_image returns; the image takes less than was reserved to load it. *)
BitmapLoaded ==
    /\ CanRun /\ audio.pc = "loading"
    /\ LET id == audio.id
           h == handle[id]
           rc == h.filesize - 1
       IN  /\ buffer' = WithBytes(buffer, h.data, id, 0, rc)
           /\ Link(id, [h EXCEPT !.widx = ringbuf_add(@, rc), !.filesize = rc, !.end = rc])
           /\ queue' = Post("added", id, 0, "audio")
    /\ audio' = [audio EXCEPT !.pc = "idle", !.id = 0]
    /\ UNCHANGED <<Inside, nextId, codec>>

BitmapFails ==
    /\ CanRun /\ audio.pc = "loading" /\ session.files[audio.id].broken
    /\ handle' = [handle EXCEPT ![audio.id] = NoHandle]
    /\ buffer' = Outdated(buffer, audio.id, NoHandle)
    /\ audio' = [audio EXCEPT !.pc = "idle", !.id = 0]
    /\ UNCHANGED <<Inside, handle_list, nextId, queue, codec>>

(* audio_reset_and_rebuffer: the watch is off while the handles in `close` *)
(* are closed and others opened.                                           *)
ResetAndRebuffer(close) ==
    /\ conf_watermark' = 0
    /\ audio' = [AudioIdle EXCEPT !.pc = "clearing", !.close = close]
    /\ UNCHANGED <<memory, nextId, queue, bt, filling, codec, base_handle_id, session, seeks>>

(* Mutant: the tracks that were played are kept. *)
BeforeNone == {}

AllButCurrent == ToSet(handle_list) \ {codec.id}
BeforeCurrent == {id \in AllButCurrent : id < codec.id}

(* audio_on_buffering.  A low buffer lets go of the tracks before the      *)
(* current one, unless the audio thread is filling it anyway or there is   *)
(* nothing to fill it with; a rebuffer of all others.                      *)
OnLow ==
    /\ AudioFree /\ asked # <<>> /\ Head(asked) = "low" /\ asked' = Tail(asked)
    /\ IF conf_watermark # 0 THEN ResetAndRebuffer(BeforeCurrent)
       ELSE UNCHANGED <<memory, nextId, queue, bt, filling, audio, codec, settings, session, seeks>>

OnRebuffer ==
    /\ AudioFree /\ asked # <<>> /\ Head(asked) = "rebuffer" /\ asked' = Tail(asked)
    /\ ResetAndRebuffer(AllButCurrent)

(* The user skips to a track or to another playlist. *)
Skip ==
    /\ AudioFree /\ handle_list # <<>>
    /\ ResetAndRebuffer(AllButCurrent)
    /\ UNCHANGED asked

(* bufclose, one handle after the other *)
ClearOne ==
    /\ CanRun /\ audio.pc = "clearing"
    /\ IF audio.close = {} THEN audio' = AudioIdle /\ UNCHANGED queue
       ELSE LET id == CHOOSE i \in audio.close : \A j \in audio.close : i <= j
            IN  /\ queue' = Post("close", id, 0, "audio")
                /\ audio' = [audio EXCEPT !.pc = "calling", !.close = @ \ {id}]
    /\ UNCHANGED <<Inside, memory, nextId, codec>>

(* Nothing more fits: from now on the level is watched. *)
Full ==
    /\ AudioFree /\ conf_watermark = 0 /\ ~audio.done
    /\ conf_watermark' = Watermark
    /\ UNCHANGED <<memory, nextId, queue, bt, filling, audio, codec, asked, base_handle_id,
                   session, seeks>>

(* filling_is_finished: the last track of the playlist is in the buffer. *)
FillingIsFinished ==
    /\ Finishes /\ AudioFree /\ ~audio.done
    /\ handle_list # <<>> /\ handle[Last(handle_list)].end >= handle[Last(handle_list)].filesize
    /\ conf_watermark' = 0
    /\ audio' = [audio EXCEPT !.done = TRUE]
    /\ UNCHANGED <<memory, nextId, queue, bt, filling, codec, asked, base_handle_id, session, seeks>>

(* halt_decoding_track: a codec that waits for data of the track is made   *)
(* to give up.                                                             *)
Halt ==
    /\ AudioFree /\ codec.pc \in {"calling", "sleeping"}
    /\ Linked(codec.id) /\ handle[codec.id].type # "codec"
    /\ handle' = [handle EXCEPT ![codec.id].signaled = TRUE]
    /\ audio' = [audio EXCEPT !.pc = "halting", !.id = codec.id]
    /\ UNCHANGED <<Inside, buffer, handle_list, nextId, queue, codec>>

Halted ==
    /\ CanRun /\ audio.pc = "halting" /\ codec.id # audio.id
    /\ handle' = [handle EXCEPT ![audio.id].signaled = FALSE]
    /\ audio' = [audio EXCEPT !.pc = "idle", !.id = 0]
    /\ UNCHANGED <<Inside, buffer, handle_list, nextId, queue, codec>>

-----------------------------------------------------------------------------
(* The codec thread (apps/codec_thread.c) *)

C == handle[codec.id]
SetC(h) == handle' = [handle EXCEPT ![codec.id] = h]
Around == <<buffer, handle_list, nextId, bt, filling, audio, asked, session>>

CodecAt(pc) == CanRun /\ codec.pc = pc

(* The audio thread has a handle decoded (run_codec) or a codec loaded. *)
StartCodec(id) ==
    /\ CodecAt("idle") /\ codec.id = 0 /\ audio.pc = "idle"
    /\ Linked(id) /\ handle[id].type \in {"audio", "atomic", "codec"}
    /\ codec' = [CodecIdle EXCEPT !.pc = IF handle[id].type = "audio" THEN "new" ELSE "idle",
                                  !.id = id]
    /\ handle' = [handle EXCEPT ![id].pinned = handle[id].type # "codec"]
    /\ base_handle_id' = IF handle[id].type = "codec" THEN base_handle_id ELSE id
    /\ UNCHANGED <<Around, queue, conf_watermark, seeks>>

(* The codec begins, and may strip what follows the last frame from the    *)
(* file (bufstripsize).                                                    *)
Begin ==
    /\ CodecAt("new")
    /\ \E n \in {0, session.files[codec.id].tag} :
         /\ C.filesize - n > C.pos
         /\ n > 0 => (Racing \/ bt.pc \notin {"chunk", "read"} \/ bt.id # codec.id)
         /\ SetC([C EXCEPT !.filesize = @ - n])
    /\ codec' = [codec EXCEPT !.pc = "idle"]
    /\ UNCHANGED <<Around, queue, settings, seeks>>

CodecReady == CodecAt("idle") /\ codec.id # 0

(* What a request for n bytes, 0 being all there is, comes to: up to the   *)
(* end of the file and, but for a codec, which is copied out of the ring,  *)
(* not beyond what the guard buffer can hold behind the ring.              *)
RealSize(h, n) ==
    LET rest == IF n = 0 THEN h.filesize - h.pos ELSE Least(n, h.filesize - h.pos)
    IN  IF rest > Guard /\ h.type # "codec" THEN Least(rest, buffer_len - h.ridx + Guard)
        ELSE rest

Available(h, n) == h.end >= h.pos + n \/ h.end >= h.filesize

(* bufgetdata returns; until its next call the codec uses the n bytes it   *)
(* was given where they are.  bufread leaves it a copy.                    *)
Give(h, n) ==
    codec' = [codec EXCEPT !.pc = "idle", !.size = 0, !.pos = h.pos, !.ridx = h.ridx,
                           !.held = IF h.type = "codec" THEN 0 ELSE n]

GiveUp == codec' = [CodecIdle EXCEPT !.id = codec.id]

SendStart == queue' = Post("start", codec.id, 0, "codec")

(* prep_bufdata, with the wait for data; a codec is loaded as a whole. *)
Read(n) ==
    /\ CodecReady /\ IF C.type = "codec" THEN n = 0 ELSE n \in Wants
    /\ IF C.pos >= C.filesize THEN Give(C, 0) /\ UNCHANGED queue
       ELSE LET size == RealSize(C, n)
            IN  IF Available(C, size) THEN Give(C, size) /\ UNCHANGED queue
                ELSE /\ codec' = [CodecIdle EXCEPT !.pc = "calling", !.id = codec.id, !.size = size]
                     /\ SendStart
    /\ UNCHANGED <<Around, handle, settings, seeks>>

(* After sleep(0): the data has come, the wait is to be abandoned, or the  *)
(* 100th look asks once more.                                              *)
Look ==
    /\ CodecAt("sleeping")
    /\ IF C.signaled THEN GiveUp
       ELSE Available(C, codec.size) /\ Give(C, Least(codec.size, C.filesize - C.pos))
    /\ UNCHANGED <<Around, queue, handle, settings, seeks>>

AskAgain ==
    /\ CodecAt("sleeping") /\ ~C.signaled /\ ~Available(C, codec.size)
    /\ codec' = [codec EXCEPT !.pc = "calling"]
    /\ SendStart
    /\ UNCHANGED <<Around, handle, settings, seeks>>

(* seek_handle *)
seek_handle(newpos) ==
    /\ newpos <= C.filesize /\ newpos # C.pos
    /\ IF /\ newpos < C.start \/ newpos >= C.end
          /\ newpos < C.filesize \/ C.end < C.filesize
       THEN /\ queue' = Post("rebuffer", codec.id, newpos, "codec")
            /\ codec' = [CodecIdle EXCEPT !.pc = "calling", !.id = codec.id]
            /\ UNCHANGED handle
       ELSE /\ SetC([C EXCEPT !.ridx = ringbuf_add(C.data, newpos - C.start), !.pos = newpos])
            /\ GiveUp
            /\ UNCHANGED queue
    /\ UNCHANGED <<Around, settings>>

(* bufseek to any place in the file *)
Seek ==
    /\ CodecReady /\ C.type # "codec"
    /\ seeks < session.seeks /\ seeks' = seeks + 1
    /\ \E newpos \in 0 .. C.filesize : seek_handle(newpos)

(* bufadvance past what was consumed *)
Advance ==
    /\ CodecReady /\ C.type # "codec"
    /\ \E n \in Leftovers : n < codec.held /\ seek_handle(codec.pos + codec.held - n)
    /\ UNCHANGED seeks

(* The codec is done with the handle; a codec file is closed once loaded. *)
StopCodec ==
    /\ CodecReady
    /\ IF C.type = "codec"
       THEN /\ queue' = Post("close", codec.id, 0, "codec")
            /\ codec' = [CodecIdle EXCEPT !.pc = "calling", !.id = codec.id]
            /\ UNCHANGED handle
       ELSE /\ SetC([C EXCEPT !.pinned = FALSE]) /\ codec' = CodecIdle
            /\ UNCHANGED queue
    /\ UNCHANGED <<Around, settings, seeks>>

-----------------------------------------------------------------------------

BufferHandle == \/ Enter \/ Opened \/ OpenFails \/ MetadataRead
                \/ ReadChunk \/ ReadDone \/ ReadFails \/ Yielded
BufferingThread ==
    \/ BufferHandle
    \/ HandleAdded \/ CloseHandle \/ StartFill \/ RebufferHandle \/ Reset
    \/ StartReturns \/ CountAfterStart \/ TryReturns \/ RestReturns \/ FillReturns \/ Fill
    \/ TimedOut \/ GoOn \/ Watch
AudioThread ==
    \/ Open \/ BitmapLoaded \/ BitmapFails
    \/ OnLow \/ OnRebuffer \/ Skip \/ ClearOne \/ Full \/ FillingIsFinished
    \/ Halt \/ Halted
CodecThread ==
    \/ (\E id \in Ids : StartCodec(id)) \/ Begin
    \/ \E n \in Wants \cup {0} : Read(n)
    \/ Look \/ AskAgain
    \/ Seek \/ Advance \/ StopCodec

Next == BufferingThread \/ AudioThread \/ CodecThread

Spec == Init /\ [][Next]_vars

(* The buffering thread goes on whenever it has something to do.  This is  *)
(* WF_vars(BufferingThread) with the ENABLED written out, as TLC evaluates *)
(* it: each of the thread's steps changes bt, and no other step does.      *)
NeedsMutex ==
    \/ bt.pc \in {"chunk", "reset", "count"} \/ Message("close") \/ Message("start")
    \/ bt.pc = "tail" /\ handle_list # <<>> /\ queue = <<>>
Ready == /\ bt.pc = "wait" => (queue # <<>> \/ handle_list # <<>>)
         /\ NeedsMutex => MutexFree
BufferingRuns == []<>~Ready \/ []<><<bt' # bt>>_bt

(* Its wait times out in spite of a codec that asks again and again: 100   *)
(* looks, one per tick, take longer than HZ/2.                             *)
TimesOut == SF_vars(TimedOut)

(* Another thread that is ready runs at one of the places where the        *)
(* buffering thread gives up the processor: it is enabled again and again, *)
(* not all the time.                                                       *)
OthersRun ==
    /\ SF_vars(Look \/ AskAgain)
    /\ SF_vars(OnLow \/ OnRebuffer \/ Full \/ ClearOne \/ BitmapLoaded \/ BitmapFails)

FairSpec == Spec /\ BufferingRuns /\ TimesOut /\ OthersRun

-----------------------------------------------------------------------------
(* Properties *)

Addresses == 0 .. buffer_len - 1

HandleType ==
    [at : Addresses, size : 0 .. buffer_len, type : Types, pinned : BOOLEAN, signaled : BOOLEAN,
     fd : Nat \cup {None}, data : Addresses, ridx : Nat, widx : Addresses,
     filesize : Nat, start : Nat, pos : Nat, end : Nat]

(* Types: every cursor is an index into the ring (the codec's, while a     *)
(* short seek is tried, only once it has succeeded), a header does not     *)
(* wrap, a handle is linked once.                                          *)
TypeOK ==
    /\ \A id \in Ids : handle[id] \in HandleType
    /\ IsInjective(handle_list) /\ ToSet(handle_list) \subseteq Ids
    /\ \A id \in ToSet(handle_list) :
         /\ handle[id].at + handle[id].size <= buffer_len
         /\ handle[id].pos <= handle[id].end => handle[id].ridx \in Addresses
    /\ ToSet(asked) \subseteq {"low", "rebuffer"} /\ filling \in BOOLEAN
    /\ nextId \in 1 .. Len(session.files) + 1 /\ base_handle_id \in 0 .. Len(session.files)
    /\ codec.id \in 0 .. Len(session.files) /\ audio.close \subseteq Ids

(* Whatever is opened, read, moved, reset and closed in between, no handle *)
(* runs into another: every header stands untouched in the ring, and every *)
(* byte that a handle says it holds is that byte of its file.              *)
HandlesIntact ==
    \A id \in ToSet(handle_list) :
        LET h == handle[id]
        IN  /\ \A i \in h.at .. h.at + h.size - 1 : buffer[i] = <<id, Header>>
            /\ \A k \in 0 .. Least(h.end, h.filesize) - h.start - 1 :
                 buffer[ringbuf_add(h.data, k)] = <<id, h.start + k>>

(* The read and write indices of a handle, its offsets in the file and the *)
(* position of its descriptor all say the same, through every shrink,      *)
(* rebuffer and short seek.                                                *)
CursorsAgree ==
    \A id \in ToSet(handle_list) :
        LET h == handle[id]
        IN  /\ h.ridx = ringbuf_add(h.data, h.pos - h.start)
            /\ h.widx = ringbuf_add(h.data, h.end - h.start)
            /\ h.fd # None => h.fd = h.end

(* What bufgetdata gave the codec stays where it is until the codec's next *)
(* call, although the buffering thread shrinks and moves handles meanwhile *)
(* (what lies beyond the end of the ring was copied to the guard buffer).  *)
HeldDataStays ==
    \A k \in 0 .. codec.held - 1 :
        codec.ridx + k < buffer_len => buffer[codec.ridx + k] = <<codec.id, codec.pos + k>>

(* Nobody truncates, or signals, a codec that the disk fails to read. *)
CodecFileLost ==
    codec.id # 0 /\ handle[codec.id].type = "codec" /\ session.files[codec.id].broken

(* A codec that waits, for data or for a seek, goes on: what stands in the *)
(* way of the data is closed in time, whoever has to ask for that.  It is  *)
(* left alone in a playlist that is buffered to its end, when the audio    *)
(* thread watches no more, and with a codec that cannot be read.           *)
ReadReturns ==
    codec.pc \in {"calling", "sleeping"} ~> codec.pc = "idle" \/ audio.done \/ CodecFileLost
=============================================================================
