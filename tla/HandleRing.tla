----------------------------- MODULE HandleRing -----------------------------
(***************************************************************************)
(* The ring of apps/buffering.c as memory: its address arithmetic, where a *)
(* new handle goes, and what moving a handle does to the bytes.  Nothing   *)
(* here has state; Buffering applies these operators to its variables.     *)
(*                                                                         *)
(* A handle is a header (struct memory_handle and the path behind it) and  *)
(* a data area.  Addresses are indices into the ring; sizes are in units   *)
(* of which a header takes a few.                                          *)
(***************************************************************************)
EXTENDS Integers

CONSTANTS
    buffer_len,
    StructSize,    \* sizeof(struct memory_handle), also MIN_MOVE_DELTA
    PathSize,      \* what the path of a file adds to the header
    HandleAlign,   \* alignof(struct memory_handle)
    StorageAlign,  \* CACHEALIGN_SIZE where STORAGE_WANTS_ALIGN, else 1
    Word           \* 2^width of size_t

ASSUME RingAssumption ==
    /\ {buffer_len, StructSize, HandleAlign, StorageAlign, Word} \subseteq Nat \ {0}
    /\ PathSize \in Nat
    /\ StructSize + PathSize + HandleAlign + StorageAlign <= buffer_len
    /\ 4 * buffer_len < Word
    /\ buffer_len % StorageAlign = 0 /\ buffer_len % HandleAlign = 0
    /\ Word % StorageAlign = 0 /\ Word % HandleAlign = 0

AlignUp(x, a) == ((x + a - 1) \div a) * a
AlignDown(x, a) == (x \div a) * a
Least(x, y) == IF x < y THEN x ELSE y

(* Mutant: an index may be the length. *)
RingAddPast(p, v) ==
    LET res == (p + v) % Word IN IF res > buffer_len THEN res - buffer_len ELSE res

ringbuf_add(p, v) ==
    LET res == (p + v) % Word IN IF res >= buffer_len THEN res - buffer_len ELSE res

ringbuf_sub_empty(p, v) == IF p < v THEN p + buffer_len - v ELSE p - v

(* How far p1 + v passes p2, p1 = p2 meaning an empty or a full ring. *)
ringbuf_add_cross_empty(p1, v, p2) == p1 + v - p2 - (IF p1 >= p2 THEN buffer_len ELSE 0)
ringbuf_add_cross_full(p1, v, p2) == p1 + v - p2 - (IF p1 > p2 THEN buffer_len ELSE 0)

-----------------------------------------------------------------------------
(* Kinds of handles *)

CanWrap(type) == type \in {"audio", "codec"}             \* H_CANWRAP
AllocAll(type) == type \in {"id3", "bitmap", "raw"}      \* H_ALLOCALL
Padded(type) == type \in {"audio", "atomic", "codec"}    \* loaded straight from the disk

HeaderSize(type) ==
    AlignUp(StructSize + (IF type = "raw" THEN 0 ELSE PathSize), HandleAlign)

(* STORAGE_OVERLAP: what brings data to an address congruent to its offset *)
(* in the file.                                                            *)
StoragePad(offset, data) == (offset - data) % StorageAlign

-----------------------------------------------------------------------------
(* add_handle.  `last` and `first` are the handles at the ends of the      *)
(* list, or Empty; the result says whether there is room and where.        *)

Empty == [at |-> 0, data |-> 0, filesize |-> 0, start |-> 0]

add_handle(type, data_size, first, last) ==
    LET isEmpty == first = Empty
        ridx == first.at
        reserve == last.filesize - last.start   \* the last handle's whole file
        crowded == reserve > 0 /\ ringbuf_add_cross_full(last.data, reserve, ridx) > 0
        widx == IF reserve > 0 THEN ringbuf_add(last.data, reserve) ELSE last.data
        aligned == ringbuf_add(widx, AlignUp(widx, HandleAlign) - widx)
        len == HeaderSize(type) + data_size
        index == IF \/ aligned + HeaderSize(type) > buffer_len
                    \/ ~CanWrap(type) /\ aligned + len > buffer_len
                 THEN 0 ELSE aligned
        shift == ringbuf_sub_empty(index, widx)
        overlap == IF isEmpty THEN ringbuf_add_cross_empty(widx, shift + len, ridx)
                              ELSE ringbuf_add_cross_full(widx, shift + len, ridx)
    IN  [ok |-> /\ ~crowded
                /\ ~(overlap > 0 /\ (AllocAll(type) \/ overlap > data_size)),
         at |-> index,
         data |-> ringbuf_add(index, HeaderSize(type))]

-----------------------------------------------------------------------------
(* Moving *)

(* memmove(dest, src, n) on the bytes mem *)
memmove(mem, dest, src, n) ==
    [i \in DOMAIN mem |-> IF i \in dest .. dest + n - 1 THEN mem[i - dest + src] ELSE mem[i]]

(* move_handle(h, delta, data_size): whether the handle moves, how far,    *)
(* and the bytes afterwards.  A move that would make the header wrap, or   *)
(* data that must not, is cut short.                                       *)
move_handle(mem, h, wanted, data_size) ==
    LET all == h.size + data_size
        delta == AlignDown(wanted, HandleAlign)
        far == ringbuf_add(h.at, delta)
        farOver == ringbuf_add_cross_full(far, all, buffer_len)
        excess == IF farOver <= 0 THEN 0
                  ELSE IF ~CanWrap(h.type) THEN farOver
                  ELSE IF farOver > data_size THEN farOver - data_size ELSE 0
        correction == AlignUp(excess, HandleAlign)
        newpos == far - correction
        over == farOver - correction
        oldOver == ringbuf_add_cross_full(h.at, all, buffer_len)
        dist == delta - correction
        tailMoved == IF oldOver > 0 THEN memmove(mem, dist, 0, oldOver) ELSE mem
        lead == all - (IF oldOver > 0 /\ over <= 0 THEN oldOver ELSE 0)
                    - (IF over > 0 THEN over ELSE 0)
        wrapped == IF over > 0
                   THEN memmove(tailMoved, 0, h.at + lead, IF oldOver > 0 THEN dist ELSE over)
                   ELSE tailMoved
        moved == delta >= correction + StructSize
    IN  [moved |-> moved, at |-> newpos, delta |-> dist,
         mem |-> IF moved THEN memmove(wrapped, newpos, h.at, lead) ELSE mem]
=============================================================================
