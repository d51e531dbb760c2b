-------------------------- MODULE BufferingProofs ---------------------------
(***************************************************************************)
(* What the buffering ring's operators promise, for rings, headers and     *)
(* alignments of any size, and on it the safety of Buffering.              *)
(***************************************************************************)
EXTENDS BufferingInvariant, WellFoundedInduction, SequenceTheorems, TLAPS

(* Rounding, as ALIGN_UP and ALIGN_DOWN of system.h do it. *)
LEMMA Rounding ==
    ASSUME NEW x \in Nat, NEW a \in Nat \ {0}
    PROVE  /\ AlignDown(x, a) \in Nat /\ AlignDown(x, a) <= x
           /\ AlignUp(x, a) \in Nat /\ AlignUp(x, a) >= x /\ AlignUp(x, a) < x + a
<1>1. \A y \in Nat : /\ y \div a \in Nat /\ (y \div a) * a \in Nat
                     /\ (y \div a) * a <= y /\ y < (y \div a) * a + a
  OBVIOUS
<1>2. x + a - 1 \in Nat
  OBVIOUS
<1>. QED
  BY <1>1, <1>2 DEF AlignUp, AlignDown

(* Below twice the length, an index needs one subtraction and no bit of    *)
(* size_t is lost.                                                         *)
LEMMA RingAdd ==
    ASSUME NEW p \in Nat, NEW v \in Nat, p + v < 2 * buffer_len
    PROVE  /\ ringbuf_add(p, v) = IF p + v >= buffer_len THEN p + v - buffer_len ELSE p + v
           /\ ringbuf_add(p, v) \in Addresses
<1>1. buffer_len \in Nat \ {0} /\ Word \in Nat \ {0} /\ p + v < Word
  BY RingAssumption
<1>2. (p + v) % Word = p + v
  BY <1>1
<1>. QED
  BY <1>1, <1>2 DEF ringbuf_add, Addresses

(* What memmove leaves at each index.                                      *)
LEMMA MemmoveAt ==
    ASSUME NEW mem, NEW dest, NEW src, NEW n
    PROVE  /\ DOMAIN memmove(mem, dest, src, n) = DOMAIN mem
           /\ \A i \in DOMAIN mem :
                memmove(mem, dest, src, n)[i]
                  = IF i \in dest .. dest + n - 1 THEN mem[i - dest + src] ELSE mem[i]
BY DEF memmove

-----------------------------------------------------------------------------
(* Moving a handle *)

(* Where move_handle puts it, and the lengths of the pieces it copies: the *)
(* correction never takes back more than the distance, so the new place is *)
(* the old one advanced by `dist` on the ring.                             *)
CutShort(at, size, data_size, wanted, type, delta, far, correction) ==
    LET farOver == far + size + data_size - buffer_len
        excess == IF farOver <= 0 THEN 0
                  ELSE IF ~CanWrap(type) THEN farOver
                  ELSE IF farOver > data_size THEN farOver - data_size ELSE 0
    IN  /\ at + size <= buffer_len /\ wanted + size + data_size <= buffer_len
        /\ ~CanWrap(type) => at + size + data_size <= buffer_len
        /\ far = ringbuf_add(at, delta)
        /\ correction >= excess /\ (excess = 0 => correction = 0)
        /\ delta <= wanted /\ correction < delta

(* A move cut short of the end of the ring goes on by at least 1 and ends  *)
(* inside.                                                                 *)
LEMMA MoveGeometry ==
    ASSUME NEW at \in Addresses, NEW size \in Nat \ {0}, NEW data_size \in Nat,
           NEW wanted \in Nat, NEW type, NEW delta \in Nat,
           NEW far, NEW correction \in Nat,
           CutShort(at, size, data_size, wanted, type, delta, far, correction)
    PROVE  /\ delta - correction \in 1 .. wanted
           /\ far - correction = ringbuf_add(at, delta - correction)
           /\ far - correction \in Addresses
           /\ far - correction + size <= buffer_len
           /\ ~CanWrap(type) => far - correction + size + data_size <= buffer_len
<1>. /\ buffer_len \in Nat \ {0} /\ at \in 0 .. buffer_len - 1
  BY RingAssumption DEF Addresses
<1>. USE DEF CutShort
<1>. DEFINE dist == delta - correction
            farOver == far + size + data_size - buffer_len
<1>1. dist \in 1 .. wanted
  OBVIOUS
<1>2. /\ far = IF at + delta >= buffer_len THEN at + delta - buffer_len ELSE at + delta
      /\ far \in Nat
  <2>1. at + delta < 2 * buffer_len
    OBVIOUS
  <2>. QED
    BY <2>1, RingAdd
<1>3. /\ ringbuf_add(at, dist) = IF at + dist >= buffer_len THEN at + dist - buffer_len ELSE at + dist
      /\ ringbuf_add(at, dist) \in Addresses
  <2>1. dist \in Nat /\ at + dist < 2 * buffer_len
    BY <1>1
  <2>. QED
    BY <2>1, RingAdd
<1>4. at + delta >= buffer_len => farOver <= 0 /\ correction = 0
  BY <1>2
<1>5. far - correction = ringbuf_add(at, dist)
  <2>1. CASE at + delta >= buffer_len
    BY <2>1, <1>2, <1>3, <1>4
  <2>2. CASE at + delta < buffer_len
    BY <2>2, <1>2, <1>3
  <2>. QED
    BY <2>1, <2>2
<1>6. /\ far - correction + size <= buffer_len
      /\ ~CanWrap(type) => far - correction + size + data_size <= buffer_len
  BY <1>2
<1>. QED
  BY <1>1, <1>3, <1>5, <1>6

(* Where the bytes of the old and the new place are, and how the pieces    *)
(* relate when either of them goes around the end.                         *)
LEMMA Places ==
    ASSUME NEW at \in Addresses, NEW all \in Nat \ {0}, NEW dist \in Nat \ {0},
           dist + all <= buffer_len
    PROVE  /\ ringbuf_add(at, dist)
                = IF at + dist >= buffer_len THEN at + dist - buffer_len ELSE at + dist
           /\ ringbuf_add(at, dist) \in Addresses
           /\ \A p \in Addresses, i \in 0 .. buffer_len - 1 :
                /\ ringbuf_add(p, i) = IF p + i >= buffer_len THEN p + i - buffer_len ELSE p + i
                /\ ringbuf_add(p, i) \in Addresses
<1>1. buffer_len \in Nat \ {0} /\ at \in Nat /\ at < buffer_len
  BY RingAssumption DEF Addresses
<1>2. ASSUME NEW p \in Addresses, NEW i \in 0 .. buffer_len - 1
      PROVE  /\ ringbuf_add(p, i) = IF p + i >= buffer_len THEN p + i - buffer_len ELSE p + i
             /\ ringbuf_add(p, i) \in Addresses
  <2>1. p \in Nat /\ i \in Nat /\ p + i < 2 * buffer_len
    BY <1>1 DEF Addresses
  <2>. QED
    BY <2>1, RingAdd
<1>3. dist \in 0 .. buffer_len - 1
  BY <1>1
<1>. QED
  BY <1>2, <1>3

(* The three copies of move_handle, given cell by cell, put the byte i of  *)
(* the handle at the i-th place of its new ring interval.                  *)
Copied(mem, wrapped, after, at, all, dist, newpos, oldOver, over, lead, old, new, i) ==
    /\ newpos = IF at + dist >= buffer_len THEN at + dist - buffer_len ELSE at + dist
    /\ old = IF at + i >= buffer_len THEN at + i - buffer_len ELSE at + i
    /\ new = IF newpos + i >= buffer_len THEN newpos + i - buffer_len ELSE newpos + i
    /\ oldOver = at + all - buffer_len
    /\ over = newpos + all - buffer_len
    /\ lead = all - (IF oldOver > 0 /\ over <= 0 THEN oldOver ELSE 0)
                  - (IF over > 0 THEN over ELSE 0)
    /\ \A n \in Addresses : wrapped[n] =
         IF oldOver <= 0
         THEN IF n < over THEN mem[n + (at + lead)] ELSE mem[n]
         ELSE IF over > 0 /\ n < dist THEN mem[n + (buffer_len - dist)]
         ELSE IF n \in dist .. dist + oldOver - 1 THEN mem[n - dist] ELSE mem[n]
    /\ \A n \in Addresses : after[n] =
         IF n \in newpos .. newpos + lead - 1 THEN wrapped[n - newpos + at] ELSE wrapped[n]

(* In whatever pieces move_handle copies, each byte arrives.               *)
LEMMA PiecesArrive ==
    ASSUME NEW mem, NEW wrapped, NEW after,
           NEW at \in Addresses, NEW all \in Nat \ {0}, NEW dist \in Nat \ {0},
           dist + all <= buffer_len,
           NEW newpos \in Addresses,
           NEW oldOver \in Int, NEW over \in Int, NEW lead \in Int,
           NEW i \in 0 .. buffer_len - 1, i < buffer_len - dist \/ i < all,
           NEW old \in Addresses, NEW new \in Addresses,
           Copied(mem, wrapped, after, at, all, dist, newpos, oldOver, over, lead, old, new, i)
    PROVE  after[new] = IF i < all THEN mem[old] ELSE mem[new]
<1>0. buffer_len \in Nat \ {0}
  BY RingAssumption
<1>9. /\ old = IF at + i >= buffer_len THEN at + i - buffer_len ELSE at + i
      /\ new = IF newpos + i >= buffer_len THEN newpos + i - buffer_len ELSE newpos + i
      /\ newpos = IF at + dist >= buffer_len THEN at + dist - buffer_len ELSE at + dist
  BY DEF Copied
<1>7. /\ oldOver = at + all - buffer_len
      /\ over = newpos + all - buffer_len
      /\ lead = all - (IF oldOver > 0 /\ over <= 0 THEN oldOver ELSE 0)
                    - (IF over > 0 THEN over ELSE 0)
  BY DEF Copied
<1>8. \A n \in Addresses : wrapped[n] =
        IF oldOver <= 0
        THEN IF n < over THEN mem[n + (at + lead)] ELSE mem[n]
        ELSE IF over > 0 /\ n < dist THEN mem[n + (buffer_len - dist)]
        ELSE IF n \in dist .. dist + oldOver - 1 THEN mem[n - dist] ELSE mem[n]
  BY DEF Copied
<1>10. \A n \in Addresses : after[n] =
         IF n \in newpos .. newpos + lead - 1 THEN wrapped[n - newpos + at] ELSE wrapped[n]
  BY DEF Copied
<1>1. buffer_len \in Nat \ {0} /\ at \in Nat /\ at < buffer_len /\ i \in Nat
  BY <1>0 DEF Addresses
<1>2. new \in Nat /\ old \in Nat /\ new < buffer_len /\ newpos \in Nat /\ newpos < buffer_len
  BY <1>1 DEF Addresses
<1>3. CASE i < lead
  <2>1. new = newpos + i /\ new \in newpos .. newpos + lead - 1 /\ old = at + i /\ i < all
    BY <1>1, <1>2, <1>3, <1>7, <1>9
  <2>2. new - newpos + at = old
    BY <2>1, <1>1, <1>2, <1>7, <1>9
  <2>3. after[new] = wrapped[old]
    BY <2>1, <2>2, <1>10
  <2>4. CASE oldOver <= 0
    <3>1. ~(old < over)
      BY <2>1, <2>4, <1>1, <1>2, <1>7, <1>9
    <3>. QED
      BY <3>1, <2>1, <2>3, <2>4, <1>8
  <2>5. CASE oldOver > 0
    <3>1. ~(old < dist) /\ old \notin dist .. dist + oldOver - 1
      BY <2>1, <2>5, <1>1, <1>2, <1>7, <1>9
    <3>2. wrapped[old] = mem[old]
      BY <3>1, <2>5, <1>8
    <3>. QED
      BY <3>2, <2>1, <2>3
  <2>. QED
    BY <2>4, <2>5
<1>4. CASE ~(i < lead) /\ i < all
  <2>1. new \notin newpos .. newpos + lead - 1
    BY <1>1, <1>2, <1>4, <1>7, <1>9
  <2>2. after[new] = wrapped[new]
    BY <2>1, <1>10
  <2>3. CASE oldOver <= 0
    <3>1. new < over /\ new + (at + lead) = old
      BY <2>3, <1>1, <1>2, <1>4, <1>7, <1>9
    <3>. QED
      BY <3>1, <2>2, <2>3, <1>4, <1>8
  <2>4. CASE oldOver > 0 /\ over <= 0
    <3>1. new \in dist .. dist + oldOver - 1 /\ new - dist = old
      BY <2>4, <1>1, <1>2, <1>4, <1>7, <1>9
    <3>2. wrapped[new] = mem[new - dist]
      BY <3>1, <2>4, <1>8
    <3>. QED
      BY <3>1, <3>2, <2>2, <1>4
  <2>5. CASE oldOver > 0 /\ over > 0
    <3>1. CASE new < dist
      <4>1. new + (buffer_len - dist) = old
        BY <3>1, <2>5, <1>1, <1>2, <1>4, <1>7, <1>9
      <4>2. wrapped[new] = mem[new + (buffer_len - dist)]
        BY <3>1, <2>5, <1>8
      <4>. QED
        BY <4>1, <4>2, <2>2, <1>4
    <3>2. CASE ~(new < dist)
      <4>1. new \in dist .. dist + oldOver - 1 /\ new - dist = old
        BY <3>2, <2>5, <1>1, <1>2, <1>4, <1>7, <1>9
      <4>2. wrapped[new] = mem[new - dist]
        BY <3>2, <4>1, <2>5, <1>8
      <4>. QED
        BY <4>1, <4>2, <2>2, <1>4
    <3>. QED
      BY <3>1, <3>2
  <2>. QED
    BY <2>3, <2>4, <2>5
<1>5. CASE ~(i < all)
  <2>1. new \notin newpos .. newpos + lead - 1
    BY <1>1, <1>2, <1>5, <1>7, <1>9
  <2>2. oldOver <= 0 => ~(new < over)
    BY <1>1, <1>2, <1>5, <1>7, <1>9
  <2>3. oldOver > 0 => /\ ~(over > 0 /\ new < dist)
                       /\ new \notin dist .. dist + oldOver - 1
    BY <1>1, <1>2, <1>5, <1>7, <1>9
  <2>4. after[new] = wrapped[new]
    BY <2>1, <1>10
  <2>5. wrapped[new] = mem[new]
    BY <2>2, <2>3, <1>8
  <2>. QED
    BY <2>4, <2>5, <1>5
<1>6. lead <= all
  BY <1>1, <1>2, <1>7, <1>9
<1>. QED
  BY <1>3, <1>4, <1>5, <1>6

(* The bytes: after the two or three memmoves of move_handle the handle's  *)
(* bytes are at the new place, and those after them are as they were.      *)
LEMMA MoveBytes ==
    ASSUME NEW mem, DOMAIN mem = Addresses,
           NEW at \in Addresses, NEW all \in Nat \ {0}, NEW dist \in Nat \ {0},
           dist + all <= buffer_len,
           NEW newpos, newpos = ringbuf_add(at, dist),
           NEW oldOver, oldOver = at + all - buffer_len,
           NEW over, over = newpos + all - buffer_len,
           NEW lead, lead = all - (IF oldOver > 0 /\ over <= 0 THEN oldOver ELSE 0)
                                - (IF over > 0 THEN over ELSE 0),
           NEW tailMoved, tailMoved = IF oldOver > 0 THEN memmove(mem, dist, 0, oldOver) ELSE mem,
           NEW wrapped, wrapped = IF over > 0
                   THEN memmove(tailMoved, 0, at + lead, IF oldOver > 0 THEN dist ELSE over)
                   ELSE tailMoved,
           NEW after, after = memmove(wrapped, newpos, at, lead)
    PROVE  /\ \A i \in 0 .. all - 1 : after[ringbuf_add(newpos, i)] = mem[ringbuf_add(at, i)]
           /\ \A i \in all .. buffer_len - dist - 1 :
                after[ringbuf_add(newpos, i)] = mem[ringbuf_add(newpos, i)]
<1>1. /\ buffer_len \in Nat \ {0} /\ at \in Int /\ dist \in Int /\ all \in Int
      /\ at + dist < 2 * buffer_len /\ \A n \in Addresses : n \in Nat /\ n < buffer_len
  <2>1. buffer_len \in Nat \ {0}
    BY RingAssumption
  <2>. QED
    BY <2>1 DEF Addresses
<1>2. /\ newpos \in Addresses
      /\ newpos = IF at + dist >= buffer_len THEN at + dist - buffer_len ELSE at + dist
  BY Places
<1>3. oldOver \in Int /\ over \in Int /\ lead \in Int
  BY <1>1, <1>2
<1>4. /\ DOMAIN tailMoved = Addresses
      /\ \A n \in Addresses : tailMoved[n] = IF oldOver > 0 /\ n \in dist .. dist + oldOver - 1
                                        THEN mem[n - dist] ELSE mem[n]
  <2>1. CASE oldOver > 0
    <3>1. \A n \in Addresses : n - dist + 0 = n - dist
      BY <1>1
    <3>. QED
      BY <2>1, <3>1, MemmoveAt
  <2>2. CASE ~(oldOver > 0)
    BY <2>2
  <2>. QED
    BY <2>1, <2>2
<1>5. /\ DOMAIN wrapped = Addresses
      /\ \A n \in Addresses : wrapped[n] =
           IF over > 0 /\ n < (IF oldOver > 0 THEN dist ELSE over)
           THEN tailMoved[n + (at + lead)] ELSE tailMoved[n]
  <2>1. CASE over > 0
    <3>. DEFINE wn == IF oldOver > 0 THEN dist ELSE over
    <3>1. wn \in Int /\ at + lead \in Int
      BY <1>1, <1>3
    <3>. HIDE DEF wn
    <3>2. /\ DOMAIN wrapped = Addresses
          /\ \A n \in Addresses : wrapped[n] = IF n \in 0 .. 0 + wn - 1
                                          THEN tailMoved[n - 0 + (at + lead)] ELSE tailMoved[n]
      BY <2>1, <1>4, MemmoveAt DEF wn
    <3>3. \A n \in Addresses : /\ n - 0 + (at + lead) = n + (at + lead)
                          /\ n \in 0 .. 0 + wn - 1 <=> n < wn
      BY <3>1, <1>1
    <3>. QED
      BY <2>1, <3>2, <3>3 DEF wn
  <2>2. CASE ~(over > 0)
    BY <2>2, <1>4
  <2>. QED
    BY <2>1, <2>2
<1>6. \A n \in Addresses : wrapped[n] =
        IF oldOver <= 0
        THEN IF n < over THEN mem[n + (at + lead)] ELSE mem[n]
        ELSE IF over > 0 /\ n < dist THEN mem[n + (buffer_len - dist)]
        ELSE IF n \in dist .. dist + oldOver - 1 THEN mem[n - dist] ELSE mem[n]
  <2>1. CASE oldOver <= 0
    <3>1. \A n \in Addresses : tailMoved[n] = mem[n]
      BY <2>1, <1>3, <1>4
    <3>2. over > 0 => \A n \in Addresses : n < over => n + (at + lead) \in Addresses
      BY <2>1, <1>1, <1>2, <1>3 DEF Addresses
    <3>3. \A n \in Addresses : n < over => over > 0
      BY <1>1, <1>3
    <3>. QED
      BY <2>1, <1>3, <1>5, <3>1, <3>2, <3>3
  <2>2. CASE ~(oldOver <= 0)
    <3>1. oldOver > 0
      BY <2>2, <1>3
    <3>2. over > 0 => /\ at + lead = buffer_len - dist
                      /\ dist + oldOver <= buffer_len - dist
      BY <3>1, <1>1, <1>2, <1>3
    <3>3. ASSUME NEW n \in Addresses, over > 0, n < dist
          PROVE  wrapped[n] = mem[n + (buffer_len - dist)]
      <4>1. /\ n + (at + lead) = n + (buffer_len - dist)
            /\ n + (buffer_len - dist) \in Addresses
            /\ n + (buffer_len - dist) \notin dist .. dist + oldOver - 1
        BY <3>2, <3>3, <1>1, <1>3, SMTT(30) DEF Addresses
      <4>2. wrapped[n] = tailMoved[n + (buffer_len - dist)]
        BY <4>1, <3>1, <3>3, <1>5
      <4>. QED
        BY <4>1, <4>2, <1>4
    <3>4. ASSUME NEW n \in Addresses, ~(over > 0 /\ n < dist)
          PROVE  wrapped[n] = tailMoved[n]
      BY <3>1, <3>4, <1>5
    <3>. QED
      BY <2>2, <3>1, <3>3, <3>4, <1>4
  <2>. QED
    BY <2>1, <2>2
<1>7. \A n \in Addresses : after[n] =
        IF n \in newpos .. newpos + lead - 1 THEN wrapped[n - newpos + at] ELSE wrapped[n]
  BY <1>5, MemmoveAt
<1>8. ASSUME NEW i \in 0 .. buffer_len - 1, i < buffer_len - dist \/ i < all
      PROVE  after[ringbuf_add(newpos, i)]
               = IF i < all THEN mem[ringbuf_add(at, i)] ELSE mem[ringbuf_add(newpos, i)]
  <2>1. /\ ringbuf_add(at, i) = IF at + i >= buffer_len THEN at + i - buffer_len ELSE at + i
        /\ ringbuf_add(newpos, i)
             = IF newpos + i >= buffer_len THEN newpos + i - buffer_len ELSE newpos + i
        /\ ringbuf_add(at, i) \in Addresses /\ ringbuf_add(newpos, i) \in Addresses
    BY <1>2, Places
  <2>2. Copied(mem, wrapped, after, at, all, dist, newpos, oldOver, over, lead,
               ringbuf_add(at, i), ringbuf_add(newpos, i), i)
    BY <2>1, <1>2, <1>6, <1>7 DEF Copied
  <2>3. PICK o \in Int, v \in Int, l \in Int, p \in Addresses, from \in Addresses, to \in Addresses :
          /\ o = oldOver /\ v = over /\ l = lead /\ p = newpos
          /\ from = ringbuf_add(at, i) /\ to = ringbuf_add(newpos, i)
    BY <2>1, <1>2, <1>3
  <2>4. Copied(mem, wrapped, after, at, all, dist, p, o, v, l, from, to, i)
    BY <2>2, <2>3
  <2>5. after[to] = IF i < all THEN mem[from] ELSE mem[to]
    BY <2>4, <1>8, PiecesArrive
  <2>. QED
    BY <2>3, <2>5
<1>9. \A i \in 0 .. all - 1 : i \in 0 .. buffer_len - 1 /\ i < all
  BY <1>1
<1>10. \A i \in all .. buffer_len - dist - 1 :
         i \in 0 .. buffer_len - 1 /\ i < buffer_len - dist /\ ~(i < all)
  BY <1>1
<1>. QED
  BY <1>8, <1>9, <1>10

(* move_handle (apps/buffering.c): a handle that moves goes forward on the *)
(* ring by less than was asked for or as much, its header stays in one     *)
(* piece, and so does its data if it must; every byte of it arrives, and   *)
(* what lies behind it is not touched.                                     *)
THEOREM MoveHandle ==
    ASSUME NEW mem, DOMAIN mem = Addresses,
           NEW h, h.at \in Addresses, h.size \in Nat \ {0}, h.at + h.size <= buffer_len,
           NEW data_size \in Nat, NEW wanted \in Nat,
           wanted + h.size + data_size <= buffer_len,
           ~CanWrap(h.type) => h.at + h.size + data_size <= buffer_len,
           NEW m, m = move_handle(mem, h, wanted, data_size),
           m.moved
    PROVE  /\ DOMAIN m.mem = Addresses
           /\ m.delta \in 1 .. wanted
           /\ m.at = ringbuf_add(h.at, m.delta) /\ m.at \in Addresses
           /\ m.at + h.size <= buffer_len
           /\ ~CanWrap(h.type) => m.at + h.size + data_size <= buffer_len
           /\ \A i \in 0 .. h.size + data_size - 1 :
                m.mem[ringbuf_add(m.at, i)] = mem[ringbuf_add(h.at, i)]
           /\ \A i \in h.size + data_size .. buffer_len - m.delta - 1 :
                m.mem[ringbuf_add(m.at, i)] = mem[ringbuf_add(m.at, i)]
<1>. DEFINE all == h.size + data_size
            delta == AlignDown(wanted, HandleAlign)
            far == ringbuf_add(h.at, delta)
            farOver == ringbuf_add_cross_full(far, all, buffer_len)
            excess == IF farOver <= 0 THEN 0
                      ELSE IF ~CanWrap(h.type) THEN farOver
                      ELSE IF farOver > data_size THEN farOver - data_size ELSE 0
            correction == AlignUp(excess, HandleAlign)
            newpos == far - correction
            over == farOver - correction
            oldOver == ringbuf_add_cross_full(h.at, all, buffer_len)
            dist == delta - correction
            tailMoved == IF oldOver > 0 THEN memmove(mem, dist, 0, oldOver) ELSE mem
            lead == all - (IF oldOver > 0 /\ over <= 0 THEN oldOver ELSE 0)
                        - (IF over > 0 THEN over ELSE 0)
            wrapped == IF over > 0
                       THEN memmove(tailMoved, 0, h.at + lead, IF oldOver > 0 THEN dist ELSE over)
                       ELSE tailMoved
            after == memmove(wrapped, newpos, h.at, lead)
            moved == delta >= correction + StructSize
<1>1. m = [moved |-> moved, at |-> newpos, delta |-> dist, mem |-> IF moved THEN after ELSE mem]
  BY Zenon DEF move_handle
<1>. HIDE DEF after, wrapped, tailMoved, correction, delta, far, farOver, excess, moved, lead
<1>2. moved /\ m.at = newpos /\ m.delta = dist /\ m.mem = after
  BY <1>1
<1>3. /\ buffer_len \in Nat \ {0} /\ HandleAlign \in Nat \ {0} /\ StructSize \in Nat \ {0}
      /\ h.at \in 0 .. buffer_len - 1
  BY RingAssumption DEF Addresses
<1>4. delta \in Nat /\ delta <= wanted
  BY <1>3, Rounding DEF delta
<1>5. far \in Addresses
  <2>1. h.at + delta < 2 * buffer_len
    BY <1>3, <1>4
  <2>. QED
    BY <1>3, <1>4, <2>1, RingAdd DEF far
<1>6. farOver = far + h.size + data_size - buffer_len /\ oldOver = h.at + all - buffer_len
  BY <1>3, <1>5, SMTT(30) DEF farOver, ringbuf_add_cross_full, Addresses
<1>7. excess \in Nat /\ (excess = 0 <=> excess <= 0)
  BY <1>3, <1>5, <1>6, SMTT(30) DEF excess, Addresses
<1>8. correction \in Nat /\ correction >= excess /\ (excess = 0 => correction = 0)
  <2>1. correction \in Nat /\ correction >= excess
    BY <1>3, <1>7, Rounding DEF correction
  <2>2. ASSUME excess = 0 PROVE correction = 0
    <3>1. (HandleAlign - 1) \div HandleAlign = 0
      BY <1>3
    <3>2. 0 + HandleAlign - 1 = HandleAlign - 1
      BY <1>3
    <3>. QED
      BY <2>2, <3>1, <3>2, <1>3 DEF correction, AlignUp
  <2>. QED
    BY <2>1, <2>2
<1>9. correction < delta
  BY <1>2, <1>3, <1>4, <1>8 DEF moved
<1>10. CanWrap(h.type) \in BOOLEAN
  BY DEF CanWrap
<1>11. /\ dist \in 1 .. wanted
       /\ newpos = ringbuf_add(h.at, dist)
       /\ newpos \in Addresses
       /\ newpos + h.size <= buffer_len
       /\ ~CanWrap(h.type) => newpos + h.size + data_size <= buffer_len
  <2>1. CutShort(h.at, h.size, data_size, wanted, h.type, delta, far, correction)
    BY <1>4, <1>6, <1>8, <1>9 DEF CutShort, far, excess
  <2>2. PICK at \in Addresses, size \in Nat \ {0}, d \in Nat, c \in Nat :
          at = h.at /\ size = h.size /\ d = delta /\ c = correction
    BY <1>4, <1>8
  <2>3. CutShort(at, size, data_size, wanted, h.type, d, far, c)
    BY <2>1, <2>2
  <2>4. /\ d - c \in 1 .. wanted
        /\ far - c = ringbuf_add(at, d - c) /\ far - c \in Addresses
        /\ far - c + size <= buffer_len
        /\ ~CanWrap(h.type) => far - c + size + data_size <= buffer_len
    BY <2>3, MoveGeometry
  <2>. QED
    BY <2>2, <2>4
<1>12. /\ all \in Nat \ {0} /\ dist \in Nat \ {0} /\ dist + all <= buffer_len
       /\ over = newpos + all - buffer_len
  <2>1. all \in Nat \ {0} /\ dist \in Nat \ {0}
    BY <1>11
  <2>2. dist + all <= buffer_len
    BY <1>3, <1>11
  <2>3. far \in Int
    BY <1>3, <1>5 DEF Addresses
  <2>4. over = newpos + all - buffer_len
    BY <2>3, <1>3, <1>6, <1>8
  <2>. QED
    BY <2>1, <2>2, <2>4
<1>. HIDE DEF dist, newpos, over, oldOver, all
<1>13. /\ \A i \in 0 .. all - 1 : after[ringbuf_add(newpos, i)] = mem[ringbuf_add(h.at, i)]
       /\ \A i \in all .. buffer_len - dist - 1 :
            after[ringbuf_add(newpos, i)] = mem[ringbuf_add(newpos, i)]
  BY <1>6, <1>11, <1>12, MoveBytes, SMTT(30) DEF tailMoved, lead, wrapped, after
<1>14. DOMAIN after = Addresses
  <2>1. DOMAIN tailMoved = Addresses
    BY MemmoveAt DEF tailMoved
  <2>2. DOMAIN wrapped = Addresses
    BY <2>1, MemmoveAt DEF wrapped
  <2>. QED
    BY <2>2, MemmoveAt DEF after
<1>. QED
  BY <1>2, <1>11, <1>13, <1>14 DEF all

-----------------------------------------------------------------------------
(* Placing a handle *)

(* add_handle (apps/buffering.c): where there is room, the header is in    *)
(* one piece, so is what cannot wrap and fits; the whole file of the last  *)
(* handle keeps its place; and the header, with the data too if all of it  *)
(* is allocated, ends before the first handle.                             *)
THEOREM AddHandle ==
    ASSUME NEW type, NEW data_size \in Nat,
           NEW first, first # Empty, first.at \in Addresses,
           NEW last, last.data \in Addresses,
           NEW room \in Nat, room = last.filesize - last.start,
           NEW r, r = add_handle(type, data_size, first, last), r.ok,
           NEW widx, widx = ringbuf_add(last.data, room)
    PROVE  /\ r.at \in Addresses /\ r.data = ringbuf_add(r.at, HeaderSize(type))
           /\ r.at + HeaderSize(type) <= buffer_len
           /\ ~CanWrap(type) => r.at = 0 \/ r.at + HeaderSize(type) + data_size <= buffer_len
           /\ room < Gap(last.data, first.at)
           /\ widx \in Addresses /\ widx # first.at
           /\ Gap(widx, r.at) + HeaderSize(type) <= Gap(widx, first.at)
           /\ AllocAll(type) => Gap(widx, r.at) + HeaderSize(type) + data_size
                                   <= Gap(widx, first.at)
<1>. DEFINE ridx == first.at
            header == HeaderSize(type)
            crowded == room > 0 /\ ringbuf_add_cross_full(last.data, room, ridx) > 0
            w == IF room > 0 THEN ringbuf_add(last.data, room) ELSE last.data
            aligned == ringbuf_add(w, AlignUp(w, HandleAlign) - w)
            len == header + data_size
            index == IF \/ aligned + header > buffer_len
                        \/ ~CanWrap(type) /\ aligned + len > buffer_len
                     THEN 0 ELSE aligned
            shift == ringbuf_sub_empty(index, w)
            overlap == ringbuf_add_cross_full(w, shift + len, ridx)
<1>1. /\ ~crowded
      /\ ~(overlap > 0 /\ (AllocAll(type) \/ overlap > data_size))
      /\ r.at = index
      /\ r.data = ringbuf_add(index, header)
  BY Zenon DEF add_handle
<1>2. /\ buffer_len \in Nat \ {0} /\ HandleAlign \in Nat \ {0} /\ StructSize \in Nat \ {0}
      /\ PathSize \in Nat /\ buffer_len % HandleAlign = 0
      /\ last.data \in Nat /\ last.data < buffer_len /\ ridx \in Nat /\ ridx < buffer_len
  BY RingAssumption DEF Addresses
<1>3. HandleAlign <= buffer_len
  BY <1>2
<1>4. header \in Nat \ {0}
  <2>1. /\ StructSize + 0 \in Nat \ {0}
        /\ StructSize + PathSize \in Nat \ {0}
    BY <1>2
  <2>2. ASSUME NEW x \in Nat \ {0} PROVE AlignUp(x, HandleAlign) \in Nat \ {0}
    <3>1. AlignUp(x, HandleAlign) \in Nat /\ AlignUp(x, HandleAlign) >= x
      BY <1>2, Rounding
    <3>. QED
      BY <3>1
  <2>. QED
    BY <2>1, <2>2 DEF HeaderSize
<1>0. /\ room <= buffer_len
      /\ room > 0 => last.data # ridx /\ room <= Gap(last.data, ridx)
  BY <1>1, <1>2 DEF Gap, ringbuf_add_cross_full
<1>5. w = widx /\ w \in Addresses
  <2>1. room <= buffer_len
    BY <1>0
  <2>2. last.data + room < 2 * buffer_len /\ last.data + 0 < 2 * buffer_len
    BY <2>1, <1>2
  <2>3. ringbuf_add(last.data, room) \in Addresses
    BY <2>2, <1>2, RingAdd
  <2>4. room = 0 => ringbuf_add(last.data, room) = last.data
    <3>1. /\ room = 0 => ringbuf_add(last.data, room) =
             IF last.data + 0 >= buffer_len THEN last.data + 0 - buffer_len ELSE last.data + 0
      BY <2>2, <1>2, RingAdd
    <3>. QED
      BY <3>1, <1>2
  <2>. QED
    BY <2>3, <2>4
<1>. HIDE DEF w
<1>6. aligned \in Addresses
  <2>1. w \in Nat /\ w < buffer_len
    BY <1>2, <1>5 DEF Addresses
  <2>2. AlignUp(w, HandleAlign) - w \in Nat /\ AlignUp(w, HandleAlign) - w < HandleAlign
    <3>1. /\ AlignUp(w, HandleAlign) \in Nat /\ AlignUp(w, HandleAlign) >= w
          /\ AlignUp(w, HandleAlign) < w + HandleAlign
      BY <2>1, <1>2, Rounding
    <3>. QED
      BY <3>1, <2>1, <1>2
  <2>3. w + (AlignUp(w, HandleAlign) - w) < 2 * buffer_len
    BY <2>1, <2>2, <1>2, <1>3
  <2>. QED
    BY <2>1, <2>2, <2>3, RingAdd
<1>. HIDE DEF aligned, header
<1>7. index \in Addresses
  BY <1>2, <1>6 DEF Addresses
<1>8. /\ w \in Nat /\ w < buffer_len /\ index \in Nat /\ index < buffer_len
      /\ aligned \in Nat
  BY <1>2, <1>5, <1>6, <1>7 DEF Addresses
<1>. HIDE DEF index
<1>9. shift = Gap(w, index) /\ shift \in Nat
  BY <1>2, <1>8 DEF Gap, ringbuf_sub_empty
<1>. HIDE DEF shift
<1>10. overlap = w + (shift + len) - ridx - (IF w > ridx THEN buffer_len ELSE 0)
  BY DEF ringbuf_add_cross_full
<1>. HIDE DEF overlap
<1>11. overlap \in Int
  BY <1>2, <1>4, <1>8, <1>9, <1>10
<1>12. overlap <= data_size /\ (AllocAll(type) => overlap <= 0)
  BY <1>1, <1>11
<1>13. w # ridx
  BY <1>2, <1>4, <1>8, <1>9, <1>10, <1>12
<1>14. /\ shift + header <= Gap(w, ridx)
       /\ AllocAll(type) => shift + header + data_size <= Gap(w, ridx)
  BY <1>2, <1>4, <1>8, <1>9, <1>10, <1>12, <1>13 DEF Gap
<1>15. index + header <= buffer_len
  <2>1. CASE index = 0
    <3>1. Gap(w, ridx) \in Nat /\ Gap(w, ridx) <= buffer_len
      BY <1>2, <1>8, <1>13 DEF Gap
    <3>2. header <= Gap(w, ridx)
      BY <3>1, <1>4, <1>9, <1>14
    <3>. QED
      BY <2>1, <3>1, <3>2, <1>2, <1>4
  <2>2. CASE index # 0
    BY <2>2, <1>2, <1>4, <1>8 DEF index
  <2>. QED
    BY <2>1, <2>2
<1>16. ~CanWrap(type) => index = 0 \/ index + header + data_size <= buffer_len
  BY <1>2, <1>4, <1>8 DEF index
<1>17. room < Gap(last.data, ridx)
  <2>1. CASE room = 0
    <3>1. w = last.data
      BY <2>1 DEF w
    <3>. QED
      BY <2>1, <3>1, <1>2, <1>13 DEF Gap
  <2>2. CASE room # 0
    <3>1. last.data + room < 2 * buffer_len /\ room <= Gap(last.data, ridx) /\ last.data # ridx
      BY <2>2, <1>0, <1>2
    <3>2. w = IF last.data + room >= buffer_len THEN last.data + room - buffer_len
              ELSE last.data + room
      BY <3>1, <1>2, <1>5, RingAdd
    <3>. QED
      BY <3>1, <3>2, <1>2, <1>13 DEF Gap
  <2>. QED
    BY <2>1, <2>2
<1>. QED
  BY <1>1, <1>5, <1>7, <1>9, <1>13, <1>14, <1>15, <1>16, <1>17 DEF header

(* Distances on the ring. *)
LEMMA GapIs ==
    ASSUME NEW p \in Addresses, NEW q \in Addresses
    PROVE  /\ Gap(p, q) \in 0 .. buffer_len - 1
           /\ Gap(p, p) = 0 /\ (Gap(p, q) = 0 <=> p = q)
           /\ p # q => Gap(p, q) + Gap(q, p) = buffer_len
           /\ ringbuf_add(p, Gap(p, q)) = q
           /\ ringbuf_sub_empty(q, p) = Gap(p, q)
<1>1. buffer_len \in Nat \ {0} /\ p \in 0 .. buffer_len - 1 /\ q \in 0 .. buffer_len - 1
  BY RingAssumption DEF Addresses
<1>2. Gap(p, q) \in 0 .. buffer_len - 1
  BY <1>1 DEF Gap
<1>3. p + Gap(p, q) < 2 * buffer_len
  BY <1>1, <1>2
<1>4. ringbuf_add(p, Gap(p, q)) = IF p + Gap(p, q) >= buffer_len THEN p + Gap(p, q) - buffer_len
                                  ELSE p + Gap(p, q)
  BY <1>1, <1>2, <1>3, RingAdd
<1>5. ringbuf_add(p, Gap(p, q)) = q
  BY <1>1, <1>4 DEF Gap
<1>6. /\ Gap(p, p) = 0 /\ (Gap(p, q) = 0 <=> p = q)
      /\ p # q => Gap(p, q) + Gap(q, p) = buffer_len
      /\ ringbuf_sub_empty(q, p) = Gap(p, q)
  BY <1>1 DEF Gap, ringbuf_sub_empty
<1>. QED
  BY <1>2, <1>5, <1>6

(* A place n further on, and what it is away from others. *)
LEMMA Further ==
    ASSUME NEW p \in Addresses, NEW n \in 0 .. buffer_len
    PROVE  /\ ringbuf_add(p, n) \in Addresses
           /\ ringbuf_add(p, n) = IF p + n >= buffer_len THEN p + n - buffer_len ELSE p + n
           /\ Gap(p, ringbuf_add(p, n)) = IF n = buffer_len THEN 0 ELSE n
           /\ \A x \in Addresses :
                Gap(ringbuf_add(p, n), x) = IF n <= Gap(p, x) THEN Gap(p, x) - n
                                            ELSE IF n = buffer_len THEN Gap(p, x)
                                            ELSE Gap(p, x) + buffer_len - n
           /\ \A x \in Addresses : n <= Gap(p, x) =>
                Gap(x, ringbuf_add(p, n)) = IF n = Gap(p, x) THEN 0
                                            ELSE IF n = 0 THEN Gap(x, p) ELSE Gap(x, p) + n
<1>1. buffer_len \in Nat \ {0} /\ p \in 0 .. buffer_len - 1
  BY RingAssumption DEF Addresses
<1>2. p + n < 2 * buffer_len /\ n \in Nat /\ p \in Nat
  BY <1>1
<1>3. /\ ringbuf_add(p, n) \in Addresses
      /\ ringbuf_add(p, n) = IF p + n >= buffer_len THEN p + n - buffer_len ELSE p + n
  BY <1>2, RingAdd
<1>. DEFINE r == ringbuf_add(p, n)
<1>. HIDE DEF r
<1>4. r \in 0 .. buffer_len - 1 /\ r = IF p + n >= buffer_len THEN p + n - buffer_len ELSE p + n
  BY <1>3 DEF r, Addresses
<1>5. Gap(p, r) = IF n = buffer_len THEN 0 ELSE n
  BY <1>1, <1>4 DEF Gap
<1>6. ASSUME NEW x \in Addresses
      PROVE  /\ Gap(r, x) = IF n <= Gap(p, x) THEN Gap(p, x) - n
                            ELSE IF n = buffer_len THEN Gap(p, x)
                            ELSE Gap(p, x) + buffer_len - n
             /\ n <= Gap(p, x) =>
                  Gap(x, r) = IF n = Gap(p, x) THEN 0 ELSE IF n = 0 THEN Gap(x, p) ELSE Gap(x, p) + n
  <2>1. x \in 0 .. buffer_len - 1
    BY DEF Addresses
  <2>. QED
    BY <1>1, <1>4, <2>1 DEF Gap
<1>. QED
  BY <1>3, <1>5, <1>6 DEF r

(* Three places: q is on the way from p to r if it is nearer to p. *)
LEMMA OnTheWay ==
    ASSUME NEW p \in Addresses, NEW q \in Addresses, NEW r \in Addresses
    PROVE  Gap(p, q) <= Gap(p, r) => Gap(p, r) = Gap(p, q) + Gap(q, r)
<1>1. /\ buffer_len \in Nat \ {0}
      /\ p \in 0 .. buffer_len - 1 /\ q \in 0 .. buffer_len - 1 /\ r \in 0 .. buffer_len - 1
  BY RingAssumption DEF Addresses
<1>. QED
  BY <1>1 DEF Gap

(* Two stretches of the ring neither of which reaches the other's start    *)
(* share no place.                                                         *)
LEMMA Disjoint ==
    ASSUME NEW p \in Addresses, NEW q \in Addresses, NEW x \in Addresses,
           NEW m \in Int, NEW n \in Int, m <= Gap(p, q), n <= Gap(q, p), p # q,
           Gap(p, x) < m
    PROVE  ~(Gap(q, x) < n)
<1>1. /\ buffer_len \in Nat \ {0}
      /\ p \in 0 .. buffer_len - 1 /\ q \in 0 .. buffer_len - 1 /\ x \in 0 .. buffer_len - 1
  BY RingAssumption DEF Addresses
<1>. QED
  BY <1>1 DEF Gap

(* MIN of two numbers.                                                     *)
LEMMA LeastIs ==
    ASSUME NEW x \in Int, NEW y \in Int
    PROVE  /\ Least(x, y) \in {x, y} /\ Least(x, y) <= x /\ Least(x, y) <= y
           /\ Least(x, y) = IF x < y THEN x ELSE y
BY DEF Least

(* Headers and paddings leave something of the ring. *)
LEMMA Headers ==
    ASSUME NEW type
    PROVE  /\ HeaderSize(type) \in Nat \ {0}
           /\ HeaderSize(type) + StorageAlign <= buffer_len
<1>1. /\ {buffer_len, StructSize, HandleAlign, StorageAlign} \subseteq Nat \ {0} /\ PathSize \in Nat
      /\ StructSize + PathSize + HandleAlign + StorageAlign <= buffer_len
  BY RingAssumption
<1>. DEFINE x == StructSize + (IF type = "raw" THEN 0 ELSE PathSize)
<1>2. x \in Nat \ {0} /\ x <= StructSize + PathSize
  BY <1>1
<1>. HIDE DEF x
<1>3. AlignUp(x, HandleAlign) \in Nat /\ AlignUp(x, HandleAlign) >= x /\ AlignUp(x, HandleAlign) < x + HandleAlign
  BY <1>1, <1>2, Rounding
<1>4. HeaderSize(type) = AlignUp(x, HandleAlign)
  BY DEF HeaderSize, x
<1>. QED
  BY <1>1, <1>2, <1>3, <1>4

(* STORAGE_PAD is less than the alignment, and nothing without one.        *)
LEMMA Paddings ==
    ASSUME NEW offset \in Int, NEW data \in Int
    PROVE  /\ StoragePad(offset, data) \in 0 .. StorageAlign - 1
           /\ StorageAlign = 1 => StoragePad(offset, data) = 0
<1>1. StorageAlign \in Nat \ {0}
  BY RingAssumption
<1>2. offset - data \in Int
  OBVIOUS
<1>3. \A d \in Int, a \in Nat \ {0} : d % a \in 0 .. a - 1
  OBVIOUS
<1>4. StoragePad(offset, data) \in 0 .. StorageAlign - 1
  BY <1>1, <1>2, <1>3 DEF StoragePad
<1>. QED
  BY <1>1, <1>4

-----------------------------------------------------------------------------
(* One handle *)

(* What a handle's fields say of the ring. *)
LEMMA ShapeSays ==
    ASSUME NEW h, Shape(h)
    PROVE  /\ h.at \in Addresses /\ h.data \in Addresses /\ h.widx \in Addresses
           /\ h.type \in Types /\ h.size \in Nat \ {0} /\ h.size <= Off(h) /\ h.at + h.size <= buffer_len
           /\ Off(h) \in 1 .. buffer_len - 1
           /\ h.data = ringbuf_add(h.at, Off(h))
           /\ h.filesize \in Nat /\ h.start \in Nat /\ h.pos \in Nat /\ h.end \in Nat
           /\ h.start <= h.end /\ h.start <= h.pos /\ h.start <= h.filesize
           /\ Held(h) \in Nat /\ Held(h) = IF h.end < h.filesize THEN h.end - h.start
                                           ELSE h.filesize - h.start
           /\ Ext(h) = Off(h) + Held(h) /\ Ext(h) \in Nat /\ Ext(h) <= buffer_len
           /\ Whole(h) \in Nat /\ Whole(h) = Off(h) + (h.filesize - h.start) /\ Ext(h) <= Whole(h)
           /\ Off(h) + (h.end - h.start) <= buffer_len
           /\ h.widx = ringbuf_add(h.at, Off(h) + (h.end - h.start))
<1>1. /\ buffer_len \in Nat \ {0} /\ h.at \in Addresses /\ h.data \in Addresses /\ h.widx \in Addresses
      /\ h.type \in Types /\ h.size \in Nat
      /\ h.filesize \in Nat /\ h.start \in Nat /\ h.pos \in Nat /\ h.end \in Nat
      /\ h.start <= h.end /\ h.start <= h.pos /\ h.start <= h.filesize
      /\ h.size <= Off(h) /\ h.at + h.size <= buffer_len
  <2>1. h \in HandleType
    BY DEF Shape
  <2>2. buffer_len \in Nat \ {0} /\ h.size \in 0 .. buffer_len
    BY <2>1, RingAssumption DEF HandleType
  <2>. QED
    BY <2>1, <2>2 DEF Shape, HandleType
<1>2. h.size \in Nat \ {0}
  BY Headers DEF Shape
<1>3. /\ Off(h) \in 0 .. buffer_len - 1
      /\ h.data = ringbuf_add(h.at, Off(h))
  BY <1>1, GapIs DEF Off
<1>4. Off(h) \in 1 .. buffer_len - 1
  BY <1>1, <1>2, <1>3
<1>5. /\ Held(h) \in Nat
      /\ Held(h) = IF h.end < h.filesize THEN h.end - h.start ELSE h.filesize - h.start
      /\ Held(h) <= h.end - h.start /\ Held(h) <= h.filesize - h.start
  BY <1>1 DEF Held, Least
<1>6. Off(h) + h.end - h.start <= buffer_len
  BY DEF Shape
<1>7. Ext(h) \in Nat /\ Ext(h) <= buffer_len
  BY <1>1, <1>4, <1>5, <1>6 DEF Ext
<1>8. Whole(h) \in Nat /\ Whole(h) = Off(h) + (h.filesize - h.start) /\ Ext(h) <= Whole(h)
  BY <1>1, <1>4, <1>5 DEF Ext, Whole
<1>9. Off(h) + (h.end - h.start) <= buffer_len
  BY <1>1, <1>4, <1>6
<1>10. h.widx = ringbuf_add(h.at, Off(h) + (h.end - h.start))
  <2>. DEFINE o == Off(h)
              e == h.end - h.start
  <2>1. o \in 1 .. buffer_len - 1 /\ e \in Nat /\ o + e <= buffer_len /\ o + e \in 0 .. buffer_len
    BY <1>1, <1>4, <1>9
  <2>. HIDE DEF o, e
  <2>2. h.at \in 0 .. buffer_len - 1
    BY <1>1 DEF Addresses
  <2>3. h.data = IF h.at + o >= buffer_len THEN h.at + o - buffer_len ELSE h.at + o
    <3>1. o \in 0 .. buffer_len
      BY <2>1, <1>1
    <3>. QED
      BY <3>1, <1>1, <1>3, Further, ZenonT(60) DEF o
  <2>4. ringbuf_add(h.at, o + e) = IF h.at + (o + e) >= buffer_len THEN h.at + (o + e) - buffer_len
                                   ELSE h.at + (o + e)
    <3>1. PICK n \in 0 .. buffer_len : n = o + e
      BY <2>1
    <3>2. ringbuf_add(h.at, n) = IF h.at + n >= buffer_len THEN h.at + n - buffer_len ELSE h.at + n
      BY <1>1, Further, ZenonT(60)
    <3>. QED
      BY <3>1, <3>2
  <2>5. ringbuf_add(h.data, e) = IF h.data + e >= buffer_len THEN h.data + e - buffer_len ELSE h.data + e
    <3>1. h.data \in Nat /\ h.data + e < 2 * buffer_len
      BY <2>1, <2>2, <2>3, <1>1
    <3>. QED
      BY <3>1, <2>1, RingAdd
  <2>6. h.widx = ringbuf_add(h.data, e)
    BY DEF Shape, e
  <2>. QED
    BY <1>1, <2>1, <2>2, <2>3, <2>4, <2>5, <2>6 DEF o, e
<1>. QED
  BY <1>1, <1>2, <1>3, <1>4, <1>5, <1>7, <1>8, <1>9, <1>10 DEF Ext

(* The bytes of the ring after a write of n bytes at a distance o behind   *)
(* the place p.                                                            *)
LEMMA BytesAt ==
    ASSUME NEW mem, DOMAIN mem = Addresses, NEW p \in Addresses, NEW o \in 0 .. buffer_len,
           NEW n \in Nat, o + n <= buffer_len, NEW id, NEW from \in Nat
    PROVE  /\ DOMAIN WithBytes(mem, ringbuf_add(p, o), id, from, n) = Addresses
           /\ \A x \in Addresses :
                WithBytes(mem, ringbuf_add(p, o), id, from, n)[x]
                  = IF o <= Gap(p, x) /\ Gap(p, x) < o + n THEN <<id, from + (Gap(p, x) - o)>>
                    ELSE mem[x]
<1>. DEFINE q == ringbuf_add(p, o)
<1>1. buffer_len \in Nat \ {0}
  BY RingAssumption
<1>2. /\ q \in Addresses
      /\ \A x \in Addresses : Gap(q, x) = IF o <= Gap(p, x) THEN Gap(p, x) - o
                                          ELSE IF o = buffer_len THEN Gap(p, x)
                                          ELSE Gap(p, x) + buffer_len - o
  BY Further
<1>. HIDE DEF q
<1>3. ASSUME NEW x \in Addresses
      PROVE  WithBytes(mem, q, id, from, n)[x]
               = IF o <= Gap(p, x) /\ Gap(p, x) < o + n THEN <<id, from + (Gap(p, x) - o)>> ELSE mem[x]
  <2>1. ringbuf_sub_empty(x, q) = Gap(q, x) /\ Gap(p, x) \in 0 .. buffer_len - 1
    BY <1>2, GapIs
  <2>2. Gap(q, x) < n <=> o <= Gap(p, x) /\ Gap(p, x) < o + n
    BY <1>1, <1>2, <2>1
  <2>3. o <= Gap(p, x) => Gap(q, x) = Gap(p, x) - o
    BY <1>2
  <2>4. WithBytes(mem, q, id, from, n)[x] = IF ringbuf_sub_empty(x, q) < n
                                            THEN <<id, from + ringbuf_sub_empty(x, q)>> ELSE mem[x]
    BY DEF WithBytes
  <2>. QED
    BY <2>1, <2>2, <2>3, <2>4
<1>4. DOMAIN WithBytes(mem, q, id, from, n) = Addresses
  BY DEF WithBytes
<1>. QED
  BY <1>3, <1>4 DEF q

(* Where a header is written.                                              *)
LEMMA HeaderAt ==
    ASSUME NEW mem, DOMAIN mem = Addresses, NEW p \in Addresses, NEW n \in Nat, p + n <= buffer_len,
           NEW id
    PROVE  /\ DOMAIN WithHeader(mem, p, id, n) = Addresses
           /\ \A x \in Addresses :
                WithHeader(mem, p, id, n)[x] = IF Gap(p, x) < n THEN <<id, Header>> ELSE mem[x]
<1>1. buffer_len \in Nat \ {0} /\ p \in 0 .. buffer_len - 1
  BY RingAssumption DEF Addresses
<1>2. ASSUME NEW x \in Addresses
      PROVE  x \in p .. p + n - 1 <=> Gap(p, x) < n
  <2>1. x \in 0 .. buffer_len - 1
    BY DEF Addresses
  <2>. QED
    BY <1>1, <2>1 DEF Gap
<1>. QED
  BY <1>2 DEF WithHeader

(* Clearing what a handle no longer refers to: no other handle loses       *)
(* anything by it, nor does the handle itself.                             *)
LEMMA OutdatedKeeps ==
    ASSUME NEW mem, DOMAIN mem = Addresses, NEW id, NEW h, NEW b, b # id, NEW hb, Holds(mem, b, hb)
    PROVE  Holds(Outdated(mem, id, h), b, hb)
<1>1. ASSUME NEW x \in Addresses, NEW y, mem[x] = <<b, y>>
      PROVE  Outdated(mem, id, h)[x] = <<b, y>>
  <2>1. mem[x][1] = b
    BY <1>1
  <2>. QED
    BY <1>1, <2>1 DEF Outdated
<1>. QED
  BY <1>1 DEF Holds

(* Marking old bytes keeps the ring.                                       *)
LEMMA OutdatedDomain ==
    ASSUME NEW mem, NEW id, NEW h
    PROVE  DOMAIN Outdated(mem, id, h) = DOMAIN mem
BY DEF Outdated

(* A handle still holds what it says when its older bytes are marked.      *)
LEMMA OutdatedOwn ==
    ASSUME NEW mem, DOMAIN mem = Addresses, NEW id, NEW h, Shape(h), Holds(mem, id, h)
    PROVE  Holds(Outdated(mem, id, h), id, h)
<1>1. buffer_len \in Nat \ {0} /\ h.at \in 0 .. buffer_len - 1
  BY ShapeSays, RingAssumption DEF Addresses
<1>2. /\ h.size \in Nat \ {0} /\ h.at + h.size <= buffer_len /\ Off(h) \in 1 .. buffer_len - 1
      /\ h.data = ringbuf_add(h.at, Off(h)) /\ h.size <= Off(h)
      /\ Ext(h) = Off(h) + Held(h) /\ Ext(h) <= buffer_len /\ Held(h) \in Nat
      /\ Held(h) <= h.end - h.start
      /\ h.at \in Addresses /\ h.end \in Nat /\ h.start \in Nat
  BY ShapeSays
<1>3. ASSUME NEW x \in Addresses
      PROVE  /\ Gap(h.at, x) < h.size => x \in h.at .. h.at + h.size - 1
             /\ Gap(h.at, x) \in Off(h) .. Ext(h) - 1 => ~(ringbuf_sub_empty(x, h.data) >= h.end - h.start)
  <2>1. x \in 0 .. buffer_len - 1
    BY DEF Addresses
  <2>2. Gap(h.at, x) < h.size => x \in h.at .. h.at + h.size - 1
    BY <1>1, <1>2, <2>1 DEF Gap
  <2>3. ASSUME Gap(h.at, x) \in Off(h) .. Ext(h) - 1
        PROVE  ~(ringbuf_sub_empty(x, h.data) >= h.end - h.start)
    <3>1. Off(h) \in 0 .. buffer_len /\ Gap(h.at, x) \in 0 .. buffer_len - 1
      BY <1>1, <1>2, GapIs
    <3>2. ringbuf_sub_empty(x, h.data) = Gap(h.data, x)
      BY <1>2, GapIs, ShapeSays
    <3>3. Gap(h.data, x) = Gap(h.at, x) - Off(h)
      BY <2>3, <3>1, <1>2, Further
    <3>. QED
      BY <2>3, <3>1, <3>2, <3>3, <1>2
  <2>. QED
    BY <2>2, <2>3
<1>. QED
  BY <1>3 DEF Holds, Outdated

(* A handle holds what it held if the bytes up to its end did not change.  *)
LEMMA StillHolds ==
    ASSUME NEW mem, NEW after, NEW id, NEW h, Shape(h), Holds(mem, id, h),
           \A x \in Addresses : Gap(h.at, x) < Ext(h) => after[x] = mem[x]
    PROVE  Holds(after, id, h)
<1>1. h.size \in Nat /\ Off(h) \in Nat /\ Ext(h) \in Nat /\ h.size <= Off(h) /\ Off(h) <= Ext(h)
  BY ShapeSays
<1>2. \A x \in Addresses : Gap(h.at, x) \in Nat
  BY GapIs, ShapeSays
<1>3. \A x \in Addresses : /\ Gap(h.at, x) < h.size => Gap(h.at, x) < Ext(h)
                           /\ Gap(h.at, x) \in Off(h) .. Ext(h) - 1 => Gap(h.at, x) < Ext(h)
  BY <1>1, <1>2
<1>. QED
  BY <1>3 DEF Holds

(* A write that stays within n of p leaves every handle alone that p's     *)
(* handle does not reach in n and that does not reach p.                   *)
LEMMA OthersHold ==
    ASSUME NEW mem, NEW after, NEW p \in Addresses, NEW n \in Int,
           \A x \in Addresses : ~(Gap(p, x) < n) => after[x] = mem[x],
           NEW b, NEW hb, Shape(hb), Holds(mem, b, hb), p # hb.at,
           n <= Gap(p, hb.at), Ext(hb) <= Gap(hb.at, p)
    PROVE  Holds(after, b, hb)
<1>1. hb.at \in Addresses /\ Ext(hb) \in Int
  BY ShapeSays
<1>2. ASSUME NEW x \in Addresses, Gap(hb.at, x) < Ext(hb)
      PROVE  after[x] = mem[x]
  <2>1. ~(Gap(p, x) < n)
    BY <1>1, <1>2, Disjoint
  <2>. QED
    BY <2>1
<1>. QED
  BY <1>2, StillHolds

(* What holds of the handles of a set holds of those that are left.        *)
LEMMA FewerLaid ==
    ASSUME NEW hs, NEW L, Laid(hs, L), NEW M \in SUBSET L, NEW hs2,
           \A a \in M : hs2[a] = hs[a]
    PROVE  Laid(hs2, M)
<1>1. \A a \in M : Shape(hs2[a])
  BY DEF Laid
<1>2. Apart(hs2, M)
  BY DEF Laid, Apart
<1>3. InOrder(hs2, M)
  <2>1. InOrder(hs, L)
    BY DEF Laid
  <2>. SUFFICES ASSUME NEW a \in M, NEW b \in M, NEW c \in M, a < b, b < c
                PROVE  Gap(hs2[a].at, hs2[b].at) <= Gap(hs2[a].at, hs2[c].at)
    BY DEF InOrder
  <2>. QED
    BY <2>1 DEF InOrder
<1>4. RoomForAll(hs2, M)
  <2>1. RoomForAll(hs, L)
    BY DEF Laid
  <2>. SUFFICES ASSUME NEW a \in M, hs2[a].type # "audio",
                       AllocAll(hs2[a].type) \/ \E c \in M : c > a
                PROVE  HasRoom(hs2, M, a)
    BY DEF RoomForAll
  <2>2. HasRoom(hs, L, a)
    BY <2>1 DEF RoomForAll
  <2>. QED
    BY <2>2 DEF HasRoom
<1>. QED
  BY <1>1, <1>2, <1>3, <1>4 DEF Laid

(* One handle's fields change, its header stays where it is.               *)
LEMMA UpdatedLaid ==
    ASSUME NEW hs, NEW L, Laid(hs, L), NEW x \in L, NEW new, Shape(new),
           new.at = hs[x].at, new.type = hs[x].type,
           \A b \in L : b # x => Ext(new) <= Gap(new.at, hs[b].at),
           new.type # "audio" => Whole(new) <= Whole(hs[x]),
           NEW hs2, hs2[x] = new, \A b \in L : b # x => hs2[b] = hs[b]
    PROVE  Laid(hs2, L)
<1>0. \A b \in L : hs2[b].at = hs[b].at /\ hs2[b].type = hs[b].type
  OBVIOUS
<1>1. \A a \in L : Shape(hs2[a])
  BY DEF Laid
<1>2. Apart(hs2, L)
  <2>1. Apart(hs, L)
    BY DEF Laid
  <2>. SUFFICES ASSUME NEW a \in L, NEW b \in L, a # b
                PROVE  Ext(hs2[a]) <= Gap(hs2[a].at, hs2[b].at)
    BY DEF Apart
  <2>2. CASE a = x
    BY <2>2, <1>0
  <2>3. CASE a # x
    BY <2>1, <2>3, <1>0 DEF Apart
  <2>. QED
    BY <2>2, <2>3
<1>3. InOrder(hs2, L)
  <2>1. InOrder(hs, L)
    BY DEF Laid
  <2>. SUFFICES ASSUME NEW a \in L, NEW b \in L, NEW c \in L, a < b, b < c
                PROVE  Gap(hs2[a].at, hs2[b].at) <= Gap(hs2[a].at, hs2[c].at)
    BY DEF InOrder
  <2>. QED
    BY <2>1, <1>0 DEF InOrder
<1>4. RoomForAll(hs2, L)
  <2>1. RoomForAll(hs, L)
    BY DEF Laid
  <2>. SUFFICES ASSUME NEW a \in L, hs2[a].type # "audio",
                       AllocAll(hs2[a].type) \/ \E c \in L : c > a
                PROVE  HasRoom(hs2, L, a)
    BY DEF RoomForAll
  <2>2. HasRoom(hs, L, a)
    BY <2>1, <1>0 DEF RoomForAll
  <2>3. Whole(hs2[a]) <= Whole(hs[a])
    <3>1. CASE a = x
      BY <3>1
    <3>2. CASE a # x
      <4>1. Whole(hs[a]) \in Int
        BY ShapeSays DEF Laid
      <4>. QED
        BY <3>2, <4>1
    <3>. QED
      BY <3>1, <3>2
  <2>4. Whole(hs2[a]) \in Int /\ Whole(hs[a]) \in Int /\ buffer_len \in Int
    BY <1>1, ShapeSays, RingAssumption DEF Laid
  <2>5. \A b \in L : hs[b].at \in Addresses
    BY ShapeSays DEF Laid
  <2>6. \A b \in L : Gap(hs[a].at, hs[b].at) \in Int
    BY <2>5, GapIs
  <2>. QED
    BY <2>2, <2>3, <2>4, <2>6, <1>0 DEF HasRoom
<1>. QED
  BY <1>1, <1>2, <1>3, <1>4 DEF Laid

(* A place that moves on, short of where the others begin.                 *)
LEMMA MovesOn ==
    ASSUME NEW p \in Addresses, NEW q \in Addresses, NEW d \in Nat, d < Gap(p, q),
           NEW p2, p2 = ringbuf_add(p, d)
    PROVE  /\ p2 \in Addresses
           /\ Gap(p2, q) = Gap(p, q) - d
           /\ Gap(q, p2) = Gap(q, p) + d
<1>1. Gap(p, q) \in 0 .. buffer_len - 1 /\ buffer_len \in Nat \ {0}
  BY GapIs, RingAssumption
<1>2. d \in 0 .. buffer_len
  BY <1>1
<1>3. d <= Gap(p, q) /\ d # Gap(p, q) /\ (d = 0 => Gap(q, p) + d = Gap(q, p))
  <2>1. Gap(q, p) \in Int
    BY GapIs
  <2>. QED
    BY <1>1, <2>1
<1>. QED
  BY <1>2, <1>3, Further

(* One handle moves up, to where it leaves the others the room they need.  *)
(* A handle may move on by d: what it then reaches is free. *)
Clears(hs, L, x, new, d) ==
    /\ \A b \in L : b # x => d + Ext(new) <= Gap(hs[x].at, hs[b].at)
    /\ new.type # "audio" =>
         /\ Whole(new) = Whole(hs[x]) /\ Whole(hs[x]) <= buffer_len
         /\ \A b \in L : b # x => d + Whole(new) <= Gap(hs[x].at, hs[b].at)

Goes(hs, L, x, new, d, hs2) ==
    /\ Laid(hs, L) /\ L \subseteq Int /\ x \in L /\ d \in Nat
    /\ Shape(new) /\ new.at = ringbuf_add(hs[x].at, d) /\ new.type = hs[x].type
    /\ Clears(hs, L, x, new, d)
    /\ hs2[x] = new /\ \A b \in L : b # x => hs2[b] = hs[b]

(* A handle that is moved up into free room leaves the ring laid out.      *)
LEMMA MovedLaid ==
    ASSUME NEW hs, NEW L, NEW x, NEW new, NEW d, NEW hs2, Goes(hs, L, x, new, d, hs2)
    PROVE  Laid(hs2, L)
<1>0. /\ Laid(hs, L) /\ L \subseteq Int /\ x \in L /\ d \in Nat
      /\ Shape(new) /\ new.at = ringbuf_add(hs[x].at, d) /\ new.type = hs[x].type
      /\ Clears(hs, L, x, new, d)
      /\ hs2[x] = new /\ \A b \in L : b # x => hs2[b] = hs[b]
  BY DEF Goes
<1>. USE <1>0
<1>1. \A a \in L : Shape(hs2[a])
  BY DEF Laid
<1>2. \A a \in L : Ext(hs[a]) \in Nat \ {0} /\ Whole(hs[a]) \in Nat /\ hs[a].at \in Addresses
  <2>. TAKE a \in L
  <2>1. Shape(hs[a])
    BY DEF Laid
  <2>2. Ext(hs[a]) = Off(hs[a]) + Held(hs[a]) /\ Off(hs[a]) \in 1 .. buffer_len - 1 /\ Held(hs[a]) \in Nat
    BY <2>1, ShapeSays
  <2>3. Ext(hs[a]) \in Nat \ {0}
    BY <2>2
  <2>. QED
    BY <2>1, <2>3, ShapeSays
<1>3. Ext(new) \in Nat \ {0} /\ Whole(new) \in Nat
  <2>1. Ext(new) = Off(new) + Held(new) /\ Off(new) \in 1 .. buffer_len - 1 /\ Held(new) \in Nat
    BY ShapeSays
  <2>. QED
    BY <2>1, ShapeSays
<1>4. \A a, b \in L : Gap(hs[a].at, hs[b].at) \in Nat
  BY <1>2, GapIs
<1>5. buffer_len \in Nat
  BY RingAssumption
<1>6. ASSUME NEW b \in L, b # x
      PROVE  /\ Gap(new.at, hs[b].at) = Gap(hs[x].at, hs[b].at) - d
             /\ Gap(hs[b].at, new.at) = Gap(hs[b].at, hs[x].at) + d
             /\ d <= Gap(hs[x].at, hs[b].at)
  <2>1. d < Gap(hs[x].at, hs[b].at)
    <3>1. d + Ext(new) <= Gap(hs[x].at, hs[b].at)
      BY <1>0, <1>6 DEF Clears
    <3>2. Gap(hs[x].at, hs[b].at) \in Nat
      BY <1>4
    <3>. QED
      BY <3>1, <3>2, <1>3
  <2>. QED
    BY <2>1, <1>2, <1>4, MovesOn
<1>7. Apart(hs2, L)
  <2>1. Apart(hs, L)
    BY DEF Laid
  <2>. SUFFICES ASSUME NEW a \in L, NEW b \in L, a # b
                PROVE  Ext(hs2[a]) <= Gap(hs2[a].at, hs2[b].at)
    BY DEF Apart
  <2>2. CASE a = x
    BY <2>2, <1>3, <1>4, <1>6 DEF Clears
  <2>3. CASE b = x
    <3>1. Ext(hs[a]) <= Gap(hs[a].at, hs[x].at)
      BY <2>1, <2>3 DEF Apart
    <3>. QED
      BY <2>3, <3>1, <1>2, <1>4, <1>6
  <2>4. CASE a # x /\ b # x
    BY <2>1, <2>4 DEF Apart
  <2>. QED
    BY <2>2, <2>3, <2>4
<1>8. InOrder(hs2, L)
  <2>1. InOrder(hs, L)
    BY DEF Laid
  <2>. SUFFICES ASSUME NEW a \in L, NEW b \in L, NEW c \in L, a < b, b < c
                PROVE  Gap(hs2[a].at, hs2[b].at) <= Gap(hs2[a].at, hs2[c].at)
    BY DEF InOrder
  <2>2. Gap(hs[a].at, hs[b].at) <= Gap(hs[a].at, hs[c].at)
    BY <2>1 DEF InOrder
  <2>3. a # b /\ b # c /\ a # c
    OBVIOUS
  <2>4. CASE a = x
    <3>1. /\ Gap(new.at, hs[b].at) = Gap(hs[x].at, hs[b].at) - d
          /\ Gap(new.at, hs[c].at) = Gap(hs[x].at, hs[c].at) - d
      BY <2>3, <2>4, <1>6
    <3>2. Gap(hs[x].at, hs[b].at) \in Nat /\ Gap(hs[x].at, hs[c].at) \in Nat
      BY <1>4
    <3>3. hs2[a] = new /\ hs2[b] = hs[b] /\ hs2[c] = hs[c]
      BY <2>3, <2>4
    <3>4. Gap(hs[x].at, hs[b].at) <= Gap(hs[x].at, hs[c].at)
      BY <2>2, <2>4
    <3>. QED
      BY <3>1, <3>2, <3>3, <3>4
  <2>5. CASE b = x
    <3>1. Gap(hs[a].at, hs[c].at) = Gap(hs[a].at, hs[b].at) + Gap(hs[b].at, hs[c].at)
      BY <2>2, <1>2, OnTheWay
    <3>2. hs2[a] = hs[a] /\ hs2[c] = hs[c] /\ hs2[b] = new
      BY <2>3, <2>5
    <3>3. Gap(hs[a].at, new.at) = Gap(hs[a].at, hs[b].at) + d /\ d <= Gap(hs[b].at, hs[c].at)
      BY <2>3, <2>5, <1>6
    <3>4. /\ Gap(hs[a].at, hs[b].at) \in Nat /\ Gap(hs[b].at, hs[c].at) \in Nat
      BY <1>4
    <3>5. Gap(hs[a].at, new.at) <= Gap(hs[a].at, hs[c].at)
      BY <3>1, <3>3, <3>4
    <3>. QED
      BY <3>2, <3>5
  <2>6. CASE c = x
    BY <2>2, <2>3, <2>6, <1>4, <1>6
  <2>7. CASE a # x /\ b # x /\ c # x
    BY <2>2, <2>7
  <2>. QED
    BY <2>4, <2>5, <2>6, <2>7
<1>9. RoomForAll(hs2, L)
  <2>1. RoomForAll(hs, L)
    BY DEF Laid
  <2>. SUFFICES ASSUME NEW a \in L, hs2[a].type # "audio",
                       AllocAll(hs2[a].type) \/ \E c \in L : c > a
                PROVE  HasRoom(hs2, L, a)
    BY DEF RoomForAll
  <2>2. CASE a = x
    <3>1. Whole(new) <= buffer_len
      BY <2>2 DEF Clears
    <3>2. ASSUME NEW b \in L, b # x
          PROVE  Whole(new) <= Gap(new.at, hs[b].at)
      <4>1. d + Whole(new) <= Gap(hs[x].at, hs[b].at)
        BY <2>2, <3>2 DEF Clears
      <4>. QED
        BY <3>2, <4>1, <1>3, <1>4, <1>6
    <3>. QED
      BY <2>2, <3>1, <3>2 DEF HasRoom
  <2>3. CASE a # x
    <3>1. HasRoom(hs, L, a)
      BY <2>1, <2>3 DEF RoomForAll
    <3>2. Whole(hs[a]) <= Gap(hs[a].at, hs[x].at)
      BY <2>3, <3>1 DEF HasRoom
    <3>3. Whole(hs[a]) <= Gap(hs[a].at, new.at)
      <4>1. Gap(hs[a].at, new.at) = Gap(hs[a].at, hs[x].at) + d
        BY <2>3, <1>6
      <4>2. Gap(hs[a].at, hs[x].at) \in Nat /\ Whole(hs[a]) \in Nat
        BY <1>2, <1>4
      <4>. QED
        BY <3>2, <4>1, <4>2
    <3>. QED
      BY <2>3, <3>1, <3>3 DEF HasRoom
  <2>. QED
    BY <2>2, <2>3
<1>. QED
  BY <1>1, <1>7, <1>8, <1>9 DEF Laid

(* The ends of a list of handles, and what is between the last header and  *)
(* the first.                                                              *)
Ends(L, f, l) == f \in L /\ l \in L /\ \A a \in L : f <= a /\ a <= l
Between(hs, f, l) == IF f = l THEN buffer_len ELSE Gap(hs[l].at, hs[f].at)

(* Room for a new handle behind the last one l, before the first one f, is *)
(* room behind and before all of them.                                     *)
Fits(hs, L, f, l, q, n) ==
    /\ Laid(hs, L) /\ L \subseteq Int /\ Ends(L, f, l)
    /\ q \in Addresses /\ n \in Nat \ {0}
    /\ Gap(hs[l].at, q) + n <= Between(hs, f, l) /\ q # hs[l].at

(* The room behind the last handle lies before all others.                 *)
LEMMA RoomBetween ==
    ASSUME NEW hs, NEW L, NEW f, NEW l, NEW q, NEW n, Fits(hs, L, f, l, q, n), NEW a \in L
    PROVE  /\ n <= Gap(q, hs[a].at)
           /\ Gap(hs[a].at, q) = Gap(hs[a].at, hs[l].at) + Gap(hs[l].at, q)
<1>0. /\ Laid(hs, L) /\ L \subseteq Int /\ q \in Addresses /\ n \in Nat \ {0}
      /\ Gap(hs[l].at, q) + n <= Between(hs, f, l) /\ q # hs[l].at
      /\ f \in L /\ l \in L /\ \A b \in L : f <= b /\ b <= l
  BY DEF Ends, Fits
<1>1. \A b \in L : hs[b].at \in Addresses
  BY <1>0, ShapeSays DEF Laid
<1>. DEFINE A == hs[a].at
            F == hs[f].at
            E == hs[l].at
<1>2. A \in Addresses /\ F \in Addresses /\ E \in Addresses
  BY <1>0, <1>1
<1>3. f # l => Gap(F, E) > 0
  <2>. HAVE f # l
  <2>1. Ext(hs[f]) <= Gap(F, E)
    BY <1>0 DEF Laid, Apart
  <2>2. Ext(hs[f]) = Off(hs[f]) + Held(hs[f]) /\ Off(hs[f]) \in 1 .. buffer_len - 1 /\ Held(hs[f]) \in Nat
    BY <1>0, ShapeSays DEF Laid
  <2>3. Gap(F, E) \in Int
    BY <1>2, GapIs
  <2>. QED
    BY <2>1, <2>2, <2>3
<1>4. f # l /\ a # l => Gap(F, A) <= Gap(F, E)
  <2>. HAVE f # l /\ a # l
  <2>1. CASE a = f
    <3>1. Gap(F, A) = 0 /\ Gap(F, E) \in 0 .. buffer_len - 1
      BY <2>1, <1>2, GapIs
    <3>. QED
      BY <3>1
  <2>2. CASE a # f
    <3>1. f < a /\ a < l
      BY <2>2, <1>0
    <3>. QED
      BY <3>1, <1>0 DEF Laid, InOrder
  <2>. QED
    BY <2>1, <2>2
<1>5. f = l => a = l
  BY <1>0
<1>6. a # l => Gap(A, E) > 0
  <2>. HAVE a # l
  <2>1. Ext(hs[a]) <= Gap(A, E)
    BY <1>0 DEF Laid, Apart
  <2>2. Ext(hs[a]) = Off(hs[a]) + Held(hs[a]) /\ Off(hs[a]) \in 1 .. buffer_len - 1 /\ Held(hs[a]) \in Nat
    BY <1>0, ShapeSays DEF Laid
  <2>3. Gap(A, E) \in Int
    BY <1>2, GapIs
  <2>. QED
    BY <2>1, <2>2, <2>3
<1>7. a = l => A = E
  OBVIOUS
<1>8. f = l => F = E
  OBVIOUS
<1>. HIDE DEF A, F, E
<1>9. /\ buffer_len \in Nat \ {0} /\ A \in 0 .. buffer_len - 1 /\ F \in 0 .. buffer_len - 1
      /\ E \in 0 .. buffer_len - 1 /\ q \in 0 .. buffer_len - 1
  BY <1>0, <1>2, RingAssumption DEF Addresses
<1>10. Gap(E, q) + n <= (IF f = l THEN buffer_len ELSE Gap(E, F)) /\ q # E
  BY <1>0 DEF E, F, Between
<1>11. n <= Gap(q, A) /\ Gap(A, q) = Gap(A, E) + Gap(E, q)
  <2>1. CASE a = l
    BY <2>1, <1>0, <1>3, <1>7, <1>9, <1>10 DEF Gap
  <2>2. CASE a # l
    <3>1. f # l /\ Gap(F, A) <= Gap(F, E) /\ Gap(A, E) > 0 /\ Gap(F, E) > 0 /\ Gap(E, q) + n <= Gap(E, F)
      BY <2>2, <1>3, <1>4, <1>5, <1>6, <1>10
    <3>. QED
      BY <3>1, <1>0, <1>9, <1>10 DEF Gap
  <2>. QED
    BY <2>1, <2>2
<1>. QED
  BY <1>11 DEF A, E

(* Where a new handle may be put behind the others. *)
Follows(hs, L, f, l, new) ==
    /\ Ends(L, f, l)
    /\ Whole(hs[l]) <= Gap(hs[l].at, new.at)
    /\ Gap(hs[l].at, new.at) + Ext(new) <= Between(hs, f, l)
    /\ AllocAll(new.type) => Gap(hs[l].at, new.at) + Whole(new) <= Between(hs, f, l)

(* A handle put behind the last one leaves the ring laid out.              *)
LEMMA OpenedLaid ==
    ASSUME NEW hs, NEW L, Laid(hs, L), L \subseteq Int, NEW c \in Int, \A a \in L : a < c,
           NEW new, Shape(new), AllocAll(new.type) => Whole(new) <= buffer_len,
           NEW f, NEW l,
           L # {} => Follows(hs, L, f, l, new),
           NEW hs2, hs2[c] = new, \A b \in L : hs2[b] = hs[b]
    PROVE  Laid(hs2, L \cup {c})
<1>1. \A a \in L \cup {c} : Shape(hs2[a])
  BY DEF Laid
<1>2. \A a \in L : Ext(hs[a]) \in Nat \ {0} /\ Whole(hs[a]) \in Nat /\ Ext(hs[a]) <= Whole(hs[a])
                   /\ hs[a].at \in Addresses
  <2>. TAKE a \in L
  <2>1. Shape(hs[a])
    BY DEF Laid
  <2>2. Ext(hs[a]) = Off(hs[a]) + Held(hs[a]) /\ Off(hs[a]) \in 1 .. buffer_len - 1 /\ Held(hs[a]) \in Nat
    BY <2>1, ShapeSays
  <2>3. Ext(hs[a]) \in Nat \ {0}
    BY <2>2
  <2>. QED
    BY <2>1, <2>3, ShapeSays
<1>3. Ext(new) \in Nat \ {0} /\ Whole(new) \in Nat \ {0} /\ new.at \in Addresses
  <2>1. Ext(new) = Off(new) + Held(new) /\ Off(new) \in 1 .. buffer_len - 1 /\ Held(new) \in Nat
        /\ Ext(new) <= Whole(new) /\ Whole(new) \in Nat /\ new.at \in Addresses
    BY ShapeSays
  <2>. QED
    BY <2>1
<1>4. \A a, b \in L : Gap(hs[a].at, hs[b].at) \in Nat
  BY <1>2, GapIs
<1>5. \A a \in L : a # c /\ hs2[a] = hs[a]
  OBVIOUS
<1>6. ASSUME NEW a \in L
      PROVE  /\ Ext(new) <= Gap(new.at, hs[a].at)
             /\ AllocAll(new.type) => Whole(new) <= Gap(new.at, hs[a].at)
             /\ Gap(hs[a].at, new.at) = Gap(hs[a].at, hs[l].at) + Gap(hs[l].at, new.at)
             /\ Gap(hs[l].at, new.at) \in Nat
             /\ Whole(hs[l]) <= Gap(hs[l].at, new.at)
             /\ l \in L /\ (a # l => a < l)
  <2>0. Ends(L, f, l)
    BY DEF Follows
  <2>1. /\ f \in L /\ l \in L /\ \A b \in L : f <= b /\ b <= l
        /\ Whole(hs[l]) <= Gap(hs[l].at, new.at)
        /\ Gap(hs[l].at, new.at) + Ext(new)
             <= Between(hs, f, l)
    BY DEF Ends, Follows
  <2>2. Gap(hs[l].at, new.at) \in Nat /\ Gap(hs[l].at, hs[l].at) = 0
    BY <1>2, <1>3, <2>1, GapIs
  <2>3. new.at # hs[l].at
    <3>1. Ext(hs[l]) \in Nat \ {0} /\ Whole(hs[l]) \in Nat /\ Ext(hs[l]) <= Whole(hs[l])
      BY <2>1, <1>2
    <3>2. Gap(hs[l].at, new.at) # 0
      BY <3>1, <2>1, <2>2
    <3>. QED
      BY <3>2, <2>2
  <2>4. /\ Ext(new) <= Gap(new.at, hs[a].at)
        /\ Gap(hs[a].at, new.at) = Gap(hs[a].at, hs[l].at) + Gap(hs[l].at, new.at)
    <3>1. Fits(hs, L, f, l, new.at, Ext(new))
      BY <2>0, <2>1, <2>3, <1>3 DEF Fits
    <3>. QED
      BY <3>1, RoomBetween
  <2>5. ASSUME AllocAll(new.type)
        PROVE  Whole(new) <= Gap(new.at, hs[a].at)
    <3>1. Gap(hs[l].at, new.at) + Whole(new)
            <= Between(hs, f, l)
      BY <2>5 DEF Follows
    <3>2. Fits(hs, L, f, l, new.at, Whole(new))
      BY <2>0, <2>3, <3>1, <1>3 DEF Fits
    <3>. QED
      BY <3>2, RoomBetween
  <2>. QED
    BY <2>1, <2>2, <2>4, <2>5
<1>7. Apart(hs2, L \cup {c})
  <2>. SUFFICES ASSUME NEW a \in L \cup {c}, NEW b \in L \cup {c}, a # b
                PROVE  Ext(hs2[a]) <= Gap(hs2[a].at, hs2[b].at)
    BY DEF Apart
  <2>1. CASE a = c
    BY <2>1, <1>5, <1>6
  <2>2. CASE a # c /\ b = c
    <3>1. a \in L /\ hs2[a] = hs[a] /\ hs2[b] = new /\ l \in L
      BY <2>2, <1>5, <1>6
    <3>2. Gap(hs[a].at, new.at) = Gap(hs[a].at, hs[l].at) + Gap(hs[l].at, new.at)
      BY <3>1, <1>6
    <3>3. /\ Gap(hs[a].at, hs[l].at) \in Nat /\ Gap(hs[l].at, new.at) \in Nat
          /\ Whole(hs[l]) <= Gap(hs[l].at, new.at) /\ Ext(hs[l]) <= Whole(hs[l])
          /\ Ext(hs[l]) \in Nat /\ Whole(hs[l]) \in Nat /\ Ext(hs[a]) \in Nat
      BY <3>1, <1>2, <1>4, <1>6
    <3>4. a # l => Ext(hs[a]) <= Gap(hs[a].at, hs[l].at)
      BY <3>1 DEF Laid, Apart
    <3>5. Ext(hs[a]) <= Gap(hs[a].at, new.at)
      BY <3>2, <3>3, <3>4
    <3>. QED
      BY <3>1, <3>5
  <2>3. CASE a # c /\ b # c
    BY <2>3, <1>5 DEF Laid, Apart
  <2>. QED
    BY <2>1, <2>2, <2>3
<1>8. InOrder(hs2, L \cup {c})
  <2>. SUFFICES ASSUME NEW a \in L \cup {c}, NEW b \in L \cup {c}, NEW d \in L \cup {c}, a < b, b < d
                PROVE  Gap(hs2[a].at, hs2[b].at) <= Gap(hs2[a].at, hs2[d].at)
    BY DEF InOrder
  <2>1. a \in L /\ b \in L
    OBVIOUS
  <2>2. CASE d \in L
    BY <2>1, <2>2, <1>5 DEF Laid, InOrder
  <2>3. CASE d = c
    <3>1. Gap(hs[a].at, new.at) = Gap(hs[a].at, hs[l].at) + Gap(hs[l].at, new.at)
      BY <2>1, <1>6
    <3>2. /\ Gap(hs[a].at, hs[l].at) \in Nat /\ Gap(hs[l].at, new.at) \in Nat
          /\ Gap(hs[a].at, hs[b].at) \in Nat
      BY <2>1, <1>4, <1>6
    <3>3. Gap(hs[a].at, hs[b].at) <= Gap(hs[a].at, hs[l].at)
      <4>1. CASE b = l
        BY <4>1, <3>2
      <4>2. CASE b # l
        <5>1. l \in L /\ b < l
          BY <2>1, <4>2, <1>6
        <5>. QED
          BY <2>1, <5>1 DEF Laid, InOrder
      <4>. QED
        BY <4>1, <4>2
    <3>4. Gap(hs[a].at, hs[b].at) <= Gap(hs[a].at, new.at)
      BY <3>1, <3>2, <3>3
    <3>. QED
      BY <2>1, <2>3, <3>4, <1>5
  <2>. QED
    BY <2>2, <2>3
<1>9. RoomForAll(hs2, L \cup {c})
  <2>1. RoomForAll(hs, L)
    BY DEF Laid
  <2>. SUFFICES ASSUME NEW a \in L \cup {c}, hs2[a].type # "audio",
                       AllocAll(hs2[a].type) \/ \E d \in L \cup {c} : d > a
                PROVE  HasRoom(hs2, L \cup {c}, a)
    BY DEF RoomForAll
  <2>2. CASE a = c
    <3>0. ~ \E d \in L \cup {c} : d > a
      <4>1. \A d \in L : d < c /\ d \in Int
        OBVIOUS
      <4>2. \A d \in L \cup {c} : ~(d > c)
        BY <4>1
      <4>. QED
        BY <2>2, <4>2
    <3>1. AllocAll(new.type)
      BY <2>2, <3>0
    <3>. QED
      BY <2>2, <3>1, <1>5, <1>6 DEF HasRoom
  <2>3. CASE a \in L /\ a # l
    <3>1. l \in L /\ l > a
      BY <2>3, <1>6
    <3>2. HasRoom(hs, L, a)
      BY <2>1, <2>3, <3>1, <1>5 DEF RoomForAll
    <3>3. Whole(hs[a]) <= Gap(hs[a].at, hs[l].at)
      BY <2>3, <3>1, <3>2 DEF HasRoom
    <3>4. Whole(hs[a]) <= Gap(hs[a].at, new.at)
      <4>1. /\ Gap(hs[a].at, new.at) = Gap(hs[a].at, hs[l].at) + Gap(hs[l].at, new.at)
            /\ Gap(hs[a].at, hs[l].at) \in Nat /\ Gap(hs[l].at, new.at) \in Nat /\ Whole(hs[a]) \in Nat
        BY <2>3, <3>1, <1>2, <1>4, <1>6
      <4>. QED
        BY <3>3, <4>1
    <3>. QED
      BY <2>3, <3>2, <3>4, <1>5 DEF HasRoom
  <2>4. CASE a \in L /\ a = l
    <3>1. Whole(hs[a]) <= Gap(hs[a].at, new.at) /\ hs2[a] = hs[a] /\ Whole(hs[a]) \in Nat
          /\ Gap(hs[a].at, new.at) \in 0 .. buffer_len - 1 /\ buffer_len \in Nat
      BY <2>4, <1>2, <1>3, <1>5, <1>6, GapIs, RingAssumption
    <3>2. Whole(hs[a]) <= buffer_len
      BY <3>1
    <3>3. ASSUME NEW b \in L, b # a
          PROVE  Whole(hs[a]) <= Gap(hs[a].at, hs[b].at)
      <4>1. Gap(hs[b].at, new.at) = Gap(hs[b].at, hs[a].at) + Gap(hs[a].at, new.at)
        BY <2>4, <3>3, <1>6
      <4>2. /\ hs[b].at # hs[a].at => Gap(hs[b].at, hs[a].at) + Gap(hs[a].at, hs[b].at) = buffer_len
            /\ Gap(hs[b].at, new.at) \in 0 .. buffer_len - 1
            /\ Gap(hs[b].at, hs[a].at) \in 0 .. buffer_len - 1
            /\ Gap(hs[a].at, hs[b].at) \in 0 .. buffer_len - 1
            /\ (Gap(hs[a].at, hs[b].at) = 0 <=> hs[a].at = hs[b].at)
        <5>1. hs[a].at \in Addresses /\ hs[b].at \in Addresses /\ new.at \in Addresses
          BY <2>4, <3>3, <1>2, <1>3
        <5>2. /\ hs[b].at # hs[a].at => Gap(hs[b].at, hs[a].at) + Gap(hs[a].at, hs[b].at) = buffer_len
              /\ Gap(hs[b].at, hs[a].at) \in 0 .. buffer_len - 1
          BY <5>1, GapIs
        <5>3. /\ Gap(hs[a].at, hs[b].at) \in 0 .. buffer_len - 1
              /\ (Gap(hs[a].at, hs[b].at) = 0 <=> hs[a].at = hs[b].at)
          BY <5>1, GapIs
        <5>4. Gap(hs[b].at, new.at) \in 0 .. buffer_len - 1
          BY <5>1, GapIs
        <5>. QED
          BY <5>2, <5>3, <5>4
      <4>3. Ext(hs[a]) <= Gap(hs[a].at, hs[b].at) /\ Ext(hs[a]) \in Nat \ {0}
        BY <2>4, <3>3, <1>2 DEF Laid, Apart
      <4>. QED
        BY <3>1, <4>1, <4>2, <4>3
    <3>. QED
      BY <2>4, <3>1, <3>2, <3>3, <1>5 DEF HasRoom
  <2>. QED
    BY <2>2, <2>3, <2>4
<1>. QED
  BY <1>1, <1>7, <1>8, <1>9 DEF Laid

(* A sorted list of ids: positions and ids are in the same order.          *)
LEMMA SortedIs ==
    ASSUME NEW list, Sorted(list)
    PROVE  /\ Len(list) \in Nat /\ DOMAIN list = 1 .. Len(list)
           /\ \A i \in 1 .. Len(list) : list[i] \in Nat
           /\ \A i, j \in 1 .. Len(list) : i < j => list[i] < list[j]
           /\ \A i, j \in 1 .. Len(list) : list[i] < list[j] => i < j
           /\ \A i, j \in 1 .. Len(list) : list[i] = list[j] => i = j
           /\ \A a : a \in ToSet(list) <=> \E i \in 1 .. Len(list) : list[i] = a
           /\ ToSet(list) \subseteq Nat
<1>1. list \in Seq(Nat) /\ \A i, j \in DOMAIN list : i < j => list[i] < list[j]
  BY DEF Sorted
<1>2. Len(list) \in Nat /\ DOMAIN list = 1 .. Len(list) /\ \A i \in 1 .. Len(list) : list[i] \in Nat
  BY <1>1
<1>3. \A i, j \in 1 .. Len(list) : i < j => list[i] < list[j]
  BY <1>1, <1>2
<1>4. ASSUME NEW i \in 1 .. Len(list), NEW j \in 1 .. Len(list)
      PROVE  /\ list[i] < list[j] => i < j
             /\ list[i] = list[j] => i = j
  <2>1. i < j \/ i = j \/ j < i
    BY <1>2
  <2>2. list[i] \in Nat /\ list[j] \in Nat
    BY <1>2
  <2>3. (i < j => list[i] < list[j]) /\ (j < i => list[j] < list[i])
    BY <1>3
  <2>. QED
    BY <2>1, <2>2, <2>3
<1>5. \A a : a \in ToSet(list) <=> \E i \in 1 .. Len(list) : list[i] = a
  BY <1>2 DEF ToSet
<1>6. ToSet(list) \subseteq Nat
  BY <1>2, <1>5
<1>. QED
  BY <1>2, <1>3, <1>4, <1>5, <1>6

(* The handle after a linked one, and the ends of the list.                *)
LEMMA NextIs ==
    ASSUME Sorted(handle_list), NEW id, Linked(id), HasNext(id)
    PROVE  /\ NextId(id) \in ToSet(handle_list) /\ id < NextId(id)
           /\ \A b \in ToSet(handle_list) : id < b => NextId(id) <= b
<1>. DEFINE n == Len(handle_list)
<1>1. /\ n \in Nat /\ DOMAIN handle_list = 1 .. n
      /\ \A i \in 1 .. n : handle_list[i] \in Nat
      /\ \A i, j \in 1 .. n : i < j => handle_list[i] < handle_list[j]
      /\ \A i, j \in 1 .. n : handle_list[i] < handle_list[j] => i < j
      /\ \A i, j \in 1 .. n : handle_list[i] = handle_list[j] => i = j
      /\ \A a : a \in ToSet(handle_list) <=> \E i \in 1 .. n : handle_list[i] = a
  BY SortedIs
<1>. HIDE DEF n
<1>2. PICK p \in 1 .. n : handle_list[p] = id
  BY <1>1 DEF Linked
<1>3. p # n
  BY <1>2 DEF HasNext, Last, n
<1>4. p + 1 \in 1 .. n /\ p + 1 > 1 /\ (p + 1) - 1 = p
  BY <1>1, <1>2, <1>3
<1>5. \A i \in 1 .. n : i > 1 /\ handle_list[i - 1] = id <=> i = p + 1
  <2>. TAKE i \in 1 .. n
  <2>1. CASE i = p + 1
    BY <2>1, <1>2, <1>4
  <2>2. CASE i # p + 1
    <3>. SUFFICES ASSUME i > 1, handle_list[i - 1] = id PROVE FALSE
      BY <2>2
    <3>1. i - 1 \in 1 .. n /\ i - 1 # p
      BY <2>2, <1>1, <1>2
    <3>. QED
      BY <3>1, <1>1, <1>2
  <2>. QED
    BY <2>1, <2>2
<1>6. NextId(id) = handle_list[p + 1]
  <2>. DEFINE c == CHOOSE i \in DOMAIN handle_list : i > 1 /\ handle_list[i - 1] = id
  <2>1. c \in 1 .. n /\ c > 1 /\ handle_list[c - 1] = id
    <3>1. \E i \in DOMAIN handle_list : i > 1 /\ handle_list[i - 1] = id
      BY <1>1, <1>4, <1>5
    <3>. QED
      BY <3>1, <1>1
  <2>. HIDE DEF c
  <2>2. c = p + 1
    BY <2>1, <1>5
  <2>. QED
    BY <2>2 DEF NextId, c
<1>7. \A b \in ToSet(handle_list) : id < b => handle_list[p + 1] <= b
  <2>. SUFFICES ASSUME NEW b \in ToSet(handle_list), id < b PROVE handle_list[p + 1] <= b
    OBVIOUS
  <2>1. PICK i \in 1 .. n : handle_list[i] = b
    BY <1>1
  <2>2. p < i
    BY <2>1, <1>1, <1>2
  <2>3. i = p + 1 \/ p + 1 < i
    BY <2>2, <1>1
  <2>. QED
    BY <2>1, <2>3, <1>1, <1>4
<1>8. handle_list[p + 1] \in ToSet(handle_list) /\ id < handle_list[p + 1]
  <2>1. p < p + 1 /\ p \in 1 .. n
    BY <1>2, <1>1
  <2>. QED
    BY <2>1, <1>1, <1>2, <1>4
<1>. QED
  BY <1>6, <1>7, <1>8

(* The first handle has the smallest id, the last the largest.             *)
LEMMA EndsAre ==
    ASSUME Sorted(handle_list), handle_list # <<>>
    PROVE  Ends(ToSet(handle_list), Head(handle_list), Last(handle_list))
<1>. DEFINE n == Len(handle_list)
<1>1. /\ n \in Nat /\ DOMAIN handle_list = 1 .. n
      /\ \A i \in 1 .. n : handle_list[i] \in Nat
      /\ \A i, j \in 1 .. n : i < j => handle_list[i] < handle_list[j]
      /\ \A a : a \in ToSet(handle_list) <=> \E i \in 1 .. n : handle_list[i] = a
  BY SortedIs
<1>2. handle_list \in Seq(Nat)
  BY DEF Sorted
<1>3. n # 0 /\ Head(handle_list) = handle_list[1] /\ Last(handle_list) = handle_list[n]
  BY <1>2 DEF Last
<1>. HIDE DEF n
<1>4. 1 \in 1 .. n /\ n \in 1 .. n
  BY <1>1, <1>3
<1>5. ASSUME NEW a \in ToSet(handle_list)
      PROVE  handle_list[1] <= a /\ a <= handle_list[n]
  <2>1. PICK i \in 1 .. n : handle_list[i] = a
    BY <1>1
  <2>2. (i = 1 \/ 1 < i) /\ (i = n \/ i < n)
    BY <1>1
  <2>. QED
    BY <2>1, <2>2, <1>1, <1>4
<1>. QED
  BY <1>1, <1>3, <1>4, <1>5 DEF Ends

(* A list is empty when no handle is in it.                                *)
LEMMA EmptyList ==
    ASSUME NEW list, Sorted(list)
    PROVE  list = <<>> <=> ToSet(list) = {}
<1>1. list \in Seq(Nat) /\ DOMAIN list = 1 .. Len(list) /\ Len(list) \in Nat
      /\ \A a : a \in ToSet(list) <=> \E i \in 1 .. Len(list) : list[i] = a
  BY SortedIs DEF Sorted
<1>2. ASSUME list # <<>> PROVE ToSet(list) # {}
  <2>1. Len(list) # 0
    BY <1>1, <1>2
  <2>2. 1 \in 1 .. Len(list)
    BY <2>1, <1>1
  <2>. QED
    BY <2>2, <1>1
<1>3. ASSUME list = <<>> PROVE ToSet(list) = {}
  <2>1. Len(list) = 0
    BY <1>3
  <2>2. 1 .. Len(list) = {}
    BY <2>1
  <2>. QED
    BY <2>2, <1>1
<1>. QED
  BY <1>2, <1>3

(* A new handle, whose id is the largest, goes to the end.                 *)
LEMMA Appended ==
    ASSUME NEW list, Sorted(list), NEW id \in Nat, \A a \in ToSet(list) : a < id
    PROVE  Sorted(Append(list, id)) /\ ToSet(Append(list, id)) = ToSet(list) \cup {id}
<1>1. /\ list \in Seq(Nat) /\ Len(list) \in Nat /\ DOMAIN list = 1 .. Len(list)
      /\ \A i \in 1 .. Len(list) : list[i] \in Nat
      /\ \A i, j \in 1 .. Len(list) : i < j => list[i] < list[j]
      /\ \A a : a \in ToSet(list) <=> \E i \in 1 .. Len(list) : list[i] = a
  BY SortedIs DEF Sorted
<1>. DEFINE m == Append(list, id)
            n == Len(list)
<1>2. /\ m \in Seq(Nat) /\ Len(m) = n + 1 /\ DOMAIN m = 1 .. n + 1
      /\ \A i \in 1 .. n + 1 : m[i] = IF i <= n THEN list[i] ELSE id
  BY <1>1
<1>. HIDE DEF m, n
<1>3. n \in Nat /\ n = Len(list)
  BY <1>1 DEF n
<1>4. ASSUME NEW i \in 1 .. n + 1, NEW j \in 1 .. n + 1, i < j
      PROVE  m[i] < m[j]
  <2>1. i \in 1 .. n /\ m[i] = list[i]
    BY <1>2, <1>3, <1>4
  <2>2. CASE j <= n
    <3>1. j \in 1 .. n /\ m[j] = list[j]
      BY <2>2, <1>2, <1>3
    <3>. QED
      BY <2>1, <3>1, <1>1, <1>3, <1>4
  <2>3. CASE ~(j <= n)
    <3>1. m[j] = id /\ list[i] \in ToSet(list)
      BY <2>1, <2>3, <1>1, <1>2, <1>3
    <3>. QED
      BY <2>1, <3>1
  <2>. QED
    BY <2>2, <2>3
<1>5. ToSet(m) = ToSet(list) \cup {id}
  <2>1. \A a : a \in ToSet(m) <=> \E i \in 1 .. n + 1 : m[i] = a
    BY <1>2 DEF ToSet
  <2>2. \A i \in 1 .. n : i \in 1 .. n + 1 /\ i <= n
    BY <1>3
  <2>3. n + 1 \in 1 .. n + 1 /\ ~(n + 1 <= n)
    BY <1>3
  <2>4. \A i \in 1 .. n + 1 : i <= n => i \in 1 .. n
    BY <1>3
  <2>. QED
    BY <2>1, <2>2, <2>3, <2>4, <1>1, <1>2, <1>3
<1>. QED
  BY <1>2, <1>4, <1>5 DEF Sorted, m

(* What is left of a sequence behind its first n elements.                 *)
LEMMA Rest ==
    ASSUME NEW q \in Seq(Nat), NEW n \in 0 .. Len(q)
    PROVE  /\ SubSeq(q, n + 1, Len(q)) \in Seq(Nat)
           /\ Len(SubSeq(q, n + 1, Len(q))) = Len(q) - n
           /\ \A i \in 1 .. Len(q) - n : SubSeq(q, n + 1, Len(q))[i] = q[i + n]
<1>. DEFINE r == SubSeq(q, n + 1, Len(q))
<1>1. Len(q) \in Nat /\ n \in Nat /\ DOMAIN q = 1 .. Len(q) /\ \A i \in 1 .. Len(q) : q[i] \in Nat
  OBVIOUS
<1>2. r = [i \in 1 .. Len(q) - n |-> q[i + n]]
  <2>1. r = [i \in 1 .. (Len(q) - (n + 1)) + 1 |-> q[(i + (n + 1)) - 1]]
    BY <1>1
  <2>2. (Len(q) - (n + 1)) + 1 = Len(q) - n
    BY <1>1
  <2>3. \A i \in 1 .. Len(q) - n : (i + (n + 1)) - 1 = i + n
    BY <1>1
  <2>. QED
    BY <2>1, <2>2, <2>3
<1>3. Len(q) - n \in Nat /\ \A i \in 1 .. Len(q) - n : i + n \in 1 .. Len(q)
  BY <1>1
<1>. HIDE DEF r
<1>4. r \in Seq(Nat)
  BY <1>1, <1>2, <1>3
<1>5. Len(r) = Len(q) - n
  BY <1>2, <1>3, <1>4
<1>. QED
  BY <1>2, <1>4, <1>5 DEF r

(* Unlinking a handle *)
LEMMA WithoutIs ==
    ASSUME Sorted(handle_list), NEW id
    PROVE  Sorted(Without(id)) /\ ToSet(Without(id)) = ToSet(handle_list) \ {id}
<1>. DEFINE n == Len(handle_list)
<1>1. /\ handle_list \in Seq(Nat) /\ n \in Nat /\ DOMAIN handle_list = 1 .. n
      /\ \A i \in 1 .. n : handle_list[i] \in Nat
      /\ \A i, j \in 1 .. n : i < j => handle_list[i] < handle_list[j]
      /\ \A i, j \in 1 .. n : handle_list[i] = handle_list[j] => i = j
      /\ \A a : a \in ToSet(handle_list) <=> \E i \in 1 .. n : handle_list[i] = a
  BY SortedIs DEF Sorted
<1>2. CASE ~Linked(id)
  BY <1>2 DEF Without, Linked
<1>3. CASE Linked(id)
  <2>. DEFINE p == CHOOSE i \in DOMAIN handle_list : handle_list[i] = id
              r == Without(id)
  <2>1. p \in 1 .. n /\ handle_list[p] = id
    BY <1>1, <1>3 DEF Linked
  <2>2. r = SubSeq(handle_list, 1, p - 1) \o SubSeq(handle_list, p + 1, n)
    BY <1>3 DEF Without, RemoveAt
  <2>. HIDE DEF p, r
  <2>3. /\ SubSeq(handle_list, 1, p - 1) \in Seq(Nat) /\ Len(SubSeq(handle_list, 1, p - 1)) = p - 1
        /\ \A i \in 1 .. p - 1 : SubSeq(handle_list, 1, p - 1)[i] = handle_list[i]
    BY <2>1, <1>1
  <2>4. /\ SubSeq(handle_list, p + 1, n) \in Seq(Nat)
        /\ Len(SubSeq(handle_list, p + 1, n)) = n - p
        /\ \A i \in 1 .. n - p : SubSeq(handle_list, p + 1, n)[i] = handle_list[i + p]
    <3>1. p \in 0 .. n
      BY <2>1, <1>1
    <3>. QED
      BY <3>1, <1>1, Rest, Zenon
  <2>5. /\ r \in Seq(Nat) /\ Len(r) = n - 1 /\ DOMAIN r = 1 .. n - 1
        /\ \A i \in 1 .. n - 1 : r[i] = IF i < p THEN handle_list[i] ELSE handle_list[i + 1]
    <3>1. /\ r \in Seq(Nat) /\ Len(r) = (p - 1) + (n - p)
          /\ \A i \in 1 .. (p - 1) + (n - p) :
               r[i] = IF i <= p - 1 THEN SubSeq(handle_list, 1, p - 1)[i]
                      ELSE SubSeq(handle_list, p + 1, n)[i - (p - 1)]
      BY <2>2, <2>3, <2>4, ConcatProperties, SMTT(30)
    <3>2. (p - 1) + (n - p) = n - 1 /\ n - 1 \in Nat
      BY <1>1, <2>1
    <3>3. ASSUME NEW i \in 1 .. n - 1
          PROVE  r[i] = IF i < p THEN handle_list[i] ELSE handle_list[i + 1]
      <4>1. CASE i < p
        <5>1. i \in 1 .. p - 1 /\ i \in 1 .. (p - 1) + (n - p) /\ i <= p - 1
          BY <1>1, <2>1, <3>2, <4>1
        <5>2. r[i] = SubSeq(handle_list, 1, p - 1)[i]
          BY <3>1, <5>1
        <5>. QED
          BY <2>3, <4>1, <5>1, <5>2
      <4>2. CASE ~(i < p)
        <5>1. /\ i - (p - 1) \in 1 .. n - p /\ (i - (p - 1)) + p = i + 1
              /\ ~(i <= p - 1) /\ i \in 1 .. (p - 1) + (n - p)
          BY <1>1, <2>1, <3>2, <4>2
        <5>2. r[i] = SubSeq(handle_list, p + 1, n)[i - (p - 1)]
          BY <3>1, <5>1
        <5>. QED
          BY <2>4, <4>2, <5>1, <5>2
      <4>. QED
        BY <4>1, <4>2
    <3>. QED
      BY <3>1, <3>2, <3>3
  <2>6. \A i \in 1 .. n - 1 : /\ i \in 1 .. n /\ i + 1 \in 1 .. n
                              /\ (i < p => i # p) /\ (~(i < p) => i + 1 # p)
    BY <2>1, <1>1
  <2>7. ASSUME NEW i \in 1 .. n - 1, NEW j \in 1 .. n - 1, i < j
        PROVE  r[i] < r[j]
    <3>. DEFINE k == IF i < p THEN i ELSE i + 1
                m == IF j < p THEN j ELSE j + 1
    <3>1. k \in 1 .. n /\ m \in 1 .. n /\ k < m
      BY <2>1, <2>7, <1>1
    <3>2. r[i] = handle_list[k] /\ r[j] = handle_list[m]
      BY <2>5
    <3>. HIDE DEF k, m
    <3>. QED
      BY <3>1, <3>2, <1>1
  <2>8. ToSet(r) = ToSet(handle_list) \ {id}
    <3>1. \A a : a \in ToSet(r) <=> \E i \in 1 .. n - 1 : r[i] = a
      BY <2>5 DEF ToSet
    <3>2. ASSUME NEW a, a \in ToSet(r) PROVE a \in ToSet(handle_list) /\ a # id
      <4>1. PICK i \in 1 .. n - 1 : r[i] = a
        BY <3>1, <3>2
      <4>2. PICK j \in 1 .. n : handle_list[j] = a /\ j # p
        BY <4>1, <2>5, <2>6
      <4>. QED
        BY <4>2, <2>1, <1>1
    <3>3. ASSUME NEW a, a \in ToSet(handle_list), a # id PROVE a \in ToSet(r)
      <4>1. PICK j \in 1 .. n : handle_list[j] = a
        BY <3>3, <1>1
      <4>2. j # p
        BY <4>1, <3>3, <2>1
      <4>3. CASE j < p
        <5>1. j \in 1 .. n - 1
          BY <4>3, <2>1, <1>1
        <5>. QED
          BY <4>1, <4>3, <5>1, <3>1, <2>5
      <4>4. CASE p < j
        <5>1. j - 1 \in 1 .. n - 1 /\ ~(j - 1 < p) /\ (j - 1) + 1 = j
          BY <4>4, <2>1, <1>1
        <5>. QED
          BY <4>1, <5>1, <3>1, <2>5
      <4>. QED
        BY <4>2, <4>3, <4>4, <2>1
    <3>. QED
      BY <3>2, <3>3
  <2>. QED
    BY <2>5, <2>7, <2>8 DEF Sorted, r
<1>. QED
  BY <1>2, <1>3

-----------------------------------------------------------------------------
(* The limit of a handle's data is the header that is nearest behind it.   *)
LEMMA LimitIs ==
    ASSUME Sorted(handle_list), NEW hs, Laid(handle, ToSet(handle_list)), NEW id, Linked(id)
    PROVE  /\ Limit(id) \in Addresses
           /\ Limit(id) = handle[id].at => ToSet(handle_list) = {id}
           /\ \A b \in ToSet(handle_list) : b # id =>
                /\ Gap(handle[id].at, Limit(id)) <= Gap(handle[id].at, handle[b].at)
                /\ Gap(handle[id].at, Limit(id)) > 0
           /\ ToSet(handle_list) = {id} => Limit(id) = handle[id].at
<1>. DEFINE L == ToSet(handle_list)
<1>1. L \subseteq Nat /\ id \in L
  BY SortedIs DEF Linked
<1>2. handle_list # <<>>
  BY <1>1, EmptyList
<1>3. /\ Head(handle_list) \in L /\ \A a \in L : Head(handle_list) <= a /\ a <= Last(handle_list)
  BY <1>2, EndsAre DEF Ends
<1>4. \A a \in L : handle[a].at \in Addresses
  BY ShapeSays DEF Laid
<1>5. \A a, b \in L : a # b => Gap(handle[a].at, handle[b].at) > 0
  <2>. SUFFICES ASSUME NEW a \in L, NEW b \in L, a # b
                PROVE  Gap(handle[a].at, handle[b].at) > 0
    OBVIOUS
  <2>1. Ext(handle[a]) <= Gap(handle[a].at, handle[b].at)
    BY DEF Laid, Apart
  <2>2. /\ Ext(handle[a]) = Off(handle[a]) + Held(handle[a])
        /\ Off(handle[a]) \in 1 .. buffer_len - 1 /\ Held(handle[a]) \in Nat
    BY ShapeSays DEF Laid
  <2>3. Gap(handle[a].at, handle[b].at) \in Int
    BY <1>4, GapIs
  <2>. QED
    BY <2>1, <2>2, <2>3
<1>6. \A a, b, c \in L : a < b /\ b < c => Gap(handle[a].at, handle[b].at) <= Gap(handle[a].at, handle[c].at)
  BY DEF Laid, InOrder
<1>7. \A a \in L : handle[a].at \in 0 .. buffer_len - 1
  BY <1>4 DEF Addresses
<1>8. buffer_len \in Nat \ {0}
  BY RingAssumption
<1>9. PICK m \in L : /\ Limit(id) = handle[m].at
                     /\ m = id => L = {id}
                     /\ \A b \in L : b # id => Gap(handle[id].at, handle[m].at) <= Gap(handle[id].at, handle[b].at)
  <2>1. CASE HasNext(id)
    <3>1. NextId(id) \in L /\ id < NextId(id) /\ \A b \in L : id < b => NextId(id) <= b
      BY <2>1, <1>1, NextIs DEF Linked
    <3>. DEFINE m == NextId(id)
    <3>2. Limit(id) = handle[m].at
      BY <2>1 DEF Limit
    <3>. HIDE DEF m
    <3>3. m \in L /\ id < m /\ m # id /\ \A b \in L : id < b => m <= b
      BY <3>1, <1>1 DEF m
    <3>4. ASSUME NEW b \in L, b # id
          PROVE  Gap(handle[id].at, handle[m].at) <= Gap(handle[id].at, handle[b].at)
      <4>1. CASE b = m
        <5>1. Gap(handle[id].at, handle[m].at) \in Int
          BY <1>1, <1>4, <3>3, GapIs
        <5>. QED
          BY <4>1, <5>1
      <4>2. CASE id < b /\ b # m
        <5>1. m < b
          BY <4>2, <3>3, <1>1
        <5>. QED
          BY <5>1, <3>3, <1>1, <1>6
      <4>3. CASE b < id
        <5>1. Gap(handle[b].at, handle[id].at) <= Gap(handle[b].at, handle[m].at)
          BY <4>3, <3>3, <1>1, <1>6
        <5>2. /\ Gap(handle[id].at, handle[m].at) > 0 /\ Gap(handle[b].at, handle[id].at) > 0
              /\ Gap(handle[b].at, handle[m].at) > 0
          BY <4>3, <3>3, <1>1, <1>5
        <5>3. /\ handle[b].at \in 0 .. buffer_len - 1 /\ handle[id].at \in 0 .. buffer_len - 1
              /\ handle[m].at \in 0 .. buffer_len - 1
          BY <3>3, <1>1, <1>7
        <5>. QED
          BY <5>1, <5>2, <5>3, <1>8 DEF Gap
      <4>. QED
        BY <4>1, <4>2, <4>3, <3>4, <1>1
    <3>. QED
      BY <3>2, <3>3, <3>4
  <2>2. CASE ~HasNext(id)
    <3>. DEFINE m == Head(handle_list)
    <3>1. Limit(id) = handle[m].at
      BY <2>2 DEF Limit
    <3>2. m \in L /\ \A a \in L : m <= a /\ a <= id
      BY <2>2, <1>3 DEF HasNext
    <3>. HIDE DEF m
    <3>3. m = id => L = {id}
      BY <3>2, <1>1
    <3>4. ASSUME NEW b \in L, b # id
          PROVE  Gap(handle[id].at, handle[m].at) <= Gap(handle[id].at, handle[b].at)
      <4>1. CASE b = m
        <5>1. Gap(handle[id].at, handle[m].at) \in Int
          BY <1>1, <1>4, <3>2, GapIs
        <5>. QED
          BY <4>1, <5>1
      <4>2. CASE b # m
        <5>0. m < b /\ b < id
          BY <4>2, <3>2, <3>4, <1>1
        <5>1. Gap(handle[m].at, handle[b].at) <= Gap(handle[m].at, handle[id].at)
          BY <5>0, <3>2, <1>1, <1>6
        <5>2. /\ Gap(handle[m].at, handle[b].at) > 0 /\ Gap(handle[m].at, handle[id].at) > 0
              /\ Gap(handle[b].at, handle[id].at) > 0
          BY <5>0, <3>2, <1>1, <1>5
        <5>3. /\ handle[b].at \in 0 .. buffer_len - 1 /\ handle[id].at \in 0 .. buffer_len - 1
              /\ handle[m].at \in 0 .. buffer_len - 1
          BY <3>2, <1>1, <1>7
        <5>. QED
          BY <5>1, <5>2, <5>3, <1>8 DEF Gap
      <4>. QED
        BY <4>1, <4>2
    <3>. QED
      BY <3>1, <3>2, <3>3, <3>4
  <2>. QED
    BY <2>1, <2>2
<1>10. m # id => Gap(handle[id].at, handle[m].at) > 0
  BY <1>1, <1>5
<1>11. Gap(handle[id].at, handle[id].at) = 0
  BY <1>1, <1>4, GapIs
<1>12. Limit(id) = handle[id].at => m = id
  BY <1>9, <1>10, <1>11
<1>13. \A b \in L : b # id => m # id
  BY <1>9
<1>. QED
  BY <1>1, <1>4, <1>9, <1>10, <1>12, <1>13

-----------------------------------------------------------------------------
(* Opening a handle                                                        *)

(* The ring without handles: the first one goes to its start.              *)
LEMMA AddFirst ==
    ASSUME NEW type, NEW data_size \in Nat,
           NEW r, r = add_handle(type, data_size, Empty, Empty), r.ok
    PROVE  /\ r.at = 0 /\ r.data = ringbuf_add(0, HeaderSize(type))
           /\ AllocAll(type) => HeaderSize(type) + data_size <= buffer_len
<1>1. buffer_len \in Nat \ {0} /\ HandleAlign \in Nat \ {0} /\ HeaderSize(type) \in Nat
  BY RingAssumption, Headers
<1>2. AlignUp(0, HandleAlign) = 0
  <2>1. (0 + HandleAlign - 1) \div HandleAlign = 0
    BY <1>1
  <2>. QED
    BY <2>1, <1>1 DEF AlignUp
<1>3. ringbuf_add(0, 0) = 0
  <2>1. 0 \in Nat /\ 0 + 0 < 2 * buffer_len
    BY <1>1
  <2>2. ringbuf_add(0, 0) = IF 0 + 0 >= buffer_len THEN 0 + 0 - buffer_len ELSE 0 + 0
    BY <2>1, RingAdd
  <2>. QED
    BY <2>2, <1>1
<1>4. ringbuf_sub_empty(0, 0) = 0
  BY DEF ringbuf_sub_empty
<1>5. Empty.at = 0 /\ Empty.data = 0 /\ Empty.filesize - Empty.start = 0 /\ ~(0 > 0)
  BY DEF Empty
<1>6. AlignUp(0, HandleAlign) - 0 = 0
  BY <1>2
<1>. DEFINE len == HeaderSize(type) + data_size
            index == IF \/ 0 + HeaderSize(type) > buffer_len
                        \/ ~CanWrap(type) /\ 0 + len > buffer_len
                     THEN 0 ELSE 0
            overlap == ringbuf_add_cross_empty(0, 0 + len, 0)
            fine == ~(overlap > 0 /\ (AllocAll(type) \/ overlap > data_size))
<1>7. index = 0
  OBVIOUS
<1>8. r = [ok |-> fine,
           at |-> 0, data |-> ringbuf_add(0, HeaderSize(type))]
  BY <1>3, <1>4, <1>5, <1>6, <1>7 DEF add_handle
<1>9. overlap = HeaderSize(type) + data_size - buffer_len
  BY <1>1 DEF ringbuf_add_cross_empty
<1>. HIDE DEF overlap, fine
<1>10. /\ ~(overlap > 0 /\ (AllocAll(type) \/ overlap > data_size))
       /\ r.at = 0 /\ r.data = ringbuf_add(0, HeaderSize(type))
  <2>1. r.ok = fine
    BY <1>8
  <2>2. r.at = 0 /\ r.data = ringbuf_add(0, HeaderSize(type))
    BY <1>8
  <2>3. ~(overlap > 0 /\ (AllocAll(type) \/ overlap > data_size))
    BY <2>1 DEF fine
  <2>. QED
    BY <2>2, <2>3
<1>11. AllocAll(type) => ~(overlap > 0)
  BY <1>10, Zenon
<1>. QED
  BY <1>1, <1>9, <1>10, <1>11

(* The arithmetic of a new place `at`, behind the whole file of the last   *)
(* handle, whose header is at E, and before the first, at F.               *)
LEMMA Behind ==
    ASSUME NEW E \in Addresses, NEW F \in Addresses, NEW between \in 0 .. buffer_len,
           (between = buffer_len /\ E = F) \/ (between = Gap(E, F) /\ E # F),
           NEW off \in 1 .. buffer_len - 1, off <= between, NEW room \in Nat,
           NEW d \in Addresses, d = ringbuf_add(E, off), room < Gap(d, F),
           NEW w \in Addresses, w = ringbuf_add(d, room), w # F,
           NEW at \in Addresses, NEW n \in Nat \ {0}, Gap(w, at) + n <= Gap(w, F)
    PROVE  off + room <= Gap(E, at) /\ Gap(E, at) + n <= between
<1>1. /\ buffer_len \in Nat \ {0}
      /\ E \in 0 .. buffer_len - 1 /\ F \in 0 .. buffer_len - 1 /\ d \in 0 .. buffer_len - 1
      /\ w \in 0 .. buffer_len - 1 /\ at \in 0 .. buffer_len - 1
  BY RingAssumption DEF Addresses
<1>2. E + off < 2 * buffer_len /\ d + room < 2 * buffer_len /\ E \in Nat /\ d \in Nat
  BY <1>1 DEF Gap
<1>3. /\ d = IF E + off >= buffer_len THEN E + off - buffer_len ELSE E + off
      /\ w = IF d + room >= buffer_len THEN d + room - buffer_len ELSE d + room
  BY <1>2, RingAdd
<1>. QED
  BY <1>1, <1>3 DEF Gap

(* Padding that stops short of the first handle fits behind the header.    *)
LEMMA PadBehind ==
    ASSUME NEW E \in Addresses, NEW F \in Addresses, NEW between \in 0 .. buffer_len,
           (between = buffer_len /\ E = F) \/ (between = Gap(E, F) /\ E # F),
           NEW at \in Addresses, NEW n \in Nat \ {0}, Gap(E, at) + n <= between,
           at + n <= buffer_len,
           NEW d \in Addresses, d = ringbuf_add(at, n),
           NEW pad \in Nat, ringbuf_add_cross_full(d, pad, F) <= 0
    PROVE  Gap(E, at) + n + pad <= between
<1>1. /\ buffer_len \in Nat \ {0}
      /\ E \in 0 .. buffer_len - 1 /\ F \in 0 .. buffer_len - 1 /\ d \in 0 .. buffer_len - 1
      /\ at \in 0 .. buffer_len - 1
  BY RingAssumption DEF Addresses
<1>2. at + n < 2 * buffer_len /\ at \in Nat
  BY <1>1
<1>3. d = IF at + n >= buffer_len THEN at + n - buffer_len ELSE at + n
  BY <1>2, RingAdd
<1>. QED
  BY <1>1, <1>3 DEF Gap, ringbuf_add_cross_full

(* What bufopen and bufalloc put into the ring: a handle whose fields      *)
(* agree, behind the others.                                               *)
FileType == [type : Types, size : Nat \ {0}, offset : Nat, tag : Nat, broken : BOOLEAN]

Openable(s) ==
    /\ s \in FileType /\ s.offset <= s.size /\ (AllocAll(s.type) => s.offset = 0)
    /\ StorageAlign = 1 \/ s.type \notin {"atomic", "codec"}

Asks(s) == s.size - s.offset + (IF s.type \in {"id3", "raw"} THEN 0 ELSE StorageAlign - 1)

(* The handle agrees with itself, wherever it is put.                      *)
LEMMA OpeningShape ==
    ASSUME NEW s, Openable(s), NEW r, r.at \in Addresses,
           r.data = ringbuf_add(r.at, HeaderSize(s.type)),
           r.at + HeaderSize(s.type) <= buffer_len,
           ~CanWrap(s.type) => r.at = 0 \/ r.at + HeaderSize(s.type) + Asks(s) <= buffer_len
    PROVE  /\ Shape(Opening(s, r))
           /\ Off(Opening(s, r)) = HeaderSize(s.type) + PaddingOf(s, r)
           /\ Opening(s, r).start = s.offset /\ Opening(s, r).end = s.offset
           /\ Opening(s, r).pos = s.offset /\ Opening(s, r).filesize = s.size
           /\ Opening(s, r).at = r.at /\ Opening(s, r).type = s.type
           /\ Opening(s, r).size = HeaderSize(s.type) /\ Opening(s, r).fd = None
           /\ ~Opening(s, r).pinned /\ ~Opening(s, r).signaled
           /\ Ext(Opening(s, r)) = Off(Opening(s, r))
           /\ Whole(Opening(s, r)) <= HeaderSize(s.type) + Asks(s)
           /\ AllocAll(s.type) => Off(Opening(s, r)) = HeaderSize(s.type)
<1>. DEFINE h == Opening(s, r)
            n == HeaderSize(s.type)
            pad == PaddingOf(s, r)
<1>1. /\ s.type \in Types /\ s.size \in Nat \ {0} /\ s.offset \in Nat /\ s.offset <= s.size
      /\ AllocAll(s.type) => s.offset = 0
      /\ StorageAlign = 1 \/ s.type \notin {"atomic", "codec"}
  BY DEF Openable, FileType
<1>2. buffer_len \in Nat \ {0} /\ StorageAlign \in Nat \ {0}
  BY RingAssumption
<1>3. n \in Nat \ {0} /\ n + StorageAlign <= buffer_len
  BY Headers
<1>. HIDE DEF n
<1>4. r.data \in Addresses /\ Gap(r.at, r.data) = n
  <2>1. n \in 0 .. buffer_len /\ n # buffer_len
    BY <1>2, <1>3
  <2>. QED
    BY <2>1, Further DEF n
<1>5. /\ pad \in 0 .. StorageAlign - 1
      /\ StorageAlign = 1 => pad = 0
      /\ ~Padded(s.type) => pad = 0
  <2>1. r.data \in Int /\ s.offset \in Int
    BY <1>1, <1>2, <1>4 DEF Addresses
  <2>2. /\ StoragePad(s.offset, r.data) \in 0 .. StorageAlign - 1
        /\ StorageAlign = 1 => StoragePad(s.offset, r.data) = 0
    BY <2>1, Paddings
  <2>. QED
    BY <2>2, <1>2 DEF PaddingOf
<1>6. s.type # "audio" => pad = 0
  BY <1>1, <1>5 DEF Padded
<1>. HIDE DEF pad
<1>7. PICK q : q = ringbuf_add(r.data, pad)
  OBVIOUS
<1>8. h = [at |-> r.at, size |-> n, type |-> s.type, pinned |-> FALSE, signaled |-> FALSE,
           fd |-> None, data |-> q, ridx |-> q, widx |-> q,
           filesize |-> s.size, start |-> s.offset, pos |-> s.offset, end |-> s.offset]
  <2>1. h = [NoHandle EXCEPT !.at = r.at, !.size = n, !.type = s.type,
                             !.data = q, !.ridx = q, !.widx = q, !.filesize = s.size,
                             !.start = s.offset, !.pos = s.offset, !.end = s.offset]
    BY <1>7, Zenon DEF Opening, n, pad
  <2>. QED
    BY <2>1, ZenonT(60) DEF NoHandle
<1>. HIDE DEF h
<1>9. /\ h.at = r.at /\ h.size = n /\ h.type = s.type /\ h.fd = None /\ h.data = q /\ h.ridx = q
      /\ h.widx = q /\ h.filesize = s.size /\ h.start = s.offset /\ h.pos = s.offset
      /\ h.end = s.offset
  BY <1>8
<1>10. ~h.pinned /\ ~h.signaled
  BY <1>8
<1>11. q \in Addresses /\ Gap(r.at, q) = n + pad
  <2>1. pad \in 0 .. buffer_len /\ n + pad < buffer_len /\ n \in 0 .. buffer_len
    BY <1>2, <1>3, <1>5
  <2>2. q \in Addresses
    BY <2>1, <1>4, <1>7, Further
  <2>3. r.at \in 0 .. buffer_len - 1 /\ r.at + n <= buffer_len
    BY DEF Addresses, n
  <2>4. r.data \in Nat /\ r.data + pad < 2 * buffer_len
    BY <2>1, <1>4, <1>2 DEF Addresses
  <2>5. q = IF r.data + pad >= buffer_len THEN r.data + pad - buffer_len ELSE r.data + pad
    BY <2>1, <2>4, <1>7, RingAdd
  <2>6. r.data = IF r.at + n >= buffer_len THEN r.at + n - buffer_len ELSE r.at + n
    BY <2>1, Further DEF n
  <2>. QED
    BY <2>1, <2>2, <2>3, <2>5, <2>6, <1>2, <1>5 DEF Gap
<1>12. Off(h) = n + pad
  BY <1>9, <1>11 DEF Off
<1>13. h \in HandleType
  <2>1. n \in 0 .. buffer_len /\ q \in Nat
    BY <1>2, <1>3, <1>11 DEF Addresses
  <2>. QED
    BY <2>1, <1>1, <1>8, <1>11 DEF HandleType
<1>14. ringbuf_add(q, 0) = q
  <2>1. q \in Nat /\ q + 0 < 2 * buffer_len /\ q < buffer_len
    BY <1>2, <1>11 DEF Addresses
  <2>2. ringbuf_add(q, 0) = IF q + 0 >= buffer_len THEN q + 0 - buffer_len ELSE q + 0
    BY <2>1, RingAdd
  <2>. QED
    BY <2>1, <2>2, <1>2
<1>15. Held(h) = 0
  BY <1>1, <1>9 DEF Held, Least
<1>16. Ext(h) = Off(h) /\ Whole(h) = n + pad + (s.size - s.offset)
  BY <1>1, <1>3, <1>5, <1>9, <1>12, <1>15 DEF Ext, Whole
<1>17. ~CanWrap(s.type) => pad + (s.size - s.offset) <= Asks(s)
  BY <1>1, <1>2, <1>5, <1>6 DEF Asks, CanWrap
<1>18. pad + (s.size - s.offset) <= Asks(s) /\ Asks(s) \in Nat
  BY <1>1, <1>2, <1>5 DEF Asks, Padded
<1>19. Whole(h) <= n + Asks(s)
  BY <1>1, <1>3, <1>5, <1>16, <1>18
<1>20. ~CanWrap(h.type) => h.at = 0 \/ h.at + Whole(h) <= buffer_len
  <2>1. r.at \in Nat
    BY DEF Addresses
  <2>. QED
    BY <2>1, <1>1, <1>2, <1>3, <1>5, <1>9, <1>16, <1>18 DEF n
<1>21. Shape(h)
  <2>1. s.offset - s.offset = 0
    BY <1>1
  <2>2. Off(h) + h.end - h.start <= buffer_len
    BY <1>1, <1>2, <1>3, <1>5, <1>9, <1>12
  <2>3. h.ridx = ringbuf_add(h.data, h.pos - h.start) /\ h.widx = ringbuf_add(h.data, h.end - h.start)
    BY <2>1, <1>9, <1>14
  <2>4. h.type # "audio" => Off(h) = h.size
    BY <1>3, <1>6, <1>9, <1>12
  <2>5. h.size <= Off(h) /\ h.start <= h.end /\ h.start <= h.pos
    BY <1>1, <1>3, <1>5, <1>9, <1>12
  <2>6. h.size = HeaderSize(h.type) /\ h.at + h.size <= buffer_len
    BY <1>9 DEF n
  <2>. QED
    BY <2>2, <2>3, <2>4, <2>5, <2>6, <1>1, <1>9, <1>13, <1>20 DEF Shape
<1>22. AllocAll(s.type) => Off(h) = n
  BY <1>3, <1>6, <1>12 DEF AllocAll
<1>. QED
  BY <1>9, <1>10, <1>12, <1>16, <1>19, <1>21, <1>22 DEF h, n, pad

(* What is written within one handle of L leaves the others alone.         *)
LEMMA OthersStand ==
    ASSUME NEW hs, NEW L, Laid(hs, L), NEW c \in L, NEW mem, NEW after, NEW n \in Int, n <= Ext(hs[c]),
           \A x \in Addresses : ~(Gap(hs[c].at, x) < n) => after[x] = mem[x],
           NEW b \in L, b # c, Holds(mem, b, hs[b])
    PROVE  Holds(after, b, hs[b])
<1>1. Shape(hs[b]) /\ Shape(hs[c]) /\ Ext(hs[c]) <= Gap(hs[c].at, hs[b].at) /\ Ext(hs[b]) <= Gap(hs[b].at, hs[c].at)
  BY DEF Laid, Apart
<1>2. /\ hs[b].at \in Addresses /\ hs[c].at \in Addresses
      /\ Off(hs[b]) \in 1 .. buffer_len - 1 /\ Held(hs[b]) \in Nat /\ Ext(hs[b]) = Off(hs[b]) + Held(hs[b])
      /\ Ext(hs[c]) \in Nat
  BY <1>1, ShapeSays
<1>3. /\ Gap(hs[b].at, hs[c].at) \in Int /\ Gap(hs[c].at, hs[b].at) \in Int
      /\ (Gap(hs[b].at, hs[c].at) = 0 <=> hs[b].at = hs[c].at)
  BY <1>2, GapIs
<1>4. hs[c].at # hs[b].at /\ n <= Gap(hs[c].at, hs[b].at)
  BY <1>1, <1>2, <1>3
<1>. QED
  BY <1>1, <1>2, <1>4, OthersHold

(* There is room for the new handle behind the others.                     *)
LEMMA OpenPlace ==
    ASSUME Sorted(handle_list), Laid(handle, ToSet(handle_list)),
           NEW s, Openable(s), NEW r, r = RoomFor(s), r.ok, PaddingFits(s, r)
    PROVE  /\ r.at \in Addresses /\ r.data = ringbuf_add(r.at, HeaderSize(s.type))
           /\ r.at + HeaderSize(s.type) <= buffer_len
           /\ ~CanWrap(s.type) => r.at = 0 \/ r.at + HeaderSize(s.type) + Asks(s) <= buffer_len
           /\ AllocAll(s.type) => HeaderSize(s.type) + Asks(s) <= buffer_len
           /\ handle_list # <<>> =>
                LET f == Head(handle_list)
                    l == Last(handle_list)
                IN  /\ Whole(handle[l]) <= Gap(handle[l].at, r.at)
                    /\ Gap(handle[l].at, r.at) + HeaderSize(s.type) + PaddingOf(s, r) <= Between(handle, f, l)
                    /\ AllocAll(s.type) =>
                         Gap(handle[l].at, r.at) + HeaderSize(s.type) + Asks(s) <= Between(handle, f, l)
<1>. DEFINE n == HeaderSize(s.type)
            d == Asks(s)
<1>1. /\ s.type \in Types /\ s.size \in Nat \ {0} /\ s.offset \in Nat /\ s.offset <= s.size
  BY DEF Openable, FileType
<1>2. buffer_len \in Nat \ {0} /\ StorageAlign \in Nat \ {0}
  BY RingAssumption
<1>3. d \in Nat
  BY <1>1, <1>2 DEF Asks
<1>4. n \in Nat \ {0} /\ n + StorageAlign <= buffer_len
  BY Headers
<1>5. CASE handle_list = <<>>
  <2>1. r = add_handle(s.type, d, Empty, Empty)
    <3>1. r = add_handle(s.type, d, [first |-> Empty, last |-> Empty].first, [first |-> Empty, last |-> Empty].last)
      BY <1>5, Zenon DEF RoomFor, Asks
    <3>2. [first |-> Empty, last |-> Empty].first = Empty /\ [first |-> Empty, last |-> Empty].last = Empty
      OBVIOUS
    <3>. QED
      BY <3>1, <3>2
  <2>. HIDE DEF n, d
  <2>2. r.at = 0 /\ r.data = ringbuf_add(0, HeaderSize(s.type)) /\ (AllocAll(s.type) => HeaderSize(s.type) + d <= buffer_len)
    BY <2>1, <1>3, AddFirst
  <2>3. 0 \in Addresses /\ 0 + n <= buffer_len
    BY <1>2, <1>4 DEF Addresses
  <2>. QED
    BY <2>2, <2>3, <1>5 DEF n, d
<1>6. CASE handle_list # <<>>
  <2>. DEFINE f == Head(handle_list)
              l == Last(handle_list)
              E == handle[l].at
              F == handle[f].at
              between == Between(handle, f, l)
  <2>1. f \in ToSet(handle_list) /\ l \in ToSet(handle_list)
    BY <1>6, EndsAre DEF Ends
  <2>2. r = add_handle(s.type, d, handle[f], handle[l])
    <3>1. r = add_handle(s.type, d, [first |-> handle[f], last |-> handle[l]].first,
                                    [first |-> handle[f], last |-> handle[l]].last)
      BY <1>6, Zenon DEF RoomFor, Asks
    <3>2. [first |-> handle[f], last |-> handle[l]].first = handle[f] /\ [first |-> handle[f], last |-> handle[l]].last = handle[l]
      OBVIOUS
    <3>. QED
      BY <3>1, <3>2
  <2>. HIDE DEF n, d, f, l
  <2>3. Shape(handle[f]) /\ Shape(handle[l])
    BY <2>1 DEF Laid
  <2>4. handle[f] # Empty
    <3>1. handle[f] \in HandleType
      BY <2>3 DEF Shape
    <3>2. "widx" \in DOMAIN handle[f]
      BY <3>1 DEF HandleType
    <3>3. "widx" \notin DOMAIN Empty
      BY DEF Empty
    <3>. QED
      BY <3>2, <3>3
  <2>. DEFINE room == handle[l].filesize - handle[l].start
              off == Off(handle[l])
              w == ringbuf_add(handle[l].data, room)
  <2>5. /\ E \in Addresses /\ F \in Addresses /\ handle[l].data \in Addresses
        /\ room \in Nat /\ off \in 1 .. buffer_len - 1
        /\ handle[l].data = ringbuf_add(E, off) /\ Whole(handle[l]) = off + room
        /\ Ext(handle[l]) \in Nat /\ off <= Ext(handle[l])
    <3>1. /\ E \in Addresses /\ F \in Addresses /\ handle[l].data \in Addresses
          /\ handle[l].filesize \in Nat /\ handle[l].start \in Nat /\ handle[l].start <= handle[l].filesize
          /\ off \in 1 .. buffer_len - 1
          /\ handle[l].data = ringbuf_add(E, off) /\ Whole(handle[l]) = off + room
          /\ Held(handle[l]) \in Nat /\ Ext(handle[l]) = off + Held(handle[l])
      BY <2>3, ShapeSays
    <3>. QED
      BY <3>1, <1>2
  <2>6. /\ r.at \in Addresses /\ r.data = ringbuf_add(r.at, HeaderSize(s.type))
        /\ r.at + HeaderSize(s.type) <= buffer_len
        /\ ~CanWrap(s.type) => r.at = 0 \/ r.at + HeaderSize(s.type) + d <= buffer_len
        /\ room < Gap(handle[l].data, F)
        /\ w \in Addresses /\ w # F
        /\ Gap(w, r.at) + HeaderSize(s.type) <= Gap(w, F)
        /\ AllocAll(s.type) => Gap(w, r.at) + HeaderSize(s.type) + d <= Gap(w, F)
    BY <2>2, <2>4, <2>5, <1>3, AddHandle
  <2>7. /\ between \in 0 .. buffer_len /\ off <= between
        /\ (between = buffer_len /\ E = F) \/ (between = Gap(E, F) /\ E # F)
    <3>1. CASE f = l
      BY <3>1, <1>2, <2>5 DEF Between
    <3>2. CASE f # l
      <4>1. Ext(handle[l]) <= Gap(E, F)
        BY <2>1, <3>2 DEF Laid, Apart
      <4>2. Gap(E, F) \in 0 .. buffer_len - 1 /\ (Gap(E, F) = 0 <=> E = F)
        BY <2>5, GapIs
      <4>3. between = Gap(E, F)
        BY <3>2 DEF Between
      <4>. QED
        BY <4>1, <4>2, <4>3, <2>5, <1>2
    <3>. QED
      BY <3>1, <3>2
  <2>. HIDE DEF between, E, F, room, off, w
  <2>8. off + room <= Gap(E, r.at) /\ Gap(E, r.at) + n <= between
    <3>1. Gap(w, r.at) + n <= Gap(w, F)
      BY <2>6 DEF n
    <3>2. handle[l].data \in Addresses /\ w = ringbuf_add(handle[l].data, room)
      BY <2>5 DEF w
    <3>. QED
      BY <3>1, <3>2, <2>5, <2>6, <2>7, <1>4, Behind
  <2>9. AllocAll(s.type) => Gap(E, r.at) + n + d <= between
    <3>. HAVE AllocAll(s.type)
    <3>1. PICK m \in Nat \ {0} : m = n + d
      BY <1>3, <1>4
    <3>2. Gap(w, r.at) \in Int /\ Gap(E, r.at) \in Int
      BY <2>5, <2>6, GapIs
    <3>3. Gap(w, r.at) + m <= Gap(w, F)
      BY <2>6, <3>1, <3>2, <1>3, <1>4 DEF n
    <3>4. handle[l].data \in Addresses /\ w = ringbuf_add(handle[l].data, room)
      BY <2>5 DEF w
    <3>5. Gap(E, r.at) + m <= between
      BY <3>3, <3>4, <2>5, <2>6, <2>7, Behind
    <3>. QED
      BY <3>1, <3>2, <3>5, <1>3, <1>4
  <2>10. Gap(E, r.at) + n + PaddingOf(s, r) <= between
    <3>1. r.data \in Addresses
      <4>1. n \in 0 .. buffer_len
        BY <1>2, <1>4
      <4>. QED
        BY <2>6, <4>1, Further DEF n
    <3>2. PaddingOf(s, r) \in Nat
      <4>1. r.data \in Int /\ s.offset \in Int
        BY <3>1, <1>1, <1>2 DEF Addresses
      <4>2. StoragePad(s.offset, r.data) \in 0 .. StorageAlign - 1
        BY <4>1, Paddings
      <4>. QED
        BY <4>2, <1>2 DEF PaddingOf
    <3>3. ringbuf_add_cross_full(r.data, PaddingOf(s, r), F) <= 0
      BY <1>6 DEF PaddingFits, F, f
    <3>4. r.data = ringbuf_add(r.at, n) /\ r.at + n <= buffer_len
      BY <2>6 DEF n
    <3>. QED
      BY <3>1, <3>2, <3>3, <3>4, <2>5, <2>6, <2>7, <2>8, <1>4, PadBehind
  <2>11. AllocAll(s.type) => n + d <= buffer_len
    <3>1. Gap(E, r.at) \in Nat
      BY <2>5, <2>6, GapIs
    <3>. QED
      BY <3>1, <2>7, <2>9, <1>2, <1>3, <1>4
  <2>. QED
    BY <2>5, <2>6, <2>8, <2>9, <2>10, <2>11 DEF n, d, f, l, E, F, between
<1>. QED
  BY <1>5, <1>6

(* bufopen and bufalloc put a header where it harms no handle.             *)
LEMMA OpenStands ==
    ASSUME Sorted(handle_list), Stands(buffer, handle, ToSet(handle_list)),
           NEW s, Openable(s), NEW r, r = RoomFor(s), r.ok, PaddingFits(s, r),
           NEW c \in Nat, \A a \in ToSet(handle_list) : a < c,
           NEW hs2, hs2[c] = Opening(s, r), \A a \in ToSet(handle_list) : hs2[a] = handle[a]
    PROVE  /\ Stands(WithHeader(buffer, r.at, c, HeaderSize(s.type)), hs2, ToSet(handle_list) \cup {c})
           /\ Shape(Opening(s, r))
<1>. DEFINE L == ToSet(handle_list)
            h == Opening(s, r)
            n == HeaderSize(s.type)
            after == WithHeader(buffer, r.at, c, n)
<1>1. Laid(handle, L) /\ DOMAIN buffer = Addresses /\ \A a \in L : Holds(buffer, a, handle[a])
  BY DEF Stands
<1>2. /\ r.at \in Addresses /\ r.data = ringbuf_add(r.at, n)
      /\ r.at + n <= buffer_len
      /\ ~CanWrap(s.type) => r.at = 0 \/ r.at + n + Asks(s) <= buffer_len
      /\ AllocAll(s.type) => n + Asks(s) <= buffer_len
  BY <1>1, OpenPlace
<1>3. /\ Shape(h) /\ Off(h) = n + PaddingOf(s, r) /\ h.at = r.at /\ h.type = s.type /\ h.size = n
      /\ Ext(h) = Off(h) /\ Whole(h) <= n + Asks(s)
  BY <1>2, OpeningShape
<1>4. /\ Whole(h) \in Nat /\ Off(h) \in Nat /\ h.size \in Nat /\ h.size <= Off(h)
      /\ n \in Nat
  <2>1. Off(h) \in 1 .. buffer_len - 1
    BY <1>3, ShapeSays
  <2>2. Off(h) \in Nat
    BY <2>1, RingAssumption
  <2>. QED
    BY <2>2, <1>3, ShapeSays, Headers
<1>5. buffer_len \in Nat /\ Asks(s) \in Nat
  BY RingAssumption DEF Openable, FileType, Asks
<1>6. AllocAll(h.type) => Whole(h) <= buffer_len
  BY <1>2, <1>3, <1>4, <1>5
<1>. DEFINE f == Head(handle_list)
            l == Last(handle_list)
<1>7. L # {} => /\ Ends(L, f, l)
                /\ Whole(handle[l]) <= Gap(handle[l].at, h.at)
                /\ Gap(handle[l].at, h.at) + Ext(h) <= Between(handle, f, l)
                /\ AllocAll(h.type) => Gap(handle[l].at, h.at) + Whole(h) <= Between(handle, f, l)
  <2>. HAVE L # {}
  <2>1. handle_list # <<>>
    BY EmptyList
  <2>2. Ends(L, f, l)
    BY <2>1, EndsAre
  <2>3. /\ Whole(handle[l]) <= Gap(handle[l].at, r.at)
        /\ Gap(handle[l].at, r.at) + n + PaddingOf(s, r) <= Between(handle, f, l)
        /\ AllocAll(s.type) => Gap(handle[l].at, r.at) + n + Asks(s) <= Between(handle, f, l)
    BY <2>1, <1>1, OpenPlace
  <2>4. f \in L /\ l \in L
    BY <2>2 DEF Ends
  <2>5. handle[l].at \in Addresses /\ handle[f].at \in Addresses
    BY <2>4, <1>1, ShapeSays DEF Laid
  <2>6. Gap(handle[l].at, r.at) \in Nat /\ Between(handle, f, l) \in Int
    BY <2>5, <1>2, <1>5, GapIs DEF Between
  <2>7. PaddingOf(s, r) = Off(h) - n /\ PaddingOf(s, r) \in Int
    <3>1. r.data \in Int /\ s.offset \in Int
      <4>1. n \in 0 .. buffer_len
        BY <1>2, <1>4, <1>5 DEF Addresses
      <4>2. r.data \in Addresses
        BY <4>1, <1>2, Further
      <4>. QED
        BY <4>2 DEF Addresses, Openable, FileType
    <3>2. StoragePad(s.offset, r.data) \in 0 .. StorageAlign - 1
      BY <3>1, Paddings
    <3>3. PaddingOf(s, r) \in Int
      BY <3>2, RingAssumption DEF PaddingOf
    <3>. QED
      BY <3>3, <1>3, <1>4
  <2>8. Gap(handle[l].at, h.at) + Ext(h) <= Between(handle, f, l)
    BY <2>3, <2>6, <2>7, <1>3, <1>4
  <2>9. AllocAll(h.type) => Gap(handle[l].at, h.at) + Whole(h) <= Between(handle, f, l)
    BY <2>3, <2>6, <1>3, <1>4, <1>5
  <2>. QED
    BY <2>2, <2>3, <2>8, <2>9, <1>3
<1>8. L \subseteq Int
  BY SortedIs
<1>. HIDE DEF L, h, f, l
<1>9. Laid(hs2, L \cup {c})
  <2>1. \A a \in L : a < c
    BY DEF L
  <2>2. hs2[c] = h /\ \A a \in L : hs2[a] = handle[a]
    BY DEF L, h
  <2>3. c \in Int /\ Laid(handle, L) /\ Shape(h)
    BY <1>1, <1>3
  <2>4. L # {} => Follows(handle, L, f, l, h)
    BY <1>7 DEF Follows
  <2>. QED
    BY <2>1, <2>2, <2>3, <2>4, <1>6, <1>8, OpenedLaid
<1>10. /\ DOMAIN after = Addresses
       /\ \A x \in Addresses : after[x] = IF Gap(r.at, x) < n THEN <<c, Header>> ELSE buffer[x]
  BY <1>1, <1>2, <1>4, HeaderAt
<1>. HIDE DEF after
<1>11. Holds(after, c, h)
  <2>1. \A x \in Addresses : Gap(h.at, x) \notin Off(h) .. Ext(h) - 1
    BY <1>3, <1>4
  <2>. QED
    BY <2>1, <1>3, <1>10 DEF Holds
<1>12. ASSUME NEW b \in L PROVE Holds(after, b, hs2[b])
  <2>1. b # c /\ Holds(buffer, b, hs2[b]) /\ hs2[c] = h
    BY <1>1, <1>8 DEF L, h
  <2>2. n <= Ext(hs2[c])
    BY <2>1, <1>3, <1>4
  <2>3. \A x \in Addresses : ~(Gap(hs2[c].at, x) < n) => after[x] = buffer[x]
    BY <2>1, <1>3, <1>10
  <2>4. n \in Int /\ b \in L \cup {c} /\ c \in L \cup {c}
    BY <1>4
  <2>. QED
    BY <2>1, <2>2, <2>3, <2>4, <1>9, OthersStand
<1>13. hs2[c] = h
  BY DEF h
<1>. QED
  BY <1>3, <1>9, <1>10, <1>11, <1>12, <1>13 DEF Stands, after, L, h

-----------------------------------------------------------------------------
(* One handle changes in its place                                         *)

(* One handle changes within its room; the others stand.                   *)
LEMMA UpdatedStands ==
    ASSUME NEW mem, NEW hs, NEW L, Stands(mem, hs, L), NEW x \in L, NEW new, Shape(new),
           new.at = hs[x].at, new.type = hs[x].type,
           \A b \in L : b # x => Ext(new) <= Gap(new.at, hs[b].at),
           new.type # "audio" => Whole(new) <= Whole(hs[x]),
           NEW after, DOMAIN after = Addresses, Holds(after, x, new),
           \A y \in Addresses : ~(Gap(new.at, y) < Ext(new)) => after[y] = mem[y],
           NEW hs2, hs2[x] = new, \A b \in L : b # x => hs2[b] = hs[b]
    PROVE  Stands(after, hs2, L)
<1>1. Laid(hs, L) /\ \A a \in L : Holds(mem, a, hs[a])
  BY DEF Stands
<1>2. Laid(hs2, L)
  BY <1>1, UpdatedLaid
<1>3. Ext(new) \in Int
  BY ShapeSays
<1>4. ASSUME NEW b \in L, b # x PROVE Holds(after, b, hs2[b])
  <2>1. Holds(mem, b, hs2[b])
    BY <1>1, <1>4
  <2>2. Ext(hs2[x]) \in Int /\ Ext(new) <= Ext(hs2[x])
    BY <1>3
  <2>3. \A y \in Addresses : ~(Gap(hs2[x].at, y) < Ext(new)) => after[y] = mem[y]
    OBVIOUS
  <2>. QED
    BY <1>2, <1>3, <1>4, <2>1, <2>2, <2>3, OthersStand
<1>. QED
  BY <1>2, <1>4 DEF Stands

(* The cursors of a handle, its flags and its descriptor change, its file  *)
(* may become shorter: it still holds what it held.                        *)
Alters(h, new) ==
    /\ new \in HandleType
    /\ new.at = h.at /\ new.size = h.size /\ new.type = h.type /\ new.data = h.data
    /\ new.widx = h.widx /\ new.start = h.start /\ new.end = h.end
    /\ new.filesize <= h.filesize /\ new.start <= new.filesize /\ new.start <= new.pos
    /\ new.ridx = ringbuf_add(new.data, new.pos - new.start)
    /\ new.fd # None => new.fd = new.end
    /\ new.fd = None => new.end >= new.filesize \/ new.end = new.start

(* Cursors moved within a handle leave its fields in agreement.            *)
LEMMA AlteredShape ==
    ASSUME NEW h, Shape(h), NEW new, Alters(h, new)
    PROVE  /\ Shape(new) /\ Off(new) = Off(h)
           /\ Held(new) <= Held(h) /\ Ext(new) <= Ext(h) /\ Whole(new) <= Whole(h)
<1>1. /\ h.filesize \in Nat /\ h.start \in Nat /\ h.end \in Nat /\ h.at \in Nat
      /\ h.start <= h.end /\ h.start <= h.filesize /\ Off(h) \in Nat
  <2>1. buffer_len \in Nat /\ Off(h) \in 1 .. buffer_len - 1 /\ h.at \in Addresses
    BY ShapeSays, RingAssumption
  <2>. QED
    BY <2>1, ShapeSays DEF Addresses
<1>2. new.filesize \in Nat
  BY DEF Alters, HandleType
<1>3. Off(new) = Off(h)
  BY DEF Off, Alters
<1>4. Held(new) <= Held(h) /\ Held(new) \in Int /\ Held(h) \in Int
  BY <1>1, <1>2 DEF Held, Least, Alters
<1>5. Ext(new) <= Ext(h)
  BY <1>1, <1>3, <1>4 DEF Ext
<1>6. Whole(new) <= Whole(h) /\ Whole(new) \in Int /\ Whole(h) \in Int
  BY <1>1, <1>2, <1>3 DEF Whole, Alters
<1>7. ~CanWrap(new.type) => new.at = 0 \/ new.at + Whole(new) <= buffer_len
  BY <1>1, <1>6, RingAssumption DEF Shape, Alters
<1>8. Shape(new)
  <2>1. /\ new.size = HeaderSize(new.type) /\ new.at + new.size <= buffer_len /\ new.size <= Off(new)
        /\ new.start <= new.end /\ new.start <= new.pos /\ new.start <= new.filesize
        /\ Off(new) + new.end - new.start <= buffer_len
    BY <1>3 DEF Shape, Alters
  <2>2. /\ new.widx = ringbuf_add(new.data, new.end - new.start)
        /\ new.type # "audio" => Off(new) = new.size
        /\ AllocAll(new.type) => new.start = 0
    BY <1>3 DEF Shape, Alters
  <2>. QED
    BY <2>1, <2>2, <1>7 DEF Shape, Alters
<1>. QED
  BY <1>3, <1>4, <1>5, <1>6, <1>8

(* Cursors moved within a handle leave the ring as it was.                 *)
LEMMA AlteredStands ==
    ASSUME NEW mem, NEW hs, NEW L, Stands(mem, hs, L), NEW x \in L, NEW new, Alters(hs[x], new),
           NEW hs2, hs2[x] = new, \A b \in L : b # x => hs2[b] = hs[b]
    PROVE  Stands(mem, hs2, L)
<1>1. Laid(hs, L) /\ Shape(hs[x]) /\ Holds(mem, x, hs[x]) /\ DOMAIN mem = Addresses
  BY DEF Stands, Laid
<1>2. /\ Shape(new) /\ Off(new) = Off(hs[x])
      /\ Held(new) <= Held(hs[x]) /\ Ext(new) <= Ext(hs[x]) /\ Whole(new) <= Whole(hs[x])
  BY <1>1, AlteredShape
<1>3. new.at = hs[x].at /\ new.type = hs[x].type /\ new.size = hs[x].size /\ new.start = hs[x].start
  BY DEF Alters
<1>4. Ext(new) \in Int /\ Ext(hs[x]) \in Int /\ Off(new) \in Int
  <2>1. Off(new) \in 1 .. buffer_len - 1
    BY <1>2, ShapeSays
  <2>. QED
    BY <2>1, <1>1, <1>2, ShapeSays
<1>5. \A b \in L : b # x => Ext(new) <= Gap(new.at, hs[b].at)
  <2>. SUFFICES ASSUME NEW b \in L, b # x PROVE Ext(new) <= Gap(new.at, hs[b].at)
    OBVIOUS
  <2>1. Ext(hs[x]) <= Gap(hs[x].at, hs[b].at)
    BY <1>1 DEF Laid, Apart
  <2>2. Gap(hs[x].at, hs[b].at) \in Int
    <3>1. hs[x].at \in Addresses /\ hs[b].at \in Addresses
      BY <1>1, ShapeSays DEF Laid
    <3>. QED
      BY <3>1, GapIs
  <2>. QED
    BY <2>1, <2>2, <1>2, <1>3, <1>4
<1>6. Holds(mem, x, new)
  <2>. SUFFICES ASSUME NEW y \in Addresses, Gap(new.at, y) \in Off(new) .. Ext(new) - 1
                PROVE  Gap(hs[x].at, y) \in Off(hs[x]) .. Ext(hs[x]) - 1
    BY <1>1, <1>2, <1>3 DEF Holds
  <2>. QED
    BY <1>2, <1>3, <1>4
<1>. QED
  BY <1>1, <1>2, <1>3, <1>5, <1>6, UpdatedStands

(* Bytes are added at a distance e behind the header, at or before the end *)
(* of what is held.                                                        *)
Grows(h, new, e, n, from) ==
    /\ Shape(new)
    /\ new.at = h.at /\ new.size = h.size /\ new.type = h.type /\ new.data = h.data /\ new.start = h.start
    /\ e \in Nat /\ n \in Nat /\ Off(h) <= e /\ e <= Ext(h) /\ from = h.start + (e - Off(h))
    /\ Ext(new) = e + n /\ Whole(new) <= Whole(h)

(* Bytes written behind a handle's last one are its own.                   *)
LEMMA GrownStands ==
    ASSUME NEW mem, NEW hs, NEW L, Stands(mem, hs, L), NEW x \in L, NEW new,
           NEW e, NEW n, NEW from, Grows(hs[x], new, e, n, from),
           \A b \in L : b # x => e + n <= Gap(hs[x].at, hs[b].at),
           NEW p, p = ringbuf_add(hs[x].at, e),
           NEW hs2, hs2[x] = new, \A b \in L : b # x => hs2[b] = hs[b]
    PROVE  Stands(WithBytes(mem, p, x, from, n), hs2, L)
<1>. DEFINE h == hs[x]
            after == WithBytes(mem, p, x, from, n)
<1>1. Laid(hs, L) /\ Shape(h) /\ Holds(mem, x, h) /\ DOMAIN mem = Addresses
  BY DEF Stands, Laid
<1>2. /\ Shape(new) /\ new.at = h.at /\ new.size = h.size /\ new.type = h.type /\ new.start = h.start
      /\ e \in Nat /\ n \in Nat /\ Off(h) <= e /\ e <= Ext(h) /\ from = h.start + (e - Off(h))
      /\ Ext(new) = e + n /\ Whole(new) <= Whole(h) /\ Off(new) = Off(h)
  BY DEF Grows, Off
<1>3. /\ h.at \in Addresses /\ h.start \in Nat /\ Off(h) \in Nat /\ h.size \in Nat /\ h.size <= Off(h)
      /\ Ext(new) <= buffer_len /\ buffer_len \in Nat
  <2>1. buffer_len \in Nat /\ Off(h) \in 1 .. buffer_len - 1
    BY <1>1, ShapeSays, RingAssumption
  <2>. QED
    BY <2>1, <1>1, <1>2, ShapeSays
<1>. HIDE DEF h, after
<1>4. /\ DOMAIN after = Addresses
      /\ \A y \in Addresses : after[y] = IF e <= Gap(h.at, y) /\ Gap(h.at, y) < e + n
                                         THEN <<x, from + (Gap(h.at, y) - e)>> ELSE mem[y]
  <2>1. from \in Nat /\ e + n <= buffer_len /\ e \in 0 .. buffer_len
    BY <1>2, <1>3
  <2>2. p = ringbuf_add(h.at, e)
    BY DEF h
  <2>. QED
    BY <2>1, <2>2, <1>1, <1>2, <1>3, BytesAt DEF after
<1>5. \A y \in Addresses : Gap(h.at, y) \in Nat
  BY <1>3, GapIs
<1>6. Holds(after, x, new)
  <2>. SUFFICES ASSUME NEW y \in Addresses
                PROVE  /\ Gap(h.at, y) < h.size => after[y] = <<x, Header>>
                       /\ Gap(h.at, y) \in Off(h) .. Ext(new) - 1
                            => after[y] = <<x, h.start + (Gap(h.at, y) - Off(h))>>
    BY <1>2 DEF Holds
  <2>1. /\ Gap(h.at, y) < h.size => mem[y] = <<x, Header>>
        /\ Gap(h.at, y) \in Off(h) .. Ext(h) - 1 => mem[y] = <<x, h.start + (Gap(h.at, y) - Off(h))>>
    BY <1>1 DEF Holds
  <2>2. Gap(h.at, y) \in Nat
    BY <1>5
  <2>3. Gap(h.at, y) < h.size => after[y] = <<x, Header>>
    BY <2>1, <2>2, <1>2, <1>3, <1>4
  <2>4. ASSUME Gap(h.at, y) \in Off(h) .. Ext(new) - 1
        PROVE  after[y] = <<x, h.start + (Gap(h.at, y) - Off(h))>>
    <3>1. CASE Gap(h.at, y) < e
      <4>1. Gap(h.at, y) \in Off(h) .. Ext(h) - 1
        <5>1. Ext(h) \in Int
          BY <1>1, ShapeSays DEF h
        <5>. QED
          BY <5>1, <2>2, <2>4, <3>1, <1>2, <1>3
      <4>2. after[y] = mem[y]
        BY <3>1, <2>2, <1>2, <1>4
      <4>. QED
        BY <4>1, <4>2, <2>1
    <3>2. CASE ~(Gap(h.at, y) < e)
      <4>1. e <= Gap(h.at, y) /\ Gap(h.at, y) < e + n
        BY <2>2, <2>4, <3>2, <1>2, <1>3
      <4>2. from + (Gap(h.at, y) - e) = h.start + (Gap(h.at, y) - Off(h))
        BY <2>2, <1>2, <1>3
      <4>. QED
        BY <4>1, <4>2, <1>4
    <3>. QED
      BY <3>1, <3>2
  <2>. QED
    BY <2>3, <2>4
<1>7. \A y \in Addresses : ~(Gap(new.at, y) < Ext(new)) => after[y] = mem[y]
  BY <1>2, <1>4
<1>8. \A b \in L : b # x => Ext(new) <= Gap(new.at, hs[b].at)
  BY <1>2 DEF h
<1>. QED
  BY <1>1, <1>2, <1>4, <1>6, <1>7, <1>8, UpdatedStands DEF h, after

(* Two steps on the ring are one. *)
LEMMA RingTwice ==
    ASSUME NEW p \in Addresses, NEW i \in Nat, NEW j \in Nat, i + j <= buffer_len
    PROVE  /\ ringbuf_add(p, i) \in Addresses
           /\ ringbuf_add(ringbuf_add(p, i), j) = ringbuf_add(p, i + j)
<1>1. /\ buffer_len \in Nat \ {0} /\ p \in 0 .. buffer_len - 1
  BY RingAssumption DEF Addresses
<1>2. /\ i \in 0 .. buffer_len /\ j \in 0 .. buffer_len
  BY <1>1
<1>3. ringbuf_add(p, i) \in Addresses /\ ringbuf_add(p, i) = IF p + i >= buffer_len THEN p + i - buffer_len ELSE p + i
  BY <1>2, Further
<1>4. PICK q \in Addresses : q = ringbuf_add(p, i)
  BY <1>3
<1>5. ringbuf_add(q, j) = IF q + j >= buffer_len THEN q + j - buffer_len ELSE q + j
  BY <1>2, Further
<1>6. PICK n \in 0 .. buffer_len : n = i + j
  BY <1>1
<1>7. ringbuf_add(p, n) = IF p + n >= buffer_len THEN p + n - buffer_len ELSE p + n
  BY Further
<1>. QED
  BY <1>1, <1>3, <1>4, <1>5, <1>6, <1>7

(* Two handles lie apart on the ring.                                      *)
LEMMA RoomAround ==
    ASSUME NEW hs, NEW L, Laid(hs, L), NEW a \in L, NEW b \in L, a # b
    PROVE  /\ Gap(hs[a].at, hs[b].at) \in 1 .. buffer_len - 1
           /\ Ext(hs[a]) <= Gap(hs[a].at, hs[b].at) /\ hs[a].at # hs[b].at
<1>1. Shape(hs[b]) /\ Shape(hs[a]) /\ Ext(hs[a]) <= Gap(hs[a].at, hs[b].at)
  BY DEF Laid, Apart
<1>2. /\ hs[b].at \in Addresses /\ hs[a].at \in Addresses
      /\ Off(hs[a]) \in 1 .. buffer_len - 1 /\ Held(hs[a]) \in Nat /\ Ext(hs[a]) = Off(hs[a]) + Held(hs[a])
  BY <1>1, ShapeSays
<1>3. /\ Gap(hs[a].at, hs[b].at) \in 0 .. buffer_len - 1
      /\ (Gap(hs[a].at, hs[b].at) = 0 <=> hs[a].at = hs[b].at)
  BY <1>2, GapIs
<1>. QED
  BY <1>1, <1>2, <1>3

(* What was allocated whole is loaded: all of the file, or less.           *)
Loads(h, new, n) ==
    /\ AllocAll(h.type) /\ n \in Nat /\ n <= h.filesize
    /\ new \in HandleType
    /\ new.at = h.at /\ new.size = h.size /\ new.type = h.type /\ new.data = h.data /\ new.start = h.start
    /\ new.pos = h.pos /\ new.ridx = h.ridx /\ new.fd = None
    /\ new.filesize = n /\ new.end = n /\ new.widx = ringbuf_add(h.data, n)

(* A bitmap that load_image loaded holds what was loaded.                  *)
LEMMA LoadedStands ==
    ASSUME NEW mem, NEW hs, NEW L, Stands(mem, hs, L), NEW x \in L, NEW new, NEW n, Loads(hs[x], new, n),
           NEW hs2, hs2[x] = new, \A b \in L : b # x => hs2[b] = hs[b]
    PROVE  Stands(WithBytes(mem, hs[x].data, x, 0, n), hs2, L)
<1>. DEFINE h == hs[x]
<1>1. Laid(hs, L) /\ Shape(h)
  BY DEF Stands, Laid
<1>2. /\ Off(h) \in 1 .. buffer_len - 1 /\ h.filesize \in Nat /\ h.start = 0 /\ n \in Nat /\ n <= h.filesize
      /\ h.at \in Addresses /\ h.data = ringbuf_add(h.at, Off(h)) /\ Ext(h) = Off(h) + Held(h)
      /\ Held(h) \in Nat /\ Whole(h) = Off(h) + h.filesize /\ h.type # "audio" /\ Off(h) = h.size
  <2>1. h.type # "audio" /\ h.start = 0
    BY <1>1 DEF Loads, AllocAll, Shape
  <2>2. Whole(h) = Off(h) + (h.filesize - h.start) /\ h.filesize \in Nat
    BY <1>1, ShapeSays
  <2>3. Off(h) = h.size
    BY <2>1, <1>1 DEF Shape
  <2>. QED
    BY <2>1, <2>2, <2>3, <1>1, ShapeSays DEF Loads
<1>3. HasRoom(hs, L, x)
  BY <1>1, <1>2 DEF Laid, RoomForAll, Loads
<1>4. buffer_len \in Nat
  BY RingAssumption
<1>5. /\ Off(new) = Off(h) /\ Held(new) = n /\ new.start = 0
      /\ new.at = h.at /\ new.size = h.size /\ new.type = h.type /\ new.data = h.data
  BY <1>2 DEF Loads, Off, Held, Least
<1>6. Ext(new) = Off(h) + n /\ Whole(new) = Off(h) + n
  BY <1>2, <1>5 DEF Ext, Whole, Loads
<1>7. Off(h) + n <= Whole(h) /\ Whole(h) <= buffer_len /\ Whole(h) \in Nat
  BY <1>2, <1>3, <1>4 DEF HasRoom
<1>8. Shape(new)
  <2>1. /\ new.size = HeaderSize(new.type) /\ new.at + new.size <= buffer_len /\ new.size <= Off(new)
        /\ new.start <= new.pos
    BY <1>1, <1>5 DEF Shape, Loads
  <2>2. new.ridx = ringbuf_add(new.data, new.pos - new.start)
    BY <1>1 DEF Shape, Loads
  <2>3. /\ new.widx = ringbuf_add(new.data, new.end - new.start) /\ new.start <= new.end
        /\ new.start <= new.filesize /\ new.fd = None /\ new.end >= new.filesize
        /\ Off(new) + new.end - new.start <= buffer_len
    BY <1>2, <1>4, <1>5, <1>7 DEF Loads
  <2>4. ~CanWrap(new.type) => new.at = 0 \/ new.at + Whole(new) <= buffer_len
    <3>1. ~CanWrap(h.type) => h.at = 0 \/ h.at + Whole(h) <= buffer_len
      BY <1>1 DEF Shape
    <3>2. h.at \in Nat
      BY <1>2, <1>4 DEF Addresses
    <3>. QED
      BY <3>1, <3>2, <1>2, <1>4, <1>5, <1>6, <1>7
  <2>. QED
    BY <2>1, <2>2, <2>3, <2>4, <1>2, <1>5 DEF Shape, Loads
<1>9. Grows(h, new, Off(h), n, 0)
  <2>1. Off(h) \in Nat /\ Off(h) <= Off(h) /\ Off(h) <= Ext(h) /\ 0 = h.start + (Off(h) - Off(h))
    BY <1>2, <1>4
  <2>2. Ext(new) = Off(h) + n /\ Whole(new) <= Whole(h) /\ new.start = h.start
    BY <1>2, <1>5, <1>6, <1>7
  <2>. QED
    BY <2>1, <2>2, <1>2, <1>5, <1>8 DEF Grows
<1>10. \A b \in L : b # x => Off(h) + n <= Gap(h.at, hs[b].at)
  <2>. SUFFICES ASSUME NEW b \in L, b # x PROVE Off(h) + n <= Gap(h.at, hs[b].at)
    OBVIOUS
  <2>1. Whole(h) <= Gap(h.at, hs[b].at) /\ Gap(h.at, hs[b].at) \in 1 .. buffer_len - 1
    BY <1>1, <1>3, RoomAround DEF HasRoom
  <2>. QED
    BY <2>1, <1>2, <1>7
<1>. QED
  BY <1>2, <1>9, <1>10, GrownStands

(* n more bytes are read to the write index.                               *)
Reads(h, new, n) ==
    /\ n \in Nat /\ h.end + n <= h.filesize /\ Ext(h) + n <= buffer_len
    /\ new \in HandleType
    /\ new.at = h.at /\ new.size = h.size /\ new.type = h.type /\ new.data = h.data /\ new.start = h.start
    /\ new.pos = h.pos /\ new.ridx = h.ridx /\ new.filesize = h.filesize
    /\ new.end = h.end + n /\ new.fd = h.end + n /\ new.widx = ringbuf_add(h.widx, n)

(* A chunk that was read continues the handle.                             *)
LEMMA ReadStands ==
    ASSUME NEW mem, NEW hs, NEW L, Stands(mem, hs, L), NEW x \in L, NEW new, NEW n, Reads(hs[x], new, n),
           \A b \in L : b # x => Ext(hs[x]) + n <= Gap(hs[x].at, hs[b].at),
           NEW hs2, hs2[x] = new, \A b \in L : b # x => hs2[b] = hs[b]
    PROVE  Stands(WithBytes(mem, hs[x].widx, x, hs[x].end, n), hs2, L)
<1>. DEFINE h == hs[x]
<1>1. Laid(hs, L) /\ Shape(h)
  BY DEF Stands, Laid
<1>2. /\ Off(h) \in 1 .. buffer_len - 1 /\ h.filesize \in Nat /\ h.start \in Nat /\ h.end \in Nat
      /\ h.start <= h.end /\ h.start <= h.filesize
      /\ n \in Nat /\ h.end + n <= h.filesize /\ Ext(h) + n <= buffer_len
      /\ h.at \in Addresses /\ h.data \in Addresses /\ Ext(h) = Off(h) + Held(h)
      /\ Held(h) = IF h.end < h.filesize THEN h.end - h.start ELSE h.filesize - h.start
      /\ h.widx = ringbuf_add(h.at, Off(h) + (h.end - h.start))
      /\ h.widx = ringbuf_add(h.data, h.end - h.start)
  BY <1>1, ShapeSays DEF Reads, Shape
<1>3. buffer_len \in Nat /\ None \notin Nat
  BY RingAssumption, BufferingAssumption
<1>4. /\ Held(h) = h.end - h.start /\ Ext(h) = Off(h) + (h.end - h.start) /\ Ext(h) \in Nat
      /\ h.end - h.start \in Nat /\ (h.end - h.start) + n = (h.end + n) - h.start
      /\ (h.end - h.start) + n <= buffer_len
  BY <1>2, <1>3
<1>5. /\ Off(new) = Off(h) /\ new.start = h.start /\ new.end = h.end + n /\ new.filesize = h.filesize
      /\ new.at = h.at /\ new.size = h.size /\ new.type = h.type /\ new.data = h.data
  BY DEF Reads, Off
<1>6. Held(new) = (h.end + n) - h.start
  BY <1>2, <1>5 DEF Held, Least
<1>7. Ext(new) = Ext(h) + n /\ Whole(new) = Whole(h) /\ Whole(h) \in Nat
  <2>1. Whole(new) = Whole(h)
    BY <1>5 DEF Whole
  <2>2. Ext(new) = Off(h) + Held(new)
    BY <1>5 DEF Ext
  <2>. QED
    BY <2>1, <2>2, <1>1, <1>2, <1>4, <1>6, ShapeSays
<1>8. Shape(new)
  <2>1. /\ new.size = HeaderSize(new.type) /\ new.at + new.size <= buffer_len /\ new.size <= Off(new)
        /\ new.start <= new.pos /\ new.start <= new.filesize
        /\ new.ridx = ringbuf_add(new.data, new.pos - new.start)
        /\ new.type # "audio" => Off(new) = new.size
        /\ ~CanWrap(new.type) => new.at = 0 \/ new.at + Whole(new) <= buffer_len
        /\ AllocAll(new.type) => new.start = 0
    BY <1>1, <1>5, <1>7 DEF Shape, Reads
  <2>2. new.start <= new.end /\ Off(new) + new.end - new.start <= buffer_len /\ new.fd = new.end /\ new.fd # None
    BY <1>2, <1>3, <1>4, <1>5 DEF Reads
  <2>3. new.widx = ringbuf_add(new.data, new.end - new.start)
    <3>1. ringbuf_add(ringbuf_add(h.data, h.end - h.start), n) = ringbuf_add(h.data, (h.end - h.start) + n)
      BY <1>2, <1>4, RingTwice, SMTT(30)
    <3>. QED
      BY <3>1, <1>2, <1>4, <1>5 DEF Reads
  <2>. QED
    BY <2>1, <2>2, <2>3 DEF Shape, Reads
<1>9. Grows(h, new, Ext(h), n, h.end)
  <2>1. Off(h) <= Ext(h) /\ Ext(h) <= Ext(h) /\ h.end = h.start + (Ext(h) - Off(h)) /\ Whole(new) <= Whole(h)
    BY <1>2, <1>4, <1>7
  <2>. QED
    BY <2>1, <1>2, <1>4, <1>5, <1>7, <1>8 DEF Grows
<1>10. h.widx = ringbuf_add(h.at, Ext(h))
  BY <1>2, <1>4
<1>. QED
  BY <1>9, <1>10, GrownStands

(* What nobody refers to any more is cleared, and a handle is closed.      *)
LEMMA OutdatedStands ==
    ASSUME NEW mem, NEW hs, NEW L, Stands(mem, hs, L), NEW x \in L
    PROVE  Stands(Outdated(mem, x, hs[x]), hs, L)
<1>1. Laid(hs, L) /\ DOMAIN mem = Addresses /\ \A a \in L : Shape(hs[a]) /\ Holds(mem, a, hs[a])
  BY DEF Stands, Laid
<1>2. \A b \in L : Holds(Outdated(mem, x, hs[x]), b, hs[b])
  BY <1>1, OutdatedKeeps, OutdatedOwn
<1>. QED
  BY <1>1, <1>2, OutdatedDomain DEF Stands

(* Closing a handle leaves the others alone.                               *)
LEMMA ClosedStands ==
    ASSUME NEW mem, NEW hs, NEW L, Stands(mem, hs, L), NEW x, NEW h,
           NEW hs2, \A b \in L : b # x => hs2[b] = hs[b]
    PROVE  Stands(Outdated(mem, x, h), hs2, L \ {x})
<1>1. Laid(hs, L) /\ DOMAIN mem = Addresses /\ \A a \in L : Holds(mem, a, hs[a])
  BY DEF Stands
<1>2. L \ {x} \in SUBSET L /\ \A a \in L \ {x} : hs2[a] = hs[a]
  OBVIOUS
<1>3. Laid(hs2, L \ {x})
  BY <1>1, <1>2, FewerLaid
<1>4. \A b \in L \ {x} : Holds(Outdated(mem, x, h), b, hs2[b])
  BY <1>1, <1>2, OutdatedKeeps
<1>. QED
  BY <1>1, <1>3, <1>4, OutdatedDomain DEF Stands

(* A packet handle starts again elsewhere in its file, with nothing held.  *)
Resets(h, new, pad) ==
    /\ h.type = "audio" /\ pad \in 0 .. StorageAlign - 1
    /\ new \in HandleType
    /\ new.at = h.at /\ new.size = h.size /\ new.type = h.type /\ new.filesize = h.filesize
    /\ new.data = ringbuf_add(ringbuf_add(h.at, h.size), pad)
    /\ new.ridx = new.data /\ new.widx = new.data
    /\ new.pos = new.start /\ new.end = new.start /\ new.start <= new.filesize
    /\ new.fd # None => new.fd = new.end

(* A handle that rebuffer_handle empties keeps its header.                 *)
LEMMA ResetStands ==
    ASSUME NEW mem, NEW hs, NEW L, Stands(mem, hs, L), NEW x \in L, NEW new, NEW pad, Resets(hs[x], new, pad),
           \A b \in L : b # x => hs[x].size + pad <= Gap(hs[x].at, hs[b].at),
           NEW hs2, hs2[x] = new, \A b \in L : b # x => hs2[b] = hs[b]
    PROVE  Stands(Outdated(mem, x, new), hs2, L)
<1>. DEFINE h == hs[x]
<1>1. Laid(hs, L) /\ Shape(h) /\ Holds(mem, x, h) /\ DOMAIN mem = Addresses
  BY DEF Stands, Laid
<1>2. /\ h.at \in Addresses /\ h.size \in Nat \ {0} /\ h.size + StorageAlign <= buffer_len
      /\ h.at + h.size <= buffer_len /\ pad \in 0 .. StorageAlign - 1
      /\ buffer_len \in Nat /\ StorageAlign \in Nat
  BY <1>1, ShapeSays, Headers, RingAssumption DEF Resets, Shape
<1>3. new.data = ringbuf_add(h.at, h.size + pad) /\ h.size + pad \in 1 .. buffer_len - 1
  <2>1. h.size \in Nat /\ pad \in Nat /\ h.size + pad <= buffer_len /\ h.size + pad \in 1 .. buffer_len - 1
    BY <1>2
  <2>. QED
    BY <2>1, <1>2, RingTwice DEF Resets
<1>4. Off(new) = h.size + pad /\ new.data \in Addresses
  <2>1. PICK n \in 0 .. buffer_len : n = h.size + pad /\ n # buffer_len
    BY <1>2, <1>3
  <2>2. new.data = ringbuf_add(h.at, n)
    BY <2>1, <1>3
  <2>3. Gap(h.at, new.data) = n /\ new.data \in Addresses
    BY <2>1, <2>2, <1>2, Further
  <2>. QED
    BY <2>1, <2>3 DEF Off, Resets
<1>5. /\ new.start \in Nat /\ new.filesize \in Nat /\ new.end = new.start /\ new.pos = new.start
      /\ new.start <= new.filesize
  BY DEF Resets, HandleType
<1>6. Held(new) = 0
  BY <1>5 DEF Held, Least
<1>7. Ext(new) = h.size + pad
  BY <1>2, <1>4, <1>6 DEF Ext
<1>8. ringbuf_add(new.data, 0) = new.data
  <2>1. new.data \in Nat /\ new.data + 0 < 2 * buffer_len /\ new.data < buffer_len
    BY <1>2, <1>4 DEF Addresses
  <2>2. ringbuf_add(new.data, 0) = IF new.data + 0 >= buffer_len THEN new.data + 0 - buffer_len ELSE new.data + 0
    BY <2>1, RingAdd
  <2>. QED
    BY <2>1, <2>2, <1>2
<1>9. Shape(new)
  <2>1. /\ new.size = HeaderSize(new.type) /\ new.at + new.size <= buffer_len /\ new.size <= Off(new)
    BY <1>1, <1>2, <1>4 DEF Shape, Resets
  <2>2. /\ new.start <= new.end /\ new.start <= new.pos /\ new.start <= new.filesize
        /\ Off(new) + new.end - new.start <= buffer_len
    BY <1>2, <1>3, <1>4, <1>5
  <2>3. new.pos - new.start = 0 /\ new.end - new.start = 0
    BY <1>5
  <2>4. /\ new.ridx = ringbuf_add(new.data, new.pos - new.start)
        /\ new.widx = ringbuf_add(new.data, new.end - new.start)
    BY <2>3, <1>8 DEF Resets
  <2>5. new.type = "audio" /\ CanWrap(new.type) /\ ~AllocAll(new.type)
    BY DEF Resets, CanWrap, AllocAll
  <2>. QED
    BY <2>1, <2>2, <2>4, <2>5, <1>5 DEF Shape, Resets
<1>10. Holds(mem, x, new)
  <2>1. \A y \in Addresses : Gap(new.at, y) \notin Off(new) .. Ext(new) - 1
    BY <1>2, <1>4, <1>7
  <2>. QED
    BY <2>1, <1>1 DEF Holds, Resets
<1>11. new.at = h.at /\ new.type = h.type /\ new.type = "audio"
  BY DEF Resets
<1>12. \A b \in L : b # x => Ext(new) <= Gap(new.at, hs[b].at)
  BY <1>7, <1>11
<1>13. Stands(mem, hs2, L)
  BY <1>1, <1>9, <1>10, <1>11, <1>12, UpdatedStands
<1>. QED
  BY <1>13, OutdatedStands

-----------------------------------------------------------------------------
(* Shrinking                                                               *)

(* Where the bytes of a moved handle are, and which stayed.                *)
MovedBytes(mem, after, at, d, all) ==
    /\ at \in Addresses /\ d \in Nat \ {0} /\ all \in Nat /\ d + all <= buffer_len
    /\ \A i \in 0 .. all - 1 : after[ringbuf_add(ringbuf_add(at, d), i)] = mem[ringbuf_add(at, i)]
    /\ \A i \in all .. buffer_len - d - 1 :
         after[ringbuf_add(ringbuf_add(at, d), i)] = mem[ringbuf_add(ringbuf_add(at, d), i)]

(* Where the bytes of a moved handle are found.                            *)
LEMMA MovedWhere ==
    ASSUME NEW mem, NEW after, NEW at, NEW d, NEW all, MovedBytes(mem, after, at, d, all),
           NEW at2, at2 = ringbuf_add(at, d)
    PROVE  /\ at2 \in Addresses
           /\ \A x \in Addresses : Gap(at2, x) < all =>
                \E y \in Addresses : Gap(at, y) = Gap(at2, x) /\ after[x] = mem[y]
           /\ \A x \in Addresses : all <= Gap(at2, x) /\ Gap(at2, x) < buffer_len - d =>
                after[x] = mem[x] /\ Gap(at, x) = Gap(at2, x) + d
           /\ \A x \in Addresses : ~(Gap(at, x) < d + all) => after[x] = mem[x]
<1>0. at \in Addresses /\ d \in Nat \ {0} /\ all \in Nat /\ d + all <= buffer_len
  BY DEF MovedBytes
<1>. USE <1>0
<1>1. buffer_len \in Nat \ {0} /\ d \in 0 .. buffer_len
  BY RingAssumption
<1>2. /\ at2 \in Addresses
      /\ \A x \in Addresses : Gap(at2, x) = IF d <= Gap(at, x) THEN Gap(at, x) - d
                                            ELSE IF d = buffer_len THEN Gap(at, x)
                                            ELSE Gap(at, x) + buffer_len - d
  <2>1. d \in 0 .. buffer_len
    BY <1>1
  <2>. QED
    BY <2>1, Further
<1>3. \A x \in Addresses : /\ Gap(at2, x) \in 0 .. buffer_len - 1 /\ Gap(at, x) \in 0 .. buffer_len - 1
                           /\ ringbuf_add(at2, Gap(at2, x)) = x
  BY <1>2, GapIs
<1>4. ASSUME NEW x \in Addresses, Gap(at2, x) < all
      PROVE  \E y \in Addresses : Gap(at, y) = Gap(at2, x) /\ after[x] = mem[y]
  <2>1. PICK g \in 0 .. buffer_len - 1 : g = Gap(at2, x)
    BY <1>3
  <2>2. g \in 0 .. all - 1 /\ g \in 0 .. buffer_len /\ g # buffer_len
    BY <2>1, <1>1, <1>4
  <2>3. ringbuf_add(at, g) \in Addresses /\ Gap(at, ringbuf_add(at, g)) = g
    BY <2>2, Further
  <2>4. after[ringbuf_add(at2, g)] = mem[ringbuf_add(at, g)]
    BY <2>2 DEF MovedBytes
  <2>5. ringbuf_add(at2, g) = x
    BY <2>1, <1>3
  <2>. QED
    BY <2>1, <2>3, <2>4, <2>5
<1>5. ASSUME NEW x \in Addresses, all <= Gap(at2, x), Gap(at2, x) < buffer_len - d
      PROVE  after[x] = mem[x] /\ Gap(at, x) = Gap(at2, x) + d
  <2>1. PICK g \in 0 .. buffer_len - 1 : g = Gap(at2, x)
    BY <1>3
  <2>2. g \in all .. buffer_len - d - 1
    BY <2>1, <1>1, <1>5
  <2>3. after[ringbuf_add(at2, g)] = mem[ringbuf_add(at2, g)]
    BY <2>2 DEF MovedBytes
  <2>4. ringbuf_add(at2, g) = x
    BY <2>1, <1>3
  <2>5. Gap(at2, x) = IF d <= Gap(at, x) THEN Gap(at, x) - d
                      ELSE IF d = buffer_len THEN Gap(at, x) ELSE Gap(at, x) + buffer_len - d
    BY <1>2
  <2>6. Gap(at, x) \in 0 .. buffer_len - 1
    BY <1>3
  <2>7. Gap(at, x) = Gap(at2, x) + d
    BY <2>1, <2>5, <2>6, <1>1, <1>5
  <2>. QED
    BY <2>3, <2>4, <2>7
<1>6. ASSUME NEW x \in Addresses, ~(Gap(at, x) < d + all)
      PROVE  after[x] = mem[x]
  <2>1. Gap(at, x) \in 0 .. buffer_len - 1 /\ Gap(at2, x) \in 0 .. buffer_len - 1
    BY <1>3
  <2>2. d <= Gap(at, x)
    BY <2>1, <1>1, <1>6
  <2>3. Gap(at2, x) = Gap(at, x) - d
    BY <2>2, <1>2
  <2>4. all <= Gap(at2, x) /\ Gap(at2, x) < buffer_len - d
    BY <2>1, <2>3, <1>1, <1>6
  <2>. QED
    BY <2>4, <1>5
<1>. QED
  BY <1>2, <1>4, <1>5, <1>6

(* What shrinking a handle leaves of it. *)
Trims(h, new) ==
    /\ new \in HandleType
    /\ new.size = h.size /\ new.type = h.type /\ new.fd = h.fd /\ new.filesize = h.filesize
    /\ new.pos = h.pos /\ new.end = h.end /\ new.pinned = h.pinned /\ new.signaled = h.signaled
    /\ h.start <= new.start /\ new.start <= new.pos
    /\ h.type = "audio" => new.ridx = h.ridx
    /\ h.type # "audio" => new.start = h.start
    /\ h.type # "audio" /\ h.pinned => new = h

(* Other handles than the moved one hold what they held.                   *)
LEMMA MovedOthers ==
    ASSUME NEW hs, NEW L, Laid(hs, L), NEW x \in L, NEW mem, NEW after,
           NEW d \in Nat, NEW all \in Nat,
           \A y \in Addresses : ~(Gap(hs[x].at, y) < d + all) => after[y] = mem[y],
           NEW b \in L, b # x, d + all <= Gap(hs[x].at, hs[b].at), Holds(mem, b, hs[b])
    PROVE  Holds(after, b, hs[b])
<1>1. Shape(hs[b]) /\ Shape(hs[x]) /\ hs[x].at \in Addresses
  BY ShapeSays DEF Laid
<1>2. hs[x].at # hs[b].at /\ Ext(hs[b]) <= Gap(hs[b].at, hs[x].at)
  BY RoomAround
<1>3. d + all \in Int
  OBVIOUS
<1>. QED
  BY <1>1, <1>2, <1>3, OthersHold

Placed(h, at, data, start) == [h EXCEPT !.at = at, !.data = data, !.start = start]

(* The fields of a handle that was put elsewhere.                          *)
LEMMA MovedFields ==
    ASSUME NEW h \in HandleType, NEW at \in Addresses, NEW data \in Addresses, NEW start \in Nat
    PROVE  LET new == Placed(h, at, data, start)
           IN  /\ new \in HandleType /\ new.at = at /\ new.data = data /\ new.start = start
               /\ new.size = h.size /\ new.type = h.type /\ new.fd = h.fd /\ new.filesize = h.filesize
               /\ new.pos = h.pos /\ new.end = h.end
               /\ new.pinned = h.pinned /\ new.signaled = h.signaled
               /\ new.ridx = h.ridx /\ new.widx = h.widx
<1>. DEFINE new == Placed(h, at, data, start)
<1>1. new \in HandleType
  BY DEF HandleType, Placed
<1>2. new.at = at /\ new.data = data /\ new.start = start
  BY DEF HandleType, Placed
<1>3. /\ new.size = h.size /\ new.type = h.type /\ new.fd = h.fd /\ new.filesize = h.filesize
      /\ new.pos = h.pos /\ new.end = h.end
      /\ new.ridx = h.ridx /\ new.widx = h.widx
  BY DEF HandleType, Placed
<1>4. new.pinned = h.pinned /\ new.signaled = h.signaled
  BY DEF HandleType, Placed
<1>. HIDE DEF new
<1>. QED
  BY <1>1, <1>2, <1>3, <1>4 DEF new

(* A packet handle's header moves up to what was not yet read.             *)
LEMMA TrimmedStands ==
    ASSUME NEW mem, NEW hs, NEW L, Stands(mem, hs, L), L \subseteq Int, NEW x \in L,
           NEW h, h = hs[x], h.type = "audio", h.pos <= h.end, h.pos <= h.filesize,
           NEW mv, mv = move_handle(mem, h, ringbuf_sub_empty(h.ridx, h.data), 0), mv.moved,
           NEW new, new = Moved(h, mv),
           NEW hs2, hs2[x] = new, \A b \in L : b # x => hs2[b] = hs[b]
    PROVE  Stands(Outdated(mv.mem, x, new), hs2, L) /\ Trims(h, new)
<1>1. Laid(hs, L) /\ Shape(h) /\ Holds(mem, x, h) /\ DOMAIN mem = Addresses
      /\ \A a \in L : Holds(mem, a, hs[a])
  BY DEF Stands, Laid
<1>2. /\ h.at \in Addresses /\ h.data \in Addresses /\ h.size \in Nat \ {0} /\ h.size <= Off(h)
      /\ h.at + h.size <= buffer_len /\ Off(h) \in 1 .. buffer_len - 1
      /\ h.data = ringbuf_add(h.at, Off(h))
      /\ h.filesize \in Nat /\ h.start \in Nat /\ h.pos \in Nat /\ h.end \in Nat
      /\ h.start <= h.end /\ h.start <= h.pos /\ h.start <= h.filesize
      /\ Held(h) = (IF h.end < h.filesize THEN h.end - h.start ELSE h.filesize - h.start)
      /\ Ext(h) = Off(h) + Held(h) /\ Ext(h) <= buffer_len
      /\ Off(h) + (h.end - h.start) <= buffer_len
  BY <1>1, ShapeSays
<1>3. buffer_len \in Nat \ {0}
  BY RingAssumption
<1>4. /\ h.pos - h.start \in 0 .. buffer_len - 1 /\ h.pos - h.start <= Held(h) /\ Off(h) + Held(h) <= buffer_len
  BY <1>2, <1>3
<1>5. h.ridx \in Addresses /\ ringbuf_sub_empty(h.ridx, h.data) = h.pos - h.start
  <2>1. PICK n \in 0 .. buffer_len : n = h.pos - h.start /\ n # buffer_len
    BY <1>4, <1>3
  <2>2. h.ridx = ringbuf_add(h.data, n)
    BY <1>1, <2>1 DEF Shape
  <2>3. h.ridx \in Addresses /\ Gap(h.data, h.ridx) = n
    BY <2>1, <2>2, <1>2, Further, SMTT(30)
  <2>. QED
    BY <2>1, <2>3, <1>2, GapIs
<1>6. /\ DOMAIN mv.mem = Addresses
      /\ mv.delta \in 1 .. h.pos - h.start
      /\ mv.at = ringbuf_add(h.at, mv.delta) /\ mv.at \in Addresses /\ mv.at + h.size <= buffer_len
      /\ \A i \in 0 .. h.size + 0 - 1 : mv.mem[ringbuf_add(mv.at, i)] = mem[ringbuf_add(h.at, i)]
      /\ \A i \in h.size + 0 .. buffer_len - mv.delta - 1 :
           mv.mem[ringbuf_add(mv.at, i)] = mem[ringbuf_add(mv.at, i)]
  <2>1. PICK w \in Nat : w = h.pos - h.start
    BY <1>4
  <2>2. mv = move_handle(mem, h, w, 0)
    BY <2>1, <1>5
  <2>3. w + h.size + 0 <= buffer_len
    BY <2>1, <1>2, <1>3, <1>4
  <2>4. CanWrap(h.type) /\ 0 \in Nat
    BY DEF CanWrap
  <2>. QED
    BY <2>1, <2>2, <2>3, <2>4, <1>1, <1>2, MoveHandle, SMTT(30)
<1>7. PICK d \in Nat \ {0} : d = mv.delta /\ d <= h.pos - h.start /\ d + h.size <= Ext(h) /\ d + h.size <= buffer_len
  <2>1. mv.delta \in Nat \ {0} /\ mv.delta <= h.pos - h.start
    BY <1>4, <1>6, SMTT(30)
  <2>. QED
    BY <2>1, <1>2, <1>3, <1>4, SMTT(30)
<1>8. MovedBytes(mem, mv.mem, h.at, d, h.size) /\ mv.at = ringbuf_add(h.at, d)
  <2>1. h.size + 0 = h.size
    BY <1>2, SMTT(30)
  <2>2. mv.at = ringbuf_add(h.at, d)
    BY <1>6, <1>7, SMTT(30)
  <2>3. ASSUME NEW i \in 0 .. h.size - 1
        PROVE  mv.mem[ringbuf_add(mv.at, i)] = mem[ringbuf_add(h.at, i)]
    <3>1. i \in 0 .. h.size + 0 - 1
      BY <1>2, SMTT(30)
    <3>. QED
      BY <3>1, <1>6
  <2>4. ASSUME NEW i \in h.size .. buffer_len - d - 1
        PROVE  mv.mem[ringbuf_add(mv.at, i)] = mem[ringbuf_add(mv.at, i)]
    <3>1. i \in h.size + 0 .. buffer_len - mv.delta - 1
      BY <1>2, <1>7
    <3>. QED
      BY <3>1, <1>6
  <2>5. h.at \in Addresses /\ d \in Nat \ {0} /\ h.size \in Nat /\ d + h.size <= buffer_len
    BY <1>2, <1>7
  <2>. QED
    BY <2>2, <2>3, <2>4, <2>5 DEF MovedBytes
<1>9. /\ \A y \in Addresses : Gap(mv.at, y) < h.size =>
           \E z \in Addresses : Gap(h.at, z) = Gap(mv.at, y) /\ mv.mem[y] = mem[z]
      /\ \A y \in Addresses : h.size <= Gap(mv.at, y) /\ Gap(mv.at, y) < buffer_len - d =>
           mv.mem[y] = mem[y] /\ Gap(h.at, y) = Gap(mv.at, y) + d
      /\ \A y \in Addresses : ~(Gap(h.at, y) < d + h.size) => mv.mem[y] = mem[y]
  BY <1>8, MovedWhere
<1>. DEFINE data == ringbuf_add(h.data, d)
<1>10. /\ new = [h EXCEPT !.at = mv.at, !.data = data, !.start = h.start + d]
       /\ h \in HandleType
  BY <1>1, <1>7 DEF Moved, Shape
<1>11. data = ringbuf_add(mv.at, Off(h)) /\ data \in Addresses
  <2>1. d + Off(h) <= buffer_len /\ Off(h) + d <= buffer_len /\ Off(h) \in Nat /\ d \in Nat /\ d + Off(h) = Off(h) + d
    BY <1>2, <1>3, <1>4, <1>7
  <2>2. /\ ringbuf_add(ringbuf_add(h.at, d), Off(h)) = ringbuf_add(h.at, d + Off(h))
        /\ ringbuf_add(ringbuf_add(h.at, Off(h)), d) = ringbuf_add(h.at, Off(h) + d)
    BY <2>1, <1>2, RingTwice
  <2>3. d \in 0 .. buffer_len
    BY <2>1, <1>2, <1>3
  <2>4. ringbuf_add(h.data, d) \in Addresses
    BY <2>3, <1>2, Further
  <2>. QED
    BY <2>1, <2>2, <2>4, <1>2, <1>8
<1>. HIDE DEF data
<1>12. /\ new.at = mv.at /\ new.data = data /\ new.start = h.start + d
       /\ new.size = h.size /\ new.type = h.type /\ new.fd = h.fd /\ new.filesize = h.filesize
       /\ new.pos = h.pos /\ new.end = h.end /\ new.pinned = h.pinned /\ new.signaled = h.signaled
       /\ new.ridx = h.ridx /\ new.widx = h.widx
       /\ new \in HandleType
  <2>1. h.start + d \in Nat
    BY <1>2, <1>7
  <2>2. PICK s \in Nat : s = h.start + d
    BY <2>1
  <2>3. new = Placed(h, mv.at, data, s)
    BY <2>2, <1>10, SMTT(30) DEF Placed
  <2>4. h \in HandleType /\ mv.at \in Addresses /\ data \in Addresses
    BY <1>6, <1>10, <1>11
  <2>5. /\ new \in HandleType /\ new.at = mv.at /\ new.data = data /\ new.start = s
        /\ new.size = h.size /\ new.type = h.type /\ new.fd = h.fd /\ new.filesize = h.filesize
        /\ new.pos = h.pos /\ new.end = h.end /\ new.pinned = h.pinned /\ new.signaled = h.signaled
        /\ new.ridx = h.ridx /\ new.widx = h.widx
    BY <2>3, <2>4, MovedFields, SMTT(30)
  <2>. QED
    BY <2>2, <2>5
<1>13. new \in HandleType
  BY <1>12
<1>14. Trims(h, new)
  <2>1. h.start <= h.start + d /\ h.start + d <= h.pos
    BY <1>2, <1>7
  <2>. QED
    BY <2>1, <1>12, <1>13 DEF Trims
<1>15. Off(new) = Off(h) /\ Held(new) = Held(h) - d
  <2>1. PICK o \in 0 .. buffer_len : o = Off(h) /\ o # buffer_len
    BY <1>2, <1>3, SMTT(30)
  <2>2. Gap(mv.at, data) = o
    BY <2>1, <1>6, <1>11, Further
  <2>3. Held(new) = Held(h) - d
    BY <1>2, <1>7, <1>12 DEF Held, Least
  <2>. QED
    BY <2>1, <2>2, <2>3, <1>12 DEF Off
<1>16. Ext(new) = Ext(h) - d /\ Ext(h) \in Nat /\ Off(h) \in Nat
  BY <1>2, <1>3, <1>4, <1>7, <1>15, SMTT(30) DEF Ext
<1>17. Shape(new)
  <2>1. /\ new.size = HeaderSize(new.type) /\ new.at + new.size <= buffer_len /\ new.size <= Off(new)
        /\ new.start <= new.end /\ new.start <= new.pos /\ new.start <= new.filesize
        /\ Off(new) + new.end - new.start <= buffer_len
    <3>1. new.size = HeaderSize(new.type)
      BY <1>1, <1>12, SMTT(30) DEF Shape
    <3>2. new.at + new.size <= buffer_len
      BY <1>6, <1>12, Zenon
    <3>3. new.size <= Off(new)
      BY <1>2, <1>12, <1>15
    <3>4. new.start <= new.end /\ new.start <= new.pos /\ new.start <= new.filesize
      BY <1>2, <1>7, <1>12
    <3>5. Off(new) + new.end - new.start <= buffer_len
      BY <1>2, <1>3, <1>7, <1>12, <1>15
    <3>. QED
      BY <3>1, <3>2, <3>3, <3>4, <3>5
  <2>2. ASSUME NEW n \in Nat, d <= n, n <= buffer_len
        PROVE  ringbuf_add(data, n - d) = ringbuf_add(h.data, n)
    <3>1. n - d \in Nat /\ d + (n - d) = n /\ d + (n - d) <= buffer_len /\ d \in Nat
      BY <2>2, <1>7
    <3>2. ringbuf_add(ringbuf_add(h.data, d), n - d) = ringbuf_add(h.data, d + (n - d))
      BY <3>1, <1>2, RingTwice
    <3>. QED
      BY <3>1, <3>2 DEF data
  <2>3. new.ridx = ringbuf_add(new.data, new.pos - new.start)
    <3>1. PICK n \in Nat : n = h.pos - h.start /\ d <= n /\ n <= buffer_len
      BY <1>2, <1>3, <1>4, <1>7
    <3>2. new.pos - new.start = n - d
      BY <3>1, <1>2, <1>7, <1>12
    <3>. QED
      BY <3>1, <3>2, <2>2, <1>1, <1>12 DEF Shape
  <2>4. new.widx = ringbuf_add(new.data, new.end - new.start)
    <3>1. PICK n \in Nat : n = h.end - h.start /\ d <= n /\ n <= buffer_len
      BY <1>2, <1>3, <1>4, <1>7
    <3>2. new.end - new.start = n - d
      BY <3>1, <1>2, <1>7, <1>12
    <3>. QED
      BY <3>1, <3>2, <2>2, <1>1, <1>12 DEF Shape
  <2>5. CanWrap(new.type) /\ ~AllocAll(new.type) /\ new.type = "audio"
    BY <1>12 DEF CanWrap, AllocAll
  <2>6. /\ new.fd # None => new.fd = new.end
        /\ new.fd = None => new.end >= new.filesize \/ new.end = new.start
    <3>1. h.end = h.start => d <= 0
      BY <1>2, <1>7
    <3>2. h.fd = None => h.end >= h.filesize
      BY <3>1, <1>1, <1>7 DEF Shape
    <3>. QED
      BY <3>2, <1>1, <1>12 DEF Shape
  <2>. QED
    BY <2>1, <2>3, <2>4, <2>5, <2>6, <1>13 DEF Shape
<1>18. Laid(hs2, L)
  <2>1. Clears(hs, L, x, new, d)
    <3>1. d + Ext(new) = Ext(h)
      BY <1>7, <1>16
    <3>2. \A b \in L : b # x => Ext(h) <= Gap(hs[x].at, hs[b].at)
      BY <1>1, RoomAround
    <3>. QED
      BY <3>1, <3>2, <1>12 DEF Clears
  <2>2. d \in Nat /\ new.at = ringbuf_add(hs[x].at, d) /\ new.type = hs[x].type /\ ~(new.type # "audio")
    BY <1>7, <1>8, <1>12
  <2>3. Goes(hs, L, x, new, d, hs2)
    BY <2>1, <2>2, <1>1, <1>17 DEF Goes
  <2>. QED
    BY <2>3, MovedLaid
<1>19. Holds(mv.mem, x, new)
  <2>. SUFFICES ASSUME NEW y \in Addresses
                PROVE  /\ Gap(mv.at, y) < h.size => mv.mem[y] = <<x, Header>>
                       /\ Gap(mv.at, y) \in Off(h) .. Ext(new) - 1
                            => mv.mem[y] = <<x, new.start + (Gap(mv.at, y) - Off(h))>>
    <3>1. new.at = mv.at /\ new.size = h.size /\ Off(new) = Off(h)
      BY <1>12, <1>15
    <3>. QED
      BY <3>1, SMTT(30) DEF Holds
  <2>1. Gap(mv.at, y) < h.size => mv.mem[y] = <<x, Header>>
    BY <1>1, <1>9, SMTT(30) DEF Holds
  <2>2. ASSUME Gap(mv.at, y) \in Off(h) .. Ext(new) - 1
        PROVE  mv.mem[y] = <<x, new.start + (Gap(mv.at, y) - Off(h))>>
    <3>1. Gap(mv.at, y) \in 0 .. buffer_len - 1
      BY <1>6, GapIs
    <3>2. h.size <= Gap(mv.at, y) /\ Gap(mv.at, y) < buffer_len - d
      BY <2>2, <3>1, <1>2, <1>3, <1>7, <1>16
    <3>3. mv.mem[y] = mem[y] /\ Gap(h.at, y) = Gap(mv.at, y) + d
      BY <3>2, <1>9
    <3>4. Gap(h.at, y) \in Off(h) .. Ext(h) - 1
      BY <2>2, <3>1, <3>3, <1>7, <1>16
    <3>5. mem[y] = <<x, h.start + (Gap(h.at, y) - Off(h))>>
      BY <3>4, <1>1 DEF Holds
    <3>6. h.start + (Gap(h.at, y) - Off(h)) = new.start + (Gap(mv.at, y) - Off(h))
      BY <3>1, <3>3, <1>2, <1>7, <1>12, <1>16
    <3>. QED
      BY <3>3, <3>5, <3>6, SMTT(30)
  <2>. QED
    BY <2>1, <2>2, SMTT(30)
<1>20. ASSUME NEW b \in L, b # x PROVE Holds(mv.mem, b, hs2[b])
  <2>1. d \in Nat /\ h.size \in Nat /\ d + h.size <= Gap(hs[x].at, hs[b].at)
    <3>1. Ext(hs[x]) <= Gap(hs[x].at, hs[b].at) /\ Gap(hs[x].at, hs[b].at) \in 1 .. buffer_len - 1
      BY <1>1, <1>20, RoomAround
    <3>. QED
      BY <3>1, <1>2, <1>7, <1>16
  <2>2. \A y \in Addresses : ~(Gap(hs[x].at, y) < d + h.size) => mv.mem[y] = mem[y]
    BY <1>9
  <2>3. Holds(mv.mem, b, hs[b])
    BY <2>1, <2>2, <1>1, <1>20, MovedOthers, SMTT(30)
  <2>. QED
    BY <2>3, <1>20
<1>21. Stands(mv.mem, hs2, L)
  BY <1>6, <1>18, <1>19, <1>20 DEF Stands
<1>. QED
  BY <1>14, <1>21, OutdatedStands

(* Two steps on the ring may be taken in either order. *)
LEMMA RingSwap ==
    ASSUME NEW p \in Addresses, NEW i \in 0 .. buffer_len, NEW j \in 0 .. buffer_len
    PROVE  ringbuf_add(ringbuf_add(p, i), j) = ringbuf_add(ringbuf_add(p, j), i)
<1>1. \A q \in Addresses, n \in 0 .. buffer_len :
        /\ ringbuf_add(q, n) \in Addresses
        /\ ringbuf_add(q, n) = IF q + n >= buffer_len THEN q + n - buffer_len ELSE q + n
  BY Further
<1>2. buffer_len \in Nat \ {0} /\ p \in 0 .. buffer_len - 1
  BY RingAssumption DEF Addresses
<1>3. /\ ringbuf_add(p, i) \in Addresses /\ ringbuf_add(p, j) \in Addresses
      /\ ringbuf_add(p, i) = IF p + i >= buffer_len THEN p + i - buffer_len ELSE p + i
      /\ ringbuf_add(p, j) = IF p + j >= buffer_len THEN p + j - buffer_len ELSE p + j
  BY <1>1
<1>4. PICK a \in Addresses : a = ringbuf_add(p, i)
  BY <1>3
<1>5. PICK b \in Addresses : b = ringbuf_add(p, j)
  BY <1>3
<1>6. /\ ringbuf_add(a, j) = IF a + j >= buffer_len THEN a + j - buffer_len ELSE a + j
      /\ ringbuf_add(b, i) = IF b + i >= buffer_len THEN b + i - buffer_len ELSE b + i
  BY <1>1
<1>7. a \in 0 .. buffer_len - 1 /\ b \in 0 .. buffer_len - 1
  BY DEF Addresses
<1>8. ringbuf_add(a, j) = ringbuf_add(b, i)
  <2>1. /\ a = IF p + i >= buffer_len THEN p + i - buffer_len ELSE p + i
        /\ b = IF p + j >= buffer_len THEN p + j - buffer_len ELSE p + j
    BY <1>3, <1>4, <1>5
  <2>. QED
    BY <2>1, <1>2, <1>6, <1>7
<1>. QED
  BY <1>4, <1>5, <1>8

(* The handle after x in the list is the nearest behind it on the ring.    *)
LEMMA Nearest ==
    ASSUME NEW hs, NEW L, Laid(hs, L), L \subseteq Int, NEW x \in L, NEW n \in L, x < n,
           \A b \in L : x < b => n <= b
    PROVE  \A b \in L : b # x => Gap(hs[x].at, hs[n].at) <= Gap(hs[x].at, hs[b].at)
<1>. SUFFICES ASSUME NEW b \in L, b # x
              PROVE  Gap(hs[x].at, hs[n].at) <= Gap(hs[x].at, hs[b].at)
  OBVIOUS
<1>1. x \in Int /\ n \in Int /\ b \in Int
  OBVIOUS
<1>2. hs[x].at \in Addresses /\ hs[n].at \in Addresses /\ hs[b].at \in Addresses
  BY ShapeSays DEF Laid
<1>3. /\ Gap(hs[x].at, hs[n].at) \in 0 .. buffer_len - 1
      /\ Gap(hs[x].at, hs[b].at) \in 0 .. buffer_len - 1
      /\ Gap(hs[b].at, hs[n].at) \in 0 .. buffer_len - 1
      /\ Gap(hs[b].at, hs[x].at) \in 0 .. buffer_len - 1
      /\ buffer_len \in Nat
  BY <1>2, GapIs, RingAssumption
<1>4. CASE b = n
  BY <1>3, <1>4
<1>5. CASE x < b /\ b # n
  <2>1. n < b
    BY <1>1, <1>5
  <2>. QED
    BY <2>1 DEF Laid, InOrder
<1>6. CASE b < x
  <2>1. Gap(hs[b].at, hs[x].at) <= Gap(hs[b].at, hs[n].at)
    BY <1>6 DEF Laid, InOrder
  <2>2. Gap(hs[b].at, hs[n].at) = Gap(hs[b].at, hs[x].at) + Gap(hs[x].at, hs[n].at)
    BY <2>1, <1>2, OnTheWay
  <2>3. hs[x].at # hs[b].at
    BY RoomAround
  <2>4. Gap(hs[x].at, hs[b].at) + Gap(hs[b].at, hs[x].at) = buffer_len
    BY <2>3, <1>2, GapIs
  <2>. QED
    BY <2>2, <2>4, <1>3
<1>. QED
  BY <1>1, <1>4, <1>5, <1>6

ShiftType(h, at, data, ridx, widx) ==
    h \in HandleType /\ at \in Addresses /\ data \in Addresses /\ ridx \in Nat /\ widx \in Addresses
Shifted(h, at, data, ridx, widx) == [h EXCEPT !.at = at, !.data = data, !.ridx = ridx, !.widx = widx]

(* The fields of a handle whose data was moved along.                      *)
LEMMA ShiftedFields ==
    ASSUME NEW h, NEW at, NEW data, NEW ridx, NEW widx, ShiftType(h, at, data, ridx, widx)
    PROVE  LET new == Shifted(h, at, data, ridx, widx)
           IN  /\ new \in HandleType /\ new.at = at /\ new.data = data /\ new.ridx = ridx
               /\ new.widx = widx /\ new.start = h.start
               /\ new.size = h.size /\ new.type = h.type /\ new.fd = h.fd /\ new.filesize = h.filesize
               /\ new.pos = h.pos /\ new.end = h.end
               /\ new.pinned = h.pinned /\ new.signaled = h.signaled
<1>. DEFINE new == Shifted(h, at, data, ridx, widx)
<1>1. new \in HandleType
  BY DEF ShiftType, HandleType, Shifted
<1>2. new.at = at /\ new.data = data /\ new.ridx = ridx /\ new.widx = widx
  BY DEF ShiftType, HandleType, Shifted
<1>3. /\ new.size = h.size /\ new.type = h.type /\ new.fd = h.fd /\ new.filesize = h.filesize
      /\ new.pos = h.pos /\ new.end = h.end /\ new.start = h.start
  BY DEF ShiftType, HandleType, Shifted
<1>4. new.pinned = h.pinned /\ new.signaled = h.signaled
  BY DEF ShiftType, HandleType, Shifted
<1>. HIDE DEF new
<1>. QED
  BY <1>1, <1>2, <1>3, <1>4 DEF new

(* How far what is kept whole may move: to the next handle.                *)
LEMMA KeptRoom ==
    ASSUME NEW hs, NEW L, Laid(hs, L), L \subseteq Int, NEW x \in L, NEW n \in L, x < n,
           hs[x].type # "audio"
    PROVE  LET room == ringbuf_sub_empty(hs[n].at, hs[x].data) - (hs[x].filesize - hs[x].start)
           IN  /\ room % Word = room /\ room \in Nat
               /\ room + Whole(hs[x]) = Gap(hs[x].at, hs[n].at)
               /\ Gap(hs[x].at, hs[n].at) \in 1 .. buffer_len - 1
<1>1. x \in Int /\ n \in Int
  OBVIOUS
<1>2. n # x
  BY <1>1
<1>3. PICK h : h = hs[x]
  OBVIOUS
<1>4. Shape(h)
  BY <1>3 DEF Laid
<1>5. /\ h.at \in Addresses /\ h.data \in Addresses /\ h.size = Off(h)
      /\ Off(h) \in 1 .. buffer_len - 1 /\ h.data = ringbuf_add(h.at, Off(h))
      /\ h.filesize \in Nat /\ h.start \in Nat /\ h.start <= h.filesize
      /\ Whole(h) = Off(h) + (h.filesize - h.start) /\ hs[n].at \in Addresses
  <2>1. Off(h) = h.size
    BY <1>3, <1>4 DEF Shape
  <2>. QED
    BY <2>1, <1>4, ShapeSays DEF Laid
<1>6. buffer_len \in Nat \ {0} /\ Word \in Nat \ {0} /\ 4 * buffer_len < Word
  BY RingAssumption
<1>7. HasRoom(hs, L, x)
  BY DEF Laid, RoomForAll
<1>8. Whole(h) <= Gap(h.at, hs[n].at)
  BY <1>2, <1>3, <1>7 DEF HasRoom
<1>9. PICK g \in 1 .. buffer_len - 1 : g = Gap(h.at, hs[n].at)
  BY <1>2, <1>3, RoomAround
<1>10. PICK o \in 0 .. buffer_len : o = Off(h)
  BY <1>5, <1>6
<1>11. o <= Gap(h.at, hs[n].at)
  BY <1>5, <1>8, <1>9, <1>10
<1>12. Gap(ringbuf_add(h.at, o), hs[n].at) = Gap(h.at, hs[n].at) - o
  BY <1>5, <1>11, Further
<1>13. Gap(h.data, hs[n].at) = g - o
  BY <1>5, <1>9, <1>10, <1>12
<1>14. ringbuf_sub_empty(hs[n].at, h.data) = g - o
  BY <1>5, <1>13, GapIs
<1>15. PICK room \in Nat : room = (g - o) - (h.filesize - h.start)
  BY <1>5, <1>8, <1>9, <1>10
<1>16. room < Word /\ room + Whole(h) = g
  BY <1>5, <1>6, <1>9, <1>10, <1>15
<1>17. room % Word = room
  BY <1>6, <1>16
<1>. QED
  BY <1>3, <1>9, <1>14, <1>15, <1>16, <1>17

(* A handle that is kept whole moves up, header and data, to the next.     *)
LEMMA KeptStands ==
    ASSUME NEW mem, NEW hs, NEW L, Stands(mem, hs, L), L \subseteq Int, NEW x \in L, NEW n \in L, x < n,
           \A b \in L : x < b => n <= b,
           NEW h, h = hs[x], h.type # "audio", ~h.pinned, h.pos <= h.end,
           NEW w \in Nat, NEW s \in Nat, s = h.filesize - h.start,
           w + Whole(h) = Gap(h.at, hs[n].at), Gap(h.at, hs[n].at) \in 1 .. buffer_len - 1,
           NEW mv, mv = move_handle(mem, h, w, s), mv.moved,
           NEW new, new = Moved(h, mv),
           NEW hs2, hs2[x] = new, \A b \in L : b # x => hs2[b] = hs[b]
    PROVE  Stands(Outdated(mv.mem, x, new), hs2, L) /\ Trims(h, new)
<1>1. Laid(hs, L) /\ Shape(h) /\ Holds(mem, x, h) /\ DOMAIN mem = Addresses
      /\ \A a \in L : Holds(mem, a, hs[a])
  BY DEF Stands, Laid
<1>2. /\ h.at \in Addresses /\ h.data \in Addresses /\ h.size \in Nat \ {0} /\ h.size = Off(h)
      /\ h.at + h.size <= buffer_len /\ Off(h) \in 1 .. buffer_len - 1
      /\ h.data = ringbuf_add(h.at, Off(h)) /\ h.widx \in Addresses
      /\ h.filesize \in Nat /\ h.start \in Nat /\ h.pos \in Nat /\ h.end \in Nat
      /\ h.start <= h.end /\ h.start <= h.pos /\ h.start <= h.filesize
      /\ Ext(h) = Off(h) + Held(h) /\ Ext(h) <= Whole(h) /\ Held(h) \in Nat
      /\ Whole(h) = Off(h) + s
      /\ Off(h) + (h.end - h.start) <= buffer_len
  <2>1. Off(h) = h.size
    BY <1>1 DEF Shape
  <2>. QED
    BY <2>1, <1>1, ShapeSays
<1>3. buffer_len \in Nat \ {0}
  BY RingAssumption
<1>5. \A b \in L : b # x => Gap(h.at, hs[n].at) <= Gap(h.at, hs[b].at)
  <2>1. \A b \in L : b # x => Gap(hs[x].at, hs[n].at) <= Gap(hs[x].at, hs[b].at)
    BY <1>1, Nearest
  <2>. QED
    BY <2>1
<1>6. PICK g \in 1 .. buffer_len - 1 : g = Gap(h.at, hs[n].at) /\ w + h.size + s = g
  <2>1. Gap(h.at, hs[n].at) = w + h.size + s
    BY <1>2
  <2>. QED
    BY <2>1
<1>9. CanWrap(h.type) \/ h.at + h.size + s <= buffer_len
  <2>1. CASE ~CanWrap(h.type)
    <3>1. h.at = 0 \/ h.at + Whole(h) <= buffer_len
      BY <2>1, <1>1 DEF Shape
    <3>2. Whole(h) = h.size + s /\ h.size + s <= buffer_len
      BY <1>2, <1>3, <1>6
    <3>3. h.at \in Int
      BY <1>2, <1>3, SMTT(30) DEF Addresses
    <3>. QED
      BY <3>1, <3>2, <3>3, <1>2
  <2>. QED
    BY <2>1
<1>10. /\ DOMAIN mv.mem = Addresses
       /\ mv.delta \in 1 .. w
       /\ mv.at = ringbuf_add(h.at, mv.delta) /\ mv.at \in Addresses /\ mv.at + h.size <= buffer_len
       /\ ~CanWrap(h.type) => mv.at + h.size + s <= buffer_len
       /\ \A i \in 0 .. h.size + s - 1 : mv.mem[ringbuf_add(mv.at, i)] = mem[ringbuf_add(h.at, i)]
       /\ \A i \in h.size + s .. buffer_len - mv.delta - 1 :
            mv.mem[ringbuf_add(mv.at, i)] = mem[ringbuf_add(mv.at, i)]
  <2>1. w + h.size + s <= buffer_len
    BY <1>2, <1>3, <1>6
  <2>2. ~CanWrap(h.type) => h.at + h.size + s <= buffer_len
    BY <1>9
  <2>3. /\ DOMAIN mem = Addresses /\ h.at \in Addresses /\ h.size \in Nat \ {0}
        /\ h.at + h.size <= buffer_len /\ s \in Nat /\ w \in Nat
    BY <1>1, <1>2
  <2>. QED
    BY <2>1, <2>2, <2>3, MoveHandle, SMTT(60)
<1>11. PICK all \in Nat : all = h.size + s /\ all = Whole(h)
  BY <1>2
<1>12. PICK d \in Nat \ {0} : d = mv.delta /\ d + all <= g /\ d + all <= buffer_len /\ d < buffer_len
  <2>1. mv.delta \in Nat \ {0} /\ mv.delta <= w
    BY <1>10
  <2>. QED
    BY <2>1, <1>2, <1>3, <1>6, <1>11
<1>13. MovedBytes(mem, mv.mem, h.at, d, all) /\ mv.at = ringbuf_add(h.at, d)
  <2>1. mv.at = ringbuf_add(h.at, d)
    BY <1>10, <1>12, SMTT(30)
  <2>2. \A i \in 0 .. all - 1 : mv.mem[ringbuf_add(mv.at, i)] = mem[ringbuf_add(h.at, i)]
    <3>. SUFFICES ASSUME NEW i \in 0 .. all - 1
                  PROVE  mv.mem[ringbuf_add(mv.at, i)] = mem[ringbuf_add(h.at, i)]
      OBVIOUS
    <3>1. i \in 0 .. h.size + s - 1
      BY <1>2, <1>11, SMTT(30)
    <3>. QED
      BY <3>1, <1>10
  <2>3. \A i \in all .. buffer_len - d - 1 : mv.mem[ringbuf_add(mv.at, i)] = mem[ringbuf_add(mv.at, i)]
    BY <1>10, <1>11, <1>12
  <2>4. h.at \in Addresses /\ d \in Nat \ {0} /\ all \in Nat /\ d + all <= buffer_len
    BY <1>2, <1>12
  <2>. QED
    BY <2>1, <2>2, <2>3, <2>4, SMTT(30) DEF MovedBytes
<1>14. /\ \A y \in Addresses : Gap(mv.at, y) < all =>
            \E z \in Addresses : Gap(h.at, z) = Gap(mv.at, y) /\ mv.mem[y] = mem[z]
       /\ \A y \in Addresses : ~(Gap(h.at, y) < d + all) => mv.mem[y] = mem[y]
  BY <1>13, MovedWhere
<1>. DEFINE data == ringbuf_add(h.data, d)
            ridx == ringbuf_add(h.ridx, d)
            widx == ringbuf_add(h.widx, d)
<1>15. new = Shifted(h, mv.at, data, ridx, widx) /\ h \in HandleType
  BY <1>1, <1>12 DEF Moved, Shape, Shifted
<1>16. d \in 0 .. buffer_len
  BY <1>3, <1>12
<1>17. data = ringbuf_add(mv.at, Off(h)) /\ data \in Addresses
  <2>1. PICK o \in 0 .. buffer_len : o = Off(h)
    BY <1>2, <1>3
  <2>2. ringbuf_add(ringbuf_add(h.at, d), o) = ringbuf_add(ringbuf_add(h.at, o), d)
    BY <1>2, <1>16, RingSwap
  <2>3. ringbuf_add(h.data, d) \in Addresses
    BY <1>2, <1>16, Further
  <2>. QED
    BY <2>1, <2>2, <2>3, <1>2, <1>13
<1>18. ridx = ringbuf_add(data, h.pos - h.start) /\ ridx \in Addresses
  <2>1. PICK n1 \in 0 .. buffer_len : n1 = h.pos - h.start
    BY <1>2, <1>3
  <2>2. h.ridx = ringbuf_add(h.data, n1)
    BY <2>1, <1>1 DEF Shape
  <2>3. ringbuf_add(ringbuf_add(h.data, d), n1) = ringbuf_add(ringbuf_add(h.data, n1), d)
    BY <1>2, <1>16, RingSwap
  <2>4. h.ridx \in Addresses
    BY <2>2, <1>2, Further
  <2>5. ringbuf_add(h.ridx, d) \in Addresses
    BY <2>4, <1>16, Further
  <2>. QED
    BY <2>1, <2>2, <2>3, <2>5
<1>19. widx = ringbuf_add(data, h.end - h.start) /\ widx \in Addresses
  <2>1. PICK n1 \in 0 .. buffer_len : n1 = h.end - h.start
    BY <1>2, <1>3
  <2>2. h.widx = ringbuf_add(h.data, n1)
    BY <2>1, <1>1 DEF Shape
  <2>3. ringbuf_add(ringbuf_add(h.data, d), n1) = ringbuf_add(ringbuf_add(h.data, n1), d)
    BY <1>2, <1>16, RingSwap
  <2>4. h.widx \in Addresses
    BY <2>2, <1>2, Further
  <2>5. ringbuf_add(h.widx, d) \in Addresses
    BY <2>4, <1>16, Further
  <2>. QED
    BY <2>1, <2>2, <2>3, <2>5
<1>. HIDE DEF data, ridx, widx
<1>20. /\ new \in HandleType /\ new.at = mv.at /\ new.data = data /\ new.ridx = ridx
       /\ new.widx = widx /\ new.start = h.start
       /\ new.size = h.size /\ new.type = h.type /\ new.fd = h.fd /\ new.filesize = h.filesize
       /\ new.pos = h.pos /\ new.end = h.end
       /\ new.pinned = h.pinned /\ new.signaled = h.signaled
  <2>1. ridx \in Nat
    BY <1>3, <1>18, SMTT(30) DEF Addresses
  <2>2. /\ h \in HandleType /\ mv.at \in Addresses /\ data \in Addresses /\ widx \in Addresses
        /\ new = Shifted(h, mv.at, data, ridx, widx)
    BY <1>10, <1>15, <1>17, <1>19, Zenon
  <2>3. ShiftType(h, mv.at, data, ridx, widx)
    BY <2>1, <2>2 DEF ShiftType
  <2>. QED
    BY <2>2, <2>3, ShiftedFields
<1>21. Trims(h, new)
  <2>1. h.start <= h.start
    BY <1>2
  <2>. QED
    BY <2>1, <1>2, <1>20 DEF Trims
<1>22. Off(new) = Off(h) /\ Held(new) = Held(h) /\ Ext(new) = Ext(h) /\ Whole(new) = Whole(h)
  <2>1. PICK o \in 0 .. buffer_len : o = Off(h) /\ o # buffer_len
    BY <1>2, <1>3, SMTT(30)
  <2>2. Gap(mv.at, data) = o
    BY <2>1, <1>10, <1>17, Further
  <2>3. Off(new) = Off(h)
    BY <2>1, <2>2, <1>20 DEF Off
  <2>4. Held(new) = Held(h)
    BY <1>20, SMTT(30) DEF Held
  <2>. QED
    BY <2>3, <2>4, <1>20 DEF Ext, Whole
<1>23. Shape(new)
  <2>1. new.size = HeaderSize(new.type)
    BY <1>1, <1>20, SMTT(30) DEF Shape
  <2>2. new.at + new.size <= buffer_len
    BY <1>10, <1>20
  <2>3. new.size <= Off(new) /\ (new.type # "audio" => Off(new) = new.size)
    BY <1>2, <1>20, <1>22
  <2>4. new.start <= new.end /\ new.start <= new.pos /\ new.start <= new.filesize
    BY <1>2, <1>20
  <2>5. Off(new) + new.end - new.start <= buffer_len
    BY <1>1, <1>20, <1>22 DEF Shape
  <2>6. new.ridx = ringbuf_add(new.data, new.pos - new.start)
    BY <1>18, <1>20
  <2>7. new.widx = ringbuf_add(new.data, new.end - new.start)
    BY <1>19, <1>20
  <2>8. /\ new.fd # None => new.fd = new.end
        /\ new.fd = None => new.end >= new.filesize \/ new.end = new.start
        /\ AllocAll(new.type) => new.start = 0
    BY <1>1, <1>20 DEF Shape
  <2>9. ~CanWrap(new.type) => new.at = 0 \/ new.at + Whole(new) <= buffer_len
    <3>1. mv.at + h.size + s = mv.at + Whole(h)
      <4>1. mv.at \in Int
        BY <1>3, <1>10 DEF Addresses
      <4>2. Whole(h) = h.size + s
        BY <1>2, SMTT(30)
      <4>. QED
        BY <4>1, <4>2, <1>2, SMTT(30)
    <3>2. ~CanWrap(h.type) => mv.at + Whole(h) <= buffer_len
      BY <3>1, <1>10
    <3>3. new.at = mv.at /\ new.type = h.type /\ Whole(new) = Whole(h)
      BY <1>20, <1>22
    <3>. QED
      BY <3>2, <3>3
  <2>. QED
    BY <2>1, <2>2, <2>3, <2>4, <2>5, <2>6, <2>7, <2>8, <2>9, <1>20 DEF Shape
<1>24. Laid(hs2, L)
  <2>1. Clears(hs, L, x, new, d)
    <3>1. d + Ext(new) <= g /\ d + Whole(new) <= g /\ Whole(hs[x]) <= buffer_len /\ Whole(new) = Whole(hs[x])
      BY <1>2, <1>3, <1>6, <1>11, <1>12, <1>22
    <3>2. \A b \in L : b # x => g <= Gap(hs[x].at, hs[b].at)
      BY <1>5, <1>6
    <3>3. \A b \in L : Gap(hs[x].at, hs[b].at) \in Int
      BY <1>1, <1>2, GapIs, ShapeSays DEF Laid
    <3>4. d \in Int /\ Ext(new) \in Int /\ Whole(new) \in Int /\ g \in Int
      BY <1>2, <1>11, <1>22
    <3>5. \A b \in L : b # x => /\ d + Ext(new) <= Gap(hs[x].at, hs[b].at)
                                /\ d + Whole(new) <= Gap(hs[x].at, hs[b].at)
      BY <3>1, <3>2, <3>3, <3>4
    <3>. QED
      BY <3>1, <3>5 DEF Clears
  <2>2. d \in Nat /\ new.at = ringbuf_add(hs[x].at, d) /\ new.type = hs[x].type
    BY <1>12, <1>13, <1>20
  <2>3. Goes(hs, L, x, new, d, hs2)
    BY <2>1, <2>2, <1>1, <1>23, SMTT(30) DEF Goes
  <2>. QED
    BY <2>3, MovedLaid
<1>25. Holds(mv.mem, x, new)
  <2>. SUFFICES ASSUME NEW y \in Addresses
                PROVE  /\ Gap(mv.at, y) < h.size => mv.mem[y] = <<x, Header>>
                       /\ Gap(mv.at, y) \in Off(h) .. Ext(h) - 1
                            => mv.mem[y] = <<x, h.start + (Gap(mv.at, y) - Off(h))>>
    <3>1. new.at = mv.at /\ new.size = h.size /\ Off(new) = Off(h) /\ Ext(new) = Ext(h) /\ new.start = h.start
      BY <1>20, <1>22, SMTT(30)
    <3>. QED
      BY <3>1, SMTT(30) DEF Holds
  <2>1. Gap(mv.at, y) \in 0 .. buffer_len - 1
    BY <1>10, GapIs
  <2>2. \/ Gap(mv.at, y) < h.size \/ Gap(mv.at, y) \in Off(h) .. Ext(h) - 1
        => Gap(mv.at, y) < all
    BY <2>1, <1>2, <1>11
  <2>. QED
    BY <2>2, <1>1, <1>14, SMTT(30) DEF Holds
<1>26. ASSUME NEW b \in L, b # x PROVE Holds(mv.mem, b, hs2[b])
  <2>1. d \in Nat /\ all \in Nat /\ d + all <= Gap(hs[x].at, hs[b].at)
    <3>1. g <= Gap(hs[x].at, hs[b].at) /\ Gap(hs[x].at, hs[b].at) \in 1 .. buffer_len - 1
      BY <1>1, <1>5, <1>6, <1>26, RoomAround
    <3>. QED
      BY <3>1, <1>12
  <2>2. \A y \in Addresses : ~(Gap(hs[x].at, y) < d + all) => mv.mem[y] = mem[y]
    BY <1>14
  <2>3. Holds(mv.mem, b, hs[b])
    BY <2>1, <2>2, <1>1, <1>26, MovedOthers
  <2>. QED
    BY <2>3, <1>26
<1>27. Stands(mv.mem, hs2, L)
  BY <1>10, <1>24, <1>25, <1>26 DEF Stands
<1>. QED
  BY <1>21, <1>27, OutdatedStands

(* Shrinking twice is shrinking. *)
LEMMA TrimsAgain ==
    ASSUME NEW h, NEW h2, NEW h3, h \in HandleType, Trims(h, h2), Trims(h2, h3)
    PROVE  Trims(h, h3)
<1>1. h.start \in Nat /\ h2.start \in Nat /\ h3.start \in Nat /\ h3.pos \in Nat
  BY DEF Trims, HandleType
<1>. QED
  BY <1>1 DEF Trims

(* Leaving a handle as it is trims nothing.                                *)
LEMMA TrimsNot ==
    ASSUME NEW h, Shape(h)
    PROVE  Trims(h, h)
<1>1. h \in HandleType /\ h.start <= h.pos
  BY DEF Shape
<1>2. h.start \in Nat
  BY <1>1 DEF HandleType
<1>. QED
  BY <1>1, <1>2 DEF Trims

(* The handles before they are shrunk: none is being moved elsewhere.      *)
Steady ==
    /\ Sorted(handle_list) /\ ToSet(handle_list) \subseteq Ids
    /\ handle \in [Ids -> HandleType]
    /\ Stands(buffer, handle, ToSet(handle_list))
    /\ \A id \in ToSet(handle_list) :
         handle[id].pos <= handle[id].end /\ handle[id].pos <= handle[id].filesize

(* What has become of them when some were shrunk. *)
Shrinks(s) ==
    /\ s.h \in [Ids -> HandleType]
    /\ Stands(s.mem, s.h, ToSet(handle_list))
    /\ \A id \in ToSet(handle_list) : Trims(handle[id], s.h[id])
    /\ \A id \in Ids : id \notin ToSet(handle_list) => s.h[id] = handle[id]

(* Memory that is left as it is was shrunk by nothing.                     *)
LEMMA NoneShrunk ==
    ASSUME Steady
    PROVE  Shrinks(Memory)
<1>1. Memory.mem = buffer /\ Memory.h = handle
  BY DEF Memory
<1>2. \A id \in ToSet(handle_list) : Trims(handle[id], handle[id])
  BY TrimsNot DEF Steady, Stands, Laid
<1>. QED
  BY <1>1, <1>2 DEF Steady, Shrinks

(* One more is shrunk. *)
LEMMA ShrinkOne ==
    ASSUME Steady, NEW s, Shrinks(s), NEW id, Linked(id)
    PROVE  Shrinks(shrink_handle(s, id))
<1>. DEFINE L == ToSet(handle_list)
            h == s.h[id]
            new(mv) == Moved(h, mv)
            after(mv) == [mem |-> Outdated(mv.mem, id, new(mv)), h |-> [s.h EXCEPT ![id] = new(mv)]]
            room == ringbuf_sub_empty(s.h[NextId(id)].at, h.data) - (h.filesize - h.start)
            trimmed == move_handle(s.mem, h, ringbuf_sub_empty(h.ridx, h.data), 0)
            kept == move_handle(s.mem, h, room % Word, h.filesize - h.start)
<1>1. /\ h.type = "audio" => shrink_handle(s, id) = IF trimmed.moved THEN after(trimmed) ELSE s
      /\ h.type # "audio" => shrink_handle(s, id) = IF Stays(h, id) \/ ~kept.moved THEN s ELSE after(kept)
  BY DEF shrink_handle, Stays
<1>2. id \in L /\ L \subseteq Int /\ Sorted(handle_list) /\ id \in Ids
  BY SortedIs DEF Linked, Steady
<1>3. Stands(s.mem, s.h, L) /\ Laid(s.h, L) /\ s.h \in [Ids -> HandleType] /\ Trims(handle[id], h)
  BY <1>2 DEF Shrinks, Stands
<1>4. h.pos <= h.end /\ h.pos <= h.filesize /\ handle[id] \in HandleType
  BY <1>2, <1>3 DEF Steady, Trims
<1>. HIDE DEF trimmed, kept, new, h
<1>5. ASSUME NEW mv, Stands(Outdated(mv.mem, id, new(mv)), after(mv).h, L), Trims(h, new(mv))
      PROVE  Shrinks(after(mv))
  <2>1. after(mv).mem = Outdated(mv.mem, id, new(mv)) /\ after(mv).h = [s.h EXCEPT ![id] = new(mv)]
    OBVIOUS
  <2>2. new(mv) \in HandleType
    BY <1>5 DEF Trims
  <2>3. after(mv).h \in [Ids -> HandleType]
    BY <2>1, <2>2, <1>3
  <2>4. Trims(handle[id], new(mv))
    BY <1>3, <1>4, <1>5, TrimsAgain
  <2>5. after(mv).h[id] = new(mv) /\ \A b \in Ids : b # id => after(mv).h[b] = s.h[b]
    BY <2>1, <1>2, <1>3
  <2>. HIDE DEF after
  <2>6. \A b \in L : Trims(handle[b], after(mv).h[b])
    BY <2>4, <2>5, <1>2 DEF Shrinks, Steady
  <2>7. \A b \in Ids : b \notin L => after(mv).h[b] = handle[b]
    BY <2>5, <1>2 DEF Shrinks
  <2>. QED
    BY <2>1, <2>3, <2>6, <2>7, <1>5 DEF Shrinks
<1>6. ASSUME NEW mv
      PROVE  /\ after(mv).h[id] = new(mv) /\ \A b \in L : b # id => after(mv).h[b] = s.h[b]
  BY <1>2, <1>3 DEF Steady
<1>. HIDE DEF after
<1>7. CASE h.type = "audio" /\ trimmed.moved
  <2>1. Stands(Outdated(trimmed.mem, id, new(trimmed)), after(trimmed).h, L) /\ Trims(h, new(trimmed))
    BY <1>2, <1>3, <1>4, <1>6, <1>7, TrimmedStands DEF trimmed, new, h
  <2>. QED
    BY <2>1, <1>1, <1>5, <1>7
<1>8. CASE h.type # "audio" /\ kept.moved /\ ~Stays(h, id)
  <2>1. ~h.pinned /\ HasNext(id)
    BY <1>8 DEF Stays
  <2>2. PICK n \in L : n = NextId(id) /\ id < n /\ \A b \in L : id < b => n <= b
    BY <2>1, <1>2, NextIs
  <2>3. /\ room % Word = room /\ room \in Nat /\ room + Whole(h) = Gap(h.at, s.h[n].at)
        /\ Gap(h.at, s.h[n].at) \in 1 .. buffer_len - 1
    BY <2>2, <1>2, <1>3, <1>8, KeptRoom DEF h
  <2>. HIDE DEF room
  <2>4. PICK w \in Nat : w = room
    BY <2>3
  <2>5. PICK d \in Nat : d = h.filesize - h.start
    BY <1>2, <1>3, ShapeSays DEF Laid, h
  <2>6. kept = move_handle(s.mem, h, w, d)
    BY <2>3, <2>4, <2>5 DEF kept
  <2>7. Stands(Outdated(kept.mem, id, new(kept)), after(kept).h, L) /\ Trims(h, new(kept))
    <3>1. w + Whole(h) = Gap(h.at, s.h[n].at) /\ Gap(h.at, s.h[n].at) \in 1 .. buffer_len - 1
      BY <2>3, <2>4
    <3>. QED
      BY <3>1, <2>1, <2>2, <2>5, <2>6, <1>2, <1>3, <1>4, <1>6, <1>8, KeptStands DEF new, h
  <2>. QED
    BY <2>7, <1>1, <1>5, <1>8
<1>. QED
  BY <1>1, <1>7, <1>8, SMTT(30)

-----------------------------------------------------------------------------
(* Shrinking them all *)

(* Induction over the naturals for a set of them. *)
LEMMA FromZeroOn ==
    ASSUME NEW S, 0 \in S, \A n \in Nat : n \in S => n + 1 \in S
    PROVE  Nat \subseteq S
<1> SUFFICES ASSUME Nat \ S # {}
             PROVE  FALSE
  OBVIOUS
<1>1. PICK x \in Nat \ S : \A y \in Nat \ S : ~(<<y, x>> \in OpToRel(<, Nat))
  <2>1. Nat \ S \subseteq Nat
    OBVIOUS
  <2> QED
    BY <2>1, NatLessThanWellFounded, WFMin, Zenon
<1>2. x # 0 /\ x - 1 \in Nat /\ (x - 1) + 1 = x
  OBVIOUS
<1>3. x - 1 \notin S
  BY <1>2
<1>4. <<x - 1, x>> \in OpToRel(<, Nat)
  BY <1>2 DEF OpToRel
<1> QED
  BY <1>1, <1>2, <1>3, <1>4, Zenon

ShrinkBody(g, m) ==
    [k \in 0 .. m |-> IF k = 0 THEN Memory
                      ELSE shrink_handle(g[k - 1], handle_list[Len(handle_list) + 1 - k])]

(* shrink_buffer does something on each handle.                            *)
LEMMA ShrinkSteps ==
    ASSUME NEW m \in Nat
    PROVE  \E g : g = ShrinkBody(g, m)
<1>. DEFINE Step(r, k) == shrink_handle(r, handle_list[Len(handle_list) + 1 - k])
            S == {n \in Nat : \E g : g = [k \in 0 .. n |-> IF k = 0 THEN Memory ELSE Step(g[k - 1], k)]}
<1>1. 0 \in S
  <2>. DEFINE g == [k \in 0 .. 0 |-> Memory]
  <2>1. g = [k \in 0 .. 0 |-> IF k = 0 THEN Memory ELSE Step(g[k - 1], k)]
    <3>. HIDE DEF Step
    <3>1. \A k \in 0 .. 0 : k = 0
      OBVIOUS
    <3>. QED
      BY <3>1
  <2>. HIDE DEF Step, g
  <2>. QED
    BY <2>1
<1>2. ASSUME NEW n \in Nat, n \in S
      PROVE  n + 1 \in S
  <2>. HIDE DEF Step
  <2>1. PICK g : g = [k \in 0 .. n |-> IF k = 0 THEN Memory ELSE Step(g[k - 1], k)]
    BY <1>2
  <2>. DEFINE f == [k \in 0 .. n + 1 |-> IF k <= n THEN g[k] ELSE Step(g[n], n + 1)]
  <2>2. ASSUME NEW k \in 0 .. n + 1
        PROVE  f[k] = IF k = 0 THEN Memory ELSE Step(f[k - 1], k)
    <3>1. CASE k = 0
      BY <2>1, <3>1
    <3>2. CASE k # 0 /\ k <= n
      <4>1. k \in 0 .. n /\ k - 1 \in 0 .. n /\ k - 1 \in 0 .. n + 1 /\ k - 1 <= n
        BY <3>2
      <4>2. f[k] = g[k] /\ f[k - 1] = g[k - 1]
        BY <3>2, <4>1
      <4>3. g[k] = Step(g[k - 1], k)
        BY <2>1, <3>2, <4>1
      <4>. QED
        BY <3>2, <4>2, <4>3
    <3>3. CASE k = n + 1
      <4>1. k - 1 = n /\ n \in 0 .. n + 1 /\ ~(k <= n) /\ k # 0
        BY <3>3
      <4>2. f[k] = Step(g[n], k) /\ f[k - 1] = g[n]
        BY <3>3, <4>1
      <4>. QED
        BY <4>1, <4>2
    <3>. QED
      BY <3>1, <3>2, <3>3
  <2>3. f = [k \in 0 .. n + 1 |-> IF k = 0 THEN Memory ELSE Step(f[k - 1], k)]
    BY <2>2
  <2>. HIDE DEF f
  <2>. QED
    BY <2>3
<1>3. m \in S
  <2>. HIDE DEF S
  <2>. QED
    BY <1>1, <1>2, FromZeroOn
<1>. QED
  BY <1>3 DEF ShrinkBody

(* From the last handle to the first. *)
LEMMA ShrinkAll ==
    ASSUME Steady
    PROVE  Shrinks(shrink_buffer)
<1>. DEFINE n == Len(handle_list)
            g == CHOOSE f : f = ShrinkBody(f, n)
<1>1. n \in Nat /\ \A i \in 1 .. n : handle_list[i] \in ToSet(handle_list)
  BY SortedIs DEF Steady
<1>2. g = ShrinkBody(g, n)
  BY <1>1, ShrinkSteps
<1>3. shrink_buffer = g[n]
  BY DEF shrink_buffer, ShrinkBody
<1>. HIDE DEF g, n
<1>4. \A k \in 0 .. n : g[k] = IF k = 0 THEN Memory ELSE shrink_handle(g[k - 1], handle_list[n + 1 - k])
  BY <1>1, <1>2 DEF ShrinkBody, n
<1>. DEFINE S == {k \in Nat : k <= n => Shrinks(g[k])}
<1>5. 0 \in S
  BY <1>1, <1>4, NoneShrunk
<1>6. ASSUME NEW k \in Nat, k \in S
      PROVE  k + 1 \in S
  <2>. SUFFICES ASSUME k + 1 <= n
                PROVE  Shrinks(g[k + 1])
    OBVIOUS
  <2>1. Shrinks(g[k]) /\ k + 1 \in 0 .. n /\ (k + 1) - 1 = k /\ k + 1 # 0 /\ n + 1 - (k + 1) \in 1 .. n
    BY <1>1, <1>6
  <2>2. g[k + 1] = shrink_handle(g[k], handle_list[n + 1 - (k + 1)])
    BY <2>1, <1>4
  <2>3. Linked(handle_list[n + 1 - (k + 1)])
    BY <2>1, <1>1 DEF Linked
  <2>. QED
    BY <2>1, <2>2, <2>3, ShrinkOne
<1>7. n \in S
  <2>. HIDE DEF S
  <2>. QED
    BY <1>1, <1>5, <1>6, FromZeroOn
<1>. QED
  BY <1>1, <1>3, <1>7

(* What is assumed of every session. *)
LEMMA SessionSays ==
    ASSUME NEW s \in Sessions
    PROVE  /\ s.seeks \in Nat /\ Len(s.files) \in Nat /\ DOMAIN s.files = 1 .. Len(s.files)
           /\ \A i \in 1 .. Len(s.files) :
                /\ i \in Ids /\ s.files[i] \in FileType /\ s.files[i].offset <= s.files[i].size
                /\ AllocAll(s.files[i].type) => s.files[i].offset = 0
<1>1. s.files \in Seq(FileType) /\ s.seeks \in Nat
  BY BufferingAssumption DEF FileType
<1>2. Len(s.files) \in Nat /\ DOMAIN s.files = 1 .. Len(s.files)
      /\ \A i \in 1 .. Len(s.files) : s.files[i] \in FileType
  BY <1>1
<1>3. \A i \in DOMAIN s.files : /\ s.files[i].offset <= s.files[i].size
                                /\ AllocAll(s.files[i].type) => s.files[i].offset = 0
  BY BufferingAssumption
<1>4. DOMAIN s.files \subseteq Ids
  BY DEF Ids
<1>. QED
  BY <1>1, <1>2, <1>3, <1>4

(* Handle ids are positive numbers.                                        *)
LEMMA IdsAre == Ids \subseteq Nat \ {0}
<1>. SUFFICES ASSUME NEW s \in Sessions
              PROVE  DOMAIN s.files \subseteq Nat \ {0}
  BY DEF Ids
<1>1. DOMAIN s.files = 1 .. Len(s.files) /\ Len(s.files) \in Nat
  BY SessionSays
<1>. QED
  BY <1>1

(* What the handles in the ring have in common. *)
LEMMA ThereIs ==
    ASSUME TypePart, ListPart, StandPart
    PROVE  /\ There \subseteq Ids /\ There \subseteq Nat \ {0} /\ There \subseteq Int
           /\ ToSet(handle_list) \subseteq There
           /\ \A id \in There : /\ id < nextId /\ id \in 1 .. Len(session.files)
                                /\ Shape(handle[id]) /\ handle[id] \in HandleType
                                /\ handle[id].type = session.files[id].type
           /\ Laid(handle, There)
           /\ audio.pc # "loading" => There = ToSet(handle_list)
           /\ \A id : Linked(id) <=> id \in ToSet(handle_list)
<1>1. ToSet(handle_list) \subseteq Nat /\ nextId \in 1 .. Len(session.files) + 1
      /\ Len(session.files) \in Nat /\ audio.id \in Nat /\ session \in Sessions
  BY SortedIs, SessionSays DEF TypePart, ListPart, AudioType
<1>2. ASSUME NEW id \in There
      PROVE  /\ id \in Nat /\ id # 0 /\ id < nextId /\ id \in 1 .. Len(session.files)
             /\ handle[id].type = session.files[id].type
  <2>1. /\ id \in Nat /\ id # 0 /\ id < nextId
        /\ handle[id].type = session.files[id].type
    <3>1. CASE id \in ToSet(handle_list)
      BY <3>1, <1>1 DEF ListPart
    <3>2. CASE audio.pc = "loading" /\ id = audio.id
      BY <3>2, <1>1 DEF ListPart
    <3>. QED
      BY <3>1, <3>2 DEF There
  <2>2. id \in 1 .. Len(session.files)
    BY <2>1, <1>1
  <2>. QED
    BY <2>1, <2>2
<1>3. There \subseteq Ids
  BY <1>1, <1>2, SessionSays
<1>4. Laid(handle, There) /\ \A id \in There : Shape(handle[id]) /\ handle[id] \in HandleType
  BY DEF StandPart, Stands, Laid, Shape
<1>5. There \subseteq Nat \ {0} /\ There \subseteq Int
  BY <1>2
<1>6. ToSet(handle_list) \subseteq There /\ (audio.pc # "loading" => There = ToSet(handle_list))
  BY DEF There
<1>. QED
  BY <1>2, <1>3, <1>4, <1>5, <1>6 DEF Linked

(* The invariant holds at first. *)
LEMMA InitInv ==
    ASSUME Init
    PROVE  BufferingInv
<1>1. session \in Sessions /\ Len(session.files) \in Nat
  BY SessionSays DEF Init
<1>2. buffer_len \in Nat \ {0} /\ 0 \in Addresses
  BY RingAssumption DEF Addresses
<1>3. NoHandle \in HandleType
  BY <1>2 DEF NoHandle, HandleType, Types
<1>4. TypePart
  <2>1. handle \in [Ids -> HandleType]
    BY <1>3 DEF Init
  <2>2. bt \in BtType /\ audio \in AudioType /\ codec \in CodecType
    BY DEF Init, BtType, AudioType, CodecType, AtQueue, AudioIdle, CodecIdle
  <2>3. asked \in Seq({"low", "rebuffer"}) /\ queue \in Seq(MessageType)
    BY DEF Init
  <2>4. filling \in BOOLEAN
    BY DEF Init
  <2>5. nextId \in 1 .. Len(session.files) + 1 /\ base_handle_id \in 0 .. Len(session.files)
    BY <1>1 DEF Init
  <2>. QED
    BY <1>1, <2>1, <2>2, <2>3, <2>4, <2>5 DEF TypePart
<1>5. ToSet(handle_list) = {} /\ There = {} /\ audio.pc = "idle" /\ Sorted(handle_list)
  BY DEF Init, AudioIdle, ToSet, There, Sorted
<1>6. ListPart
  BY <1>5 DEF ListPart
<1>7. StandPart
  BY <1>5 DEF StandPart, Stands, Laid, Apart, InOrder, RoomForAll, Init, Addresses
<1>8. CursorPart
  BY <1>5 DEF CursorPart
<1>9. BtPart
  BY DEF BtPart, Init, AtQueue, Trying
<1>10. AudioPart /\ CodecPart
  BY DEF AudioPart, CodecPart, Init, AudioIdle, CodecIdle
<1>11. QueuePart
  BY DEF QueuePart, Single, Init
<1>. QED
  BY <1>4, <1>6, <1>7, <1>8, <1>9, <1>10, <1>11 DEF BufferingInv

-----------------------------------------------------------------------------
(* What follows from the invariant *)

(* The invariant gives the types,                                          *)
LEMMA InvTypeOK ==
    ASSUME BufferingInv
    PROVE  TypeOK
<1>. USE DEF BufferingInv
<1>1. /\ ToSet(handle_list) \subseteq Ids /\ ToSet(handle_list) \subseteq There
      /\ \A id \in There : Shape(handle[id]) /\ handle[id] \in HandleType
      /\ \A id : Linked(id) <=> id \in ToSet(handle_list)
      /\ session \in Sessions
  BY ThereIs DEF TypePart
<1>2. IsInjective(handle_list)
  BY SortedIs DEF ListPart, IsInjective
<1>3. ASSUME NEW id \in ToSet(handle_list)
      PROVE  /\ handle[id].at + handle[id].size <= buffer_len
             /\ handle[id].pos <= handle[id].end => handle[id].ridx \in Addresses
  <2>1. PICK h : h = handle[id]
    OBVIOUS
  <2>2. Shape(h)
    BY <2>1, <1>1, <1>3
  <2>3. /\ h.at + h.size <= buffer_len /\ h.data \in Addresses /\ Off(h) \in 1 .. buffer_len - 1
        /\ h.start \in Nat /\ h.pos \in Nat /\ h.end \in Nat /\ h.start <= h.pos
        /\ Off(h) + (h.end - h.start) <= buffer_len
    BY <2>2, ShapeSays
  <2>4. ASSUME h.pos <= h.end
        PROVE  h.ridx \in Addresses
    <3>1. PICK n \in 0 .. buffer_len : n = h.pos - h.start
      BY <2>3, <2>4, RingAssumption
    <3>2. h.ridx = ringbuf_add(h.data, n)
      BY <3>1, <2>2 DEF Shape
    <3>. QED
      BY <3>2, <2>3, Further
  <2>. QED
    BY <2>1, <2>3, <2>4
<1>4. codec.id \in 0 .. Len(session.files)
  <2>1. CASE codec.id = 0
    BY <2>1, <1>1, SessionSays
  <2>2. CASE codec.id # 0
    BY <2>2, ThereIs DEF CodecPart
  <2>. QED
    BY <2>1, <2>2
<1>5. /\ \A id \in Ids : handle[id] \in HandleType
      /\ nextId \in 1 .. Len(session.files) + 1 /\ base_handle_id \in 0 .. Len(session.files)
      /\ audio.close \subseteq Ids /\ filling \in BOOLEAN
  BY DEF TypePart, AudioType
<1>6. ToSet(asked) \subseteq {"low", "rebuffer"}
  BY DEF TypePart, ToSet
<1>. QED
  BY <1>1, <1>2, <1>3, <1>4, <1>5, <1>6 DEF TypeOK

(* ... that the cursors agree,                                             *)
LEMMA InvCursorsAgree ==
    ASSUME BufferingInv
    PROVE  CursorsAgree
<1>1. \A id \in ToSet(handle_list) : Shape(handle[id])
  BY ThereIs DEF BufferingInv
<1>. QED
  BY <1>1 DEF CursorsAgree, Shape

(* By distance from the header, or from the data. *)
LEMMA HoldsData ==
    ASSUME NEW mem, NEW id, NEW h, Shape(h), Holds(mem, id, h), NEW k \in Nat, k < Held(h)
    PROVE  mem[ringbuf_add(h.data, k)] = <<id, h.start + k>>
<1>1. /\ h.at \in Addresses /\ Off(h) \in 1 .. buffer_len - 1 /\ h.data = ringbuf_add(h.at, Off(h))
      /\ Held(h) \in Nat /\ Ext(h) = Off(h) + Held(h) /\ Ext(h) <= buffer_len /\ h.start \in Nat
  BY ShapeSays
<1>2. buffer_len \in Nat \ {0}
  BY RingAssumption
<1>3. PICK o \in Nat : o = Off(h)
  BY <1>1
<1>4. PICK n \in 0 .. buffer_len : n = o + k /\ n # buffer_len /\ n \in Off(h) .. Ext(h) - 1
  BY <1>1, <1>2, <1>3
<1>5. ringbuf_add(h.data, k) = ringbuf_add(h.at, n)
  <2>1. o + k <= buffer_len
    BY <1>2, <1>4
  <2>2. ringbuf_add(ringbuf_add(h.at, o), k) = ringbuf_add(h.at, o + k)
    BY <2>1, <1>1, RingTwice
  <2>. QED
    BY <2>2, <1>1, <1>3, <1>4
<1>6. ringbuf_add(h.at, n) \in Addresses /\ Gap(h.at, ringbuf_add(h.at, n)) = n
  BY <1>1, <1>4, Further
<1>7. PICK x \in Addresses : x = ringbuf_add(h.at, n) /\ Gap(h.at, x) = n
  BY <1>6
<1>8. mem[x] = <<id, h.start + (n - Off(h))>>
  BY <1>4, <1>7 DEF Holds
<1>9. h.start + (n - Off(h)) = h.start + k
  BY <1>1, <1>3, <1>4
<1>. QED
  BY <1>5, <1>7, <1>8, <1>9

(* ... that headers and data are whole,                                    *)
LEMMA InvHandlesIntact ==
    ASSUME BufferingInv
    PROVE  HandlesIntact
<1>. SUFFICES ASSUME NEW id \in ToSet(handle_list)
              PROVE  /\ \A i \in handle[id].at .. handle[id].at + handle[id].size - 1 :
                          buffer[i] = <<id, Header>>
                     /\ \A k \in 0 .. Least(handle[id].end, handle[id].filesize) - handle[id].start - 1 :
                          buffer[ringbuf_add(handle[id].data, k)] = <<id, handle[id].start + k>>
  BY DEF HandlesIntact
<1>1. PICK h : h = handle[id]
  OBVIOUS
<1>2. Shape(h) /\ Holds(buffer, id, h)
  BY <1>1, ThereIs DEF BufferingInv, StandPart, Stands
<1>3. h.at \in Addresses /\ h.size \in Nat /\ h.at + h.size <= buffer_len /\ Held(h) \in Nat
  BY <1>2, ShapeSays
<1>4. ASSUME NEW i \in h.at .. h.at + h.size - 1
      PROVE  buffer[i] = <<id, Header>>
  <2>1. buffer_len \in Nat /\ h.at \in 0 .. buffer_len - 1
    BY <1>3, RingAssumption DEF Addresses
  <2>2. i \in Addresses /\ Gap(h.at, i) < h.size
    BY <2>1, <1>3 DEF Gap, Addresses
  <2>. QED
    BY <2>2, <1>2 DEF Holds
<1>5. ASSUME NEW k \in 0 .. Held(h) - 1
      PROVE  buffer[ringbuf_add(h.data, k)] = <<id, h.start + k>>
  <2>1. k \in Nat /\ k < Held(h)
    BY <1>3
  <2>. QED
    BY <2>1, <1>2, HoldsData
<1>. QED
  BY <1>1, <1>4, <1>5 DEF Held

(* ... and that the codec's data stays where it was given.                 *)
LEMMA InvHeldDataStays ==
    ASSUME BufferingInv
    PROVE  HeldDataStays
<1>. SUFFICES ASSUME NEW k \in 0 .. codec.held - 1, codec.ridx + k < buffer_len
              PROVE  buffer[codec.ridx + k] = <<codec.id, codec.pos + k>>
  BY DEF HeldDataStays
<1>1. codec.held \in Nat /\ codec.held # 0 /\ k \in Nat /\ k < codec.held
  BY SMTT(30) DEF BufferingInv, TypePart, CodecType
<1>2. PICK h : h = C
  OBVIOUS
<1>3. /\ codec.id # 0 /\ codec.pos = h.pos /\ codec.ridx = h.ridx
      /\ h.pos + codec.held <= h.end /\ h.pos + codec.held <= h.filesize
      /\ Linked(codec.id)
  BY <1>1, <1>2 DEF BufferingInv, CodecPart
<1>4. Shape(h) /\ Holds(buffer, codec.id, h)
  BY <1>2, <1>3, ThereIs DEF BufferingInv, StandPart, Stands, C
<1>5. /\ h.data \in Addresses /\ Off(h) \in 1 .. buffer_len - 1 /\ h.start \in Nat /\ h.pos \in Nat
      /\ h.end \in Nat /\ h.filesize \in Nat /\ h.start <= h.pos
      /\ Held(h) = (IF h.end < h.filesize THEN h.end - h.start ELSE h.filesize - h.start)
      /\ Off(h) + (h.end - h.start) <= buffer_len
  BY <1>4, ShapeSays
<1>6. buffer_len \in Nat \ {0}
  BY RingAssumption
<1>7. PICK n \in Nat : n = h.pos - h.start
  BY <1>5
<1>8. n + k \in Nat /\ n + k < Held(h) /\ n + k <= buffer_len /\ n < buffer_len
  BY <1>1, <1>3, <1>5, <1>6, <1>7
<1>9. h.ridx = ringbuf_add(h.data, n)
  BY <1>4, <1>7 DEF Shape
<1>10. h.ridx \in Addresses /\ ringbuf_add(h.ridx, k) = ringbuf_add(h.data, n + k)
  BY <1>1, <1>5, <1>8, <1>9, RingTwice
<1>11. ringbuf_add(h.ridx, k) = h.ridx + k
  <2>1. k \in 0 .. buffer_len /\ h.ridx \in Nat /\ ~(h.ridx + k >= buffer_len)
    BY <1>1, <1>3, <1>6, <1>8, <1>10 DEF Addresses
  <2>. QED
    BY <2>1, <1>10, Further
<1>12. buffer[ringbuf_add(h.data, n + k)] = <<codec.id, h.start + (n + k)>>
  BY <1>4, <1>8, HoldsData
<1>13. h.start + (n + k) = h.pos + k
  BY <1>1, <1>5, <1>7
<1>. QED
  BY <1>3, <1>10, <1>11, <1>12, <1>13

-----------------------------------------------------------------------------
(* What the steps change *)

BtPcs == {"wait", "enter", "open", "metadata", "chunk", "read", "yield", "return",
          "fill", "tail", "count", "reset"}

(* The buffering thread goes on; its other locals stay. *)
LEMMA BtGoes ==
    ASSUME NEW b \in BtType, NEW pc \in BtPcs, NEW b2, b2 = [b EXCEPT !.pc = pc]
    PROVE  /\ b2 \in BtType /\ b2.pc = pc /\ b2.id = b.id /\ b2.then = b.then /\ b2.copy_n = b.copy_n
           /\ b2.newpos = b.newpos
BY DEF BtType, BtPcs

(* The buffering thread's locals when buffer_handle returns,               *)
LEMMA BtReturns ==
    ASSUME NEW b \in BtType, NEW stop \in BOOLEAN, NEW b2, b2 = [b EXCEPT !.pc = "return", !.stop = stop]
    PROVE  /\ b2 \in BtType /\ b2.pc = "return" /\ b2.id = b.id /\ b2.then = b.then
           /\ b2.newpos = b.newpos
BY DEF BtType

(* ... when a wait ends,                                                   *)
LEMMA BtTimed ==
    ASSUME NEW b \in BtType, NEW pc \in BtPcs, NEW timeout \in BOOLEAN,
           NEW b2, b2 = [b EXCEPT !.pc = pc, !.timeout = timeout]
    PROVE  b2 \in BtType /\ b2.pc = pc /\ b2.id = b.id /\ b2.then = b.then
BY DEF BtType, BtPcs

(* ... when it turns to a handle,                                          *)
LEMMA BtTurns ==
    ASSUME NEW b \in BtType, NEW pc \in BtPcs, NEW id \in Nat, NEW b2, b2 = [b EXCEPT !.pc = pc, !.id = id]
    PROVE  b2 \in BtType /\ b2.pc = pc /\ b2.id = id /\ b2.then = b.then
BY DEF BtType, BtPcs

BtEntering(b, id, n, then) ==
    [b EXCEPT !.pc = "enter", !.id = id, !.to_buffer = n, !.then = then]

(* ... when it calls buffer_handle,                                        *)
LEMMA BtEnters ==
    ASSUME NEW b \in BtType, NEW id \in Nat, NEW n \in Int, NEW then \in {"tail", "start", "try", "fill"}
    PROVE  LET b2 == BtEntering(b, id, n, then)
           IN  b2 \in BtType /\ b2.pc = "enter" /\ b2.id = id /\ b2.then = then
BY DEF BtType, BtEntering

BtTrying(b, id, n, newpos) ==
    [b EXCEPT !.pc = "enter", !.id = id, !.then = "try", !.to_buffer = n, !.newpos = newpos]

(* ... for a short seek,                                                   *)
LEMMA BtTries ==
    ASSUME NEW b \in BtType, NEW id \in Nat, NEW n \in Int, NEW newpos \in Nat
    PROVE  LET b2 == BtTrying(b, id, n, newpos)
           IN  b2 \in BtType /\ b2.pc = "enter" /\ b2.id = id /\ b2.then = "try" /\ b2.newpos = newpos
BY DEF BtType, BtTrying

BtResetting(b, id, newpos) == [b EXCEPT !.pc = "reset", !.id = id, !.newpos = newpos]

(* ... when a seek resets a handle,                                        *)
LEMMA BtResets ==
    ASSUME NEW b \in BtType, NEW id \in Nat, NEW newpos \in Nat
    PROVE  LET b2 == BtResetting(b, id, newpos)
           IN  b2 \in BtType /\ b2.pc = "reset" /\ b2.id = id /\ b2.then = b.then /\ b2.newpos = newpos
BY DEF BtType, BtResetting

BtRetrying(b, newpos) == [b EXCEPT !.pc = "reset", !.newpos = newpos]

(* ... when a short seek did not reach,                                    *)
LEMMA BtRetries ==
    ASSUME NEW b \in BtType, NEW newpos \in Nat
    PROVE  LET b2 == BtRetrying(b, newpos)
           IN  /\ b2 \in BtType /\ b2.pc = "reset" /\ b2.id = b.id /\ b2.then = b.then
               /\ b2.newpos = newpos
BY DEF BtType, BtRetrying

BtReading(b, n, stop) == [b EXCEPT !.pc = "read", !.copy_n = n, !.stop = stop]

(* ... when a read starts,                                                 *)
LEMMA BtReads ==
    ASSUME NEW b \in BtType, NEW n \in Nat, NEW stop \in BOOLEAN
    PROVE  LET b2 == BtReading(b, n, stop)
           IN  /\ b2 \in BtType /\ b2.pc = "read" /\ b2.id = b.id /\ b2.then = b.then
               /\ b2.newpos = b.newpos /\ b2.copy_n = n
BY DEF BtType, BtReading

BtReadingOn(b, n) == [b EXCEPT !.pc = "chunk", !.copy_n = 0, !.to_buffer = n]

(* ... and goes on.                                                        *)
LEMMA BtReadsOn ==
    ASSUME NEW b \in BtType, NEW n \in Int
    PROVE  LET b2 == BtReadingOn(b, n)
           IN  /\ b2 \in BtType /\ b2.pc = "chunk" /\ b2.id = b.id /\ b2.then = b.then
               /\ b2.newpos = b.newpos
BY DEF BtType, BtReadingOn

(* At its queue the buffering thread is about no handle.                   *)
LEMMA AtQueueIs == AtQueue \in BtType /\ AtQueue.pc = "wait" /\ AtQueue.then = "tail" /\ AtQueue.id = 0
BY DEF BtType, AtQueue

(* Only the buffering thread goes on, and a seek stays under way or not.   *)
LEMMA OnlyBt ==
    ASSUME BufferingInv,
           UNCHANGED <<buffer, handle, handle_list, nextId, queue, audio, codec, base_handle_id, session>>,
           bt' \in BtType, asked' \in Seq({"low", "rebuffer"}), filling' \in BOOLEAN,
           BtPart', Trying' = Trying, Trying => bt'.id = bt.id
    PROVE  BufferingInv'
<1>1. There' = There
  BY DEF There
<1>2. TypePart'
  BY DEF BufferingInv, TypePart
<1>3. ListPart'
  BY DEF BufferingInv, ListPart
<1>4. StandPart'
  BY <1>1 DEF BufferingInv, StandPart
<1>5. CursorPart'
  BY <1>1 DEF BufferingInv, CursorPart
<1>6. AudioPart'
  BY DEF BufferingInv, AudioPart
<1>7. CodecPart'
  BY DEF BufferingInv, CodecPart, C, Linked
<1>8. QueuePart'
  BY DEF BufferingInv, QueuePart, MessageOK, RebufferOK, C
<1>. QED
  BY <1>2, <1>3, <1>4, <1>5, <1>6, <1>7, <1>8 DEF BufferingInv

(* buffer_handle is entered.                                               *)
LEMMA EnterInv ==
    ASSUME BufferingInv, Enter
    PROVE  BufferingInv'
<1>1. /\ UNCHANGED <<buffer, handle, handle_list, nextId, queue, audio, codec, base_handle_id, session>>
      /\ asked' = asked /\ filling' = filling
  BY DEF Enter, Outside, settings
<1>2. bt \in BtType /\ asked \in Seq({"low", "rebuffer"}) /\ filling \in BOOLEAN
  BY DEF BufferingInv, TypePart
<1>3. bt.pc = "enter"
  BY DEF Enter
<1>4. CASE ~Linked(bt.id) \/ H.end >= H.filesize
  <2>1. bt' = [bt EXCEPT !.pc = "return", !.stop = ~TRUE]
    BY <1>4 DEF Enter, Return
  <2>2. bt' \in BtType /\ bt'.pc = "return" /\ bt'.id = bt.id /\ bt'.then = bt.then /\ bt'.newpos = bt.newpos
    BY <2>1, <1>2, BtReturns, Zenon
  <2>3. Trying' = Trying
    BY <2>2, <1>3 DEF Trying
  <2>4. BtPart'
    BY <1>1, <1>3, <2>2, <2>3 DEF BufferingInv, BtPart, H, Linked
  <2>. QED
    BY <1>1, <1>2, <2>2, <2>3, <2>4, OnlyBt
<1>5. CASE ~(~Linked(bt.id) \/ H.end >= H.filesize)
  <2>1. bt' = [bt EXCEPT !.pc = IF H.fd = None THEN "open" ELSE "chunk"]
    BY <1>5 DEF Enter, Go
  <2>2. PICK pc \in {"open", "chunk"} : pc = IF H.fd = None THEN "open" ELSE "chunk"
    OBVIOUS
  <2>3. bt' \in BtType /\ bt'.pc = pc /\ bt'.id = bt.id /\ bt'.then = bt.then /\ bt'.newpos = bt.newpos
    BY <2>1, <2>2, <1>2, BtGoes DEF BtPcs
  <2>4. Trying' = Trying
    BY <2>2, <2>3, <1>3 DEF Trying
  <2>5. H.fd = None => H.end = H.start
    <3>1. Shape(H)
      BY <1>5, ThereIs DEF BufferingInv, H, Linked
    <3>. QED
      BY <3>1, <1>5 DEF Shape
  <2>6. BtPart'
    BY <1>1, <1>3, <1>5, <2>2, <2>3, <2>4, <2>5 DEF BufferingInv, BtPart, H, Linked
  <2>. QED
    BY <1>1, <1>2, <2>3, <2>4, <2>6, OnlyBt
<1>. QED
  BY <1>4, <1>5

-----------------------------------------------------------------------------
(* How much is read: what fits before the next handle.                     *)
LEMMA ReadsShort ==
    ASSUME NEW at \in Addresses, NEW lim \in Addresses, NEW between \in 1 .. buffer_len,
           between = IF lim = at THEN buffer_len ELSE Gap(at, lim),
           NEW e \in 1 .. between, NEW w \in Addresses, w = ringbuf_add(at, e),
           NEW c \in Int, NEW n \in Int,
           n = IF ringbuf_add_cross_full(w, c, lim) > 0 THEN c - ringbuf_add_cross_full(w, c, lim) ELSE c
    PROVE  n <= c /\ e + n <= between
<1>1. buffer_len \in Nat \ {0} /\ at \in 0 .. buffer_len - 1 /\ lim \in 0 .. buffer_len - 1
      /\ w \in 0 .. buffer_len - 1
  BY RingAssumption DEF Addresses
<1>2. w = IF at + e >= buffer_len THEN at + e - buffer_len ELSE at + e
  <2>1. e \in 0 .. buffer_len
    BY <1>1
  <2>. QED
    BY <2>1, Further, ZenonT(30)
<1>3. between = IF lim = at THEN buffer_len ELSE IF at <= lim THEN lim - at ELSE lim + buffer_len - at
  BY DEF Gap
<1>4. n <= c
  BY <1>1 DEF ringbuf_add_cross_full
<1>5. CASE w > lim
  <2>1. n = IF w + c - lim - buffer_len > 0 THEN lim + buffer_len - w ELSE c
    BY <1>1, <1>5 DEF ringbuf_add_cross_full
  <2>2. n <= lim + buffer_len - w
    BY <2>1, <1>1
  <2>. QED
    BY <2>2, <1>1, <1>2, <1>3, <1>4, <1>5
<1>6. CASE ~(w > lim)
  <2>1. n = IF w + c - lim > 0 THEN lim - w ELSE c
    BY <1>1, <1>6 DEF ringbuf_add_cross_full
  <2>2. n <= lim - w
    BY <2>1, <1>1
  <2>. QED
    BY <2>2, <1>1, <1>2, <1>3, <1>4, <1>6
<1>. QED
  BY <1>5, <1>6

(* Where the room of a linked handle ends. *)
LEMMA LimitRoom ==
    ASSUME Sorted(handle_list), Laid(handle, ToSet(handle_list)), NEW id, Linked(id)
    PROVE  LET h == handle[id]
               between == IF Limit(id) = h.at THEN buffer_len ELSE Gap(h.at, Limit(id))
           IN  /\ Limit(id) \in Addresses /\ between \in 1 .. buffer_len
               /\ Ext(h) <= between
               /\ \A b \in ToSet(handle_list) : b # id => between <= Gap(h.at, handle[b].at)
<1>1. PICK h : h = handle[id]
  OBVIOUS
<1>2. id \in ToSet(handle_list) /\ Shape(h)
  BY <1>1 DEF Linked, Laid
<1>3. h.at \in Addresses /\ Ext(h) \in Nat /\ Ext(h) <= buffer_len /\ buffer_len \in Nat \ {0}
  BY <1>2, ShapeSays, RingAssumption
<1>4. /\ Limit(id) \in Addresses
      /\ Limit(id) = h.at => ToSet(handle_list) = {id}
      /\ \A b \in ToSet(handle_list) : b # id => Gap(h.at, Limit(id)) <= Gap(h.at, handle[b].at)
  BY <1>1, <1>2, LimitIs
<1>5. PICK c \in ToSet(handle_list) : Limit(id) = handle[c].at
  <2>1. CASE HasNext(id)
    BY <2>1, NextIs DEF Limit
  <2>2. CASE ~HasNext(id)
    <3>1. handle_list # <<>>
      BY <1>2, EmptyList
    <3>2. Head(handle_list) \in ToSet(handle_list)
      BY <3>1, EndsAre DEF Ends
    <3>. QED
      BY <2>2, <3>2 DEF Limit
  <2>. QED
    BY <2>1, <2>2
<1>6. Limit(id) # h.at => /\ Gap(h.at, Limit(id)) \in 1 .. buffer_len - 1
                          /\ Ext(h) <= Gap(h.at, Limit(id))
  BY <1>1, <1>2, <1>5, RoomAround
<1>7. CASE Limit(id) = h.at
  BY <1>1, <1>3, <1>4, <1>7
<1>8. CASE Limit(id) # h.at
  BY <1>1, <1>3, <1>4, <1>6, <1>8
<1>. QED
  BY <1>7, <1>8

(* The size of the next read is settled, within the room there is.         *)
LEMMA ReadChunkInv ==
    ASSUME BufferingInv, ReadChunk
    PROVE  BufferingInv'
<1>1. /\ UNCHANGED <<buffer, handle, handle_list, nextId, queue, audio, codec, base_handle_id, session>>
      /\ asked' = asked /\ filling' = filling
  BY DEF ReadChunk, Outside, settings
<1>2. bt \in BtType /\ asked \in Seq({"low", "rebuffer"}) /\ filling \in BOOLEAN
  BY DEF BufferingInv, TypePart
<1>3. bt.pc = "chunk" /\ audio.pc # "loading"
  BY DEF ReadChunk, MutexFree
<1>. DEFINE copy_n == Least(Least(H.filesize - H.end, Chunk), buffer_len - H.widx)
            n == IF Overlap(copy_n) > 0 THEN copy_n - Overlap(copy_n) ELSE copy_n
<1>4. IF n <= 0 THEN Return(FALSE)
      ELSE bt' = [bt EXCEPT !.pc = "read", !.copy_n = n, !.stop = Overlap(copy_n) > 0]
  BY DEF ReadChunk
<1>5. /\ Linked(bt.id) /\ H = handle[bt.id] /\ There = ToSet(handle_list) /\ bt.id \in There
      /\ Sorted(handle_list) /\ Laid(handle, There) /\ Shape(H) /\ H.fd # None
  BY <1>3, ThereIs DEF BufferingInv, BtPart, ListPart, H
<1>6. /\ H.at \in Addresses /\ H.widx \in Addresses /\ H.filesize \in Nat /\ H.end \in Nat /\ H.start \in Nat
      /\ Ext(H) = Off(H) + Held(H) /\ Off(H) \in 1 .. buffer_len - 1 /\ Held(H) \in Nat
      /\ Held(H) = (IF H.end < H.filesize THEN H.end - H.start ELSE H.filesize - H.start)
      /\ H.start <= H.end /\ H.start <= H.filesize
      /\ H.widx = ringbuf_add(H.at, Off(H) + (H.end - H.start))
      /\ buffer_len \in Nat \ {0} /\ Chunk \in Nat \ {0}
  BY <1>5, ShapeSays, RingAssumption, BufferingAssumption
<1>7. copy_n \in Int /\ copy_n <= H.filesize - H.end
  <2>1. PICK a \in Int : a = Least(H.filesize - H.end, Chunk) /\ a <= H.filesize - H.end
    <3>1. H.filesize - H.end \in Int /\ Chunk \in Int
      BY <1>6
    <3>2. /\ Least(H.filesize - H.end, Chunk) \in {H.filesize - H.end, Chunk}
          /\ Least(H.filesize - H.end, Chunk) <= H.filesize - H.end
      BY <3>1, LeastIs
    <3>. QED
      BY <3>1, <3>2
  <2>2. buffer_len - H.widx \in Int
    BY <1>6 DEF Addresses
  <2>3. copy_n \in {a, buffer_len - H.widx} /\ copy_n <= a
    BY <2>1, <2>2, LeastIs
  <2>. QED
    BY <2>1, <2>2, <2>3, <1>6
<1>8. Overlap(copy_n) \in Int /\ Overlap(copy_n) = ringbuf_add_cross_full(H.widx, copy_n, Limit(bt.id))
  <2>1. Limit(bt.id) \in Addresses
    BY <1>5, LimitRoom
  <2>2. H.widx \in Int /\ Limit(bt.id) \in Int /\ buffer_len \in Int
    BY <2>1, <1>6 DEF Addresses
  <2>3. ringbuf_add_cross_full(H.widx, copy_n, Limit(bt.id)) \in Int
    BY <2>2, <1>7 DEF ringbuf_add_cross_full
  <2>. QED
    BY <2>3 DEF Overlap
<1>. HIDE DEF copy_n
<1>9. n \in Int /\ n <= copy_n
  BY <1>7, <1>8
<1>. HIDE DEF n
<1>10. CASE n <= 0
  <2>1. bt' = [bt EXCEPT !.pc = "return", !.stop = ~FALSE]
    BY <1>4, <1>10 DEF Return
  <2>2. bt' \in BtType /\ bt'.pc = "return" /\ bt'.id = bt.id /\ bt'.then = bt.then /\ bt'.newpos = bt.newpos
    BY <2>1, <1>2, BtReturns, Zenon
  <2>3. Trying' = Trying
    BY <2>2, <1>3 DEF Trying
  <2>4. BtPart'
    BY <1>1, <1>3, <2>2, <2>3 DEF BufferingInv, BtPart, H, Linked
  <2>. QED
    BY <1>1, <1>2, <2>2, <2>3, <2>4, OnlyBt
<1>11. CASE ~(n <= 0)
  <2>. DEFINE stop == Overlap(copy_n) > 0
  <2>2. stop \in BOOLEAN
    BY <1>8
  <2>3. bt' = [bt EXCEPT !.pc = "read", !.copy_n = n, !.stop = stop]
    BY <1>4, <1>11
  <2>. HIDE DEF stop
  <2>4. n \in Nat
    BY <1>9, <1>11
  <2>5. /\ bt' \in BtType /\ bt'.pc = "read" /\ bt'.id = bt.id /\ bt'.then = bt.then /\ bt'.newpos = bt.newpos
        /\ bt'.copy_n = n
    <3>1. PICK k \in Nat : k = n
      BY <2>4
    <3>2. PICK t \in BOOLEAN : t = stop
      BY <2>2, Zenon
    <3>3. bt' = BtReading(bt, k, t)
      BY <2>3, <3>1, <3>2, Zenon DEF BtReading
    <3>4. /\ bt' \in BtType /\ bt'.pc = "read" /\ bt'.id = bt.id /\ bt'.then = bt.then
          /\ bt'.newpos = bt.newpos /\ bt'.copy_n = k
      BY <3>3, <1>2, BtReads, ZenonT(30)
    <3>. QED
      BY <3>1, <3>4
  <2>6. Trying' = Trying
    BY <2>5, <1>3 DEF Trying
  <2>7. PICK e \in Nat : e = Ext(H) /\ e = Off(H) + (H.end - H.start) /\ e # 0
    <3>1. H.end < H.filesize
      BY <2>4, <1>6, <1>7, <1>9, <1>11
    <3>. QED
      BY <3>1, <1>6
  <2>8. PICK between \in 1 .. buffer_len :
          /\ between = IF Limit(bt.id) = H.at THEN buffer_len ELSE Gap(H.at, Limit(bt.id))
          /\ e <= between /\ Limit(bt.id) \in Addresses
          /\ \A b \in ToSet(handle_list) : b # bt.id => between <= Gap(H.at, handle[b].at)
    BY <2>7, <1>5, LimitRoom
  <2>9. e + n <= between
    <3>1. H.widx = ringbuf_add(H.at, e)
      BY <2>7, <1>6
    <3>2. n = IF ringbuf_add_cross_full(H.widx, copy_n, Limit(bt.id)) > 0
              THEN copy_n - ringbuf_add_cross_full(H.widx, copy_n, Limit(bt.id)) ELSE copy_n
      BY <1>8 DEF n
    <3>3. e \in 1 .. between
      BY <2>7, <2>8
    <3>. QED
      BY <3>1, <3>2, <3>3, <2>8, <1>6, <1>7, <1>9, ReadsShort
  <2>10. /\ n # 0 /\ H.end + n <= H.filesize /\ Ext(H) + n <= buffer_len
         /\ \A b \in There : b # bt.id => Ext(H) + n <= Gap(H.at, handle[b].at)
    <3>1. n # 0 /\ H.end + n <= H.filesize /\ Ext(H) + n <= buffer_len
      BY <2>4, <2>7, <2>8, <2>9, <1>6, <1>7, <1>9, <1>11
    <3>2. \A b \in There : Gap(H.at, handle[b].at) \in Int
      BY <1>5, <1>6, ShapeSays, GapIs DEF Laid
    <3>3. \A b \in There : b # bt.id => Ext(H) + n <= Gap(H.at, handle[b].at)
      BY <3>2, <2>4, <2>7, <2>8, <2>9, <1>5
    <3>. QED
      BY <3>1, <3>3
  <2>11. There' = There
    BY <1>1 DEF There
  <2>12. ReadRoom'
    BY <1>1, <2>5, <2>10, <2>11 DEF ReadRoom, H
  <2>13. BtPart'
    BY <1>1, <1>3, <1>5, <2>5, <2>6, <2>12 DEF BufferingInv, BtPart, H, Linked
  <2>. QED
    BY <1>1, <1>2, <2>5, <2>6, <2>13, OnlyBt
<1>. QED
  BY <1>10, <1>11

-----------------------------------------------------------------------------
(* The buffering thread goes back to its queue, or on to the next handle.  *)
LEMMA SendsEvent ==
    ASSUME asked \in Seq({"low", "rebuffer"}), NEW e \in {"low", "rebuffer"}
    PROVE  send_event(e) \in Seq({"low", "rebuffer"})
BY DEF send_event

AtRest(b) == b \in BtType /\ b.pc \in {"wait", "tail", "count", "enter"} /\ b.then \notin {"fill", "try"}

Filling(b) == /\ b \in BtType /\ b.pc \in {"fill", "enter"} /\ b.then # "try"
              /\ b.pc = "fill" => b.then # "fill"
              /\ Linked(b.id)

(* A step that only takes the buffering thread to its next place.          *)
LEMMA OnlyRests ==
    ASSUME BufferingInv, ~Trying, AtRest(bt') \/ Filling(bt'),
           UNCHANGED <<buffer, handle, handle_list, nextId, queue, audio, codec, base_handle_id, session>>,
           asked' \in Seq({"low", "rebuffer"}), filling' \in BOOLEAN
    PROVE  BufferingInv'
<1>1. bt' \in BtType
  BY DEF AtRest, Filling
<1>2. ~(Trying')
  BY DEF AtRest, Filling, Trying
<1>3. BtPart'
  <2>1. CASE AtRest(bt')
    BY <1>2, <2>1 DEF BtPart, AtRest
  <2>2. CASE Filling(bt')
    BY <1>2, <2>2 DEF BtPart, Filling, Linked
  <2>. QED
    BY <2>1, <2>2
<1>4. Trying' = Trying
  BY <1>2 DEF Trying
<1>. QED
  BY <1>1, <1>2, <1>3, <1>4, OnlyBt

(* Places where it is about no handle,                                     *)
LEMMA AtRestIs ==
    /\ AtRest(AtQueue) /\ AtRest([AtQueue EXCEPT !.pc = "tail"])
    /\ AtRest([AtQueue EXCEPT !.pc = "tail", !.timeout = TRUE])
<1>. DEFINE a == [AtQueue EXCEPT !.pc = "tail"]
            b == [AtQueue EXCEPT !.pc = "tail", !.timeout = TRUE]
<1>1. AtQueue \in BtType /\ AtQueue.pc = "wait" /\ AtQueue.then = "tail"
  BY AtQueueIs
<1>2. a \in BtType /\ a.pc = "tail" /\ a.then = AtQueue.then
  BY <1>1 DEF BtType
<1>3. b \in BtType /\ b.pc = "tail" /\ b.then = AtQueue.then
  BY <1>1 DEF BtType
<1>. HIDE DEF a, b
<1>4. AtRest(AtQueue) /\ AtRest(a) /\ AtRest(b)
  BY <1>1, <1>2, <1>3 DEF AtRest
<1>. QED
  BY <1>4 DEF a, b

(* ... and places where it is about a linked one.                          *)
LEMMA FillingIs ==
    ASSUME NEW id \in Nat, Linked(id)
    PROVE  /\ Filling([AtQueue EXCEPT !.pc = "fill", !.id = id])
           /\ Filling([AtQueue EXCEPT !.pc = "enter", !.id = id, !.to_buffer = 0, !.then = "fill"])
<1>. DEFINE a == [AtQueue EXCEPT !.pc = "fill", !.id = id]
            b == [AtQueue EXCEPT !.pc = "enter", !.id = id, !.to_buffer = 0, !.then = "fill"]
<1>1. AtQueue \in BtType /\ AtQueue.then = "tail"
  BY AtQueueIs
<1>2. a \in BtType /\ a.pc = "fill" /\ a.then = AtQueue.then /\ a.id = id
  BY <1>1 DEF BtType
<1>3. b \in BtType /\ b.pc = "enter" /\ b.then = "fill" /\ b.id = id
  <2>1. b = BtEntering(AtQueue, id, 0, "fill")
    BY DEF BtEntering
  <2>. HIDE DEF b, a
  <2>2. /\ BtEntering(AtQueue, id, 0, "fill") \in BtType /\ BtEntering(AtQueue, id, 0, "fill").pc = "enter"
        /\ BtEntering(AtQueue, id, 0, "fill").then = "fill" /\ BtEntering(AtQueue, id, 0, "fill").id = id
    <3>1. 0 \in Int /\ "fill" \in {"tail", "start", "try", "fill"}
      OBVIOUS
    <3>. QED
      BY <3>1, <1>1, BtEnters
  <2>. QED
    BY <2>1, <2>2
<1>. HIDE DEF a, b
<1>4. Filling(a) /\ Filling(b)
  BY <1>1, <1>2, <1>3 DEF Filling
<1>. QED
  BY <1>4 DEF a, b

(* fill_buffer goes to the next handle or ends.                            *)
LEMMA FillAfterIs ==
    ASSUME BufferingInv, NEW m, Linked(m), FillAfter(m)
    PROVE  (AtRest(bt') \/ Filling(bt')) /\ (filling' = filling \/ filling' = FALSE)
<1>1. CASE HasNext(m)
  <2>1. NextId(m) \in ToSet(handle_list) /\ ToSet(handle_list) \subseteq Nat
    BY <1>1, NextIs, SortedIs, SMTT(30) DEF BufferingInv, ListPart
  <2>2. Filling([AtQueue EXCEPT !.pc = "fill", !.id = NextId(m)])
    BY <2>1, FillingIs, Zenon DEF Linked
  <2>3. bt' = [AtQueue EXCEPT !.pc = "fill", !.id = NextId(m)] /\ filling' = filling
    BY <1>1 DEF FillAfter
  <2>. QED
    BY <2>2, <2>3
<1>2. CASE ~HasNext(m)
  BY <1>2, AtRestIs DEF FillAfter
<1>. QED
  BY <1>1, <1>2, Zenon

(* buffer_handle returns to Q_START_FILL.                                  *)
LEMMA StartReturnsInv ==
    ASSUME BufferingInv, StartReturns
    PROVE  BufferingInv'
<1>1. /\ UNCHANGED <<buffer, handle, handle_list, nextId, queue, audio, codec, base_handle_id, session>>
      /\ asked' = asked /\ filling' = (filling \/ ~bt.stop)
      /\ bt.pc = "return" /\ bt.then = "start"
      /\ bt' = [bt EXCEPT !.pc = "count"] \/ bt' = [AtQueue EXCEPT !.pc = "tail"]
  BY DEF StartReturns, memory, Untouched, settings, Go, GoTail
<1>2. bt \in BtType /\ asked \in Seq({"low", "rebuffer"}) /\ filling \in BOOLEAN
  BY DEF BufferingInv, TypePart
<1>3. filling' \in BOOLEAN
  BY <1>1, <1>2, Zenon
<1>4. ~Trying
  BY <1>1 DEF Trying
<1>5. AtRest(bt')
  <2>1. CASE bt' = [bt EXCEPT !.pc = "count"]
    <3>1. bt' \in BtType /\ bt'.pc = "count" /\ bt'.then = bt.then
      BY <2>1, <1>2, BtGoes DEF BtPcs
    <3>. QED
      BY <3>1, <1>1 DEF AtRest
  <2>. QED
    BY <2>1, <1>1, AtRestIs
<1>. QED
  BY <1>1, <1>2, <1>3, <1>4, <1>5, OnlyRests

(* The level is counted after that.                                        *)
LEMMA CountAfterStartInv ==
    ASSUME BufferingInv, CountAfterStart
    PROVE  BufferingInv'
<1>1. /\ UNCHANGED <<buffer, handle, handle_list, nextId, queue, audio, codec, base_handle_id, session>>
      /\ asked' \in {asked, send_event("low")} /\ filling' = filling
      /\ bt.pc = "count" /\ bt' = [AtQueue EXCEPT !.pc = "tail"]
  BY DEF CountAfterStart, memory, Untouched, settings, GoTail
<1>2. asked \in Seq({"low", "rebuffer"}) /\ filling \in BOOLEAN
  BY DEF BufferingInv, TypePart
<1>3. ~Trying
  BY <1>1 DEF Trying, BufferingInv, BtPart
<1>. QED
  BY <1>1, <1>2, <1>3, AtRestIs, SendsEvent, OnlyRests

(* buffer_handle returns to Q_BUFFER_HANDLE or to a rebuffer.              *)
LEMMA RestReturnsInv ==
    ASSUME BufferingInv, RestReturns
    PROVE  BufferingInv'
<1>1. /\ UNCHANGED <<buffer, handle, handle_list, nextId, queue, audio, codec, base_handle_id, session>>
      /\ asked' = asked /\ filling' = filling
      /\ bt.pc = "return" /\ bt.then = "tail" /\ bt' = [AtQueue EXCEPT !.pc = "tail"]
  BY DEF RestReturns, memory, Untouched, settings, GoTail
<1>2. asked \in Seq({"low", "rebuffer"}) /\ filling \in BOOLEAN
  BY DEF BufferingInv, TypePart
<1>3. ~Trying
  BY <1>1 DEF Trying
<1>. QED
  BY <1>1, <1>2, <1>3, AtRestIs, OnlyRests

(* buffer_handle returns to fill_buffer.                                   *)
LEMMA FillReturnsInv ==
    ASSUME BufferingInv, FillReturns
    PROVE  BufferingInv'
<1>1. /\ UNCHANGED <<buffer, handle, handle_list, nextId, queue, audio, codec, base_handle_id, session>>
      /\ asked' = asked /\ bt.pc = "return" /\ bt.then = "fill"
      /\ (bt' = AtQueue /\ filling' = FALSE) \/ FillAfter(bt.id)
  BY DEF FillReturns, memory, Untouched, settings
<1>2. asked \in Seq({"low", "rebuffer"}) /\ filling \in BOOLEAN
  BY DEF BufferingInv, TypePart
<1>3. ~Trying /\ Linked(bt.id)
  BY <1>1 DEF Trying, BufferingInv, BtPart
<1>4. (AtRest(bt') \/ Filling(bt')) /\ (filling' = filling \/ filling' = FALSE)
  BY <1>1, <1>3, AtRestIs, FillAfterIs
<1>5. filling' \in BOOLEAN
  BY <1>2, <1>4
<1>. QED
  BY <1>1, <1>2, <1>3, <1>4, <1>5, OnlyRests

(* fill_buffer takes up a handle.                                          *)
LEMMA FillInv ==
    ASSUME BufferingInv, Fill
    PROVE  BufferingInv'
<1>1. /\ UNCHANGED <<buffer, handle, handle_list, nextId, queue, audio, codec, base_handle_id, session>>
      /\ asked' = asked /\ bt.pc = "fill"
      /\ \/ bt' = AtQueue /\ filling' = TRUE
         \/ /\ bt' = [AtQueue EXCEPT !.pc = "enter", !.id = bt.id, !.to_buffer = 0, !.then = "fill"]
            /\ filling' = filling
         \/ FillAfter(bt.id)
  BY DEF Fill, memory, Untouched, settings, buffer_handle
<1>2. asked \in Seq({"low", "rebuffer"}) /\ filling \in BOOLEAN /\ bt.id \in Nat
  BY DEF BufferingInv, TypePart, BtType
<1>3. ~Trying /\ Linked(bt.id)
  BY <1>1 DEF Trying, BufferingInv, BtPart
<1>4. (AtRest(bt') \/ Filling(bt')) /\ (filling' = filling \/ filling' = FALSE \/ filling' = TRUE)
  <2>1. CASE bt' = AtQueue /\ filling' = TRUE
    BY <2>1, AtRestIs
  <2>2. CASE bt' = [AtQueue EXCEPT !.pc = "enter", !.id = bt.id, !.to_buffer = 0, !.then = "fill"]
             /\ filling' = filling
    BY <2>2, <1>2, <1>3, FillingIs, Zenon
  <2>3. CASE FillAfter(bt.id)
    BY <2>3, <1>3, FillAfterIs
  <2>. QED
    BY <1>1, <2>1, <2>2, <2>3
<1>5. filling' \in BOOLEAN
  BY <1>2, <1>4
<1>. QED
  BY <1>1, <1>2, <1>3, <1>4, <1>5, OnlyRests

(* The wait for a message times out.                                       *)
LEMMA TimedOutInv ==
    ASSUME BufferingInv, TimedOut
    PROVE  BufferingInv'
<1>1. /\ UNCHANGED <<buffer, handle, handle_list, nextId, queue, audio, codec, base_handle_id, session>>
      /\ asked' = asked /\ filling' = filling
      /\ bt.pc = "wait" /\ bt' = [AtQueue EXCEPT !.pc = "tail", !.timeout = TRUE]
  BY DEF TimedOut, memory, Untouched, settings
<1>2. asked \in Seq({"low", "rebuffer"}) /\ filling \in BOOLEAN
  BY DEF BufferingInv, TypePart
<1>3. ~Trying
  BY <1>1 DEF Trying, BufferingInv, BtPart
<1>. QED
  BY <1>1, <1>2, <1>3, AtRestIs, OnlyRests

(* The thread goes back to its queue.                                      *)
LEMMA GoOnInv ==
    ASSUME BufferingInv, GoOn
    PROVE  BufferingInv'
<1>1. /\ UNCHANGED <<buffer, handle, handle_list, nextId, queue, audio, codec, base_handle_id, session>>
      /\ asked' = asked /\ filling' = (filling /\ handle_list # <<>>)
      /\ bt.pc = "tail" /\ bt' = AtQueue
  BY DEF GoOn, memory, Untouched, settings
<1>2. asked \in Seq({"low", "rebuffer"}) /\ filling \in BOOLEAN
  BY DEF BufferingInv, TypePart
<1>3. ~Trying
  BY <1>1 DEF Trying, BufferingInv, BtPart
<1>4. filling' \in BOOLEAN
  BY <1>1, Zenon
<1>. QED
  BY <1>1, <1>2, <1>3, <1>4, AtRestIs, OnlyRests

-----------------------------------------------------------------------------
(* What a step of the buffering thread leaves of a handle: its read        *)
(* position, and at least the bytes it had.                                *)
Keeps(h, new) ==
    /\ new \in HandleType /\ new.type = h.type /\ new.pos = h.pos /\ new.pinned = h.pinned
    /\ h.type = "audio" \/ h.pinned => new.ridx = h.ridx
    /\ h.end <= new.end
    /\ \/ new.filesize = h.filesize
       \/ new.filesize = h.end /\ ~(h.type = "audio" /\ session.seeks # 0)

HandlesKept ==
    /\ handle' \in [Ids -> HandleType]
    /\ \A id \in There : Keeps(handle[id], handle'[id])
    /\ audio.pc = "loading" => handle'[audio.id] = handle[audio.id]

(* The codec goes on where it is, or stays. *)
CodecGoes ==
    /\ codec' \in CodecType
    /\ codec'.id = codec.id /\ codec'.held = codec.held /\ codec'.pos = codec.pos
    /\ codec'.ridx = codec.ridx /\ (codec'.pc # "idle" => codec.pc # "idle")

(* A seek is over once the handle has reached its position. *)
SeekGoes ==
    /\ Trying' => Trying /\ bt'.id = bt.id
    /\ Trying => Trying' \/ H.pos <= handle'[bt.id].end

(* A handle that is kept has its cursors still in order.                   *)
LEMMA KeptSays ==
    ASSUME NEW h \in HandleType, NEW new, Keeps(h, new)
    PROVE  /\ h.filesize \in Nat /\ h.pos \in Nat /\ h.end \in Nat
           /\ new.filesize \in Nat /\ new.pos \in Nat /\ new.end \in Nat
           /\ new.type = h.type /\ new.pos = h.pos /\ h.end <= new.end
           /\ h.pos <= h.filesize /\ h.pos <= h.end => new.pos <= new.filesize
           /\ h.pos <= h.end => new.pos <= new.end
BY DEF Keeps, HandleType

(* A step in which every handle keeps its place in its file.               *)
LEMMA KeptInv ==
    ASSUME BufferingInv, HandlesKept, CodecGoes, SeekGoes,
           UNCHANGED <<handle_list, nextId, session, base_handle_id, audio>>,
           bt' \in BtType, asked' \in Seq({"low", "rebuffer"}), filling' \in BOOLEAN,
           queue' \in Seq(MessageType),
           StandPart', BtPart', QueuePart'
    PROVE  BufferingInv'
<1>1. There' = There
  BY DEF There
<1>2. TypePart'
  BY DEF BufferingInv, TypePart, HandlesKept, CodecGoes
<1>3. ListPart'
  <2>1. \A id \in ToSet(handle_list) : handle'[id].type = handle[id].type
    BY DEF HandlesKept, There, Keeps
  <2>. QED
    BY <2>1 DEF BufferingInv, ListPart, HandlesKept
<1>4. CursorPart'
  <2>. SUFFICES ASSUME NEW id \in There
                PROVE  /\ handle'[id].pos <= handle'[id].filesize
                       /\ handle'[id].pos <= handle'[id].end \/ (Trying' /\ id = bt'.id)
    BY <1>1 DEF CursorPart
  <2>1. handle[id] \in HandleType /\ Keeps(handle[id], handle'[id])
    BY ThereIs DEF BufferingInv, HandlesKept
  <2>2. /\ handle[id].pos <= handle[id].filesize
        /\ handle[id].pos <= handle[id].end \/ (Trying /\ id = bt.id)
    BY DEF BufferingInv, CursorPart
  <2>3. PICK h, new : h = handle[id] /\ new = handle'[id]
    OBVIOUS
  <2>4. /\ h.filesize \in Nat /\ h.pos \in Nat /\ h.end \in Nat
        /\ new.filesize \in Nat /\ new.pos \in Nat /\ new.end \in Nat
        /\ new.type = h.type /\ new.pos = h.pos /\ h.end <= new.end
        /\ h.pos <= h.filesize /\ h.pos <= h.end => new.pos <= new.filesize
        /\ h.pos <= h.end => new.pos <= new.end
    BY <2>1, <2>3, KeptSays
  <2>5. CASE h.pos <= h.end
    BY <2>2, <2>3, <2>4, <2>5
  <2>6. CASE ~(h.pos <= h.end)
    <3>1. Trying /\ id = bt.id /\ h = H
      BY <2>2, <2>3, <2>6 DEF H
    <3>2. h.type = "audio" /\ session.seeks # 0
      BY <3>1 DEF BufferingInv, BtPart
    <3>3. new.filesize = h.filesize
      BY <2>1, <2>3, <3>2 DEF Keeps
    <3>4. (Trying' /\ id = bt'.id) \/ h.pos <= new.end
      BY <3>1, <2>3 DEF SeekGoes
    <3>. QED
      BY <2>2, <2>3, <2>4, <3>3, <3>4
  <2>. QED
    BY <2>5, <2>6
<1>5. AudioPart'
  BY DEF BufferingInv, AudioPart, CodecGoes
<1>6. CodecPart'
  <2>1. codec.id # 0 => Linked(codec.id) /\ codec.id \in There
    BY DEF BufferingInv, CodecPart, There, Linked
  <2>2. PICK h, new : h = C /\ new = C'
    OBVIOUS
  <2>3. codec.id # 0 => /\ h \in HandleType /\ Keeps(h, new)
                        /\ h.type \in {"audio", "atomic", "codec"}
                        /\ h.type # "codec" => h.pinned
    <3>1. C' = handle'[codec.id]
      BY DEF C, CodecGoes
    <3>. QED
      BY <2>1, <2>2, <3>1, ThereIs DEF BufferingInv, HandlesKept, CodecPart, C
  <2>4. codec'.id # 0 => /\ Linked(codec.id)' /\ new.type \in {"audio", "atomic", "codec"}
                         /\ new.type # "codec" => new.pinned
    BY <2>1, <2>3 DEF CodecGoes, Keeps, Linked
  <2>5. codec'.pc # "idle" => codec'.id # 0 /\ codec'.held = 0
    BY DEF CodecGoes, BufferingInv, CodecPart
  <2>6. ASSUME codec'.held # 0
        PROVE  /\ codec'.id # 0 /\ new.type # "codec"
               /\ codec'.pos = new.pos /\ codec'.ridx = new.ridx
               /\ new.pos + codec'.held <= new.end /\ new.pos + codec'.held <= new.filesize
    <3>1. /\ codec.held # 0 /\ codec'.held = codec.held /\ codec'.pos = codec.pos /\ codec'.ridx = codec.ridx
          /\ codec'.id = codec.id
      BY <2>6 DEF CodecGoes
    <3>2. /\ codec.id # 0 /\ h.type # "codec" /\ codec.pos = h.pos /\ codec.ridx = h.ridx
          /\ h.pos + codec.held <= h.end /\ h.pos + codec.held <= h.filesize
      BY <2>2, <3>1 DEF BufferingInv, CodecPart
    <3>3. h.pinned /\ h \in HandleType /\ Keeps(h, new)
      BY <2>3, <3>2
    <3>4. codec.held \in Nat
      BY DEF BufferingInv, TypePart, CodecType
    <3>5. /\ h.filesize \in Nat /\ h.pos \in Nat /\ h.end \in Nat /\ new.end \in Nat
          /\ new.type = h.type /\ new.pos = h.pos /\ h.end <= new.end
          /\ new.ridx = h.ridx /\ (new.filesize = h.filesize \/ new.filesize = h.end)
      BY <3>3, KeptSays DEF Keeps
    <3>. QED
      BY <3>1, <3>2, <3>4, <3>5
  <2>. QED
    BY <2>2, <2>4, <2>5, <2>6 DEF CodecPart, C
<1>. QED
  BY <1>2, <1>3, <1>4, <1>5, <1>6 DEF BufferingInv

(* The messages that wait are still such as were sent. *)
LEMMA MessagesKept ==
    ASSUME BufferingInv, HandlesKept, UNCHANGED <<session, audio, codec>>, Trying' => Trying,
           NEW m \in MessageType, MessageOK(m)
    PROVE  MessageOK(m)'
<1>1. ASSUME m.ev = "rebuffer"
      PROVE  RebufferOK(m.pos)'
  <2>1. m.from = "codec" /\ codec.pc = "calling" /\ RebufferOK(m.pos) /\ ~Trying
    BY <1>1 DEF MessageOK
  <2>2. codec.id # 0 /\ Linked(codec.id) /\ codec.id \in There
    BY <2>1 DEF BufferingInv, CodecPart, There, Linked
  <2>3. C' = handle'[codec.id] /\ C = handle[codec.id] /\ session' = session
    BY DEF C
  <2>4. PICK h, new : h = C /\ new = C'
    OBVIOUS
  <2>5. h \in HandleType /\ Keeps(h, new)
    BY <2>2, <2>3, <2>4, ThereIs DEF BufferingInv, HandlesKept
  <2>6. /\ m.pos \in Nat /\ m.pos <= h.filesize
        /\ (h.type = "audio" /\ session.seeks # 0) \/ (h.pos <= m.pos /\ m.pos <= h.end)
    BY <2>1, <2>4 DEF RebufferOK, MessageType
  <2>7. /\ h.filesize \in Nat /\ h.pos \in Nat /\ h.end \in Nat /\ new.end \in Nat
        /\ new.type = h.type /\ new.pos = h.pos /\ h.end <= new.end
        /\ \/ new.filesize = h.filesize
           \/ new.filesize = h.end /\ ~(h.type = "audio" /\ session.seeks # 0)
    BY <2>5, KeptSays DEF Keeps
  <2>8. /\ m.pos <= new.filesize
        /\ (new.type = "audio" /\ session.seeks # 0) \/ (new.pos <= m.pos /\ m.pos <= new.end)
    BY <2>6, <2>7
  <2>. QED
    BY <2>3, <2>4, <2>8 DEF RebufferOK
<1>. QED
  BY <1>1 DEF MessageOK

(* The oldest message, and those behind it.                                *)
LEMMA TailIs ==
    ASSUME queue \in Seq(MessageType), queue # <<>>
    PROVE  /\ Head(queue) \in MessageType /\ Head(queue) = queue[1] /\ 1 \in DOMAIN queue
           /\ Tail(queue) \in Seq(MessageType)
           /\ \A i \in DOMAIN Tail(queue) : /\ i \in Nat /\ i + 1 \in DOMAIN queue /\ i + 1 # 1
                                            /\ Tail(queue)[i] = queue[i + 1]
                                            /\ Tail(queue)[i] \in MessageType
<1>1. Len(queue) \in Nat \ {0} /\ DOMAIN queue = 1 .. Len(queue)
  BY EmptySeq, LenProperties
<1>2. Tail(queue) \in Seq(MessageType) /\ Len(Tail(queue)) = Len(queue) - 1
      /\ \A i \in 1 .. Len(queue) - 1 : Tail(queue)[i] = queue[i + 1]
      /\ Head(queue) = queue[1]
  BY HeadTailProperties
<1>3. DOMAIN Tail(queue) = 1 .. Len(queue) - 1
  BY <1>2
<1>4. \A i \in DOMAIN queue : queue[i] \in MessageType
  OBVIOUS
<1>. QED
  BY <1>1, <1>2, <1>3, <1>4

(* A queue each message of which is in order.                              *)
LEMMA QueueIs ==
    ASSUME \A i \in DOMAIN queue' : \E m : m = queue'[i] /\ MessageOK(m)', Single(queue')
    PROVE  QueuePart'
BY DEF QueuePart, MessageOK, RebufferOK

(* Messages stay in order while the handles keep their places.             *)
LEMMA KeptQueue ==
    ASSUME BufferingInv, HandlesKept, UNCHANGED <<session, audio, codec>>, Trying' => Trying,
           queue' = queue \/ (queue # <<>> /\ queue' = Tail(queue))
    PROVE  QueuePart' /\ queue' \in Seq(MessageType)
<1>1. queue \in Seq(MessageType) /\ QueuePart
  BY DEF BufferingInv, TypePart
<1>2. \A i \in DOMAIN queue : queue[i] \in MessageType /\ MessageOK(queue[i])
  BY <1>1 DEF QueuePart
<1>3. ASSUME NEW i \in DOMAIN queue
      PROVE  \E m \in MessageType : m = queue[i] /\ MessageOK(m)'
  <2>1. PICK m \in MessageType : m = queue[i] /\ MessageOK(m)
    BY <1>2
  <2>2. MessageOK(m)'
    BY <2>1, MessagesKept
  <2>. QED
    BY <2>1, <2>2
<1>4. CASE queue' = queue
  <2>1. \A i \in DOMAIN queue' : \E m : m = queue'[i] /\ MessageOK(m)'
    BY <1>3, <1>4
  <2>2. Single(queue')
    BY <1>1, <1>4 DEF QueuePart
  <2>. QED
    BY <1>1, <1>4, <2>1, <2>2, QueueIs
<1>5. CASE queue # <<>> /\ queue' = Tail(queue)
  <2>1. \A i \in DOMAIN queue' : i \in Nat /\ i + 1 \in DOMAIN queue /\ queue'[i] = queue[i + 1]
    BY <1>1, <1>5, TailIs
  <2>2. \A i \in DOMAIN queue' : \E m : m = queue'[i] /\ MessageOK(m)'
    BY <1>3, <2>1
  <2>3. Single(queue')
    <3>. SUFFICES ASSUME NEW i \in DOMAIN queue', NEW j \in DOMAIN queue'
                  PROVE  /\ queue'[i].from = "codec" /\ queue'[j].from = "codec" => i = j
                         /\ queue'[i].ev = "close" /\ queue'[i].from # "codec"
                            /\ queue'[j].ev = "close" /\ queue'[j].from # "codec" => i = j
      BY DEF Single
    <3>1. i \in Nat /\ j \in Nat /\ i + 1 \in DOMAIN queue /\ j + 1 \in DOMAIN queue
          /\ queue'[i] = queue[i + 1] /\ queue'[j] = queue[j + 1]
      BY <2>1
    <3>2. i + 1 = j + 1 => i = j
      BY <3>1
    <3>. QED
      BY <1>1, <3>1, <3>2 DEF QueuePart, Single
  <2>. QED
    BY <1>1, <1>5, <2>2, <2>3, TailIs, QueueIs
<1>. QED
  BY <1>4, <1>5

(* The message that was answered was the only one of its thread. *)
LEMMA RepliedQueue ==
    ASSUME BufferingInv, queue # <<>>, Head(queue).from = "codec", queue' = Tail(queue),
           UNCHANGED audio, codec'.id \in {0, codec.id}
    PROVE  QueuePart' /\ queue' \in Seq(MessageType)
<1>1. queue \in Seq(MessageType) /\ QueuePart
  BY DEF BufferingInv, TypePart
<1>2. /\ queue[1].from = "codec" /\ 1 \in DOMAIN queue
      /\ queue' \in Seq(MessageType)
      /\ \A i \in DOMAIN queue' : i \in Nat /\ i + 1 \in DOMAIN queue /\ queue'[i] = queue[i + 1] /\ i + 1 # 1
  BY <1>1, TailIs
<1>3. ASSUME NEW i \in DOMAIN queue'
      PROVE  queue'[i].from # "codec" /\ \E m : m = queue'[i] /\ MessageOK(m)'
  <2>1. i + 1 \in DOMAIN queue /\ queue'[i] = queue[i + 1] /\ i + 1 # 1 /\ MessageOK(queue[i + 1])
    BY <1>1, <1>2 DEF QueuePart
  <2>2. PICK m : m = queue'[i] /\ MessageOK(m)
    BY <2>1
  <2>3. m.from # "codec"
    BY <1>1, <1>2, <2>1, <2>2 DEF QueuePart, Single
  <2>4. MessageOK(m)'
    BY <2>2, <2>3 DEF MessageOK
  <2>. QED
    BY <2>2, <2>3, <2>4
<1>4. Single(queue')
  <2>. SUFFICES ASSUME NEW i \in DOMAIN queue', NEW j \in DOMAIN queue',
                       queue'[i].ev = "close", queue'[j].ev = "close"
                PROVE  i = j
    BY <1>3 DEF Single
  <2>1. i \in Nat /\ j \in Nat /\ i + 1 \in DOMAIN queue /\ j + 1 \in DOMAIN queue
        /\ queue'[i] = queue[i + 1] /\ queue'[j] = queue[j + 1]
        /\ queue'[i].from # "codec" /\ queue'[j].from # "codec"
    BY <1>2, <1>3
  <2>2. i + 1 = j + 1
    BY <1>1, <2>1 DEF QueuePart, Single
  <2>. QED
    BY <2>1, <2>2
<1>5. \A i \in DOMAIN queue' : \E m : m = queue'[i] /\ MessageOK(m)'
  BY <1>3
<1>. QED
  BY <1>2, <1>4, <1>5, QueueIs

-----------------------------------------------------------------------------
(* buffer_handle                                                           *)

(* What does not change is kept.                                           *)
LEMMA KeepsItself ==
    ASSUME NEW h \in HandleType
    PROVE  Keeps(h, h)
<1>1. h.end \in Nat
  BY DEF HandleType
<1>. QED
  BY <1>1 DEF Keeps

(* One handle changes and keeps its place.                                 *)
LEMMA OneKept ==
    ASSUME BufferingInv, NEW x, Linked(x), NEW new, Keeps(handle[x], new),
           handle' = [handle EXCEPT ![x] = new]
    PROVE  HandlesKept /\ handle'[x] = new /\ \A b \in There : b # x => handle'[b] = handle[b]
<1>1. x \in There /\ There \subseteq Ids /\ handle \in [Ids -> HandleType] /\ new \in HandleType
  BY ThereIs DEF BufferingInv, Keeps, TypePart
<1>2. handle' \in [Ids -> HandleType] /\ handle'[x] = new /\ \A b \in There : b # x => handle'[b] = handle[b]
  BY <1>1
<1>3. \A b \in There : Keeps(handle[b], handle'[b])
  BY <1>1, <1>2, KeepsItself
<1>4. audio.pc = "loading" => audio.id # x /\ audio.id \in There
  BY DEF BufferingInv, ListPart, There, Linked
<1>. QED
  BY <1>2, <1>3, <1>4 DEF HandlesKept

(* No handle changes.                                                      *)
LEMMA NoneKept ==
    ASSUME BufferingInv, handle' = handle
    PROVE  HandlesKept
<1>1. There \subseteq Ids /\ handle \in [Ids -> HandleType]
  BY ThereIs DEF BufferingInv, TypePart
<1>2. \A b \in There : Keeps(handle[b], handle'[b])
  BY <1>1, KeepsItself
<1>. QED
  BY <1>1, <1>2 DEF HandlesKept

(* The codec does not move.                                                *)
LEMMA CodecStays ==
    ASSUME BufferingInv, codec' = codec
    PROVE  CodecGoes
BY DEF BufferingInv, TypePart, CodecGoes

Elsewhere == <<handle_list, nextId, session, base_handle_id, audio, codec, asked, filling, queue>>

(* A step of buffer_handle, from one of its places to another.             *)
LEMMA Proceeds ==
    ASSUME BufferingInv, HandlesKept, UNCHANGED Elsewhere, StandPart',
           bt' \in BtType, bt'.id = bt.id, bt'.then = bt.then, bt'.newpos = bt.newpos,
           bt.pc \in {"open", "metadata", "chunk", "read", "yield"},
           bt'.pc \in {"return", "metadata", "chunk", "yield"},
           bt'.pc = "metadata" => /\ handle'[bt.id].type = "id3"
                                  /\ handle'[bt.id].end = handle'[bt.id].start,
           bt'.pc \in {"chunk", "yield"} => handle'[bt.id].fd # None
    PROVE  BufferingInv'
<1>1. Trying' = Trying
  BY DEF Trying
<1>2. Linked(bt.id) /\ bt.id \in There
  BY DEF BufferingInv, BtPart, There, Linked
<1>3. BtPart'
  <2>1. H' = handle'[bt.id]
    BY DEF H
  <2>2. Trying => H'.type = H.type /\ H'.filesize = H.filesize
    BY <1>2, <2>1 DEF HandlesKept, Keeps, H, BufferingInv, BtPart
  <2>. QED
    BY <1>1, <1>2, <2>1, <2>2 DEF BufferingInv, BtPart, Elsewhere, Linked
<1>4. CodecGoes
  BY CodecStays DEF Elsewhere
<1>5. SeekGoes
  BY <1>1 DEF SeekGoes
<1>6. QueuePart' /\ queue' \in Seq(MessageType)
  BY <1>1, KeptQueue DEF Elsewhere
<1>7. asked' \in Seq({"low", "rebuffer"}) /\ filling' \in BOOLEAN
  BY DEF BufferingInv, TypePart, Elsewhere
<1>. QED
  BY <1>3, <1>4, <1>5, <1>6, <1>7, KeptInv DEF Elsewhere

(* The handle's cursors or flags change. *)
LEMMA AlteredPart ==
    ASSUME BufferingInv, NEW x, Linked(x), NEW new, Alters(handle[x], new),
           handle' = [handle EXCEPT ![x] = new], UNCHANGED <<buffer, handle_list, audio>>
    PROVE  StandPart'
<1>1. There' = There
  BY DEF There
<1>2. x \in There /\ There \subseteq Ids /\ handle \in [Ids -> HandleType] /\ Stands(buffer, handle, There)
  BY ThereIs DEF BufferingInv, TypePart, StandPart
<1>3. handle'[x] = new /\ \A b \in There : b # x => handle'[b] = handle[b]
  BY <1>2
<1>4. Stands(buffer, handle', There)
  BY <1>2, <1>3, AlteredStands
<1>. QED
  BY <1>1, <1>4 DEF StandPart

BtReturning(b, stop) == [b EXCEPT !.pc = "return", !.stop = stop]

(* The locals of a buffer_handle that returns.                             *)
LEMMA BtReturningIs ==
    ASSUME NEW b \in BtType, NEW stop \in BOOLEAN
    PROVE  LET b2 == BtReturning(b, stop)
           IN  /\ b2 \in BtType /\ b2.pc = "return" /\ b2.id = b.id /\ b2.then = b.then
               /\ b2.newpos = b.newpos
BY DEF BtType, BtReturning

(* The same, for the thread.                                               *)
LEMMA BtReturned ==
    ASSUME BufferingInv, NEW ok, bt' = [bt EXCEPT !.pc = "return", !.stop = ~ok]
    PROVE  bt' \in BtType /\ bt'.pc = "return" /\ bt'.id = bt.id /\ bt'.then = bt.then /\ bt'.newpos = bt.newpos
<1>1. bt \in BtType
  BY DEF BufferingInv, TypePart
<1>2. PICK t \in BOOLEAN : t = ~ok
  BY Zenon
<1>3. bt' = BtReturning(bt, t)
  BY <1>2, Zenon DEF BtReturning
<1>. QED
  BY <1>1, <1>3, BtReturningIs

(* The handle that buffer_handle is at. *)
LEMMA Current ==
    ASSUME BufferingInv, bt.pc \in {"open", "metadata", "chunk", "read", "yield"}
    PROVE  /\ Linked(bt.id) /\ bt.id \in There /\ bt.id \in Ids /\ H = handle[bt.id]
           /\ Shape(H) /\ H \in HandleType /\ H.type = session.files[bt.id].type
           /\ H.filesize \in Nat /\ H.start \in Nat /\ H.pos \in Nat /\ H.end \in Nat
           /\ H.start <= H.end /\ H.start <= H.filesize /\ H.start <= H.pos
           /\ bt \in BtType /\ None \notin Nat
<1>1. Linked(bt.id) /\ bt.id \in There
  BY DEF BufferingInv, BtPart, There, Linked
<1>2. /\ bt.id \in Ids /\ Shape(handle[bt.id]) /\ handle[bt.id] \in HandleType
      /\ handle[bt.id].type = session.files[bt.id].type
  BY <1>1, ThereIs DEF BufferingInv
<1>. QED
  BY <1>1, <1>2, ShapeSays, BufferingAssumption DEF H, BufferingInv, TypePart

(* A new descriptor, a shorter file. *)
WithFd(h, fd) == [h EXCEPT !.fd = fd]
Cut(h, n) == [h EXCEPT !.filesize = n]

(* The fields of a handle whose descriptor was opened or closed.           *)
LEMMA WithFdIs ==
    ASSUME NEW h \in HandleType, NEW fd \in Nat \cup {None}
    PROVE  LET new == WithFd(h, fd)
           IN  /\ new \in HandleType
               /\ new.at = h.at /\ new.size = h.size /\ new.type = h.type /\ new.data = h.data
               /\ new.widx = h.widx /\ new.start = h.start /\ new.end = h.end /\ new.filesize = h.filesize
               /\ new.pos = h.pos /\ new.ridx = h.ridx /\ new.pinned = h.pinned /\ new.fd = fd
BY DEF WithFd, HandleType

(* The fields of a handle whose file was cut.                              *)
LEMMA CutIs ==
    ASSUME NEW h \in HandleType, NEW n \in Nat
    PROVE  LET new == Cut(h, n)
           IN  /\ new \in HandleType
               /\ new.at = h.at /\ new.size = h.size /\ new.type = h.type /\ new.data = h.data
               /\ new.widx = h.widx /\ new.start = h.start /\ new.end = h.end /\ new.filesize = n
               /\ new.pos = h.pos /\ new.ridx = h.ridx /\ new.pinned = h.pinned /\ new.fd = h.fd
BY DEF Cut, HandleType

(* A descriptor is opened at the end of the data, and closed at the end of *)
(* the file.                                                               *)
LEMMA FdAlters ==
    ASSUME NEW h, Shape(h), NEW fd \in Nat \cup {None}, fd # None => fd = h.end,
           fd = None => h.end >= h.filesize \/ h.end = h.start
    PROVE  Alters(h, WithFd(h, fd)) /\ Keeps(h, WithFd(h, fd))
<1>1. /\ h \in HandleType /\ h.start <= h.filesize /\ h.start <= h.pos /\ h.filesize \in Nat /\ h.end \in Nat
      /\ h.ridx = ringbuf_add(h.data, h.pos - h.start)
  BY ShapeSays DEF Shape
<1>2. PICK new : new = WithFd(h, fd)
  OBVIOUS
<1>3. /\ new \in HandleType
      /\ new.at = h.at /\ new.size = h.size /\ new.type = h.type /\ new.data = h.data
      /\ new.widx = h.widx /\ new.start = h.start /\ new.end = h.end /\ new.filesize = h.filesize
      /\ new.pos = h.pos /\ new.ridx = h.ridx /\ new.pinned = h.pinned /\ new.fd = fd
  BY <1>1, <1>2, WithFdIs
<1>4. Alters(h, new)
  BY <1>1, <1>3 DEF Alters
<1>5. Keeps(h, new)
  BY <1>1, <1>3 DEF Keeps
<1>. QED
  BY <1>2, <1>4, <1>5

(* A file that turns out to be shorter: there is nothing more to read. *)
LEMMA CutAlters ==
    ASSUME NEW h, Shape(h), h.end <= h.filesize, ~(h.type = "audio" /\ session.seeks # 0)
    PROVE  /\ Alters(h, Cut(h, h.end)) /\ Keeps(h, Cut(h, h.end))
           /\ Alters(h, WithFd(Cut(h, h.end), None)) /\ Keeps(h, WithFd(Cut(h, h.end), None))
           /\ Cut(h, h.end).end >= Cut(h, h.end).filesize
<1>1. /\ h \in HandleType /\ h.start <= h.end /\ h.start <= h.pos /\ h.filesize \in Nat /\ h.end \in Nat
      /\ h.ridx = ringbuf_add(h.data, h.pos - h.start)
      /\ h.fd # None => h.fd = h.end
  BY ShapeSays DEF Shape
<1>2. PICK new : new = Cut(h, h.end)
  OBVIOUS
<1>3. /\ new \in HandleType
      /\ new.at = h.at /\ new.size = h.size /\ new.type = h.type /\ new.data = h.data
      /\ new.widx = h.widx /\ new.start = h.start /\ new.end = h.end /\ new.filesize = h.end
      /\ new.pos = h.pos /\ new.ridx = h.ridx /\ new.pinned = h.pinned /\ new.fd = h.fd
  BY <1>1, <1>2, CutIs
<1>4. Alters(h, new) /\ Keeps(h, new) /\ new.end >= new.filesize
  BY <1>1, <1>3 DEF Alters, Keeps
<1>5. PICK none : none = WithFd(new, None)
  OBVIOUS
<1>6. /\ none \in HandleType
      /\ none.at = h.at /\ none.size = h.size /\ none.type = h.type /\ none.data = h.data
      /\ none.widx = h.widx /\ none.start = h.start /\ none.end = h.end /\ none.filesize = h.end
      /\ none.pos = h.pos /\ none.ridx = h.ridx /\ none.pinned = h.pinned /\ none.fd = None
  <2>1. PICK k \in Nat \cup {None} : k = None
    OBVIOUS
  <2>2. none = WithFd(new, k) /\ new \in HandleType
    BY <1>3, <1>5, <2>1
  <2>3. /\ none \in HandleType
        /\ none.at = new.at /\ none.size = new.size /\ none.type = new.type /\ none.data = new.data
        /\ none.widx = new.widx /\ none.start = new.start /\ none.end = new.end
        /\ none.filesize = new.filesize
        /\ none.pos = new.pos /\ none.ridx = new.ridx /\ none.pinned = new.pinned /\ none.fd = k
    BY <2>2, WithFdIs
  <2>. QED
    BY <1>3, <2>1, <2>3
<1>7. Alters(h, none) /\ Keeps(h, none)
  BY <1>1, <1>6 DEF Alters, Keeps
<1>. QED
  BY <1>2, <1>4, <1>5, <1>7

(* A step that changes only the handle, and goes on. *)
Changes(new) == handle' = [handle EXCEPT ![bt.id] = new] /\ Alters(H, new) /\ Keeps(H, new)

(* A step of buffer_handle that alters its handle.                         *)
LEMMA ChangesInv ==
    ASSUME BufferingInv, NEW new, Changes(new), UNCHANGED Elsewhere, buffer' = buffer,
           bt' \in BtType, bt'.id = bt.id, bt'.then = bt.then, bt'.newpos = bt.newpos,
           bt.pc \in {"open", "metadata", "chunk", "read", "yield"},
           bt'.pc \in {"return", "metadata", "chunk", "yield"},
           bt'.pc = "metadata" => new.type = "id3" /\ new.end = new.start,
           bt'.pc \in {"chunk", "yield"} => new.fd # None
    PROVE  BufferingInv'
<1>1. Linked(bt.id) /\ H = handle[bt.id]
  BY Current
<1>2. HandlesKept /\ handle'[bt.id] = new
  BY <1>1, OneKept DEF Changes
<1>3. StandPart'
  BY <1>1, AlteredPart DEF Changes, Elsewhere
<1>. QED
  BY <1>2, <1>3, Proceeds

(* The file is opened.                                                     *)
LEMMA OpenedInv ==
    ASSUME BufferingInv, Opened
    PROVE  BufferingInv'
<1>1. /\ UNCHANGED Elsewhere /\ buffer' = buffer /\ bt.pc = "open"
      /\ handle' = [handle EXCEPT ![bt.id] = WithFd(H, H.start)]
      /\ bt' = [bt EXCEPT !.pc = IF H.type = "id3" THEN "metadata" ELSE "chunk"]
  BY DEF Opened, Outside, Elsewhere, settings, SetH, Go, WithFd
<1>2. Shape(H) /\ H.start \in Nat /\ bt \in BtType /\ None \notin Nat /\ H \in HandleType
  BY <1>1, Current
<1>3. H.end = H.start
  BY <1>1 DEF BufferingInv, BtPart
<1>4. Changes(WithFd(H, H.start))
  BY <1>1, <1>2, <1>3, FdAlters DEF Changes
<1>5. PICK pc \in {"metadata", "chunk"} : pc = IF H.type = "id3" THEN "metadata" ELSE "chunk"
  OBVIOUS
<1>6. bt' \in BtType /\ bt'.pc = pc /\ bt'.id = bt.id /\ bt'.then = bt.then /\ bt'.newpos = bt.newpos
  BY <1>1, <1>2, <1>5, BtGoes DEF BtPcs
<1>7. /\ WithFd(H, H.start).type = H.type /\ WithFd(H, H.start).fd = H.start
      /\ WithFd(H, H.start).start = H.start /\ WithFd(H, H.start).end = H.end
  BY <1>2, WithFdIs
<1>. QED
  BY <1>1, <1>2, <1>3, <1>4, <1>5, <1>6, <1>7, ChangesInv

(* A file that is sought in can be read. *)
LEMMA BrokenIsNotSought ==
    ASSUME Ordinary, session \in Sessions, NEW id \in 1 .. Len(session.files),
           session.files[id].broken
    PROVE  ~(session.files[id].type = "audio" /\ session.seeks # 0)
BY SessionSays DEF Ordinary

(* Of what fails to be read, no seek is under way.                         *)
LEMMA CannotRead ==
    ASSUME Ordinary, BufferingInv, bt.pc \in {"open", "read"}, session.files[bt.id].broken
    PROVE  ~(H.type = "audio" /\ session.seeks # 0)
<1>1. bt.id \in There /\ H.type = session.files[bt.id].type /\ session \in Sessions
  BY Current DEF BufferingInv, TypePart
<1>2. bt.id \in 1 .. Len(session.files)
  BY <1>1, ThereIs DEF BufferingInv
<1>. QED
  BY <1>1, <1>2, BrokenIsNotSought

(* The file cannot be opened: the handle ends where it is.                 *)
LEMMA OpenFailsInv ==
    ASSUME Ordinary, BufferingInv, OpenFails
    PROVE  BufferingInv'
<1>1. /\ UNCHANGED Elsewhere /\ buffer' = buffer /\ bt.pc = "open"
      /\ handle' = [handle EXCEPT ![bt.id] = Cut(H, H.end)]
      /\ bt' = [bt EXCEPT !.pc = "return", !.stop = ~TRUE]
      /\ session.files[bt.id].broken
  BY DEF OpenFails, Outside, Elsewhere, settings, SetH, Return, Cut
<1>2. Shape(H) /\ H.end = H.start /\ H.start <= H.filesize
  BY <1>1, Current DEF BufferingInv, BtPart
<1>3. ~(H.type = "audio" /\ session.seeks # 0)
  BY <1>1, CannotRead
<1>4. Changes(Cut(H, H.end))
  BY <1>1, <1>2, <1>3, CutAlters DEF Changes
<1>5. bt' \in BtType /\ bt'.pc = "return" /\ bt'.id = bt.id /\ bt'.then = bt.then /\ bt'.newpos = bt.newpos
  BY <1>1, BtReturned, Zenon
<1>. QED
  BY <1>1, <1>4, <1>5, ChangesInv

(* The loop is left. *)
LEMMA Leaves ==
    ASSUME BufferingInv, LeaveWith(H), UNCHANGED Elsewhere, buffer' = buffer, bt.pc \in {"read", "yield"}
    PROVE  BufferingInv'
<1>1. /\ handle' = [handle EXCEPT ![bt.id] = IF H.end >= H.filesize THEN WithFd(H, None) ELSE H]
      /\ bt' = [bt EXCEPT !.pc = "return", !.stop = ~(~bt.stop)]
  BY DEF LeaveWith, SetH, Return, WithFd
<1>2. Shape(H) /\ H \in HandleType /\ H.fd # None
  BY Current DEF BufferingInv, BtPart
<1>3. PICK new : new = IF H.end >= H.filesize THEN WithFd(H, None) ELSE H
  OBVIOUS
<1>4. Alters(H, new) /\ Keeps(H, new)
  <2>1. CASE H.end >= H.filesize
    BY <1>2, <1>3, <2>1, FdAlters
  <2>2. CASE ~(H.end >= H.filesize)
    BY <1>2, <1>3, <2>2, KeepsItself, ShapeSays DEF Alters, Shape
  <2>. QED
    BY <2>1, <2>2
<1>5. bt' \in BtType /\ bt'.pc = "return" /\ bt'.id = bt.id /\ bt'.then = bt.then /\ bt'.newpos = bt.newpos
  BY <1>1, BtReturned, Zenon
<1>. QED
  BY <1>1, <1>3, <1>4, <1>5, ChangesInv DEF Changes

(* A read fails or is short: the handle ends where it is.                  *)
LEMMA ReadFailsInv ==
    ASSUME Ordinary, BufferingInv, ReadFails
    PROVE  BufferingInv'
<1>1. /\ UNCHANGED Elsewhere /\ buffer' = buffer /\ bt.pc = "read" /\ session.files[bt.id].broken
      /\ LeaveWith(IF H.type = "codec" THEN H ELSE Cut(H, H.end))
  BY DEF ReadFails, Outside, Elsewhere, settings, Cut
<1>2. CASE H.type = "codec"
  BY <1>1, <1>2, Leaves
<1>3. CASE H.type # "codec"
  <2>1. Shape(H) /\ H.end \in Nat /\ H.filesize \in Nat /\ bt.copy_n \in Nat
    BY <1>1, Current DEF BtType
  <2>2. H.end <= H.filesize
    BY <1>1, <2>1 DEF BufferingInv, BtPart, ReadRoom
  <2>3. ~(H.type = "audio" /\ session.seeks # 0)
    BY <1>1, CannotRead
  <2>4. /\ handle' = [handle EXCEPT ![bt.id] = WithFd(Cut(H, H.end), None)]
        /\ bt' = [bt EXCEPT !.pc = "return", !.stop = ~(~bt.stop)]
    BY <1>1, <1>3, <2>1, <2>2, <2>3, CutAlters DEF LeaveWith, SetH, Return, WithFd
  <2>5. Changes(WithFd(Cut(H, H.end), None))
    BY <2>1, <2>2, <2>3, <2>4, CutAlters DEF Changes
  <2>6. bt' \in BtType /\ bt'.pc = "return" /\ bt'.id = bt.id /\ bt'.then = bt.then /\ bt'.newpos = bt.newpos
    BY <2>4, BtReturned, Zenon
  <2>. QED
    BY <1>1, <2>5, <2>6, ChangesInv
<1>. QED
  BY <1>2, <1>3

(* The thread has yielded between two chunks.                              *)
LEMMA YieldedInv ==
    ASSUME BufferingInv, Yielded
    PROVE  BufferingInv'
<1>1. /\ UNCHANGED Elsewhere /\ buffer' = buffer /\ bt.pc = "yield"
      /\ \/ LeaveWith(H)
         \/ /\ bt' = BtReadingOn(bt, IF bt.to_buffer = 0 THEN 0 ELSE bt.to_buffer - bt.copy_n)
            /\ handle' = handle
  BY DEF Yielded, Outside, Elsewhere, settings, BtReadingOn
<1>2. CASE LeaveWith(H)
  BY <1>1, <1>2, Leaves
<1>3. CASE bt' = BtReadingOn(bt, IF bt.to_buffer = 0 THEN 0 ELSE bt.to_buffer - bt.copy_n) /\ handle' = handle
  <2>1. bt \in BtType /\ H.fd # None /\ H = handle[bt.id]
    BY <1>1, Current DEF BufferingInv, BtPart
  <2>2. PICK n \in Int : n = IF bt.to_buffer = 0 THEN 0 ELSE bt.to_buffer - bt.copy_n
    BY <2>1 DEF BtType
  <2>3. /\ bt' \in BtType /\ bt'.pc = "chunk" /\ bt'.id = bt.id /\ bt'.then = bt.then
        /\ bt'.newpos = bt.newpos
    BY <1>3, <2>1, <2>2, BtReadsOn
  <2>4. HandlesKept
    BY <1>3, NoneKept
  <2>5. StandPart'
    BY <1>1, <1>3 DEF BufferingInv, StandPart, Elsewhere, There
  <2>. QED
    BY <1>1, <1>3, <2>1, <2>3, <2>4, <2>5, Proceeds
<1>. QED
  BY <1>1, <1>2, <1>3

(* The same handle with more, or all, of its file. *)
ReadTo(h, w, e, fd) == [h EXCEPT !.widx = w, !.end = e, !.fd = fd]

(* The fields of a handle that was read on.                                *)
LEMMA ReadToIs ==
    ASSUME NEW h \in HandleType, NEW w \in Addresses, NEW e \in Nat, NEW fd \in Nat \cup {None}
    PROVE  LET new == ReadTo(h, w, e, fd)
           IN  /\ new \in HandleType
               /\ new.at = h.at /\ new.size = h.size /\ new.type = h.type /\ new.data = h.data
               /\ new.widx = w /\ new.start = h.start /\ new.end = e /\ new.filesize = h.filesize
               /\ new.pos = h.pos /\ new.ridx = h.ridx /\ new.pinned = h.pinned /\ new.fd = fd
BY DEF ReadTo, HandleType

(* A read arrives.                                                         *)
LEMMA ReadDoneInv ==
    ASSUME BufferingInv, ReadDone
    PROVE  BufferingInv'
<1>. DEFINE n == bt.copy_n
            new == ReadTo(H, ringbuf_add(H.widx, n), H.end + n, H.fd + n)
<1>1. /\ UNCHANGED Elsewhere /\ bt.pc = "read"
      /\ buffer' = WithBytes(buffer, H.widx, bt.id, H.fd, n)
      /\ handle' = [handle EXCEPT ![bt.id] = new]
      /\ bt' = [bt EXCEPT !.pc = "yield"]
  BY DEF ReadDone, Outside, Elsewhere, settings, SetH, Go, ReadTo
<1>2. /\ Linked(bt.id) /\ bt.id \in There /\ H = handle[bt.id] /\ Shape(H) /\ H \in HandleType
      /\ H.end \in Nat /\ H.filesize \in Nat /\ bt \in BtType /\ n \in Nat /\ H.start <= H.end
  BY <1>1, Current DEF BtType
<1>3. /\ H.fd # None /\ n # 0 /\ H.end + n <= H.filesize /\ Ext(H) + n <= buffer_len
      /\ \A b \in There : b # bt.id => Ext(H) + n <= Gap(H.at, handle[b].at)
  BY <1>1 DEF BufferingInv, BtPart, ReadRoom
<1>4. H.fd = H.end
  BY <1>2, <1>3 DEF Shape
<1>5. H.widx \in Addresses /\ Ext(H) \in Nat /\ buffer_len \in Nat
  BY <1>2, ShapeSays, RingAssumption
<1>6. ringbuf_add(H.widx, n) \in Addresses
  <2>1. n \in 0 .. buffer_len
    BY <1>2, <1>3, <1>5
  <2>. QED
    BY <2>1, <1>5, Further
<1>7. /\ new \in HandleType
      /\ new.at = H.at /\ new.size = H.size /\ new.type = H.type /\ new.data = H.data
      /\ new.widx = ringbuf_add(H.widx, n) /\ new.start = H.start /\ new.end = H.end + n
      /\ new.filesize = H.filesize
      /\ new.pos = H.pos /\ new.ridx = H.ridx /\ new.pinned = H.pinned /\ new.fd = H.end + n
  <2>1. H.end + n \in Nat /\ H.fd + n = H.end + n
    BY <1>2, <1>4
  <2>2. PICK w, e : w = ringbuf_add(H.widx, n) /\ e = H.end + n
    OBVIOUS
  <2>3. w \in Addresses /\ e \in Nat /\ e \in Nat \cup {None} /\ new = ReadTo(H, w, e, e)
    BY <1>6, <2>1, <2>2
  <2>. HIDE DEF new
  <2>4. H \in HandleType /\ w \in Addresses /\ e \in Nat /\ e \in Nat \cup {None}
    BY <1>2, <2>3
  <2>5. /\ new \in HandleType
        /\ new.at = H.at /\ new.size = H.size /\ new.type = H.type /\ new.data = H.data
        /\ new.widx = w /\ new.start = H.start /\ new.end = e /\ new.filesize = H.filesize
        /\ new.pos = H.pos /\ new.ridx = H.ridx /\ new.pinned = H.pinned /\ new.fd = e
    BY <2>3, <2>4, ReadToIs
  <2>. QED
    BY <2>2, <2>5
<1>. HIDE DEF new
<1>8. Reads(H, new, n) /\ Keeps(H, new)
  <2>1. Reads(H, new, n)
    BY <1>2, <1>3, <1>7 DEF Reads
  <2>2. H.end <= H.end + n
    BY <1>2
  <2>3. Keeps(H, new)
    BY <1>7, <2>2 DEF Keeps
  <2>. QED
    BY <2>1, <2>3
<1>9. HandlesKept /\ handle'[bt.id] = new /\ \A b \in There : b # bt.id => handle'[b] = handle[b]
  BY <1>1, <1>2, <1>8, OneKept
<1>10. StandPart'
  <2>1. Stands(buffer, handle, There) /\ There' = There
    BY <1>1 DEF BufferingInv, StandPart, There, Elsewhere
  <2>2. Stands(WithBytes(buffer, H.widx, bt.id, H.end, n), handle', There)
    BY <1>2, <1>3, <1>8, <1>9, <2>1, ReadStands
  <2>3. Stands(buffer', handle', There)
    BY <1>1, <1>4, <2>2
  <2>. QED
    BY <2>1, <2>3 DEF StandPart
<1>11. bt' \in BtType /\ bt'.pc = "yield" /\ bt'.id = bt.id /\ bt'.then = bt.then /\ bt'.newpos = bt.newpos
  BY <1>1, <1>2, BtGoes DEF BtPcs
<1>12. new.fd # None
  <2>1. H.end + n \in Nat /\ None \notin Nat
    BY <1>2, BufferingAssumption
  <2>. QED
    BY <1>7, <2>1
<1>. QED
  BY <1>1, <1>9, <1>10, <1>11, <1>12, Proceeds

(* get_metadata fills a metadata handle.                                   *)
LEMMA MetadataReadInv ==
    ASSUME BufferingInv, MetadataRead
    PROVE  BufferingInv'
<1>. DEFINE n == H.filesize
            new == ReadTo(H, ringbuf_add(H.data, n), n, None)
<1>1. /\ UNCHANGED Elsewhere /\ bt.pc = "metadata"
      /\ buffer' = WithBytes(buffer, H.data, bt.id, 0, n)
      /\ handle' = [handle EXCEPT ![bt.id] = [H EXCEPT !.fd = None, !.widx = ringbuf_add(H.data, H.filesize),
                                                       !.end = H.filesize]]
      /\ bt' = [bt EXCEPT !.pc = "return", !.stop = ~TRUE]
  BY DEF MetadataRead, Outside, Elsewhere, settings, SetH, Return
<1>2. /\ Linked(bt.id) /\ bt.id \in There /\ H = handle[bt.id] /\ Shape(H) /\ H \in HandleType
      /\ H.end \in Nat /\ n \in Nat /\ H.start \in Nat /\ bt \in BtType /\ H.start <= n
  BY <1>1, Current
<1>3. H.type = "id3" /\ H.end = H.start /\ AllocAll(H.type) /\ H.start = 0
  BY <1>1, <1>2 DEF BufferingInv, BtPart, AllocAll, Shape
<1>4. H.data \in Addresses /\ n <= buffer_len
  <2>1. HasRoom(handle, There, bt.id)
    BY <1>2, <1>3, ThereIs DEF BufferingInv, Laid, RoomForAll
  <2>2. Whole(H) <= buffer_len /\ Whole(H) = Off(H) + (H.filesize - H.start) /\ Off(H) \in 1 .. buffer_len - 1
        /\ buffer_len \in Nat /\ H.data \in Addresses
    BY <1>2, <2>1, ShapeSays, RingAssumption DEF HasRoom
  <2>. QED
    BY <1>2, <1>3, <2>2
<1>5. ringbuf_add(H.data, n) \in Addresses
  <2>1. n \in 0 .. buffer_len
    BY <1>2, <1>4, RingAssumption
  <2>. QED
    BY <2>1, <1>4, Further
<1>6. handle' = [handle EXCEPT ![bt.id] = new]
  <2>1. [H EXCEPT !.fd = None, !.widx = ringbuf_add(H.data, H.filesize), !.end = H.filesize] = new
    BY <1>2 DEF ReadTo, HandleType
  <2>. QED
    BY <1>1, <2>1
<1>7. /\ new \in HandleType
      /\ new.at = H.at /\ new.size = H.size /\ new.type = H.type /\ new.data = H.data
      /\ new.widx = ringbuf_add(H.data, n) /\ new.start = H.start /\ new.end = n
      /\ new.filesize = n
      /\ new.pos = H.pos /\ new.ridx = H.ridx /\ new.pinned = H.pinned /\ new.fd = None
  <2>1. PICK k \in Nat \cup {None} : k = None
    OBVIOUS
  <2>2. PICK w, e : w = ringbuf_add(H.data, n) /\ e = n
    OBVIOUS
  <2>3. w \in Addresses /\ e \in Nat /\ new = ReadTo(H, w, e, k)
    BY <1>2, <1>5, <2>1, <2>2
  <2>. HIDE DEF new
  <2>4. H \in HandleType /\ w \in Addresses /\ e \in Nat
    BY <1>2, <2>3
  <2>5. /\ new \in HandleType
        /\ new.at = H.at /\ new.size = H.size /\ new.type = H.type /\ new.data = H.data
        /\ new.widx = w /\ new.start = H.start /\ new.end = e /\ new.filesize = H.filesize
        /\ new.pos = H.pos /\ new.ridx = H.ridx /\ new.pinned = H.pinned /\ new.fd = k
    BY <2>1, <2>3, <2>4, ReadToIs
  <2>. QED
    BY <2>1, <2>2, <2>5
<1>. HIDE DEF new
<1>8. Loads(H, new, n) /\ Keeps(H, new)
  <2>1. Loads(H, new, n)
    BY <1>2, <1>3, <1>7 DEF Loads
  <2>2. H.end <= n
    BY <1>2, <1>3
  <2>3. Keeps(H, new)
    BY <1>7, <2>2 DEF Keeps
  <2>. QED
    BY <2>1, <2>3
<1>9. HandlesKept /\ handle'[bt.id] = new /\ \A b \in There : b # bt.id => handle'[b] = handle[b]
  BY <1>2, <1>6, <1>8, OneKept
<1>10. StandPart'
  <2>1. Stands(buffer, handle, There) /\ There' = There
    BY <1>1 DEF BufferingInv, StandPart, There, Elsewhere
  <2>2. Stands(WithBytes(buffer, H.data, bt.id, 0, n), handle', There)
    BY <1>2, <1>8, <1>9, <2>1, LoadedStands
  <2>3. Stands(buffer', handle', There)
    BY <1>1, <2>2
  <2>. QED
    BY <2>1, <2>3 DEF StandPart
<1>11. bt' \in BtType /\ bt'.pc = "return" /\ bt'.id = bt.id /\ bt'.then = bt.then /\ bt'.newpos = bt.newpos
  BY <1>1, BtReturned, Zenon
<1>. QED
  BY <1>1, <1>9, <1>10, <1>11, Proceeds

-----------------------------------------------------------------------------
(* What the buffering thread does with a message, and on its return.       *)

(* Q_HANDLE_ADDED                                                          *)
LEMMA HandleAddedInv ==
    ASSUME BufferingInv, HandleAdded
    PROVE  BufferingInv'
<1>1. /\ UNCHANGED <<buffer, handle, handle_list, nextId, audio, codec, asked, base_handle_id, session>>
      /\ bt.pc = "wait" /\ queue # <<>> /\ queue' = Tail(queue)
      /\ filling' = TRUE /\ bt' = [AtQueue EXCEPT !.pc = "tail"]
  BY DEF HandleAdded, Message, memory, Untouched, settings, GoTail
<1>2. asked' \in Seq({"low", "rebuffer"}) /\ filling' \in BOOLEAN
  BY <1>1 DEF BufferingInv, TypePart
<1>3. ~Trying /\ AtRest(bt') /\ ~(Trying')
  BY <1>1, AtRestIs DEF Trying, BufferingInv, BtPart, AtRest
<1>4. BtPart' /\ bt' \in BtType
  BY <1>3 DEF BtPart, AtRest
<1>5. HandlesKept /\ CodecGoes /\ SeekGoes
  BY <1>1, <1>3, NoneKept, CodecStays DEF SeekGoes
<1>6. QueuePart' /\ queue' \in Seq(MessageType)
  BY <1>1, <1>3, <1>5, KeptQueue
<1>7. StandPart'
  BY <1>1 DEF BufferingInv, StandPart, There
<1>. QED
  BY <1>1, <1>2, <1>4, <1>5, <1>6, <1>7, KeptInv

(* While a seek is under way the codec thread waits for it: it has sent    *)
(* nothing else.                                                           *)
LEMMA SeekingQueue ==
    ASSUME BufferingInv, Trying, queue' = queue, UNCHANGED audio, codec'.id = codec.id
    PROVE  QueuePart' /\ queue' \in Seq(MessageType)
<1>1. ASSUME NEW i \in DOMAIN queue'
      PROVE  \E m : m = queue'[i] /\ MessageOK(m)'
  <2>1. PICK m : m = queue[i] /\ MessageOK(m)
    BY DEF BufferingInv, QueuePart
  <2>2. m.from # "codec"
    BY <2>1 DEF MessageOK
  <2>3. MessageOK(m)'
    BY <2>1, <2>2 DEF MessageOK
  <2>. QED
    BY <2>1, <2>3
<1>2. Single(queue') /\ queue' \in Seq(MessageType)
  BY DEF BufferingInv, QueuePart, TypePart
<1>. QED
  BY <1>1, <1>2, QueueIs

CodecAtPc(pc) == [codec EXCEPT !.pc = pc]

(* The buffering thread answers the codec.                                 *)
LEMMA CodecReplied ==
    ASSUME BufferingInv, NEW pc \in {"idle", "sleeping"}, codec.pc # "idle", codec' = [codec EXCEPT !.pc = pc]
    PROVE  CodecGoes /\ codec'.pc = pc
<1>1. codec \in CodecType
  BY DEF BufferingInv, TypePart
<1>2. /\ codec' \in CodecType /\ codec'.pc = pc
      /\ codec'.id = codec.id /\ codec'.held = codec.held /\ codec'.pos = codec.pos
      /\ codec'.ridx = codec.ridx
  BY <1>1 DEF CodecType
<1>. QED
  BY <1>2 DEF CodecGoes

(* buffer_handle is called for a message.                                  *)
LEMMA EnteringIs ==
    ASSUME NEW id \in Nat, NEW then \in {"tail", "start"}, bt' = [AtQueue EXCEPT !.pc = "enter", !.id = id, !.to_buffer = 0, !.then = then]
    PROVE  bt' \in BtType /\ BtPart' /\ ~(Trying')
<1>1. AtQueue \in BtType /\ 0 \in Int /\ then \in {"tail", "start", "try", "fill"}
  BY AtQueueIs
<1>2. bt' = BtEntering(AtQueue, id, 0, then)
  BY DEF BtEntering
<1>3. bt' \in BtType /\ bt'.pc = "enter" /\ bt'.id = id /\ bt'.then = then
  BY <1>1, <1>2, BtEnters
<1>4. ~(Trying')
  BY <1>3 DEF Trying
<1>. QED
  BY <1>3, <1>4 DEF BtPart

(* buffer_handle returns to a short seek, which has succeeded or resets    *)
(* the handle.                                                             *)
LEMMA TryReturnsInv ==
    ASSUME BufferingInv, TryReturns
    PROVE  BufferingInv'
<1>1. /\ UNCHANGED <<buffer, handle, handle_list, nextId, audio, queue, asked, filling, base_handle_id, session>>
      /\ bt.pc = "return" /\ bt.then = "try"
  BY DEF TryReturns, memory, Untouched, settings
<1>2. asked' \in Seq({"low", "rebuffer"}) /\ filling' \in BOOLEAN /\ bt \in BtType
  BY <1>1 DEF BufferingInv, TypePart
<1>3. Trying /\ Linked(bt.id) /\ codec.pc = "calling" /\ bt.newpos <= H.filesize
  BY <1>1 DEF Trying, BufferingInv, BtPart
<1>4. HandlesKept /\ StandPart' /\ H' = IF bt'.id = bt.id THEN H ELSE H'
  BY <1>1, NoneKept DEF BufferingInv, StandPart, There, H
<1>5. bt.id \in Nat /\ bt.newpos \in Nat /\ H.filesize \in Nat
  BY <1>2, <1>3, ThereIs DEF BtType, BufferingInv, H, HandleType, Linked
<1>6. CASE ~bt.stop /\ H.end >= H.pos
  <2>1. /\ codec' = [codec EXCEPT !.pc = "idle"]
        /\ bt' = [AtQueue EXCEPT !.pc = "enter", !.id = bt.id, !.to_buffer = 0, !.then = "tail"]
    BY <1>6 DEF TryReturns, ReplyCodec, buffer_handle
  <2>2. bt' \in BtType /\ BtPart' /\ ~(Trying')
    BY <1>5, <2>1, EnteringIs, Zenon
  <2>3. CodecGoes /\ codec'.id = codec.id
    BY <1>3, <2>1, CodecReplied DEF CodecGoes
  <2>4. QueuePart' /\ queue' \in Seq(MessageType)
    BY <1>1, <1>3, <2>3, SeekingQueue
  <2>5. H.pos <= H.end /\ handle'[bt.id] = H
    <3>1. H.pos \in Nat /\ H.end \in Nat
      BY <1>3, ThereIs DEF BufferingInv, H, HandleType, Linked
    <3>. QED
      BY <1>1, <1>6, <3>1 DEF H
  <2>6. SeekGoes
    BY <2>2, <2>5 DEF SeekGoes
  <2>. QED
    BY <1>1, <1>2, <1>4, <2>2, <2>3, <2>4, <2>6, KeptInv
<1>7. CASE ~(~bt.stop /\ H.end >= H.pos)
  <2>1. codec' = codec /\ bt' = [bt EXCEPT !.pc = "reset", !.newpos = Least(bt.newpos, H.filesize)]
    BY <1>7 DEF TryReturns
  <2>2. PICK n \in Nat : n = Least(bt.newpos, H.filesize) /\ n <= H.filesize
    BY <1>5, LeastIs
  <2>3. bt' \in BtType /\ bt'.pc = "reset" /\ bt'.id = bt.id /\ bt'.then = bt.then /\ bt'.newpos = n
    <3>1. bt' = BtRetrying(bt, n) /\ bt \in BtType
      BY <1>2, <2>1, <2>2 DEF BtRetrying
    <3>. QED
      BY <3>1, <2>2, BtRetries
  <2>4. Trying' /\ H' = H
    BY <1>1, <2>3 DEF Trying, H
  <2>5. BtPart'
    BY <1>1, <1>3, <2>1, <2>2, <2>3, <2>4 DEF BtPart, BufferingInv, Linked
  <2>6. CodecGoes /\ SeekGoes
    BY <1>3, <2>1, <2>3, <2>4, CodecStays DEF SeekGoes
  <2>7. QueuePart' /\ queue' \in Seq(MessageType)
    BY <1>1, <1>3, <2>1, SeekingQueue
  <2>. QED
    BY <1>1, <1>2, <1>4, <2>3, <2>5, <2>6, <2>7, KeptInv
<1>. QED
  BY <1>6, <1>7

-----------------------------------------------------------------------------
(* The codec's handle goes to another place in its file.                   *)

SoughtTo(h, new) ==
    /\ new \in HandleType /\ new.type = h.type /\ new.filesize = h.filesize /\ new.pinned = h.pinned
    /\ new.pos <= new.filesize

Sought(x, new) ==
    /\ x = codec.id /\ x # 0
    /\ SoughtTo(handle[x], new) /\ (new.pos <= new.end \/ (Trying' /\ x = bt'.id))
    /\ handle' = [handle EXCEPT ![x] = new]
    /\ codec' \in CodecType /\ codec'.id = codec.id /\ codec'.held = 0

(* A seek moves the codec's read position.                                 *)
LEMMA SoughtInv ==
    ASSUME BufferingInv, NEW x, NEW new, Sought(x, new),
           UNCHANGED <<handle_list, nextId, session, base_handle_id, audio>>,
           bt' \in BtType, asked' \in Seq({"low", "rebuffer"}), filling' \in BOOLEAN,
           queue' \in Seq(MessageType),
           StandPart', BtPart', QueuePart'
    PROVE  BufferingInv'
<1>1. There' = There
  BY DEF There
<1>2. Linked(x) /\ x \in There /\ There \subseteq Ids /\ handle \in [Ids -> HandleType]
  BY ThereIs DEF BufferingInv, CodecPart, Sought, TypePart, There, Linked
<1>3. /\ handle' \in [Ids -> HandleType] /\ handle'[x] = new
      /\ \A b \in There : b # x => handle'[b] = handle[b]
      /\ new \in HandleType /\ new.type = handle[x].type /\ new.pinned = handle[x].pinned
      /\ new.pos <= new.filesize
  BY <1>2 DEF Sought, SoughtTo
<1>4. TypePart'
  BY <1>3 DEF BufferingInv, TypePart, Sought
<1>5. \A b \in There : handle'[b].type = handle[b].type
  BY <1>3
<1>6. ListPart'
  <2>1. audio.pc = "loading" => audio.id # x /\ audio.id \in There
    BY <1>2 DEF BufferingInv, ListPart, Linked, There
  <2>2. \A b \in ToSet(handle_list) : handle'[b].type = handle[b].type
    BY <1>5 DEF There
  <2>. QED
    BY <1>3, <2>1, <2>2 DEF BufferingInv, ListPart
<1>7. CursorPart'
  <2>1. Trying => bt.id = x
    BY DEF BufferingInv, BtPart, Sought
  <2>2. ASSUME NEW b \in There
        PROVE  /\ handle'[b].pos <= handle'[b].filesize
               /\ handle'[b].pos <= handle'[b].end \/ (Trying' /\ b = bt'.id)
    <3>1. CASE b = x
      BY <1>3, <3>1 DEF Sought
    <3>2. CASE b # x
      BY <1>3, <2>1, <3>2 DEF BufferingInv, CursorPart
    <3>. QED
      BY <3>1, <3>2
  <2>. QED
    BY <1>1, <2>2 DEF CursorPart
<1>8. AudioPart'
  BY DEF BufferingInv, AudioPart, Sought
<1>9. CodecPart'
  <2>1. C' = new /\ C = handle[x]
    BY <1>3 DEF C, Sought
  <2>2. C.type \in {"audio", "atomic", "codec"} /\ (C.type # "codec" => C.pinned) /\ codec.id # 0
    BY DEF BufferingInv, CodecPart, Sought
  <2>3. Linked(codec.id)'
    BY <1>2 DEF Linked, Sought
  <2>4. codec'.id # 0 /\ codec'.held = 0
    BY DEF Sought
  <2>5. C'.type \in {"audio", "atomic", "codec"} /\ (C'.type # "codec" => C'.pinned)
    BY <1>3, <2>1, <2>2
  <2>. QED
    BY <2>3, <2>4, <2>5 DEF CodecPart
<1>. QED
  BY <1>4, <1>6, <1>7, <1>8, <1>9 DEF BufferingInv

(* The read position is set. *)
WithPos(h, ridx, pos) == [h EXCEPT !.ridx = ridx, !.pos = pos]

(* The fields of a handle whose read position was moved.                   *)
LEMMA WithPosIs ==
    ASSUME NEW h \in HandleType, NEW ridx \in Nat, NEW pos \in Nat
    PROVE  LET new == WithPos(h, ridx, pos)
           IN  /\ new \in HandleType
               /\ new.at = h.at /\ new.size = h.size /\ new.type = h.type /\ new.data = h.data
               /\ new.widx = h.widx /\ new.start = h.start /\ new.end = h.end /\ new.filesize = h.filesize
               /\ new.pos = pos /\ new.ridx = ridx /\ new.pinned = h.pinned /\ new.fd = h.fd
BY DEF WithPos, HandleType

(* An index, whatever is added, is a number.                               *)
LEMMA AnyIndex ==
    ASSUME NEW p \in Addresses, NEW v \in Nat
    PROVE  ringbuf_add(p, v) \in Nat
<1>1. PICK s \in Nat : s = p + v
  BY RingAssumption DEF Addresses
<1>2. PICK w \in Nat \ {0} : w = Word
  BY RingAssumption
<1>3. PICK r \in Nat : r = s % w
  OBVIOUS
<1>4. ringbuf_add(p, v) = IF r >= buffer_len THEN r - buffer_len ELSE r
  BY <1>1, <1>2, <1>3 DEF ringbuf_add
<1>. QED
  BY <1>3, <1>4, RingAssumption

(* A read position moved within the file leaves the rest of the handle.    *)
LEMMA PositionedIs ==
    ASSUME NEW h, Shape(h), NEW pos \in Nat, h.start <= pos, pos <= h.filesize,
           NEW new, new = WithPos(h, ringbuf_add(h.data, pos - h.start), pos)
    PROVE  Alters(h, new) /\ SoughtTo(h, new) /\ new.pos = pos /\ new.end = h.end /\ new.type = h.type
           /\ new.filesize = h.filesize
<1>1. /\ h \in HandleType /\ h.start <= h.filesize /\ h.start \in Nat /\ h.filesize \in Nat /\ h.end \in Nat
      /\ h.fd # None => h.fd = h.end
      /\ h.fd = None => h.end >= h.filesize \/ h.end = h.start
      /\ h.data \in Addresses
  BY ShapeSays DEF Shape
<1>2. PICK n \in Nat : n = pos - h.start
  BY <1>1
<1>3. PICK r \in Nat : r = ringbuf_add(h.data, pos - h.start)
  BY <1>1, <1>2, AnyIndex
<1>4. new = WithPos(h, r, pos)
  BY <1>3
<1>5. /\ new \in HandleType
      /\ new.at = h.at /\ new.size = h.size /\ new.type = h.type /\ new.data = h.data
      /\ new.widx = h.widx /\ new.start = h.start /\ new.end = h.end /\ new.filesize = h.filesize
      /\ new.pos = pos /\ new.ridx = r /\ new.pinned = h.pinned /\ new.fd = h.fd
  <2>1. h \in HandleType /\ r \in Nat /\ pos \in Nat
    BY <1>1
  <2>2. PICK p \in Nat : p = pos
    OBVIOUS
  <2>3. new = WithPos(h, r, p)
    BY <1>4, <2>2
  <2>4. /\ new \in HandleType
        /\ new.at = h.at /\ new.size = h.size /\ new.type = h.type /\ new.data = h.data
        /\ new.widx = h.widx /\ new.start = h.start /\ new.end = h.end /\ new.filesize = h.filesize
        /\ new.pos = p /\ new.ridx = r /\ new.pinned = h.pinned /\ new.fd = h.fd
    <3>1. LET w == WithPos(h, r, p)
          IN  /\ w \in HandleType
              /\ w.at = h.at /\ w.size = h.size /\ w.type = h.type /\ w.data = h.data
              /\ w.widx = h.widx /\ w.start = h.start /\ w.end = h.end /\ w.filesize = h.filesize
              /\ w.pos = p /\ w.ridx = r /\ w.pinned = h.pinned /\ w.fd = h.fd
      BY <2>1, WithPosIs
    <3>. QED
      BY <2>3, <3>1
  <2>. QED
    BY <2>2, <2>4
<1>6. Alters(h, new)
  BY <1>1, <1>3, <1>5 DEF Alters
<1>7. SoughtTo(h, new)
  BY <1>5 DEF SoughtTo
<1>. QED
  BY <1>5, <1>6, <1>7

(* What the codec's message says of the codec.                             *)
LEMMA CodecMessage ==
    ASSUME BufferingInv, queue # <<>>, Head(queue).from = "codec"
    PROVE  /\ Head(queue).id = codec.id /\ codec.pc = "calling" /\ ~Trying /\ codec.id # 0
           /\ codec.held = 0 /\ Linked(codec.id) /\ codec.id \in There /\ codec.id \in Nat
           /\ Shape(C) /\ C = handle[codec.id] /\ codec \in CodecType
           /\ Head(queue).ev = "rebuffer" => RebufferOK(Head(queue).pos)
           /\ Head(queue).pos \in Nat
<1>1. Head(queue) \in MessageType /\ MessageOK(Head(queue))
  BY TailIs DEF BufferingInv, TypePart, QueuePart
<1>2. codec \in CodecType
  BY DEF BufferingInv, TypePart
<1>3. Head(queue).id = codec.id /\ codec.pc = "calling" /\ ~Trying
      /\ (Head(queue).ev = "rebuffer" => RebufferOK(Head(queue).pos))
  BY <1>1 DEF MessageOK
<1>4. codec.id # 0 /\ codec.held = 0 /\ Linked(codec.id)
  BY <1>3 DEF BufferingInv, CodecPart
<1>5. codec.id \in There /\ Shape(C) /\ C = handle[codec.id]
  BY <1>4, ThereIs DEF BufferingInv, C, There, Linked
<1>. QED
  BY <1>1, <1>2, <1>3, <1>4, <1>5 DEF CodecType, MessageType

(* Q_REBUFFER_HANDLE: a seek inside the data, a short seek ahead, or a     *)
(* reset.                                                                  *)
LEMMA RebufferHandleInv ==
    ASSUME BufferingInv, RebufferHandle
    PROVE  BufferingInv'
<1>. DEFINE id == Msg.id
            newpos == Msg.pos
            h == handle[id]
            new == WithPos(h, ringbuf_add(h.data, newpos - h.start), newpos)
<1>1. /\ UNCHANGED <<buffer, handle_list, nextId, audio, asked, filling, base_handle_id, session>>
      /\ bt.pc = "wait" /\ queue # <<>> /\ Head(queue).ev = "rebuffer" /\ queue' = Tail(queue)
  BY DEF RebufferHandle, Message, Untouched, settings
<1>2. asked' \in Seq({"low", "rebuffer"}) /\ filling' \in BOOLEAN
  BY <1>1 DEF BufferingInv, TypePart
<1>3. Head(queue).from = "codec"
  BY <1>1, TailIs DEF BufferingInv, TypePart, QueuePart, MessageOK
<1>4. /\ id = codec.id /\ codec.pc = "calling" /\ ~Trying /\ id # 0 /\ codec.held = 0
      /\ Linked(id) /\ id \in There /\ id \in Nat /\ Shape(h) /\ C = h /\ newpos \in Nat
      /\ codec \in CodecType /\ RebufferOK(newpos)
  BY <1>1, <1>3, CodecMessage, SMTT(30) DEF Msg
<1>5. /\ h.start \in Nat /\ h.pos \in Nat /\ h.end \in Nat /\ h.filesize \in Nat /\ h.start <= h.pos
      /\ newpos <= h.filesize
      /\ (h.type = "audio" /\ session.seeks # 0) \/ (h.pos <= newpos /\ newpos <= h.end)
      /\ h \in HandleType /\ handle \in [Ids -> HandleType] /\ id \in Ids
  BY <1>4, ThereIs, ShapeSays DEF RebufferOK, Shape, BufferingInv, TypePart
<1>6. [handle EXCEPT ![id].ridx = ringbuf_add(h.data, newpos - h.start), ![id].pos = newpos]
        = [handle EXCEPT ![id] = new]
  BY <1>5 DEF WithPos, HandleType
<1>7. CASE newpos \in h.start .. h.end
  <2>1. /\ codec' = [codec EXCEPT !.pc = "idle"] /\ bt' = [AtQueue EXCEPT !.pc = "tail"]
        /\ handle' = [handle EXCEPT ![id] = new]
    BY <1>4, <1>6, <1>7 DEF RebufferHandle, ReplyCodec, GoTail
  <2>2. newpos <= h.end /\ h.start <= newpos
    BY <1>4, <1>5, <1>7
  <2>3. Alters(h, new) /\ SoughtTo(h, new) /\ new.pos = newpos /\ new.end = h.end
    BY <1>4, <1>5, <2>2, PositionedIs
  <2>. HIDE DEF new
  <2>4. CodecGoes
    BY <1>4, <2>1, CodecReplied
  <2>5. Sought(id, new)
    BY <1>4, <2>1, <2>2, <2>3, <2>4 DEF Sought, CodecGoes
  <2>6. StandPart'
    BY <1>1, <1>4, <2>1, <2>3, AlteredPart
  <2>7. QueuePart' /\ queue' \in Seq(MessageType)
    BY <1>1, <1>3, <2>4, RepliedQueue DEF CodecGoes
  <2>8. AtRest(bt') /\ bt' \in BtType
    BY <2>1, AtRestIs DEF AtRest
  <2>9. BtPart'
    BY <2>8 DEF BtPart, AtRest, Trying
  <2>. QED
    BY <1>1, <1>2, <2>5, <2>6, <2>7, <2>8, <2>9, SoughtInv
<1>8. CASE newpos \notin h.start .. h.end
  <2>1. h.type = "audio" /\ session.seeks # 0
    BY <1>4, <1>5, <1>8
  <2>2. AtQueue \in BtType
    BY AtQueueIs
  <2>3. CASE newpos - h.pos \in 1 .. Chunk
    <3>1. /\ codec' = codec /\ handle' = [handle EXCEPT ![id] = new]
          /\ bt' = [AtQueue EXCEPT !.pc = "enter", !.id = id, !.then = "try",
                            !.to_buffer = newpos - h.pos + 1, !.newpos = newpos]
      BY <1>4, <1>6, <1>8, <2>3 DEF RebufferHandle
    <3>2. h.start <= newpos
      BY <1>4, <1>5, <2>3
    <3>3. /\ Alters(h, new) /\ SoughtTo(h, new) /\ new.pos = newpos /\ new.end = h.end
          /\ new.type = h.type /\ new.filesize = h.filesize
      BY <1>4, <1>5, <3>2, PositionedIs
    <3>. HIDE DEF new
    <3>4. bt' \in BtType /\ bt'.pc = "enter" /\ bt'.id = id /\ bt'.then = "try" /\ bt'.newpos = newpos
      <4>1. PICK n \in Int : n = newpos - h.pos + 1
        BY <1>4, <1>5
      <4>2. bt' = BtTrying(AtQueue, id, n, newpos)
        BY <3>1, <4>1 DEF BtTrying
      <4>3. PICK i \in Nat, p \in Nat : i = id /\ p = newpos
        BY <1>4
      <4>4. bt' = BtTrying(AtQueue, i, n, p)
        BY <4>2, <4>3
      <4>5. bt' \in BtType /\ bt'.pc = "enter" /\ bt'.id = i /\ bt'.then = "try" /\ bt'.newpos = p
        BY <2>2, <4>4, BtTries
      <4>. QED
        BY <4>3, <4>5
    <3>5. Trying'
      BY <3>4 DEF Trying
    <3>6. Sought(id, new)
      BY <1>4, <3>1, <3>3, <3>4, <3>5 DEF Sought
    <3>7. StandPart'
      BY <1>1, <1>4, <3>1, <3>3, AlteredPart
    <3>8. QueuePart' /\ queue' \in Seq(MessageType)
      BY <1>1, <1>3, <3>1, RepliedQueue
    <3>9. BtPart'
      <4>1. H' = new
        BY <1>5, <3>1, <3>4 DEF H
      <4>2. Linked(bt.id)'
        BY <1>1, <1>4, <3>4 DEF Linked
      <4>. QED
        BY <1>1, <1>4, <1>5, <2>1, <3>1, <3>3, <3>4, <4>1, <4>2 DEF BtPart
    <3>. QED
      BY <1>1, <1>2, <3>4, <3>6, <3>7, <3>8, <3>9, SoughtInv
  <2>4. CASE newpos - h.pos \notin 1 .. Chunk
    <3>1. /\ codec' = codec /\ handle' = handle
          /\ bt' = [AtQueue EXCEPT !.pc = "reset", !.id = id, !.newpos = newpos]
      BY <1>4, <1>8, <2>4 DEF RebufferHandle
    <3>2. bt' \in BtType /\ bt'.pc = "reset" /\ bt'.id = id /\ bt'.then = "tail" /\ bt'.newpos = newpos
      <4>1. PICK i \in Nat, p \in Nat : i = id /\ p = newpos
        BY <1>4
      <4>2. bt' = BtResetting(AtQueue, i, p)
        BY <3>1, <4>1 DEF BtResetting
      <4>3. bt' \in BtType /\ bt'.pc = "reset" /\ bt'.id = i /\ bt'.then = AtQueue.then /\ bt'.newpos = p
        BY <2>2, <4>2, BtResets
      <4>. QED
        BY <4>1, <4>3, AtQueueIs
    <3>3. Sought(id, h)
      <4>1. SoughtTo(h, h)
        BY <1>4, <1>5, ThereIs DEF SoughtTo, BufferingInv, CursorPart
      <4>2. handle' = [handle EXCEPT ![id] = h]
        BY <1>5, <3>1
      <4>3. Trying'
        BY <3>2 DEF Trying
      <4>. QED
        BY <1>4, <3>1, <3>2, <4>1, <4>2, <4>3 DEF Sought
    <3>4. StandPart'
      BY <1>1, <3>1 DEF BufferingInv, StandPart, There
    <3>5. QueuePart' /\ queue' \in Seq(MessageType)
      BY <1>1, <1>3, <3>1, RepliedQueue
    <3>6. BtPart'
      <4>1. H' = h
        BY <3>1, <3>2 DEF H
      <4>2. Linked(bt.id)'
        BY <1>1, <1>4, <3>2 DEF Linked
      <4>. QED
        BY <1>1, <1>4, <1>5, <2>1, <3>1, <3>2, <4>1, <4>2 DEF BtPart
    <3>. QED
      BY <1>1, <1>2, <3>2, <3>3, <3>4, <3>5, <3>6, SoughtInv
  <2>. QED
    BY <2>3, <2>4
<1>. QED
  BY <1>7, <1>8

(* Nothing is held: the file is read again from another place. *)
Restarted(h, data, pos, fd) ==
    [h EXCEPT !.ridx = data, !.widx = data, !.data = data, !.start = pos, !.pos = pos, !.end = pos, !.fd = fd]

(* The fields of a handle that starts at the place sought.                 *)
LEMMA RestartedIs ==
    ASSUME NEW h \in HandleType, NEW data \in Addresses, NEW pos \in Nat, NEW fd \in Nat \cup {None}
    PROVE  LET new == Restarted(h, data, pos, fd)
           IN  /\ new \in HandleType
               /\ new.at = h.at /\ new.size = h.size /\ new.type = h.type /\ new.data = data
               /\ new.widx = data /\ new.start = pos /\ new.end = pos /\ new.filesize = h.filesize
               /\ new.pos = pos /\ new.ridx = data /\ new.pinned = h.pinned /\ new.fd = fd
<1>1. Addresses \subseteq Nat
  BY RingAssumption DEF Addresses
<1>. QED
  BY <1>1 DEF Restarted, HandleType

(* The padding leaves the next handle alone. *)
LEMMA ResetPad ==
    ASSUME NEW at \in Addresses, NEW lim \in Addresses, NEW between \in 1 .. buffer_len,
           between = IF lim = at THEN buffer_len ELSE Gap(at, lim),
           NEW size \in Nat \ {0}, size <= between, NEW wanted \in 0 .. StorageAlign - 1,
           NEW pad, pad = IF ringbuf_add_cross_full(ringbuf_add(at, size), wanted, lim) > 0 THEN 0 ELSE wanted
    PROVE  pad \in 0 .. StorageAlign - 1 /\ size + pad <= between
<1>1. StorageAlign \in Nat \ {0} /\ buffer_len \in Nat \ {0} /\ at \in Int /\ lim \in Int
  BY RingAssumption DEF Addresses
<1>2. size \in 0 .. buffer_len /\ size \in 1 .. between
  BY <1>1
<1>3. PICK w \in Addresses : w = ringbuf_add(at, size)
  BY <1>2, Further
<1>4. PICK c \in Int : c = ringbuf_add_cross_full(w, wanted, lim)
  BY <1>1, <1>3 DEF Addresses, ringbuf_add_cross_full
<1>5. CASE c > 0
  BY <1>1, <1>3, <1>4, <1>5
<1>6. CASE ~(c > 0)
  <2>1. pad = wanted /\ wanted \in Int
    BY <1>1, <1>3, <1>4, <1>6
  <2>2. wanted = IF ringbuf_add_cross_full(w, wanted, lim) > 0
                 THEN wanted - ringbuf_add_cross_full(w, wanted, lim) ELSE wanted
    BY <1>4, <1>6
  <2>3. size + wanted <= between
    BY <1>2, <1>3, <2>1, <2>2, ReadsShort
  <2>. QED
    BY <2>1, <2>3
<1>. QED
  BY <1>5, <1>6

(* rebuffer_handle resets the handle to the place sought.                  *)
LEMMA ResetInv ==
    ASSUME BufferingInv, Reset
    PROVE  BufferingInv'
<1>. DEFINE behind == ringbuf_add(H.at, H.size)
            wanted == StoragePad(bt.newpos, behind)
            pad == IF ringbuf_add_cross_full(behind, wanted, Limit(bt.id)) > 0 THEN 0 ELSE wanted
            index == ringbuf_add(behind, pad)
            fd == IF H.fd = None THEN None ELSE bt.newpos
            new == Restarted(H, index, bt.newpos, fd)
<1>1. /\ UNCHANGED <<handle_list, queue, filling, audio, nextId, base_handle_id, session>>
      /\ bt.pc = "reset" /\ audio.pc # "loading"
      /\ buffer' = Outdated(buffer, bt.id, new)
      /\ handle' = [handle EXCEPT ![bt.id] = new]
      /\ asked' \in {send_event("rebuffer"), asked}
      /\ codec' = [codec EXCEPT !.pc = "idle"]
      /\ bt' = [AtQueue EXCEPT !.pc = "enter", !.id = bt.id, !.to_buffer = 0, !.then = "tail"]
  BY DEF Reset, Untouched, settings, MutexFree, SetH, ReplyCodec, buffer_handle, Restarted
<1>2. /\ Trying /\ Linked(bt.id) /\ bt.id = codec.id /\ codec.pc = "calling" /\ H.type = "audio"
      /\ bt.newpos <= H.filesize
  BY <1>1, SMTT(30) DEF Trying, BufferingInv, BtPart
<1>3. /\ bt.id \in There /\ H = handle[bt.id] /\ Shape(H) /\ H \in HandleType /\ bt.id \in Nat
      /\ There = ToSet(handle_list) /\ Sorted(handle_list) /\ Laid(handle, ToSet(handle_list))
      /\ bt.newpos \in Nat /\ bt.id # 0 /\ There \subseteq Ids /\ handle \in [Ids -> HandleType]
  BY <1>1, <1>2, ThereIs DEF BufferingInv, H, ListPart, TypePart, BtType
<1>4. /\ H.at \in Addresses /\ H.size \in Nat \ {0} /\ H.size <= Off(H) /\ Off(H) \in 1 .. buffer_len - 1
      /\ Ext(H) = Off(H) + Held(H) /\ Held(H) \in Nat /\ H.filesize \in Nat
      /\ buffer_len \in Nat \ {0} /\ StorageAlign \in Nat \ {0}
  BY <1>3, ShapeSays, RingAssumption
<1>5. behind \in Addresses
  <2>1. H.size \in 0 .. buffer_len
    BY <1>4
  <2>. QED
    BY <2>1, <1>4, Further
<1>6. wanted \in 0 .. StorageAlign - 1
  <2>1. bt.newpos \in Int /\ behind \in Int
    BY <1>3, <1>4, <1>5 DEF Addresses
  <2>. QED
    BY <2>1, Paddings
<1>. HIDE DEF behind, wanted, pad
<1>7. PICK between \in 1 .. buffer_len :
          /\ between = IF Limit(bt.id) = H.at THEN buffer_len ELSE Gap(H.at, Limit(bt.id))
          /\ Ext(H) <= between /\ Limit(bt.id) \in Addresses
          /\ \A b \in ToSet(handle_list) : b # bt.id => between <= Gap(H.at, handle[b].at)
  BY <1>2, <1>3, LimitRoom
<1>8. pad \in 0 .. StorageAlign - 1 /\ H.size + pad <= between
  <2>1. H.size <= between
    BY <1>4, <1>7
  <2>2. PICK lim \in Addresses : lim = Limit(bt.id)
    BY <1>7
  <2>3. between = IF lim = H.at THEN buffer_len ELSE Gap(H.at, lim)
    BY <1>7, <2>2
  <2>4. pad = IF ringbuf_add_cross_full(ringbuf_add(H.at, H.size), wanted, lim) > 0 THEN 0 ELSE wanted
    BY <2>2 DEF pad, behind
  <2>. QED
    BY <1>4, <1>6, <2>1, <2>3, <2>4, ResetPad
<1>9. index \in Addresses
  <2>1. pad \in 0 .. buffer_len
    BY <1>4, <1>7, <1>8
  <2>. QED
    BY <2>1, <1>5, Further
<1>. HIDE DEF index
<1>10. fd \in Nat \cup {None} /\ (fd # None => fd = bt.newpos)
  BY <1>3
<1>. HIDE DEF fd
<1>11. /\ new \in HandleType
       /\ new.at = H.at /\ new.size = H.size /\ new.type = H.type /\ new.data = index
       /\ new.widx = index /\ new.start = bt.newpos /\ new.end = bt.newpos /\ new.filesize = H.filesize
       /\ new.pos = bt.newpos /\ new.ridx = index /\ new.pinned = H.pinned /\ new.fd = fd
  <2>1. PICK i \in Addresses, n \in Nat, f \in Nat \cup {None} : i = index /\ n = bt.newpos /\ f = fd
    BY <1>3, <1>9, <1>10
  <2>2. LET w == Restarted(H, i, n, f)
        IN  /\ w \in HandleType
            /\ w.at = H.at /\ w.size = H.size /\ w.type = H.type /\ w.data = i
            /\ w.widx = i /\ w.start = n /\ w.end = n /\ w.filesize = H.filesize
            /\ w.pos = n /\ w.ridx = i /\ w.pinned = H.pinned /\ w.fd = f
    <3>1. H \in HandleType
      BY <1>3
    <3>. QED
      BY <3>1, RestartedIs, ZenonT(60)
  <2>3. new = Restarted(H, i, n, f)
    BY <2>1
  <2>. HIDE DEF new
  <2>. QED
    BY <2>1, <2>2, <2>3
<1>. HIDE DEF new
<1>12. Resets(H, new, pad)
  BY <1>2, <1>3, <1>8, <1>10, <1>11 DEF Resets, index, behind
<1>13. handle'[bt.id] = new /\ \A b \in There : b # bt.id => handle'[b] = handle[b]
  BY <1>1, <1>3
<1>14. StandPart'
  <2>1. Stands(buffer, handle, There) /\ There' = There
    BY <1>1 DEF BufferingInv, StandPart, There
  <2>2. \A b \in There : b # bt.id => H.size + pad <= Gap(H.at, handle[b].at)
    <3>1. \A b \in There : Gap(H.at, handle[b].at) \in Int
      <4>1. \A b \in There : handle[b].at \in Addresses
        BY ThereIs, ShapeSays DEF BufferingInv
      <4>. QED
        BY <1>4, <4>1, GapIs
    <3>2. pad \in Int /\ H.size \in Int /\ between \in Int
      BY <1>4, <1>7, <1>8
    <3>. QED
      BY <1>3, <1>7, <1>8, <3>1, <3>2
  <2>3. Stands(Outdated(buffer, bt.id, new), handle', There)
    BY <1>3, <1>12, <1>13, <2>1, <2>2, ResetStands
  <2>. QED
    BY <1>1, <2>1, <2>3 DEF StandPart
<1>15. bt' \in BtType /\ BtPart' /\ ~(Trying')
  BY <1>1, <1>3, EnteringIs, Zenon
<1>16. CodecGoes /\ codec.held = 0
  BY <1>1, <1>2, CodecReplied DEF BufferingInv, CodecPart
<1>17. Sought(bt.id, new)
  <2>1. SoughtTo(H, new) /\ new.pos <= new.end
    BY <1>2, <1>3, <1>11 DEF SoughtTo
  <2>. QED
    BY <1>1, <1>2, <1>3, <1>16, <2>1 DEF Sought, CodecGoes
<1>18. QueuePart' /\ queue' \in Seq(MessageType)
  BY <1>1, <1>2, <1>16, SeekingQueue DEF CodecGoes
<1>19. asked' \in Seq({"low", "rebuffer"}) /\ filling' \in BOOLEAN
  BY <1>1, SendsEvent DEF BufferingInv, TypePart
<1>. QED
  BY <1>1, <1>14, <1>15, <1>17, <1>18, <1>19, SoughtInv

-----------------------------------------------------------------------------
(* Shrinking *)

(* A handle that was shrunk keeps its read position.                       *)
LEMMA TrimsKeeps ==
    ASSUME NEW h \in HandleType, NEW new, Trims(h, new)
    PROVE  Keeps(h, new)
<1>1. h.end \in Nat /\ new.end = h.end
  BY DEF HandleType, Trims
<1>2. h.type = "audio" \/ h.pinned => new.ridx = h.ridx
  BY DEF Trims
<1>. QED
  BY <1>1, <1>2 DEF Trims, Keeps

(* The invariant is what shrink_buffer needs.                              *)
LEMMA InvSteady ==
    ASSUME BufferingInv, ~Trying, MutexFree
    PROVE  Steady /\ There = ToSet(handle_list) /\ There \subseteq Ids
<1>1. There = ToSet(handle_list) /\ There \subseteq Ids
  BY ThereIs DEF BufferingInv, MutexFree
<1>. QED
  BY <1>1 DEF BufferingInv, Steady, ListPart, TypePart, StandPart, CursorPart

(* shrink_buffer leaves every handle whole and the ring laid out.          *)
LEMMA ShrunkParts ==
    ASSUME BufferingInv, ~Trying, MutexFree, NEW s, Shrinks(s), SetMemory(s), UNCHANGED <<handle_list, audio>>
    PROVE  HandlesKept /\ StandPart'
<1>1. There = ToSet(handle_list) /\ There \subseteq Ids /\ There' = There /\ handle \in [Ids -> HandleType]
  BY InvSteady DEF There, BufferingInv, TypePart
<1>2. buffer' = s.mem /\ handle' = s.h
  BY DEF SetMemory
<1>3. HandlesKept
  BY <1>1, <1>2, TrimsKeeps DEF Shrinks, HandlesKept, MutexFree
<1>4. StandPart'
  BY <1>1, <1>2 DEF Shrinks, StandPart
<1>. QED
  BY <1>3, <1>4

(* Q_START_FILL                                                            *)
LEMMA StartFillInv ==
    ASSUME BufferingInv, StartFill
    PROVE  BufferingInv'
<1>1. /\ UNCHANGED <<handle_list, nextId, filling, audio, asked, base_handle_id, session>>
      /\ bt.pc = "wait" /\ queue # <<>> /\ Head(queue).ev = "start" /\ MutexFree /\ queue' = Tail(queue)
      /\ SetMemory(shrink_buffer) /\ codec' = [codec EXCEPT !.pc = "sleeping"]
      /\ bt' = [AtQueue EXCEPT !.pc = "enter", !.id = Head(queue).id, !.to_buffer = 0, !.then = "start"]
  BY DEF StartFill, Message, Untouched, settings, ReplyCodec, buffer_handle, Msg
<1>2. asked' \in Seq({"low", "rebuffer"}) /\ filling' \in BOOLEAN
  BY <1>1 DEF BufferingInv, TypePart
<1>3. Head(queue).from = "codec"
  BY <1>1, TailIs DEF BufferingInv, TypePart, QueuePart, MessageOK
<1>4. Head(queue).id \in Nat /\ codec.pc = "calling" /\ ~Trying
  BY <1>1, <1>3, CodecMessage
<1>5. HandlesKept /\ StandPart'
  BY <1>1, <1>4, InvSteady, ShrinkAll, ShrunkParts
<1>6. bt' \in BtType /\ BtPart' /\ ~(Trying')
  BY <1>1, <1>4, EnteringIs, Zenon
<1>7. CodecGoes
  BY <1>1, <1>4, CodecReplied
<1>8. SeekGoes
  BY <1>4, <1>6 DEF SeekGoes
<1>9. QueuePart' /\ queue' \in Seq(MessageType)
  BY <1>1, <1>3, <1>7, RepliedQueue DEF CodecGoes
<1>. QED
  BY <1>1, <1>2, <1>5, <1>6, <1>7, <1>8, <1>9, KeptInv

(* The level is watched, the buffer shrunk, or a fill started.             *)
LEMMA WatchInv ==
    ASSUME BufferingInv, Watch
    PROVE  BufferingInv'
<1>1. /\ UNCHANGED <<handle_list, nextId, queue, audio, codec, base_handle_id, session>>
      /\ bt.pc = "tail" /\ handle_list # <<>> /\ MutexFree
      /\ asked' \in {send_event("low"), asked}
      /\ \/ /\ bt' = AtQueue /\ filling' = FALSE /\ buffer' = buffer /\ handle' = handle
         \/ /\ \E s \in {shrink_buffer, Memory} : SetMemory(shrink_handle(s, Head(handle_list)))
            /\ bt' = [AtQueue EXCEPT !.pc = "fill", !.id = Head(handle_list)]
            /\ filling' = filling
  BY DEF Watch, Untouched, settings
<1>2. asked' \in Seq({"low", "rebuffer"}) /\ filling' \in BOOLEAN
  BY <1>1, SendsEvent DEF BufferingInv, TypePart
<1>3. ~Trying
  BY <1>1 DEF Trying, BufferingInv, BtPart
<1>4. CASE bt' = AtQueue /\ filling' = FALSE /\ buffer' = buffer /\ handle' = handle
  BY <1>1, <1>2, <1>3, <1>4, AtRestIs, OnlyRests
<1>5. ASSUME NEW s \in {shrink_buffer, Memory}, SetMemory(shrink_handle(s, Head(handle_list))),
             bt' = [AtQueue EXCEPT !.pc = "fill", !.id = Head(handle_list)], filling' = filling
      PROVE  BufferingInv'
  <2>1. Steady
    BY <1>1, <1>3, InvSteady
  <2>2. Head(handle_list) \in ToSet(handle_list) /\ Head(handle_list) \in Nat
    BY <1>1, EndsAre, SortedIs DEF Ends, BufferingInv, ListPart
  <2>3. Shrinks(s)
    BY <1>5, <2>1, ShrinkAll, NoneShrunk
  <2>4. Shrinks(shrink_handle(s, Head(handle_list)))
    BY <2>1, <2>2, <2>3, ShrinkOne DEF Linked
  <2>5. HandlesKept /\ StandPart'
    BY <1>1, <1>3, <1>5, <2>4, ShrunkParts, SMTT(30)
  <2>6. Filling(bt') /\ Linked(bt'.id)
    BY <1>5, <2>2, FillingIs, Zenon DEF Linked, Filling
  <2>7. bt' \in BtType /\ ~(Trying')
    BY <2>6 DEF Filling, Trying
  <2>8. BtPart'
    BY <1>1, <2>6, <2>7 DEF Filling, BtPart, Linked
  <2>9. CodecGoes /\ SeekGoes
    BY <1>1, <1>3, <2>7, CodecStays DEF SeekGoes
  <2>10. QueuePart' /\ queue' \in Seq(MessageType)
    BY <1>1, <2>5, <2>7, KeptQueue
  <2>. QED
    BY <1>1, <1>2, <2>5, <2>7, <2>8, <2>9, <2>10, KeptInv
<1>. QED
  BY <1>1, <1>4, <1>5

-----------------------------------------------------------------------------
(* Closing a handle                                                        *)

(* The empty slot has the type of a handle.                                *)
LEMMA NoHandleIs == NoHandle \in HandleType
<1>1. 0 \in Addresses /\ buffer_len \in Nat
  BY RingAssumption DEF Addresses
<1>. QED
  BY <1>1 DEF NoHandle, HandleType, Types

(* The audio thread goes on: what it asked for is done, or it asked for    *)
(* nothing.                                                                *)
LEMMA AudioQueue ==
    ASSUME BufferingInv, queue' = queue, audio.pc # "calling" \/ audio'.pc = "calling",
           UNCHANGED <<codec, session>>, C' = C, Trying' => Trying
    PROVE  QueuePart'
<1>1. ASSUME NEW i \in DOMAIN queue'
      PROVE  \E m : m = queue'[i] /\ MessageOK(m)'
  <2>1. PICK m : m = queue[i] /\ MessageOK(m)
    BY DEF BufferingInv, QueuePart
  <2>2. RebufferOK(m.pos) => RebufferOK(m.pos)'
    BY DEF RebufferOK
  <2>3. MessageOK(m)'
    BY <2>1, <2>2 DEF MessageOK
  <2>. QED
    BY <2>1, <2>3
<1>2. Single(queue')
  BY DEF BufferingInv, QueuePart
<1>. QED
  BY <1>1, <1>2, QueueIs

(* The close is taken off the queue.                                       *)
LEMMA ClosedQueue ==
    ASSUME BufferingInv, queue # <<>>, Head(queue).from # "codec", Head(queue).ev = "close",
           queue' = Tail(queue), UNCHANGED <<codec, session>>, C' = C, Trying' => Trying
    PROVE  QueuePart' /\ queue' \in Seq(MessageType)
<1>1. queue \in Seq(MessageType) /\ QueuePart
  BY DEF BufferingInv, TypePart
<1>2. /\ queue[1].from # "codec" /\ queue[1].ev = "close" /\ 1 \in DOMAIN queue
      /\ queue' \in Seq(MessageType)
      /\ \A i \in DOMAIN queue' : i \in Nat /\ i + 1 \in DOMAIN queue /\ queue'[i] = queue[i + 1] /\ i + 1 # 1
  BY <1>1, TailIs
<1>3. ASSUME NEW i \in DOMAIN queue'
      PROVE  \E m : m = queue'[i] /\ MessageOK(m)'
  <2>1. i + 1 \in DOMAIN queue /\ queue'[i] = queue[i + 1] /\ i + 1 # 1 /\ MessageOK(queue[i + 1])
    BY <1>1, <1>2 DEF QueuePart
  <2>2. PICK m : m = queue'[i] /\ MessageOK(m)
    BY <2>1
  <2>3. ~(m.from # "codec" /\ m.ev = "close")
    BY <1>1, <1>2, <2>1, <2>2 DEF QueuePart, Single
  <2>4. RebufferOK(m.pos) => RebufferOK(m.pos)'
    BY DEF RebufferOK
  <2>5. MessageOK(m)'
    BY <2>2, <2>3, <2>4 DEF MessageOK
  <2>. QED
    BY <2>2, <2>5
<1>4. Single(queue')
  <2>. SUFFICES ASSUME NEW i \in DOMAIN queue', NEW j \in DOMAIN queue'
                PROVE  /\ queue'[i].from = "codec" /\ queue'[j].from = "codec" => i = j
                       /\ queue'[i].ev = "close" /\ queue'[i].from # "codec"
                          /\ queue'[j].ev = "close" /\ queue'[j].from # "codec" => i = j
    BY DEF Single
  <2>1. i \in Nat /\ j \in Nat /\ i + 1 \in DOMAIN queue /\ j + 1 \in DOMAIN queue
        /\ queue'[i] = queue[i + 1] /\ queue'[j] = queue[j + 1]
    BY <1>2
  <2>2. i + 1 = j + 1 => i = j
    BY <2>1
  <2>. QED
    BY <1>1, <2>1, <2>2 DEF QueuePart, Single
<1>. QED
  BY <1>2, <1>3, <1>4, QueueIs

(* Q_CLOSE_HANDLE: the handle leaves the list, whoever asked for it.       *)
LEMMA CloseHandleInv ==
    ASSUME BufferingInv, CloseHandle
    PROVE  BufferingInv'
<1>. DEFINE id == Head(queue).id
<1>1. /\ UNCHANGED <<nextId, filling, asked, base_handle_id, session>>
      /\ bt.pc = "wait" /\ queue # <<>> /\ Head(queue).ev = "close" /\ audio.pc # "loading"
      /\ queue' = Tail(queue) /\ bt' = [AtQueue EXCEPT !.pc = "tail"]
      /\ handle_list' = Without(id)
      /\ handle' = [handle EXCEPT ![id] = NoHandle]
      /\ buffer' = Outdated(buffer, id, NoHandle)
      /\ IF Head(queue).from = "codec" THEN codec' = CodecIdle /\ audio' = audio
         ELSE audio' = [audio EXCEPT !.pc = "clearing"] /\ codec' = codec
  BY DEF CloseHandle, Message, Untouched, settings, MutexFree, Msg, GoTail
<1>2. ~Trying /\ AtRest(bt') /\ ~(Trying') /\ bt' \in BtType
  BY <1>1, AtRestIs DEF Trying, BufferingInv, BtPart, AtRest
<1>3. /\ There = ToSet(handle_list) /\ There \subseteq Ids /\ Sorted(handle_list)
      /\ handle \in [Ids -> HandleType] /\ Stands(buffer, handle, There)
      /\ audio \in AudioType /\ codec \in CodecType
  BY <1>1, ThereIs DEF BufferingInv, TypePart, ListPart, StandPart
<1>4. Sorted(handle_list') /\ ToSet(handle_list') = There \ {id}
  BY <1>1, <1>3, WithoutIs
<1>5. handle' \in [Ids -> HandleType] /\ \A b \in There : b # id => handle'[b] = handle[b]
  <2>1. NoHandle \in HandleType
    BY NoHandleIs
  <2>. QED
    BY <1>1, <1>3, <2>1
<1>6. Head(queue) \in MessageType /\ MessageOK(Head(queue))
  BY <1>1, TailIs DEF BufferingInv, TypePart, QueuePart
<1>7. \/ /\ Head(queue).from = "codec" /\ id = codec.id /\ codec' = CodecIdle /\ audio' = audio
      \/ /\ Head(queue).from # "codec" /\ id # codec.id /\ id # 0 /\ codec' = codec
         /\ audio.pc = "calling" /\ audio' = [audio EXCEPT !.pc = "clearing"]
  BY <1>1, <1>6 DEF MessageOK
<1>8. codec' \in CodecType /\ CodecIdle.id = 0 /\ CodecIdle.held = 0 /\ CodecIdle.pc = "idle"
  BY <1>3, <1>7 DEF CodecIdle, CodecType
<1>9. /\ audio' \in AudioType /\ audio'.close = audio.close /\ audio'.pc # "loading"
      /\ audio'.pc = audio.pc \/ audio'.pc = "clearing"
  BY <1>1, <1>3, <1>7 DEF AudioType
<1>10. There' = There \ {id}
  BY <1>4, <1>9 DEF There
<1>11. QueuePart' /\ queue' \in Seq(MessageType)
  <2>1. CASE Head(queue).from = "codec"
    <3>1. codec'.id = 0 /\ audio' = audio
      BY <1>7, <1>8, <2>1
    <3>. QED
      BY <1>1, <2>1, <3>1, RepliedQueue
  <2>2. CASE Head(queue).from # "codec"
    <3>1. codec' = codec /\ id # codec.id
      BY <1>7, <2>2
    <3>2. C' = C
      BY <1>1, <3>1 DEF C
    <3>. QED
      BY <1>1, <1>2, <2>2, <3>1, <3>2, ClosedQueue
  <2>. QED
    BY <2>1, <2>2
<1>12. TypePart'
  BY <1>1, <1>2, <1>5, <1>8, <1>9, <1>11 DEF BufferingInv, TypePart
<1>13. ListPart'
  BY <1>1, <1>3, <1>4, <1>5, <1>9 DEF BufferingInv, ListPart
<1>14. StandPart'
  <2>1. Stands(Outdated(buffer, id, NoHandle), handle', There \ {id})
    BY <1>3, <1>5, ClosedStands
  <2>. QED
    BY <1>1, <1>10, <2>1 DEF StandPart
<1>15. CursorPart'
  BY <1>2, <1>5, <1>10 DEF BufferingInv, CursorPart
<1>16. BtPart'
  BY <1>2 DEF AtRest, BtPart
<1>17. AudioPart'
  <2>1. 0 \notin audio.close
    BY <1>3, IdsAre DEF AudioType
  <2>. QED
    BY <1>7, <1>8, <1>9, <2>1 DEF BufferingInv, AudioPart
<1>18. CodecPart'
  <2>1. CASE codec' = CodecIdle
    BY <1>8, <2>1 DEF CodecPart
  <2>2. CASE codec' = codec /\ id # codec.id
    <3>1. C' = C
      BY <1>1, <2>2 DEF C
    <3>2. codec.id \in ToSet(handle_list) => codec.id \in ToSet(handle_list')
      BY <1>3, <1>4, <2>2
    <3>3. Linked(codec.id) => Linked(codec.id)'
      BY <3>2, <2>2 DEF Linked
    <3>. QED
      BY <2>2, <3>1, <3>3 DEF BufferingInv, CodecPart
  <2>. QED
    BY <1>7, <2>1, <2>2
<1>. QED
  BY <1>11, <1>12, <1>13, <1>14, <1>15, <1>16, <1>17, <1>18 DEF BufferingInv

-----------------------------------------------------------------------------
(* The audio thread                                                        *)

(* Nothing but a flag or a read position of a handle changes.              *)
Same(h, new) ==
    /\ new \in HandleType
    /\ new.at = h.at /\ new.size = h.size /\ new.type = h.type /\ new.data = h.data
    /\ new.widx = h.widx /\ new.start = h.start /\ new.end = h.end /\ new.filesize = h.filesize
    /\ new.fd = h.fd

(* The buffering thread stays where it was, and its handle too.            *)
LEMMA BtStays ==
    ASSUME BufferingInv, UNCHANGED <<bt, handle_list, session>>,
           There' \subseteq There, \A b \in There' : Same(handle[b], handle'[b]),
           Trying => codec'.id = codec.id /\ codec'.pc = codec.pc
    PROVE  BtPart' /\ Trying' = Trying
<1>1. Trying' = Trying
  BY DEF Trying
<1>2. Linked(bt.id) => Same(H, H')
  BY DEF H, Linked, There
<1>3. ASSUME bt.pc = "read"
      PROVE  ReadRoom'
  <2>1. ReadRoom /\ Linked(bt.id)
    BY <1>3 DEF BufferingInv, BtPart
  <2>2. Ext(H') = Ext(H) /\ H'.at = H.at /\ H'.end = H.end /\ H'.filesize = H.filesize
    BY <1>2, <2>1 DEF Same, Ext, Off, Held
  <2>3. \A b \in There' : handle'[b].at = handle[b].at
    BY DEF Same
  <2>. QED
    BY <2>1, <2>2, <2>3 DEF ReadRoom
<1>4. (Linked(bt.id) <=> Linked(bt.id)') /\ BtPart
  BY DEF Linked, BufferingInv
<1>5. Linked(bt.id) => /\ H'.fd = H.fd /\ H'.end = H.end /\ H'.start = H.start /\ H'.type = H.type
                       /\ H'.filesize = H.filesize
  BY <1>2 DEF Same
<1>6. /\ \/ bt'.pc \in {"open", "metadata", "chunk", "read", "yield", "fill", "reset"}
         \/ bt'.then \in {"fill", "try"}
         => Linked(bt.id)'
      /\ bt'.pc \in {"wait", "tail", "fill", "count"} => bt'.then \notin {"fill", "try"}
  BY <1>4 DEF BtPart
<1>7. /\ bt'.pc = "open" => H'.fd = None /\ H'.end = H'.start
      /\ bt'.pc = "metadata" => H'.type = "id3" /\ H'.end = H'.start
      /\ bt'.pc \in {"chunk", "read", "yield"} => H'.fd # None
  BY <1>4, <1>5 DEF BtPart
<1>8. Trying' => /\ bt'.id = codec'.id /\ codec'.pc = "calling" /\ H'.type = "audio"
                 /\ session'.seeks # 0 /\ bt'.newpos <= H'.filesize
  <2>1. Trying => Linked(bt.id)
    BY <1>4 DEF BtPart, Trying
  <2>. QED
    BY <1>1, <1>4, <1>5, <2>1 DEF BtPart
<1>9. bt'.pc = "read" => ReadRoom'
  BY <1>3
<1>. QED
  BY <1>1, <1>6, <1>7, <1>8, <1>9 DEF BtPart

(* The audio thread's own state changes, and no handle's room. *)
AudioGoes ==
    /\ audio' \in AudioType /\ audio.pc # "loading" /\ audio'.pc # "loading"
    /\ \A b \in There : /\ Same(handle[b], handle'[b]) /\ handle'[b].pos = handle[b].pos
                        /\ handle'[b].ridx = handle[b].ridx /\ handle'[b].pinned = handle[b].pinned
    /\ handle' \in [Ids -> HandleType]

(* A step of the audio thread that leaves the handles in place.            *)
LEMMA AudioGoesInv ==
    ASSUME BufferingInv, AudioGoes, AudioPart', QueuePart', queue' \in Seq(MessageType),
           UNCHANGED <<buffer, bt, filling, handle_list, nextId, codec, session>>,
           asked' \in Seq({"low", "rebuffer"}), base_handle_id' \in 0 .. Len(session.files)
    PROVE  BufferingInv'
<1>1. There' = There /\ ToSet(handle_list) \subseteq There
  BY DEF There, AudioGoes
<1>2. BtPart' /\ Trying' = Trying
  BY <1>1, BtStays DEF AudioGoes
<1>3. TypePart'
  BY DEF BufferingInv, TypePart, AudioGoes
<1>4. ListPart'
  BY <1>1 DEF BufferingInv, ListPart, AudioGoes, Same
<1>5. StandPart'
  <2>1. \A b \in There : Shape(handle[b]) /\ handle[b] \in HandleType
    BY ThereIs DEF BufferingInv
  <2>2. \A b \in There : handle'[b] \in HandleType /\ Shape(handle'[b]) /\ Off(handle'[b]) = Off(handle[b])
          /\ Ext(handle'[b]) = Ext(handle[b]) /\ Whole(handle'[b]) = Whole(handle[b])
    BY <2>1 DEF AudioGoes, Same, Shape, Off, Ext, Whole, Held
  <2>3. Laid(handle', There)
    <3>1. Laid(handle, There)
      BY DEF BufferingInv, StandPart, Stands
    <3>2. \A b \in There : handle'[b].at = handle[b].at /\ handle'[b].type = handle[b].type
      BY DEF AudioGoes, Same
    <3>3. Apart(handle', There)
      BY <2>2, <3>1, <3>2 DEF Laid, Apart
    <3>4. InOrder(handle', There)
      BY <3>1, <3>2 DEF Laid, InOrder
    <3>5. RoomForAll(handle', There)
      BY <2>2, <3>1, <3>2 DEF Laid, RoomForAll, HasRoom
    <3>. QED
      BY <2>2, <3>3, <3>4, <3>5 DEF Laid
  <2>4. \A b \in There : Holds(buffer, b, handle'[b])
    <3>. SUFFICES ASSUME NEW b \in There
                  PROVE  Holds(buffer, b, handle'[b])
      OBVIOUS
    <3>1. Holds(buffer, b, handle[b])
      BY DEF BufferingInv, StandPart, Stands
    <3>2. /\ handle'[b].at = handle[b].at /\ handle'[b].size = handle[b].size
          /\ handle'[b].start = handle[b].start
          /\ Off(handle'[b]) = Off(handle[b]) /\ Ext(handle'[b]) = Ext(handle[b])
      BY <2>2 DEF AudioGoes, Same
    <3>. QED
      BY <3>1, <3>2 DEF Holds
  <2>. QED
    BY <1>1, <2>3, <2>4 DEF BufferingInv, StandPart, Stands
<1>6. CursorPart'
  BY <1>1, <1>2 DEF BufferingInv, CursorPart, AudioGoes, Same
<1>7. CodecPart'
  <2>1. codec.id # 0 => Linked(codec.id) /\ codec.id \in There
    BY <1>1 DEF BufferingInv, CodecPart, Linked
  <2>2. codec.id # 0 => /\ Same(C, C') /\ C'.pos = C.pos /\ C'.ridx = C.ridx /\ C'.pinned = C.pinned
                        /\ Linked(codec.id)'
    BY <2>1 DEF AudioGoes, C, Linked
  <2>. QED
    BY <2>1, <2>2 DEF BufferingInv, CodecPart, Same
<1>. QED
  BY <1>2, <1>3, <1>4, <1>5, <1>6, <1>7 DEF BufferingInv

-----------------------------------------------------------------------------
(* The audio thread, without the handles                                   *)

(* A step of the audio thread that changes no handle.                      *)
LEMMA AudioActsInv ==
    ASSUME BufferingInv, audio' \in AudioType, audio.pc # "loading", audio'.pc # "loading",
           UNCHANGED <<buffer, handle, bt, filling, handle_list, nextId, codec, session, base_handle_id>>,
           AudioPart', QueuePart', queue' \in Seq(MessageType), asked' \in Seq({"low", "rebuffer"})
    PROVE  BufferingInv'
<1>1. \A b \in There : handle[b] \in HandleType
  BY ThereIs DEF BufferingInv
<1>2. AudioGoes
  BY <1>1 DEF AudioGoes, Same, BufferingInv, TypePart
<1>3. base_handle_id' \in 0 .. Len(session.files)
  BY DEF BufferingInv, TypePart
<1>. QED
  BY <1>2, <1>3, AudioGoesInv

(* It has sent nothing.                                                    *)
LEMMA SameQueue ==
    ASSUME BufferingInv, audio.pc # "calling" \/ audio'.pc = "calling",
           UNCHANGED <<queue, codec, session, bt, handle>>
    PROVE  QueuePart' /\ queue' \in Seq(MessageType)
<1>1. C' = C /\ (Trying' => Trying)
  BY DEF C, Trying
<1>2. QueuePart'
  BY <1>1, AudioQueue
<1>. QED
  BY <1>2 DEF BufferingInv, TypePart

AudioClearing(close) == [AudioIdle EXCEPT !.pc = "clearing", !.close = close]
(* The audio thread starts closing handles.                                *)
LEMMA AudioClearingIs ==
    ASSUME NEW close \in SUBSET Ids
    PROVE  LET a == AudioClearing(close)
           IN  a \in AudioType /\ a.pc = "clearing" /\ a.close = close
BY DEF AudioClearing, AudioIdle, AudioType

(* audio_reset_and_rebuffer                                                *)
LEMMA ResetAndRebufferInv ==
    ASSUME BufferingInv, audio.pc = "idle", NEW close \in SUBSET AllButCurrent, ResetAndRebuffer(close),
           asked' \in Seq({"low", "rebuffer"})
    PROVE  BufferingInv'
<1>1. /\ UNCHANGED <<buffer, handle, bt, filling, handle_list, nextId, codec, session, base_handle_id, queue>>
      /\ audio' = AudioClearing(close)
  BY DEF ResetAndRebuffer, memory, AudioClearing
<1>2. close \subseteq Ids /\ codec.id \notin close
  BY ThereIs DEF BufferingInv, AllButCurrent
<1>3. audio' \in AudioType /\ audio'.pc = "clearing" /\ audio'.close = close
  BY <1>1, <1>2, AudioClearingIs
<1>4. AudioPart'
  BY <1>1, <1>2, <1>3 DEF AudioPart
<1>5. QueuePart' /\ queue' \in Seq(MessageType)
  BY <1>1, SameQueue
<1>. QED
  BY <1>1, <1>3, <1>4, <1>5, AudioActsInv

(* An event is taken off the audio queue.                                  *)
LEMMA AskedTail ==
    ASSUME BufferingInv, asked # <<>>
    PROVE  Tail(asked) \in Seq({"low", "rebuffer"})
BY DEF BufferingInv, TypePart

(* A skip.                                                                 *)
LEMMA SkipInv ==
    ASSUME BufferingInv, Skip
    PROVE  BufferingInv'
<1>1. audio.pc = "idle" /\ ResetAndRebuffer(AllButCurrent) /\ asked' = asked
  BY DEF Skip, AudioFree
<1>2. asked' \in Seq({"low", "rebuffer"})
  BY <1>1 DEF BufferingInv, TypePart
<1>. QED
  BY <1>1, <1>2, ResetAndRebufferInv

(* BUFFER_EVENT_REBUFFER                                                   *)
LEMMA OnRebufferInv ==
    ASSUME BufferingInv, OnRebuffer
    PROVE  BufferingInv'
<1>1. audio.pc = "idle" /\ ResetAndRebuffer(AllButCurrent) /\ asked # <<>> /\ asked' = Tail(asked)
  BY DEF OnRebuffer, AudioFree
<1>. QED
  BY <1>1, AskedTail, ResetAndRebufferInv

(* BUFFER_EVENT_BUFFER_LOW                                                 *)
LEMMA OnLowInv ==
    ASSUME BufferingInv, OnLow
    PROVE  BufferingInv'
<1>1. audio.pc = "idle" /\ asked # <<>> /\ asked' = Tail(asked)
  BY DEF OnLow, AudioFree
<1>2. asked' \in Seq({"low", "rebuffer"})
  BY <1>1, AskedTail
<1>3. CASE ResetAndRebuffer(BeforeCurrent)
  <2>1. BeforeCurrent \subseteq AllButCurrent
    BY DEF BeforeCurrent
  <2>. QED
    BY <1>1, <1>2, <1>3, <2>1, ResetAndRebufferInv
<1>4. CASE UNCHANGED <<memory, nextId, queue, bt, filling, audio, codec, settings, session, seeks>>
  <2>1. /\ UNCHANGED <<buffer, handle, bt, filling, handle_list, nextId, codec, session, base_handle_id, queue>>
        /\ audio' = audio
    BY <1>4 DEF memory, settings
  <2>2. AudioPart' /\ audio \in AudioType
    BY <2>1 DEF BufferingInv, AudioPart, TypePart
  <2>3. QueuePart' /\ queue' \in Seq(MessageType)
    BY <1>1, <2>1, SameQueue
  <2>. QED
    BY <1>1, <1>2, <2>1, <2>2, <2>3, AudioActsInv
<1>. QED
  BY <1>3, <1>4 DEF OnLow

(* Nothing more fits.                                                      *)
LEMMA FullInv ==
    ASSUME BufferingInv, Full
    PROVE  BufferingInv'
<1>1. /\ UNCHANGED <<buffer, handle, bt, filling, handle_list, nextId, codec, session, base_handle_id, queue, asked>>
      /\ audio' = audio /\ audio.pc = "idle"
  BY DEF Full, memory, AudioFree
<1>2. AudioPart' /\ audio \in AudioType /\ asked' \in Seq({"low", "rebuffer"})
  BY <1>1 DEF BufferingInv, AudioPart, TypePart
<1>3. QueuePart' /\ queue' \in Seq(MessageType)
  BY <1>1, SameQueue
<1>. QED
  BY <1>1, <1>2, <1>3, AudioActsInv

(* The playlist is buffered to its end.                                    *)
LEMMA FillingIsFinishedInv ==
    ASSUME BufferingInv, FillingIsFinished
    PROVE  BufferingInv'
<1>1. /\ UNCHANGED <<buffer, handle, bt, filling, handle_list, nextId, codec, session, base_handle_id, queue, asked>>
      /\ audio' = [audio EXCEPT !.done = TRUE] /\ audio.pc = "idle"
  BY DEF FillingIsFinished, memory, AudioFree
<1>2. audio \in AudioType /\ asked' \in Seq({"low", "rebuffer"})
  BY <1>1 DEF BufferingInv, TypePart
<1>3. audio' \in AudioType /\ audio'.pc = "idle" /\ audio'.close = audio.close
  BY <1>1, <1>2 DEF AudioType
<1>4. AudioPart'
  BY <1>1, <1>3 DEF BufferingInv, AudioPart
<1>5. QueuePart' /\ queue' \in Seq(MessageType)
  BY <1>1, SameQueue
<1>. QED
  BY <1>1, <1>2, <1>3, <1>4, <1>5, AudioActsInv

-----------------------------------------------------------------------------
(* Posting a message *)

(* A queue with one more message.                                          *)
LEMMA AppendIs ==
    ASSUME NEW q \in Seq(MessageType), NEW m \in MessageType
    PROVE  /\ Append(q, m) \in Seq(MessageType) /\ Len(q) \in Nat /\ DOMAIN q = 1 .. Len(q)
           /\ \A i \in DOMAIN Append(q, m) : \/ i \in DOMAIN q /\ Append(q, m)[i] = q[i]
                                             \/ i = Len(q) + 1 /\ Append(q, m)[i] = m
OBVIOUS

(* A message that is in order is posted.                                   *)
LEMMA PostedQueue ==
    ASSUME BufferingInv, NEW m \in MessageType, queue' = Append(queue, m),
           \A n \in MessageType : MessageOK(n) => MessageOK(n)', MessageOK(m)',
           m.from = "codec" => codec.pc # "calling",
           m.ev = "close" /\ m.from # "codec" => audio.pc # "calling"
    PROVE  QueuePart' /\ queue' \in Seq(MessageType)
<1>1. queue \in Seq(MessageType) /\ \A i \in DOMAIN queue : MessageOK(queue[i])
  BY DEF BufferingInv, TypePart, QueuePart
<1>2. /\ queue' \in Seq(MessageType)
      /\ \A i \in DOMAIN queue' : \/ i \in DOMAIN queue /\ queue'[i] = queue[i]
                                  \/ i = Len(queue) + 1 /\ queue'[i] = m
  BY <1>1, AppendIs
<1>3. ASSUME NEW i \in DOMAIN queue'
      PROVE  \E n : n = queue'[i] /\ MessageOK(n)'
  <2>1. CASE i \in DOMAIN queue /\ queue'[i] = queue[i]
    <3>1. PICK n : n = queue[i]
      OBVIOUS
    <3>2. n \in MessageType /\ MessageOK(n)
      BY <1>1, <2>1, <3>1
    <3>. QED
      BY <2>1, <3>1, <3>2
  <2>2. CASE queue'[i] = m
    BY <2>2
  <2>. QED
    BY <1>2, <2>1, <2>2
<1>4. Single(queue')
  <2>1. ASSUME NEW i \in DOMAIN queue
        PROVE  /\ queue[i].from = "codec" => codec.pc = "calling"
               /\ queue[i].ev = "close" /\ queue[i].from # "codec" => audio.pc = "calling"
    BY <1>1 DEF MessageOK
  <2>2. Single(queue)
    BY DEF BufferingInv, QueuePart
  <2>. QED
    BY <1>2, <2>1, <2>2 DEF Single
<1>. QED
  BY <1>2, <1>3, <1>4, QueueIs

(* A set of ids has a smallest one.                                        *)
LEMMA SmallestIs ==
    ASSUME NEW D, D \subseteq Nat, D # {}
    PROVE  \E x \in D : x = CHOOSE i \in D : \A j \in D : i <= j
<1>1. PICK x \in D : \A y \in D : ~(<<y, x>> \in OpToRel(<, Nat))
  BY NatLessThanWellFounded, WFMin, Zenon
<1>2. ASSUME NEW y \in D
      PROVE  x <= y
  <2>1. ~(<<y, x>> \in OpToRel(<, Nat)) /\ x \in Nat /\ y \in Nat
    BY <1>1, Zenon
  <2>. QED
    BY <2>1 DEF OpToRel
<1>. QED
  BY <1>1, <1>2, Zenon

AudioCalling(a, close) == [a EXCEPT !.pc = "calling", !.close = close]
(* The audio thread waits for a close.                                     *)
LEMMA AudioCallingIs ==
    ASSUME NEW a \in AudioType, NEW close \in SUBSET Ids
    PROVE  LET b == AudioCalling(a, close)
           IN  b \in AudioType /\ b.pc = "calling" /\ b.close = close
BY DEF AudioCalling, AudioType

(* One handle after the other is closed.                                   *)
LEMMA ClearOneInv ==
    ASSUME BufferingInv, ClearOne
    PROVE  BufferingInv'
<1>1. /\ UNCHANGED <<buffer, handle, bt, filling, handle_list, nextId, codec, session, base_handle_id, asked>>
      /\ audio.pc = "clearing"
  BY DEF ClearOne, memory, Inside, settings
<1>2. audio \in AudioType /\ asked' \in Seq({"low", "rebuffer"}) /\ codec.id \notin audio.close
  BY <1>1 DEF BufferingInv, TypePart, AudioPart
<1>3. CASE audio.close = {}
  <2>1. audio' = AudioIdle /\ queue' = queue
    BY <1>3 DEF ClearOne
  <2>2. audio' \in AudioType /\ audio'.pc = "idle" /\ audio'.close = {}
    BY <2>1 DEF AudioIdle, AudioType
  <2>3. AudioPart'
    BY <2>2 DEF AudioPart
  <2>4. QueuePart' /\ queue' \in Seq(MessageType)
    BY <1>1, <2>1, SameQueue
  <2>. QED
    BY <1>1, <1>2, <2>2, <2>3, <2>4, AudioActsInv
<1>4. CASE audio.close # {}
  <2>1. audio.close \in SUBSET Ids /\ audio.close \in SUBSET Nat /\ 0 \notin audio.close
    BY <1>2, IdsAre DEF AudioType
  <2>2. PICK id \in audio.close : id = CHOOSE i \in audio.close : \A j \in audio.close : i <= j
    BY <1>4, <2>1, SmallestIs
  <2>3. /\ queue' = Append(queue, [ev |-> "close", id |-> id, pos |-> 0, from |-> "audio"])
        /\ audio' = AudioCalling(audio, audio.close \ {id})
    BY <1>4, <2>2 DEF ClearOne, Post, AudioCalling
  <2>4. PICK rest : rest = audio.close \ {id}
    OBVIOUS
  <2>5. rest \in SUBSET Ids /\ codec.id \notin rest /\ id \notin {0, codec.id} /\ id \in Nat
    BY <1>2, <2>1, <2>4
  <2>6. audio' \in AudioType /\ audio'.pc = "calling" /\ audio'.close = rest
    BY <1>2, <2>3, <2>4, <2>5, AudioCallingIs
  <2>7. AudioPart'
    BY <1>1, <2>5, <2>6 DEF AudioPart
  <2>8. PICK m : m = [ev |-> "close", id |-> id, pos |-> 0, from |-> "audio"]
    OBVIOUS
  <2>9. m \in MessageType /\ m.ev = "close" /\ m.from = "audio" /\ m.id = id
    BY <2>5, <2>8 DEF MessageType
  <2>10. MessageOK(m)'
    BY <1>1, <2>5, <2>6, <2>9 DEF MessageOK
  <2>11. ASSUME NEW n \in MessageType, MessageOK(n)
         PROVE  MessageOK(n)'
    <3>1. C' = C /\ (Trying' <=> Trying)
      BY <1>1 DEF C, Trying
    <3>2. RebufferOK(n.pos) => RebufferOK(n.pos)'
      BY <1>1, <3>1 DEF RebufferOK
    <3>. QED
      BY <1>1, <2>6, <2>11, <3>1, <3>2 DEF MessageOK
  <2>12. QueuePart' /\ queue' \in Seq(MessageType)
    BY <1>1, <2>3, <2>8, <2>9, <2>10, <2>11, PostedQueue
  <2>. QED
    BY <1>1, <1>2, <2>6, <2>7, <2>12, AudioActsInv
<1>. QED
  BY <1>3, <1>4

-----------------------------------------------------------------------------
(* What is common to the steps of the other threads                        *)

(* The buffering thread finds what it stands on as it left it.             *)
Footing ==
    Linked(bt.id) => /\ Linked(bt.id)'
                     /\ H'.fd = H.fd /\ H'.end = H.end /\ H'.start = H.start /\ H'.type = H.type

(* The buffering thread stays where it was, its handle linked.             *)
LEMMA BtFixed ==
    ASSUME BufferingInv, UNCHANGED <<bt, session>>, Footing, bt.pc = "read" => ReadRoom',
           Trying => codec'.id = codec.id /\ codec'.pc = codec.pc /\ H'.filesize = H.filesize
    PROVE  BtPart' /\ Trying' = Trying
<1>1. Trying' = Trying /\ BtPart
  BY DEF Trying, BufferingInv
<1>2. /\ \/ bt'.pc \in {"open", "metadata", "chunk", "read", "yield", "fill", "reset"}
         \/ bt'.then \in {"fill", "try"}
         => Linked(bt.id)'
      /\ bt'.pc \in {"wait", "tail", "fill", "count"} => bt'.then \notin {"fill", "try"}
  BY <1>1 DEF BtPart, Footing
<1>3. /\ bt'.pc = "open" => H'.fd = None /\ H'.end = H'.start
      /\ bt'.pc = "metadata" => H'.type = "id3" /\ H'.end = H'.start
      /\ bt'.pc \in {"chunk", "read", "yield"} => H'.fd # None
  BY <1>1 DEF BtPart, Footing
<1>4. Trying' => /\ bt'.id = codec'.id /\ codec'.pc = "calling" /\ H'.type = "audio"
                 /\ session'.seeks # 0 /\ bt'.newpos <= H'.filesize
  <2>1. Trying => Linked(bt.id)
    BY <1>1 DEF BtPart, Trying
  <2>. QED
    BY <1>1, <2>1 DEF BtPart, Footing
<1>. QED
  BY <1>1, <1>2, <1>3, <1>4 DEF BtPart

(* The queue does not change, and each message is still in order.          *)
LEMMA OtherMessages ==
    ASSUME BufferingInv, queue' = queue, \A n \in MessageType : MessageOK(n) => MessageOK(n)'
    PROVE  QueuePart' /\ queue' \in Seq(MessageType)
<1>1. queue \in Seq(MessageType) /\ (\A i \in DOMAIN queue : MessageOK(queue[i])) /\ Single(queue)
  BY DEF BufferingInv, TypePart, QueuePart
<1>2. ASSUME NEW i \in DOMAIN queue'
      PROVE  \E n : n = queue'[i] /\ MessageOK(n)'
  <2>1. PICK n : n = queue[i]
    OBVIOUS
  <2>2. n \in MessageType /\ MessageOK(n)
    BY <1>1, <1>2, <2>1
  <2>. QED
    BY <2>1, <2>2
<1>. QED
  BY <1>1, <1>2, QueueIs

(* The codec's handle stays, and what was asked for with it.               *)
LEMMA CodecKept ==
    ASSUME BufferingInv, UNCHANGED <<codec, session>>,
           codec.id # 0 => /\ Linked(codec.id)'
                           /\ Same(C, C') /\ C'.pos = C.pos /\ C'.ridx = C.ridx /\ C'.pinned = C.pinned
    PROVE  CodecPart' /\ \A pos : codec.id # 0 /\ RebufferOK(pos) => RebufferOK(pos)'
<1>1. CodecPart'
  BY DEF BufferingInv, CodecPart, Same
<1>. QED
  BY <1>1 DEF RebufferOK, Same

(* Messages stay in order while the codec does.                            *)
LEMMA AudioMessages ==
    ASSUME BufferingInv, UNCHANGED <<codec, session>>, Trying' = Trying,
           audio.pc # "calling" \/ audio'.pc = "calling",
           \A pos : codec.id # 0 /\ RebufferOK(pos) => RebufferOK(pos)',
           NEW n \in MessageType, MessageOK(n)
    PROVE  MessageOK(n)'
<1>1. n.ev = "rebuffer" => codec.id # 0
  BY DEF MessageOK, BufferingInv, CodecPart
<1>. QED
  BY <1>1 DEF MessageOK

-----------------------------------------------------------------------------
(* A wait is abandoned *)

Signals(h, v) == [h EXCEPT !.signaled = v]
(* The fields of a handle that was signaled.                               *)
LEMMA SignalsIs ==
    ASSUME NEW h \in HandleType, NEW v \in BOOLEAN
    PROVE  LET new == Signals(h, v)
           IN  Same(h, new) /\ new.pos = h.pos /\ new.ridx = h.ridx /\ new.pinned = h.pinned
BY DEF Signals, Same, HandleType

(* A handle is signaled, or no longer.                                     *)
LEMMA SignalInv ==
    ASSUME BufferingInv, NEW x, NEW v \in BOOLEAN, handle' = [handle EXCEPT ![x].signaled = v],
           audio' \in AudioType, audio.pc \in {"idle", "halting"}, audio'.pc \in {"idle", "halting"},
           audio'.close = audio.close,
           UNCHANGED <<buffer, bt, filling, handle_list, nextId, codec, session, queue, asked, base_handle_id>>
    PROVE  BufferingInv'
<1>1. handle \in [Ids -> HandleType] /\ \A b \in There : b \in Ids
  BY ThereIs DEF BufferingInv, TypePart
<1>2. handle' \in [Ids -> HandleType] /\ (\A b \in Ids : handle'[b] = handle[b] \/ handle'[b] = Signals(handle[b], v))
  <2>1. CASE x \in Ids
    <3>1. Signals(handle[x], v) \in HandleType
      BY <1>1, <2>1, SignalsIs DEF Same
    <3>2. handle' = [handle EXCEPT ![x] = Signals(handle[x], v)]
      BY DEF Signals
    <3>. QED
      BY <1>1, <2>1, <3>1, <3>2
  <2>2. CASE x \notin Ids
    BY <1>1, <2>2
  <2>. QED
    BY <2>1, <2>2
<1>3. ASSUME NEW b \in There
      PROVE  /\ Same(handle[b], handle'[b]) /\ handle'[b].pos = handle[b].pos
             /\ handle'[b].ridx = handle[b].ridx /\ handle'[b].pinned = handle[b].pinned
  <2>1. PICK h \in HandleType : h = handle[b]
    BY <1>1, <1>3
  <2>2. Same(h, h)
    BY <2>1 DEF Same
  <2>3. LET new == Signals(h, v)
        IN  Same(h, new) /\ new.pos = h.pos /\ new.ridx = h.ridx /\ new.pinned = h.pinned
    BY SignalsIs
  <2>4. handle'[b] = h \/ handle'[b] = Signals(h, v)
    BY <1>1, <1>2, <1>3, <2>1
  <2>. QED
    BY <2>1, <2>2, <2>3, <2>4
<1>4. AudioGoes
  BY <1>2, <1>3 DEF AudioGoes
<1>5. AudioPart'
  BY DEF BufferingInv, AudioPart
<1>6. codec.id # 0 => /\ Linked(codec.id)'
                      /\ Same(C, C') /\ C'.pos = C.pos /\ C'.ridx = C.ridx /\ C'.pinned = C.pinned
  <2>1. codec.id # 0 => codec.id \in There /\ Linked(codec.id)
    BY ThereIs DEF BufferingInv, CodecPart
  <2>. QED
    BY <1>3, <2>1 DEF C, Linked
<1>7. \A pos : codec.id # 0 /\ RebufferOK(pos) => RebufferOK(pos)'
  BY <1>6, CodecKept
<1>8. Trying' = Trying
  BY DEF Trying
<1>9. \A n \in MessageType : MessageOK(n) => MessageOK(n)'
  BY <1>7, <1>8, AudioMessages
<1>10. QueuePart' /\ queue' \in Seq(MessageType)
  BY <1>9, OtherMessages
<1>11. asked' \in Seq({"low", "rebuffer"}) /\ base_handle_id' \in 0 .. Len(session.files)
  BY DEF BufferingInv, TypePart
<1>. QED
  BY <1>4, <1>5, <1>10, <1>11, AudioGoesInv

AudioAt(a, pc, id) == [a EXCEPT !.pc = pc, !.id = id]
(* The audio thread goes to another place.                                 *)
LEMMA AudioAtIs ==
    ASSUME NEW a \in AudioType, NEW pc \in {"idle", "halting", "loading"}, NEW id \in Nat
    PROVE  LET b == AudioAt(a, pc, id)
           IN  b \in AudioType /\ b.pc = pc /\ b.id = id /\ b.close = a.close
BY DEF AudioAt, AudioType

(* halt_decoding_track signals the codec's handle.                         *)
LEMMA HaltInv ==
    ASSUME BufferingInv, Halt
    PROVE  BufferingInv'
<1>1. /\ UNCHANGED <<buffer, bt, filling, handle_list, nextId, codec, session, queue, asked, base_handle_id>>
      /\ audio.pc = "idle" /\ handle' = [handle EXCEPT ![codec.id].signaled = TRUE]
      /\ audio' = AudioAt(audio, "halting", codec.id)
  BY DEF Halt, AudioFree, Inside, settings, AudioAt
<1>2. audio \in AudioType /\ codec.id \in Nat
  BY DEF BufferingInv, TypePart, CodecType
<1>3. PICK x \in Nat : x = codec.id
  BY <1>2
<1>4. audio' \in AudioType /\ audio'.pc = "halting" /\ audio'.close = audio.close
  BY <1>1, <1>2, <1>3, AudioAtIs, SMTT(30)
<1>. QED
  BY <1>1, <1>4, SignalInv

(* The codec has given up.                                                 *)
LEMMA HaltedInv ==
    ASSUME BufferingInv, Halted
    PROVE  BufferingInv'
<1>1. /\ UNCHANGED <<buffer, bt, filling, handle_list, nextId, codec, session, queue, asked, base_handle_id>>
      /\ audio.pc = "halting" /\ handle' = [handle EXCEPT ![audio.id].signaled = FALSE]
      /\ audio' = AudioAt(audio, "idle", 0)
  BY DEF Halted, Inside, settings, AudioAt
<1>2. audio \in AudioType
  BY DEF BufferingInv, TypePart
<1>3. audio' \in AudioType /\ audio'.pc = "idle" /\ audio'.close = audio.close
  BY <1>1, <1>2, AudioAtIs
<1>. QED
  BY <1>1, <1>3, SignalInv

-----------------------------------------------------------------------------
(* A bitmap is loaded, or not *)

(* A bitmap fails to load: its handle, not linked yet, is gone.            *)
LEMMA BitmapFailsInv ==
    ASSUME BufferingInv, BitmapFails
    PROVE  BufferingInv'
<1>. DEFINE x == audio.id
<1>1. /\ UNCHANGED <<bt, filling, handle_list, nextId, codec, session, queue, asked, base_handle_id>>
      /\ audio.pc = "loading" /\ handle' = [handle EXCEPT ![x] = NoHandle]
      /\ buffer' = Outdated(buffer, x, NoHandle)
      /\ audio' = AudioAt(audio, "idle", 0)
  BY DEF BitmapFails, Inside, settings, AudioAt
<1>2. /\ audio \in AudioType /\ handle \in [Ids -> HandleType] /\ x # 0 /\ x \notin ToSet(handle_list)
      /\ Sorted(handle_list)
  BY <1>1 DEF BufferingInv, TypePart, ListPart
<1>3. audio' \in AudioType /\ audio'.pc = "idle" /\ audio'.close = audio.close
  BY <1>1, <1>2, AudioAtIs
<1>4. There = ToSet(handle_list) \cup {x} /\ There' = There \ {x} /\ There' = ToSet(handle_list)
  BY <1>1, <1>2, <1>3 DEF There
<1>5. handle' \in [Ids -> HandleType] /\ \A b \in There : b # x => handle'[b] = handle[b]
  <2>1. NoHandle \in HandleType
    BY NoHandleIs
  <2>2. handle' \in [Ids -> HandleType] /\ \A b \in Ids : b # x => handle'[b] = handle[b]
    BY <1>1, <1>2, <2>1
  <2>3. There \subseteq Ids
    BY ThereIs DEF BufferingInv
  <2>. QED
    BY <2>2, <2>3
<1>6. There \subseteq Ids /\ (\A id : Linked(id) <=> id \in ToSet(handle_list))
      /\ \A b \in There : handle[b] \in HandleType
  BY ThereIs DEF BufferingInv
<1>7. TypePart'
  BY <1>1, <1>3, <1>5 DEF BufferingInv, TypePart
<1>8. ListPart'
  BY <1>1, <1>2, <1>3, <1>4, <1>5 DEF BufferingInv, ListPart
<1>9. StandPart'
  <2>1. Stands(Outdated(buffer, x, NoHandle), handle', There \ {x})
    BY <1>5, ClosedStands DEF BufferingInv, StandPart
  <2>. QED
    BY <1>1, <1>4, <2>1 DEF StandPart
<1>10. BtPart' /\ Trying' = Trying
  <2>1. \A b \in There' : Same(handle[b], handle'[b])
    BY <1>4, <1>5, <1>6 DEF Same
  <2>. QED
    BY <1>1, <1>4, <2>1, BtStays
<1>11. CursorPart'
  BY <1>1, <1>4, <1>5, <1>10 DEF BufferingInv, CursorPart
<1>12. AudioPart'
  BY <1>1, <1>3 DEF BufferingInv, AudioPart
<1>13. codec.id # 0 => Linked(codec.id)' /\ C' = C /\ C \in HandleType
  <2>1. codec.id # 0 => Linked(codec.id)
    BY DEF BufferingInv, CodecPart
  <2>. QED
    BY <1>1, <1>2, <1>4, <1>5, <1>6, <2>1 DEF C, Linked
<1>14. CodecPart' /\ \A pos : codec.id # 0 /\ RebufferOK(pos) => RebufferOK(pos)'
  BY <1>1, <1>13, CodecKept DEF Same
<1>15. QueuePart'
  <2>1. \A n \in MessageType : MessageOK(n) => MessageOK(n)'
    BY <1>1, <1>10, <1>14, AudioMessages
  <2>. QED
    BY <1>1, <2>1, OtherMessages
<1>. QED
  BY <1>7, <1>8, <1>9, <1>10, <1>11, <1>12, <1>14, <1>15 DEF BufferingInv

Loaded(h, n) == [h EXCEPT !.widx = ringbuf_add(@, n), !.filesize = n, !.end = n]
(* The fields of a loaded bitmap.                                          *)
LEMMA LoadedIs ==
    ASSUME NEW h \in HandleType, NEW n \in Nat, ringbuf_add(h.widx, n) \in Addresses
    PROVE  LET new == Loaded(h, n)
           IN  /\ new \in HandleType
               /\ new.at = h.at /\ new.size = h.size /\ new.type = h.type /\ new.data = h.data
               /\ new.widx = ringbuf_add(h.widx, n) /\ new.start = h.start /\ new.end = n
               /\ new.filesize = n /\ new.pos = h.pos /\ new.ridx = h.ridx /\ new.fd = h.fd
BY DEF Loaded, HandleType

(* What is allocated whole, and still empty, is loaded.                    *)
LEMMA LoadedLoads ==
    ASSUME NEW h, Shape(h), AllocAll(h.type), h.end = 0, h.fd = None, NEW n \in Nat, n <= h.filesize,
           Whole(h) <= buffer_len
    PROVE  Loads(h, Loaded(h, n), n)
<1>1. h \in HandleType /\ h.start = 0 /\ h.widx = ringbuf_add(h.data, h.end - h.start)
  BY DEF Shape
<1>2. h.data \in Addresses /\ Off(h) \in 1 .. buffer_len - 1 /\ h.filesize \in Nat
      /\ Whole(h) = Off(h) + (h.filesize - h.start)
  BY ShapeSays
<1>3. buffer_len \in Nat
  BY RingAssumption
<1>4. h.widx = h.data
  <2>1. h.widx = ringbuf_add(h.data, 0)
    BY <1>1
  <2>2. 0 \in 0 .. buffer_len /\ h.data \in 0 .. buffer_len - 1 /\ h.data \in Nat
    BY <1>2, <1>3 DEF Addresses
  <2>3. ringbuf_add(h.data, 0) = IF h.data + 0 >= buffer_len THEN h.data + 0 - buffer_len ELSE h.data + 0
    BY <1>2, <2>2, Further
  <2>. QED
    BY <2>1, <2>2, <2>3, <1>3
<1>5. n \in 0 .. buffer_len
  BY <1>1, <1>2, <1>3
<1>6. ringbuf_add(h.widx, n) \in Addresses
  BY <1>2, <1>4, <1>5, Further
<1>. QED
  BY <1>1, <1>4, <1>6, LoadedIs DEF Loads

AddedMessage(id) == [ev |-> "added", id |-> id, pos |-> 0, from |-> "audio"]
(* The message that announces a handle.                                    *)
LEMMA AddedMessageIs ==
    ASSUME NEW id \in Nat
    PROVE  /\ AddedMessage(id) \in MessageType
           /\ AddedMessage(id).ev = "added" /\ AddedMessage(id).from = "audio"
BY DEF AddedMessage, MessageType

(* It is posted.                                                           *)
LEMMA AddedQueue ==
    ASSUME BufferingInv, NEW id \in Nat, queue' = Append(queue, AddedMessage(id)),
           \A n \in MessageType : MessageOK(n) => MessageOK(n)'
    PROVE  QueuePart' /\ queue' \in Seq(MessageType)
<1>1. PICK m \in MessageType : m = AddedMessage(id) /\ m.ev = "added" /\ m.from = "audio"
  BY AddedMessageIs
<1>2. MessageOK(m)'
  BY <1>1 DEF MessageOK
<1>. QED
  BY <1>1, <1>2, PostedQueue

(* A bitmap is loaded, and linked.                                         *)
LEMMA BitmapLoadedInv ==
    ASSUME BufferingInv, BitmapLoaded
    PROVE  BufferingInv'
<1>. DEFINE x == audio.id
            h == handle[x]
            rc == h.filesize - 1
            new == Loaded(h, rc)
<1>1. /\ UNCHANGED <<bt, filling, nextId, codec, session, asked, base_handle_id>>
      /\ audio.pc = "loading" /\ handle' = [handle EXCEPT ![x] = new]
      /\ handle_list' = Append(handle_list, x)
      /\ buffer' = WithBytes(buffer, h.data, x, 0, rc)
      /\ queue' = Append(queue, AddedMessage(x))
      /\ audio' = AudioAt(audio, "idle", 0)
  BY DEF BitmapLoaded, Inside, settings, AudioAt, Link, Loaded, Post, AddedMessage
<1>2. /\ audio \in AudioType /\ handle \in [Ids -> HandleType] /\ Sorted(handle_list)
      /\ x # 0 /\ x \notin ToSet(handle_list) /\ h.type = "bitmap" /\ h.type = session.files[x].type
      /\ h.filesize # 0 /\ h.end = 0 /\ h.fd = None /\ x = nextId - 1 /\ x \in Nat
  <2>1. audio \in AudioType /\ handle \in [Ids -> HandleType] /\ Sorted(handle_list)
    BY DEF BufferingInv, TypePart, ListPart
  <2>2. x # 0 /\ x \notin ToSet(handle_list) /\ x = nextId - 1
    BY <1>1 DEF BufferingInv, ListPart
  <2>3. /\ h.type = "bitmap" /\ h.type = session.files[x].type
        /\ h.filesize # 0 /\ h.end = 0 /\ h.fd = None
    BY <1>1 DEF BufferingInv, ListPart
  <2>4. x \in Nat
    BY <2>1 DEF AudioType
  <2>. QED
    BY <2>1, <2>2, <2>3, <2>4
<1>3. audio' \in AudioType /\ audio'.pc = "idle" /\ audio'.close = audio.close
  <2>1. audio \in AudioType /\ audio' = AudioAt(audio, "idle", 0)
    BY <1>1, <1>2
  <2>. QED
    BY <2>1, AudioAtIs
<1>4. /\ There \subseteq Ids /\ x \in There /\ x \in Ids /\ Shape(h) /\ h \in HandleType
      /\ \A id : Linked(id) <=> id \in ToSet(handle_list)
      /\ \A b \in There : handle[b] \in HandleType /\ b < nextId /\ b \in Nat
      /\ Stands(buffer, handle, There)
  BY <1>1, ThereIs DEF BufferingInv, There, StandPart
<1>5. rc \in Nat /\ rc <= h.filesize /\ h.pos \in Nat /\ nextId \in Nat
  <2>1. h.filesize \in Nat /\ h.pos \in Nat
    BY <1>4 DEF HandleType
  <2>2. nextId \in Nat
    BY SessionSays DEF BufferingInv, TypePart
  <2>. QED
    BY <1>2, <2>1, <2>2
<1>6. AllocAll(h.type)
  BY <1>2 DEF AllocAll
<1>7. Loads(h, new, rc)
  <2>1. Whole(h) <= buffer_len
    BY <1>2, <1>4, <1>6 DEF Stands, Laid, RoomForAll, HasRoom
  <2>. QED
    BY <1>2, <1>4, <1>5, <1>6, <2>1, LoadedLoads
<1>8. new \in HandleType /\ new.pos = h.pos /\ new.end = rc /\ new.filesize = rc /\ new.type = h.type
      /\ new.at = h.at
  BY <1>7 DEF Loads
<1>. HIDE DEF new, rc
<1>9. handle' \in [Ids -> HandleType] /\ handle'[x] = new /\ (\A b \in Ids : b # x => handle'[b] = handle[b])
  BY <1>1, <1>2, <1>4, <1>8
<1>10. Sorted(handle_list') /\ ToSet(handle_list') = ToSet(handle_list) \cup {x}
  <2>1. \A a \in ToSet(handle_list) : a < nextId /\ a \in Nat
    BY <1>4 DEF There
  <2>2. \A a \in ToSet(handle_list) : a < x
    BY <2>1, <1>2, <1>5
  <2>. QED
    BY <1>1, <1>2, <2>2, Appended
<1>11. There = ToSet(handle_list) \cup {x} /\ There' = There /\ There' = ToSet(handle_list')
  BY <1>1, <1>3, <1>10 DEF There
<1>12. /\ \A b \in There : b # x => handle'[b] = handle[b]
       /\ \A b : Linked(b) => Linked(b)' /\ b # x /\ b \in There /\ b \in Ids
  BY <1>2, <1>4, <1>9, <1>10, <1>11 DEF Linked
<1>13. codec.id # 0 => Linked(codec.id) /\ Linked(codec.id)' /\ C' = C /\ C \in HandleType
  <2>1. codec.id # 0 => Linked(codec.id)
    BY DEF BufferingInv, CodecPart
  <2>2. codec.id # 0 => /\ handle'[codec.id] = handle[codec.id] /\ codec.id \in ToSet(handle_list')
                        /\ handle[codec.id] \in HandleType
    BY <1>2, <1>4, <1>9, <1>10, <1>11, <2>1
  <2>. QED
    BY <1>1, <2>1, <2>2 DEF C, Linked
<1>14. BtPart' /\ Trying' = Trying /\ (Trying => bt.id # x)
  <2>1. Linked(bt.id) => H' = H /\ Linked(bt.id)' /\ bt.id # x
    BY <1>1, <1>12 DEF H, Linked
  <2>2. Footing
    BY <2>1 DEF Footing
  <2>3. Trying => Linked(bt.id)
    BY DEF BufferingInv, BtPart, Trying
  <2>4. ASSUME bt.pc = "read"
        PROVE  ReadRoom'
    <3>1. ReadRoom /\ Linked(bt.id)
      BY <2>4 DEF BufferingInv, BtPart
    <3>2. H' = H /\ Ext(H)' = Ext(H)
      BY <2>1, <3>1 DEF Ext, Off, Held
    <3>3. \A b \in There : handle'[b].at = handle[b].at
      BY <1>8, <1>9, <1>12
    <3>. QED
      BY <1>1, <1>11, <3>1, <3>2, <3>3 DEF ReadRoom
  <2>. QED
    BY <1>1, <2>1, <2>2, <2>3, <2>4, BtFixed
<1>15. TypePart'
  <2>1. queue' \in Seq(MessageType)
    <3>1. queue \in Seq(MessageType)
      BY DEF BufferingInv, TypePart
    <3>. QED
      BY <1>1, <1>2, <3>1, AddedMessageIs, AppendIs
  <2>. QED
    BY <1>1, <1>3, <1>9, <2>1 DEF BufferingInv, TypePart
<1>16. ListPart'
  <2>1. ASSUME NEW b \in ToSet(handle_list')
        PROVE  b # 0 /\ b < nextId /\ handle'[b].type = session.files[b].type
    <3>1. CASE b = x
      BY <1>2, <1>5, <1>8, <1>9, <3>1
    <3>2. CASE b # x
      BY <1>9, <1>10, <1>12, <2>1, <3>2, ThereIs DEF BufferingInv, ListPart
    <3>. QED
      BY <3>1, <3>2
  <2>. QED
    BY <1>1, <1>3, <1>10, <2>1 DEF ListPart
<1>17. StandPart'
  <2>1. Stands(WithBytes(buffer, h.data, x, 0, rc), handle', There)
    BY <1>4, <1>7, <1>9, <1>12, LoadedStands
  <2>. QED
    BY <1>1, <1>11, <2>1 DEF StandPart
<1>18. CursorPart'
  <2>1. h.pos <= h.end
    BY <1>4, <1>14 DEF BufferingInv, CursorPart
  <2>2. new.pos <= new.filesize /\ new.pos <= new.end
    BY <1>2, <1>5, <1>8, <2>1 DEF rc
  <2>. QED
    BY <1>1, <1>9, <1>11, <1>12, <1>14, <2>2 DEF BufferingInv, CursorPart
<1>19. AudioPart'
  BY <1>1, <1>3 DEF BufferingInv, AudioPart
<1>20. CodecPart' /\ \A pos : codec.id # 0 /\ RebufferOK(pos) => RebufferOK(pos)'
  BY <1>1, <1>13, CodecKept DEF Same
<1>21. QueuePart'
  <2>1. \A n \in MessageType : MessageOK(n) => MessageOK(n)'
    BY <1>1, <1>14, <1>20, AudioMessages
  <2>. QED
    BY <1>1, <1>2, <2>1, AddedQueue
<1>. QED
  BY <1>14, <1>15, <1>16, <1>17, <1>18, <1>19, <1>20, <1>21 DEF BufferingInv

-----------------------------------------------------------------------------
(* A handle is opened                                                      *)

(* What is opened lies in the ring behind the others.                      *)
Adds(new) ==
    /\ handle' = [handle EXCEPT ![nextId] = new] /\ nextId' = nextId + 1
    /\ new \in HandleType /\ new.type = session.files[nextId].type
    /\ new.pos <= new.filesize /\ new.pos <= new.end
    /\ There' = There \cup {nextId} /\ StandPart'
    /\ bt.pc = "read" => Ext(H) + bt.copy_n <= Gap(H.at, new.at)

(* It is linked, or it is a bitmap that is to be loaded.                   *)
Joins ==
    \/ /\ handle_list' = Append(handle_list, nextId) /\ audio' = audio
    \/ /\ handle_list' = handle_list /\ audio' = AudioAt(audio, "loading", nextId)
       /\ handle'[nextId].type = "bitmap" /\ handle'[nextId].filesize # 0
       /\ handle'[nextId].end = 0 /\ handle'[nextId].fd = None

(* A handle joins the others.                                              *)
LEMMA AddsInv ==
    ASSUME BufferingInv, audio.pc = "idle", nextId \in DOMAIN session.files, NEW new, Adds(new), Joins,
           UNCHANGED <<bt, filling, codec, session, asked, base_handle_id>>,
           queue' = queue \/ queue' = Append(queue, AddedMessage(nextId))
    PROVE  BufferingInv'
<1>. DEFINE x == nextId
<1>1. /\ audio \in AudioType /\ handle \in [Ids -> HandleType] /\ session \in Sessions
      /\ Sorted(handle_list) /\ queue \in Seq(MessageType)
  BY DEF BufferingInv, TypePart, ListPart
<1>2. /\ x \in Ids /\ x \in Nat /\ x # 0 /\ x + 1 \in 1 .. Len(session.files) + 1
      /\ Len(session.files) \in Nat
  BY <1>1, SessionSays
<1>3. /\ There \subseteq Ids /\ There = ToSet(handle_list)
      /\ \A id : Linked(id) <=> id \in ToSet(handle_list)
      /\ \A b \in There : handle[b] \in HandleType /\ b < x /\ b \in Nat /\ b # 0
                          /\ handle[b].type = session.files[b].type
  BY ThereIs DEF BufferingInv
<1>4. handle' \in [Ids -> HandleType] /\ handle'[x] = new /\ (\A b \in Ids : b # x => handle'[b] = handle[b])
  BY <1>1, <1>2 DEF Adds
<1>5. \A b \in There : handle'[b] = handle[b] /\ b # x
  BY <1>2, <1>3, <1>4
<1>6. /\ audio' \in AudioType /\ audio'.pc \in {"idle", "loading"} /\ audio'.close = audio.close
      /\ \/ audio'.pc = "idle" /\ handle_list' = Append(handle_list, x)
         \/ /\ audio'.pc = "loading" /\ handle_list' = handle_list /\ audio'.id = x
            /\ new.type = "bitmap" /\ new.filesize # 0 /\ new.end = 0 /\ new.fd = None
  <2>1. PICK y \in Nat : y = x
    BY <1>2
  <2>2. LET b == AudioAt(audio, "loading", y)
        IN  b \in AudioType /\ b.pc = "loading" /\ b.id = y /\ b.close = audio.close
    BY <1>1, AudioAtIs
  <2>. QED
    BY <1>1, <1>4, <2>1, <2>2 DEF Joins
<1>7. Sorted(handle_list') /\ ToSet(handle_list) \subseteq ToSet(handle_list')
      /\ ToSet(handle_list') \subseteq There \cup {x}
  <2>1. Sorted(Append(handle_list, x)) /\ ToSet(Append(handle_list, x)) = ToSet(handle_list) \cup {x}
    BY <1>1, <1>2, <1>3, Appended
  <2>. QED
    BY <1>1, <1>3, <1>6, <2>1
<1>8. TypePart'
  <2>1. queue' \in Seq(MessageType)
    BY <1>1, <1>2, AddedMessageIs, AppendIs, SMTT(30)
  <2>2. nextId' \in 1 .. Len(session'.files) + 1
    BY <1>2 DEF Adds
  <2>. QED
    BY <1>1, <1>4, <1>6, <2>1, <2>2 DEF BufferingInv, TypePart
<1>9. ListPart'
  <2>1. ASSUME NEW b \in There \cup {x}
        PROVE  b # 0 /\ b < nextId' /\ handle'[b].type = session.files[b].type
    <3>1. b \in Nat /\ b <= x /\ b # 0
      BY <1>2, <1>3
    <3>2. nextId' = x + 1
      BY DEF Adds
    <3>3. handle'[b].type = session.files[b].type
      BY <1>3, <1>4, <1>5 DEF Adds
    <3>. QED
      BY <1>2, <3>1, <3>2, <3>3
  <2>2. audio'.pc = "loading" =>
          /\ audio'.id = nextId' - 1 /\ audio'.id # 0 /\ audio'.id \notin ToSet(handle_list')
          /\ handle'[audio'.id].type = "bitmap" /\ handle'[audio'.id].type = session.files[audio'.id].type
          /\ handle'[audio'.id].filesize # 0 /\ handle'[audio'.id].end = 0 /\ handle'[audio'.id].fd = None
    <3>1. x = nextId' - 1
      BY <1>2 DEF Adds
    <3>2. x \notin ToSet(handle_list)
      BY <1>3, <1>5
    <3>. QED
      BY <1>2, <1>4, <1>6, <2>1, <3>1, <3>2
  <2>. QED
    BY <1>7, <2>1, <2>2 DEF ListPart
<1>10. Linked(bt.id) => H' = H /\ Linked(bt.id)'
  BY <1>3, <1>5, <1>7 DEF H, Linked
<1>11. BtPart' /\ Trying' = Trying
  <2>1. Footing
    BY <1>10 DEF Footing
  <2>2. Trying => Linked(bt.id)
    BY DEF BufferingInv, BtPart, Trying
  <2>3. ASSUME bt.pc = "read"
        PROVE  ReadRoom'
    <3>1. ReadRoom /\ Linked(bt.id)
      BY <2>3 DEF BufferingInv, BtPart
    <3>2. H' = H /\ Ext(H)' = Ext(H)
      BY <1>10, <3>1 DEF Ext, Off, Held
    <3>3. \A b \in There : handle'[b].at = handle[b].at
      BY <1>5
    <3>4. Ext(H) + bt.copy_n <= Gap(H.at, handle'[x].at)
      BY <1>4, <2>3 DEF Adds
    <3>5. \A b \in There' : b = x \/ b \in There
      BY DEF Adds
    <3>. QED
      BY <3>1, <3>2, <3>3, <3>4, <3>5 DEF ReadRoom
  <2>. QED
    BY <1>10, <2>1, <2>2, <2>3, BtFixed
<1>12. CursorPart'
  BY <1>4, <1>5, <1>11 DEF BufferingInv, CursorPart, Adds
<1>13. AudioPart'
  BY <1>6 DEF BufferingInv, AudioPart
<1>14. codec.id # 0 => Linked(codec.id)' /\ C' = C /\ C \in HandleType
  <2>1. codec.id # 0 => codec.id \in There
    BY <1>3 DEF BufferingInv, CodecPart
  <2>. QED
    BY <1>3, <1>5, <1>7, <2>1 DEF C, Linked
<1>15. CodecPart' /\ \A pos : codec.id # 0 /\ RebufferOK(pos) => RebufferOK(pos)'
  BY <1>14, CodecKept DEF Same
<1>16. QueuePart'
  <2>1. \A n \in MessageType : MessageOK(n) => MessageOK(n)'
    BY <1>11, <1>15, AudioMessages
  <2>2. CASE queue' = queue
    BY <2>1, <2>2, OtherMessages
  <2>3. CASE queue' = Append(queue, AddedMessage(nextId))
    BY <1>2, <2>1, <2>3, AddedQueue
  <2>. QED
    BY <2>2, <2>3
<1>. QED
  BY <1>8, <1>9, <1>11, <1>12, <1>13, <1>15, <1>16 DEF BufferingInv, Adds

(* A handle of shape s is put where r says.                                *)
Puts(s, r) ==
    /\ audio.pc = "idle" /\ nextId \in DOMAIN session.files /\ s = session.files[nextId]
    /\ r = RoomFor(s) /\ r.ok /\ PaddingFits(s, r)

(* What is opened is what a session may ask for.                           *)
LEMMA PutsOpenable ==
    ASSUME Ordinary, BufferingInv, NEW s, NEW r, Puts(s, r)
    PROVE  Openable(s)
<1>1. session \in Sessions /\ nextId \in DOMAIN session.files /\ s = session.files[nextId]
  BY DEF BufferingInv, TypePart, Puts
<1>2. nextId \in 1 .. Len(session.files)
  BY <1>1, SessionSays
<1>3. s \in FileType /\ s.offset <= s.size /\ (AllocAll(s.type) => s.offset = 0)
  BY <1>1, <1>2, SessionSays
<1>4. StorageAlign = 1 \/ s.type \notin {"atomic", "codec"}
  BY <1>1 DEF Ordinary
<1>. QED
  BY <1>3, <1>4 DEF Openable

(* The list it joins.                                                      *)
LEMMA PutsList ==
    ASSUME BufferingInv, NEW s, NEW r, Puts(s, r)
    PROVE  /\ Sorted(handle_list) /\ Stands(buffer, handle, ToSet(handle_list))
           /\ Laid(handle, ToSet(handle_list)) /\ There = ToSet(handle_list) /\ There \subseteq Int
           /\ nextId \in Nat /\ nextId \in Ids /\ (\A a \in ToSet(handle_list) : a < nextId)
           /\ handle \in [Ids -> HandleType]
<1>1. audio.pc = "idle" /\ nextId \in DOMAIN session.files /\ session \in Sessions
  BY DEF BufferingInv, TypePart, Puts
<1>2. nextId \in Nat /\ nextId \in Ids
  BY <1>1, SessionSays
<1>3. There = ToSet(handle_list) /\ There \subseteq Int /\ \A a \in ToSet(handle_list) : a < nextId
  BY <1>1, ThereIs DEF BufferingInv
<1>4. Sorted(handle_list) /\ Stands(buffer, handle, There) /\ handle \in [Ids -> HandleType]
  BY DEF BufferingInv, ListPart, StandPart, TypePart
<1>. QED
  BY <1>2, <1>3, <1>4 DEF Stands

(* A read that is under way has its room before the new handle.            *)
LEMMA PutsClear ==
    ASSUME Ordinary, BufferingInv, NEW s, NEW r, Puts(s, r), bt.pc = "read"
    PROVE  Ext(H) + bt.copy_n <= Gap(H.at, r.at)
<1>. DEFINE L == ToSet(handle_list)
            f == Head(handle_list)
            l == Last(handle_list)
            n == HeaderSize(s.type) + PaddingOf(s, r)
<1>1. /\ Sorted(handle_list) /\ Laid(handle, L) /\ There = L /\ L \subseteq Int
  BY PutsList
<1>2. /\ Openable(s) /\ r = RoomFor(s) /\ r.ok /\ PaddingFits(s, r)
  BY PutsOpenable DEF Puts
<1>3. ReadRoom /\ bt.id \in L /\ bt \in BtType /\ Linked(bt.id)
  BY ThereIs DEF BufferingInv, BtPart, TypePart
<1>4. handle_list # <<>> /\ Ends(L, f, l)
  BY <1>1, <1>3, EmptyList, EndsAre
<1>5. /\ r.at \in Addresses /\ r.data = ringbuf_add(r.at, HeaderSize(s.type))
      /\ Whole(handle[l]) <= Gap(handle[l].at, r.at)
      /\ Gap(handle[l].at, r.at) + HeaderSize(s.type) + PaddingOf(s, r) <= Between(handle, f, l)
  BY <1>1, <1>2, <1>4, OpenPlace
<1>6. f \in L /\ l \in L /\ Shape(handle[l]) /\ Shape(handle[f]) /\ Shape(H) /\ H = handle[bt.id]
  BY <1>1, <1>3, <1>4 DEF Ends, Laid, H
<1>7. /\ handle[l].at \in Addresses /\ handle[f].at \in Addresses /\ H.at \in Addresses
      /\ Ext(H) \in Nat /\ H.end \in Nat /\ H.filesize \in Nat /\ H.start \in Nat
      /\ Held(H) = (IF H.end < H.filesize THEN H.end - H.start ELSE H.filesize - H.start)
      /\ Ext(H) = Off(H) + Held(H) /\ Whole(H) = Off(H) + (H.filesize - H.start)
      /\ Off(H) \in 1 .. buffer_len - 1 /\ bt.copy_n \in Nat /\ Whole(H) \in Nat
  BY <1>3, <1>6, ShapeSays DEF BtType
<1>8. bt.copy_n # 0 /\ H.end + bt.copy_n <= H.filesize
      /\ \A b \in L : b # bt.id => Ext(H) + bt.copy_n <= Gap(H.at, handle[b].at)
  BY <1>1, <1>3 DEF ReadRoom
<1>9. buffer_len \in Nat
  BY RingAssumption
<1>10. CASE bt.id = l
  <2>1. H.end < H.filesize
    BY <1>7, <1>8
  <2>2. Ext(H) + bt.copy_n <= Whole(H)
    BY <1>7, <1>8, <1>9, <2>1
  <2>3. Gap(H.at, r.at) \in 0 .. buffer_len - 1 /\ Whole(H) <= Gap(H.at, r.at)
    BY <1>5, <1>6, <1>7, <1>10, GapIs
  <2>. QED
    BY <2>2, <2>3, <1>7, <1>9
<1>11. CASE bt.id # l
  <2>1. n \in Nat \ {0} /\ PaddingOf(s, r) \in Nat
    <3>1. HeaderSize(s.type) \in Nat \ {0} /\ HeaderSize(s.type) <= buffer_len /\ StorageAlign \in Nat \ {0}
      BY Headers, RingAssumption
    <3>2. r.data \in Addresses
      BY <1>5, <3>1, <1>9, Further
    <3>3. PaddingOf(s, r) \in Nat
      <4>1. s.offset \in Int /\ r.data \in Int
        BY <1>2, <1>9, <3>2 DEF Openable, FileType, Addresses
      <4>2. StoragePad(s.offset, r.data) \in 0 .. StorageAlign - 1
        BY <4>1, Paddings
      <4>. QED
        BY <3>1, <4>2 DEF PaddingOf
    <3>. QED
      BY <3>1, <3>3
  <2>2. Gap(handle[l].at, r.at) \in 0 .. buffer_len - 1 /\ (Gap(handle[l].at, r.at) = 0 <=> handle[l].at = r.at)
    BY <1>5, <1>7, GapIs
  <2>3. Whole(handle[l]) \in Nat \ {0}
    <3>1. /\ Off(handle[l]) \in 1 .. buffer_len - 1 /\ Ext(handle[l]) = Off(handle[l]) + Held(handle[l])
          /\ Held(handle[l]) \in Nat /\ Ext(handle[l]) <= Whole(handle[l]) /\ Whole(handle[l]) \in Nat
      BY <1>6, ShapeSays
    <3>. QED
      BY <3>1, <1>9
  <2>4. r.at # handle[l].at
    BY <1>5, <2>2, <2>3, <1>9
  <2>5. Gap(handle[l].at, r.at) + n <= Between(handle, f, l)
    <3>1. PICK a \in Nat, b \in Int : a = HeaderSize(s.type) /\ b = PaddingOf(s, r)
      <4>1. HeaderSize(s.type) \in Nat
        BY Headers
      <4>. QED
        BY <4>1, <2>1
    <3>2. PICK g \in Nat : g = Gap(handle[l].at, r.at)
      BY <2>2, <1>9
    <3>. QED
      BY <1>5, <3>1, <3>2
  <2>. HIDE DEF n
  <2>6. Fits(handle, L, f, l, r.at, n)
    BY <1>1, <1>4, <1>5, <2>1, <2>4, <2>5 DEF Fits
  <2>7. Gap(H.at, r.at) = Gap(H.at, handle[l].at) + Gap(handle[l].at, r.at)
    BY <1>3, <1>6, <2>6, RoomBetween
  <2>8. Ext(H) + bt.copy_n <= Gap(H.at, handle[l].at) /\ Gap(H.at, handle[l].at) \in 0 .. buffer_len - 1
    BY <1>6, <1>7, <1>8, <1>11, GapIs
  <2>. QED
    BY <1>7, <1>9, <2>2, <2>7, <2>8
<1>. QED
  BY <1>10, <1>11

(* What is put there, its header written.                                  *)
LEMMA PutsIs ==
    ASSUME Ordinary, BufferingInv, NEW s, NEW r, Puts(s, r), NEW h, h = Opening(s, r)
    PROVE  /\ Shape(h) /\ h.at = r.at /\ h.type = s.type /\ h.start = s.offset /\ h.end = s.offset
           /\ h.pos = s.offset /\ h.filesize = s.size /\ h.size = HeaderSize(s.type) /\ h.fd = None
           /\ \A hs2 : hs2[nextId] = h /\ (\A a \in There : hs2[a] = handle[a]) =>
                Stands(WithHeader(buffer, r.at, nextId, h.size), hs2, There \cup {nextId})
           /\ AllocAll(s.type) => Whole(h) <= buffer_len
<1>1. /\ Sorted(handle_list) /\ Stands(buffer, handle, ToSet(handle_list))
      /\ Laid(handle, ToSet(handle_list)) /\ There = ToSet(handle_list)
      /\ nextId \in Nat /\ (\A a \in ToSet(handle_list) : a < nextId)
  BY PutsList
<1>2. /\ Openable(s) /\ r = RoomFor(s) /\ r.ok /\ PaddingFits(s, r)
  BY PutsOpenable DEF Puts
<1>3. /\ r.at \in Addresses /\ r.data = ringbuf_add(r.at, HeaderSize(s.type))
      /\ r.at + HeaderSize(s.type) <= buffer_len
      /\ ~CanWrap(s.type) => r.at = 0 \/ r.at + HeaderSize(s.type) + Asks(s) <= buffer_len
      /\ AllocAll(s.type) => HeaderSize(s.type) + Asks(s) <= buffer_len
  BY <1>1, <1>2, OpenPlace
<1>4. /\ Shape(h) /\ h.at = r.at /\ h.type = s.type /\ h.start = s.offset /\ h.end = s.offset
      /\ h.pos = s.offset /\ h.filesize = s.size /\ h.size = HeaderSize(s.type) /\ h.fd = None
      /\ Whole(h) <= HeaderSize(s.type) + Asks(s)
  BY <1>2, <1>3, OpeningShape
<1>5. ASSUME NEW hs2, hs2[nextId] = h, \A a \in There : hs2[a] = handle[a]
      PROVE  Stands(WithHeader(buffer, r.at, nextId, h.size), hs2, There \cup {nextId})
  BY <1>1, <1>2, <1>4, <1>5, OpenStands
<1>6. AllocAll(s.type) => Whole(h) <= buffer_len
  <2>1. Whole(h) \in Nat /\ HeaderSize(s.type) \in Nat /\ buffer_len \in Nat
    BY <1>4, ShapeSays, Headers, RingAssumption
  <2>2. Asks(s) \in Int
    BY <1>2, RingAssumption DEF Asks, Openable, FileType
  <2>. QED
    BY <1>3, <1>4, <2>1, <2>2
<1>. QED
  BY <1>4, <1>5, <1>6

Filled(h, n) == [h EXCEPT !.widx = ringbuf_add(@, n), !.end = n]
(* A handle filled by bufalloc is one that was loaded whole.               *)
LEMMA FilledIs ==
    ASSUME NEW h \in HandleType
    PROVE  Filled(h, h.filesize) = Loaded(h, h.filesize)
BY DEF Filled, Loaded, HandleType

(* What Open does to the handles and the ring, by the type of file.        *)
Opens(s, r, h) ==
    LET withHeader == WithHeader(buffer, r.at, nextId, h.size)
    IN  CASE s.type = "raw" ->
               /\ buffer' = WithBytes(withHeader, h.data, nextId, 0, s.size)
               /\ handle' = [handle EXCEPT ![nextId] = Filled(h, s.size)]
               /\ handle_list' = Append(handle_list, nextId)
               /\ UNCHANGED <<queue, audio>>
          [] s.type = "bitmap" ->
               /\ buffer' = withHeader
               /\ handle' = [handle EXCEPT ![nextId] = h]
               /\ audio' = AudioAt(audio, "loading", nextId)
               /\ UNCHANGED <<queue, handle_list>>
          [] OTHER ->
               /\ buffer' = withHeader
               /\ handle' = [handle EXCEPT ![nextId] = h]
               /\ handle_list' = Append(handle_list, nextId)
               /\ queue' = Append(queue, AddedMessage(nextId))
               /\ UNCHANGED audio

(* bufopen and bufalloc, in the parts that the proof looks at.             *)
LEMMA OpenIs ==
    ASSUME Ordinary, Open
    PROVE  \E s, r, h :
             /\ Puts(s, r) /\ h = Opening(s, r) /\ Opens(s, r, h)
             /\ nextId' = nextId + 1
             /\ UNCHANGED <<bt, filling, codec, session, asked, base_handle_id>>
<1>1. PICK s, r, h : s = session.files[nextId] /\ r = RoomFor(s) /\ h = Opening(s, r)
  OBVIOUS
<1>2. /\ audio.pc = "idle" /\ nextId \in DOMAIN session.files /\ r.ok /\ (~Cramped => PaddingFits(s, r))
      /\ nextId' = nextId + 1 /\ UNCHANGED <<bt, filling, codec, session, asked, base_handle_id>>
  BY <1>1 DEF Open, AudioFree, Inside, settings
<1>3. Puts(s, r)
  BY <1>1, <1>2 DEF Puts, Ordinary
<1>4. Opens(s, r, h)
  BY <1>1 DEF Open, Opens, Link, Post, AddedMessage, AudioAt, Filled
<1>. QED
  BY <1>1, <1>2, <1>3, <1>4

(* bufopen and bufalloc, of every type.                                    *)
LEMMA OpenInv ==
    ASSUME Ordinary, BufferingInv, Open
    PROVE  BufferingInv'
<1>1. PICK s, r, h :
         /\ Puts(s, r) /\ h = Opening(s, r) /\ Opens(s, r, h)
         /\ nextId' = nextId + 1
         /\ UNCHANGED <<bt, filling, codec, session, asked, base_handle_id>>
  BY OpenIs
<1>. DEFINE x == nextId
            mem == WithHeader(buffer, r.at, x, h.size)
<1>2. audio.pc = "idle" /\ x \in DOMAIN session.files /\ s = session.files[x]
  BY <1>1 DEF Puts
<1>3. /\ There = ToSet(handle_list) /\ (\A a \in There : a < x /\ a \in Ids /\ a \in Int) /\ x \in Ids /\ x \in Nat
      /\ Sorted(handle_list) /\ handle \in [Ids -> HandleType]
  BY <1>1, PutsList, ThereIs DEF BufferingInv
<1>4. /\ Shape(h) /\ h.at = r.at /\ h.type = s.type /\ h.start = s.offset /\ h.end = s.offset
      /\ h.pos = s.offset /\ h.filesize = s.size /\ h.size = HeaderSize(s.type) /\ h.fd = None
      /\ \A hs2 : hs2[x] = h /\ (\A a \in There : hs2[a] = handle[a]) => Stands(mem, hs2, There \cup {x})
      /\ AllocAll(s.type) => Whole(h) <= buffer_len
  BY <1>1, PutsIs
<1>5. /\ s.offset \in Nat /\ s.size \in Nat \ {0} /\ s.offset <= s.size
      /\ AllocAll(s.type) => s.offset = 0
  BY <1>1, PutsOpenable DEF Openable, FileType
<1>6. bt.pc = "read" => Ext(H) + bt.copy_n <= Gap(H.at, r.at)
  BY <1>1, PutsClear
<1>7. h \in HandleType
  BY <1>4 DEF Shape
<1>8. ToSet(Append(handle_list, x)) = There \cup {x}
  BY <1>3, Appended
<1>. HIDE DEF mem
<1>9. CASE s.type = "raw"
  <2>. DEFINE new == Loaded(h, s.size)
  <2>1. /\ buffer' = WithBytes(mem, h.data, x, 0, s.size)
        /\ handle' = [handle EXCEPT ![x] = Filled(h, s.size)]
        /\ handle_list' = Append(handle_list, x)
        /\ queue' = queue /\ audio' = audio
    BY <1>1, <1>9 DEF Opens, mem
  <2>2. AllocAll(h.type) /\ h.end = 0 /\ s.size \in Nat /\ s.size <= h.filesize /\ Whole(h) <= buffer_len
    BY <1>4, <1>5, <1>9 DEF AllocAll
  <2>3. Loads(h, new, s.size)
    BY <1>4, <2>2, LoadedLoads
  <2>4. handle' = [handle EXCEPT ![x] = new]
    BY <1>4, <1>7, <2>1, FilledIs
  <2>5. /\ new \in HandleType /\ new.type = s.type /\ new.at = r.at /\ new.pos = 0 /\ new.filesize = s.size
        /\ new.end = s.size
    BY <1>4, <1>5, <2>2, <2>3 DEF Loads
  <2>. HIDE DEF new
  <2>6. There' = There \cup {x}
    BY <1>2, <1>8, <2>1 DEF There
  <2>7. StandPart'
    <3>1. PICK hs : hs = [handle EXCEPT ![x] = h]
      OBVIOUS
    <3>2. hs[x] = h /\ (\A a \in There : hs[a] = handle[a]) /\ \A a \in There \cup {x} : a # x => handle'[a] = hs[a]
      BY <1>3, <2>4, <3>1
    <3>3. Stands(mem, hs, There \cup {x}) /\ handle'[x] = new
      BY <1>3, <1>4, <2>4, <3>2
    <3>4. Stands(WithBytes(mem, hs[x].data, x, 0, s.size), handle', There \cup {x})
      BY <2>3, <3>2, <3>3, LoadedStands
    <3>. QED
      BY <2>1, <2>6, <3>2, <3>4 DEF StandPart
  <2>8. Adds(new)
    BY <1>1, <1>2, <1>5, <1>6, <2>4, <2>5, <2>6, <2>7 DEF Adds
  <2>9. Joins
    BY <2>1 DEF Joins
  <2>. QED
    BY <1>1, <1>2, <2>1, <2>8, <2>9, AddsInv
<1>10. CASE s.type # "raw"
  <2>1. /\ buffer' = mem /\ handle' = [handle EXCEPT ![x] = h]
        /\ \/ /\ s.type = "bitmap" /\ handle_list' = handle_list /\ queue' = queue
              /\ audio' = AudioAt(audio, "loading", x)
           \/ /\ handle_list' = Append(handle_list, x) /\ audio' = audio
              /\ queue' = Append(queue, AddedMessage(x))
    <3>1. CASE s.type = "bitmap"
      BY <1>1, <3>1 DEF Opens, mem
    <3>2. CASE s.type # "bitmap"
      BY <1>1, <1>10, <3>2 DEF Opens, mem
    <3>. QED
      BY <3>1, <3>2
  <2>2. handle'[x] = h /\ \A a \in There : handle'[a] = handle[a]
    BY <1>3, <2>1
  <2>3. There' = There \cup {x}
    <3>1. CASE audio' = audio /\ handle_list' = Append(handle_list, x)
      BY <1>2, <1>8, <3>1 DEF There
    <3>2. CASE audio' = AudioAt(audio, "loading", x) /\ handle_list' = handle_list
      <4>1. audio \in AudioType
        BY DEF BufferingInv, TypePart
      <4>2. PICK y \in Nat : y = x
        BY <1>3
      <4>3. LET b == AudioAt(audio, "loading", y) IN b.pc = "loading" /\ b.id = y
        BY <4>1, AudioAtIs
      <4>. QED
        BY <1>3, <3>2, <4>2, <4>3 DEF There
    <3>. QED
      BY <2>1, <3>1, <3>2
  <2>4. StandPart'
    <3>1. Stands(mem, handle', There \cup {x})
      BY <1>4, <2>2
    <3>. QED
      BY <2>1, <2>3, <3>1 DEF StandPart
  <2>5. Adds(h)
    <3>1. h.type = session.files[x].type /\ h.pos <= h.filesize /\ h.pos <= h.end /\ h.at = r.at
      <4>1. h.pos = s.offset /\ h.filesize = s.size /\ h.end = s.offset /\ h.type = s.type /\ h.at = r.at
        BY <1>4
      <4>. QED
        BY <1>2, <1>5, <4>1
    <3>2. bt.pc = "read" => Ext(H) + bt.copy_n <= Gap(H.at, h.at)
      BY <1>6, <3>1
    <3>. QED
      BY <1>1, <1>7, <2>1, <2>3, <2>4, <3>1, <3>2 DEF Adds
  <2>6. Joins
    BY <1>4, <1>5, <2>1, <2>2 DEF Joins, AllocAll
  <2>. QED
    BY <1>1, <1>2, <2>1, <2>5, <2>6, AddsInv
<1>. QED
  BY <1>9, <1>10

-----------------------------------------------------------------------------
(* The codec thread                                                        *)

(* One handle's position, length or pin changes, and the codec goes on.    *)
CodecActs(x, new) ==
    /\ Linked(x) /\ handle' = [handle EXCEPT ![x] = new] /\ Alters(handle[x], new)
    /\ new.pos <= new.filesize /\ new.pos <= new.end /\ new.fd = handle[x].fd
    /\ bt.pc = "read" /\ bt.id = x => new.filesize = handle[x].filesize
    /\ codec' \in CodecType /\ codec'.id \notin audio.close
    /\ UNCHANGED Around

(* A step of the codec that changes its handle.                            *)
LEMMA CodecActsInv ==
    ASSUME BufferingInv, ~Trying, NEW x, NEW new, CodecActs(x, new),
           CodecPart', QueuePart', queue' \in Seq(MessageType), base_handle_id' \in 0 .. Len(session.files)
    PROVE  BufferingInv'
<1>1. UNCHANGED <<buffer, handle_list, nextId, bt, filling, audio, asked, session>>
  BY DEF CodecActs, Around
<1>2. There' = There
  BY <1>1 DEF There
<1>3. /\ x \in There /\ x \in Ids /\ There \subseteq Ids /\ ToSet(handle_list) \subseteq There /\ Linked(x)
      /\ handle \in [Ids -> HandleType]
      /\ \A id : Linked(id) <=> id \in ToSet(handle_list)
  BY ThereIs DEF BufferingInv, CodecActs, TypePart
<1>4. /\ new \in HandleType /\ new.at = handle[x].at /\ new.type = handle[x].type /\ new.end = handle[x].end
      /\ new.start = handle[x].start /\ new.data = handle[x].data /\ new.fd = handle[x].fd
      /\ new.pos <= new.filesize /\ new.pos <= new.end
  BY DEF CodecActs, Alters
<1>5. handle' \in [Ids -> HandleType] /\ handle'[x] = new /\ (\A b \in Ids : b # x => handle'[b] = handle[b])
  BY <1>3, <1>4 DEF CodecActs
<1>6. TypePart'
  BY <1>1, <1>5 DEF BufferingInv, TypePart, CodecActs
<1>7. ListPart'
  <2>1. \A b \in Ids : handle'[b].type = handle[b].type
    BY <1>4, <1>5
  <2>2. audio.pc = "loading" => audio.id # x /\ audio.id \in Ids
    BY <1>3 DEF BufferingInv, ListPart, There
  <2>3. ToSet(handle_list) \subseteq Ids
    BY ThereIs DEF BufferingInv
  <2>. QED
    BY <1>1, <1>5, <2>1, <2>2, <2>3 DEF BufferingInv, ListPart
<1>8. StandPart'
  BY <1>1, <1>3, AlteredPart DEF CodecActs
<1>9. CursorPart'
  BY <1>2, <1>3, <1>4, <1>5 DEF BufferingInv, CursorPart
<1>10. BtPart'
  <2>1. Linked(bt.id) => H' = H \/ (bt.id = x /\ H' = new /\ H = handle[x])
    BY <1>1, <1>3, <1>5 DEF H
  <2>2. Footing
    BY <1>1, <1>4, <2>1 DEF Footing, Linked
  <2>3. ASSUME bt.pc = "read"
        PROVE  ReadRoom'
    <3>1. ReadRoom /\ Linked(bt.id)
      BY <2>3 DEF BufferingInv, BtPart
    <3>2. /\ H'.at = H.at /\ H'.data = H.data /\ H'.end = H.end /\ H'.start = H.start
          /\ H'.filesize = H.filesize
      BY <1>4, <2>1, <2>3, <3>1 DEF CodecActs
    <3>3. Ext(H') = Ext(H)
      BY <3>2 DEF Ext, Off, Held
    <3>4. \A b \in There : handle'[b].at = handle[b].at
      BY <1>3, <1>4, <1>5
    <3>. QED
      BY <1>1, <1>2, <3>1, <3>2, <3>3, <3>4 DEF ReadRoom
  <2>. QED
    BY <1>1, <2>2, <2>3, BtFixed
<1>11. AudioPart'
  BY <1>1 DEF BufferingInv, AudioPart, CodecActs
<1>. QED
  BY <1>6, <1>7, <1>8, <1>9, <1>10, <1>11 DEF BufferingInv

(* A thread that does not wait for the buffering thread has asked nothing. *)
LEMMA NotCalling ==
    ASSUME BufferingInv, codec.pc # "calling"
    PROVE  ~Trying
BY DEF BufferingInv, BtPart

(* Messages stay in order while the codec asks nothing.                    *)
LEMMA CodecMessages ==
    ASSUME BufferingInv, codec.pc # "calling", UNCHANGED audio,
           codec'.id \in {0, codec.id} \/ audio.pc # "calling",
           NEW n \in MessageType, MessageOK(n)
    PROVE  MessageOK(n)'
<1>1. n.from # "codec" /\ n.ev \notin {"start", "rebuffer"}
  BY DEF MessageOK
<1>. QED
  BY <1>1 DEF MessageOK

(* It has sent nothing.                                                    *)
LEMMA CodecSilent ==
    ASSUME BufferingInv, codec.pc # "calling", UNCHANGED <<audio, queue>>,
           codec'.id \in {0, codec.id} \/ audio.pc # "calling"
    PROVE  QueuePart' /\ queue' \in Seq(MessageType)
BY CodecMessages, OtherMessages

CodecMessageOf(ev, id, pos) == [ev |-> ev, id |-> id, pos |-> pos, from |-> "codec"]
(* What the codec sends.                                                   *)
LEMMA CodecMessageOfIs ==
    ASSUME NEW ev \in {"start", "rebuffer", "close"}, NEW id \in Nat, NEW pos \in Nat
    PROVE  LET m == CodecMessageOf(ev, id, pos)
           IN  m \in MessageType /\ m.ev = ev /\ m.id = id /\ m.pos = pos /\ m.from = "codec"
BY DEF CodecMessageOf, MessageType

(* The codec sends a message and waits.                                    *)
LEMMA CodecAsksFor ==
    ASSUME BufferingInv, codec.pc # "calling", UNCHANGED <<audio, bt>>,
           codec'.id = codec.id, codec'.pc = "calling", codec.id \in Nat,
           NEW ev \in {"start", "rebuffer", "close"}, NEW pos \in Nat,
           queue' = Append(queue, CodecMessageOf(ev, codec.id, pos)),
           ev = "rebuffer" => RebufferOK(pos)'
    PROVE  QueuePart' /\ queue' \in Seq(MessageType)
<1>1. PICK id \in Nat : id = codec.id
  OBVIOUS
<1>2. PICK m \in MessageType : /\ m = CodecMessageOf(ev, id, pos)
                               /\ m.ev = ev /\ m.id = id /\ m.pos = pos /\ m.from = "codec"
  BY CodecMessageOfIs
<1>3. ~Trying /\ ~(Trying')
  BY NotCalling DEF Trying
<1>4. MessageOK(m)'
  BY <1>1, <1>2, <1>3 DEF MessageOK
<1>5. \A n \in MessageType : MessageOK(n) => MessageOK(n)'
  BY CodecMessages
<1>. QED
  BY <1>1, <1>2, <1>4, <1>5, PostedQueue

(* What is known of the codec's handle between its calls.                  *)
LEMMA CodecHandle ==
    ASSUME BufferingInv, codec.id # 0, codec.pc # "calling"
    PROVE  /\ ~Trying /\ codec \in CodecType /\ codec.id \in Nat /\ codec.id \in Ids /\ codec.id \in There
           /\ Linked(codec.id) /\ C = handle[codec.id] /\ Shape(C) /\ C \in HandleType
           /\ C.type \in {"audio", "atomic", "codec"} /\ (C.type # "codec" => C.pinned)
           /\ C.type = session.files[codec.id].type /\ codec.id \in 1 .. Len(session.files)
           /\ C.start \in Nat /\ C.pos \in Nat /\ C.end \in Nat /\ C.filesize \in Nat
           /\ C.start <= C.pos /\ C.pos <= C.end /\ C.pos <= C.filesize /\ C.ridx \in Addresses
           /\ codec.id \notin audio.close
<1>1. ~Trying /\ codec \in CodecType /\ Linked(codec.id)
      /\ C.type \in {"audio", "atomic", "codec"} /\ (C.type # "codec" => C.pinned)
      /\ codec.id \notin audio.close
  BY NotCalling DEF BufferingInv, TypePart, CodecPart, AudioPart
<1>2. /\ codec.id \in There /\ codec.id \in Ids /\ codec.id \in Nat /\ Shape(C) /\ C = handle[codec.id]
      /\ C \in HandleType /\ C.type = session.files[codec.id].type /\ codec.id \in 1 .. Len(session.files)
  BY <1>1, ThereIs DEF BufferingInv, C
<1>3. C.pos <= C.end /\ C.pos <= C.filesize
  BY <1>1, <1>2 DEF BufferingInv, CursorPart
<1>4. C.start \in Nat /\ C.pos \in Nat /\ C.end \in Nat /\ C.filesize \in Nat /\ C.start <= C.pos
  BY <1>2, ShapeSays
<1>5. C.ridx \in Addresses
  <2>1. TypeOK
    BY InvTypeOK
  <2>. QED
    BY <1>1, <1>2, <1>3, <2>1 DEF TypeOK, Linked
<1>. QED
  BY <1>1, <1>2, <1>3, <1>4, <1>5

(* A handle that does not change is altered by nothing.                    *)
LEMMA SameAlters ==
    ASSUME NEW h, Shape(h)
    PROVE  Alters(h, h)
BY ShapeSays DEF Alters, Shape

(* The codec goes on, and no handle changes.                               *)
LEMMA CodecOnlyInv ==
    ASSUME BufferingInv, codec.id # 0, codec.pc # "calling", handle' = handle, UNCHANGED Around,
           UNCHANGED base_handle_id,
           codec' \in CodecType, codec'.id = codec.id, CodecPart', QueuePart', queue' \in Seq(MessageType)
    PROVE  BufferingInv'
<1>1. /\ ~Trying /\ Linked(codec.id) /\ C = handle[codec.id] /\ Shape(C) /\ C.pos <= C.end
      /\ C.pos <= C.filesize /\ codec.id \notin audio.close /\ codec.id \in Ids
  BY CodecHandle
<1>2. handle' = [handle EXCEPT ![codec.id] = C]
  BY <1>1 DEF BufferingInv, TypePart
<1>3. CodecActs(codec.id, C)
  BY <1>1, <1>2, SameAlters DEF CodecActs
<1>4. base_handle_id' \in 0 .. Len(session.files)
  BY DEF BufferingInv, TypePart
<1>. QED
  BY <1>1, <1>3, <1>4, CodecActsInv

(* It holds nothing more.                                                  *)
LEMMA CodecRests ==
    ASSUME BufferingInv, codec.id # 0, codec'.id = codec.id, codec'.held = 0,
           Linked(codec.id)', C'.type = C.type, C'.pinned = C.pinned
    PROVE  CodecPart'
BY DEF BufferingInv, CodecPart

CodecWith(pc, id, size) == [CodecIdle EXCEPT !.pc = pc, !.id = id, !.size = size]
CodecAtPlace(pc, id) == [CodecIdle EXCEPT !.pc = pc, !.id = id]
CodecGiven(c, pos, ridx, held) ==
    [c EXCEPT !.pc = "idle", !.size = 0, !.pos = pos, !.ridx = ridx, !.held = held]
(* Where the codec is.                                                     *)
LEMMA CodecWithIs ==
    ASSUME NEW pc \in {"idle", "new", "calling"}, NEW id \in Nat, NEW size \in Nat
    PROVE  /\ LET c == CodecWith(pc, id, size)
              IN  c \in CodecType /\ c.pc = pc /\ c.id = id /\ c.held = 0
           /\ LET c == CodecAtPlace(pc, id)
              IN  c \in CodecType /\ c.pc = pc /\ c.id = id /\ c.held = 0
BY DEF CodecWith, CodecAtPlace, CodecIdle, CodecType

(* What the codec was given.                                               *)
LEMMA CodecGivenIs ==
    ASSUME NEW c \in CodecType, NEW pos \in Nat, NEW ridx \in Nat, NEW held \in Nat
    PROVE  LET d == CodecGiven(c, pos, ridx, held)
           IN  /\ d \in CodecType /\ d.pc = "idle" /\ d.id = c.id /\ d.pos = pos /\ d.ridx = ridx
               /\ d.held = held
BY DEF CodecGiven, CodecType

(* A handle is given to the codec.                                         *)
Pins(h, v) == [h EXCEPT !.pinned = v]
(* The fields of a handle that was pinned or let go.                       *)
LEMMA PinsIs ==
    ASSUME NEW h, Shape(h), NEW v \in BOOLEAN
    PROVE  LET new == Pins(h, v)
           IN  /\ Alters(h, new) /\ new.pos = h.pos /\ new.filesize = h.filesize /\ new.end = h.end
               /\ new.fd = h.fd /\ new.type = h.type /\ new.pinned = v
<1>1. h \in HandleType
  BY DEF Shape
<1>2. LET new == Pins(h, v)
      IN  /\ new \in HandleType /\ new.at = h.at /\ new.size = h.size /\ new.type = h.type /\ new.data = h.data
          /\ new.widx = h.widx /\ new.start = h.start /\ new.end = h.end /\ new.filesize = h.filesize
          /\ new.pos = h.pos /\ new.ridx = h.ridx /\ new.fd = h.fd /\ new.pinned = v
  BY <1>1 DEF Pins, HandleType
<1>3. PICK new : new = Pins(h, v)
  OBVIOUS
<1>4. Alters(h, h)
  BY SameAlters
<1>. QED
  BY <1>2, <1>3, <1>4 DEF Alters

(* The codec starts on a handle and pins it.                               *)
LEMMA StartCodecInv ==
    ASSUME BufferingInv, NEW id \in Ids, StartCodec(id)
    PROVE  BufferingInv'
<1>. DEFINE v == handle[id].type # "codec"
            new == Pins(handle[id], v)
<1>1. /\ UNCHANGED Around /\ queue' = queue /\ codec.pc = "idle" /\ codec.id = 0 /\ audio.pc = "idle"
      /\ Linked(id) /\ handle[id].type \in {"audio", "atomic", "codec"}
      /\ handle' = [handle EXCEPT ![id] = new]
      /\ codec' = CodecAtPlace(IF handle[id].type = "audio" THEN "new" ELSE "idle", id)
      /\ base_handle_id' = IF handle[id].type = "codec" THEN base_handle_id ELSE id
  BY DEF StartCodec, CodecAt, Pins, CodecAtPlace
<1>2. /\ Shape(handle[id]) /\ id \in 1 .. Len(session.files) /\ id \in There /\ id # 0
      /\ Len(session.files) \in Nat /\ id \in Nat
  BY <1>1, ThereIs, SessionSays, IdsAre DEF BufferingInv, TypePart
<1>3. ~Trying
  BY <1>1, NotCalling
<1>4. handle[id].pos <= handle[id].filesize /\ handle[id].pos <= handle[id].end
  BY <1>2, <1>3 DEF BufferingInv, CursorPart
<1>5. /\ Alters(handle[id], new) /\ new.pos = handle[id].pos /\ new.filesize = handle[id].filesize
      /\ new.end = handle[id].end /\ new.fd = handle[id].fd /\ new.type = handle[id].type /\ new.pinned = v
  <2>1. v \in BOOLEAN
    OBVIOUS
  <2>. QED
    BY <1>2, <2>1, PinsIs
<1>. HIDE DEF new
<1>6. /\ codec' \in CodecType /\ codec'.id = id /\ codec'.held = 0
      /\ codec'.pc \in {"idle", "new"}
  <2>1. PICK pc \in {"idle", "new"}, y \in Nat : pc = (IF handle[id].type = "audio" THEN "new" ELSE "idle") /\ y = id
    BY <1>2
  <2>2. codec' = CodecAtPlace(pc, y)
    BY <1>1, <2>1
  <2>3. LET c == CodecAtPlace(pc, y)
        IN  c \in CodecType /\ c.pc = pc /\ c.id = y /\ c.held = 0
    BY CodecWithIs
  <2>. QED
    BY <2>1, <2>2, <2>3
<1>7. CodecActs(id, new)
  <2>1. id \notin audio.close
    BY <1>1 DEF BufferingInv, AudioPart
  <2>. QED
    BY <1>1, <1>4, <1>5, <1>6, <2>1 DEF CodecActs
<1>8. CodecPart'
  <2>1. C' = new
    BY <1>1, <1>6 DEF C, BufferingInv, TypePart
  <2>2. Linked(codec.id)'
    BY <1>1, <1>6 DEF Linked, Around
  <2>. QED
    BY <1>1, <1>2, <1>5, <1>6, <2>1, <2>2 DEF CodecPart
<1>9. QueuePart' /\ queue' \in Seq(MessageType)
  <2>1. audio' = audio
    BY <1>1 DEF Around
  <2>. QED
    BY <1>1, <2>1, CodecSilent
<1>10. base_handle_id' \in 0 .. Len(session.files)
  BY <1>1, <1>2 DEF BufferingInv, TypePart
<1>. QED
  BY <1>3, <1>7, <1>8, <1>9, <1>10, CodecActsInv

(* The codec strips the tag at the end of the file.                        *)
LEMMA BeginInv ==
    ASSUME Ordinary, BufferingInv, Begin
    PROVE  BufferingInv'
<1>1. codec.pc = "new" /\ codec.id # 0 /\ codec.held = 0
  BY DEF Begin, CodecAt, BufferingInv, CodecPart
<1>2. PICK n \in {0, session.files[codec.id].tag} :
        /\ C.filesize - n > C.pos
        /\ n > 0 => (Racing \/ bt.pc \notin {"chunk", "read"} \/ bt.id # codec.id)
        /\ SetC([C EXCEPT !.filesize = @ - n])
  BY DEF Begin
<1>3. UNCHANGED Around /\ queue' = queue /\ base_handle_id' = base_handle_id /\ codec' = [codec EXCEPT !.pc = "idle"]
  BY DEF Begin, settings
<1>4. /\ ~Trying /\ codec \in CodecType /\ Linked(codec.id) /\ C = handle[codec.id] /\ Shape(C)
      /\ C \in HandleType /\ codec.id \in Ids /\ codec.id \in 1 .. Len(session.files) /\ codec.id \notin audio.close
      /\ C.start \in Nat /\ C.pos \in Nat /\ C.end \in Nat /\ C.filesize \in Nat
      /\ C.start <= C.pos /\ C.pos <= C.end /\ C.pos <= C.filesize
  BY <1>1, CodecHandle
<1>5. n \in Nat
  <2>1. session \in Sessions
    BY DEF BufferingInv, TypePart
  <2>2. session.files[codec.id] \in FileType
    BY <1>4, <2>1, SessionSays
  <2>. QED
    BY <2>2 DEF FileType
<1>6. PICK size \in Nat : size = C.filesize - n /\ size <= C.filesize /\ C.pos < size
  <2>1. C.filesize - n > C.pos
    BY <1>2
  <2>. QED
    BY <1>4, <1>5, <2>1
<1>. DEFINE new == Cut(C, size)
<1>7. /\ new \in HandleType
      /\ new.at = C.at /\ new.size = C.size /\ new.type = C.type /\ new.data = C.data
      /\ new.widx = C.widx /\ new.start = C.start /\ new.end = C.end /\ new.filesize = size
      /\ new.pos = C.pos /\ new.ridx = C.ridx /\ new.pinned = C.pinned /\ new.fd = C.fd
  <2>1. C \in HandleType /\ size \in Nat
    BY <1>4, <1>6
  <2>. QED
    BY <2>1, CutIs
<1>8. handle' = [handle EXCEPT ![codec.id] = new]
  BY <1>2, <1>6 DEF SetC, Cut
<1>. HIDE DEF new
<1>9. Alters(C, new)
  <2>1. Alters(C, C)
    BY <1>4, SameAlters
  <2>2. new.filesize <= C.filesize /\ new.start <= new.filesize /\ C.end \in Nat
    BY <1>4, <1>6, <1>7
  <2>3. C.end >= C.filesize => C.end >= new.filesize
    BY <1>4, <1>6, <1>7
  <2>. QED
    BY <1>7, <2>1, <2>2, <2>3 DEF Alters
<1>10. codec' \in CodecType /\ codec'.id = codec.id /\ codec'.held = 0 /\ codec'.pc = "idle"
  BY <1>1, <1>3, <1>4 DEF CodecType
<1>11. CodecActs(codec.id, new)
  <2>1. bt.pc = "read" /\ bt.id = codec.id => new.filesize = C.filesize
    BY <1>2, <1>4, <1>5, <1>6, <1>7 DEF Ordinary
  <2>2. new.pos <= new.filesize /\ new.pos <= new.end
    BY <1>4, <1>6, <1>7
  <2>. QED
    BY <1>3, <1>4, <1>7, <1>8, <1>9, <1>10, <2>1, <2>2 DEF CodecActs
<1>12. CodecPart'
  <2>1. C' = new /\ Linked(codec.id)'
    BY <1>3, <1>4, <1>8, <1>10 DEF C, BufferingInv, TypePart, Linked, Around
  <2>. QED
    BY <1>1, <1>7, <1>10, <2>1, CodecRests
<1>13. QueuePart' /\ queue' \in Seq(MessageType)
  <2>1. audio' = audio
    BY <1>3 DEF Around
  <2>. QED
    BY <1>1, <1>3, <1>10, <2>1, CodecSilent
<1>14. base_handle_id' \in 0 .. Len(session.files)
  BY <1>3 DEF BufferingInv, TypePart
<1>. QED
  BY <1>4, <1>11, <1>12, <1>13, <1>14, CodecActsInv

-----------------------------------------------------------------------------
(* Reading and waiting                                                     *)

(* What the codec is given is within the file and within what was read.    *)
LEMMA GiveInv ==
    ASSUME BufferingInv, codec.id # 0, codec.pc \in {"idle", "sleeping"}, handle' = handle, UNCHANGED Around,
           UNCHANGED <<base_handle_id, queue>>,
           NEW n \in Nat, n # 0 /\ C.type # "codec" => C.pos + n <= C.end /\ C.pos + n <= C.filesize, Give(C, n)
    PROVE  BufferingInv'
<1>1. /\ ~Trying /\ codec \in CodecType /\ Linked(codec.id) /\ C = handle[codec.id]
      /\ C.pos \in Nat /\ C.ridx \in Addresses /\ buffer_len \in Nat
      /\ C.type \in {"audio", "atomic", "codec"} /\ (C.type # "codec" => C.pinned)
  BY CodecHandle, RingAssumption
<1>2. PICK p \in Nat, r \in Nat, h \in Nat : p = C.pos /\ r = C.ridx /\ h = IF C.type = "codec" THEN 0 ELSE n
  BY <1>1 DEF Addresses
<1>3. codec' = CodecGiven(codec, p, r, h)
  BY <1>2 DEF Give, CodecGiven
<1>4. /\ codec' \in CodecType /\ codec'.pc = "idle" /\ codec'.id = codec.id /\ codec'.pos = p
      /\ codec'.ridx = r /\ codec'.held = h
  <2>1. codec \in CodecType
    BY <1>1
  <2>2. PICK c \in CodecType : c = codec
    BY <2>1
  <2>3. codec' = CodecGiven(c, p, r, h)
    BY <1>3, <2>2
  <2>4. LET d == CodecGiven(c, p, r, h)
        IN  /\ d \in CodecType /\ d.pc = "idle" /\ d.id = c.id /\ d.pos = p /\ d.ridx = r
            /\ d.held = h
    BY CodecGivenIs, SMTT(60)
  <2>. QED
    BY <2>2, <2>3, <2>4
<1>5. CodecPart'
  <2>1. C' = C /\ Linked(codec.id)'
    BY <1>1, <1>4 DEF C, Linked, Around
  <2>. QED
    BY <1>1, <1>2, <1>4, <2>1 DEF CodecPart
<1>6. QueuePart' /\ queue' \in Seq(MessageType)
  <2>1. audio' = audio
    BY DEF Around
  <2>. QED
    BY <1>4, <2>1, CodecSilent
<1>. QED
  BY <1>4, <1>5, <1>6, CodecOnlyInv

(* The codec thread asks for data and waits.                               *)
LEMMA AsksInv ==
    ASSUME BufferingInv, codec.id # 0, codec.pc \in {"idle", "sleeping"}, handle' = handle, UNCHANGED Around,
           UNCHANGED base_handle_id, SendStart,
           codec' \in CodecType, codec'.id = codec.id, codec'.pc = "calling", codec'.held = 0
    PROVE  BufferingInv'
<1>1. /\ codec.id \in Nat /\ Linked(codec.id) /\ C = handle[codec.id]
  BY CodecHandle
<1>2. CodecPart'
  <2>1. C' = C /\ Linked(codec.id)'
    BY <1>1 DEF C, Linked, Around
  <2>. QED
    BY <2>1, CodecRests
<1>3. QueuePart' /\ queue' \in Seq(MessageType)
  <2>1. audio' = audio /\ bt' = bt
    BY DEF Around
  <2>2. queue' = Append(queue, CodecMessageOf("start", codec.id, 0))
    BY DEF SendStart, Post, CodecMessageOf
  <2>. QED
    BY <1>1, <2>1, <2>2, CodecAsksFor
<1>. QED
  BY <1>2, <1>3, CodecOnlyInv

(* A request is cut to the end of the file.                                *)
LEMMA RealSizeIs ==
    ASSUME NEW h, h.filesize \in Nat, h.pos \in Nat, h.pos <= h.filesize, h.ridx \in Addresses, NEW n \in Nat
    PROVE  RealSize(h, n) \in Nat /\ h.pos + RealSize(h, n) <= h.filesize
<1>1. PICK left \in Nat : left = h.filesize - h.pos
  OBVIOUS
<1>2. PICK rest \in Nat : rest = (IF n = 0 THEN left ELSE Least(n, left)) /\ rest <= left
  BY LeastIs
<1>3. PICK room \in Nat : room = buffer_len - h.ridx + Guard
  BY RingAssumption, BufferingAssumption, SMTT(30) DEF Addresses
<1>4. RealSize(h, n) = (IF rest > Guard /\ h.type # "codec" THEN Least(rest, room) ELSE rest)
  BY <1>1, <1>2, <1>3 DEF RealSize
<1>5. Least(rest, room) \in Nat /\ Least(rest, room) <= rest
  BY LeastIs
<1>. QED
  BY <1>1, <1>2, <1>4, <1>5

(* bufgetdata gives what there is, or asks for it and waits.               *)
LEMMA ReadInv ==
    ASSUME BufferingInv, NEW n \in Wants \cup {0}, Read(n)
    PROVE  BufferingInv'
<1>1. codec.pc = "idle" /\ codec.id # 0 /\ handle' = handle /\ UNCHANGED Around /\ UNCHANGED base_handle_id
  BY DEF Read, CodecReady, CodecAt, settings
<1>2. /\ C.pos \in Nat /\ C.end \in Nat /\ C.filesize \in Nat /\ C.ridx \in Addresses /\ codec.id \in Nat
      /\ C.pos <= C.filesize
  BY <1>1, CodecHandle
<1>3. n \in Nat
  BY BufferingAssumption
<1>4. PICK size \in Nat : size = RealSize(C, n) /\ C.pos + size <= C.filesize
  BY <1>2, <1>3, RealSizeIs
<1>5. CASE Give(C, 0) /\ queue' = queue
  BY <1>1, <1>5, GiveInv
<1>6. CASE Available(C, size) /\ Give(C, size) /\ queue' = queue
  <2>1. C.pos + size <= C.end
    BY <1>2, <1>4, <1>6 DEF Available
  <2>. QED
    BY <1>1, <1>4, <1>6, <2>1, GiveInv
<1>7. CASE codec' = CodecWith("calling", codec.id, size) /\ SendStart
  <2>1. PICK y \in Nat : y = codec.id
    BY <1>2
  <2>2. codec' = CodecWith("calling", y, size)
    BY <1>7, <2>1
  <2>3. codec' \in CodecType /\ codec'.pc = "calling" /\ codec'.id = y /\ codec'.held = 0
    BY <2>2, CodecWithIs
  <2>. QED
    BY <1>1, <1>7, <2>1, <2>3, AsksInv
<1>. QED
  BY <1>4, <1>5, <1>6, <1>7 DEF Read, CodecWith

(* The codec gives up a wait.                                              *)
LEMMA GivesUp ==
    ASSUME BufferingInv, codec.id # 0, codec.pc \in {"idle", "sleeping"}, GiveUp
    PROVE  codec' \in CodecType /\ codec'.id = codec.id /\ codec'.pc = "idle" /\ codec'.held = 0
<1>0. codec.id \in Nat
  BY CodecHandle
<1>1. PICK y \in Nat : y = codec.id
  BY <1>0
<1>2. codec' = [pc |-> "idle", id |-> y, size |-> 0, held |-> 0, pos |-> 0, ridx |-> 0]
  BY <1>1 DEF GiveUp, CodecIdle
<1>. QED
  BY <1>1, <1>2 DEF CodecType

(* The codec looks again: data has come, or it gives up.                   *)
LEMMA LookInv ==
    ASSUME BufferingInv, Look
    PROVE  BufferingInv'
<1>1. /\ codec.pc = "sleeping" /\ handle' = handle /\ UNCHANGED Around /\ queue' = queue
      /\ base_handle_id' = base_handle_id
  BY DEF Look, CodecAt, settings
<1>2. codec.id # 0
  BY <1>1 DEF BufferingInv, CodecPart
<1>3. /\ C.pos \in Nat /\ C.end \in Nat /\ C.filesize \in Nat /\ codec \in CodecType
      /\ C.pos <= C.filesize /\ Linked(codec.id) /\ C = handle[codec.id]
  BY <1>1, <1>2, CodecHandle
<1>4. CASE GiveUp
  <2>1. codec' \in CodecType /\ codec'.id = codec.id /\ codec'.pc = "idle" /\ codec'.held = 0
    BY <1>1, <1>2, <1>4, GivesUp
  <2>2. CodecPart'
    <3>1. C' = C /\ Linked(codec.id)'
      BY <1>1, <1>3, <2>1 DEF C, Linked, Around
    <3>. QED
      BY <1>2, <2>1, <3>1, CodecRests
  <2>3. QueuePart' /\ queue' \in Seq(MessageType)
    <3>1. audio' = audio
      BY <1>1 DEF Around
    <3>. QED
      BY <1>1, <2>1, <3>1, CodecSilent
  <2>. QED
    BY <1>1, <1>2, <2>1, <2>2, <2>3, CodecOnlyInv
<1>5. CASE Available(C, codec.size) /\ Give(C, Least(codec.size, C.filesize - C.pos))
  <2>1. PICK s \in Nat, left \in Nat : s = codec.size /\ left = C.filesize - C.pos
    BY <1>3 DEF CodecType
  <2>2. PICK n \in Nat : n = Least(s, left) /\ n <= s /\ n <= left
    BY LeastIs
  <2>3. C.pos + n <= C.end /\ C.pos + n <= C.filesize
    BY <1>3, <1>5, <2>1, <2>2 DEF Available
  <2>4. Give(C, n)
    BY <1>5, <2>1, <2>2
  <2>. QED
    BY <1>1, <1>2, <2>3, <2>4, GiveInv
<1>. QED
  BY <1>4, <1>5 DEF Look

(* After many looks it asks again.                                         *)
LEMMA AskAgainInv ==
    ASSUME BufferingInv, AskAgain
    PROVE  BufferingInv'
<1>1. /\ codec.pc = "sleeping" /\ handle' = handle /\ UNCHANGED Around /\ SendStart
      /\ base_handle_id' = base_handle_id /\ codec' = [codec EXCEPT !.pc = "calling"]
  BY DEF AskAgain, CodecAt, settings
<1>2. codec.id # 0 /\ codec.held = 0 /\ codec \in CodecType
  BY <1>1 DEF BufferingInv, CodecPart, TypePart
<1>3. codec' \in CodecType /\ codec'.id = codec.id /\ codec'.pc = "calling" /\ codec'.held = 0
  BY <1>1, <1>2 DEF CodecType
<1>. QED
  BY <1>1, <1>2, <1>3, AsksInv

-----------------------------------------------------------------------------
(* Seeking and stopping                                                    *)

(* A seek that is asked of the buffering thread, or made by the codec.     *)
LEMMA SeekHandleInv ==
    ASSUME BufferingInv, codec.id # 0, codec.pc = "idle", C.type # "codec",
           NEW newpos \in Nat, seek_handle(newpos),
           (C.type = "audio" /\ session.seeks # 0) \/ (C.pos <= newpos /\ newpos <= C.end)
    PROVE  BufferingInv'
<1>1. /\ newpos <= C.filesize /\ UNCHANGED Around /\ base_handle_id' = base_handle_id
  BY DEF seek_handle, settings
<1>2. /\ ~Trying /\ codec \in CodecType /\ Linked(codec.id) /\ C = handle[codec.id] /\ Shape(C)
      /\ codec.id \in Nat /\ codec.id \in Ids /\ codec.id \notin audio.close
      /\ C.start \in Nat /\ C.pos \in Nat /\ C.end \in Nat /\ C.filesize \in Nat
      /\ C.start <= C.pos /\ C.pos <= C.end /\ C.pos <= C.filesize /\ C \in HandleType
  BY CodecHandle
<1>3. C.start <= C.filesize
  BY <1>2, ShapeSays
<1>4. audio' = audio /\ bt' = bt /\ session' = session
  BY <1>1 DEF Around
<1>5. CASE /\ queue' = Post("rebuffer", codec.id, newpos, "codec")
           /\ codec' = CodecAtPlace("calling", codec.id)
           /\ UNCHANGED handle
  <2>1. PICK y \in Nat : y = codec.id
    BY <1>2
  <2>2. codec' = CodecAtPlace("calling", y)
    BY <1>5, <2>1
  <2>3. LET c == CodecAtPlace("calling", y)
        IN  c \in CodecType /\ c.pc = "calling" /\ c.id = y /\ c.held = 0
    BY CodecWithIs
  <2>4. codec' \in CodecType /\ codec'.id = codec.id /\ codec'.pc = "calling" /\ codec'.held = 0
    BY <2>1, <2>2, <2>3
  <2>5. C' = C /\ Linked(codec.id)'
    BY <1>1, <1>2, <1>5, <2>4 DEF C, Linked, Around
  <2>6. CodecPart'
    BY <2>4, <2>5, CodecRests
  <2>7. QueuePart' /\ queue' \in Seq(MessageType)
    <3>1. queue' = Append(queue, CodecMessageOf("rebuffer", codec.id, newpos))
      BY <1>5 DEF Post, CodecMessageOf
    <3>2. RebufferOK(newpos)'
      BY <1>1, <1>4, <2>5 DEF RebufferOK
    <3>. QED
      BY <1>2, <1>4, <2>4, <3>1, <3>2, CodecAsksFor
  <2>. QED
    BY <1>1, <1>5, <2>4, <2>6, <2>7, CodecOnlyInv
<1>6. CASE /\ ~( /\ newpos < C.start \/ newpos >= C.end
                 /\ newpos < C.filesize \/ C.end < C.filesize)
           /\ SetC([C EXCEPT !.ridx = ringbuf_add(C.data, newpos - C.start), !.pos = newpos])
           /\ GiveUp
           /\ UNCHANGED queue
  <2>1. C.start <= newpos /\ newpos <= C.end
    BY <1>1, <1>2, <1>3, <1>6
  <2>. DEFINE new == WithPos(C, ringbuf_add(C.data, newpos - C.start), newpos)
  <2>2. handle' = [handle EXCEPT ![codec.id] = new]
    BY <1>6 DEF SetC, WithPos
  <2>3. /\ Alters(C, new) /\ SoughtTo(C, new) /\ new.pos = newpos /\ new.end = C.end /\ new.type = C.type
        /\ new.filesize = C.filesize
    BY <1>1, <1>2, <2>1, PositionedIs
  <2>4. new.fd = C.fd /\ new.pinned = C.pinned
    <3>1. C \in HandleType
      BY <1>2
    <3>. QED
      BY <3>1 DEF WithPos, HandleType
  <2>. HIDE DEF new
  <2>5. codec' \in CodecType /\ codec'.id = codec.id /\ codec'.pc = "idle" /\ codec'.held = 0
    BY <1>6, GivesUp
  <2>6. CodecActs(codec.id, new)
    BY <1>1, <1>2, <2>1, <2>2, <2>3, <2>4, <2>5 DEF CodecActs
  <2>7. CodecPart'
    <3>1. C' = new /\ Linked(codec.id)'
      BY <1>1, <1>2, <2>2, <2>5 DEF C, BufferingInv, TypePart, Linked, Around
    <3>. QED
      BY <2>3, <2>4, <2>5, <3>1, CodecRests
  <2>8. QueuePart' /\ queue' \in Seq(MessageType)
    BY <1>4, <1>6, <2>5, CodecSilent
  <2>9. base_handle_id' \in 0 .. Len(session.files)
    BY <1>1 DEF BufferingInv, TypePart
  <2>. QED
    BY <1>2, <2>6, <2>7, <2>8, <2>9, CodecActsInv
<1>. QED
  BY <1>5, <1>6 DEF seek_handle, CodecAtPlace

(* bufseek                                                                 *)
LEMMA SeekInv ==
    ASSUME Ordinary, BufferingInv, seeks \in Nat, Seek
    PROVE  BufferingInv'
<1>1. codec.pc = "idle" /\ codec.id # 0 /\ C.type # "codec" /\ seeks < session.seeks
  BY DEF Seek, CodecReady, CodecAt
<1>2. PICK newpos \in 0 .. C.filesize : seek_handle(newpos)
  BY DEF Seek
<1>3. /\ codec.id \in 1 .. Len(session.files) /\ C.filesize \in Nat
      /\ C.type \in {"audio", "atomic", "codec"} /\ C.type = session.files[codec.id].type
  BY <1>1, CodecHandle
<1>4. session \in Sessions /\ session.seeks \in Nat /\ codec.id \in DOMAIN session.files
  BY <1>3, SessionSays DEF BufferingInv, TypePart
<1>5. session.seeks # 0
  BY <1>1, <1>4
<1>6. session.files[codec.id].type # "atomic"
  BY <1>4, <1>5 DEF Ordinary
<1>7. newpos \in Nat /\ C.type = "audio"
  BY <1>1, <1>2, <1>3, <1>6
<1>. QED
  BY <1>1, <1>2, <1>5, <1>7, SeekHandleInv

(* bufadvance stays within what the codec was given.                       *)
LEMMA AdvanceInv ==
    ASSUME BufferingInv, Advance
    PROVE  BufferingInv'
<1>1. codec.pc = "idle" /\ codec.id # 0 /\ C.type # "codec"
  BY DEF Advance, CodecReady, CodecAt
<1>2. PICK n \in Leftovers : n < codec.held /\ seek_handle(codec.pos + codec.held - n)
  BY DEF Advance
<1>3. /\ C.pos \in Nat /\ C.end \in Nat /\ C.filesize \in Nat /\ codec \in CodecType
  BY <1>1, CodecHandle
<1>4. n \in Nat /\ codec.held \in Nat
  BY <1>3, BufferingAssumption DEF CodecType
<1>5. codec.pos = C.pos /\ C.pos + codec.held <= C.end
  BY <1>2, <1>4 DEF BufferingInv, CodecPart
<1>6. PICK newpos \in Nat : newpos = codec.pos + codec.held - n /\ C.pos <= newpos /\ newpos <= C.end
  BY <1>2, <1>3, <1>4, <1>5
<1>7. seek_handle(newpos)
  BY <1>2, <1>6
<1>. QED
  BY <1>1, <1>6, <1>7, SeekHandleInv

(* The codec is done with its handle.                                      *)
LEMMA StopCodecInv ==
    ASSUME BufferingInv, StopCodec
    PROVE  BufferingInv'
<1>1. codec.pc = "idle" /\ codec.id # 0 /\ UNCHANGED Around /\ base_handle_id' = base_handle_id
  BY DEF StopCodec, CodecReady, CodecAt, settings
<1>2. /\ ~Trying /\ codec \in CodecType /\ Linked(codec.id) /\ C = handle[codec.id] /\ Shape(C)
      /\ codec.id \in Nat /\ codec.id \in Ids
      /\ C.start \in Nat /\ C.pos \in Nat /\ C.end \in Nat /\ C.filesize \in Nat
      /\ C.start <= C.pos /\ C.pos <= C.end /\ C.pos <= C.filesize
  BY <1>1, CodecHandle
<1>3. audio' = audio /\ bt' = bt
  BY <1>1 DEF Around
<1>4. CASE /\ queue' = Post("close", codec.id, 0, "codec")
           /\ codec' = CodecAtPlace("calling", codec.id)
           /\ UNCHANGED handle
  <2>1. PICK y \in Nat : y = codec.id
    BY <1>2
  <2>2. codec' = CodecAtPlace("calling", y)
    BY <1>4, <2>1
  <2>3. LET c == CodecAtPlace("calling", y)
        IN  c \in CodecType /\ c.pc = "calling" /\ c.id = y /\ c.held = 0
    BY CodecWithIs
  <2>4. codec' \in CodecType /\ codec'.id = codec.id /\ codec'.pc = "calling" /\ codec'.held = 0
    BY <2>1, <2>2, <2>3
  <2>5. C' = C /\ Linked(codec.id)'
    BY <1>1, <1>2, <1>4, <2>4 DEF C, Linked, Around
  <2>6. CodecPart'
    BY <1>1, <2>4, <2>5, CodecRests
  <2>7. QueuePart' /\ queue' \in Seq(MessageType)
    <3>1. queue' = Append(queue, CodecMessageOf("close", codec.id, 0))
      BY <1>4 DEF Post, CodecMessageOf
    <3>. QED
      BY <1>1, <1>2, <1>3, <2>4, <3>1, CodecAsksFor
  <2>. QED
    BY <1>1, <1>4, <2>4, <2>6, <2>7, CodecOnlyInv
<1>5. CASE SetC([C EXCEPT !.pinned = FALSE]) /\ codec' = CodecIdle /\ UNCHANGED queue
  <2>. DEFINE new == Pins(C, FALSE)
  <2>1. handle' = [handle EXCEPT ![codec.id] = new]
    BY <1>5 DEF SetC, Pins
  <2>2. /\ Alters(C, new) /\ new.pos = C.pos /\ new.filesize = C.filesize /\ new.end = C.end /\ new.fd = C.fd
    BY <1>2, PinsIs
  <2>. HIDE DEF new
  <2>3. codec' \in CodecType /\ codec'.id = 0 /\ codec'.pc = "idle" /\ codec'.held = 0
    BY <1>5 DEF CodecIdle, CodecType
  <2>4. 0 \notin audio.close
    <3>1. audio.close \subseteq Ids
      BY DEF BufferingInv, TypePart, AudioType
    <3>. QED
      BY <3>1, IdsAre
  <2>5. CodecActs(codec.id, new)
    BY <1>1, <1>2, <2>1, <2>2, <2>3, <2>4 DEF CodecActs
  <2>6. CodecPart'
    BY <2>3 DEF CodecPart
  <2>7. QueuePart' /\ queue' \in Seq(MessageType)
    BY <1>1, <1>3, <1>5, <2>3, CodecSilent
  <2>8. base_handle_id' \in 0 .. Len(session.files)
    BY <1>1 DEF BufferingInv, TypePart
  <2>. QED
    BY <1>2, <2>5, <2>6, <2>7, <2>8, CodecActsInv
<1>. QED
  BY <1>4, <1>5 DEF StopCodec, CodecAtPlace

-----------------------------------------------------------------------------
(* Every step                                                              *)

(* Whatever the buffering thread does,                                     *)
LEMMA BufferingThreadInv ==
    ASSUME Ordinary, BufferingInv, BufferingThread
    PROVE  BufferingInv'
<1>1. CASE BufferHandle
  BY <1>1, EnterInv, OpenedInv, OpenFailsInv, MetadataReadInv, ReadChunkInv, ReadDoneInv, ReadFailsInv,
     YieldedInv DEF BufferHandle
<1>2. CASE HandleAdded \/ CloseHandle \/ StartFill \/ RebufferHandle \/ Reset
  BY <1>2, HandleAddedInv, CloseHandleInv, StartFillInv, RebufferHandleInv, ResetInv
<1>3. CASE StartReturns \/ CountAfterStart \/ TryReturns \/ RestReturns \/ FillReturns \/ Fill
  BY <1>3, StartReturnsInv, CountAfterStartInv, TryReturnsInv, RestReturnsInv, FillReturnsInv, FillInv
<1>4. CASE TimedOut \/ GoOn \/ Watch
  BY <1>4, TimedOutInv, GoOnInv, WatchInv
<1>. QED
  BY <1>1, <1>2, <1>3, <1>4 DEF BufferingThread

(* ... the audio thread,                                                   *)
LEMMA AudioThreadInv ==
    ASSUME Ordinary, BufferingInv, AudioThread
    PROVE  BufferingInv'
<1>1. CASE Open \/ BitmapLoaded \/ BitmapFails
  BY <1>1, OpenInv, BitmapLoadedInv, BitmapFailsInv
<1>2. CASE OnLow \/ OnRebuffer \/ Skip \/ ClearOne \/ Full \/ FillingIsFinished
  BY <1>2, OnLowInv, OnRebufferInv, SkipInv, ClearOneInv, FullInv, FillingIsFinishedInv
<1>3. CASE Halt \/ Halted
  BY <1>3, HaltInv, HaltedInv
<1>. QED
  BY <1>1, <1>2, <1>3 DEF AudioThread

(* ... or the codec thread, the invariant holds on.                        *)
LEMMA CodecThreadInv ==
    ASSUME Ordinary, BufferingInv, seeks \in Nat, CodecThread
    PROVE  BufferingInv'
<1>1. CASE \E id \in Ids : StartCodec(id)
  BY <1>1, StartCodecInv
<1>2. CASE \E n \in Wants \cup {0} : Read(n)
  BY <1>2, ReadInv
<1>3. CASE Begin \/ Look \/ AskAgain
  BY <1>3, BeginInv, LookInv, AskAgainInv
<1>4. CASE Seek \/ Advance \/ StopCodec
  BY <1>4, SeekInv, AdvanceInv, StopCodecInv
<1>. QED
  BY <1>1, <1>2, <1>3, <1>4 DEF CodecThread

(* Only a seek of the codec counts.                                        *)
LEMMA SeeksCount ==
    ASSUME seeks \in Nat, [Next]_vars
    PROVE  seeks' \in Nat
<1>1. CASE BufferingThread
  <2>1. CASE BufferHandle
    BY <1>1, <2>1 DEF BufferHandle, Enter, Opened, OpenFails, MetadataRead, ReadChunk, ReadDone, ReadFails,
       Yielded, Outside, Untouched, Inside
  <2>2. CASE ~BufferHandle
    BY <1>1, <2>2 DEF BufferingThread, HandleAdded, CloseHandle, StartFill, RebufferHandle, Reset,
       StartReturns, CountAfterStart, TryReturns, RestReturns, FillReturns, Fill, TimedOut, GoOn, Watch,
       Outside, Untouched, Inside
  <2>. QED
    BY <2>1, <2>2
<1>2. CASE AudioThread
  <2>1. CASE Open
    BY <2>1 DEF Open, Inside
  <2>2. CASE BitmapLoaded \/ BitmapFails
    BY <2>2 DEF BitmapLoaded, BitmapFails, Inside
  <2>3. CASE OnLow \/ OnRebuffer
    BY <2>3 DEF OnLow, OnRebuffer, ResetAndRebuffer
  <2>4. CASE Skip \/ ClearOne
    BY <2>4 DEF Skip, ClearOne, ResetAndRebuffer, Inside
  <2>5. CASE Full \/ FillingIsFinished \/ Halt \/ Halted
    BY <2>5 DEF Full, FillingIsFinished, Halt, Halted, Inside
  <2>. QED
    BY <1>2, <2>1, <2>2, <2>3, <2>4, <2>5 DEF AudioThread
<1>3. CASE CodecThread
  <2>1. CASE \E id \in Ids : StartCodec(id)
    BY <2>1 DEF StartCodec
  <2>2. CASE \E n \in Wants \cup {0} : Read(n)
    BY <2>2 DEF Read
  <2>3. CASE Begin \/ Look \/ AskAgain
    BY <2>3 DEF Begin, Look, AskAgain
  <2>4. CASE Seek \/ Advance \/ StopCodec
    BY <2>4 DEF Seek, Advance, StopCodec
  <2>. QED
    BY <1>3, <2>1, <2>2, <2>3, <2>4 DEF CodecThread
<1>4. CASE UNCHANGED vars
  BY <1>4 DEF vars
<1>. QED
  BY <1>1, <1>2, <1>3, <1>4 DEF Next

(* Nothing changes in a step that stutters.                                *)
LEMMA StutterInv ==
    ASSUME BufferingInv, UNCHANGED vars
    PROVE  BufferingInv'
<1>1. UNCHANGED <<buffer, handle, handle_list, nextId, queue, bt, filling, audio, codec, asked, base_handle_id,
                  session>>
  BY DEF vars, memory, settings
<1>2. C' = C /\ H' = H /\ There' = There /\ Trying' = Trying
  BY <1>1 DEF C, H, There, Trying
<1>3. TypePart' /\ ListPart' /\ StandPart' /\ CursorPart'
  BY <1>1, <1>2 DEF BufferingInv, TypePart, ListPart, StandPart, CursorPart
<1>4. BtPart'
  BY <1>1, <1>2 DEF BufferingInv, BtPart, Linked, ReadRoom
<1>5. AudioPart' /\ CodecPart'
  BY <1>1, <1>2 DEF BufferingInv, AudioPart, CodecPart, Linked
<1>6. QueuePart'
  BY <1>1, <1>2 DEF BufferingInv, QueuePart, MessageOK, RebufferOK
<1>. QED
  BY <1>3, <1>4, <1>5, <1>6 DEF BufferingInv

(* The inductive invariant holds throughout, for any session that Ordinary *)
(* allows, on a ring of any length with headers and alignment of any size: *)
(* no interleaving of the three threads at the places where they give up   *)
(* the processor breaks the layout of the ring, what each handle says of   *)
(* itself, or what the threads remember about it.                          *)
THEOREM SoundAlways ==
    ASSUME Ordinary
    PROVE  Spec => []Sound
<1>1. Init => Sound
  <2>. SUFFICES ASSUME Init
                PROVE  Sound
    OBVIOUS
  <2>1. seeks \in Nat
    BY DEF Init
  <2>. QED
    BY <2>1, InitInv DEF Sound
<1>2. Sound /\ [Next]_vars => Sound'
  <2>. SUFFICES ASSUME Sound, [Next]_vars
                PROVE  Sound'
    OBVIOUS
  <2>1. BufferingInv /\ seeks \in Nat
    BY DEF Sound
  <2>2. BufferingInv'
    BY <2>1, BufferingThreadInv, AudioThreadInv, CodecThreadInv, StutterInv DEF Next
  <2>3. seeks' \in Nat
    BY <2>1, SeeksCount
  <2>. QED
    BY <2>2, <2>3 DEF Sound
<1>. QED
  BY <1>1, <1>2, PTL DEF Spec

(* So every cursor of every linked handle stays an index into the ring.    *)
THEOREM TypesHold ==
    ASSUME Ordinary
    PROVE  Spec => []TypeOK
<1>1. Sound => TypeOK
  BY InvTypeOK DEF Sound
<1>2. Spec => []Sound
  BY SoundAlways
<1>. QED
  BY <1>1, <1>2, PTL

(* No handle ever runs into another: through add_handle, buffer_handle,    *)
(* shrink_buffer, rebuffer_handle and close_handle every header stands in  *)
(* the ring untouched and each byte a handle says it holds is that byte of *)
(* its file.                                                               *)
THEOREM HandlesStayIntact ==
    ASSUME Ordinary
    PROVE  Spec => []HandlesIntact
<1>1. Sound => HandlesIntact
  BY InvHandlesIntact DEF Sound
<1>2. Spec => []Sound
  BY SoundAlways
<1>. QED
  BY <1>1, <1>2, PTL

(* The read and write indices, the offsets in the file and the descriptor  *)
(* of a handle say the same, through every shrink, reset and short seek.   *)
THEOREM CursorsAlwaysAgree ==
    ASSUME Ordinary
    PROVE  Spec => []CursorsAgree
<1>1. Sound => CursorsAgree
  BY InvCursorsAgree DEF Sound
<1>2. Spec => []Sound
  BY SoundAlways
<1>. QED
  BY <1>1, <1>2, PTL

(* What bufgetdata gave the codec stays in the ring, where it was given,   *)
(* until the codec's next call, although handles are shrunk, moved and     *)
(* closed meanwhile (apps/buffering.c, the pinned count).                  *)
THEOREM HeldDataAlwaysStays ==
    ASSUME Ordinary
    PROVE  Spec => []HeldDataStays
<1>1. Sound => HeldDataStays
  BY InvHeldDataStays DEF Sound
<1>2. Spec => []Sound
  BY SoundAlways
<1>. QED
  BY <1>1, <1>2, PTL
=============================================================================
