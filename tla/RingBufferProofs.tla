-------------------------- MODULE RingBufferProofs --------------------------
(***************************************************************************)
(* What the methods of the ring buffer do to its size, for every capacity: *)
(* the arithmetic of wrapped indexes, once, for the proofs about the       *)
(* modules that use the ring.                                              *)
(***************************************************************************)
EXTENDS RingBuffer, TLAPS

-----------------------------------------------------------------------------
(* Remainders.                                                             *)

LEMMA ModRange ==
  ASSUME NEW c \in Nat \ {0}, NEW a \in Int
  PROVE  a % c \in 0..(c - 1)
  OBVIOUS

LEMMA ModSmall ==
  ASSUME NEW c \in Nat \ {0}, NEW a \in 0..(c - 1)
  PROVE  a % c = a
  OBVIOUS

LEMMA ModNegative ==
  ASSUME NEW c \in Nat \ {0}, NEW a \in Int, 0 - c <= a, a < 0
  PROVE  a % c = a + c
  OBVIOUS

\* Reducing a summand first makes no difference.
LEMMA ModAdd ==
  ASSUME NEW c \in Nat \ {0}, NEW a \in Int, NEW d \in Int
  PROVE  ((a % c) + d) % c = (a + d) % c
<1> DEFINE q  == a \div c
           r  == a % c
           s  == r + d
           q2 == s \div c
           r2 == s % c
<1>1. a = c * q + r /\ r \in 0..(c - 1) /\ q \in Int
  OBVIOUS
<1>2. s \in Int
  BY <1>1
<1> HIDE DEF q, r
<1>3. a + d = c * q + s
  BY <1>1
<1> HIDE DEF s
<1>4. s = c * q2 + r2 /\ r2 \in 0..(c - 1) /\ q2 \in Int
  BY <1>2
<1> HIDE DEF q2, r2
<1> DEFINE t == a + d
           p == q + q2
<1>5. t = c * p + r2 /\ p \in Int /\ t \in Int
  BY <1>1, <1>2, <1>3, <1>4
<1> HIDE DEF t, p
<1>6. t % c = r2
  BY <1>4, <1>5
<1> QED BY <1>6 DEF t, r2, s, r

\* Two positions less than a capacity apart never share a slot.
LEMMA ModInjective ==
  ASSUME NEW c \in Nat \ {0}, NEW a \in Int, NEW b \in Int,
         a % c = b % c, a - b < c, b - a < c
  PROVE  a = b
<1> DEFINE p == a \div c
           q == b \div c
           r == a % c
<1>1. /\ a = c * p + r /\ p \in Int /\ r \in Int
      /\ b = c * q + r /\ q \in Int
  OBVIOUS
<1> HIDE DEF p, q, r
<1>2. a - b = c * (p - q)
  BY <1>1
<1>3. CASE p - q >= 1
  <2>1. c * (p - q) >= c
    BY <1>1, <1>3
  <2> QED BY <1>1, <1>2, <2>1
<1>4. CASE p - q <= -1
  <2>1. c * (p - q) <= -c
    BY <1>1, <1>4
  <2> QED BY <1>1, <1>2, <2>1
<1>5. CASE p = q
  BY <1>1, <1>2, <1>5
<1> QED BY <1>1, <1>3, <1>4, <1>5

\* How many slots there are from slot s up to slot e, going round.
SlotsBetween(c, s, e) == IF e < s THEN c - s + e ELSE e - s

\* An interval of z slots from slot s ends at slot (s + z) % c, and its length
\* can be had back from its two ends.
LEMMA WrappedLength ==
  ASSUME NEW c \in Nat \ {0}, NEW s \in 0..(c - 1), NEW z \in 0..(c - 1)
  PROVE  z = SlotsBetween(c, s, (s + z) % c)
<1>1. CASE s + z < c
  <2>1. (s + z) % c = s + z
    BY <1>1
  <2> QED BY <2>1 DEF SlotsBetween
<1>2. CASE c <= s + z
  <2>1. (s + z) % c = s + z - c
    BY <1>2
  <2> QED BY <2>1 DEF SlotsBetween
<1> QED BY <1>1, <1>2

\* Where an interval of such a length ends.
LEMMA WrappedEnd ==
  ASSUME NEW c \in Nat \ {0}, NEW s \in 0..(c - 1), NEW e \in 0..(c - 1),
         NEW z, z = SlotsBetween(c, s, e)
  PROVE  (s + z) % c = e
<1>1. CASE e < s
  <2>1. s + z = c + e
    BY <1>1 DEF SlotsBetween
  <2> QED BY <2>1
<1>2. CASE s <= e
  <2>1. s + z = e
    BY <1>2 DEF SlotsBetween
  <2> QED BY <2>1
<1> QED BY <1>1, <1>2
-----------------------------------------------------------------------------
(* Methods.                                                                *)

LEMMA RingSizeRange ==
  ASSUME NEW c \in Nat \ {0}, NEW V, NEW b \in RingOver(c, V)
  PROVE  RingSize(b) \in 0..(c - 1) /\ RingRemain(b) = c - 1 - RingSize(b)
  BY DEF RingOver, RingSize, RingRemain

\* A ring whose end is z slots on from its start holds z bytes.
LEMMA RingSizeIs ==
  ASSUME NEW c \in Nat \ {0}, NEW V, NEW b \in RingOver(c, V),
         NEW z \in 0..(c - 1), b.end = (b.start + z) % c
  PROVE  RingSize(b) = z
<1> DEFINE s == b.start
           e == b.end
<1>1. s \in 0..(c - 1) /\ b.cap = c
  BY DEF RingOver
<1>2. e = (s + z) % c
  OBVIOUS
<1> HIDE DEF s, e
<1>3. z = SlotsBetween(c, s, (s + z) % c)
  BY <1>1, WrappedLength, Zenon
<1>4. z = SlotsBetween(c, s, e)
  BY <1>2, <1>3, Zenon
<1> QED BY <1>1, <1>4 DEF RingSize, SlotsBetween, s, e

\* The slot after the last byte, unrolled, is where a write at the end goes.
LEMMA EndSlot ==
  ASSUME NEW c \in Nat \ {0}, NEW V, NEW b \in RingOver(c, V),
         NEW base \in Nat, b.start = base % c
  PROVE  /\ (base + RingSize(b)) % c = b.end
         /\ Unrolled(b, base + RingSize(b)) = PseudoEnd(b)
         /\ PseudoEnd(b) = b.start + RingSize(b)
<1> DEFINE s == b.start
           e == b.end
           z == RingSize(b)
<1>1. /\ s \in 0..(c - 1) /\ e \in 0..(c - 1) /\ b.cap = c
      /\ z = SlotsBetween(c, s, e)
  BY DEF RingOver, RingSize, SlotsBetween
<1>2. s = base % c /\ z \in Int /\ base \in Int
  BY <1>1 DEF SlotsBetween
<1>3. PseudoEnd(b) = s + z
  BY <1>1 DEF PseudoEnd, SlotsBetween
<1> HIDE DEF s, e, z
<1>4. (base + z) % c = (s + z) % c
  <2>1. ((base % c) + z) % c = (base + z) % c
    BY <1>2, ModAdd, Zenon
  <2> QED BY <1>2, <2>1, Zenon
<1>5. (s + z) % c = e
  BY <1>1, WrappedEnd, Zenon
<1> QED BY <1>1, <1>3, <1>4, <1>5 DEF Unrolled, PseudoEnd, s, e, z

CellsWritten(b, c, data, pos) ==
  [i \in 0..(c - 1) |-> IF (i - pos) % c < Len(data)
                          THEN data[((i - pos) % c) + 1] ELSE b.cell[i]]

\* w is the ring b, whose first byte is at position base, with data written at
\* position pos, in its bytes or behind them.
WrittenAt(w, b, c, V, base, data, pos) ==
  /\ w \in RingOver(c, V)
  /\ w.start = b.start
  /\ RingSize(w) = MaxOf(RingSize(b), pos + Len(data) - base)
  /\ w.cell = CellsWritten(b, c, data, pos)

\* Where a position of the ring's span is, unrolled.
LEMMA UnrolledIs ==
  ASSUME NEW c \in Nat \ {0}, NEW V, NEW b \in RingOver(c, V),
         NEW base \in Nat, b.start = base % c,
         NEW d \in 0..(c - 1)
  PROVE  Unrolled(b, base + d) = b.start + d
<1> DEFINE s == b.start
           p == (base + d) % c
<1>1. s \in 0..(c - 1) /\ b.cap = c /\ base \in Int /\ d \in Int
  BY DEF RingOver
<1>2. p = (s + d) % c
  <2>1. ((base % c) + d) % c = (base + d) % c
    BY <1>1, ModAdd, Zenon
  <2> QED BY <2>1
<1> HIDE DEF p, s
<1>3. CASE s + d < c
  <2>1. s + d \in 0..(c - 1)
    BY <1>1, <1>3
  <2>2. p = s + d
    BY <1>2, <2>1, ModSmall
  <2> QED BY <1>1, <2>2 DEF Unrolled, p, s
<1>4. CASE c <= s + d
  <2> DEFINE e == s + d - c
  <2>1. e \in 0..(c - 1) /\ s + d = e + c /\ e < s
    BY <1>1, <1>4
  <2>2. (e + c) % c = e
    BY <2>1
  <2>3. p = e
    BY <1>2, <2>1, <2>2
  <2> QED BY <1>1, <2>1, <2>3 DEF Unrolled, p, s
<1> QED BY <1>1, <1>3, <1>4

\* data can be written at pos: in the span of the ring whose first byte is at
\* position base, up to the slot that stays empty.
WriteInside(b, c, V, base, data, pos) ==
  /\ c \in Nat \ {0} /\ b \in RingOver(c, V)
  /\ base \in Nat /\ b.start = base % c
  /\ data \in Seq(V) /\ pos \in Nat /\ base <= pos
  /\ pos + Len(data) <= base + c - 1

\* write of data that end before the slot that stays empty: they fit, the start
\* stays, the ring reaches as far as the data at least.
LEMMA RingWriteAt ==
  ASSUME NEW c, NEW V, NEW b, NEW base, NEW data, NEW pos,
         WriteInside(b, c, V, base, data, pos)
  PROVE  /\ RingWriteFits(b, Len(data), pos)
         /\ WrittenAt(RingWrite(b, data, pos), b, c, V, base, data, pos)
<1> DEFINE z   == RingSize(b)
           n   == Len(data)
           d   == pos - base
           y   == MaxOf(z, d + n)
           w   == RingWrite(b, data, pos)
           cells == CellsWritten(b, c, data, pos)
           e   == (b.start + y) % c
<1>0. /\ c \in Nat \ {0} /\ b \in RingOver(c, V) /\ base \in Nat /\ b.start = base % c
      /\ data \in Seq(V) /\ pos \in Nat /\ base <= pos /\ pos + Len(data) <= base + c - 1
  BY DEF WriteInside
<1>1. /\ b.start \in 0..(c - 1) /\ b.end \in 0..(c - 1) /\ b.cap = c
      /\ b.cell \in [0..(c - 1) -> V]
  BY <1>0 DEF RingOver
<1>2. /\ z \in 0..(c - 1) /\ RingRemain(b) = c - 1 - z
      /\ n \in Nat /\ d \in 0..(c - 1) /\ base + d = pos /\ d + n <= c - 1
      /\ pos + n - base = d + n
  <2>1. z \in 0..(c - 1) /\ RingRemain(b) = c - 1 - z
    BY <1>0, RingSizeRange
  <2> QED BY <1>0, <2>1
<1>3. PseudoEnd(b) = b.start + z
  BY <1>0, EndSlot
<1>4. Unrolled(b, pos) = b.start + d
  <2> HIDE DEF d
  <2>1. Unrolled(b, base + d) = b.start + d
    BY <1>0, <1>2, UnrolledIs
  <2> QED BY <1>2, <2>1
<1>5. y \in 0..(c - 1)
  <2> HIDE DEF z, d, n
  <2> QED BY <1>0, <1>2 DEF MaxOf
<1>6. RingWriteFits(b, n, pos)
  <2> HIDE DEF z, d, n
  <2> QED BY <1>0, <1>1, <1>2, <1>3, <1>4 DEF RingWriteFits
<1>7. MaxOf(PseudoEnd(b), Unrolled(b, pos) + n) = b.start + y
  <2> HIDE DEF z, d, n
  <2> QED BY <1>0, <1>1, <1>2, <1>3, <1>4 DEF MaxOf
<1>8. w = [b EXCEPT !.end = e, !.cell = cells]
  BY <1>0, <1>1, <1>6, <1>7 DEF RingWrite, CellsWritten
<1>9. cells \in [0..(c - 1) -> V]
  <2> SUFFICES ASSUME NEW i \in 0..(c - 1)
               PROVE  (IF (i - pos) % c < n THEN data[((i - pos) % c) + 1]
                                            ELSE b.cell[i]) \in V
    BY DEF CellsWritten
  <2> DEFINE k == (i - pos) % c
             x == i - pos
  <2>1. x \in Int
    BY <1>0, <1>2
  <2> HIDE DEF x
  <2>2. x % c \in 0..(c - 1)
    BY <1>0, <2>1
  <2>3. k \in 0..(c - 1)
    BY <2>2 DEF x
  <2> HIDE DEF k
  <2>4. CASE k < n
    <3>1. k + 1 \in 1..n
      BY <2>3, <2>4, <1>0, <1>2
    <3> QED BY <1>0, <2>4, <3>1 DEF k
  <2>5. CASE ~(k < n)
    BY <1>1, <2>5 DEF k
  <2> QED BY <2>4, <2>5
<1>10. e \in 0..(c - 1)
  <2> DEFINE x == b.start + y
  <2>1. x \in Int
    BY <1>0, <1>1, <1>5
  <2> HIDE DEF x
  <2>2. x % c \in 0..(c - 1)
    BY <1>0, <2>1
  <2> QED BY <2>2 DEF x
<1> HIDE DEF cells, e
<1>11. w \in RingOver(c, V) /\ w.start = b.start /\ w.end = e /\ w.cell = cells
  BY <1>0, <1>1, <1>8, <1>9, <1>10 DEF RingOver
<1>12. RingSize(w) = y
  <2> HIDE DEF w, y
  <2>1. w.end = (w.start + y) % c
    BY <1>11 DEF e
  <2> QED BY <1>0, <1>5, <1>11, <2>1, RingSizeIs
<1> QED BY <1>2, <1>6, <1>11, <1>12 DEF WrittenAt, cells

\* After such a write the slot of a position of the span holds the byte written
\* there, or what it held before.
LEMMA CellsWrittenAt ==
  ASSUME NEW c, NEW V, NEW b, NEW base, NEW data, NEW pos,
         WriteInside(b, c, V, base, data, pos),
         NEW p \in base..(base + c - 1)
  PROVE  CellsWritten(b, c, data, pos)[p % c] =
           IF pos <= p /\ p < pos + Len(data) THEN data[p - pos + 1] ELSE b.cell[p % c]
<1> DEFINE n == Len(data)
           i == p % c
           j == (i - pos) % c
           x == p - pos
<1>0. /\ c \in Nat \ {0} /\ base \in Nat /\ pos \in Nat /\ base <= pos
      /\ n \in Nat /\ pos + n <= base + c - 1
  BY DEF WriteInside
<1> HIDE DEF n
<1>1. p \in Int /\ x \in Int /\ i \in 0..(c - 1) /\ i \in Int
  <2>1. p \in Int /\ x \in Int
    BY <1>0
  <2>2. i \in 0..(c - 1)
    BY <1>0, <2>1, ModRange
  <2> QED BY <1>0, <2>1, <2>2
<1>2. j = x % c
  <2> DEFINE d == 0 - pos
  <2>1. d \in Int /\ i + d = i - pos /\ p + d = x
    BY <1>0, <1>1
  <2> HIDE DEF d, x
  <2>2. ((p % c) + d) % c = (p + d) % c
    BY <1>0, <1>1, <2>1, ModAdd, Zenon
  <2> QED BY <2>1, <2>2
<1>3. CellsWritten(b, c, data, pos)[i] = IF j < n THEN data[j + 1] ELSE b.cell[i]
  BY <1>1 DEF CellsWritten, n
<1> HIDE DEF j
<1>4. CASE p < pos
  <2>1. 0 - c <= x /\ x < 0 /\ n <= x + c
    BY <1>0, <1>4
  <2> HIDE DEF x
  <2>2. x % c = x + c
    BY <1>0, <1>1, <2>1, ModNegative
  <2>3. ~(j < n)
    BY <1>0, <1>1, <1>2, <2>1, <2>2
  <2> HIDE DEF i
  <2>4. CellsWritten(b, c, data, pos)[i] = b.cell[i]
    BY <1>3, <2>3
  <2> QED BY <1>0, <1>1, <1>4, <2>4 DEF i, n
<1>5. CASE pos <= p
  <2>1. x \in 0..(c - 1) /\ (x < n <=> p < pos + n)
    BY <1>0, <1>5
  <2> HIDE DEF x
  <2>2. j = x
    BY <1>0, <1>2, <2>1, ModSmall
  <2> HIDE DEF i
  <2>3. CellsWritten(b, c, data, pos)[i] = IF x < n THEN data[x + 1] ELSE b.cell[i]
    BY <1>3, <2>2
  <2>4. x + 1 = p - pos + 1
    BY DEF x
  <2> QED BY <1>5, <2>1, <2>3, <2>4 DEF i, n
<1> QED BY <1>0, <1>1, <1>4, <1>5

\* data are the bytes of the stream from position pos on.
StreamBytes(data, pos) == \A k \in 1..Len(data) : data[k] = pos + k - 1

\* The slots of w for the span of b's ring: n bytes of the stream from pos on,
\* and what b had elsewhere.
Overlaid(w, b, c, base, pos, n) ==
  \A p \in base..(base + c - 1) :
    w.cell[p % c] = IF pos <= p /\ p < pos + n THEN p ELSE b.cell[p % c]

LEMMA RingWritePlaces ==
  ASSUME NEW c, NEW V, NEW b, NEW base, NEW data, NEW pos,
         WriteInside(b, c, V, base, data, pos), StreamBytes(data, pos)
  PROVE  Overlaid(RingWrite(b, data, pos), b, c, base, pos, Len(data))
<1> DEFINE w == RingWrite(b, data, pos)
           n == Len(data)
<1>1. w.cell = CellsWritten(b, c, data, pos)
  BY RingWriteAt DEF WrittenAt
<1>2. n \in Nat /\ pos \in Nat /\ base \in Nat /\ c \in Nat
  BY DEF WriteInside
<1> SUFFICES ASSUME NEW p \in base..(base + c - 1)
             PROVE  w.cell[p % c] = IF pos <= p /\ p < pos + n THEN p ELSE b.cell[p % c]
  BY Zenon DEF Overlaid
<1> HIDE DEF w
<1>3. w.cell[p % c] = IF pos <= p /\ p < pos + n THEN data[p - pos + 1] ELSE b.cell[p % c]
  BY <1>1, CellsWrittenAt
<1>4. CASE pos <= p /\ p < pos + n
  <2> DEFINE k == p - pos + 1
  <2>1. k \in 1..n /\ pos + k - 1 = p
    BY <1>2, <1>4
  <2> HIDE DEF k
  <2>2. data[k] = p
    BY <2>1 DEF StreamBytes
  <2> QED BY <1>3, <1>4, <2>2 DEF k
<1>5. CASE ~(pos <= p /\ p < pos + n)
  BY <1>3, <1>5
<1> QED BY <1>4, <1>5

\* w is the ring b with n bytes more behind its end.
GrownBy(w, b, c, V, n) ==
  /\ w \in RingOver(c, V)
  /\ w.start = b.start
  /\ RingSize(w) = RingSize(b) + n

\* write at the end of the data.
LEMMA RingWriteAppends ==
  ASSUME NEW c \in Nat \ {0}, NEW V, NEW b \in RingOver(c, V),
         NEW base \in Nat, b.start = base % c,
         NEW data \in Seq(V), Len(data) <= RingRemain(b)
  PROVE  /\ GrownBy(RingWrite(b, data, base + RingSize(b)), b, c, V, Len(data))
         /\ RingWrite(b, data, base + RingSize(b)).cell =
              CellsWritten(b, c, data, base + RingSize(b))
<1> DEFINE z   == RingSize(b)
           n   == Len(data)
           pos == base + z
<1>1. z \in 0..(c - 1) /\ n <= c - 1 - z /\ n \in Nat
  BY RingSizeRange
<1> HIDE DEF z, n
<1>2. pos \in Nat /\ base <= pos /\ pos + n <= base + c - 1 /\ MaxOf(z, pos + n - base) = z + n
  BY <1>1 DEF MaxOf
<1> HIDE DEF pos
<1>3. WrittenAt(RingWrite(b, data, pos), b, c, V, base, data, pos)
  <2>1. WriteInside(b, c, V, base, data, pos)
    BY <1>2 DEF WriteInside, n
  <2> QED BY <2>1, RingWriteAt
<1> QED BY <1>2, <1>3 DEF WrittenAt, GrownBy, pos, z, n

\* m is the ring b without the d bytes from position base on.
DroppedBy(m, b, c, V, base, d) ==
  /\ m \in RingOver(c, V)
  /\ m.start = (base + d) % c
  /\ m.cell = b.cell
  /\ RingSize(m) = RingSize(b) - d

\* move_start over bytes the ring holds: the size shrinks by as many.
LEMMA RingMoveStartDrops ==
  ASSUME NEW c \in Nat \ {0}, NEW V, NEW b \in RingOver(c, V),
         NEW base \in Nat, b.start = base % c,
         NEW d \in 0..RingSize(b)
  PROVE  DroppedBy(RingMoveStart(b, d, base), b, c, V, base, d)
<1> DEFINE m == RingMoveStart(b, d, base)
           z == RingSize(b)
           s == b.start
           s2 == (base + d) % c
           y == z - d
<1>1. /\ s \in 0..(c - 1) /\ b.end \in 0..(c - 1) /\ b.cap = c
      /\ b.cell \in [0..(c - 1) -> V] /\ s = base % c
  BY DEF RingOver
<1>2. z \in 0..(c - 1) /\ PseudoEnd(b) = s + z /\ (base + z) % c = b.end
  BY RingSizeRange, EndSlot
<1>3. Unrolled(b, base) = s
  BY <1>1 DEF Unrolled
<1>4. RingHolds(b, d, base)
  BY <1>1, <1>2, <1>3 DEF RingHolds
<1>5. m = [b EXCEPT !.start = (s + d) % c]
  BY <1>1, <1>3, <1>4 DEF RingMoveStart
<1>6. /\ d \in Int /\ base \in Int /\ d \in 0..z /\ base + d \in Int /\ y \in 0..(c - 1) /\ y \in Int
      /\ (base + d) + y = base + z
  BY <1>2
<1> HIDE DEF z, s
<1>7. (s + d) % c = s2
  <2>1. ((base % c) + d) % c = (base + d) % c
    BY <1>6, ModAdd, Zenon
  <2> QED BY <1>1, <2>1, Zenon
<1> HIDE DEF y
<1>8. s2 \in 0..(c - 1) /\ (s2 + y) % c = (base + z) % c
  <2> DEFINE x == base + d
  <2> HIDE DEF x
  <2>1. x \in Int
    BY <1>6 DEF x
  <2>2. x % c \in 0..(c - 1)
    BY <2>1
  <2>3. ((x % c) + y) % c = (x + y) % c
    BY <1>6, <2>1, ModAdd
  <2> QED BY <1>6, <2>2, <2>3 DEF x
<1> HIDE DEF s2
<1>9. m \in RingOver(c, V) /\ m.start = s2 /\ m.end = b.end /\ m.cell = b.cell
  BY <1>1, <1>5, <1>7, <1>8 DEF RingOver
<1> HIDE DEF m
<1>10. m.end = (m.start + y) % c
  BY <1>2, <1>8, <1>9
<1>11. RingSize(m) = y
  BY <1>6, <1>9, <1>10, RingSizeIs
<1> QED BY <1>9, <1>11 DEF m, s2, y, z, DroppedBy

\* A write at the end leaves the bytes before it in place, and adds its own.
LEMMA RingWriteKeeps ==
  ASSUME NEW c \in Nat \ {0}, NEW V, NEW b \in RingOver(c, V),
         NEW base \in Nat, b.start = base % c,
         NEW n \in Nat, n <= RingRemain(b),
         NEW data \in Seq(V), Len(data) = n,
         \A k \in 1..n : data[k] = base + RingSize(b) + k - 1,
         InPlace(b, base, base + RingSize(b))
  PROVE  InPlace(RingWrite(b, data, base + RingSize(b)),
                 base, base + RingSize(b) + n)
<1> DEFINE z   == RingSize(b)
           pos == base + z
           w   == RingWrite(b, data, pos)
<1>1. /\ z \in 0..(c - 1) /\ n <= c - 1 - z /\ pos \in Nat /\ base <= pos
      /\ pos + n <= base + c - 1 /\ pos = base + z /\ b.cap = c /\ Len(data) = n
  <2>1. z \in 0..(c - 1) /\ RingRemain(b) = c - 1 - z
    BY RingSizeRange
  <2> QED BY <2>1 DEF RingOver
<1>2. /\ w \in RingOver(c, V)
      /\ w.cell = CellsWritten(b, c, data, pos)
  <2>1. Len(data) <= RingRemain(b)
    BY <1>1
  <2>2. GrownBy(w, b, c, V, Len(data)) /\ w.cell = CellsWritten(b, c, data, pos)
    BY <2>1, RingWriteAppends, Zenon
  <2> QED BY <2>2 DEF GrownBy
<1>3. w.cap = c
  BY <1>2 DEF RingOver
<1>4. \A p \in base..(pos - 1) : b.cell[p % c] = p
  BY <1>1 DEF InPlace
<1>5. \A k \in 1..n : data[k] = pos + k - 1
  OBVIOUS
<1> HIDE DEF z, pos
<1>8. Overlaid(w, b, c, base, pos, n)
  <2>1. StreamBytes(data, pos)
    BY <1>1, <1>5 DEF StreamBytes
  <2>2. WriteInside(b, c, V, base, data, pos)
    BY <1>1 DEF WriteInside
  <2>3. Overlaid(w, b, c, base, pos, Len(data))
    BY <2>1, <2>2, RingWritePlaces
  <2> QED BY <1>1, <2>3
<1> HIDE DEF w
<1>6. ASSUME NEW p \in base..(pos + n - 1)
      PROVE  w.cell[p % c] = p
  <2>1. p \in base..(base + c - 1) /\ p < pos + n /\ (~(pos <= p) => p \in base..(pos - 1))
    BY <1>1
  <2> QED BY <1>4, <1>8, <2>1 DEF Overlaid
<1>7. InPlace(w, base, pos + n)
  <2> SUFFICES ASSUME NEW p \in base..((pos + n) - 1)
               PROVE  w.cell[p % w.cap] = p
    BY Zenon DEF InPlace
  <2>2. p \in base..(pos + n - 1)
    BY <1>1
  <2>1. w.cell[p % c] = p
    BY <1>6, <2>2
  <2> QED BY <1>3, <2>1
<1> QED BY <1>7 DEF w, pos, z

\* read of bytes the ring holds, in their places: it gives the bytes of the
\* stream and gives up as many.
LEMMA RingReadReturns ==
  ASSUME NEW c \in Nat \ {0}, NEW V, NEW b \in RingOver(c, V),
         NEW base \in Nat, b.start = base % c,
         NEW d \in 0..RingSize(b), InPlace(b, base, base + d)
  PROVE  LET r == RingRead(b, d, base)
         IN  /\ DroppedBy(r.buf, b, c, V, base, d)
             /\ r.data \in Seq(Nat) /\ Len(r.data) = d
             /\ StreamBytes(r.data, base)
<1> DEFINE r == RingRead(b, d, base)
           q == RingCopy(b, d, base)
<1>1. RingSize(b) \in 0..(c - 1) /\ b.cap = c
  BY RingSizeRange DEF RingOver
<1>2. RingHolds(b, d, base)
  <2>1. PseudoEnd(b) = b.start + RingSize(b)
    BY EndSlot
  <2>2. Unrolled(b, base) = b.start
    <3>1. Unrolled(b, base + 0) = b.start + 0
      BY <1>1, UnrolledIs
    <3>2. b.start \in Int
      BY DEF RingOver
    <3> QED BY <3>1, <3>2
  <2>3. b.start \in Int
    BY DEF RingOver
  <2> QED BY <1>1, <2>1, <2>2, <2>3 DEF RingHolds
<1>3. r.buf = RingMoveStart(b, d, base) /\ r.data = q
  BY <1>2 DEF RingRead
<1>4. DroppedBy(r.buf, b, c, V, base, d)
  BY <1>3, RingMoveStartDrops
<1>5. q = [k \in 1..d |-> b.cell[(base + k - 1) % c]]
  BY <1>1 DEF RingCopy
<1>6. d \in Nat
  BY <1>1
<1> HIDE DEF q, r
<1>7. ASSUME NEW k \in 1..d
      PROVE  q[k] = base + k - 1
  <2> DEFINE p == base + k - 1
  <2>1. p \in base..(base + d - 1) /\ q[k] = b.cell[p % c]
    BY <1>5
  <2> HIDE DEF p
  <2>2. b.cell[p % c] = p
    BY <1>1, <2>1 DEF InPlace
  <2> QED BY <2>1, <2>2 DEF p
<1>8. q = [k \in 1..d |-> base + k - 1]
  BY <1>5, <1>7
<1>9. q \in Seq(Nat) /\ Len(q) = d
  BY <1>6, <1>8
<1> QED BY <1>3, <1>4, <1>7, <1>9 DEF StreamBytes, r
-----------------------------------------------------------------------------
(* Wherever a call writes or reads, the buffer stays a ring of its capacity.*)

LEMMA CellsWrittenType ==
  ASSUME NEW c \in Nat \ {0}, NEW V, NEW b \in RingOver(c, V),
         NEW data \in Seq(V), NEW pos \in Int
  PROVE  CellsWritten(b, c, data, pos) \in [0..(c - 1) -> V]
<1> SUFFICES ASSUME NEW i \in 0..(c - 1)
             PROVE  (IF (i - pos) % c < Len(data) THEN data[((i - pos) % c) + 1]
                                                  ELSE b.cell[i]) \in V
  BY DEF CellsWritten
<1> DEFINE x == i - pos
           k == x % c
<1>1. x \in Int /\ b.cell \in [0..(c - 1) -> V]
  BY DEF RingOver
<1> HIDE DEF x
<1>2. k \in 0..(c - 1)
  BY <1>1, ModRange
<1> HIDE DEF k
<1>3. CASE k < Len(data)
  <2>1. k + 1 \in 1..Len(data)
    BY <1>2, <1>3
  <2>2. data[k + 1] \in V
    BY <2>1
  <2> QED BY <1>3, <2>2 DEF k, x
<1>4. CASE ~(k < Len(data))
  <2>1. b.cell[i] \in V
    BY <1>1
  <2> QED BY <1>4, <2>1 DEF k, x
<1> QED BY <1>3, <1>4

LEMMA RingWriteClosed ==
  ASSUME NEW c \in Nat \ {0}, NEW V, NEW b \in RingOver(c, V),
         NEW data \in Seq(V), NEW pos \in Int
  PROVE  RingWrite(b, data, pos) \in RingOver(c, V)
<1> DEFINE w == RingWrite(b, data, pos)
           cells == CellsWritten(b, c, data, pos)
           u == MaxOf(PseudoEnd(b), Unrolled(b, pos) + Len(data))
           e == u % c
<1>1. /\ b.start \in 0..(c - 1) /\ b.end \in 0..(c - 1) /\ b.cap = c
  BY DEF RingOver
<1>2. u \in Int
  <2>1. pos % c \in Int
    BY ModRange
  <2>2. Unrolled(b, pos) \in Int /\ PseudoEnd(b) \in Int /\ Len(data) \in Int
    BY <1>1, <2>1 DEF Unrolled, PseudoEnd
  <2> QED BY <2>2 DEF MaxOf
<1>3. e \in 0..(c - 1)
  <2> HIDE DEF u
  <2> QED BY <1>2, ModRange
<1>4. cells \in [0..(c - 1) -> V]
  BY CellsWrittenType
<1>5. w = b \/ w = [b EXCEPT !.end = e, !.cell = cells]
  BY <1>1 DEF RingWrite, CellsWritten
<1> HIDE DEF w, e, cells
<1>6. w \in RingOver(c, V)
  BY <1>1, <1>3, <1>4, <1>5 DEF RingOver
<1> QED BY <1>6 DEF w

LEMMA RingMoveStartClosed ==
  ASSUME NEW c \in Nat \ {0}, NEW V, NEW b \in RingOver(c, V),
         NEW n \in Int, NEW pos \in Int
  PROVE  RingMoveStart(b, n, pos) \in RingOver(c, V)
<1> DEFINE m == RingMoveStart(b, n, pos)
           u == Unrolled(b, pos) + n
           s == u % c
<1>1. /\ b.start \in 0..(c - 1) /\ b.end \in 0..(c - 1) /\ b.cap = c
  BY DEF RingOver
<1>2. u \in Int
  <2>1. pos % c \in Int
    BY ModRange
  <2> QED BY <1>1, <2>1 DEF Unrolled
<1>3. s \in 0..(c - 1)
  <2> HIDE DEF u
  <2> QED BY <1>2, ModRange
<1>4. m = b \/ m = [b EXCEPT !.start = s]
  BY <1>1 DEF RingMoveStart
<1> HIDE DEF m, s
<1>5. m \in RingOver(c, V)
  BY <1>1, <1>3, <1>4 DEF RingOver
<1> QED BY <1>5 DEF m
=============================================================================
