--------------------------- MODULE ReceiverProofs ---------------------------
(***************************************************************************)
(* The invariants of the receiving half, proved for every segment length,  *)
(* capacity, window and arrival.                                           *)
(*                                                                         *)
(* All but GapDisarmsDelay rest on ReadStaysBehind: addSection can leave    *)
(* stale sections, so that expectSeqNum goes back, and may then lie behind *)
(* what the application has read.  As long as that does not happen, nothing*)
(* else goes wrong; and it does not happen before a segment has straddled  *)
(* the beginning of a section.                                             *)
(***************************************************************************)
EXTENDS Receiver, RingBufferProofs, SectionControlProofs

LEMMA Capacities ==
  /\ RecvCap \in Nat \ {0}
  /\ RwndMax \in 1..(RecvCap - 1)
  /\ ISS \in Nat
  /\ MaxBytes \in Nat
BY RecvConstantsAssumption

USE Capacities

Byte == Nat \cup {Unset}

RecvRing == RingOver(RecvCap, Byte)

\* buf is the receive buffer when base is the first byte not yet read.
BufferFrom(buf, base) ==
  /\ buf \in RecvRing
  /\ base \in Nat
  /\ buf.start = base % RecvCap

\* The byte at position p has been read, or is in its slot.
Has(buf, base, p) ==
  p < base \/ (p < base + RingSize(buf) /\ buf.cell[p % RecvCap] = p)

\* The sections are positions of the stream that the buffer reaches, and it
\* has every byte that they claim.
SectionsBacked(F, buf, base) ==
  /\ F \in Seq(Section)
  /\ Ascending(F)
  /\ \A i \in 1..Len(F) : ISS <= F[i][1] /\ F[i][2] <= ISS + MaxBytes
                          /\ F[i][2] <= base + RingSize(buf)
  /\ \A p \in Int : Claimed(F, p) => Has(buf, base, p)

\* The inductive invariant: the ring indexes agree with the sequence numbers,
\* and every byte that a number or a section vouches for is in the ring.
ReceiverInv ==
  /\ BufferFrom(recv_tool, lastByteRead)
  /\ ISS <= lastByteRead
  /\ expectSeqNum \in Nat
  /\ ReadStaysBehind
  /\ expectSeqNum <= lastByteRead + RingSize(recv_tool)
  /\ expectSeqNum <= ISS + MaxBytes
  /\ \A p \in Int : p < expectSeqNum => Has(recv_tool, lastByteRead, p)
  /\ rwnd = OpenWindow(recv_tool)
  /\ SectionsBacked(recvControl, recv_tool, lastByteRead)
  /\ delayAckTimer \in TimerStates
  /\ delivered \in Seq(Nat)
  /\ InOrderDelivery

\* The sections, in order, begin at position p or behind it.
SectionsFrom(F, p) ==
  /\ F \in Seq(Section)
  /\ Ascending(F)
  /\ \A i \in 1..Len(F) : p <= F[i][1]

\* What holds whatever comes, stale sections or not.
RangesKept ==
  /\ expectSeqNum \in Nat /\ lastByteRead \in Nat
  /\ recv_tool \in RecvRing
  /\ rwnd = OpenWindow(recv_tool)
  /\ SectionsFrom(recvControl, 0)

LEMMA InvGivesRanges == ReceiverInv => RangesKept
<1> SUFFICES ASSUME ReceiverInv PROVE RangesKept
  OBVIOUS
<1>1. /\ expectSeqNum \in Nat /\ lastByteRead \in Nat /\ recv_tool \in RecvRing
      /\ rwnd = OpenWindow(recv_tool)
      /\ SectionsBacked(recvControl, recv_tool, lastByteRead)
  BY DEF ReceiverInv, BufferFrom
<1>2. \A i \in 1..Len(recvControl) : ISS <= recvControl[i][1] /\ recvControl[i][1] \in Int
  BY <1>1, SectionBounds DEF SectionsBacked
<1>3. \A i \in 1..Len(recvControl) : 0 <= recvControl[i][1]
  BY <1>2
<1> QED BY <1>1, <1>3 DEF RangesKept, SectionsFrom, SectionsBacked

LEMMA RangesGiveWindow == RangesKept => rwnd \in Nat
<1> SUFFICES ASSUME RangesKept PROVE rwnd \in Nat
  OBVIOUS
<1>1. RingRemain(recv_tool) \in Nat
  BY RingSizeRange DEF RangesKept, RecvRing
<1> QED BY <1>1 DEF RangesKept, OpenWindow, MinOf
-----------------------------------------------------------------------------
(* Segments.                                                               *)

\* m carries the stream's bytes from its sequence number on.
FromStream(m) ==
  /\ m.seq \in Nat /\ ISS <= m.seq
  /\ m.data \in Seq(Byte)
  /\ m.seq + Len(m.data) <= ISS + MaxBytes
  /\ StreamBytes(m.data, m.seq)

\* What is left of a segment after cropping it to the window: data of the
\* stream from start to end.
CroppedTo(data, start, end) ==
  /\ start \in Nat /\ end \in Nat
  /\ expectSeqNum <= start /\ start <= end
  /\ end <= expectSeqNum + rwnd
  /\ end <= ISS + MaxBytes
  /\ data \in Seq(Byte) /\ Len(data) = end - start
  /\ StreamBytes(data, start)

LEMMA SubSeqIs ==
  ASSUME NEW V, NEW q \in Seq(V), NEW a \in Int, NEW b \in Int,
         1 <= a, a <= b + 1, b <= Len(q)
  PROVE  /\ SubSeq(q, a, b) \in Seq(V)
         /\ Len(SubSeq(q, a, b)) = b - a + 1
         /\ \A k \in 1..(b - a + 1) : SubSeq(q, a, b)[k] = q[a + k - 1]
  OBVIOUS

LEMMA CroppingStays ==
  ASSUME RangesKept, NEW m, FromStream(m), InWindow(m)
  PROVE  CroppedTo(Cropped(m), CropStart(m), CropEnd(m))
<1> DEFINE cs == CropStart(m)
           ce == CropEnd(m)
           s  == m.seq
           n  == Len(m.data)
           d  == Cropped(m)
<1>1. /\ s \in Nat /\ n \in Nat /\ s + n <= ISS + MaxBytes
      /\ expectSeqNum \in Nat /\ rwnd \in Nat
      /\ s + n > expectSeqNum /\ s < expectSeqNum + rwnd
  BY RangesGiveWindow DEF FromStream, InWindow, RangesKept
<1>2. cs = MaxOf(s, expectSeqNum) /\ ce = MinOf(s + n, expectSeqNum + rwnd)
  BY DEF CropStart, CropEnd
<1>6. /\ d = SubSeq(m.data, cs - s + 1, ce - s)
      /\ m.data \in Seq(Byte) /\ Len(m.data) = n
      /\ \A k \in 1..n : m.data[k] = s + k - 1
  BY DEF Cropped, FromStream, StreamBytes
<1> HIDE DEF cs, ce, d, s, n
<1>3. /\ cs \in Nat /\ ce \in Nat /\ expectSeqNum <= cs /\ cs <= ce
      /\ ce <= expectSeqNum + rwnd /\ ce <= s + n /\ s <= cs
  BY <1>1, <1>2 DEF MaxOf, MinOf
<1>4. d \in Seq(Byte) /\ Len(d) = ce - cs
      /\ \A k \in 1..(ce - cs) : d[k] = m.data[cs - s + k]
  <2> DEFINE a == cs - s + 1
             b == ce - s
  <2>1. a \in Int /\ b \in Int /\ 1 <= a /\ a <= b + 1 /\ b <= n /\ b - a + 1 = ce - cs
    BY <1>1, <1>3
  <2>2. d = SubSeq(m.data, a, b)
    BY <1>6
  <2> HIDE DEF a, b
  <2>3. d \in Seq(Byte) /\ Len(d) = b - a + 1
        /\ \A k \in 1..(b - a + 1) : d[k] = m.data[a + k - 1]
    <3>1. b <= Len(m.data) /\ m.data \in Seq(Byte)
      BY <1>6, <2>1
    <3> QED BY <2>1, <2>2, <3>1, SubSeqIs
  <2>4. \A k \in 1..(ce - cs) : a + k - 1 = cs - s + k
    BY <1>1, <1>3 DEF a
  <2> QED BY <2>1, <2>3, <2>4
<1>5. StreamBytes(d, cs)
  <2> SUFFICES ASSUME NEW k \in 1..(ce - cs)
               PROVE  d[k] = cs + k - 1
    BY <1>4 DEF StreamBytes
  <2> DEFINE j == cs - s + k
  <2>1. j \in 1..n /\ s + j - 1 = cs + k - 1
    BY <1>1, <1>3
  <2>2. d[k] = m.data[j]
    BY <1>4
  <2> HIDE DEF j
  <2> QED BY <1>6, <2>1, <2>2
<1> QED BY <1>1, <1>3, <1>4, <1>5 DEF CroppedTo, cs, ce, d

LEMMA CroppingFits ==
  ASSUME ReceiverInv, NEW m, FromStream(m), InWindow(m)
  PROVE  CroppedTo(Cropped(m), CropStart(m), CropEnd(m))
BY InvGivesRanges, CroppingStays

\* The buffer w is recv_tool with start..end-1 added.
Holds(w, start, end) ==
  /\ BufferFrom(w, lastByteRead)
  /\ RingSize(w) = MaxOf(RingSize(recv_tool), end - lastByteRead)
  /\ \A p \in Int : Has(recv_tool, lastByteRead, p) \/ (start <= p /\ p < end)
                      => Has(w, lastByteRead, p)

LEMMA StoringHolds ==
  ASSUME ReceiverInv, NEW data, NEW start, NEW end, CroppedTo(data, start, end)
  PROVE  /\ RingWriteFits(recv_tool, end - start, start)
         /\ Holds(RingWrite(recv_tool, data, start), start, end)
<1> DEFINE w == RingWrite(recv_tool, data, start)
           L == lastByteRead
           z == RingSize(recv_tool)
<1>1. /\ recv_tool \in RingOver(RecvCap, Byte) /\ L \in Nat /\ recv_tool.start = L % RecvCap
      /\ z \in 0..(RecvCap - 1) /\ RecvCap \in Nat \ {0}
      /\ expectSeqNum \in Nat /\ L <= expectSeqNum /\ expectSeqNum <= L + z
      /\ rwnd \in Nat /\ expectSeqNum + rwnd <= L + RecvCap - 1
  <2>1. recv_tool \in RingOver(RecvCap, Byte) /\ L \in Nat /\ recv_tool.start = L % RecvCap
        /\ expectSeqNum \in Nat /\ L <= expectSeqNum /\ expectSeqNum <= L + z
        /\ rwnd = MinOf(RwndMax, RingRemain(recv_tool))
    BY DEF ReceiverInv, BufferFrom, RecvRing, OpenWindow, ReadStaysBehind
  <2>2. z \in 0..(RecvCap - 1) /\ RingRemain(recv_tool) = RecvCap - 1 - z
    BY <2>1, RingSizeRange
  <2> HIDE DEF z
  <2> QED BY <2>1, <2>2 DEF MinOf
<1>2. /\ start \in Nat /\ end \in Nat /\ L <= start /\ start <= end
      /\ end <= L + RecvCap - 1
      /\ data \in Seq(Byte) /\ Len(data) = end - start
  BY <1>1 DEF CroppedTo
<1>3. WriteInside(recv_tool, RecvCap, Byte, L, data, start)
  BY <1>1, <1>2 DEF WriteInside
<1>4. StreamBytes(data, start)
  BY DEF CroppedTo
<1>5. /\ RingWriteFits(recv_tool, Len(data), start)
      /\ WrittenAt(w, recv_tool, RecvCap, Byte, L, data, start)
  BY <1>3, RingWriteAt
<1>6. Overlaid(w, recv_tool, RecvCap, L, start, Len(data))
  BY <1>3, <1>4, RingWritePlaces
<1> HIDE DEF w, z
<1>7. /\ BufferFrom(w, L)
      /\ RingSize(w) = MaxOf(z, end - L)
  <2>1. w \in RecvRing /\ w.start = L % RecvCap
    BY <1>1, <1>5 DEF WrittenAt, RecvRing
  <2>2. RingSize(w) = MaxOf(z, start + Len(data) - L)
    BY <1>5, Zenon DEF WrittenAt, z
  <2>3. start + Len(data) - L = end - L
    BY <1>1, <1>2
  <2>4. RingSize(w) = MaxOf(z, end - L)
    BY <2>2, <2>3, Zenon
  <2>5. BufferFrom(w, L)
    BY <1>1, <2>1 DEF BufferFrom
  <2> QED BY <2>4, <2>5
<1>8. ASSUME NEW p \in Int,
             Has(recv_tool, L, p) \/ (start <= p /\ p < end)
      PROVE  Has(w, L, p)
  <2>1. CASE p < L
    BY <2>1 DEF Has
  <2>2. CASE ~(p < L)
    <3>1. (p < L + z /\ recv_tool.cell[p % RecvCap] = p) \/ (start <= p /\ p < end)
      BY <1>8, <2>2 DEF Has, z
    <3>2. p < L + RingSize(w) /\ p \in L..(L + RecvCap - 1)
      BY <1>1, <1>2, <1>7, <2>2, <3>1 DEF MaxOf
    <3>3. w.cell[p % RecvCap] = IF start <= p /\ p < start + Len(data) THEN p
                                ELSE recv_tool.cell[p % RecvCap]
      BY <1>6, <3>2 DEF Overlaid
    <3>4. start + Len(data) = end
      BY <1>2
    <3>5. w.cell[p % RecvCap] = p
      BY <3>1, <3>3, <3>4
    <3> QED BY <3>2, <3>5 DEF Has
  <2> QED BY <2>1, <2>2
<1> QED BY <1>2, <1>5, <1>7, <1>8 DEF Holds, w, z
-----------------------------------------------------------------------------
(* Sections.                                                               *)

\* What the buffer has from base on it still has from base2 on, after a write
\* or a read.
Keeps(buf, base, buf2, base2) ==
  /\ base \in Int /\ RingSize(buf) \in Int
  /\ base2 \in Int /\ RingSize(buf2) \in Int
  /\ base + RingSize(buf) <= base2 + RingSize(buf2)
  /\ \A p \in Int : Has(buf, base, p) => Has(buf2, base2, p)

LEMMA SectionsStayBacked ==
  ASSUME NEW F, NEW buf, NEW base, NEW buf2, NEW base2,
         SectionsBacked(F, buf, base), Keeps(buf, base, buf2, base2)
  PROVE  SectionsBacked(F, buf2, base2)
<1>1. ASSUME NEW i \in 1..Len(F)
      PROVE  F[i][2] <= base2 + RingSize(buf2)
  <2>1. F[i][2] \in Int /\ F[i][2] <= base + RingSize(buf)
    BY SectionBounds DEF SectionsBacked
  <2> QED BY <2>1 DEF Keeps
<1>2. \A p \in Int : Claimed(F, p) => Has(buf2, base2, p)
  BY DEF SectionsBacked, Keeps
<1> QED BY <1>1, <1>2 DEF SectionsBacked

\* start..end-1 are bytes of the stream that the buffer has.
Stored(buf, base, start, end) ==
  /\ start \in Nat /\ end \in Nat /\ ISS <= start /\ start <= end
  /\ end <= ISS + MaxBytes
  /\ end <= base + RingSize(buf)
  /\ \A p \in Int : start <= p /\ p < end => Has(buf, base, p)

LEMMA AddedSectionBacked ==
  ASSUME NEW F, NEW buf, NEW base, NEW start, NEW end,
         SectionsBacked(F, buf, base), Stored(buf, base, start, end)
  PROVE  LET G == addSection(F, <<start, end>>)
         IN  SectionsBacked(G, buf, base) /\ G # <<>> /\ G[1][1] <= start
<1> DEFINE sec == <<start, end>>
           G   == addSection(F, sec)
<1>1. sec \in Section /\ sec[1] = start /\ sec[2] = end
  BY PairIsSection DEF Stored
<1>2. F \in Seq(Section) /\ Ascending(F)
  BY DEF SectionsBacked
<1> HIDE DEF sec
<1>3. AddsOnly(F, sec, G)
  BY <1>1, <1>2, AddSectionInventsNothing
<1> HIDE DEF G
<1>4. G \in Seq(Section) /\ Ascending(G) /\ G # <<>> /\ G[1][1] <= start
  BY <1>1, <1>3 DEF AddsOnly
<1>5. ASSUME NEW i \in 1..Len(G)
      PROVE  ISS <= G[i][1] /\ G[i][2] <= ISS + MaxBytes /\ G[i][2] <= base + RingSize(buf)
  <2>1. EndsAmong(F, sec, G[i])
    BY <1>3 DEF AddsOnly
  <2> QED BY <1>1, <2>1 DEF EndsAmong, SectionsBacked, Stored
<1>6. ASSUME NEW p \in Int, Claimed(G, p)
      PROVE  Has(buf, base, p)
  <2>1. PICK i \in 1..Len(G) : Within(G[i], p)
    BY <1>6 DEF Claimed
  <2>2. Within(sec, p) \/ Claimed(F, p)
    BY <1>3, <2>1 DEF AddsOnly
  <2>3. CASE Within(sec, p)
    BY <1>1, <2>3 DEF Within, Stored
  <2>4. CASE Claimed(F, p)
    BY <2>4 DEF SectionsBacked
  <2> QED BY <2>2, <2>3, <2>4
<1> QED BY <1>4, <1>5, <1>6 DEF SectionsBacked, G, sec

\* moveFirstSection: the section it drops is one that the buffer has.
LEMMA FirstSectionBacked ==
  ASSUME NEW G, NEW buf, NEW base, SectionsBacked(G, buf, base), G # <<>>
  PROVE  /\ SectionsBacked(moveFirstSection(G), buf, base)
         /\ FirstSectionEnd(G) \in Int /\ G[1][1] \in Int
         /\ ISS <= G[1][1] /\ G[1][1] <= FirstSectionEnd(G)
         /\ FirstSectionEnd(G) <= ISS + MaxBytes
         /\ FirstSectionEnd(G) <= base + RingSize(buf)
         /\ \A p \in Int : G[1][1] <= p /\ p < FirstSectionEnd(G) => Has(buf, base, p)
<1> DEFINE T == Tail(G)
<1>1. G \in Seq(Section) /\ 1 \in 1..Len(G)
  BY DEF SectionsBacked
<1>2. T \in Seq(Section) /\ Len(T) = Len(G) - 1 /\ Len(G) \in Nat
      /\ \A i \in 1..(Len(G) - 1) : T[i] = G[i + 1]
  BY <1>1
<1> HIDE DEF T
<1>3. SectionsBacked(T, buf, base)
  <2>1. Ascending(T)
    <3> SUFFICES ASSUME NEW i \in 1..Len(T), NEW j \in 1..Len(T), i <= j
                 PROVE  T[i][1] <= T[j][1]
      BY DEF Ascending
    <3>1. /\ i + 1 \in 1..Len(G) /\ j + 1 \in 1..Len(G) /\ i + 1 <= j + 1
          /\ T[i] = G[i + 1] /\ T[j] = G[j + 1]
      BY <1>2
    <3> QED BY <3>1 DEF SectionsBacked, Ascending
  <2>2. \A i \in 1..Len(T) : ISS <= T[i][1] /\ T[i][2] <= ISS + MaxBytes
                             /\ T[i][2] <= base + RingSize(buf)
    <3> SUFFICES ASSUME NEW i \in 1..Len(T)
                 PROVE  ISS <= T[i][1] /\ T[i][2] <= ISS + MaxBytes
                        /\ T[i][2] <= base + RingSize(buf)
      OBVIOUS
    <3>1. i + 1 \in 1..Len(G) /\ T[i] = G[i + 1]
      BY <1>2
    <3> QED BY <3>1 DEF SectionsBacked
  <2>3. ASSUME NEW p \in Int, Claimed(T, p) PROVE Claimed(G, p)
    <3>1. PICK i \in 1..Len(T) : Within(T[i], p)
      BY <2>3 DEF Claimed
    <3>2. i + 1 \in 1..Len(G) /\ T[i] = G[i + 1]
      BY <1>2
    <3>3. Within(G[i + 1], p)
      BY <3>1, <3>2
    <3> QED BY <3>2, <3>3 DEF Claimed
  <2> QED BY <1>2, <2>1, <2>2, <2>3 DEF SectionsBacked
<1>4. G[1][1] \in Int /\ G[1][2] \in Int /\ G[1][1] <= G[1][2]
  BY <1>1, SectionBounds
<1>5. \A p \in Int : G[1][1] <= p /\ p < G[1][2] => Has(buf, base, p)
  BY <1>1 DEF SectionsBacked, Claimed, Within
<1> QED BY <1>1, <1>3, <1>4, <1>5 DEF SectionsBacked, FirstSectionEnd, moveFirstSection, T
-----------------------------------------------------------------------------
(* Steps.                                                                  *)

\* What a step that accepts start..end-1 has in common with the others.
Accepts(start, end) ==
  /\ Holds(recv_tool', start, end)
  /\ start \in Nat /\ end \in Nat
  /\ expectSeqNum <= start /\ start <= end /\ end <= ISS + MaxBytes
  /\ rwnd' = OpenWindow(recv_tool')
  /\ UNCHANGED <<lastByteRead, delivered>>

LEMMA StoreAccepts ==
  ASSUME ReceiverInv, NEW m, FromStream(m), InWindow(m), Store(m)
  PROVE  Accepts(CropStart(m), CropEnd(m))
<1> DEFINE d == Cropped(m)
           cs == CropStart(m)
           ce == CropEnd(m)
<1>1. recv_tool' = RingWrite(recv_tool, d, cs) /\ rwnd' = OpenWindow(recv_tool')
      /\ UNCHANGED <<lastByteRead, delivered>>
  BY DEF Store
<1> HIDE DEF d, cs, ce
<1>2. CroppedTo(d, cs, ce)
  BY CroppingFits DEF d, cs, ce
<1>3. Holds(RingWrite(recv_tool, d, cs), cs, ce)
  BY <1>2, StoringHolds
<1> QED BY <1>1, <1>2, <1>3 DEF Accepts, CroppedTo, cs, ce

\* After it the buffer has the new bytes and all the old ones.
LEMMA AcceptedBytes ==
  ASSUME ReceiverInv, NEW start, NEW end, Accepts(start, end)
  PROVE  /\ BufferFrom(recv_tool', lastByteRead')
         /\ Keeps(recv_tool, lastByteRead, recv_tool', lastByteRead')
         /\ Stored(recv_tool', lastByteRead', start, end)
         /\ SectionsBacked(recvControl, recv_tool', lastByteRead')
         /\ expectSeqNum <= lastByteRead' + RingSize(recv_tool')
<1> DEFINE L == lastByteRead
           w == recv_tool'
           z == RingSize(recv_tool)
<1>1. /\ L \in Nat /\ z \in Nat /\ expectSeqNum \in Nat /\ ISS <= expectSeqNum
      /\ expectSeqNum <= L + z
      /\ SectionsBacked(recvControl, recv_tool, L)
  <2>1. z \in Nat
    BY RingSizeRange DEF ReceiverInv, BufferFrom, RecvRing
  <2> QED BY <2>1 DEF ReceiverInv, BufferFrom, ReadStaysBehind
<1>2. /\ lastByteRead' = L /\ Holds(w, start, end) /\ start \in Nat /\ end \in Nat
      /\ expectSeqNum <= start /\ start <= end /\ end <= ISS + MaxBytes
  BY DEF Accepts
<1> HIDE DEF w, z
<1>3. /\ BufferFrom(w, L)
      /\ RingSize(w) = MaxOf(z, end - L)
      /\ \A p \in Int : Has(recv_tool, L, p) \/ (start <= p /\ p < end) => Has(w, L, p)
  BY <1>2 DEF Holds, z
<1>4. RingSize(w) \in Int /\ z <= RingSize(w) /\ end <= L + RingSize(w)
  BY <1>1, <1>2, <1>3 DEF MaxOf
<1>5. Keeps(recv_tool, L, w, L)
  BY <1>1, <1>3, <1>4 DEF Keeps, z
<1>6. Stored(w, L, start, end)
  BY <1>1, <1>2, <1>3, <1>4 DEF Stored
<1>7. SectionsBacked(recvControl, w, L)
  BY <1>1, <1>5, SectionsStayBacked
<1> QED BY <1>1, <1>2, <1>3, <1>4, <1>5, <1>6, <1>7 DEF w

\* The invariant after such a step, once the new sections and the new end of
\* the complete stream are known to be backed.
LEMMA AcceptedStep ==
  ASSUME ReceiverInv, NEW start, NEW end, Accepts(start, end),
         delayAckTimer' \in TimerStates,
         SectionsBacked(recvControl', recv_tool', lastByteRead'),
         expectSeqNum' \in Nat, ReadStaysBehind',
         expectSeqNum' <= lastByteRead' + RingSize(recv_tool'),
         expectSeqNum' <= ISS + MaxBytes,
         \A p \in Int : p < expectSeqNum' => Has(recv_tool', lastByteRead', p)
  PROVE  ReceiverInv'
<1>1. BufferFrom(recv_tool', lastByteRead')
  BY AcceptedBytes
<1>2. /\ lastByteRead' = lastByteRead /\ delivered' = delivered
      /\ rwnd' = OpenWindow(recv_tool')
  BY DEF Accepts
<1>3. ISS <= lastByteRead' /\ delivered' \in Seq(Nat) /\ InOrderDelivery'
  BY <1>2 DEF ReceiverInv, InOrderDelivery
<1> QED BY <1>1, <1>2, <1>3 DEF ReceiverInv

\* In order with no section waiting: the stream is complete up to the end of
\* the segment.
LEMMA InOrderStep ==
  ASSUME ReceiverInv, NEW m, FromStream(m), InWindow(m), Store(m),
         CropStart(m) = expectSeqNum, expectSeqNum' = CropEnd(m),
         delayAckTimer' \in TimerStates, UNCHANGED recvControl
  PROVE  ReceiverInv'
<1> DEFINE start == CropStart(m)
           end == CropEnd(m)
           L == lastByteRead
           w == recv_tool'
<1>1. Accepts(start, end) /\ start = expectSeqNum /\ expectSeqNum' = end
  BY StoreAccepts
<1> HIDE DEF start, end, w
<1>2. /\ Keeps(recv_tool, L, w, lastByteRead')
      /\ Stored(w, lastByteRead', start, end)
      /\ SectionsBacked(recvControl, w, lastByteRead')
  BY <1>1, AcceptedBytes DEF w
<1>3. /\ expectSeqNum \in Nat /\ L <= expectSeqNum /\ lastByteRead' = L
      /\ \A p \in Int : p < expectSeqNum => Has(recv_tool, L, p)
  BY <1>1 DEF ReceiverInv, ReadStaysBehind, Accepts
<1>4. /\ end \in Nat /\ start <= end /\ end <= ISS + MaxBytes
      /\ end <= lastByteRead' + RingSize(w)
  BY <1>2 DEF Stored
<1>5. ASSUME NEW p \in Int, p < expectSeqNum'
      PROVE  Has(w, lastByteRead', p)
  <2>1. CASE p < expectSeqNum
    BY <1>2, <1>3, <2>1 DEF Keeps
  <2>2. CASE expectSeqNum <= p
    BY <1>1, <1>2, <1>5, <2>2 DEF Stored
  <2> QED BY <1>3, <2>1, <2>2
<1>6. ReadStaysBehind' /\ L \in Nat
  BY <1>1, <1>3, <1>4 DEF ReadStaysBehind, ReceiverInv, BufferFrom
<1>7. SectionsBacked(recvControl', w, lastByteRead')
  BY <1>2
<1> QED BY <1>1, <1>4, <1>5, <1>6, <1>7, AcceptedStep DEF w

\* Beyond a gap: the new bytes are backed as a section.
LEMMA AheadStep ==
  ASSUME ReceiverInv, NEW m, NEW mute, FromStream(m), AcceptAhead(m, mute)
  PROVE  ReceiverInv'
<1> DEFINE start == CropStart(m)
           end == CropEnd(m)
           L == lastByteRead
           w == recv_tool'
<1>1. /\ Accepts(start, end)
      /\ recvControl' = addSection(recvControl, <<start, end>>)
      /\ delayAckTimer' \in TimerStates /\ expectSeqNum' = expectSeqNum
  BY StoreAccepts DEF AcceptAhead, TimerStates
<1> HIDE DEF start, end, w
<1>2. /\ Keeps(recv_tool, L, w, lastByteRead')
      /\ Stored(w, lastByteRead', start, end)
      /\ SectionsBacked(recvControl, w, lastByteRead')
      /\ expectSeqNum <= lastByteRead' + RingSize(w)
  BY <1>1, AcceptedBytes DEF w
<1>3. /\ expectSeqNum \in Nat /\ L <= expectSeqNum /\ lastByteRead' = L
      /\ expectSeqNum <= ISS + MaxBytes
      /\ \A p \in Int : p < expectSeqNum => Has(recv_tool, L, p)
  BY <1>1 DEF ReceiverInv, ReadStaysBehind, Accepts
<1>4. SectionsBacked(recvControl', w, lastByteRead')
  BY <1>1, <1>2, AddedSectionBacked
<1>5. ReadStaysBehind'
  BY <1>1, <1>3 DEF ReadStaysBehind
<1>6. \A p \in Int : p < expectSeqNum' => Has(w, lastByteRead', p)
  BY <1>1, <1>2, <1>3 DEF Keeps
<1> QED BY <1>1, <1>2, <1>3, <1>4, <1>5, <1>6, AcceptedStep DEF w

\* In order with sections waiting: the first section then begins at or before
\* the segment, and the buffer has all of it.  Here expectSeqNum may go back.
LEMMA MergeStep ==
  ASSUME ReceiverInv, NEW m, NEW mute, FromStream(m), AcceptAndMerge(m, mute),
         ReadStaysBehind'
  PROVE  ReceiverInv'
<1> DEFINE start == CropStart(m)
           end == CropEnd(m)
           L == lastByteRead
           w == recv_tool'
           G == addSection(recvControl, <<start, end>>)
<1>1. /\ Accepts(start, end) /\ start = expectSeqNum
      /\ recvControl' = moveFirstSection(G)
      /\ expectSeqNum' = FirstSectionEnd(G)
      /\ delayAckTimer' \in TimerStates
  BY StoreAccepts DEF AcceptAndMerge, TimerStates
<1> HIDE DEF start, end, w
<1>2. /\ Keeps(recv_tool, L, w, lastByteRead')
      /\ Stored(w, lastByteRead', start, end)
      /\ SectionsBacked(recvControl, w, lastByteRead')
  BY <1>1, AcceptedBytes DEF w
<1>3. /\ expectSeqNum \in Nat /\ L \in Nat /\ lastByteRead' = L
      /\ \A p \in Int : p < expectSeqNum => Has(recv_tool, L, p)
  BY <1>1 DEF ReceiverInv, BufferFrom, Accepts
<1>4. SectionsBacked(G, w, lastByteRead') /\ G # <<>> /\ G[1][1] <= start
  BY <1>2, AddedSectionBacked
<1> HIDE DEF G
<1>5. /\ SectionsBacked(recvControl', w, lastByteRead')
      /\ expectSeqNum' \in Int /\ G[1][1] \in Int
      /\ expectSeqNum' <= ISS + MaxBytes
      /\ expectSeqNum' <= lastByteRead' + RingSize(w)
      /\ \A p \in Int : G[1][1] <= p /\ p < expectSeqNum' => Has(w, lastByteRead', p)
  BY <1>1, <1>4, FirstSectionBacked
<1>6. ASSUME NEW p \in Int, p < expectSeqNum'
      PROVE  Has(w, lastByteRead', p)
  <2>1. CASE p < expectSeqNum
    BY <1>2, <1>3, <2>1 DEF Keeps
  <2>2. CASE expectSeqNum <= p
    <3>1. G[1][1] <= p
      BY <1>1, <1>3, <1>4, <1>5, <2>2
    <3> QED BY <1>5, <1>6, <3>1
  <2> QED BY <1>3, <2>1, <2>2
<1>7. expectSeqNum' \in Nat
  BY <1>3, <1>5 DEF ReadStaysBehind
<1> QED BY <1>1, <1>5, <1>6, <1>7, AcceptedStep DEF w

\* recv() takes the next bytes of the stream out of the ring.
LEMMA ReadStep ==
  ASSUME ReceiverInv, NEW size \in Nat, Recv(size)
  PROVE  ReceiverInv'
<1> DEFINE L == lastByteRead
           n == MinOf(size, expectSeqNum - L)
           r == RingRead(recv_tool, n, L)
           z == RingSize(recv_tool)
           w == recv_tool'
           done == Len(delivered)
<1>1. /\ L \in Nat /\ recv_tool \in RingOver(RecvCap, Byte) /\ recv_tool.start = L % RecvCap
      /\ recv_tool.cap = RecvCap
      /\ z \in 0..(RecvCap - 1) /\ expectSeqNum \in Nat
      /\ L <= expectSeqNum /\ expectSeqNum <= L + z /\ ISS <= L
      /\ expectSeqNum <= ISS + MaxBytes
      /\ delivered \in Seq(Nat) /\ delayAckTimer \in TimerStates
  <2>1. recv_tool \in RingOver(RecvCap, Byte)
    BY DEF ReceiverInv, BufferFrom, RecvRing
  <2>2. z \in 0..(RecvCap - 1) /\ recv_tool.cap = RecvCap
    BY <2>1, RingSizeRange DEF RingOver
  <2> QED BY <2>1, <2>2 DEF ReceiverInv, BufferFrom, ReadStaysBehind
<1>2. /\ w = r.buf /\ delivered' = delivered \o r.data
      /\ lastByteRead' = L + n /\ rwnd' = OpenWindow(w)
      /\ expectSeqNum' = expectSeqNum /\ recvControl' = recvControl
      /\ delayAckTimer' = delayAckTimer
  BY DEF Recv
<1>3. \A p \in Int : p < expectSeqNum => Has(recv_tool, L, p)
  BY DEF ReceiverInv
<1>4. n \in Nat /\ L + n <= expectSeqNum /\ n \in 0..z
  <2> HIDE DEF z
  <2> QED BY <1>1 DEF MinOf
<1> HIDE DEF n
<1>5. InPlace(recv_tool, L, L + n)
  <2> SUFFICES ASSUME NEW p \in L..((L + n) - 1)
               PROVE  recv_tool.cell[p % RecvCap] = p
    BY <1>1 DEF InPlace
  <2>1. p \in Int /\ p < expectSeqNum /\ ~(p < L)
    BY <1>1, <1>4
  <2> QED BY <1>3, <2>1 DEF Has
<1>6. /\ DroppedBy(r.buf, recv_tool, RecvCap, Byte, L, n)
      /\ r.data \in Seq(Nat) /\ Len(r.data) = n
      /\ StreamBytes(r.data, L)
  BY <1>1, <1>4, <1>5, RingReadReturns
<1> DEFINE data == r.data
<1>7. /\ w \in RecvRing /\ w.start = (L + n) % RecvCap /\ w.cell = recv_tool.cell
      /\ RingSize(w) = z - n
  BY <1>2, <1>6 DEF DroppedBy, RecvRing
<1>8. BufferFrom(w, lastByteRead')
  <2>1. lastByteRead' \in Nat
    BY <1>1, <1>2, <1>4
  <2>2. w.start = lastByteRead' % RecvCap
    BY <1>2, <1>7, Zenon
  <2> QED BY <1>7, <2>1, <2>2 DEF BufferFrom
<1>9. /\ delivered' = delivered \o data /\ data \in Seq(Nat) /\ Len(data) = n
      /\ \A k \in 1..n : data[k] = L + k - 1
  BY <1>2, <1>6 DEF StreamBytes
<1> HIDE DEF r, w, z, data
<1>10. lastByteRead' + RingSize(w) = L + z /\ RingSize(w) \in Int
  BY <1>1, <1>2, <1>4, <1>7
<1>11. Keeps(recv_tool, L, w, lastByteRead')
  <2>1. ASSUME NEW p \in Int, Has(recv_tool, L, p) PROVE Has(w, lastByteRead', p)
    <3>1. CASE p < L
      BY <1>1, <1>2, <1>4, <3>1 DEF Has
    <3>2. CASE ~(p < L)
      BY <1>1, <1>2, <1>7, <1>10, <2>1, <3>2 DEF Has, z
    <3> QED BY <3>1, <3>2
  <2> QED BY <1>1, <1>2, <1>4, <1>10, <2>1 DEF Keeps, z
<1>12. SectionsBacked(recvControl', w, lastByteRead')
  <2>1. SectionsBacked(recvControl, recv_tool, L)
    BY DEF ReceiverInv
  <2> QED BY <1>2, <1>11, <2>1, SectionsStayBacked
<1>13. \A p \in Int : p < expectSeqNum' => Has(w, lastByteRead', p)
  BY <1>2, <1>3, <1>11 DEF Keeps
<1>14. delivered' \in Seq(Nat) /\ Len(delivered') = done + n /\ done \in Nat
       /\ \A k \in 1..(done + n) :
            delivered'[k] = IF k <= done THEN delivered[k] ELSE data[k - done]
  BY <1>1, <1>9, ConcatIs
<1>15. L = ISS + done /\ \A k \in 1..done : delivered[k] = ISS + k - 1
  BY DEF ReceiverInv, InOrderDelivery
<1> HIDE DEF done
<1>16. ASSUME NEW k \in 1..(done + n) PROVE delivered'[k] = ISS + k - 1
  <2>1. CASE k <= done
    BY <1>14, <1>15, <2>1
  <2>2. CASE ~(k <= done)
    <3> DEFINE j == k - done
    <3>1. j \in 1..n /\ L + j - 1 = ISS + k - 1
      BY <1>4, <1>14, <1>15, <2>2
    <3>2. delivered'[k] = data[j]
      BY <1>14, <2>2
    <3> HIDE DEF j
    <3> QED BY <1>9, <3>1, <3>2
  <2> QED BY <2>1, <2>2
<1>17. InOrderDelivery'
  BY <1>2, <1>14, <1>15, <1>16, <1>4 DEF InOrderDelivery
<1>18. ReadStaysBehind' /\ ISS <= lastByteRead'
  BY <1>1, <1>2, <1>4 DEF ReadStaysBehind
<1> QED BY <1>1, <1>2, <1>8, <1>10, <1>12, <1>13, <1>14, <1>17, <1>18
        DEF ReceiverInv, w, z

\* receiver() on a segment.
LEMMA SegmentStep ==
  ASSUME ReceiverInv, NEW m, NEW mute, FromStream(m), SegmentIn(m, mute),
         ReadStaysBehind'
  PROVE  ReceiverInv'
<1>1. CASE AcceptAndDelay(m, mute)
  <2>1. delayAckTimer' \in TimerStates
    BY <1>1 DEF AcceptAndDelay, TimerStates
  <2> QED BY <1>1, <2>1, InOrderStep DEF AcceptAndDelay
<1>2. CASE AcceptAndAnswer(m, mute)
  <2>1. delayAckTimer' \in TimerStates
    BY <1>2 DEF AcceptAndAnswer, TimerStates
  <2> QED BY <1>2, <2>1, InOrderStep DEF AcceptAndAnswer
<1>3. CASE AcceptAhead(m, mute)
  BY <1>3, AheadStep
<1>4. CASE AcceptAndMerge(m, mute)
  BY <1>4, MergeStep
<1>5. CASE Reject(m, mute)
  <2>1. UNCHANGED recvVars
    BY <1>5 DEF Reject
  <2> QED BY <2>1 DEF recvVars, ReceiverInv, ReadStaysBehind, InOrderDelivery
<1> QED BY <1>1, <1>2, <1>3, <1>4, <1>5 DEF SegmentIn

LEMMA DelayedAckStep ==
  ASSUME ReceiverInv, DelayedAck
  PROVE  ReceiverInv'
<1>1. /\ UNCHANGED <<expectSeqNum, lastByteRead, rwnd, recv_tool, recvControl, delivered>>
      /\ delayAckTimer' \in TimerStates
  BY DEF DelayedAck, TimerStates
<1> QED BY <1>1 DEF ReceiverInv, ReadStaysBehind, InOrderDelivery

LEMMA InitReceiverInv ==
  ASSUME Init
  PROVE  ReceiverInv
<1> DEFINE i == ISS % RecvCap
           E == RecvRing
<1>1. i \in 0..(RecvCap - 1)
  OBVIOUS
<1>2. recv_tool = [start |-> i, end |-> i, cap |-> RecvCap,
                   cell |-> [j \in 0..(RecvCap - 1) |-> Unset]]
  BY DEF Init, RingClear, RingNew
<1>3. /\ expectSeqNum = ISS /\ lastByteRead = ISS /\ rwnd = RwndMax
      /\ recvControl = <<>> /\ delayAckTimer = "off" /\ delivered = <<>>
  BY DEF Init
<1>4. i = lastByteRead % RecvCap
  BY <1>3
<1> HIDE DEF i
<1>5. recv_tool \in RecvRing /\ recv_tool.start = i /\ RingSize(recv_tool) = 0
  BY <1>1, <1>2 DEF RecvRing, Byte, RingOver, RingSize
<1>6. rwnd = OpenWindow(recv_tool)
  <2>1. RingRemain(recv_tool) = RecvCap - 1
    BY <1>2, <1>5 DEF RingRemain
  <2> QED BY <1>3, <2>1 DEF OpenWindow, MinOf
<1>7. SectionsBacked(recvControl, recv_tool, lastByteRead)
  <2>1. recvControl \in Seq(Section) /\ Len(recvControl) = 0
    BY <1>3
  <2> QED BY <2>1 DEF SectionsBacked, Ascending, Claimed
<1>8. BufferFrom(recv_tool, lastByteRead)
  BY <1>3, <1>4, <1>5 DEF BufferFrom
<1>9. delivered \in Seq(Nat) /\ InOrderDelivery
  BY <1>3 DEF InOrderDelivery
<1>10. \A p \in Int : p < expectSeqNum => Has(recv_tool, lastByteRead, p)
  BY <1>3 DEF Has
<1> QED BY <1>3, <1>5, <1>6, <1>7, <1>8, <1>9, <1>10
        DEF ReceiverInv, ReadStaysBehind, TimerStates

LEMMA ArrivalsFromStream ==
  ASSUME NEW iv \in Arrivals
  PROVE  FromStream(StreamSegment(iv))
<1> DEFINE m == StreamSegment(iv)
           a == iv[1]
           b == iv[2]
<1>1. a \in Nat /\ b \in Nat /\ ISS <= a /\ a < b /\ b <= ISS + MaxBytes
  BY RecvConstantsAssumption
<1> DEFINE d == [k \in 1..(b - a) |-> a + k - 1]
<1>2. m.seq = a /\ m.data = d
  BY DEF StreamSegment
<1>3. d \in Seq(Byte) /\ Len(d) = b - a /\ \A k \in 1..Len(d) : d[k] = a + k - 1
  <2> HIDE DEF a, b
  <2>1. b - a \in Nat /\ \A k \in 1..(b - a) : a + k - 1 \in Byte
    BY <1>1 DEF Byte
  <2> QED BY <2>1
<1> HIDE DEF m, d, a, b
<1> QED BY <1>1, <1>2, <1>3 DEF FromStream, StreamBytes, m

LEMMA ReceiverStep ==
  ASSUME ReceiverInv, [Next]_receiverVars, ReadStaysBehind'
  PROVE  ReceiverInv'
<1> DEFINE Goal == ReceiverInv'
<1>1. ASSUME NEW iv \in Arrivals, NEW mute \in BOOLEAN, SegmentIn(StreamSegment(iv), mute)
      PROVE  Goal
  BY <1>1, ArrivalsFromStream, SegmentStep
<1>2. ASSUME DelayedAck PROVE Goal
  BY <1>2, DelayedAckStep
<1>3. ASSUME NEW size \in ReadSizes, Recv(size) PROVE Goal
  <2>1. size \in Nat
    BY RecvConstantsAssumption
  <2> QED BY <1>3, <2>1, ReadStep
<1>4. ASSUME DataCarriesAck \/ AckLeaves \/ UNCHANGED receiverVars PROVE Goal
  <2>1. UNCHANGED recvVars
    BY <1>4 DEF DataCarriesAck, AckLeaves, receiverVars
  <2> QED BY <2>1 DEF recvVars, ReceiverInv, ReadStaysBehind, InOrderDelivery
<1> HIDE DEF Goal
<1>5. Goal
  BY <1>1, <1>2, <1>3, <1>4 DEF Next
<1> QED BY <1>5 DEF Goal

LEMMA SegmentMovesExpectation ==
  ASSUME ReceiverInv, NEW m, NEW mute, FromStream(m), SegmentIn(m, mute)
  PROVE  expectSeqNum' \in Int /\ lastByteRead' = lastByteRead
<1>1. CASE AcceptAndDelay(m, mute) \/ AcceptAndAnswer(m, mute)
  BY <1>1, CroppingFits DEF AcceptAndDelay, AcceptAndAnswer, Store, CroppedTo
<1>2. CASE AcceptAhead(m, mute)
  BY <1>2 DEF AcceptAhead, Store, ReceiverInv
<1>3. CASE AcceptAndMerge(m, mute)
  <2> DEFINE start == CropStart(m)
             end == CropEnd(m)
             G == addSection(recvControl, <<start, end>>)
  <2>1. Accepts(start, end) /\ expectSeqNum' = FirstSectionEnd(G)
    BY <1>3, StoreAccepts DEF AcceptAndMerge
  <2> HIDE DEF start, end
  <2>2. SectionsBacked(G, recv_tool', lastByteRead') /\ G # <<>>
    BY <2>1, AcceptedBytes, AddedSectionBacked
  <2> HIDE DEF G
  <2>3. expectSeqNum' \in Int
    BY <2>1, <2>2, FirstSectionBacked
  <2> QED BY <2>1, <2>3 DEF Accepts
<1>4. CASE Reject(m, mute)
  BY <1>4 DEF Reject, recvVars, ReceiverInv
<1> QED BY <1>1, <1>2, <1>3, <1>4 DEF SegmentIn

\* Only recv() moves lastByteRead, and not past expectSeqNum: reads stay behind
\* unless expectSeqNum goes back.
LEMMA ForwardStep ==
  ASSUME ReceiverInv, [Next]_receiverVars,
         [expectSeqNum' >= expectSeqNum]_receiverVars
  PROVE  ReadStaysBehind'
<1> DEFINE Goal == ReadStaysBehind'
<1>0. lastByteRead \in Nat /\ expectSeqNum \in Nat /\ lastByteRead <= expectSeqNum
  BY DEF ReceiverInv, BufferFrom, ReadStaysBehind
<1>1. ASSUME expectSeqNum' = expectSeqNum, lastByteRead' = lastByteRead PROVE Goal
  BY <1>0, <1>1 DEF ReadStaysBehind
<1>2. ASSUME NEW iv \in Arrivals, NEW mute \in BOOLEAN, SegmentIn(StreamSegment(iv), mute)
      PROVE  Goal
  <2>1. expectSeqNum' \in Int /\ lastByteRead' = lastByteRead
    BY <1>2, ArrivalsFromStream, SegmentMovesExpectation
  <2>2. expectSeqNum' >= expectSeqNum \/ expectSeqNum' = expectSeqNum
    BY DEF receiverVars, recvVars
  <2> QED BY <1>0, <2>1, <2>2 DEF ReadStaysBehind
<1>3. ASSUME NEW size \in ReadSizes, Recv(size) PROVE Goal
  <2>1. size \in Nat
    BY RecvConstantsAssumption
  <2> QED BY <1>3, <2>1, ReadStep DEF ReceiverInv
<1>4. ASSUME DelayedAck PROVE Goal
  BY <1>1, <1>4 DEF DelayedAck
<1>5. ASSUME DataCarriesAck \/ AckLeaves \/ UNCHANGED receiverVars PROVE Goal
  BY <1>1, <1>5 DEF DataCarriesAck, AckLeaves, receiverVars, recvVars
<1> HIDE DEF Goal
<1>6. Goal
  BY <1>2, <1>3, <1>4, <1>5 DEF Next
<1> QED BY <1>6 DEF Goal
-----------------------------------------------------------------------------
(* What the invariant gives.                                               *)

LEMMA InvGivesTypes == ReceiverInv => ReceiverTypeOK
<1> SUFFICES ASSUME ReceiverInv PROVE ReceiverTypeOK
  OBVIOUS
<1>1. recv_tool \in RingOver(RecvCap, Byte)
  BY DEF ReceiverInv, BufferFrom, RecvRing
<1>2. /\ recv_tool.start \in 0..(RecvCap - 1) /\ recv_tool.end \in 0..(RecvCap - 1)
      /\ recv_tool.cap = RecvCap
  BY <1>1 DEF RingOver
<1>3. rwnd \in 0..RwndMax
  <2>1. RingRemain(recv_tool) \in Nat
    BY <1>1, RingSizeRange
  <2> QED BY <2>1 DEF ReceiverInv, OpenWindow, MinOf
<1>4. expectSeqNum \in Positions /\ lastByteRead \in Positions
  BY DEF ReceiverInv, BufferFrom, ReadStaysBehind, Positions
<1>5. ASSUME NEW sec \in ToSet(recvControl)
      PROVE  sec[1] \in Positions /\ sec[2] \in Positions
  <2>1. PICK i \in 1..Len(recvControl) : sec = recvControl[i]
    BY DEF ToSet
  <2>2. sec \in Section /\ ISS <= sec[1] /\ sec[2] <= ISS + MaxBytes
    BY <2>1 DEF ReceiverInv, SectionsBacked
  <2>3. sec[1] \in Int /\ sec[2] \in Int /\ sec[1] <= sec[2]
    BY <2>2, SectionBounds
  <2> QED BY <2>2, <2>3 DEF Positions
<1> QED BY <1>2, <1>3, <1>4, <1>5 DEF ReceiverTypeOK, ReceiverInv

LEMMA InvGivesBytes == ReceiverInv => ReadableBytesHeld /\ SectionsHeld
<1> SUFFICES ASSUME ReceiverInv PROVE ReadableBytesHeld /\ SectionsHeld
  OBVIOUS
<1> DEFINE L == lastByteRead
<1>1. /\ L \in Nat /\ expectSeqNum \in Nat /\ recv_tool.cap = RecvCap
      /\ recvControl \in Seq(Section)
      /\ \A p \in Int : p < expectSeqNum => Has(recv_tool, L, p)
      /\ \A p \in Int : Claimed(recvControl, p) => Has(recv_tool, L, p)
  BY DEF ReceiverInv, BufferFrom, RecvRing, RingOver, SectionsBacked
<1>2. ReadableBytesHeld
  <2> SUFFICES ASSUME NEW p \in L..(expectSeqNum - 1)
               PROVE  recv_tool.cell[p % RecvCap] = p
    BY <1>1 DEF ReadableBytesHeld, InPlace
  <2> QED BY <1>1 DEF Has
<1>3. ASSUME NEW sec \in ToSet(recvControl)
      PROVE  InPlace(recv_tool, MaxOf(sec[1], L), sec[2])
  <2>1. PICK i \in 1..Len(recvControl) : sec = recvControl[i]
    BY DEF ToSet
  <2>2. sec[1] \in Int /\ sec[2] \in Int
    BY <1>1, <2>1, SectionBounds
  <2> SUFFICES ASSUME NEW p \in MaxOf(sec[1], L)..(sec[2] - 1)
               PROVE  recv_tool.cell[p % RecvCap] = p
    BY <1>1 DEF InPlace
  <2>3. p \in Int /\ sec[1] <= p /\ p < sec[2] /\ ~(p < L)
    BY <1>1, <2>2 DEF MaxOf
  <2>4. Claimed(recvControl, p)
    BY <2>1, <2>3 DEF Claimed, Within
  <2> QED BY <1>1, <2>3, <2>4 DEF Has
<1> QED BY <1>2, <1>3 DEF SectionsHeld

LEMMA InvGivesRoom == ReceiverInv => AcceptedDataFits /\ WindowFitsBuffer
<1> SUFFICES ASSUME ReceiverInv PROVE AcceptedDataFits /\ WindowFitsBuffer
  OBVIOUS
<1>1. ASSUME NEW iv \in Arrivals, InWindow(StreamSegment(iv))
      PROVE  LET m == StreamSegment(iv)
             IN  RingWriteFits(recv_tool, CropEnd(m) - CropStart(m), CropStart(m))
  BY <1>1, ArrivalsFromStream, CroppingFits, StoringHolds
<1>2. WindowFitsBuffer
  <2> DEFINE z == RingSize(recv_tool)
  <2>1. z \in 0..(RecvCap - 1) /\ RingRemain(recv_tool) = RecvCap - 1 - z
    BY RingSizeRange DEF ReceiverInv, BufferFrom, RecvRing
  <2>2. /\ lastByteRead \in Nat /\ expectSeqNum \in Nat /\ expectSeqNum <= lastByteRead + z
        /\ rwnd = MinOf(RwndMax, RingRemain(recv_tool))
    BY DEF ReceiverInv, BufferFrom, OpenWindow
  <2> HIDE DEF z
  <2> QED BY <2>1, <2>2 DEF WindowFitsBuffer, MinOf
<1> QED BY <1>1, <1>2 DEF AcceptedDataFits
-----------------------------------------------------------------------------
(* Theorems.                                                               *)

\* The ring, the sequence numbers and the sections of a connection agree, in
\* every order in which segments, delayed ACKs and reads can come, as long as
\* expectSeqNum does not fall behind what was read.
THEOREM ReceiverInvariant == Spec /\ []ReadStaysBehind => []ReceiverInv
<1>1. Init => ReceiverInv
  BY InitReceiverInv
<1>2. ReceiverInv /\ [Next]_receiverVars /\ ReadStaysBehind' => ReceiverInv'
  BY ReceiverStep
<1> QED BY <1>1, <1>2, PTL DEF Spec

\* The window never moves back.
WindowSlidesForward == [][expectSeqNum' >= expectSeqNum]_receiverVars

\* It does not as long as the window slides forward.
THEOREM ForwardMeansBehind == Spec /\ WindowSlidesForward => []ReadStaysBehind
<1>1. Init => ReceiverInv
  BY InitReceiverInv
<1>2. ReceiverInv /\ [Next]_receiverVars /\ [expectSeqNum' >= expectSeqNum]_receiverVars
        => ReceiverInv'
  BY ForwardStep, ReceiverStep
<1>3. ReceiverInv => ReadStaysBehind
  BY DEF ReceiverInv
<1> QED BY <1>1, <1>2, <1>3, PTL DEF Spec, WindowSlidesForward

\* Type correctness of the receiver's part of tcp_link_info.
THEOREM ReceiverTypes == Spec /\ []ReadStaysBehind => []ReceiverTypeOK
BY ReceiverInvariant, InvGivesTypes, PTL

\* recv() returns the stream, in order and each byte once.
THEOREM DeliveryInOrder == Spec /\ []ReadStaysBehind => []InOrderDelivery
<1>1. ReceiverInv => InOrderDelivery
  BY DEF ReceiverInv
<1> QED BY <1>1, ReceiverInvariant, PTL

\* Every byte that an ACK claims and that is not read yet is in the ring.
THEOREM ReadableBytesAreHeld == Spec /\ []ReadStaysBehind => []ReadableBytesHeld
<1>1. ReceiverInv => ReadableBytesHeld
  BY InvGivesBytes
<1> QED BY <1>1, ReceiverInvariant, PTL

\* So is every byte of every out-of-order section.
THEOREM SectionsAreHeld == Spec /\ []ReadStaysBehind => []SectionsHeld
<1>1. ReceiverInv => SectionsHeld
  BY InvGivesBytes
<1> QED BY <1>1, ReceiverInvariant, PTL

\* receiver() may ignore the result of write(): what it accepts fits.
THEOREM AcceptedFits == Spec /\ []ReadStaysBehind => []AcceptedDataFits
<1>1. ReceiverInv => AcceptedDataFits
  BY InvGivesRoom
<1> QED BY <1>1, ReceiverInvariant, PTL

\* The announced window is room that the ring has.
THEOREM WindowFits == Spec /\ []ReadStaysBehind => []WindowFitsBuffer
<1>1. ReceiverInv => WindowFitsBuffer
  BY InvGivesRoom
<1> QED BY <1>1, ReceiverInvariant, PTL
-----------------------------------------------------------------------------
(* The delayed ACK.                                                        *)

LEMMA GapInit == Init => GapDisarmsDelay
BY DEF Init, GapDisarmsDelay

LEMMA GapSegment ==
  ASSUME GapDisarmsDelay, NEW m, NEW mute, SegmentIn(m, mute)
  PROVE  GapDisarmsDelay'
<1>1. CASE AcceptAndDelay(m, mute)
  BY <1>1 DEF AcceptAndDelay, GapDisarmsDelay
<1>2. CASE AcceptAndAnswer(m, mute)
  BY <1>2 DEF AcceptAndAnswer, GapDisarmsDelay
<1>3. CASE AcceptAhead(m, mute)
  BY <1>3 DEF AcceptAhead, GapDisarmsDelay
<1>4. CASE AcceptAndMerge(m, mute)
  BY <1>4 DEF AcceptAndMerge, GapDisarmsDelay
<1>5. CASE Reject(m, mute)
  BY <1>5 DEF Reject, GapDisarmsDelay, recvVars
<1> QED BY <1>1, <1>2, <1>3, <1>4, <1>5 DEF SegmentIn

\* receiver(): while there is a gap no ACK is held back, in every interleaving
\* of segments, delayed-ACK callbacks and reads.
THEOREM GapsAreReported == Spec => []GapDisarmsDelay
<1>1. ASSUME GapDisarmsDelay, [Next]_receiverVars PROVE GapDisarmsDelay'
  <2> DEFINE Goal == GapDisarmsDelay'
  <2>1. ASSUME NEW iv \in Arrivals, NEW mute \in BOOLEAN,
               SegmentIn(StreamSegment(iv), mute)
        PROVE  Goal
    BY <1>1, <2>1, GapSegment
  <2>2. ASSUME DelayedAck PROVE Goal
    BY <1>1, <2>2 DEF DelayedAck, GapDisarmsDelay
  <2>3. ASSUME NEW size \in ReadSizes, Recv(size) PROVE Goal
    BY <1>1, <2>3 DEF Recv, GapDisarmsDelay
  <2>4. ASSUME DataCarriesAck \/ AckLeaves \/ UNCHANGED receiverVars PROVE Goal
    BY <1>1, <2>4 DEF DataCarriesAck, AckLeaves, GapDisarmsDelay, receiverVars, recvVars
  <2> HIDE DEF Goal
  <2>5. Goal
    BY <1>1, <2>1, <2>2, <2>3, <2>4 DEF Next
  <2> QED BY <2>5 DEF Goal
<1> QED BY <1>1, GapInit, PTL DEF Spec

-----------------------------------------------------------------------------
(* What straddling segments can do, and nothing else.                      *)

\* The sections lie at or behind position p, apart, none of them empty.
SectionsAhead(F, p) == Disjoint(F) /\ \A i \in 1..Len(F) : p <= F[i][1]

\* sec lies at or behind position p, and no section of F begins inside it.
JoinsAhead(F, p, sec) ==
  /\ sec \in Section /\ p \in Int /\ p <= sec[1]
  /\ ~BeginsInside(F, sec)

\* addSection beyond a gap.
LEMMA SectionAddedAhead ==
  ASSUME NEW F \in Seq(Section), NEW p, SectionsAhead(F, p),
         NEW sec, JoinsAhead(F, p, sec), sec[1] < sec[2]
  PROVE  SectionsAhead(addSection(F, sec), p)
<1> DEFINE R == addSection(F, sec)
<1>1. sec \in Section /\ p \in Int /\ p <= sec[1] /\ Disjoint(F)
  BY DEF JoinsAhead, SectionsAhead
<1>2. Joined(F, sec, R)
  BY <1>1, AddSectionJoins DEF JoinsAhead
<1> HIDE DEF R
<1>3. PICK k \in 1..Len(R) :
        /\ \A j \in 1..Len(R) : j < k => j \in 1..Len(F) /\ R[j] = F[j]
        /\ \A j \in 1..Len(R) : k < j => \E i \in 1..Len(F) : R[j] = F[i]
        /\ R[k][1] = sec[1] \/ \E i \in 1..Len(F) : R[k][1] = F[i][1]
        /\ R[k] = sec \/ R[k][1] < R[k][2]
  BY <1>2 DEF Joined
<1>4. \A i \in 1..Len(F) : p <= F[i][1] /\ F[i][1] < F[i][2]
  BY DEF SectionsAhead, Disjoint
<1>5. ASSUME NEW j \in 1..Len(R)
      PROVE  p <= R[j][1] /\ R[j][1] < R[j][2]
  <2>1. CASE j = k
    BY <1>1, <1>3, <1>4, <2>1
  <2>2. CASE \E i \in 1..Len(F) : R[j] = F[i]
    BY <1>4, <2>2
  <2>3. j = k \/ \E i \in 1..Len(F) : R[j] = F[i]
    <3>1. j < k \/ j = k \/ k < j
      OBVIOUS
    <3> QED BY <1>3, <3>1
  <2> QED BY <2>1, <2>2, <2>3
<1>6. Apart(R)
  BY <1>2 DEF Joined
<1>7. SectionsAhead(R, p)
  BY <1>5, <1>6 DEF SectionsAhead, Disjoint
<1> QED BY <1>7 DEF R

\* addSection and moveFirstSection when the gap in front of them is closed.
LEMMA FirstSectionMoved ==
  ASSUME NEW F \in Seq(Section), NEW p, SectionsAhead(F, p),
         NEW sec, JoinsAhead(F, p, sec), sec[1] = p
  PROVE  LET R == addSection(F, sec)
         IN  /\ FirstSectionEnd(R) >= p
             /\ SectionsAhead(moveFirstSection(R), FirstSectionEnd(R))
<1> DEFINE R == addSection(F, sec)
           T == Tail(R)
           e == R[1][2]
<1>1. sec \in Section /\ p \in Int /\ Disjoint(F)
  BY DEF JoinsAhead, SectionsAhead
<1>2. Joined(F, sec, R)
  BY <1>1, AddSectionJoins DEF JoinsAhead
<1> HIDE DEF R
<1>3. PICK k \in 1..Len(R) :
        /\ \A j \in 1..Len(R) : j < k => j \in 1..Len(F) /\ R[j] = F[j]
        /\ \A j \in 1..Len(R) : k < j => \E i \in 1..Len(F) : R[j] = F[i]
        /\ R[k][1] = sec[1] \/ \E i \in 1..Len(F) : R[k][1] = F[i][1]
        /\ R[k] = sec \/ R[k][1] < R[k][2]
  BY <1>2 DEF Joined
<1>4. /\ \A i \in 1..Len(F) : p <= F[i][1] /\ F[i][1] < F[i][2]
      /\ \A i \in 1..Len(F) : F[i][1] \in Int /\ F[i][2] \in Int
  BY SectionBounds DEF SectionsAhead, Disjoint
<1>5. R \in Seq(Section) /\ Len(R) \in Nat /\ 1 \in 1..Len(R)
  BY <1>2 DEF Joined
<1>6. /\ \A j \in 1..Len(R) : R[j][1] \in Int /\ R[j][2] \in Int /\ R[j][1] <= R[j][2]
      /\ \A i, j \in 1..Len(R) : i < j => R[i][2] <= R[j][1]
  BY <1>2, <1>5, SectionBounds DEF Joined, Apart
<1>7. ASSUME NEW j \in 1..Len(R) PROVE p <= R[j][1]
  <2>1. CASE j = k
    BY <1>1, <1>3, <1>4, <2>1
  <2>2. CASE \E i \in 1..Len(F) : R[j] = F[i]
    BY <1>4, <2>2
  <2>3. j = k \/ \E i \in 1..Len(F) : R[j] = F[i]
    <3>1. j < k \/ j = k \/ k < j
      OBVIOUS
    <3> QED BY <1>3, <3>1
  <2> QED BY <2>1, <2>2, <2>3
<1>8. e \in Int /\ e >= p
  BY <1>1, <1>5, <1>6, <1>7
\* Behind the first section nothing is new: a first section in front of sec
\* would end where sec begins, and be empty.
<1>9. ASSUME NEW j \in 1..Len(R), 1 < j
      PROVE  R[j][1] < R[j][2] /\ e <= R[j][1]
  <2>1. e <= R[j][1]
    BY <1>5, <1>6, <1>9
  <2>2. CASE \E i \in 1..Len(F) : R[j] = F[i]
    BY <1>4, <2>1, <2>2
  <2>3. CASE j = k
    <3>1. 1 \in 1..Len(F) /\ R[1] = F[1]
      BY <1>3, <1>5, <1>9, <2>3
    <3>2. R[1][1] < e /\ p <= R[1][1] /\ R[1][1] \in Int
      BY <1>4, <3>1
    <3>3. R[j][1] # p
      BY <1>1, <1>6, <1>8, <2>1, <3>2
    <3>4. R[j] # sec /\ R[j][1] # sec[1]
      BY <3>3
    <3>5. \E i \in 1..Len(F) : R[j][1] = F[i][1]
      BY <1>3, <2>3, <3>4
    <3>6. R[j][1] < R[j][2]
      BY <1>3, <2>3, <3>4
    <3> QED BY <1>4, <2>1, <3>5, <3>6
  <2>4. j = k \/ \E i \in 1..Len(F) : R[j] = F[i]
    <3>1. j < k \/ j = k \/ k < j
      OBVIOUS
    <3> QED BY <1>3, <3>1
  <2> QED BY <2>2, <2>3, <2>4
<1>10. T \in Seq(Section) /\ Len(T) = Len(R) - 1
       /\ \A j \in 1..Len(T) : T[j] = R[j + 1] /\ j + 1 \in 1..Len(R) /\ 1 < j + 1
  BY <1>5
<1> HIDE DEF T, e
<1>11. SectionsAhead(T, e)
  <2>1. ASSUME NEW i \in 1..Len(T), NEW j \in 1..Len(T), i < j
        PROVE  T[i][2] <= T[j][1]
    <3>1. /\ i + 1 \in 1..Len(R) /\ T[i] = R[i + 1]
          /\ j + 1 \in 1..Len(R) /\ T[j] = R[j + 1]
      BY <1>10, Zenon
    <3>2. i + 1 < j + 1
      <4>1. Len(T) \in Nat
        BY <1>10
      <4> QED BY <2>1, <4>1
    <3> QED BY <1>6, <3>1, <3>2
  <2>2. ASSUME NEW j \in 1..Len(T)
        PROVE  T[j][1] < T[j][2] /\ e <= T[j][1]
    <3>1. T[j] = R[j + 1] /\ j + 1 \in 1..Len(R) /\ 1 < j + 1
      BY <1>10
    <3>2. R[j + 1][1] < R[j + 1][2] /\ e <= R[j + 1][1]
      BY <1>9, <3>1
    <3> QED BY <3>1, <3>2
  <2> QED BY <2>1, <2>2 DEF SectionsAhead, Disjoint, Apart
<1> QED BY <1>8, <1>11 DEF FirstSectionEnd, moveFirstSection, R, T, e

\* Where m lies in the stream.
Extent(m) == <<m.seq, m.seq + Len(m.data)>>

\* What receiver() adds is a part of the segment, not empty beyond a gap.
LEMMA CroppedPart ==
  ASSUME RangesKept, NEW m, FromStream(m), Len(m.data) > 0, InWindow(m),
         ~BeginsInside(recvControl, Extent(m))
  PROVE  /\ JoinsAhead(recvControl, expectSeqNum, <<CropStart(m), CropEnd(m)>>)
         /\ CropStart(m) > expectSeqNum =>
              CropStart(m) < CropEnd(m) /\ CropStart(m) = m.seq
         /\ CropEnd(m) \in Nat /\ expectSeqNum \in Nat /\ expectSeqNum <= CropEnd(m)
<1> DEFINE cs == CropStart(m)
           ce == CropEnd(m)
           a  == m.seq
           b  == m.seq + Len(m.data)
           F  == recvControl
<1>1. a \in Nat /\ b \in Nat /\ a < b
  <2>1. m.seq \in Nat /\ Len(m.data) \in Nat
    BY DEF FromStream
  <2> QED BY <2>1
<1>4. /\ cs \in Nat /\ ce \in Nat /\ expectSeqNum <= cs /\ cs <= ce
      /\ ce <= expectSeqNum + rwnd
  BY CroppingStays DEF CroppedTo
<1>5. expectSeqNum \in Nat /\ rwnd \in Int
  BY RangesGiveWindow DEF RangesKept
<1>6. /\ cs = MaxOf(a, expectSeqNum) /\ ce = MinOf(b, expectSeqNum + rwnd)
      /\ a < expectSeqNum + rwnd
  BY DEF CropStart, CropEnd, InWindow
<1>2. \A i \in 1..Len(F) : F[i][1] \in Int /\ ~(a < F[i][1] /\ F[i][1] < b)
  <2>1. F \in Seq(Section)
    BY DEF RangesKept, SectionsFrom
  <2>2. \A i \in 1..Len(F) : F[i] \in Section
    BY <2>1
  <2>3. Extent(m)[1] = a /\ Extent(m)[2] = b
    BY DEF Extent
  <2> HIDE DEF a, b, F
  <2>4. \A i \in 1..Len(F) : ~(a < F[i][1] /\ F[i][1] < b)
    BY <2>3 DEF BeginsInside, F
  <2> QED BY <2>2, <2>4, SectionBounds
<1> HIDE DEF cs, ce, a, b, F
<1>7. /\ a <= cs /\ ce <= b
      /\ cs > expectSeqNum => cs = a /\ cs < ce
  BY <1>1, <1>5, <1>6 DEF MaxOf, MinOf
<1>8. <<cs, ce>> \in Section /\ <<cs, ce>>[1] = cs /\ <<cs, ce>>[2] = ce
  BY <1>4, PairIsSection
<1>9. JoinsAhead(F, expectSeqNum, <<cs, ce>>)
  <2> DEFINE sec == <<cs, ce>>
  <2>1. sec \in Section /\ sec[1] = cs /\ sec[2] = ce
    BY <1>8
  <2> HIDE DEF sec
  <2>2. ASSUME NEW i \in 1..Len(F), cs < F[i][1], F[i][1] < ce PROVE FALSE
    <3>1. F[i][1] \in Int /\ ~(a < F[i][1] /\ F[i][1] < b)
      BY <1>2
    <3> DEFINE x == F[i][1]
    <3>2. x \in Int /\ cs < x /\ x < ce /\ ~(a < x /\ x < b)
      BY <2>2, <3>1
    <3> HIDE DEF x
    <3> QED BY <1>1, <1>4, <1>7, <3>2
  <2>3. ~BeginsInside(F, sec)
    BY <2>1, <2>2 DEF BeginsInside
  <2>4. JoinsAhead(F, expectSeqNum, sec)
    BY <1>4, <1>5, <2>1, <2>3 DEF JoinsAhead
  <2> QED BY <2>4 DEF sec
<1> QED BY <1>4, <1>5, <1>7, <1>9 DEF cs, ce, a, F

\* A segment inside of which no section begins moves the window forward or
\* leaves it, and keeps the sections ahead of it.
LEMMA SegmentKeepsAhead ==
  ASSUME RangesKept, GapDisarmsDelay, SectionsAhead(recvControl, expectSeqNum),
         NEW m, FromStream(m), Len(m.data) > 0,
         ~BeginsInside(recvControl, Extent(m)),
         NEW mute, SegmentIn(m, mute)
  PROVE  expectSeqNum' >= expectSeqNum /\ SectionsAhead(recvControl', expectSeqNum')
<1> DEFINE start == CropStart(m)
           end == CropEnd(m)
           sec == <<start, end>>
<1>1. recvControl \in Seq(Section) /\ expectSeqNum \in Nat
  BY DEF RangesKept, SectionsFrom
<1>2. InWindow(m) =>
        /\ JoinsAhead(recvControl, expectSeqNum, sec)
        /\ start > expectSeqNum => start < end
        /\ end \in Nat /\ expectSeqNum <= end
  BY CroppedPart
<1>3. sec[1] = start /\ sec[2] = end
  OBVIOUS
<1> HIDE DEF start, end, sec
<1>4. ASSUME InWindow(m), recvControl = <<>>, recvControl' = <<>>, expectSeqNum' = end
      PROVE  expectSeqNum' >= expectSeqNum /\ SectionsAhead(recvControl', expectSeqNum')
  <2>1. expectSeqNum' >= expectSeqNum
    BY <1>1, <1>2, <1>4
  <2>2. Len(recvControl') = 0
    BY <1>4
  <2>3. SectionsAhead(recvControl', expectSeqNum')
    BY <2>2 DEF SectionsAhead, Disjoint, Apart
  <2> QED BY <2>1, <2>3
<1>5. CASE AcceptAndDelay(m, mute)
  BY <1>4, <1>5 DEF AcceptAndDelay, end
<1>6. CASE AcceptAndAnswer(m, mute)
  BY <1>4, <1>6 DEF AcceptAndAnswer, end, GapDisarmsDelay
<1>7. CASE AcceptAhead(m, mute)
  <2>1. /\ InWindow(m) /\ start > expectSeqNum
        /\ recvControl' = addSection(recvControl, sec)
        /\ expectSeqNum' = expectSeqNum
    BY <1>7 DEF AcceptAhead, start, end, sec
  <2>2. JoinsAhead(recvControl, expectSeqNum, sec) /\ sec[1] < sec[2]
    BY <1>2, <1>3, <2>1
  <2>3. SectionsAhead(addSection(recvControl, sec), expectSeqNum)
    BY <1>1, <2>2, SectionAddedAhead
  <2> QED BY <1>1, <2>1, <2>3
<1>8. CASE AcceptAndMerge(m, mute)
  <2> DEFINE R == addSection(recvControl, sec)
  <2>1. /\ InWindow(m) /\ start = expectSeqNum
        /\ recvControl' = moveFirstSection(R)
        /\ expectSeqNum' = FirstSectionEnd(R)
    BY <1>8 DEF AcceptAndMerge, start, end, sec
  <2>2. JoinsAhead(recvControl, expectSeqNum, sec) /\ sec[1] = expectSeqNum
    BY <1>2, <1>3, <2>1
  <2>3. /\ FirstSectionEnd(R) >= expectSeqNum
        /\ SectionsAhead(moveFirstSection(R), FirstSectionEnd(R))
    BY <1>1, <2>2, FirstSectionMoved
  <2> HIDE DEF R
  <2> QED BY <2>1, <2>3
<1>9. CASE Reject(m, mute)
  <2>1. expectSeqNum' = expectSeqNum /\ recvControl' = recvControl
    BY <1>9 DEF Reject, recvVars
  <2> QED BY <1>1, <2>1
<1> QED BY <1>5, <1>6, <1>7, <1>8, <1>9 DEF SegmentIn

\* secCont::addSection puts nothing in front of what was there.
LEMMA AddedFrom ==
  ASSUME NEW F, NEW p \in Int, SectionsFrom(F, p), NEW sec \in Section, p <= sec[1]
  PROVE  SectionsFrom(addSection(F, sec), p) /\ addSection(F, sec) # <<>>
<1> DEFINE G == addSection(F, sec)
<1>1. F \in Seq(Section) /\ \A i \in 1..Len(F) : p <= F[i][1]
  BY DEF SectionsFrom
<1>2. AddsOnly(F, sec, G)
  BY AddSectionInventsNothing DEF SectionsFrom
<1> HIDE DEF G
<1>3. ASSUME NEW j \in 1..Len(G) PROVE p <= G[j][1]
  <2>1. EndsAmong(F, sec, G[j])
    BY <1>2 DEF AddsOnly
  <2> QED BY <1>1, <2>1 DEF EndsAmong
<1> QED BY <1>2, <1>3 DEF AddsOnly, SectionsFrom, G

\* moveFirstSection: the section taken off does not end in front of them.
LEMMA MovedFrom ==
  ASSUME NEW G, NEW p \in Int, SectionsFrom(G, p), G # <<>>
  PROVE  /\ SectionsFrom(moveFirstSection(G), p)
         /\ FirstSectionEnd(G) \in Int /\ p <= FirstSectionEnd(G)
<1> DEFINE T == Tail(G)
<1>1. G \in Seq(Section) /\ 1 \in 1..Len(G) /\ \A i \in 1..Len(G) : p <= G[i][1]
  BY DEF SectionsFrom
<1>2. T \in Seq(Section) /\ \A i \in 1..Len(T) : i + 1 \in 1..Len(G) /\ T[i] = G[i + 1]
  BY <1>1
<1> HIDE DEF T
<1>3. Ascending(T)
  <2> SUFFICES ASSUME NEW i \in 1..Len(T), NEW j \in 1..Len(T), i <= j
               PROVE  T[i][1] <= T[j][1]
    BY DEF Ascending
  <2>1. /\ i + 1 \in 1..Len(G) /\ j + 1 \in 1..Len(G) /\ i + 1 <= j + 1
        /\ T[i] = G[i + 1] /\ T[j] = G[j + 1]
    BY <1>2
  <2> QED BY <2>1 DEF SectionsFrom, Ascending
<1>4. \A i \in 1..Len(T) : p <= T[i][1]
  BY <1>1, <1>2
<1>5. G[1][1] \in Int /\ G[1][2] \in Int /\ G[1][1] <= G[1][2] /\ p <= G[1][1]
  BY <1>1, SectionBounds
<1>6. p <= G[1][2]
  BY <1>5
<1> QED BY <1>2, <1>3, <1>4, <1>5, <1>6
        DEF SectionsFrom, FirstSectionEnd, moveFirstSection, T

\* A segment, whatever it straddles, keeps the ranges, and does not move the
\* window back while no section begins behind its start.
LEMMA SegmentRanges ==
  ASSUME RangesKept, NEW m, FromStream(m), NEW mute, SegmentIn(m, mute)
  PROVE  /\ RangesKept'
         /\ SectionsFrom(recvControl, expectSeqNum) => expectSeqNum' >= expectSeqNum
<1> DEFINE start == CropStart(m)
           end == CropEnd(m)
           sec == <<start, end>>
           G == addSection(recvControl, sec)
<1>1. expectSeqNum \in Nat /\ lastByteRead \in Nat /\ SectionsFrom(recvControl, 0)
  BY DEF RangesKept
<1>2. ASSUME InWindow(m)
      PROVE  /\ start \in Nat /\ end \in Nat /\ expectSeqNum <= start /\ start <= end
             /\ sec \in Section /\ sec[1] = start
  <2>1. start \in Nat /\ end \in Nat /\ expectSeqNum <= start /\ start <= end
    BY <1>2, CroppingStays DEF CroppedTo
  <2> HIDE DEF start, end
  <2> QED BY <2>1, PairIsSection
<1>3. ASSUME InWindow(m), Store(m)
      PROVE  recv_tool' \in RecvRing /\ rwnd' = OpenWindow(recv_tool') /\ lastByteRead' \in Nat
  <2> DEFINE d == Cropped(m)
  <2>1. /\ recv_tool' = RingWrite(recv_tool, d, start) /\ rwnd' = OpenWindow(recv_tool')
        /\ lastByteRead' = lastByteRead
    BY <1>3 DEF Store
  <2>2. d \in Seq(Byte) /\ start \in Int /\ recv_tool \in RingOver(RecvCap, Byte)
    BY <1>2, <1>3, CroppingStays DEF CroppedTo, RangesKept, RecvRing
  <2> HIDE DEF d, start
  <2>3. RingWrite(recv_tool, d, start) \in RingOver(RecvCap, Byte)
    BY <2>2, RingWriteClosed
  <2> QED BY <1>1, <2>1, <2>3 DEF RecvRing
<1> HIDE DEF start, end, sec, G
<1>4. ASSUME InWindow(m)
      PROVE  /\ SectionsFrom(G, 0) /\ G # <<>>
             /\ SectionsFrom(recvControl, expectSeqNum) => SectionsFrom(G, expectSeqNum)
  <2>1. sec \in Section /\ sec[1] \in Nat /\ expectSeqNum <= sec[1]
    BY <1>2, <1>4
  <2> QED BY <1>1, <2>1, AddedFrom DEF G
<1>5. CASE AcceptAndDelay(m, mute) \/ AcceptAndAnswer(m, mute)
  <2>1. InWindow(m) /\ Store(m) /\ expectSeqNum' = end /\ recvControl' = recvControl
    BY <1>5 DEF AcceptAndDelay, AcceptAndAnswer, end
  <2>2. expectSeqNum' \in Nat /\ expectSeqNum' >= expectSeqNum
    BY <1>1, <1>2, <2>1
  <2> QED BY <1>1, <1>3, <2>1, <2>2 DEF RangesKept
<1>6. CASE AcceptAhead(m, mute)
  <2>1. InWindow(m) /\ Store(m) /\ expectSeqNum' = expectSeqNum /\ recvControl' = G
    BY <1>6 DEF AcceptAhead, start, end, sec, G
  <2>2. SectionsFrom(recvControl', 0)
    BY <1>4, <2>1
  <2> QED BY <1>1, <1>3, <2>1, <2>2 DEF RangesKept
<1>7. CASE AcceptAndMerge(m, mute)
  <2>1. /\ InWindow(m) /\ Store(m)
        /\ recvControl' = moveFirstSection(G) /\ expectSeqNum' = FirstSectionEnd(G)
    BY <1>7 DEF AcceptAndMerge, start, end, sec, G
  <2>2. SectionsFrom(recvControl', 0) /\ expectSeqNum' \in Nat
    BY <1>4, <2>1, MovedFrom
  <2>3. SectionsFrom(recvControl, expectSeqNum) => expectSeqNum' >= expectSeqNum
    BY <1>1, <1>4, <2>1, MovedFrom
  <2> QED BY <1>3, <2>1, <2>2, <2>3 DEF RangesKept
<1>8. CASE Reject(m, mute)
  BY <1>1, <1>8 DEF Reject, recvVars, RangesKept
<1> QED BY <1>5, <1>6, <1>7, <1>8 DEF SegmentIn

LEMMA RangesInit == Init => RangesKept /\ SectionsTidy
<1> SUFFICES ASSUME Init PROVE RangesKept /\ SectionsTidy
  OBVIOUS
<1>1. Len(recvControl) = 0
  BY DEF Init
<1> QED BY <1>1, InitReceiverInv, InvGivesRanges DEF SectionsTidy

LEMMA RangesStep ==
  ASSUME RangesKept, [Next]_receiverVars
  PROVE  RangesKept'
<1> DEFINE Goal == RangesKept'
<1>1. ASSUME NEW iv \in Arrivals, NEW mute \in BOOLEAN, SegmentIn(StreamSegment(iv), mute)
      PROVE  Goal
  BY <1>1, ArrivalsFromStream, SegmentRanges
<1>2. ASSUME NEW size \in ReadSizes, Recv(size) PROVE Goal
  <2> DEFINE n == MinOf(size, expectSeqNum - lastByteRead)
  <2>1. /\ expectSeqNum > lastByteRead
        /\ recv_tool' = RingMoveStart(recv_tool, n, lastByteRead)
        /\ lastByteRead' = lastByteRead + n
        /\ rwnd' = OpenWindow(recv_tool')
        /\ UNCHANGED <<expectSeqNum, recvControl>>
    BY <1>2 DEF Recv, RingRead
  <2>2. n \in Nat /\ lastByteRead \in Nat
    <3>1. size \in Nat /\ expectSeqNum \in Nat /\ lastByteRead \in Nat
      BY RecvConstantsAssumption DEF RangesKept
    <3> QED BY <2>1, <3>1 DEF MinOf
  <2> HIDE DEF n
  <2>3. recv_tool' \in RecvRing
    BY <2>1, <2>2, RingMoveStartClosed DEF RangesKept, RecvRing
  <2> QED BY <2>1, <2>2, <2>3 DEF RangesKept
<1>3. ASSUME DelayedAck PROVE Goal
  BY <1>3 DEF DelayedAck, RangesKept
<1>4. ASSUME DataCarriesAck \/ AckLeaves \/ UNCHANGED receiverVars PROVE Goal
  BY <1>4 DEF DataCarriesAck, AckLeaves, RangesKept, receiverVars, recvVars
<1> HIDE DEF Goal
<1>5. Goal
  BY <1>1, <1>2, <1>3, <1>4 DEF Next
<1> QED BY <1>5 DEF Goal

LEMMA TidyIsAhead ==
  ASSUME RangesKept
  PROVE  /\ SectionsTidy <=> SectionsAhead(recvControl, expectSeqNum)
         /\ SectionsTidy => SectionsFrom(recvControl, expectSeqNum)
<1>1. recvControl \in Seq(Section) /\ Ascending(recvControl)
  BY DEF RangesKept, SectionsFrom
<1>2. \A i \in 1..Len(recvControl) : recvControl[i][1] \in Int
  BY <1>1, SectionBounds
<1> QED BY <1>1, <1>2 DEF SectionsTidy, SectionsAhead, SectionsFrom, Disjoint, Apart

\* A segment that straddles the beginning of no section.
LEMMA SegmentKeepsTidy ==
  ASSUME RangesKept, GapDisarmsDelay, SectionsTidy,
         NEW iv \in Arrivals, NEW mute \in BOOLEAN, SegmentIn(StreamSegment(iv), mute),
         ~Straddles(StreamSegment(iv))
  PROVE  SectionsTidy'
<1> DEFINE m == StreamSegment(iv)
<1>1. FromStream(m) /\ SegmentIn(m, mute) /\ ~Straddles(m)
  BY ArrivalsFromStream
<1>2. Len(m.data) > 0
  <2>1. iv[1] \in Nat /\ iv[2] \in Nat /\ iv[1] < iv[2]
    BY RecvConstantsAssumption
  <2>2. iv[2] - iv[1] \in Nat /\ m.data = [k \in 1..(iv[2] - iv[1]) |-> iv[1] + k - 1]
    BY <2>1 DEF StreamSegment
  <2> QED BY <2>1, <2>2
<1> HIDE DEF m
<1>3. ~BeginsInside(recvControl, Extent(m))
  <2>1. Extent(m)[1] = m.seq /\ Extent(m)[2] = m.seq + Len(m.data)
    BY DEF Extent
  <2> QED BY <1>1, <2>1 DEF Straddles, BeginsInside
<1>4. m.seq \in Int
  BY <1>1 DEF FromStream
<1>5. SectionsAhead(recvControl, expectSeqNum)
  BY TidyIsAhead
<1>6. SectionsAhead(recvControl', expectSeqNum')
  BY <1>1, <1>2, <1>3, <1>4, <1>5, SegmentKeepsAhead
<1> QED BY <1>6 DEF SectionsTidy, SectionsAhead, Disjoint, Apart

LEMMA StepOnlyByStraddling ==
  ASSUME RangesKept, GapDisarmsDelay, [Next]_receiverVars
  PROVE  StepKeepsTidy
<1> SUFFICES ASSUME SectionsTidy
             PROVE  /\ expectSeqNum' >= expectSeqNum
                    /\ \/ SectionsTidy'
                       \/ LET came == {iv \in Arrivals :
                                 \E mute \in BOOLEAN : SegmentIn(StreamSegment(iv), mute)}
                          IN  came # {} /\ \A iv \in came : Straddles(StreamSegment(iv))
  BY DEF StepKeepsTidy
<1> DEFINE Comes(iv) == \E mute \in BOOLEAN : SegmentIn(StreamSegment(iv), mute)
<1>1. ASSUME NEW iv \in Arrivals, Comes(iv)
      PROVE  /\ expectSeqNum' >= expectSeqNum
             /\ Straddles(StreamSegment(iv)) \/ SectionsTidy'
  <2>1. PICK mute \in BOOLEAN : SegmentIn(StreamSegment(iv), mute)
    BY <1>1
  <2>2. expectSeqNum' >= expectSeqNum
    BY <2>1, ArrivalsFromStream, SegmentRanges, TidyIsAhead
  <2> QED BY <2>1, <2>2, SegmentKeepsTidy
<1>2. CASE \E iv \in Arrivals : Comes(iv)
  <2>1. expectSeqNum' >= expectSeqNum
    BY <1>1, <1>2
  <2>2. SectionsTidy' \/ \A iv \in Arrivals : Comes(iv) => Straddles(StreamSegment(iv))
    BY <1>1
  <2>3. {iv \in Arrivals : Comes(iv)} # {}
    BY <1>2
  <2> QED BY <2>1, <2>2, <2>3
<1>3. CASE ~\E iv \in Arrivals : Comes(iv)
  <2>1. DelayedAck \/ (\E size \in ReadSizes : Recv(size)) \/ DataCarriesAck \/ AckLeaves
        \/ UNCHANGED receiverVars
    BY <1>3 DEF Next
  <2>2. expectSeqNum' = expectSeqNum /\ recvControl' = recvControl
    BY <2>1 DEF DelayedAck, Recv, DataCarriesAck, AckLeaves, receiverVars, recvVars
  <2>3. expectSeqNum' >= expectSeqNum
    BY <2>2 DEF RangesKept
  <2>4. SectionsTidy'
    BY <2>2 DEF SectionsTidy
  <2> QED BY <2>3, <2>4
<1> QED BY <1>2, <1>3

\* secCont::addSection and receiver(): whatever arrives, in whatever order and
\* cut wherever, nothing moves the window back while the sections are tidy, and
\* only a segment that straddles the beginning of a section leaves them untidy.
THEOREM StaleSectionsAreStraddled == Spec => StaleOnlyByStraddling
<1>1. Init => RangesKept
  BY RangesInit
<1>2. RangesKept /\ [Next]_receiverVars => RangesKept'
  BY RangesStep
<1>3. RangesKept /\ GapDisarmsDelay /\ [Next]_receiverVars => [StepKeepsTidy]_receiverVars
  BY StepOnlyByStraddling
<1> QED BY <1>1, <1>2, <1>3, GapsAreReported, PTL DEF Spec, StaleOnlyByStraddling

\* No segment that arrives straddles the beginning of a section.
NoneStraddles ==
  \A iv \in Arrivals, mute \in BOOLEAN :
    SegmentIn(StreamSegment(iv), mute) => ~Straddles(StreamSegment(iv))

NeverStraddled == [][NoneStraddles]_receiverVars

\* The receiving half until a segment straddles the beginning of a section: the
\* window never moves back, and loss, duplication, reordering, overlapping and
\* cropping break none of its invariants.
THEOREM ReceiverUnlessStraddled ==
  Spec /\ NeverStraddled =>
    /\ []SectionsTidy /\ WindowSlidesForward /\ []ReadStaysBehind
    /\ [](/\ ReceiverTypeOK /\ InOrderDelivery /\ ReadableBytesHeld
          /\ SectionsHeld /\ AcceptedDataFits /\ WindowFitsBuffer)
<1>1. Init => SectionsTidy
  BY RangesInit
<1>2. SectionsTidy /\ [StepKeepsTidy]_receiverVars /\ [NoneStraddles]_receiverVars
        => SectionsTidy' /\ [expectSeqNum' >= expectSeqNum]_receiverVars
  <2> SUFFICES ASSUME SectionsTidy, [StepKeepsTidy]_receiverVars,
                      [NoneStraddles]_receiverVars
               PROVE  SectionsTidy' /\ [expectSeqNum' >= expectSeqNum]_receiverVars
    OBVIOUS
  <2>1. CASE UNCHANGED receiverVars
    BY <2>1 DEF receiverVars, recvVars, SectionsTidy
  <2>2. CASE StepKeepsTidy /\ NoneStraddles
    BY <2>2 DEF StepKeepsTidy, NoneStraddles
  <2> QED BY <2>1, <2>2
<1>3. ReceiverInv => /\ ReceiverTypeOK /\ InOrderDelivery /\ ReadableBytesHeld
                     /\ SectionsHeld /\ AcceptedDataFits /\ WindowFitsBuffer
  BY InvGivesTypes, InvGivesBytes, InvGivesRoom DEF ReceiverInv
<1>4. Spec /\ NeverStraddled => []SectionsTidy /\ WindowSlidesForward
  BY <1>1, <1>2, StaleSectionsAreStraddled, PTL
     DEF Spec, StaleOnlyByStraddling, NeverStraddled, WindowSlidesForward
<1> QED BY <1>3, <1>4, ForwardMeansBehind, ReceiverInvariant, PTL
-----------------------------------------------------------------------------
(* What the peer learns, and from what.                                    *)

\* The complete stream and the sections F end at or before position b.
EndBy(e, F, b) == e <= b /\ \A i \in 1..Len(F) : F[i][2] <= b

LEMMA AddedEndBy ==
  ASSUME NEW F \in Seq(Section), Ascending(F), NEW sec \in Section,
         NEW b \in Int, sec[2] <= b, \A i \in 1..Len(F) : F[i][2] <= b
  PROVE  LET G == addSection(F, sec)
         IN  G \in Seq(Section) /\ G # <<>> /\ \A j \in 1..Len(G) : G[j][2] <= b
<1> DEFINE G == addSection(F, sec)
<1>1. AddsOnly(F, sec, G)
  BY AddSectionInventsNothing
<1> HIDE DEF G
<1>2. ASSUME NEW j \in 1..Len(G) PROVE G[j][2] <= b
  <2>1. EndsAmong(F, sec, G[j])
    BY <1>1 DEF AddsOnly
  <2> QED BY <2>1 DEF EndsAmong
<1>3. G \in Seq(Section) /\ G # <<>>
  BY <1>1 DEF AddsOnly
<1> QED BY <1>2, <1>3 DEF G

\* A segment does not take the receiver beyond its end.
LEMMA SegmentEndsBy ==
  ASSUME ReceiverInv, NEW m, NEW mute, FromStream(m), SegmentIn(m, mute),
         NEW b \in Int, EndBy(expectSeqNum, recvControl, b), m.seq + Len(m.data) <= b
  PROVE  EndBy(expectSeqNum', recvControl', b)
<1> DEFINE start == CropStart(m)
           end == CropEnd(m)
           G == addSection(recvControl, <<start, end>>)
<1>1. /\ expectSeqNum <= b /\ \A i \in 1..Len(recvControl) : recvControl[i][2] <= b
      /\ recvControl \in Seq(Section) /\ Ascending(recvControl)
  BY DEF EndBy, ReceiverInv, SectionsBacked
<1>2. ASSUME InWindow(m)
      PROVE  /\ end <= b
             /\ G \in Seq(Section) /\ G # <<>> /\ \A j \in 1..Len(G) : G[j][2] <= b
  <2>1. start \in Nat /\ end \in Nat /\ start <= end
    BY <1>2, CroppingFits DEF CroppedTo
  <2>2. end <= b
    <3>1. m.seq \in Nat /\ Len(m.data) \in Nat /\ expectSeqNum + rwnd \in Int
      <4>1. rwnd \in 0..RwndMax
        BY InvGivesTypes DEF ReceiverTypeOK
      <4> QED BY <4>1 DEF FromStream, ReceiverInv
    <3> QED BY <3>1 DEF CropEnd, MinOf
  <2>3. <<start, end>> \in Section /\ <<start, end>>[2] = end
    BY <2>1, PairIsSection
  <2> HIDE DEF start, end
  <2> QED BY <1>1, <2>2, <2>3, AddedEndBy
<1> HIDE DEF start, end, G
<1>3. CASE AcceptAndDelay(m, mute)
  <2>1. InWindow(m) /\ expectSeqNum' = end /\ recvControl' = recvControl
    BY <1>3 DEF AcceptAndDelay, end
  <2> QED BY <1>1, <1>2, <2>1 DEF EndBy
<1>4. CASE AcceptAndAnswer(m, mute)
  <2>1. InWindow(m) /\ expectSeqNum' = end /\ recvControl' = recvControl
    BY <1>4 DEF AcceptAndAnswer, end
  <2> QED BY <1>1, <1>2, <2>1 DEF EndBy
<1>5. CASE AcceptAhead(m, mute)
  <2>1. InWindow(m) /\ expectSeqNum' = expectSeqNum /\ recvControl' = G
    BY <1>5 DEF AcceptAhead, start, end, G
  <2> QED BY <1>1, <1>2, <2>1 DEF EndBy
<1>6. CASE AcceptAndMerge(m, mute)
  <2>1. InWindow(m) /\ recvControl' = Tail(G) /\ expectSeqNum' = G[1][2]
    BY <1>6 DEF AcceptAndMerge, start, end, G, moveFirstSection, FirstSectionEnd
  <2>2. G \in Seq(Section) /\ G # <<>> /\ \A j \in 1..Len(G) : G[j][2] <= b
    BY <1>2, <2>1
  <2>3. 1 \in 1..Len(G) /\ Len(Tail(G)) = Len(G) - 1
        /\ \A j \in 1..(Len(G) - 1) : Tail(G)[j] = G[j + 1] /\ j + 1 \in 1..Len(G)
    BY <2>2
  <2> QED BY <2>1, <2>2, <2>3 DEF EndBy
<1>7. CASE Reject(m, mute)
  BY <1>7 DEF Reject, recvVars
<1> QED BY <1>3, <1>4, <1>5, <1>6, <1>7 DEF SegmentIn

\* ACKs on the way were there, or carry the numbers before or after the step.
Announces ==
  \A a \in ackNet' : \/ a \in ackNet
                      \/ a = [ack |-> expectSeqNum, rwnd |-> rwnd]
                      \/ a = [ack |-> expectSeqNum', rwnd |-> rwnd']

LEMMA SendAckAnnounces ==
  ASSUME NEW e, NEW w, SendAck(e, w)
  PROVE  \A a \in ackNet' : a \in ackNet \/ a = [ack |-> e, rwnd |-> w]
  BY DEF SendAck

LEMMA PiggybackAnnounces == Piggyback => Announces
  BY SendAckAnnounces DEF Piggyback, Announces

LEMMA AnswerAnnounces ==
  ASSUME NEW mute, NEW e, NEW w, Answer(mute, e, w),
         e = expectSeqNum', OpenWindow(w) = rwnd'
  PROVE  Announces
<1>1. CASE mute
  BY <1>1, PiggybackAnnounces DEF Answer
<1>2. CASE ~mute
  BY <1>2, SendAckAnnounces DEF Answer, Announces
<1> QED BY <1>1, <1>2

LEMMA SegmentAnnounces ==
  ASSUME ReceiverInv, NEW m, NEW mute, SegmentIn(m, mute)
  PROVE  Announces
<1>1. CASE AcceptAndDelay(m, mute)
  <2>1. AnswerLater(mute)
    BY <1>1 DEF AcceptAndDelay
  <2> QED BY <2>1, PiggybackAnnounces DEF AnswerLater, Announces
<1>2. CASE AcceptAndAnswer(m, mute)
  BY <1>2, AnswerAnnounces DEF AcceptAndAnswer, Store
<1>3. CASE AcceptAhead(m, mute)
  BY <1>3, AnswerAnnounces DEF AcceptAhead, Store
<1>4. CASE AcceptAndMerge(m, mute)
  BY <1>4, AnswerAnnounces DEF AcceptAndMerge, Store
<1>5. CASE Reject(m, mute)
  <2>1. /\ Answer(mute, expectSeqNum, recv_tool)
        /\ expectSeqNum' = expectSeqNum /\ rwnd' = rwnd
    BY <1>5 DEF Reject, recvVars
  <2>2. rwnd = OpenWindow(recv_tool)
    BY DEF ReceiverInv
  <2> QED BY <2>1, <2>2, AnswerAnnounces
<1> QED BY <1>1, <1>2, <1>3, <1>4, <1>5 DEF SegmentIn

LEMMA DelayedAckAnnounces ==
  ASSUME ReceiverInv, DelayedAck
  PROVE  Announces
<1>1. rwnd = OpenWindow(recv_tool)
  BY DEF ReceiverInv
<1> QED BY <1>1, SendAckAnnounces DEF DelayedAck, Announces

\* recv() hands out the next bytes of the stream, at least one.
LEMMA RecvDelivers ==
  ASSUME ReceiverInv, NEW size \in Nat \ {0}, Recv(size)
  PROVE  \E n \in 1..MaxBytes :
           /\ lastByteRead + n <= expectSeqNum
           /\ lastByteRead' = lastByteRead + n
           /\ delivered' = delivered \o [k \in 1..n |-> lastByteRead + k - 1]
<1> DEFINE L == lastByteRead
           n == MinOf(size, expectSeqNum - L)
<1>1. /\ L \in Nat /\ recv_tool \in RingOver(RecvCap, Byte) /\ recv_tool.start = L % RecvCap
      /\ recv_tool.cap = RecvCap
      /\ RingSize(recv_tool) \in Nat /\ expectSeqNum \in Nat
      /\ L < expectSeqNum /\ expectSeqNum <= L + RingSize(recv_tool) /\ ISS <= L
      /\ expectSeqNum <= ISS + MaxBytes
  <2>1. recv_tool \in RingOver(RecvCap, Byte)
    BY DEF ReceiverInv, BufferFrom, RecvRing
  <2>2. RingSize(recv_tool) \in 0..(RecvCap - 1)
    BY <2>1, RingSizeRange
  <2>3. recv_tool.cap = RecvCap
    BY <2>1 DEF RingOver
  <2> QED BY <2>1, <2>2, <2>3 DEF ReceiverInv, BufferFrom, ReadStaysBehind, Recv
<1>2. /\ delivered' = delivered \o RingRead(recv_tool, n, L).data
      /\ lastByteRead' = L + n
  BY DEF Recv
<1>3. n \in 1..MaxBytes /\ L + n <= expectSeqNum /\ n \in 0..RingSize(recv_tool)
  BY <1>1 DEF MinOf
<1> HIDE DEF n
<1>4. InPlace(recv_tool, L, L + n)
  <2> SUFFICES ASSUME NEW p \in L..((L + n) - 1)
               PROVE  recv_tool.cell[p % RecvCap] = p
    BY <1>1 DEF InPlace
  <2>1. p \in Int /\ p < expectSeqNum /\ ~(p < L)
    BY <1>1, <1>3
  <2>2. Has(recv_tool, L, p)
    BY <2>1 DEF ReceiverInv
  <2> QED BY <2>1, <2>2 DEF Has
<1>5. \A d : d = RingRead(recv_tool, n, L).data =>
        d \in Seq(Nat) /\ Len(d) = n /\ StreamBytes(d, L)
  BY <1>1, <1>3, <1>4, RingReadReturns
<1>6. PICK d : d = RingRead(recv_tool, n, L).data
  OBVIOUS
<1>7. d \in Seq(Nat) /\ Len(d) = n /\ \A k \in 1..n : d[k] = L + k - 1
  BY <1>5, <1>6 DEF StreamBytes
<1>8. d = [k \in 1..n |-> L + k - 1]
  <2>1. d = [k \in 1..n |-> d[k]]
    BY <1>7
  <2> QED BY <1>7, <2>1
<1> QED BY <1>2, <1>3, <1>6, <1>8 DEF n
=============================================================================
