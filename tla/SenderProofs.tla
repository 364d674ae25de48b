---------------------------- MODULE SenderProofs ----------------------------
(***************************************************************************)
(* The invariants of the sending half, proved for every value of the       *)
(* constants.                                                              *)
(***************************************************************************)
EXTENDS Sender, RingBufferProofs

USE ConstantsAssumption

\* The inductive invariant.  WindowOrdered needs the ring indexes to agree with
\* the sequence numbers; TimerCoversOutstanding needs WindowOrdered (an ACK of
\* new data implies a running timer); SegmentsIntact needs the bytes in place.
SenderInv ==
  /\ SenderTypeOK
  /\ WindowOrdered
  /\ TimerCoversOutstanding
  /\ UnackedInPlace
  /\ SegmentsIntact

Ring == RingOver(SendCap, Nat \cup {Unset})
-----------------------------------------------------------------------------
(* Operators.                                                              *)

LEMMA DivNat ==
  ASSUME NEW a \in Nat, NEW d \in Nat \ {0}
  PROVE  a \div d \in Nat
  OBVIOUS

LEMMA HalfNat ==
  ASSUME NEW a \in Nat
  PROVE  a \div 2 \in Nat
  OBVIOUS

\* The congestion window grows by a natural number, even from 0.
LEMMA GainNat ==
  ASSUME NEW a \in Nat
  PROVE  Gain(a) \in Nat
<1>1. MSS * MSS \in Nat
  OBVIOUS
<1> DEFINE s == MSS * MSS
<1> HIDE DEF s
<1>2. CASE a = 0
  BY <1>2 DEF Gain
<1>3. CASE a # 0
  <2>1. s \div a \in Nat
    BY <1>1, <1>3, DivNat DEF s
  <2> QED BY <1>3, <2>1 DEF Gain, s
<1> QED BY <1>2, <1>3

\* A segment cut out of a range whose bytes are in place carries its bytes.
LEMMA SegmentsAreIntact ==
  ASSUME NEW buf, NEW lo \in Int, NEW hi \in Int, InPlace(buf, lo, hi),
         NEW from \in Int, NEW to \in Int, lo <= from, to <= hi,
         NEW m \in Segments(buf, from, to)
  PROVE  Intact(m)
<1>1. PICK s \in from..(to - 1) :
        m = [seq |-> s, data |-> RingCopy(buf, MinOf(MSS, to - s), s)]
  BY DEF Segments
<1> DEFINE n == MinOf(MSS, to - s)
<1>2. n \in Nat /\ n <= to - s
  BY <1>1 DEF MinOf
<1> HIDE DEF n
<1>3. m.seq = s /\ m.data = [k \in 1..n |-> buf.cell[(s + k - 1) % buf.cap]]
  BY <1>1 DEF RingCopy, n
<1>4. Len(m.data) = n
  BY <1>2, <1>3
<1>5. ASSUME NEW k \in 1..n
      PROVE  m.data[k] = s + k - 1
  <2> DEFINE p == s + k - 1
  <2>1. p \in lo..(hi - 1)
    BY <1>1, <1>2
  <2>2. m.data[k] = buf.cell[p % buf.cap]
    BY <1>3
  <2> HIDE DEF p
  <2>3. buf.cell[p % buf.cap] = p
    BY <2>1 DEF InPlace
  <2> QED BY <2>2, <2>3 DEF p
<1> QED BY <1>3, <1>4, <1>5 DEF Intact

LEMMA EmitKeepsIntact ==
  ASSUME SegmentsIntact,
         NEW segs, \A m \in segs : Intact(m),
         Emit(segs)
  PROVE  SegmentsIntact'
<1>1. PICK kept \in SUBSET (dataNet \cup segs) : dataNet' = kept
  BY DEF Emit
<1>2. \A m \in dataNet' : Intact(m)
  BY <1>1 DEF SegmentsIntact
<1> QED BY <1>2 DEF SegmentsIntact, Intact

\* What send_new does with a buffer whose bytes from base on are in place.
LEMMA SendNewEffect ==
  ASSUME NEW base \in Nat, NEW buf \in Ring, NEW window \in Nat,
         nextSeqNum \in Nat, senderTimer \in BOOLEAN,
         base <= nextSeqNum, nextSeqNum <= base + RingSize(buf),
         base < nextSeqNum => senderTimer,
         InPlace(buf, base, base + RingSize(buf)),
         SegmentsIntact,
         SendNew(base, buf, window)
  PROVE  /\ nextSeqNum' \in Nat
         /\ nextSeqNum <= nextSeqNum' /\ nextSeqNum' <= base + RingSize(buf)
         /\ senderTimer' \in BOOLEAN
         /\ base < nextSeqNum' => senderTimer'
         /\ SegmentsIntact'
         /\ nextSeqNum' > nextSeqNum => nextSeqNum' - base <= window
<1> DEFINE z == RingSize(buf)
           send_end == SendEnd(base, buf, window)
<1>1. z \in Nat
  BY RingSizeRange DEF Ring
<1>2. /\ nextSeqNum' = MaxOf(nextSeqNum, send_end)
      /\ senderTimer' = (senderTimer \/ (base = nextSeqNum /\ nextSeqNum < send_end))
      /\ Emit(Segments(buf, nextSeqNum, send_end))
  BY DEF SendNew
<1>3. send_end = base + MinOf(window, z)
  BY DEF SendEnd
<1> HIDE DEF z, send_end
<1>4. send_end \in Nat /\ send_end <= base + z /\ send_end - base <= window
  BY <1>1, <1>3 DEF MinOf
<1>5. SegmentsIntact'
  <2>1. \A m \in Segments(buf, nextSeqNum, send_end) : Intact(m)
    BY <1>1, <1>4, SegmentsAreIntact DEF z
  <2> QED BY <1>2, <2>1, EmitKeepsIntact
<1>6. nextSeqNum' \in Nat /\ nextSeqNum <= nextSeqNum' /\ nextSeqNum' <= base + z
  BY <1>1, <1>2, <1>4 DEF MaxOf, z
<1>7. nextSeqNum' > nextSeqNum => nextSeqNum' - base <= window
  BY <1>2, <1>4 DEF MaxOf
<1>8. senderTimer' \in BOOLEAN
  BY <1>2
<1>9. ASSUME base < nextSeqNum'
      PROVE  senderTimer'
  <2>1. CASE base < nextSeqNum
    BY <1>2, <2>1, Zenon
  <2>2. CASE base = nextSeqNum
    <3>1. nextSeqNum < send_end
      BY <1>2, <1>4, <1>9, <2>2 DEF MaxOf
    <3> QED BY <1>2, <2>2, <3>1, Zenon
  <2> QED BY <2>1, <2>2
<1> QED BY <1>5, <1>6, <1>7, <1>8, <1>9 DEF z

LEMMA FastRetransmitIntact ==
  ASSUME SenderInv, FastRetransmit
  PROVE  SegmentsIntact'
<1>1. /\ sendBase \in Nat /\ nextSeqNum \in Nat /\ StreamEnd \in Nat
      /\ nextSeqNum <= StreamEnd
      /\ InPlace(send_tool, sendBase, StreamEnd)
  BY RingSizeRange DEF SenderInv, SenderTypeOK, WindowOrdered, UnackedInPlace, StreamEnd
<1>2. \A m \in Segments(send_tool, sendBase, nextSeqNum) : Intact(m)
  BY <1>1, SegmentsAreIntact
<1> QED BY <1>2, EmitKeepsIntact DEF FastRetransmit, SenderInv
-----------------------------------------------------------------------------
(* Steps.                                                                  *)

\* What the steps below start from, spelled out.
LEMMA InvFacts ==
  ASSUME SenderInv
  PROVE  /\ nextSeqNum \in Nat /\ sendBase \in Nat /\ cwnd \in Nat
         /\ ssthresh \in Nat /\ dest_rwnd \in 0..RwndMax
         /\ duplicate_count \in Nat /\ senderTimer \in BOOLEAN
         /\ send_tool \in Ring /\ RingSize(send_tool) \in 0..(SendCap - 1)
         /\ StreamEnd = sendBase + RingSize(send_tool) /\ StreamEnd \in Nat
         /\ sendBase <= nextSeqNum /\ nextSeqNum <= StreamEnd
         /\ send_tool.start = sendBase % SendCap
         /\ sendBase < nextSeqNum => senderTimer
         /\ InPlace(send_tool, sendBase, StreamEnd)
         /\ SegmentsIntact
<1>1. send_tool \in Ring
  BY DEF SenderInv, SenderTypeOK, Ring
<1>2. RingSize(send_tool) \in 0..(SendCap - 1)
  BY <1>1, RingSizeRange DEF Ring
<1> QED
  BY <1>1, <1>2 DEF SenderInv, SenderTypeOK, WindowOrdered, TimerCoversOutstanding,
                    UnackedInPlace, StreamEnd

LEMMA InitInv ==
  ASSUME Init
  PROVE  SenderInv
<1> DEFINE i == ISS % SendCap
<1>1. i \in 0..(SendCap - 1)
  OBVIOUS
<1>2. send_tool = [start |-> i, end |-> i, cap |-> SendCap,
                   cell |-> [j \in 0..(SendCap - 1) |-> Unset]]
  BY DEF Init, RingClear, RingNew
<1>3. nextSeqNum = ISS /\ sendBase = ISS /\ dataNet = {}
  BY DEF Init
<1>4. i = sendBase % SendCap
  BY <1>3
<1> HIDE DEF i
<1>5. RingSize(send_tool) = 0
  BY <1>1, <1>2 DEF RingSize
<1>6. send_tool \in Ring /\ send_tool.start = i
  BY <1>1, <1>2 DEF Ring, RingOver
<1>7. StreamEnd = sendBase
  BY <1>3, <1>5 DEF StreamEnd
<1>8. SenderTypeOK
  <2>1. senderTimer \in BOOLEAN
    BY DEF Init
  <2>2. MSS \in Nat /\ Threshold \in Nat /\ ISS \in Nat /\ RwndMax \in 0..RwndMax
    OBVIOUS
  <2> QED
    BY <1>6, <2>1, <2>2 DEF Init, SenderTypeOK, Ring, SlowStart
<1>9. InPlace(send_tool, sendBase, StreamEnd)
  BY <1>3, <1>7 DEF InPlace
<1>10. WindowOrdered
  BY <1>3, <1>4, <1>6, <1>7 DEF WindowOrdered
<1>11. SegmentsIntact
  BY <1>3 DEF SegmentsIntact
<1>12. TimerCoversOutstanding
  BY <1>3 DEF TimerCoversOutstanding
<1> QED BY <1>8, <1>9, <1>10, <1>11, <1>12 DEF SenderInv, UnackedInPlace

\* A step that leaves the send buffer and the numbers alone, with the timer on
\* whenever it has to be.
LEMMA SameWindow ==
  ASSUME SenderInv,
         UNCHANGED <<nextSeqNum, sendBase, send_tool>>,
         SenderTypeOK', TimerCoversOutstanding', SegmentsIntact'
  PROVE  SenderInv'
  BY DEF SenderInv, WindowOrdered, UnackedInPlace, StreamEnd

\* A handler that ends in send_new, called with the values that the handler has
\* given to the rest: the invariant holds of them, and new data fits the window.
LEMMA SendNewStep ==
  ASSUME SenderInv,
         sendBase' \in Nat, send_tool' \in Ring,
         send_tool'.start = sendBase' % SendCap,
         InPlace(send_tool', sendBase', sendBase' + RingSize(send_tool')),
         sendBase <= sendBase', sendBase' <= nextSeqNum,
         nextSeqNum <= sendBase' + RingSize(send_tool'),
         state' \in {SlowStart, CongestionAvoidance, FastRecovery},
         cwnd' \in Nat, ssthresh' \in Nat, duplicate_count' \in Nat,
         dest_rwnd' \in 0..RwndMax,
         SendNew(sendBase', send_tool', MinOf(dest_rwnd', cwnd'))
  PROVE  SenderInv' /\ NewDataFitsWindow
<1> DEFINE window == MinOf(dest_rwnd', cwnd')
<1>1. window \in Nat
  BY DEF MinOf
<1> HIDE DEF window
<1>2. /\ nextSeqNum \in Nat /\ senderTimer \in BOOLEAN /\ SegmentsIntact
      /\ sendBase' < nextSeqNum => senderTimer
  BY InvFacts
<1>3. /\ nextSeqNum' \in Nat
      /\ nextSeqNum <= nextSeqNum' /\ nextSeqNum' <= sendBase' + RingSize(send_tool')
      /\ senderTimer' \in BOOLEAN
      /\ sendBase' < nextSeqNum' => senderTimer'
      /\ SegmentsIntact'
      /\ nextSeqNum' > nextSeqNum => nextSeqNum' - sendBase' <= window
  BY <1>1, <1>2, SendNewEffect DEF window
<1>4. StreamEnd' = sendBase' + RingSize(send_tool')
  BY DEF StreamEnd
<1>5. SenderTypeOK'
  BY <1>3 DEF SenderTypeOK, Ring
<1>6. WindowOrdered'
  BY <1>2, <1>3, <1>4 DEF WindowOrdered
<1>7. TimerCoversOutstanding'
  BY <1>3 DEF TimerCoversOutstanding
<1>8. UnackedInPlace'
  BY <1>4 DEF UnackedInPlace
<1>9. NewDataFitsWindow
  BY <1>3 DEF NewDataFitsWindow, window
<1> QED BY <1>3, <1>5, <1>6, <1>7, <1>8, <1>9 DEF SenderInv

\* send() adds its bytes to the buffer.
LEMMA BufferGrows ==
  ASSUME SenderInv, NEW size \in WriteSizes, SenderWrite(size)
  PROVE  /\ send_tool' \in Ring
         /\ send_tool'.start = send_tool.start
         /\ RingSize(send_tool') = RingSize(send_tool) + size
<1> DEFINE data == [k \in 1..size |-> StreamEnd + k - 1]
           w == RingWrite(send_tool, data, sendBase + RingSize(send_tool))
<1>1. /\ sendBase \in Nat /\ send_tool \in Ring /\ StreamEnd \in Nat
      /\ StreamEnd = sendBase + RingSize(send_tool)
      /\ send_tool.start = sendBase % SendCap
      /\ RingSize(send_tool) \in 0..(SendCap - 1)
  BY InvFacts
<1>2. size \in Nat /\ data \in Seq(Nat \cup {Unset}) /\ Len(data) = size
  BY <1>1
<1>3. RingRemain(send_tool) > size /\ send_tool' = RingWrite(send_tool, data, StreamEnd)
  BY DEF SenderWrite
<1> HIDE DEF data
<1>4. send_tool' = w
  BY <1>1, <1>3, Zenon
<1>5. Len(data) <= RingRemain(send_tool)
  BY <1>1, <1>2, <1>3, RingSizeRange DEF Ring
<1>6. GrownBy(w, send_tool, SendCap, Nat \cup {Unset}, Len(data))
  <2>1. send_tool \in RingOver(SendCap, Nat \cup {Unset}) /\ SendCap \in Nat \ {0}
    BY <1>1 DEF Ring
  <2> QED BY <1>1, <1>2, <1>5, <2>1, RingWriteAppends, Zenon
<1> QED BY <1>2, <1>4, <1>6 DEF GrownBy, Ring

LEMMA WriteStep ==
  ASSUME SenderInv, NEW size \in WriteSizes, SenderWrite(size)
  PROVE  SenderInv' /\ NewDataFitsWindow
<1> DEFINE z    == RingSize(send_tool)
           data == [k \in 1..size |-> StreamEnd + k - 1]
<1>1. size \in Nat
  OBVIOUS
<1>2. /\ nextSeqNum \in Nat /\ sendBase \in Nat /\ cwnd \in Nat
      /\ dest_rwnd \in 0..RwndMax /\ senderTimer \in BOOLEAN
      /\ send_tool \in Ring /\ z \in 0..(SendCap - 1)
      /\ StreamEnd = sendBase + z /\ StreamEnd \in Nat
      /\ sendBase <= nextSeqNum /\ nextSeqNum <= sendBase + z
      /\ send_tool.start = sendBase % SendCap
      /\ sendBase < nextSeqNum => senderTimer
      /\ InPlace(send_tool, sendBase, sendBase + z)
      /\ SegmentsIntact
  BY InvFacts
<1>3. data \in Seq(Nat \cup {Unset}) /\ Len(data) = size
  BY <1>1, <1>2
<1>4. /\ RingRemain(send_tool) > size
      /\ send_tool' = RingWrite(send_tool, data, StreamEnd)
      /\ SendNew(sendBase, send_tool', MinOf(dest_rwnd, cwnd))
      /\ UNCHANGED <<sendBase, dest_rwnd, congestionVars>>
  BY DEF SenderWrite
<1>5. RingRemain(send_tool) \in Nat /\ size <= RingRemain(send_tool)
  BY <1>1, <1>2, <1>4, RingSizeRange DEF Ring
<1>6. \A k \in 1..size : data[k] = sendBase + RingSize(send_tool) + k - 1
  BY <1>2
<1> HIDE DEF data
<1>7. /\ send_tool' \in Ring
      /\ send_tool'.start = send_tool.start
      /\ RingSize(send_tool') = z + size
  BY BufferGrows
<1>8. InPlace(send_tool', sendBase, sendBase + z + size)
  BY <1>1, <1>2, <1>3, <1>4, <1>5, <1>6, RingWriteKeeps DEF Ring
<1>9. sendBase' + RingSize(send_tool') = sendBase + z + size
  BY <1>1, <1>2, <1>4, <1>7
<1>10. /\ state' = state /\ cwnd' = cwnd /\ ssthresh' = ssthresh
       /\ duplicate_count' = duplicate_count
       /\ dest_rwnd' = dest_rwnd /\ sendBase' = sendBase
  BY <1>4 DEF congestionVars
<1>11. state \in {SlowStart, CongestionAvoidance, FastRecovery} /\ ssthresh \in Nat
       /\ duplicate_count \in Nat
  BY DEF SenderInv, SenderTypeOK
<1>12. SendNew(sendBase', send_tool', MinOf(dest_rwnd', cwnd'))
  BY <1>4, <1>10, Zenon
<1>13. /\ send_tool'.start = sendBase' % SendCap
       /\ InPlace(send_tool', sendBase', sendBase' + RingSize(send_tool'))
  BY <1>2, <1>7, <1>8, <1>9, <1>10
<1>14. /\ sendBase <= sendBase' /\ sendBase' <= nextSeqNum
       /\ nextSeqNum <= sendBase' + RingSize(send_tool')
  BY <1>1, <1>2, <1>9, <1>10
<1> QED BY <1>2, <1>7, <1>10, <1>11, <1>12, <1>13, <1>14, SendNewStep

\* An ACK of new data takes what it acknowledges out of the buffer.
LEMMA BufferShrinks ==
  ASSUME SenderInv, NEW ack \in Nat, NEW wnd, NewAck(ack, wnd)
  PROVE  /\ send_tool' \in Ring
         /\ send_tool'.start = ack % SendCap
         /\ send_tool'.cell = send_tool.cell
         /\ RingSize(send_tool') = RingSize(send_tool) - (ack - sendBase)
<1> DEFINE z == RingSize(send_tool)
           d == ack - sendBase
           m == RingMoveStart(send_tool, d, sendBase)
<1>1. /\ sendBase \in Nat /\ nextSeqNum \in Nat /\ z \in 0..(SendCap - 1)
      /\ nextSeqNum <= sendBase + z
      /\ send_tool \in RingOver(SendCap, Nat \cup {Unset})
      /\ send_tool.start = sendBase % SendCap
  BY InvFacts DEF Ring
<1>2. /\ sendBase < ack /\ ack <= nextSeqNum
      /\ send_tool' = m
  BY DEF NewAck
<1>3. d \in 0..z /\ sendBase + d = ack
  BY <1>1, <1>2
<1>4. d \in 0..RingSize(send_tool) /\ SendCap \in Nat \ {0}
  BY <1>3
<1> HIDE DEF d
<1>5. DroppedBy(m, send_tool, SendCap, Nat \cup {Unset}, sendBase, d)
  BY <1>1, <1>4, RingMoveStartDrops, Zenon
<1> QED BY <1>2, <1>3, <1>5 DEF DroppedBy, Ring, d

LEMMA NewAckStep ==
  ASSUME SenderInv, NEW ack \in Nat, NEW wnd \in Windows, NewAck(ack, wnd)
  PROVE  SenderInv' /\ NewDataFitsWindow
<1> DEFINE z == RingSize(send_tool)
           d == ack - sendBase
<1>1. /\ nextSeqNum \in Nat /\ sendBase \in Nat /\ cwnd \in Nat
      /\ ssthresh \in Nat /\ send_tool \in Ring /\ z \in 0..(SendCap - 1)
      /\ nextSeqNum <= sendBase + z
      /\ send_tool.start = sendBase % SendCap
      /\ InPlace(send_tool, sendBase, sendBase + z)
  BY InvFacts
<1>2. /\ sendBase < ack /\ ack <= nextSeqNum
      /\ dest_rwnd' = wnd
      /\ send_tool' = RingMoveStart(send_tool, ack - sendBase, sendBase)
      /\ sendBase' = ack
      /\ GrowSlowStart \/ GrowAvoidance \/ LeaveRecovery
      /\ duplicate_count' = 0
      /\ SendNew(ack, send_tool', MinOf(wnd, cwnd'))
      /\ ssthresh' = ssthresh
  BY DEF NewAck
<1>3. d \in 0..z /\ sendBase + d = ack /\ ack + (z - d) = sendBase + z
  BY <1>1, <1>2
<1>4. /\ send_tool' \in Ring
      /\ send_tool'.start = ack % SendCap
      /\ send_tool'.cell = send_tool.cell
      /\ RingSize(send_tool') = z - d
  BY BufferShrinks
<1>5. RingSize(send_tool') = z - d /\ sendBase' + RingSize(send_tool') = sendBase + z
  BY <1>2, <1>3, <1>4
<1>6. InPlace(send_tool', ack, sendBase + z)
  <2>1. send_tool.cap = SendCap /\ send_tool'.cap = SendCap
    BY <1>1, <1>4 DEF Ring, RingOver
  <2> SUFFICES ASSUME NEW p \in ack..((sendBase + z) - 1)
               PROVE  send_tool'.cell[p % send_tool'.cap] = p
    BY Zenon DEF InPlace
  <2>2. p \in sendBase..((sendBase + z) - 1)
    BY <1>1, <1>2
  <2>3. send_tool.cell[p % send_tool.cap] = p
    BY <1>1, <2>2 DEF InPlace
  <2> QED BY <1>4, <2>1, <2>3
<1>7. state' \in {SlowStart, CongestionAvoidance, FastRecovery} /\ cwnd' \in Nat
  <2>1. CASE GrowSlowStart
    BY <1>1, <2>1 DEF GrowSlowStart
  <2>2. CASE GrowAvoidance
    BY <1>1, <2>2, GainNat DEF GrowAvoidance
  <2>3. CASE LeaveRecovery
    BY <1>1, <2>3 DEF LeaveRecovery
  <2> QED BY <1>2, <2>1, <2>2, <2>3
<1>8. SendNew(sendBase', send_tool', MinOf(dest_rwnd', cwnd'))
  BY <1>2, Zenon
<1>9. /\ sendBase' \in Nat /\ sendBase <= sendBase' /\ sendBase' <= nextSeqNum
      /\ nextSeqNum <= sendBase' + RingSize(send_tool')
      /\ send_tool'.start = sendBase' % SendCap
      /\ duplicate_count' \in Nat /\ dest_rwnd' \in 0..RwndMax /\ ssthresh' \in Nat
  BY <1>1, <1>2, <1>4, <1>5
<1>10. InPlace(send_tool', sendBase', sendBase' + RingSize(send_tool'))
  BY <1>2, <1>5, <1>6
<1> QED BY <1>4, <1>7, <1>8, <1>9, <1>10, SendNewStep

LEMMA DuplicateStep ==
  ASSUME SenderInv, NEW ack \in Nat, NEW wnd \in Windows,
         \/ DuplicateAck(ack, wnd)
         \/ EnterFastRecovery(ack, wnd)
         \/ InflateInRecovery(ack, wnd)
  PROVE  SenderInv' /\ NewDataFitsWindow
<1>1. /\ nextSeqNum \in Nat /\ sendBase \in Nat /\ cwnd \in Nat
      /\ ssthresh \in Nat /\ duplicate_count \in Nat /\ senderTimer \in BOOLEAN
      /\ send_tool \in Ring
      /\ sendBase <= nextSeqNum /\ nextSeqNum <= sendBase + RingSize(send_tool)
      /\ send_tool.start = sendBase % SendCap
      /\ sendBase < nextSeqNum => senderTimer
      /\ InPlace(send_tool, sendBase, sendBase + RingSize(send_tool))
      /\ SegmentsIntact
  BY InvFacts
<1>2. /\ dest_rwnd' = wnd /\ duplicate_count' = duplicate_count + 1
      /\ sendBase' = sendBase /\ send_tool' = send_tool
  BY DEF DuplicateAck, EnterFastRecovery, InflateInRecovery, CountDuplicate
<1>3. dest_rwnd' \in 0..RwndMax /\ duplicate_count' \in Nat
  BY <1>1, <1>2
<1>4. CASE DuplicateAck(ack, wnd)
  <2>1. UNCHANGED <<state, cwnd, ssthresh, nextSeqNum, senderTimer, dataNet>>
    BY <1>4 DEF DuplicateAck
  <2>2. state \in {SlowStart, CongestionAvoidance, FastRecovery}
    BY DEF SenderInv, SenderTypeOK
  <2>3. SenderTypeOK'
    BY <1>1, <1>2, <1>3, <2>1, <2>2 DEF SenderTypeOK, Ring
  <2>4. TimerCoversOutstanding' /\ SegmentsIntact'
    BY <1>1, <1>2, <2>1 DEF TimerCoversOutstanding, SegmentsIntact, Intact
  <2>5. NewDataFitsWindow
    BY <1>1, <2>1 DEF NewDataFitsWindow
  <2> QED BY <1>1, <1>2, <2>1, <2>3, <2>4, <2>5, SameWindow
<1>5. CASE EnterFastRecovery(ack, wnd)
  <2>1. /\ ssthresh' = cwnd \div 2 /\ cwnd' = ssthresh' + 3 * MSS
        /\ state' = FastRecovery /\ FastRetransmit
        /\ UNCHANGED <<nextSeqNum, senderTimer>>
    BY <1>5 DEF EnterFastRecovery
  <2>2. ssthresh' \in Nat
    BY <1>1, <2>1, HalfNat
  <2>3. cwnd' \in Nat
    BY <2>1, <2>2
  <2>4. SenderTypeOK'
    BY <1>1, <1>2, <1>3, <2>1, <2>2, <2>3 DEF SenderTypeOK, Ring
  <2>5. TimerCoversOutstanding'
    BY <1>1, <1>2, <2>1 DEF TimerCoversOutstanding
  <2>6. SegmentsIntact'
    BY <2>1, FastRetransmitIntact
  <2>7. NewDataFitsWindow
    BY <1>1, <2>1 DEF NewDataFitsWindow
  <2> QED BY <1>1, <1>2, <2>1, <2>4, <2>5, <2>6, <2>7, SameWindow
<1>6. CASE InflateInRecovery(ack, wnd)
  <2>1. /\ cwnd' = cwnd + MSS
        /\ SendNew(sendBase, send_tool, MinOf(wnd, cwnd'))
        /\ state' = state /\ ssthresh' = ssthresh
    BY <1>6 DEF InflateInRecovery
  <2>2. SendNew(sendBase', send_tool', MinOf(dest_rwnd', cwnd'))
    BY <1>2, <2>1, Zenon
  <2>3. state \in {SlowStart, CongestionAvoidance, FastRecovery}
    BY DEF SenderInv, SenderTypeOK
  <2>4. /\ sendBase' \in Nat /\ send_tool' \in Ring /\ cwnd' \in Nat
        /\ ssthresh' \in Nat
        /\ state' \in {SlowStart, CongestionAvoidance, FastRecovery}
        /\ sendBase <= sendBase' /\ sendBase' <= nextSeqNum
        /\ nextSeqNum <= sendBase' + RingSize(send_tool')
        /\ send_tool'.start = sendBase' % SendCap
        /\ InPlace(send_tool', sendBase', sendBase' + RingSize(send_tool'))
    BY <1>1, <1>2, <2>1, <2>3
  <2> QED BY <1>3, <2>2, <2>4, SendNewStep
<1> QED BY <1>4, <1>5, <1>6

LEMMA TimerStep ==
  ASSUME SenderInv, TimerFires
  PROVE  SenderInv' /\ NewDataFitsWindow
<1>1. /\ senderTimer = TRUE
      /\ ssthresh' = cwnd \div 2 /\ cwnd' = MSS /\ duplicate_count' = 0
      /\ state' = SlowStart /\ FastRetransmit
      /\ senderTimer' = ~(sendBase = nextSeqNum /\ RingSize(send_tool) = 0)
      /\ UNCHANGED <<nextSeqNum, sendBase, dest_rwnd, send_tool>>
  BY InvFacts DEF TimerFires
<1>2. /\ nextSeqNum \in Nat /\ sendBase \in Nat /\ cwnd \in Nat
      /\ dest_rwnd \in 0..RwndMax /\ send_tool \in Ring
  BY InvFacts
<1>3. ssthresh' \in Nat
  BY <1>1, <1>2, HalfNat
<1>4. senderTimer' \in BOOLEAN
  BY <1>1
<1>5. SenderTypeOK'
  BY <1>1, <1>2, <1>3, <1>4 DEF SenderTypeOK, Ring
<1>6. TimerCoversOutstanding'
  <2>1. sendBase' < nextSeqNum' => sendBase # nextSeqNum
    BY <1>1, <1>2
  <2> QED BY <1>1, <2>1, Zenon DEF TimerCoversOutstanding
<1>7. SegmentsIntact'
  BY <1>1, FastRetransmitIntact
<1>8. NewDataFitsWindow
  BY <1>1, <1>2 DEF NewDataFitsWindow
<1> QED BY <1>1, <1>5, <1>6, <1>7, <1>8, SameWindow

\* Losing a segment, delivering one, and steps of other parts.
LEMMA FrameStep ==
  ASSUME SenderInv, UNCHANGED sendVars, dataNet' \subseteq dataNet
  PROVE  SenderInv' /\ NewDataFitsWindow
<1>1. /\ state' = state /\ nextSeqNum' = nextSeqNum /\ sendBase' = sendBase
      /\ cwnd' = cwnd /\ ssthresh' = ssthresh /\ dest_rwnd' = dest_rwnd
      /\ duplicate_count' = duplicate_count /\ senderTimer' = senderTimer
      /\ send_tool' = send_tool
  BY DEF sendVars, congestionVars
<1>2. SenderTypeOK' /\ TimerCoversOutstanding'
  BY <1>1 DEF SenderInv, SenderTypeOK, TimerCoversOutstanding
<1>3. SegmentsIntact'
  BY DEF SenderInv, SegmentsIntact, Intact
<1>4. NewDataFitsWindow
  BY <1>1, InvFacts DEF NewDataFitsWindow
<1> QED BY <1>1, <1>2, <1>3, <1>4, SameWindow

LEMMA NextStep ==
  ASSUME SenderInv, [Next]_senderVars
  PROVE  SenderInv' /\ (NewDataFitsWindow \/ UNCHANGED senderVars)
<1>1. ASSUME NEW size \in WriteSizes, SenderWrite(size)
      PROVE  SenderInv' /\ NewDataFitsWindow
  BY <1>1, WriteStep
<1>2. CASE AckArrives
  <2>1. PICK ack \in ISS..(ISS + MaxBytes), wnd \in Windows : HandleAck(ack, wnd)
    BY <1>2 DEF AckArrives
  <2>2. ack \in Nat
    OBVIOUS
  <2>3. CASE NewAck(ack, wnd)
    BY <2>2, <2>3, NewAckStep
  <2>4. CASE \/ DuplicateAck(ack, wnd)
             \/ EnterFastRecovery(ack, wnd)
             \/ InflateInRecovery(ack, wnd)
    BY <2>2, <2>4, DuplicateStep
  <2> QED BY <2>1, <2>3, <2>4 DEF HandleAck
<1>3. CASE TimerFires
  BY <1>3, TimerStep
<1>4. CASE DataLeaves
  BY <1>4, FrameStep DEF DataLeaves
<1>5. CASE UNCHANGED senderVars
  BY <1>5, FrameStep DEF senderVars
<1> QED BY <1>1, <1>2, <1>3, <1>4, <1>5 DEF Next
-----------------------------------------------------------------------------
(* Theorems.                                                               *)

\* The sender's sequence numbers, ring, timer and segments, for every MSS,
\* buffer, window and stream.
THEOREM SenderInvariant == Spec => []SenderInv
<1>1. Init => SenderInv
  BY InitInv
<1>2. SenderInv /\ [Next]_senderVars => SenderInv'
  BY NextStep
<1> QED BY <1>1, <1>2, PTL DEF Spec

\* Every field keeps its type: cwnd stays a natural number although halving it
\* can make it 0, which the growth formula then divides by.
THEOREM SenderTypes == Spec => []SenderTypeOK
<1>1. SenderInv => SenderTypeOK
  BY DEF SenderInv
<1> QED BY <1>1, SenderInvariant, PTL

\* Sequence numbers and ring indexes agree in every state.
THEOREM WindowIsOrdered == Spec => []WindowOrdered
<1>1. SenderInv => WindowOrdered
  BY DEF SenderInv
<1> QED BY <1>1, SenderInvariant, PTL

\* Outstanding data always has the retransmission interval behind it.
THEOREM OutstandingIsTimed == Spec => []TimerCoversOutstanding
<1>1. SenderInv => TimerCoversOutstanding
  BY DEF SenderInv
<1> QED BY <1>1, SenderInvariant, PTL

\* No unacknowledged byte is overwritten in the ring.
THEOREM UnackedStaysInPlace == Spec => []UnackedInPlace
<1>1. SenderInv => UnackedInPlace
  BY DEF SenderInv
<1> QED BY <1>1, SenderInvariant, PTL

\* Every segment, first sent or retransmitted, carries the bytes of its place.
THEOREM EverySegmentIntact == Spec => []SegmentsIntact
<1>1. SenderInv => SegmentsIntact
  BY DEF SenderInv
<1> QED BY <1>1, SenderInvariant, PTL

\* No step sends new data beyond the congestion window or the peer's window.
THEOREM NewDataFits == Spec => FlightFitsWindow
<1>1. SenderInv /\ [Next]_senderVars => [NewDataFitsWindow]_senderVars
  BY NextStep
<1> QED BY <1>1, SenderInvariant, PTL DEF Spec, FlightFitsWindow
-----------------------------------------------------------------------------
(* Congestion control.                                                     *)

CongestionInv == SenderTypeOK /\ RecoveryCounted /\ SlowStartBelowThreshold

LEMMA DuplicatesKeepCongestion ==
  ASSUME CongestionInv, NEW ack, NEW wnd,
         \/ DuplicateAck(ack, wnd)
         \/ EnterFastRecovery(ack, wnd)
         \/ InflateInRecovery(ack, wnd)
  PROVE  RecoveryCounted' /\ SlowStartBelowThreshold'
<1> USE DEF SlowStart, CongestionAvoidance, FastRecovery
<1>1. /\ duplicate_count \in Nat /\ duplicate_count' = duplicate_count + 1
      /\ state = FastRecovery <=> duplicate_count >= 3
      /\ state = SlowStart => cwnd < ssthresh \/ cwnd = MSS
  BY DEF CongestionInv, SenderTypeOK, RecoveryCounted, SlowStartBelowThreshold,
         DuplicateAck, EnterFastRecovery, InflateInRecovery, CountDuplicate
<1>2. CASE DuplicateAck(ack, wnd)
  BY <1>1, <1>2 DEF DuplicateAck, ThirdDuplicate, RecoveryCounted, SlowStartBelowThreshold
<1>3. CASE EnterFastRecovery(ack, wnd)
  BY <1>1, <1>3 DEF EnterFastRecovery, ThirdDuplicate, RecoveryCounted,
                    SlowStartBelowThreshold
<1>4. CASE InflateInRecovery(ack, wnd)
  BY <1>1, <1>4 DEF InflateInRecovery, RecoveryCounted, SlowStartBelowThreshold
<1> QED BY <1>2, <1>3, <1>4

LEMMA NewAckKeepsCongestion ==
  ASSUME CongestionInv, NEW ack, NEW wnd, NewAck(ack, wnd)
  PROVE  RecoveryCounted' /\ SlowStartBelowThreshold'
<1> USE DEF SlowStart, CongestionAvoidance, FastRecovery
<1>1. /\ ssthresh' = ssthresh /\ cwnd \in Nat /\ ssthresh \in Nat
      /\ duplicate_count' = 0
  BY DEF NewAck, CongestionInv, SenderTypeOK
<1>2. CASE GrowSlowStart
  BY <1>1, <1>2 DEF GrowSlowStart, RecoveryCounted, SlowStartBelowThreshold
<1>3. CASE GrowAvoidance
  BY <1>1, <1>3 DEF GrowAvoidance, RecoveryCounted, SlowStartBelowThreshold
<1>4. CASE LeaveRecovery
  BY <1>1, <1>4 DEF LeaveRecovery, RecoveryCounted, SlowStartBelowThreshold
<1> QED BY <1>2, <1>3, <1>4 DEF NewAck

LEMMA CongestionStep ==
  ASSUME SenderInv, CongestionInv, [Next]_senderVars
  PROVE  CongestionInv'
<1>1. SenderTypeOK'
  BY NextStep DEF SenderInv
<1>2. ASSUME NEW size \in WriteSizes, SenderWrite(size)
      PROVE  UNCHANGED congestionVars
  BY <1>2 DEF SenderWrite
<1>3. CASE UNCHANGED congestionVars
  BY <1>1, <1>3 DEF CongestionInv, RecoveryCounted, SlowStartBelowThreshold,
                    congestionVars
<1>4. CASE AckArrives
  <2>1. PICK ack \in ISS..(ISS + MaxBytes), wnd \in Windows : HandleAck(ack, wnd)
    BY <1>4 DEF AckArrives
  <2> QED BY <1>1, <2>1, NewAckKeepsCongestion, DuplicatesKeepCongestion
          DEF HandleAck, CongestionInv
<1>5. CASE TimerFires
  BY <1>1, <1>5 DEF TimerFires, CongestionInv, RecoveryCounted,
                    SlowStartBelowThreshold, SlowStart, FastRecovery
<1>6. CASE DataLeaves
  BY <1>3, <1>6 DEF DataLeaves, sendVars
<1>7. CASE UNCHANGED senderVars
  BY <1>3, <1>7 DEF senderVars, sendVars
<1> QED BY <1>2, <1>3, <1>4, <1>5, <1>6, <1>7 DEF Next

\* Congestion control keeps its bookkeeping in every state.
THEOREM CongestionInvariant == Spec => []CongestionInv
<1>1. Init => CongestionInv
  <2> SUFFICES ASSUME Init
               PROVE  CongestionInv
    OBVIOUS
  <2>1. SenderTypeOK
    BY InitInv DEF SenderInv
  <2>2. state = SlowStart /\ cwnd = MSS /\ ~(duplicate_count >= 3)
    BY DEF Init
  <2> QED BY <2>1, <2>2 DEF CongestionInv, RecoveryCounted,
                            SlowStartBelowThreshold, SlowStart, FastRecovery
<1>2. SenderInv /\ CongestionInv /\ [Next]_senderVars => CongestionInv'
  BY CongestionStep
<1> QED BY <1>1, <1>2, SenderInvariant, PTL DEF Spec

\* tcp_duplex: the connection is in fast recovery exactly while three duplicates
\* or more are on record.
THEOREM RecoveryIsCounted == Spec => []RecoveryCounted
<1>1. CongestionInv => RecoveryCounted
  BY DEF CongestionInv
<1> QED BY <1>1, CongestionInvariant, PTL

\* In slow start the window is below its threshold, or of one segment, whatever
\* timeouts and recoveries have come before.
THEOREM SlowStartIsBelow == Spec => []SlowStartBelowThreshold
<1>1. CongestionInv => SlowStartBelowThreshold
  BY DEF CongestionInv
<1> QED BY <1>1, CongestionInvariant, PTL
-----------------------------------------------------------------------------
(* What the peer can be sent: bytes of the stream before nextSeqNum.       *)

\* m has a place in the stream, before position next, and is not empty.
SegmentBefore(m, next) ==
  /\ m.seq \in Nat /\ ISS <= m.seq
  /\ m.data \in Seq(Nat \cup {Unset}) /\ Len(m.data) > 0
  /\ m.seq + Len(m.data) <= next

SentInv ==
  /\ SenderInv
  /\ ISS <= sendBase
  /\ StreamEnd <= ISS + MaxBytes
  /\ \A m \in dataNet : SegmentBefore(m, nextSeqNum)

LEMMA SegmentsBefore ==
  ASSUME NEW buf \in Ring, NEW from \in Nat, NEW to \in Int, ISS <= from,
         NEW m \in Segments(buf, from, to)
  PROVE  SegmentBefore(m, to)
<1>1. PICK s \in from..(to - 1) :
        m = [seq |-> s, data |-> RingCopy(buf, MinOf(MSS, to - s), s)]
  BY DEF Segments
<1> DEFINE n == MinOf(MSS, to - s)
<1>2. n \in Nat /\ n > 0 /\ n <= to - s /\ s \in Nat /\ ISS <= s
  BY <1>1 DEF MinOf
<1>3. m.seq = s /\ m.data = RingCopy(buf, n, s)
  BY <1>1
<1> HIDE DEF n
<1>4. /\ buf.cap = SendCap
      /\ \A j \in 0..(SendCap - 1) : buf.cell[j] \in Nat \cup {Unset}
  BY DEF Ring, RingOver
<1>5. ASSUME NEW k \in 1..n
      PROVE  buf.cell[(s + k - 1) % buf.cap] \in Nat \cup {Unset}
  <2>1. (s + k - 1) % SendCap \in 0..(SendCap - 1)
    BY <1>2, ModRange
  <2> QED BY <1>4, <2>1
<1>6. m.data = [k \in 1..n |-> buf.cell[(s + k - 1) % buf.cap]]
  BY <1>3 DEF RingCopy
<1>7. m.data \in Seq(Nat \cup {Unset}) /\ Len(m.data) = n
  BY <1>2, <1>5, <1>6
<1> QED BY <1>1, <1>2, <1>3, <1>7 DEF SegmentBefore

\* nextSeqNum moves forward, and what is on the way was there or is new.
LEMMA EmitBefore ==
  ASSUME SentInv, nextSeqNum' \in Nat, nextSeqNum <= nextSeqNum',
         NEW segs, \A m \in segs : SegmentBefore(m, nextSeqNum'),
         Emit(segs)
  PROVE  \A m \in dataNet' : SegmentBefore(m, nextSeqNum')
<1>1. PICK kept \in SUBSET (dataNet \cup segs) : dataNet' = kept
  BY DEF Emit
<1>2. nextSeqNum \in Nat
  BY InvFacts DEF SentInv
<1>3. ASSUME NEW m, SegmentBefore(m, nextSeqNum) PROVE SegmentBefore(m, nextSeqNum')
  BY <1>2, <1>3 DEF SegmentBefore
<1> QED BY <1>1, <1>3 DEF SentInv

LEMMA SendNewBefore ==
  ASSUME SentInv, NEW base \in Nat, NEW buf \in Ring, NEW window \in Nat,
         SendNew(base, buf, window)
  PROVE  /\ nextSeqNum <= nextSeqNum'
         /\ \A m \in dataNet' : SegmentBefore(m, nextSeqNum')
<1> DEFINE send_end == SendEnd(base, buf, window)
           segs == Segments(buf, nextSeqNum, send_end)
<1>1. nextSeqNum \in Nat /\ sendBase \in Nat /\ ISS <= sendBase /\ sendBase <= nextSeqNum
  BY InvFacts DEF SentInv
<1>2. nextSeqNum' = MaxOf(nextSeqNum, send_end) /\ Emit(segs)
  BY DEF SendNew
<1>3. send_end \in Int
  <2>1. RingSize(buf) \in Nat
    BY RingSizeRange DEF Ring
  <2> QED BY <2>1 DEF SendEnd, MinOf
<1>4. \A m \in segs : SegmentBefore(m, send_end)
  BY <1>1, <1>3, SegmentsBefore
<1> HIDE DEF send_end, segs
<1>5. nextSeqNum' \in Nat /\ nextSeqNum <= nextSeqNum' /\ send_end <= nextSeqNum'
  BY <1>1, <1>2, <1>3 DEF MaxOf
<1>6. ASSUME NEW m \in segs PROVE SegmentBefore(m, nextSeqNum')
  <2>1. SegmentBefore(m, send_end)
    BY <1>4
  <2> QED BY <1>3, <1>5, <2>1 DEF SegmentBefore
<1> QED BY <1>2, <1>5, <1>6, EmitBefore

LEMMA FastRetransmitBefore ==
  ASSUME SentInv, FastRetransmit, UNCHANGED nextSeqNum
  PROVE  \A m \in dataNet' : SegmentBefore(m, nextSeqNum')
<1> DEFINE segs == Segments(send_tool, sendBase, nextSeqNum)
<1>1. nextSeqNum \in Nat /\ sendBase \in Nat /\ ISS <= sendBase /\ send_tool \in Ring
  BY InvFacts DEF SentInv
<1>2. \A m \in segs : SegmentBefore(m, nextSeqNum)
  BY <1>1, SegmentsBefore
<1>3. Emit(segs) /\ nextSeqNum' = nextSeqNum
  BY DEF FastRetransmit
<1> HIDE DEF segs
<1> QED BY <1>1, <1>2, <1>3, EmitBefore

LEMMA InitSent ==
  ASSUME Init
  PROVE  SentInv /\ StreamEnd = ISS
<1>1. SenderInv
  BY InitInv
<1>2. sendBase = ISS /\ dataNet = {} /\ send_tool = RingClear(RingNew(SendCap), ISS)
  BY DEF Init
<1>3. send_tool.start = send_tool.end
  BY <1>2 DEF RingClear, RingNew
<1>4. RingSize(send_tool) = 0
  <2>1. send_tool \in Ring
    BY <1>1, InvFacts
  <2> QED BY <1>3, <2>1 DEF RingSize, Ring, RingOver
<1>5. StreamEnd = ISS
  BY <1>2, <1>4 DEF StreamEnd
<1> QED BY <1>1, <1>2, <1>5 DEF SentInv

\* What a step tells the other end: which bytes were accepted and sent, and how
\* far the windows allow.
Sends(base, window, end) ==
  /\ SentInv'
  /\ NewDataFitsWindow
  /\ nextSeqNum <= nextSeqNum'
  /\ sendBase' = base
  /\ dest_rwnd' = window
  /\ StreamEnd' = end

LEMMA WriteSends ==
  ASSUME SentInv, NEW size \in WriteSizes, SenderWrite(size)
  PROVE  Sends(sendBase, dest_rwnd, StreamEnd + size)
<1>1. SenderInv' /\ NewDataFitsWindow
  BY WriteStep DEF SentInv
<1>2. /\ StreamEnd + size <= ISS + MaxBytes
      /\ SendNew(sendBase, send_tool', MinOf(dest_rwnd, cwnd))
      /\ sendBase' = sendBase /\ dest_rwnd' = dest_rwnd
  BY DEF SenderWrite
<1>3. send_tool' \in Ring /\ RingSize(send_tool') = RingSize(send_tool) + size
  BY BufferGrows DEF SentInv
<1>4. /\ sendBase \in Nat /\ RingSize(send_tool) \in Nat /\ size \in Nat
      /\ StreamEnd = sendBase + RingSize(send_tool)
      /\ MinOf(dest_rwnd, cwnd) \in Nat
  BY InvFacts DEF SentInv, MinOf
<1>5. StreamEnd' = sendBase' + RingSize(send_tool')
  BY DEF StreamEnd
<1>6. StreamEnd' = StreamEnd + size
  BY <1>2, <1>3, <1>4, <1>5
<1>7. nextSeqNum <= nextSeqNum' /\ \A m \in dataNet' : SegmentBefore(m, nextSeqNum')
  BY <1>2, <1>3, <1>4, SendNewBefore
<1>8. SentInv'
  BY <1>1, <1>2, <1>6, <1>7 DEF SentInv, SegmentBefore
<1> QED BY <1>1, <1>2, <1>6, <1>7, <1>8 DEF Sends

LEMMA TimerSends ==
  ASSUME SentInv, TimerFires
  PROVE  Sends(sendBase, dest_rwnd, StreamEnd)
<1>1. SenderInv' /\ NewDataFitsWindow
  BY TimerStep DEF SentInv
<1>2. FastRetransmit /\ UNCHANGED <<nextSeqNum, sendBase, dest_rwnd, send_tool>>
  BY DEF TimerFires
<1>3. \A m \in dataNet' : SegmentBefore(m, nextSeqNum')
  BY <1>2, FastRetransmitBefore
<1>4. StreamEnd' = StreamEnd
  BY <1>2 DEF StreamEnd
<1>5. SentInv'
  BY <1>1, <1>2, <1>3, <1>4 DEF SentInv, SegmentBefore
<1>6. nextSeqNum <= nextSeqNum'
  BY <1>2, InvFacts DEF SentInv
<1> QED BY <1>1, <1>2, <1>4, <1>5, <1>6 DEF Sends

LEMMA AckSends ==
  ASSUME SentInv, NEW ack \in Nat, NEW wnd \in Windows, HandleAck(ack, wnd)
  PROVE  Sends(ack, wnd, StreamEnd)
<1>1. SenderInv /\ ISS <= sendBase /\ StreamEnd <= ISS + MaxBytes
  BY DEF SentInv
<1>2. /\ nextSeqNum \in Nat /\ sendBase \in Nat /\ StreamEnd = sendBase + RingSize(send_tool)
      /\ RingSize(send_tool) \in Nat /\ send_tool \in Ring /\ cwnd \in Nat
  BY <1>1, InvFacts
<1>3. SenderInv' /\ NewDataFitsWindow
  <2>1. CASE NewAck(ack, wnd)
    BY <1>1, <2>1, NewAckStep
  <2>2. CASE \/ DuplicateAck(ack, wnd)
             \/ EnterFastRecovery(ack, wnd)
             \/ InflateInRecovery(ack, wnd)
    BY <1>1, <2>2, DuplicateStep
  <2> QED BY <2>1, <2>2 DEF HandleAck
<1>4. StreamEnd' = sendBase' + RingSize(send_tool')
  BY DEF StreamEnd
<1> DEFINE Before == \A m \in dataNet' : SegmentBefore(m, nextSeqNum')
<1>5. ASSUME NewAck(ack, wnd)
      PROVE  /\ sendBase' = ack /\ dest_rwnd' = wnd /\ StreamEnd' = StreamEnd
             /\ nextSeqNum <= nextSeqNum' /\ sendBase <= ack /\ Before
  <2>1. /\ sendBase' = ack /\ dest_rwnd' = wnd /\ sendBase < ack
        /\ SendNew(ack, send_tool', MinOf(wnd, cwnd'))
    BY <1>5 DEF NewAck
  <2>2. send_tool' \in Ring /\ RingSize(send_tool') = RingSize(send_tool) - (ack - sendBase)
    BY <1>1, <1>5, BufferShrinks
  <2>3. MinOf(wnd, cwnd') \in Nat
    <3>1. cwnd' \in Nat
      BY <1>3 DEF SenderInv, SenderTypeOK
    <3> QED BY <3>1 DEF MinOf
  <2>4. nextSeqNum <= nextSeqNum' /\ Before
    BY <2>1, <2>2, <2>3, SendNewBefore
  <2> QED BY <1>2, <1>4, <2>1, <2>2, <2>4
<1>6. ASSUME \/ DuplicateAck(ack, wnd)
             \/ EnterFastRecovery(ack, wnd)
             \/ InflateInRecovery(ack, wnd)
      PROVE  /\ sendBase' = ack /\ dest_rwnd' = wnd /\ StreamEnd' = StreamEnd
             /\ nextSeqNum <= nextSeqNum' /\ sendBase <= ack /\ Before
  <2>1. /\ ack = sendBase /\ sendBase' = sendBase /\ dest_rwnd' = wnd
        /\ send_tool' = send_tool
    BY <1>6 DEF DuplicateAck, EnterFastRecovery, InflateInRecovery, CountDuplicate
  <2>2. CASE DuplicateAck(ack, wnd)
    <3>1. nextSeqNum' = nextSeqNum /\ dataNet' = dataNet
      BY <2>2 DEF DuplicateAck
    <3> QED BY <1>2, <1>4, <2>1, <3>1 DEF SentInv
  <2>3. CASE EnterFastRecovery(ack, wnd)
    <3>1. nextSeqNum' = nextSeqNum /\ FastRetransmit
      BY <2>3 DEF EnterFastRecovery
    <3>2. Before
      BY <3>1, FastRetransmitBefore
    <3> QED BY <1>2, <1>4, <2>1, <3>1, <3>2
  <2>4. CASE InflateInRecovery(ack, wnd)
    <3>1. cwnd' = cwnd + MSS /\ SendNew(sendBase, send_tool, MinOf(wnd, cwnd'))
      BY <2>4 DEF InflateInRecovery
    <3>2. MinOf(wnd, cwnd') \in Nat
      BY <1>2, <3>1 DEF MinOf
    <3>3. nextSeqNum <= nextSeqNum' /\ Before
      BY <1>2, <3>1, <3>2, SendNewBefore
    <3> QED BY <1>2, <1>4, <2>1, <3>3
  <2> QED BY <1>6, <2>2, <2>3, <2>4
<1>7. /\ sendBase' = ack /\ dest_rwnd' = wnd /\ StreamEnd' = StreamEnd
      /\ nextSeqNum <= nextSeqNum' /\ sendBase <= ack /\ Before
  BY <1>5, <1>6 DEF HandleAck
<1>8. SentInv'
  BY <1>1, <1>2, <1>3, <1>7 DEF SentInv, SegmentBefore
<1> QED BY <1>3, <1>7, <1>8 DEF Sends

\* Segments that are lost or delivered, and steps of the other end.
LEMMA FrameSends ==
  ASSUME SentInv, UNCHANGED sendVars, dataNet' \subseteq dataNet
  PROVE  SentInv' /\ StreamEnd' = StreamEnd
<1>1. SenderInv'
  BY FrameStep DEF SentInv
<1>2. sendBase' = sendBase /\ nextSeqNum' = nextSeqNum /\ send_tool' = send_tool
  BY DEF sendVars
<1>3. StreamEnd' = StreamEnd
  BY <1>2 DEF StreamEnd
<1> QED BY <1>1, <1>2, <1>3 DEF SentInv, SegmentBefore
=============================================================================
