-------------------------- MODULE ConnectionProofs --------------------------
(***************************************************************************)
(* What holds end to end, proved for every value of the constants: the two *)
(* ends' numbers agree, flow control holds, what has not arrived is kept,  *)
(* and the connection implements the reliable stream.  As at the receiver  *)
(* alone, this needs that expectSeqNum does not move back                  *)
(* (WindowNeverBack), which addSection does not guarantee.                 *)
(***************************************************************************)
EXTENDS Connection, TLAPS

\* The two halves, with what is proved of them.
SP == INSTANCE SenderProofs WITH Windows <- 0..RwndMax
RP == INSTANCE ReceiverProofs WITH Arrivals <- {}

\* "move slide" (receiver.cpp:10): the receiver's window never moves back, on
\* the segments that this sender sends and sends again.
WindowNeverBack == [][expectSeqNum' >= expectSeqNum]_vars
-----------------------------------------------------------------------------
(* The halves of Connection are the halves that the lemmas are about.      *)

LEMMA SenderConstants == SP!ConstantsAssumption
BY ConnectionAssumption DEF SP!ConstantsAssumption

LEMMA ReceiverConstants == RP!RecvConstantsAssumption
BY ConnectionAssumption DEF RP!RecvConstantsAssumption

LEMMA SameStreamEnd == S!StreamEnd = SP!StreamEnd
BY Zenon DEF S!StreamEnd, SP!StreamEnd, S!RingSize, SP!RingSize

LEMMA SameStreamEndNext == S!StreamEnd' = SP!StreamEnd'
BY Zenon DEF S!StreamEnd, SP!StreamEnd, S!RingSize, SP!RingSize

LEMMA SameRingWrite ==
  ASSUME NEW b, NEW data, NEW pos
  PROVE  S!RingWrite(b, data, pos) = SP!RingWrite(b, data, pos)
BY Zenon DEF S!RingWrite, SP!RingWrite, S!RingWriteFits, SP!RingWriteFits,
             S!RingRemain, SP!RingRemain, S!RingSize, SP!RingSize,
             S!Unrolled, SP!Unrolled, S!PseudoEnd, SP!PseudoEnd, S!MaxOf, SP!MaxOf

LEMMA SameMoveStart ==
  ASSUME NEW b, NEW n, NEW pos
  PROVE  S!RingMoveStart(b, n, pos) = SP!RingMoveStart(b, n, pos)
BY Zenon DEF S!RingMoveStart, SP!RingMoveStart, S!RingHolds, SP!RingHolds,
             S!Unrolled, SP!Unrolled, S!PseudoEnd, SP!PseudoEnd

LEMMA SameEmit ==
  ASSUME NEW segs
  PROVE  S!Emit(segs) <=> SP!Emit(segs)
BY Zenon DEF S!Emit, SP!Emit, S!Cardinality, SP!Cardinality

LEMMA SameSegments ==
  ASSUME NEW b, NEW from, NEW to
  PROVE  S!Segments(b, from, to) = SP!Segments(b, from, to)
BY Zenon DEF S!Segments, SP!Segments, S!RingCopy, SP!RingCopy, S!MinOf, SP!MinOf

LEMMA SameSendNew ==
  ASSUME NEW base, NEW b, NEW window
  PROVE  S!SendNew(base, b, window) <=> SP!SendNew(base, b, window)
<1>1. S!SendEnd(base, b, window) = SP!SendEnd(base, b, window)
  BY Zenon DEF S!SendEnd, SP!SendEnd, S!MinOf, SP!MinOf, S!RingSize, SP!RingSize
<1> QED BY <1>1, SameEmit, SameSegments, Zenon
        DEF S!SendNew, SP!SendNew, S!MaxOf, SP!MaxOf

LEMMA SameFastRetransmit == S!FastRetransmit <=> SP!FastRetransmit
BY SameEmit, SameSegments, Zenon DEF S!FastRetransmit, SP!FastRetransmit

LEMMA SameWrite ==
  ASSUME NEW size
  PROVE  S!SenderWrite(size) <=> SP!SenderWrite(size)
BY SameRingWrite, SameSendNew, SameStreamEnd, Zenon
   DEF S!SenderWrite, SP!SenderWrite, S!RingRemain, SP!RingRemain,
       S!RingSize, SP!RingSize, S!MinOf, SP!MinOf,
       S!congestionVars, SP!congestionVars

LEMMA SameTimer == S!TimerFires <=> SP!TimerFires
BY SameFastRetransmit, Zenon
   DEF S!TimerFires, SP!TimerFires, S!RingSize, SP!RingSize, S!SlowStart, SP!SlowStart

LEMMA SameNewAck ==
  ASSUME NEW ack, NEW wnd
  PROVE  S!NewAck(ack, wnd) <=> SP!NewAck(ack, wnd)
<1>1. /\ S!GrowSlowStart <=> SP!GrowSlowStart
      /\ S!GrowAvoidance <=> SP!GrowAvoidance
      /\ S!LeaveRecovery <=> SP!LeaveRecovery
  BY Zenon DEF S!GrowSlowStart, SP!GrowSlowStart, S!GrowAvoidance, SP!GrowAvoidance,
               S!LeaveRecovery, SP!LeaveRecovery, S!SlowStart, SP!SlowStart,
               S!CongestionAvoidance, SP!CongestionAvoidance,
               S!FastRecovery, SP!FastRecovery, S!Gain, SP!Gain
<1> QED BY <1>1, SameMoveStart, SameSendNew, Zenon
        DEF S!NewAck, SP!NewAck, S!MinOf, SP!MinOf

LEMMA SameHandleAck ==
  ASSUME NEW ack, NEW wnd
  PROVE  S!HandleAck(ack, wnd) <=> SP!HandleAck(ack, wnd)
<1>1. S!CountDuplicate(ack, wnd) <=> SP!CountDuplicate(ack, wnd)
  BY Zenon DEF S!CountDuplicate, SP!CountDuplicate
<1>2. S!DuplicateAck(ack, wnd) <=> SP!DuplicateAck(ack, wnd)
  BY <1>1, Zenon DEF S!DuplicateAck, SP!DuplicateAck, S!ThirdDuplicate, SP!ThirdDuplicate,
                     S!FastRecovery, SP!FastRecovery
<1>3. S!EnterFastRecovery(ack, wnd) <=> SP!EnterFastRecovery(ack, wnd)
  BY <1>1, SameFastRetransmit, Zenon
     DEF S!EnterFastRecovery, SP!EnterFastRecovery, S!ThirdDuplicate, SP!ThirdDuplicate,
         S!FastRecovery, SP!FastRecovery
<1>4. S!InflateInRecovery(ack, wnd) <=> SP!InflateInRecovery(ack, wnd)
  BY <1>1, SameSendNew, Zenon
     DEF S!InflateInRecovery, SP!InflateInRecovery, S!FastRecovery, SP!FastRecovery,
         S!MinOf, SP!MinOf
<1> QED BY <1>2, <1>3, <1>4, SameNewAck, Zenon DEF S!HandleAck, SP!HandleAck

LEMMA SameSenderInit == S!Init <=> SP!Init
BY Zenon DEF S!Init, SP!Init, S!SlowStart, SP!SlowStart, S!RingClear, SP!RingClear,
             S!RingNew, SP!RingNew, S!Unset, SP!Unset

LEMMA SameWriteIn ==
  ASSUME NEW b, NEW data, NEW pos
  PROVE  R!RingWrite(b, data, pos) = RP!RingWrite(b, data, pos)
BY Zenon DEF R!RingWrite, RP!RingWrite, R!RingWriteFits, RP!RingWriteFits,
             R!RingRemain, RP!RingRemain, R!RingSize, RP!RingSize,
             R!Unrolled, RP!Unrolled, R!PseudoEnd, RP!PseudoEnd, R!MaxOf, RP!MaxOf

LEMMA SameWindow ==
  ASSUME NEW b
  PROVE  R!OpenWindow(b) = RP!OpenWindow(b)
BY Zenon DEF R!OpenWindow, RP!OpenWindow, R!MinOf, RP!MinOf,
             R!RingRemain, RP!RingRemain, R!RingSize, RP!RingSize

LEMMA SameErasures ==
  ASSUME NEW v, NEW from, NEW to
  PROVE  R!EraseRun(v, from, to) = RP!EraseRun(v, from, to)
BY Zenon DEF R!EraseRun, RP!EraseRun, R!Erasures, RP!Erasures, R!EraseAt, RP!EraseAt

LEMMA SameAddBefore ==
  ASSUME NEW F, NEW sec, NEW front, NEW back
  PROVE  R!AddBefore(F, sec, front, back) = RP!AddBefore(F, sec, front, back)
<1>1. \A v, i : R!InsertSection(v, i, sec) = RP!InsertSection(v, i, sec)
  BY Zenon DEF R!InsertSection, RP!InsertSection, R!InsertAt, RP!InsertAt
<1>2. \A v : R!Contents(v) = RP!Contents(v)
  BY Zenon DEF R!Contents, RP!Contents
<1>3. \A v, i : R!EraseAt(v, i) = RP!EraseAt(v, i)
  BY Zenon DEF R!EraseAt, RP!EraseAt
<1> QED BY <1>1, <1>2, <1>3, SameErasures, Zenon DEF R!AddBefore, RP!AddBefore

LEMMA SameAddInside ==
  ASSUME NEW F, NEW sec, NEW front, NEW back
  PROVE  R!AddInside(F, sec, front, back) = RP!AddInside(F, sec, front, back)
<1>1. \A v : R!Contents(v) = RP!Contents(v)
  BY Zenon DEF R!Contents, RP!Contents
<1> QED BY <1>1, SameErasures, Zenon DEF R!AddInside, RP!AddInside

LEMMA SameAddSection ==
  ASSUME NEW F, NEW sec
  PROVE  R!addSection(F, sec) = RP!addSection(F, sec)
<1> DEFINE front == R!FirstBeyond(F, sec[1])
           back  == R!FirstBeyond(F, sec[2])
           added(before, inside) ==
             CASE front = -1                               -> Append(F, sec)
               [] front # -1 /\ sec[1] < F[front + 1][1]   -> before
               [] OTHER                                    -> inside
<1>1. front = RP!FirstBeyond(F, sec[1]) /\ back = RP!FirstBeyond(F, sec[2])
  BY Zenon DEF R!FirstBeyond, RP!FirstBeyond, R!Min, RP!Min
<1> HIDE DEF front, back
<1>2. R!addSection(F, sec) =
        added(R!AddBefore(F, sec, front, back), R!AddInside(F, sec, front, back))
  BY Zenon DEF R!addSection, front, back
<1>3. RP!addSection(F, sec) =
        added(RP!AddBefore(F, sec, front, back), RP!AddInside(F, sec, front, back))
  BY <1>1, Zenon DEF RP!addSection
<1> HIDE DEF added
<1> QED BY <1>2, <1>3, SameAddBefore, SameAddInside, Zenon

LEMMA SameSendAck ==
  ASSUME NEW expect, NEW window
  PROVE  R!SendAck(expect, window) <=> RP!SendAck(expect, window)
BY Zenon DEF R!SendAck, RP!SendAck, R!Cardinality, RP!Cardinality

LEMMA SameAnswer ==
  ASSUME NEW mute, NEW expect, NEW b
  PROVE  /\ R!Piggyback <=> RP!Piggyback
         /\ R!Answer(mute, expect, b) <=> RP!Answer(mute, expect, b)
         /\ R!AnswerLater(mute) <=> RP!AnswerLater(mute)
BY SameSendAck, SameWindow, Zenon
   DEF R!Piggyback, RP!Piggyback, R!Answer, RP!Answer, R!AnswerLater, RP!AnswerLater

LEMMA SameCropping ==
  ASSUME NEW m
  PROVE  /\ R!CropStart(m) = RP!CropStart(m)
         /\ R!CropEnd(m) = RP!CropEnd(m)
         /\ R!InWindow(m) <=> RP!InWindow(m)
         /\ R!Store(m) <=> RP!Store(m)
<1>1. R!CropStart(m) = RP!CropStart(m) /\ R!CropEnd(m) = RP!CropEnd(m)
  BY Zenon DEF R!CropStart, RP!CropStart, R!CropEnd, RP!CropEnd,
               R!MaxOf, RP!MaxOf, R!MinOf, RP!MinOf
<1>2. R!InWindow(m) <=> RP!InWindow(m)
  BY Zenon DEF R!InWindow, RP!InWindow
<1>3. R!Cropped(m) = RP!Cropped(m)
  BY <1>1, Zenon DEF R!Cropped, RP!Cropped
<1>4. R!Store(m) <=> RP!Store(m)
  BY <1>1, <1>3, SameWriteIn, SameWindow, Zenon DEF R!Store, RP!Store
<1> QED BY <1>1, <1>2, <1>4

LEMMA SameSegmentIn ==
  ASSUME NEW m, NEW mute
  PROVE  R!SegmentIn(m, mute) <=> RP!SegmentIn(m, mute)
<1>1. R!AcceptAndDelay(m, mute) <=> RP!AcceptAndDelay(m, mute)
  BY SameCropping, SameAnswer, Zenon DEF R!AcceptAndDelay, RP!AcceptAndDelay
<1>2. R!AcceptAndAnswer(m, mute) <=> RP!AcceptAndAnswer(m, mute)
  BY SameCropping, SameAnswer, Zenon DEF R!AcceptAndAnswer, RP!AcceptAndAnswer
<1>3. R!AcceptAhead(m, mute) <=> RP!AcceptAhead(m, mute)
  BY SameCropping, SameAnswer, SameAddSection, Zenon DEF R!AcceptAhead, RP!AcceptAhead
<1>4. R!AcceptAndMerge(m, mute) <=> RP!AcceptAndMerge(m, mute)
  BY SameCropping, SameAnswer, SameAddSection, Zenon
     DEF R!AcceptAndMerge, RP!AcceptAndMerge, R!FirstSectionEnd, RP!FirstSectionEnd,
         R!moveFirstSection, RP!moveFirstSection
<1>5. R!Reject(m, mute) <=> RP!Reject(m, mute)
  BY SameCropping, SameAnswer, Zenon DEF R!Reject, RP!Reject, R!recvVars, RP!recvVars
<1> QED BY <1>1, <1>2, <1>3, <1>4, <1>5, Zenon DEF R!SegmentIn, RP!SegmentIn

LEMMA SameDelayedAck == R!DelayedAck <=> RP!DelayedAck
BY SameSendAck, SameWindow, Zenon DEF R!DelayedAck, RP!DelayedAck

LEMMA SameRecv ==
  ASSUME NEW size
  PROVE  R!Recv(size) <=> RP!Recv(size)
<1>1. \A b, n, pos : R!RingRead(b, n, pos) = RP!RingRead(b, n, pos)
  BY Zenon DEF R!RingRead, RP!RingRead, R!RingMoveStart, RP!RingMoveStart,
               R!RingHolds, RP!RingHolds, R!Unrolled, RP!Unrolled,
               R!PseudoEnd, RP!PseudoEnd, R!RingCopy, RP!RingCopy, R!Unset, RP!Unset
<1> QED BY <1>1, SameWindow, Zenon DEF R!Recv, RP!Recv, R!MinOf, RP!MinOf

LEMMA SamePiggyback == R!DataCarriesAck <=> RP!DataCarriesAck
BY SameSendAck, Zenon DEF R!DataCarriesAck, RP!DataCarriesAck, R!Piggyback, RP!Piggyback,
                          R!recvVars, RP!recvVars

LEMMA SameReceiverInit == R!Init <=> RP!Init
BY Zenon DEF R!Init, RP!Init, R!RingClear, RP!RingClear, R!RingNew, RP!RingNew,
             R!Unset, RP!Unset
-----------------------------------------------------------------------------
(* The inductive invariant.                                                *)

\* Room in the receive buffer, from the last byte read.
Room == lastByteRead + RecvCap - 1

\* An ACK, however old, claims and promises no more than is true now.
AckHolds(a) ==
  /\ a.ack \in Nat /\ a.rwnd \in 0..RwndMax
  /\ a.ack <= expectSeqNum
  /\ a.ack + a.rwnd <= Room

\* Each half's invariant, and what relates the halves: the peer's window as the
\* sender knows it and the ACKs under way are old news of the receiver, and
\* nothing the receiver holds lies beyond what was sent.
ConnInv ==
  /\ SP!SentInv
  /\ RP!ReceiverInv
  /\ sendBase <= expectSeqNum
  /\ nextSeqNum <= Room
  /\ sendBase + dest_rwnd <= Room
  /\ RP!EndBy(expectSeqNum, recvControl, nextSeqNum)
  /\ \A a \in ackNet : AckHolds(a)

LEMMA SenderNumbers ==
  ASSUME SP!SentInv
  PROVE  /\ nextSeqNum \in Nat /\ sendBase \in Nat /\ dest_rwnd \in 0..RwndMax
         /\ cwnd \in Nat
         /\ S!StreamEnd \in Nat /\ nextSeqNum <= S!StreamEnd
         /\ ISS <= sendBase /\ sendBase <= nextSeqNum /\ S!StreamEnd <= ISS + MaxBytes
<1>1. SP!SenderInv /\ ISS <= sendBase /\ SP!StreamEnd <= ISS + MaxBytes
  BY DEF SP!SentInv
<1> QED BY <1>1, SenderConstants, SameStreamEnd, SP!InvFacts

LEMMA ReceiverNumbers ==
  ASSUME RP!ReceiverInv
  PROVE  /\ lastByteRead \in Nat /\ expectSeqNum \in Nat /\ rwnd \in 0..RwndMax
         /\ ISS <= lastByteRead /\ lastByteRead <= expectSeqNum
         /\ expectSeqNum + rwnd <= Room
         /\ lastByteRead = ISS + Len(delivered)
<1>1. RP!ReceiverTypeOK /\ RP!WindowFitsBuffer
  BY ReceiverConstants, RP!InvGivesTypes, RP!InvGivesRoom
<1> QED BY <1>1 DEF RP!ReceiverTypeOK, RP!WindowFitsBuffer, RP!ReceiverInv, RP!BufferFrom,
                    RP!ReadStaysBehind, RP!InOrderDelivery, Room

LEMMA ReceiverNumbersNext ==
  ASSUME RP!ReceiverInv'
  PROVE  /\ lastByteRead' \in Nat /\ expectSeqNum' \in Nat /\ rwnd' \in 0..RwndMax
         /\ expectSeqNum' + rwnd' <= Room'
<1>1. (/\ lastByteRead \in Nat /\ expectSeqNum \in Nat /\ rwnd \in 0..RwndMax
       /\ expectSeqNum + rwnd <= Room)'
  BY ReceiverNumbers, PTL
<1> QED BY <1>1

LEMMA InitConn ==
  ASSUME Init
  PROVE  ConnInv /\ S!StreamEnd = ISS
<1>1. SP!Init /\ RP!Init
  BY SameSenderInit, SameReceiverInit DEF Init
<1>2. SP!SentInv /\ SP!StreamEnd = ISS
  BY <1>1, SenderConstants, SP!InitSent
<1>3. RP!ReceiverInv
  BY <1>1, ReceiverConstants, RP!InitReceiverInv
<1>4. sendBase = ISS /\ nextSeqNum = ISS /\ dest_rwnd = RwndMax
  BY <1>1 DEF SP!Init
<1>5. expectSeqNum = ISS /\ lastByteRead = ISS /\ recvControl = <<>> /\ ackNet = {}
  BY <1>1 DEF RP!Init
<1>6. nextSeqNum <= Room /\ sendBase + dest_rwnd <= Room
  BY <1>4, <1>5, ConnectionAssumption DEF Room
<1>7. RP!EndBy(expectSeqNum, recvControl, nextSeqNum)
  BY <1>4, <1>5, ConnectionAssumption DEF RP!EndBy
<1> QED BY <1>2, <1>3, <1>4, <1>5, <1>6, <1>7, SameStreamEnd, ConnectionAssumption DEF ConnInv
-----------------------------------------------------------------------------
(* Steps of the sender.                                                    *)

\* Whatever the sender does within the window of the time, with an ACK that
\* holds, the receiver has room for.
LEMMA SenderKeeps ==
  ASSUME ConnInv, UNCHANGED recvVars, ackNet' \subseteq ackNet,
         NEW base \in Nat, NEW window \in 0..RwndMax, NEW end, SP!Sends(base, window, end),
         base <= expectSeqNum, base + window <= Room
  PROVE  ConnInv'
<1>1. /\ expectSeqNum' = expectSeqNum /\ lastByteRead' = lastByteRead /\ rwnd' = rwnd
      /\ recv_tool' = recv_tool /\ recvControl' = recvControl
      /\ delayAckTimer' = delayAckTimer /\ delivered' = delivered
  BY DEF recvVars
<1>2. /\ SP!SentInv' /\ SP!NewDataFitsWindow
      /\ nextSeqNum <= nextSeqNum' /\ sendBase' = base /\ dest_rwnd' = window
  BY DEF SP!Sends
<1>3. RP!ReceiverInv'
  <2>1. RP!ReceiverInv
    BY DEF ConnInv
  <2> QED BY <1>1, <2>1
          DEF RP!ReceiverInv, RP!ReadStaysBehind, RP!InOrderDelivery, RP!BufferFrom,
              RP!SectionsBacked, RP!Has
<1>4. /\ nextSeqNum \in Nat /\ nextSeqNum' \in Nat /\ cwnd' \in Nat
      /\ lastByteRead \in Nat /\ expectSeqNum \in Nat
      /\ nextSeqNum <= Room /\ Room \in Int /\ Room' = Room
  <2>1. nextSeqNum' \in Nat /\ cwnd' \in Nat
    BY <1>2, SenderConstants, SP!InvFacts DEF SP!SentInv, SP!SenderInv, SP!SenderTypeOK
  <2> QED BY <1>1, <2>1, SenderNumbers, ReceiverNumbers, ConnectionAssumption DEF ConnInv, Room
<1>5. nextSeqNum' <= Room'
  <2>1. CASE nextSeqNum' > nextSeqNum
    <3>1. nextSeqNum' - base <= SP!MinOf(window, cwnd')
      BY <1>2, <2>1 DEF SP!NewDataFitsWindow
    <3>2. SP!MinOf(window, cwnd') <= window /\ SP!MinOf(window, cwnd') \in Int
      BY <1>4 DEF SP!MinOf
    <3> HIDE DEF SP!MinOf
    <3> QED BY <1>4, <3>1, <3>2
  <2>2. CASE ~(nextSeqNum' > nextSeqNum)
    BY <1>2, <1>4, <2>2
  <2> QED BY <2>1, <2>2
<1>6. RP!EndBy(expectSeqNum, recvControl, nextSeqNum')
  <2>1. /\ expectSeqNum <= nextSeqNum /\ recvControl \in Seq(RP!Section)
        /\ \A i \in 1..Len(recvControl) : recvControl[i][2] <= nextSeqNum
    BY DEF ConnInv, RP!EndBy, RP!ReceiverInv, RP!SectionsBacked
  <2>2. \A i \in 1..Len(recvControl) : recvControl[i][2] \in Int
    BY <2>1 DEF RP!Section
  <2> QED BY <1>2, <1>4, <2>1, <2>2 DEF RP!EndBy
<1>7. \A a \in ackNet' : AckHolds(a)'
  <2>1. \A a \in ackNet' : AckHolds(a)
    BY DEF ConnInv
  <2> QED BY <1>1, <1>4, <2>1 DEF AckHolds
<1> QED BY <1>1, <1>2, <1>3, <1>4, <1>5, <1>6, <1>7 DEF ConnInv

\* A step of the stream, or none.
StreamStep == [Stream!Next]_(Stream!vars)

LEMMA WriteKeeps ==
  ASSUME ConnInv, NEW size \in WriteSizes, Write(size)
  PROVE  ConnInv' /\ StreamStep
<1>1. SP!SenderWrite(size) /\ UNCHANGED <<recvVars, ackNet>>
  BY SameWrite DEF Write
<1>2. SP!SentInv
  BY DEF ConnInv
<1>3. SP!Sends(sendBase, dest_rwnd, SP!StreamEnd + size)
  BY <1>1, <1>2, SenderConstants, SP!WriteSends
<1>4. /\ sendBase \in Nat /\ dest_rwnd \in 0..RwndMax
      /\ sendBase <= expectSeqNum /\ sendBase + dest_rwnd <= Room
  BY <1>2, SenderNumbers DEF ConnInv
<1>5. ConnInv'
  BY <1>1, <1>3, <1>4, SenderKeeps
<1>6. S!StreamEnd' = S!StreamEnd + size /\ S!StreamEnd' <= ISS + MaxBytes
  <2>1. SP!StreamEnd' <= ISS + MaxBytes /\ SP!StreamEnd' = SP!StreamEnd + size
    BY <1>3 DEF SP!Sends, SP!SentInv
  <2> QED BY <2>1, SameStreamEnd, SameStreamEndNext
<1>7. size \in 1..MaxBytes /\ (S!StreamEnd - ISS)' = (S!StreamEnd - ISS) + size
  <2>1. S!StreamEnd \in Nat /\ ISS <= S!StreamEnd
    BY <1>2, SenderNumbers, ConnectionAssumption
  <2>2. size \in Nat \ {0} /\ ISS \in Nat /\ MaxBytes \in Nat
    BY ConnectionAssumption
  <2> QED BY <1>6, <2>1, <2>2
<1>8. delivered' = delivered
  BY <1>1 DEF recvVars
<1> QED BY <1>5, <1>7, <1>8 DEF StreamStep, Stream!Next, Stream!Accept

\* A step that accepts and delivers nothing.
LEMMA NoStreamStep ==
  ASSUME S!StreamEnd' = S!StreamEnd, delivered' = delivered
  PROVE  StreamStep
BY DEF StreamStep, Stream!vars

LEMMA RetransmitKeeps ==
  ASSUME ConnInv, Retransmit
  PROVE  ConnInv' /\ StreamStep
<1>1. SP!TimerFires /\ UNCHANGED <<recvVars, ackNet>>
  BY SameTimer DEF Retransmit
<1>2. SP!SentInv
  BY DEF ConnInv
<1>3. SP!Sends(sendBase, dest_rwnd, SP!StreamEnd)
  BY <1>1, <1>2, SenderConstants, SP!TimerSends
<1>4. /\ sendBase \in Nat /\ dest_rwnd \in 0..RwndMax
      /\ sendBase <= expectSeqNum /\ sendBase + dest_rwnd <= Room
  BY <1>2, SenderNumbers DEF ConnInv
<1>5. ConnInv'
  BY <1>1, <1>3, <1>4, SenderKeeps
<1>6. S!StreamEnd' = S!StreamEnd /\ delivered' = delivered
  BY <1>1, <1>3, SameStreamEnd, SameStreamEndNext DEF SP!Sends, recvVars
<1> QED BY <1>5, <1>6, NoStreamStep

LEMMA AckKeeps ==
  ASSUME ConnInv, NEW a \in ackNet, AckArrives(a)
  PROVE  ConnInv' /\ StreamStep
<1>1. /\ SP!HandleAck(a.ack, a.rwnd)
      /\ ackNet' \subseteq ackNet /\ UNCHANGED recvVars
  BY SameHandleAck DEF AckArrives
<1>2. SP!SentInv
  BY DEF ConnInv
<1>3. /\ a.ack \in Nat /\ a.rwnd \in 0..RwndMax
      /\ a.ack <= expectSeqNum /\ a.ack + a.rwnd <= Room
  BY DEF ConnInv, AckHolds
<1>4. SP!Sends(a.ack, a.rwnd, SP!StreamEnd)
  BY <1>1, <1>2, <1>3, SenderConstants, SP!AckSends
<1>5. ConnInv'
  BY <1>1, <1>3, <1>4, SenderKeeps
<1>6. S!StreamEnd' = S!StreamEnd /\ delivered' = delivered
  BY <1>1, <1>4, SameStreamEnd, SameStreamEndNext DEF SP!Sends, recvVars
<1> QED BY <1>5, <1>6, NoStreamStep
-----------------------------------------------------------------------------
(* Steps of the receiver.                                                  *)

\* The segments under way are segments of the stream, sent before nextSeqNum.
LEMMA SegmentsFromStream ==
  ASSUME ConnInv, NEW m \in dataNet
  PROVE  RP!FromStream(m) /\ m.seq + Len(m.data) <= nextSeqNum
<1>1. SP!SentInv
  BY DEF ConnInv
<1>2. SP!SegmentBefore(m, nextSeqNum) /\ SP!SegmentsIntact
  BY <1>1 DEF SP!SentInv, SP!SenderInv
<1>3. /\ m.seq \in Nat /\ ISS <= m.seq /\ m.seq + Len(m.data) <= nextSeqNum
      /\ m.data \in Seq(RP!Byte)
      /\ \A k \in 1..Len(m.data) : m.data[k] = m.seq + k - 1
  BY <1>2 DEF SP!SegmentBefore, SP!SegmentsIntact, SP!Intact, RP!Byte, RP!Unset, SP!Unset
<1>4. m.seq + Len(m.data) <= ISS + MaxBytes
  <2>1. Len(m.data) \in Nat
    BY <1>3
  <2>2. nextSeqNum \in Nat /\ S!StreamEnd \in Nat /\ nextSeqNum <= S!StreamEnd
        /\ S!StreamEnd <= ISS + MaxBytes
    BY <1>1, SenderNumbers
  <2> QED BY <1>3, <2>1, <2>2, ConnectionAssumption
<1> QED BY <1>3, <1>4 DEF RP!FromStream, RP!StreamBytes

\* What the receiver does forward keeps what relates the halves.
LEMMA ReceiverKeeps ==
  ASSUME ConnInv, UNCHANGED sendVars, dataNet' \subseteq dataNet,
         RP!ReceiverInv', expectSeqNum <= expectSeqNum', lastByteRead <= lastByteRead',
         RP!EndBy(expectSeqNum', recvControl', nextSeqNum),
         RP!Announces
  PROVE  ConnInv' /\ S!StreamEnd' = S!StreamEnd
<1>1. SP!SentInv /\ RP!ReceiverInv
  BY DEF ConnInv
<1>2. UNCHANGED SP!sendVars
  BY DEF sendVars, SP!sendVars, SP!congestionVars
<1>3. SP!SentInv' /\ S!StreamEnd' = S!StreamEnd
  <2>1. SP!SentInv' /\ SP!StreamEnd' = SP!StreamEnd
    BY <1>1, <1>2, SenderConstants, SP!FrameSends
  <2> QED BY <2>1, SameStreamEnd, SameStreamEndNext
<1>4. sendBase' = sendBase /\ nextSeqNum' = nextSeqNum /\ dest_rwnd' = dest_rwnd
  BY DEF sendVars
<1>5. /\ lastByteRead \in Nat /\ lastByteRead' \in Nat /\ expectSeqNum \in Nat
      /\ expectSeqNum' \in Nat /\ rwnd \in 0..RwndMax /\ rwnd' \in 0..RwndMax
      /\ expectSeqNum + rwnd <= Room /\ expectSeqNum' + rwnd' <= Room'
  BY <1>1, ReceiverNumbers, ReceiverNumbersNext
<1>6. Room \in Int /\ Room' \in Int /\ Room <= Room'
  <2>1. RecvCap \in Int
    BY ConnectionAssumption
  <2>2. lastByteRead \in Int /\ lastByteRead' \in Int
    BY <1>5
  <2>3. Room = lastByteRead + RecvCap - 1 /\ Room' = lastByteRead' + RecvCap - 1
    BY DEF Room
  <2>4. Room \in Int /\ Room' \in Int
    BY <2>1, <2>2, <2>3
  <2>5. lastByteRead <= lastByteRead'
    OBVIOUS
  <2>6. \A a, b, c \in Int : a <= b => a + c - 1 <= b + c - 1
    OBVIOUS
  <2>7. lastByteRead + RecvCap - 1 <= lastByteRead' + RecvCap - 1
    BY <2>1, <2>2, <2>5, <2>6
  <2> QED BY <2>3, <2>4, <2>7
<1>7. sendBase \in Nat /\ nextSeqNum \in Nat /\ dest_rwnd \in 0..RwndMax
  BY <1>1, SenderNumbers
<1>8. /\ sendBase' <= expectSeqNum' /\ nextSeqNum' <= Room'
      /\ sendBase' + dest_rwnd' <= Room'
  <2>1. sendBase <= expectSeqNum /\ nextSeqNum <= Room /\ sendBase + dest_rwnd <= Room
    BY DEF ConnInv
  <2> HIDE DEF Room
  <2> QED BY <1>4, <1>5, <1>6, <1>7, <2>1
<1>9. ASSUME NEW a \in ackNet' PROVE AckHolds(a)'
  <2>1. CASE a \in ackNet
    <3>1. a.ack \in Nat /\ a.rwnd \in 0..RwndMax /\ a.ack <= expectSeqNum
          /\ a.ack + a.rwnd <= Room
      BY <2>1 DEF ConnInv, AckHolds
    <3> HIDE DEF Room
    <3>2. a.ack <= expectSeqNum' /\ a.ack + a.rwnd <= Room'
      BY <1>5, <1>6, <3>1
    <3> QED BY <3>1, <3>2 DEF AckHolds
  <2>2. CASE a = [ack |-> expectSeqNum, rwnd |-> rwnd]
    <3>1. a.ack = expectSeqNum /\ a.rwnd = rwnd
      BY <2>2
    <3> HIDE DEF Room
    <3> QED BY <1>5, <1>6, <3>1 DEF AckHolds
  <2>3. CASE a = [ack |-> expectSeqNum', rwnd |-> rwnd']
    <3>1. a.ack = expectSeqNum' /\ a.rwnd = rwnd'
      BY <2>3
    <3> HIDE DEF Room
    <3>2. a.ack \in Nat /\ a.rwnd \in 0..RwndMax /\ a.ack <= expectSeqNum'
          /\ a.ack + a.rwnd <= Room'
      BY <1>5, <3>1
    <3> QED BY <3>2 DEF AckHolds
  <2> QED BY <2>1, <2>2, <2>3 DEF RP!Announces
<1> QED BY <1>3, <1>4, <1>8, <1>9 DEF ConnInv

LEMMA DataKeeps ==
  ASSUME ConnInv, NEW m \in dataNet, DataArrives(m), expectSeqNum' >= expectSeqNum
  PROVE  ConnInv' /\ StreamStep
<1>1. PICK mute \in BOOLEAN : RP!SegmentIn(m, mute)
  BY SameSegmentIn DEF DataArrives
<1>2. UNCHANGED sendVars /\ dataNet' \subseteq dataNet
  BY DEF DataArrives
<1>3. /\ SP!SentInv /\ RP!ReceiverInv
      /\ RP!EndBy(expectSeqNum, recvControl, nextSeqNum)
  BY DEF ConnInv
<1>4. RP!FromStream(m) /\ m.seq + Len(m.data) <= nextSeqNum
  BY SegmentsFromStream
<1>5. expectSeqNum' \in Int /\ lastByteRead' = lastByteRead
  BY <1>1, <1>3, <1>4, ReceiverConstants, RP!SegmentMovesExpectation
<1>6. RP!ReadStaysBehind'
  <2>1. lastByteRead \in Nat /\ expectSeqNum \in Nat /\ lastByteRead <= expectSeqNum
    BY <1>3, ReceiverNumbers
  <2>2. lastByteRead' <= expectSeqNum'
    BY <1>5, <2>1
  <2> QED BY <2>2 DEF RP!ReadStaysBehind
<1>7. RP!ReceiverInv'
  BY <1>1, <1>3, <1>4, <1>6, ReceiverConstants, RP!SegmentStep
<1>8. RP!EndBy(expectSeqNum', recvControl', nextSeqNum)
  <2>1. nextSeqNum \in Int
    BY <1>3, SenderNumbers
  <2> QED BY <1>1, <1>3, <1>4, <2>1, ReceiverConstants, RP!SegmentEndsBy
<1>9. RP!Announces
  BY <1>1, <1>3, ReceiverConstants, RP!SegmentAnnounces
<1>10. expectSeqNum <= expectSeqNum' /\ lastByteRead <= lastByteRead'
  <2>1. lastByteRead \in Nat /\ expectSeqNum \in Nat
    BY <1>3, ReceiverNumbers
  <2> QED BY <1>5, <2>1
<1>11. ConnInv' /\ S!StreamEnd' = S!StreamEnd
  BY <1>2, <1>7, <1>8, <1>9, <1>10, ReceiverKeeps
<1>12. delivered' = delivered
  <2>1. R!SegmentIn(m, mute)
    BY <1>1, SameSegmentIn
  <2> QED BY <2>1 DEF R!SegmentIn, R!AcceptAndDelay, R!AcceptAndAnswer, R!AcceptAhead,
                      R!AcceptAndMerge, R!Reject, R!Store, R!recvVars
<1> QED BY <1>11, <1>12, NoStreamStep

LEMMA AcknowledgeKeeps ==
  ASSUME ConnInv, Acknowledge
  PROVE  ConnInv' /\ StreamStep
<1>1. RP!DelayedAck /\ UNCHANGED <<sendVars, dataNet>>
  BY SameDelayedAck DEF Acknowledge
<1>2. RP!ReceiverInv /\ RP!EndBy(expectSeqNum, recvControl, nextSeqNum)
  BY DEF ConnInv
<1>3. /\ expectSeqNum' = expectSeqNum /\ lastByteRead' = lastByteRead
      /\ recvControl' = recvControl /\ delivered' = delivered
  BY <1>1 DEF RP!DelayedAck
<1>4. RP!ReceiverInv'
  BY <1>1, <1>2, ReceiverConstants, RP!DelayedAckStep
<1>5. RP!Announces
  BY <1>1, <1>2, ReceiverConstants, RP!DelayedAckAnnounces
<1>6. expectSeqNum <= expectSeqNum' /\ lastByteRead <= lastByteRead'
  BY <1>2, <1>3, ReceiverNumbers
<1>7. RP!EndBy(expectSeqNum', recvControl', nextSeqNum)
  BY <1>2, <1>3
<1>8. ConnInv' /\ S!StreamEnd' = S!StreamEnd
  BY <1>1, <1>4, <1>5, <1>6, <1>7, ReceiverKeeps
<1> QED BY <1>3, <1>8, NoStreamStep

LEMMA ReadKeeps ==
  ASSUME ConnInv, NEW size \in ReadSizes, Read(size)
  PROVE  ConnInv' /\ StreamStep
<1>1. RP!Recv(size) /\ UNCHANGED <<sendVars, dataNet>>
  BY SameRecv DEF Read
<1>2. /\ RP!ReceiverInv /\ SP!SentInv
      /\ RP!EndBy(expectSeqNum, recvControl, nextSeqNum)
  BY DEF ConnInv
<1>3. size \in Nat /\ size \in Nat \ {0}
  BY ConnectionAssumption
<1>4. RP!ReceiverInv'
  BY <1>1, <1>2, <1>3, ReceiverConstants, RP!ReadStep
<1>5. PICK n \in 1..MaxBytes :
        /\ lastByteRead + n <= expectSeqNum
        /\ lastByteRead' = lastByteRead + n
        /\ delivered' = delivered \o [k \in 1..n |-> lastByteRead + k - 1]
  BY <1>1, <1>2, <1>3, ReceiverConstants, RP!RecvDelivers
<1>6. /\ expectSeqNum' = expectSeqNum /\ recvControl' = recvControl /\ ackNet' = ackNet
  BY <1>1 DEF RP!Recv
<1>7. lastByteRead \in Nat /\ expectSeqNum \in Nat /\ lastByteRead = ISS + Len(delivered)
  BY <1>2, ReceiverNumbers
<1>8. expectSeqNum <= expectSeqNum' /\ lastByteRead <= lastByteRead'
  BY <1>5, <1>6, <1>7
<1>9. RP!Announces
  BY <1>6 DEF RP!Announces
<1>10. RP!EndBy(expectSeqNum', recvControl', nextSeqNum)
  BY <1>2, <1>6
<1>11. ConnInv' /\ S!StreamEnd' = S!StreamEnd
  BY <1>1, <1>4, <1>8, <1>9, <1>10, ReceiverKeeps
<1>12. Stream!Deliver(n)
  <2>1. Len(delivered) \in Nat
    BY <1>2 DEF RP!ReceiverInv
  <2>2. expectSeqNum <= nextSeqNum /\ nextSeqNum <= S!StreamEnd
        /\ nextSeqNum \in Nat /\ S!StreamEnd \in Nat /\ ISS \in Nat
    BY <1>2, SenderNumbers, ConnectionAssumption DEF RP!EndBy
  <2>3. Len(delivered) + n <= S!StreamEnd - ISS
    BY <1>5, <1>7, <2>1, <2>2
  <2>4. delivered' = delivered \o [k \in 1..n |-> ISS + Len(delivered) + k - 1]
    BY <1>5, <1>7
  <2>5. (S!StreamEnd - ISS)' = S!StreamEnd - ISS
    BY <1>11
  <2> QED BY <2>3, <2>4, <2>5 DEF Stream!Deliver
<1> QED BY <1>11, <1>12 DEF StreamStep, Stream!Next

\* Steps that only put numbers of the moment on the way, or lose some.
LEMMA OthersKeep ==
  ASSUME ConnInv, DataCarriesAck \/ AckGone \/ UNCHANGED vars
  PROVE  ConnInv' /\ StreamStep
<1>1. /\ UNCHANGED sendVars /\ dataNet' = dataNet
      /\ UNCHANGED RP!recvVars
  BY SamePiggyback DEF DataCarriesAck, AckGone, R!AckLeaves, RP!DataCarriesAck, vars,
                       recvVars, R!recvVars, RP!recvVars
<1>2. RP!Announces
  <2>1. CASE DataCarriesAck
    <3>1. RP!Piggyback
      BY <2>1, SamePiggyback DEF DataCarriesAck, RP!DataCarriesAck
    <3> QED BY <3>1, ReceiverConstants, RP!PiggybackAnnounces
  <2>2. CASE AckGone \/ UNCHANGED vars
    BY <2>2 DEF AckGone, R!AckLeaves, vars, RP!Announces
  <2> QED BY <2>1, <2>2
<1>3. RP!ReceiverInv /\ RP!EndBy(expectSeqNum, recvControl, nextSeqNum)
  BY DEF ConnInv
<1>4. /\ expectSeqNum' = expectSeqNum /\ lastByteRead' = lastByteRead /\ rwnd' = rwnd
      /\ recv_tool' = recv_tool /\ recvControl' = recvControl
      /\ delayAckTimer' = delayAckTimer /\ delivered' = delivered
  BY <1>1 DEF RP!recvVars
<1>5. RP!ReceiverInv'
  BY <1>3, <1>4 DEF RP!ReceiverInv, RP!ReadStaysBehind, RP!InOrderDelivery, RP!BufferFrom,
                    RP!SectionsBacked, RP!Has
<1>6. expectSeqNum <= expectSeqNum' /\ lastByteRead <= lastByteRead'
  BY <1>3, <1>4, ReceiverNumbers
<1>7. RP!EndBy(expectSeqNum', recvControl', nextSeqNum)
  BY <1>3, <1>4
<1>8. ConnInv' /\ S!StreamEnd' = S!StreamEnd
  BY <1>1, <1>2, <1>5, <1>6, <1>7, ReceiverKeeps
<1> QED BY <1>4, <1>8, NoStreamStep
-----------------------------------------------------------------------------
(* Theorems.                                                               *)

LEMMA ConnStep ==
  ASSUME ConnInv, [Next]_vars, [expectSeqNum' >= expectSeqNum]_vars
  PROVE  ConnInv' /\ StreamStep
<1> DEFINE Goal == ConnInv' /\ StreamStep
<1>1. ASSUME NEW size \in WriteSizes, Write(size) PROVE Goal
  BY <1>1, WriteKeeps
<1>2. ASSUME Retransmit PROVE Goal
  BY <1>2, RetransmitKeeps
<1>3. ASSUME UNCHANGED vars PROVE Goal
  BY <1>3, OthersKeep
<1>4. ASSUME NEW m \in dataNet, DataArrives(m) PROVE Goal
  <2>1. expectSeqNum' >= expectSeqNum \/ UNCHANGED vars
    OBVIOUS
  <2> QED BY <1>3, <1>4, <2>1, DataKeeps
<1>5. ASSUME NEW a \in ackNet, AckArrives(a) PROVE Goal
  BY <1>5, AckKeeps
<1>6. ASSUME DataCarriesAck \/ AckGone PROVE Goal
  BY <1>6, OthersKeep
<1>7. ASSUME Acknowledge PROVE Goal
  BY <1>7, AcknowledgeKeeps
<1>8. ASSUME NEW size \in ReadSizes, Read(size) PROVE Goal
  BY <1>8, ReadKeeps
<1> HIDE DEF Goal
<1>9. Goal
  BY <1>1, <1>2, <1>3, <1>4, <1>5, <1>6, <1>7, <1>8 DEF Next
<1> QED BY <1>9 DEF Goal

\* Both halves keep their invariants, and each half's view of the other stays
\* true or becomes out of date on the safe side, under every loss, repetition
\* and reordering of segments and ACKs.
THEOREM ConnectionInvariant == Spec /\ WindowNeverBack => []ConnInv
<1>1. Init => ConnInv
  BY InitConn
<1>2. ConnInv /\ [Next]_vars /\ [expectSeqNum' >= expectSeqNum]_vars => ConnInv'
  BY ConnStep
<1> QED BY <1>1, <1>2, PTL DEF Spec, WindowNeverBack

\* What is acknowledged has arrived; what has arrived was sent.
THEOREM EndsStayInAgreement == Spec /\ WindowNeverBack => []EndsAgree
<1>1. ConnInv => EndsAgree
  BY DEF ConnInv, AckHolds, EndsAgree, RP!EndBy
<1> QED BY <1>1, ConnectionInvariant, PTL

\* Nothing is ever sent that the receive buffer could not take.
THEOREM FlowIsControlled == Spec /\ WindowNeverBack => []FlowControlled
<1>1. ConnInv => FlowControlled
  BY DEF ConnInv, Room, FlowControlled
<1> QED BY <1>1, ConnectionInvariant, PTL

\* A byte that the receiver does not have yet is in the sender's ring.
THEOREM UnreceivedAreKept == Spec /\ WindowNeverBack => []UnreceivedBytesKept
<1>1. ConnInv => UnreceivedBytesKept
  <2> SUFFICES ASSUME ConnInv PROVE UnreceivedBytesKept
    OBVIOUS
  <2>1. SP!InPlace(send_tool, sendBase, SP!StreamEnd)
    BY SenderConstants, SP!InvFacts DEF ConnInv, SP!SentInv
  <2>2. /\ sendBase \in Nat /\ expectSeqNum \in Nat /\ sendBase <= expectSeqNum
        /\ S!StreamEnd \in Nat /\ SP!StreamEnd = S!StreamEnd
    BY SenderNumbers, ReceiverNumbers, SameStreamEnd DEF ConnInv
  <2> DEFINE end == S!StreamEnd
  <2>3. ASSUME NEW p \in expectSeqNum..(end - 1)
        PROVE  send_tool.cell[p % send_tool.cap] = p
    <3> HIDE DEF end
    <3>1. p \in sendBase..(end - 1)
      BY <2>2 DEF end
    <3> QED BY <2>1, <2>2, <3>1 DEF SP!InPlace, end
  <2> QED BY <2>3 DEF UnreceivedBytesKept, S!InPlace
<1> QED BY <1>1, ConnectionInvariant, PTL

\* The connection implements the reliable stream: what recv() hands out is what
\* send() accepted, each byte once and in order.
THEOREM ConnectionIsStream == Spec /\ WindowNeverBack => StreamSpec
<1>1. Init => Stream!Init
  <2> SUFFICES ASSUME Init PROVE Stream!Init
    OBVIOUS
  <2>1. S!StreamEnd = ISS /\ ISS \in Nat
    BY InitConn, ConnectionAssumption
  <2>2. delivered = <<>>
    BY DEF Init, R!Init
  <2> QED BY <2>1, <2>2 DEF Stream!Init
<1>2. ConnInv /\ [Next]_vars /\ [expectSeqNum' >= expectSeqNum]_vars
        => [Stream!Next]_(Stream!vars)
  BY ConnStep DEF StreamStep
<1> QED BY <1>1, <1>2, ConnectionInvariant, PTL
        DEF Spec, WindowNeverBack, StreamSpec, Stream!Spec
-----------------------------------------------------------------------------
(* Segments that are not cut anew.                                         *)

\* No section that the receiver holds begins inside a segment under way, as
\* when a retransmission is cut where the first transmission was.
NothingStraddled ==
  \A m \in dataNet, i \in 1..Len(recvControl) :
    ~(m.seq < recvControl[i][1] /\ recvControl[i][1] < m.seq + Len(m.data))

\* The sections lie behind the gap, in order and apart, and no ACK is delayed
\* while there are any.
ApartInv ==
  /\ ConnInv
  /\ RP!SectionsAhead(recvControl, expectSeqNum)
  /\ RP!GapDisarmsDelay

LEMMA InitApart == Init => ApartInv
<1> SUFFICES ASSUME Init PROVE ApartInv
  OBVIOUS
<1>1. ConnInv /\ RP!Init
  BY InitConn, SameReceiverInit DEF Init
<1>2. recvControl = <<>>
  BY <1>1 DEF RP!Init
<1>3. RP!SectionsAhead(recvControl, expectSeqNum)
  BY <1>2 DEF RP!SectionsAhead, RP!Disjoint, RP!Apart
<1>4. RP!GapDisarmsDelay
  BY <1>2 DEF RP!GapDisarmsDelay
<1> QED BY <1>1, <1>3, <1>4 DEF ApartInv

LEMMA DataMovesForward ==
  ASSUME ApartInv, NothingStraddled, NEW m \in dataNet, DataArrives(m)
  PROVE  /\ expectSeqNum' >= expectSeqNum
         /\ RP!SectionsAhead(recvControl', expectSeqNum')
         /\ RP!GapDisarmsDelay'
<1>1. PICK mute \in BOOLEAN : RP!SegmentIn(m, mute)
  BY SameSegmentIn DEF DataArrives
<1>2. /\ ConnInv /\ RP!ReceiverInv /\ RP!GapDisarmsDelay
      /\ RP!SectionsAhead(recvControl, expectSeqNum)
  BY DEF ApartInv, ConnInv
<1>3. RP!FromStream(m)
  BY <1>2, SegmentsFromStream
<1>4. Len(m.data) > 0 /\ m.seq \in Int
  BY <1>2 DEF ConnInv, SP!SentInv, SP!SegmentBefore
<1>5. ~RP!BeginsInside(recvControl, RP!Extent(m))
  <2>1. RP!Extent(m)[1] = m.seq /\ RP!Extent(m)[2] = m.seq + Len(m.data)
    BY DEF RP!Extent
  <2> QED BY <2>1 DEF NothingStraddled, RP!BeginsInside
<1>6. /\ expectSeqNum' >= expectSeqNum
      /\ RP!SectionsAhead(recvControl', expectSeqNum')
  BY <1>1, <1>2, <1>3, <1>4, <1>5, ReceiverConstants, RP!InvGivesRanges,
     RP!SegmentKeepsAhead
<1>7. RP!GapDisarmsDelay'
  BY <1>1, <1>2, ReceiverConstants, RP!GapSegment
<1> QED BY <1>6, <1>7

LEMMA ApartStep ==
  ASSUME ApartInv, NothingStraddled, [Next]_vars
  PROVE  ApartInv' /\ expectSeqNum' >= expectSeqNum
<1> DEFINE Goal == /\ expectSeqNum' >= expectSeqNum
                   /\ RP!SectionsAhead(recvControl', expectSeqNum')
                   /\ RP!GapDisarmsDelay'
<1>1. /\ RP!SectionsAhead(recvControl, expectSeqNum) /\ RP!GapDisarmsDelay
      /\ ConnInv /\ expectSeqNum \in Nat
  BY ReceiverNumbers DEF ApartInv, ConnInv
<1>2. ASSUME expectSeqNum' = expectSeqNum, recvControl' = recvControl,
             recvControl = <<>> \/ delayAckTimer' = delayAckTimer
      PROVE  Goal
  <2>1. RP!GapDisarmsDelay'
    BY <1>1, <1>2 DEF RP!GapDisarmsDelay
  <2> QED BY <1>1, <1>2, <2>1
<1>3. ASSUME NEW m \in dataNet, DataArrives(m) PROVE Goal
  BY <1>3, DataMovesForward
<1> HIDE DEF Goal
<1>4. ASSUME UNCHANGED recvVars PROVE Goal
  BY <1>2, <1>4 DEF recvVars
<1>5. ASSUME Acknowledge PROVE Goal
  BY <1>1, <1>2, <1>5 DEF Acknowledge, R!DelayedAck, RP!GapDisarmsDelay
<1>6. ASSUME NEW size \in ReadSizes, Read(size) PROVE Goal
  BY <1>2, <1>6 DEF Read, R!Recv
<1>7. ASSUME DataCarriesAck \/ AckGone PROVE Goal
  BY <1>2, <1>7 DEF DataCarriesAck, AckGone, R!DataCarriesAck, R!AckLeaves, R!recvVars
<1>8. ASSUME NEW size \in WriteSizes, Write(size) PROVE Goal
  BY <1>4, <1>8 DEF Write
<1>9. ASSUME Retransmit \/ UNCHANGED vars PROVE Goal
  BY <1>4, <1>9 DEF Retransmit, vars
<1>10. ASSUME NEW a \in ackNet, AckArrives(a) PROVE Goal
  BY <1>4, <1>10 DEF AckArrives
<1>11. Goal
  BY <1>3, <1>5, <1>6, <1>7, <1>8, <1>9, <1>10 DEF Next
<1>12. /\ expectSeqNum' >= expectSeqNum
       /\ RP!SectionsAhead(recvControl', expectSeqNum') /\ RP!GapDisarmsDelay'
  BY <1>11 DEF Goal
<1>13. ConnInv'
  BY <1>1, <1>12, ConnStep
<1>14. RP!SectionsAhead(recvControl, expectSeqNum)'
  BY <1>12 DEF RP!SectionsAhead, RP!Disjoint, RP!Apart
<1> QED BY <1>12, <1>13, <1>14 DEF ApartInv

\* "move slide" (receiver.cpp:10) goes forward, when no segment straddles the
\* beginning of what the receiver already has behind a gap.
THEOREM ForwardUnlessStraddled == Spec /\ []NothingStraddled => WindowNeverBack
<1>1. Init => ApartInv
  BY InitApart
<1>2. ApartInv /\ NothingStraddled /\ [Next]_vars
        => ApartInv' /\ [expectSeqNum' >= expectSeqNum]_vars
  BY ApartStep
<1> QED BY <1>1, <1>2, PTL DEF Spec, WindowNeverBack

\* Then the connection is the reliable stream without a proviso on what the
\* receiver does with the segments.
THEOREM StreamUnlessStraddled ==
  Spec /\ []NothingStraddled =>
    StreamSpec /\ [](EndsAgree /\ FlowControlled /\ UnreceivedBytesKept)
BY ForwardUnlessStraddled, ConnectionIsStream, EndsStayInAgreement, FlowIsControlled,
   UnreceivedAreKept, PTL
=============================================================================
