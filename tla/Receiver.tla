------------------------------ MODULE Receiver ------------------------------
(***************************************************************************)
(* The receiving half of a connection: receiver() of lib/net/receiver.cpp  *)
(* (reassembly, window, immediate and delayed ACKs) and recv() of          *)
(* lib/net/tcp.cpp, over the ring recv_tool and the list of out-of-order   *)
(* sections recvControl.                                                   *)
(*                                                                         *)
(* receiver() and the dispatcher's timer callbacks run under system_mutex, *)
(* so each is one action.  Segments are inputs: in this module any segment *)
(* of the stream in Arrivals may come at any time, any number of times.    *)
(***************************************************************************)
EXTENDS RingBuffer, SectionControl, FiniteSets

CONSTANTS
  MSS,         \* bytes per segment at most
  RecvCap,     \* RECV_Buf_SIZE
  RwndMax,     \* RWND_MAX
  ISS,         \* the first data byte's sequence number
  ReadSizes,   \* the sizes the application passes to recv()
  Arrivals,    \* the <<from, to>> intervals that arrive as segments
  MaxBytes,    \* bound: bytes of the stream
  AckCap       \* bound: ACKs in flight

ASSUME RecvConstantsAssumption ==
  /\ MSS \in Nat \ {0}
  /\ RecvCap \in Nat \ {0}
  /\ RwndMax \in 1..(RecvCap - 1)
  /\ ISS \in Nat
  /\ ReadSizes \subseteq Nat \ {0}
  /\ MaxBytes \in Nat
  /\ AckCap \in Nat
  /\ Arrivals \subseteq Nat \X Nat
  /\ \A iv \in Arrivals :
       ISS <= iv[1] /\ iv[1] < iv[2] /\ iv[2] <= iv[1] + MSS /\ iv[2] <= ISS + MaxBytes

VARIABLES
  expectSeqNum,
  lastByteRead,
  rwnd,
  recv_tool,       \* the receive buffer
  recvControl,     \* sections received beyond the first gap
  delayAckTimer,   \* "off" is -1; see TimerStates
  delivered,       \* the bytes recv() has returned to the application
  ackNet           \* ACKs on their way to the peer

recvVars == <<expectSeqNum, lastByteRead, rwnd, recv_tool, recvControl,
              delayAckTimer, delivered>>
receiverVars == <<recvVars, ackNet>>

\* "armed": the callback is due and will send an ACK; "muted": it is due and
\* will not, having captured not_send_ack; "fired": it has run, which leaves
\* its id in delayAckTimer.
TimerStates == {"off", "armed", "muted", "fired"}
-----------------------------------------------------------------------------
\* (Mutant: the room left is ignored.)
OpenWindowAlwaysMax(buf) == RwndMax
OpenWindow(buf) == MinOf(RwndMax, RingRemain(buf))

\* Every segment to the peer is an ACK with expectSeqNum and a window;
\* send_poisson or UDP may lose it, or those under way before.
SendAck(expect, window) ==
  \E kept \in SUBSET (ackNet \cup {[ack |-> expect, rwnd |-> window]}) :
    /\ Cardinality(kept) <= AckCap
    /\ ackNet' = kept

\* Data of the other direction carry the numbers of the moment.
\* (Mutant: they announce the largest window.)
PiggybackOpenWindow == SendAck(expectSeqNum, RwndMax)
Piggyback == SendAck(expectSeqNum, rwnd)

\* With not_send_ack, mute here, tcp_duplex has sent data before it called
\* receiver(), with numbers that do not count the segment.
Answer(mute, expect, buf) ==
  IF mute THEN Piggyback ELSE SendAck(expect, OpenWindow(buf))

AnswerLater(mute) == IF mute THEN Piggyback ELSE UNCHANGED ackNet

\* A segment with at least one byte in the window.
InWindow(m) ==
  /\ m.seq + Len(m.data) > expectSeqNum
  /\ m.seq < expectSeqNum + rwnd

\* start_seq and the end of the data after cropping to the window.
CropStart(m) == MaxOf(m.seq, expectSeqNum)
CropEnd(m)   == MinOf(m.seq + Len(m.data), expectSeqNum + rwnd)
\* (Mutant: data_ptr is not advanced past the bytes cropped at the front.)
CroppedAtTheEnd(m) == SubSeq(m.data, 1, CropEnd(m) - CropStart(m))
Cropped(m)   == SubSeq(m.data, CropStart(m) - m.seq + 1, CropEnd(m) - m.seq)

\* What the four accepting branches share: write() with its result ignored,
\* and the window recomputed.
Store(m) ==
  /\ recv_tool' = RingWrite(recv_tool, Cropped(m), CropStart(m))
  /\ rwnd' = OpenWindow(recv_tool')
  /\ UNCHANGED <<lastByteRead, delivered>>

\* 1. In order, nothing pending: the ACK is delayed by a second.
AcceptAndDelay(m, mute) ==
  /\ InWindow(m) /\ CropStart(m) = expectSeqNum
  /\ recvControl = <<>> /\ delayAckTimer = "off"
  /\ Store(m)
  /\ expectSeqNum' = CropEnd(m)
  /\ delayAckTimer' = IF mute THEN "muted" ELSE "armed"
  /\ AnswerLater(mute)
  /\ UNCHANGED recvControl

\* 2. In order while an ACK is delayed (or its callback has run): answer for both.
AcceptAndAnswer(m, mute) ==
  /\ InWindow(m) /\ CropStart(m) = expectSeqNum
  /\ delayAckTimer # "off"
  /\ Store(m)
  /\ expectSeqNum' = CropEnd(m)
  /\ delayAckTimer' = "off"
  /\ Answer(mute, expectSeqNum', recv_tool')
  /\ UNCHANGED recvControl

\* (Mutant: the ACK is for the segment instead of the stream.)
AcceptAheadAndAckIt(m, mute) ==
  /\ InWindow(m) /\ CropStart(m) > expectSeqNum
  /\ Store(m)
  /\ recvControl' = addSection(recvControl, <<CropStart(m), CropEnd(m)>>)
  /\ delayAckTimer' = "off"
  /\ Answer(mute, CropEnd(m), recv_tool')
  /\ UNCHANGED expectSeqNum

\* (Mutant: the delayed ACK is left pending.)
AcceptAheadStillDelayed(m, mute) ==
  /\ InWindow(m) /\ CropStart(m) > expectSeqNum
  /\ Store(m)
  /\ recvControl' = addSection(recvControl, <<CropStart(m), CropEnd(m)>>)
  /\ Answer(mute, expectSeqNum, recv_tool')
  /\ UNCHANGED <<expectSeqNum, delayAckTimer>>

\* 3. Beyond a gap.
AcceptAhead(m, mute) ==
  /\ InWindow(m) /\ CropStart(m) > expectSeqNum
  /\ Store(m)
  /\ recvControl' = addSection(recvControl, <<CropStart(m), CropEnd(m)>>)
  /\ delayAckTimer' = "off"
  /\ Answer(mute, expectSeqNum, recv_tool')
  /\ UNCHANGED expectSeqNum

\* 4. In order with sections waiting behind: the stream continues where the
\* first section ends.
AcceptAndMerge(m, mute) ==
  /\ InWindow(m) /\ CropStart(m) = expectSeqNum
  /\ recvControl # <<>> /\ delayAckTimer = "off"
  /\ Store(m)
  /\ LET sections == addSection(recvControl, <<CropStart(m), CropEnd(m)>>)
     IN  /\ recvControl' = moveFirstSection(sections)
         /\ expectSeqNum' = FirstSectionEnd(sections)
  /\ delayAckTimer' = "off"
  /\ Answer(mute, expectSeqNum', recv_tool')

\* 5. Nothing of it in the window: repeat the ACK.
Reject(m, mute) ==
  /\ ~InWindow(m)
  /\ Answer(mute, expectSeqNum, recv_tool)
  /\ UNCHANGED recvVars

\* receiver() on a segment with data; one without returns at once.
SegmentIn(m, mute) ==
  \/ AcceptAndDelay(m, mute)
  \/ AcceptAndAnswer(m, mute)
  \/ AcceptAhead(m, mute)
  \/ AcceptAndMerge(m, mute)
  \/ Reject(m, mute)

\* The delayed-ACK callback, which does not reset delayAckTimer.
DelayedAck ==
  /\ delayAckTimer \in {"armed", "muted"}
  /\ delayAckTimer' = "fired"
  /\ IF delayAckTimer = "muted" THEN UNCHANGED ackNet
     ELSE SendAck(expectSeqNum, OpenWindow(recv_tool))
  /\ UNCHANGED <<expectSeqNum, lastByteRead, rwnd, recv_tool, recvControl, delivered>>

\* recv(): the conditional event.  The window it opens is not announced.
Recv(size) ==
  /\ expectSeqNum > lastByteRead
  /\ LET n == MinOf(size, expectSeqNum - lastByteRead)
         r == RingRead(recv_tool, n, lastByteRead)
     IN  /\ recv_tool' = r.buf
         /\ delivered' = delivered \o r.data
         /\ lastByteRead' = lastByteRead + n
         /\ rwnd' = OpenWindow(r.buf)
  /\ UNCHANGED <<expectSeqNum, recvControl, delayAckTimer, ackNet>>

\* send_new or fast_retransmit send data of the other direction.
DataCarriesAck == Piggyback /\ UNCHANGED recvVars

\* An ACK leaves the network: delivered, or lost on the way.
AckLeaves == \E a \in ackNet : ackNet' = ackNet \ {a} /\ UNCHANGED recvVars
-----------------------------------------------------------------------------
Init ==
  /\ expectSeqNum = ISS
  /\ lastByteRead = ISS
  /\ rwnd = RwndMax
  /\ recv_tool = RingClear(RingNew(RecvCap), ISS)
  /\ recvControl = <<>>
  /\ delayAckTimer = "off"
  /\ delivered = <<>>
  /\ ackNet = {}

StreamSegment(iv) ==
  [seq |-> iv[1], data |-> [k \in 1..(iv[2] - iv[1]) |-> iv[1] + k - 1]]

Next ==
  \/ \E iv \in Arrivals, mute \in BOOLEAN : SegmentIn(StreamSegment(iv), mute)
  \/ DelayedAck
  \/ \E size \in ReadSizes : Recv(size)
  \/ DataCarriesAck
  \/ AckLeaves

Spec == Init /\ [][Next]_receiverVars
-----------------------------------------------------------------------------
(* Properties.                                                             *)

Positions == ISS..(ISS + MaxBytes)

\* Type invariant of the receiver's part of tcp_link_info.
ReceiverTypeOK ==
  /\ expectSeqNum \in Positions
  /\ lastByteRead \in Positions
  /\ rwnd \in 0..RwndMax
  /\ recv_tool.start \in 0..(RecvCap - 1)
  /\ recv_tool.end \in 0..(RecvCap - 1)
  /\ recv_tool.cap = RecvCap
  /\ \A sec \in ToSet(recvControl) : sec[1] \in Positions /\ sec[2] \in Positions
  /\ delayAckTimer \in TimerStates

\* What recv() has returned is the stream from its first byte, each byte once
\* and in order, in spite of the loss, duplication and reordering of segments
\* and of the ring's reuse of its slots.
InOrderDelivery ==
  /\ \A k \in 1..Len(delivered) : delivered[k] = ISS + k - 1
  /\ lastByteRead = ISS + Len(delivered)

\* Every byte that recv() may hand out next, and that ACKs therefore claim, is
\* in the ring: expectSeqNum never jumps over a byte that did not arrive.
ReadableBytesHeld == InPlace(recv_tool, lastByteRead, expectSeqNum)

\* Every byte a section claims and that is not yet read is in the ring.
SectionsHeld ==
  \A sec \in ToSet(recvControl) :
    InPlace(recv_tool, MaxOf(sec[1], lastByteRead), sec[2])

\* receiver() ignores the result of write(), so no segment it accepts may meet
\* "WRITE BUF ERROR": the bytes would be acknowledged and not stored.
AcceptedDataFits ==
  \A iv \in Arrivals :
    LET m == StreamSegment(iv)
    IN  InWindow(m) => RingWriteFits(recv_tool, CropEnd(m) - CropStart(m), CropStart(m))

\* The window never promises room that the ring does not have, counting from
\* the last byte read.
WindowFitsBuffer == expectSeqNum + rwnd <= lastByteRead + RecvCap - 1

\* No ACK is held back while there is a gap, so the sender learns of a loss.
GapDisarmsDelay == recvControl # <<>> => delayAckTimer = "off"

\* recv() has not read beyond the complete stream.
ReadStaysBehind == lastByteRead <= expectSeqNum

\* The sections lie in order and apart, none is empty, none begins behind the
\* window's start.
SectionsTidy ==
  /\ \A i \in 1..Len(recvControl) :
       expectSeqNum <= recvControl[i][1] /\ recvControl[i][1] < recvControl[i][2]
  /\ \A i, j \in 1..Len(recvControl) : i < j => recvControl[i][2] <= recvControl[j][1]

\* A section begins strictly inside m: m was cut elsewhere than what it repeats.
Straddles(m) ==
  \E i \in 1..Len(recvControl) :
    m.seq < recvControl[i][1] /\ recvControl[i][1] < m.seq + Len(m.data)

\* What a step may do to the sections: unless it is the arrival of a segment
\* that straddles the beginning of one, it moves the window forward, or leaves
\* it, and keeps them tidy.
StepKeepsTidy ==
  SectionsTidy =>
    /\ expectSeqNum' >= expectSeqNum
    /\ \/ SectionsTidy'
       \/ LET came == {iv \in Arrivals :
                         \E mute \in BOOLEAN : SegmentIn(StreamSegment(iv), mute)}
          IN  came # {} /\ \A iv \in came : Straddles(StreamSegment(iv))

\* "move slide" (receiver.cpp:10): the window goes back only to the end of a
\* stale section, and nothing leaves one but a segment that straddles the
\* beginning of a section.  A step that is the arrival of any other segment,
\* repeated, late, overlapping or cropped, does no such harm.
StaleOnlyByStraddling == [][StepKeepsTidy]_receiverVars
=============================================================================
