------------------------------- MODULE Sender -------------------------------
(***************************************************************************)
(* The sending half of a connection: sender, send_new and fast_retransmit  *)
(* of lib/net/sender.cpp, the retransmission-timer callback, and the ACK   *)
(* branch of tcp_duplex in lib/net/tcp_duplex.cpp (slow start, congestion  *)
(* avoidance, fast retransmit, fast recovery).                             *)
(*                                                                         *)
(* Every handler runs under system_mutex on the dispatcher's thread, so    *)
(* one handler is one action.  ACKs are inputs: in this module any value   *)
(* the handlers distinguish may arrive at any time, as it does when ACKs   *)
(* are lost, duplicated, delayed or piggybacked on the peer's data.        *)
(*                                                                         *)
(* The byte at stream position p is represented by p itself.               *)
(***************************************************************************)
EXTENDS RingBuffer, FiniteSets

CONSTANTS
  MSS,            \* bytes per segment at most
  Threshold,      \* THRESHOLD: ssthresh of a new connection
  SendCap,        \* SEND_BUF_SIZE
  RwndMax,        \* RWND_MAX
  ISS,            \* the first data byte's sequence number
  WriteSizes,     \* the sizes the application passes to send()
  Windows,        \* windows the peer may advertise
  UndefinedGain,  \* (int) of the infinite double that MSS * (MSS / 0.0) is
  MaxBytes,       \* bound: bytes written by the application in all
  MaxDup,         \* bound: duplicate_count
  NetCap          \* bound: data segments in flight

ASSUME ConstantsAssumption ==
  /\ MSS \in Nat \ {0}
  /\ Threshold \in Nat
  /\ SendCap \in Nat \ {0}
  /\ RwndMax \in Nat
  /\ ISS \in Nat
  /\ WriteSizes \subseteq Nat \ {0}
  /\ Windows \subseteq 0..RwndMax
  /\ UndefinedGain \in Nat
  /\ MaxBytes \in Nat
  /\ MaxDup \in Nat
  /\ NetCap \in Nat

VARIABLES
  state,            \* 1 slow start, 2 congestion avoidance, 3 fast recovery
  nextSeqNum,
  sendBase,
  cwnd,
  ssthresh,
  dest_rwnd,
  duplicate_count,
  senderTimer,      \* is the retransmission interval set (senderTimer # -1)
  send_tool,        \* the send buffer
  dataNet           \* data segments on their way to the peer

congestionVars == <<state, cwnd, ssthresh, duplicate_count>>
sendVars == <<nextSeqNum, sendBase, dest_rwnd, senderTimer, send_tool,
              congestionVars>>
senderVars == <<sendVars, dataNet>>

SlowStart == 1
CongestionAvoidance == 2
FastRecovery == 3

StreamEnd == sendBase + RingSize(send_tool)
-----------------------------------------------------------------------------
(* Output.                                                                 *)

\* The MSS-sized pieces of from..to-1, copied out of buffer buf.
Segments(buf, from, to) ==
  { [seq |-> s, data |-> RingCopy(buf, MinOf(MSS, to - s), s)] :
      s \in {p \in from..(to - 1) : (p - from) % MSS = 0} }

\* tcp_ostream is send_poisson: it drops some of the segments and hands the
\* others to UDP, which may lose them and those under way before.
Emit(segs) ==
  \E kept \in SUBSET (dataNet \cup segs) :
    /\ Cardinality(kept) <= NetCap
    /\ dataNet' = kept

\* send_new, called with sendBase, send_tool and the congestion variables at
\* the values the caller has given them: send what the smaller of the two
\* windows admits.  The timer is started over when the first byte of the
\* window is sent.
\* Mutants: the amount of buffered data is forgotten; the window is rounded up
\* to whole segments.
SendEndUnbuffered(base, buf, window) == base + window
SendEndWholeSegments(base, buf, window) ==
  base + MinOf(((window + MSS - 1) \div MSS) * MSS, RingSize(buf))
SendEnd(base, buf, window) == base + MinOf(window, RingSize(buf))

SendNew(base, buf, window) ==
  LET send_end == SendEnd(base, buf, window)
  IN  /\ nextSeqNum' = MaxOf(nextSeqNum, send_end)
      /\ senderTimer' = (senderTimer \/ (base = nextSeqNum /\ nextSeqNum < send_end))
      /\ Emit(Segments(buf, nextSeqNum, send_end))

\* fast_retransmit: everything outstanding, whatever the windows say.
FastRetransmit == Emit(Segments(send_tool, sendBase, nextSeqNum))
-----------------------------------------------------------------------------
(* Handlers.                                                               *)

\* sender(): the conditional event of an application thread's send().
SenderWrite(size) ==
  /\ RingRemain(send_tool) > size
  /\ StreamEnd + size <= ISS + MaxBytes
  /\ send_tool' = RingWrite(send_tool, [k \in 1..size |-> StreamEnd + k - 1],
                            StreamEnd)
  /\ SendNew(sendBase, send_tool', MinOf(dest_rwnd, cwnd))
  /\ UNCHANGED <<sendBase, dest_rwnd, congestionVars>>

\* The congestion-avoidance increment (int)(MSS*((double)MSS/(double)cwnd)).
Gain(c) == IF c = 0 THEN UndefinedGain ELSE (MSS * MSS) \div c

\* Mutant: slow start ends one segment too late.
GrowSlowStartLate ==
  /\ state = SlowStart
  /\ cwnd' = cwnd + MSS
  /\ state' = IF cwnd' > ssthresh THEN CongestionAvoidance ELSE SlowStart

GrowSlowStart ==
  /\ state = SlowStart
  /\ cwnd' = cwnd + MSS
  /\ state' = IF cwnd' >= ssthresh THEN CongestionAvoidance ELSE SlowStart

GrowAvoidance ==
  /\ state = CongestionAvoidance
  /\ cwnd' = cwnd + Gain(cwnd)
  /\ state' = state

LeaveRecovery ==
  /\ state = FastRecovery
  /\ cwnd' = ssthresh
  /\ state' = CongestionAvoidance

\* The "new ACK" branch of tcp_duplex.  A timer that runs is started over.
NewAck(ack, rwnd) ==
  /\ sendBase < ack /\ ack <= nextSeqNum
  /\ dest_rwnd' = rwnd
  /\ send_tool' = RingMoveStart(send_tool, ack - sendBase, sendBase)
  /\ sendBase' = ack
  /\ GrowSlowStart \/ GrowAvoidance \/ LeaveRecovery
  /\ duplicate_count' = 0
  /\ SendNew(ack, send_tool', MinOf(rwnd, cwnd'))
  /\ UNCHANGED ssthresh

\* The "duplicate ACK" branch: every segment that carries ack = sendBase, also
\* one with data and also when nothing is outstanding.
ThirdDuplicate == duplicate_count + 1 = 3

CountDuplicate(ack, rwnd) ==
  /\ ack = sendBase
  /\ duplicate_count < MaxDup
  /\ dest_rwnd' = rwnd
  /\ duplicate_count' = duplicate_count + 1
  /\ UNCHANGED <<sendBase, send_tool>>

DuplicateAck(ack, rwnd) ==
  /\ CountDuplicate(ack, rwnd)
  /\ state # FastRecovery /\ ~ThirdDuplicate
  /\ UNCHANGED <<state, cwnd, ssthresh, nextSeqNum, senderTimer, dataNet>>

EnterFastRecovery(ack, rwnd) ==
  /\ CountDuplicate(ack, rwnd)
  /\ state # FastRecovery /\ ThirdDuplicate
  /\ ssthresh' = cwnd \div 2
  /\ cwnd' = ssthresh' + 3 * MSS
  /\ state' = FastRecovery
  /\ FastRetransmit
  /\ UNCHANGED <<nextSeqNum, senderTimer>>

InflateInRecovery(ack, rwnd) ==
  /\ CountDuplicate(ack, rwnd)
  /\ state = FastRecovery
  /\ cwnd' = cwnd + MSS
  /\ SendNew(sendBase, send_tool, MinOf(rwnd, cwnd'))
  /\ UNCHANGED <<state, ssthresh>>

\* Neither branch: an ACK below sendBase or above nextSeqNum changes nothing.
HandleAck(ack, rwnd) ==
  \/ NewAck(ack, rwnd)
  \/ DuplicateAck(ack, rwnd)
  \/ EnterFastRecovery(ack, rwnd)
  \/ InflateInRecovery(ack, rwnd)

\* Mutant: the interval is stopped as soon as nothing is left to send.
TimerStopsEarly ==
  /\ senderTimer
  /\ ssthresh' = cwnd \div 2
  /\ cwnd' = MSS
  /\ duplicate_count' = 0
  /\ state' = SlowStart
  /\ FastRetransmit
  /\ senderTimer' = (nextSeqNum # StreamEnd)
  /\ UNCHANGED <<nextSeqNum, sendBase, dest_rwnd, send_tool>>

\* Mutant: a timeout does not leave fast recovery.
TimerKeepsState ==
  /\ senderTimer
  /\ ssthresh' = cwnd \div 2
  /\ cwnd' = MSS
  /\ duplicate_count' = 0
  /\ FastRetransmit
  /\ senderTimer' = ~(sendBase = nextSeqNum /\ RingSize(send_tool) = 0)
  /\ UNCHANGED <<state, nextSeqNum, sendBase, dest_rwnd, send_tool>>

\* The callback of the retransmission interval (the same lambda at each place
\* that sets it); the interval goes on unless everything is acknowledged.
TimerFires ==
  /\ senderTimer
  /\ ssthresh' = cwnd \div 2
  /\ cwnd' = MSS
  /\ duplicate_count' = 0
  /\ state' = SlowStart
  /\ FastRetransmit
  /\ senderTimer' = ~(sendBase = nextSeqNum /\ RingSize(send_tool) = 0)
  /\ UNCHANGED <<nextSeqNum, sendBase, dest_rwnd, send_tool>>

\* A data segment leaves the network: delivered, or lost on the way.
DataLeaves ==
  \E m \in dataNet : dataNet' = dataNet \ {m} /\ UNCHANGED sendVars
-----------------------------------------------------------------------------
(* A new connection.  On the passive side the ACK that completes the       *)
(* handshake is handed to tcp_duplex after sendBase is set to its ack, and *)
(* counts there as a first duplicate.                                      *)
Init ==
  /\ state = SlowStart
  /\ nextSeqNum = ISS
  /\ sendBase = ISS
  /\ cwnd = MSS
  /\ ssthresh = Threshold
  /\ dest_rwnd = RwndMax
  /\ duplicate_count \in {0, 1}
  /\ senderTimer = FALSE
  /\ send_tool = RingClear(RingNew(SendCap), ISS)
  /\ dataNet = {}

AckArrives ==
  \E ack \in ISS..(ISS + MaxBytes), rwnd \in Windows : HandleAck(ack, rwnd)

Next ==
  \/ \E size \in WriteSizes : SenderWrite(size)
  \/ AckArrives
  \/ TimerFires
  \/ DataLeaves

Spec == Init /\ [][Next]_senderVars
-----------------------------------------------------------------------------
(* Properties.                                                             *)

\* Type invariant of the sender's part of tcp_link_info.
SenderTypeOK ==
  /\ state \in {SlowStart, CongestionAvoidance, FastRecovery}
  /\ nextSeqNum \in Nat
  /\ sendBase \in Nat
  /\ cwnd \in Nat
  /\ ssthresh \in Nat
  /\ dest_rwnd \in 0..RwndMax
  /\ duplicate_count \in Nat
  /\ senderTimer \in BOOLEAN
  /\ send_tool \in RingOver(SendCap, Nat \cup {Unset})

\* sendBase never overtakes nextSeqNum, and nothing is sent that the buffer
\* does not hold: the sequence numbers kept by tcp_duplex.cpp and sender.cpp
\* agree with the ring indexes that buffer.cpp keeps on its own.
WindowOrdered ==
  /\ sendBase <= nextSeqNum
  /\ nextSeqNum <= StreamEnd
  /\ send_tool.start = sendBase % SendCap

\* Unacknowledged data always has a retransmission interval behind it, though
\* four places set, restart or clear the interval under different conditions.
TimerCoversOutstanding == sendBase < nextSeqNum => senderTimer

\* Every byte accepted from the application and not acknowledged is in its slot:
\* nothing is overwritten before it is acknowledged, however often the stream
\* runs round the ring.
UnackedInPlace == InPlace(send_tool, sendBase, StreamEnd)

\* Whatever is on the wire, sent or sent again, carries the application's bytes
\* of its stream positions.
Intact(m) == \A k \in 1..Len(m.data) : m.data[k] = m.seq + k - 1

SegmentsIntact == \A m \in dataNet : Intact(m)

\* New data is sent only into the window: when a step advances nextSeqNum the
\* data in flight fits both the congestion window and the peer's window.
NewDataFitsWindow ==
  nextSeqNum' > nextSeqNum =>
    nextSeqNum' - sendBase' <= MinOf(dest_rwnd', cwnd')

FlightFitsWindow == [][NewDataFitsWindow]_senderVars

\* Fast recovery is entered and left together with the duplicate count: every
\* new ACK and every timeout takes both back.  A count left at three or more in
\* another state would pass by "duplicate_count == 3" and never again trigger a
\* fast retransmit.
RecoveryCounted == state = FastRecovery <=> duplicate_count >= 3

\* Slow start is below its threshold, except for the single segment with which
\* a connection or a timeout begins.
SlowStartBelowThreshold == state = SlowStart => cwnd < ssthresh \/ cwnd = MSS

\* "fast recovery" and "fast retransmit" (README.md, tcp_duplex.cpp:90 and 96)
\* answer the loss of a segment, so some data must be outstanding.
RecoveryMeansLoss == state = FastRecovery => sendBase < nextSeqNum
=============================================================================
