----------------------------- MODULE Connection -----------------------------
(***************************************************************************)
(* One direction of an established connection: the sender of one host, the *)
(* receiver of the other, and UDP between them.  Segments and ACKs are     *)
(* lost (send_poisson in lib/net/tcp.cpp, and UDP), delivered in any order *)
(* (each waits in a dispatcher event of its own, then travels as a         *)
(* datagram) and delivered again.                                          *)
(*                                                                         *)
(* The other direction appears as what it does to this one: the receiver's *)
(* host sends data of its own at any time, each with an ACK, and when it   *)
(* does so while it handles a segment that segment gets no other ACK.      *)
(***************************************************************************)
EXTENDS Integers, Sequences

CONSTANTS MSS, Threshold, SendCap, RecvCap, RwndMax, ISS, WriteSizes, ReadSizes,
          UndefinedGain, MaxBytes, MaxDup, NetCap, AckCap

\* The two halves' assumptions: the window fits the receive buffer.
ASSUME ConnectionAssumption ==
  /\ MSS \in Nat \ {0}
  /\ Threshold \in Nat
  /\ SendCap \in Nat \ {0}
  /\ RecvCap \in Nat \ {0}
  /\ RwndMax \in 1..(RecvCap - 1)
  /\ ISS \in Nat
  /\ WriteSizes \subseteq Nat \ {0}
  /\ ReadSizes \subseteq Nat \ {0}
  /\ {UndefinedGain, MaxBytes, MaxDup, NetCap, AckCap} \subseteq Nat

VARIABLES state, nextSeqNum, sendBase, cwnd, ssthresh, dest_rwnd,
          duplicate_count, senderTimer, send_tool, dataNet,
          expectSeqNum, lastByteRead, rwnd, recv_tool, recvControl,
          delayAckTimer, delivered, ackNet

S == INSTANCE Sender WITH Windows <- 0..RwndMax
R == INSTANCE Receiver WITH Arrivals <- {}

sendVars == <<state, nextSeqNum, sendBase, cwnd, ssthresh, dest_rwnd,
              duplicate_count, senderTimer, send_tool>>
recvVars == <<expectSeqNum, lastByteRead, rwnd, recv_tool, recvControl,
              delayAckTimer, delivered>>
vars == <<sendVars, dataNet, recvVars, ackNet>>

Init ==
  /\ S!Init
  /\ R!Init

Write(size) ==
  /\ S!SenderWrite(size)
  /\ UNCHANGED <<recvVars, ackNet>>

Retransmit ==
  /\ S!TimerFires
  /\ UNCHANGED <<recvVars, ackNet>>

\* udp_recv hands a segment to the receiver; a copy may stay behind.
DataArrives(m) ==
  /\ \E mute \in BOOLEAN : R!SegmentIn(m, mute)
  /\ dataNet' \in {dataNet \ {m}, dataNet}
  /\ UNCHANGED sendVars

AckArrives(a) ==
  /\ S!HandleAck(a.ack, a.rwnd)
  /\ ackNet' \in {ackNet \ {a}, ackNet}
  /\ UNCHANGED recvVars

\* The receiver's host sends data of its own.
DataCarriesAck ==
  /\ R!DataCarriesAck
  /\ UNCHANGED <<sendVars, dataNet>>

\* A lost ACK, or one that the sender ignores.
AckGone ==
  /\ R!AckLeaves
  /\ UNCHANGED <<sendVars, dataNet>>

Acknowledge ==
  /\ R!DelayedAck
  /\ UNCHANGED <<sendVars, dataNet>>

Read(size) ==
  /\ R!Recv(size)
  /\ UNCHANGED <<sendVars, dataNet>>

Next ==
  \/ \E size \in WriteSizes : Write(size)
  \/ Retransmit
  \/ \E m \in dataNet : DataArrives(m)
  \/ \E a \in ackNet : AckArrives(a)
  \/ AckGone
  \/ DataCarriesAck
  \/ Acknowledge
  \/ \E size \in ReadSizes : Read(size)

Spec == Init /\ [][Next]_vars

(* Fairness.  Losses are independent and rare (LOSS_RATE), so what is sent  *)
(* again and again gets through; the timers are intervals and the           *)
(* dispatcher's loop goes round for ever; the application keeps reading.    *)
RetransmitReaches ==
  Retransmit /\ \E m \in dataNet' : m.seq = sendBase

FirstAnswered ==
  \E m \in dataNet :
    /\ m.seq = sendBase
    /\ DataArrives(m)
    /\ delayAckTimer' = "armed" \/ \E a \in ackNet' : a.ack >= expectSeqNum

NewAckArrives == \E a \in ackNet : a.ack > sendBase /\ AckArrives(a)

Fairness ==
  /\ SF_vars(RetransmitReaches)
  /\ SF_vars(FirstAnswered)
  /\ SF_vars(NewAckArrives)
  /\ WF_vars(Acknowledge)
  /\ \A size \in ReadSizes : WF_vars(Read(size))

FairSpec == Spec /\ Fairness
-----------------------------------------------------------------------------
(* Properties.                                                             *)

\* The connection implements the reliable stream.
Stream == INSTANCE ReliableStream WITH written <- S!StreamEnd - ISS

StreamSpec == Stream!Spec

\* The two ends' sequence numbers: what is acknowledged has arrived, what has
\* arrived was sent.  (The receiver and the sender keep their numbers apart,
\* and delayed and repeated ACKs carry old ones.)
EndsAgree ==
  /\ sendBase <= expectSeqNum
  /\ expectSeqNum <= nextSeqNum
  /\ \A a \in ackNet : a.ack <= expectSeqNum

\* Until the receiver has stored a byte the sender keeps it for retransmission,
\* at its place in the ring.
UnreceivedBytesKept == S!InPlace(send_tool, expectSeqNum, S!StreamEnd)

\* Flow control works end to end: nothing was ever sent that the receive buffer
\* could not take, however old the ACK that the sender's window came from.
FlowControlled == nextSeqNum <= lastByteRead + RecvCap - 1

Positions == ISS..(ISS + MaxBytes - 1)

\* Every byte that was ever sent is delivered in the end, whatever is lost.
SentIsDelivered ==
  \A p \in Positions : (p < nextSeqNum) ~> (p < lastByteRead)

\* Every byte that send() accepted is delivered in the end.
WrittenIsDelivered ==
  \A p \in Positions : (p < S!StreamEnd) ~> (p < lastByteRead)
=============================================================================
