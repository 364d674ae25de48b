----------------------------- MODULE MCReceiver -----------------------------
(* The receiver fed with segments of a stream, each lost, repeated or out  *)
(* of order.                                                               *)
EXTENDS Receiver

StreamPositions == ISS..(ISS + MaxBytes)

\* Every segment of up to MSS bytes: what small writes, narrow windows and
\* retransmissions cut anew can send.
EverySegment ==
  {iv \in StreamPositions \X StreamPositions :
     iv[1] < iv[2] /\ iv[2] <= iv[1] + MSS}

\* Behaviours in which expectSeqNum does not fall behind what recv() has read,
\* the proviso of the theorems in ReceiverProofs.  Stale sections, and a window
\* that goes back over bytes not yet read, are among them.
BehindSpec == Init /\ [][Next /\ ReadStaysBehind']_receiverVars
=============================================================================
