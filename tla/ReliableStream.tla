--------------------------- MODULE ReliableStream ---------------------------
(***************************************************************************)
(* What one direction of a connection promises its two applications: the   *)
(* bytes accepted by send() come out of recv() in order, each once, none   *)
(* invented.  `written' counts the bytes accepted, `delivered' is what the *)
(* reader was given; the byte at stream position p is p.                   *)
(***************************************************************************)
EXTENDS Integers, Sequences

CONSTANTS
  ISS,       \* the first byte's position
  MaxBytes   \* bound: bytes written

VARIABLES written, delivered

vars == <<written, delivered>>

Init == written = 0 /\ delivered = <<>>

Accept(n) ==
  /\ written' = written + n
  /\ UNCHANGED delivered

\* A read returns bytes already accepted, the next ones of the stream.
Deliver(n) ==
  /\ Len(delivered) + n <= written
  /\ delivered' = delivered \o [k \in 1..n |-> ISS + Len(delivered) + k - 1]
  /\ UNCHANGED written

Next == \E n \in 1..MaxBytes : Accept(n) \/ Deliver(n)

Spec == Init /\ [][Next]_vars
=============================================================================
