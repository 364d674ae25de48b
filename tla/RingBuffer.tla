----------------------------- MODULE RingBuffer -----------------------------
(***************************************************************************)
(* The circular byte buffer of lib/tool/buffer.{h,cpp} (class buffer_tool),*)
(* used twice per connection: send_tool holds the bytes written by the     *)
(* application and not yet acknowledged, recv_tool the bytes received and  *)
(* not yet read.                                                           *)
(*                                                                         *)
(* A buffer is a record: `start' and `end' index the ring, `cap' is its    *)
(* capacity (one slot stays empty) and `cell' its memory.  Callers address *)
(* bytes by stream position (a sequence number); every method reduces it   *)
(* modulo the capacity.  The operators are the methods, as functions from  *)
(* buffer to buffer.  Positions are assumed to stay below 2^31, where the  *)
(* code's `int pos' and the position agree.                                *)
(***************************************************************************)
EXTENDS Integers, Sequences

\* What an output array holds where a failing read() stored nothing.
Unset == -1

MinOf(a, b) == IF a <= b THEN a ELSE b
MaxOf(a, b) == IF a >= b THEN a ELSE b

\* The rings of a given capacity whose cells hold values of V.
RingOver(cap, V) ==
  [start : 0..(cap - 1), end : 0..(cap - 1), cap : {cap}, cell : [0..(cap - 1) -> V]]

\* The bytes at positions from..to-1 are in their slots (the byte at position p
\* being p, as it is in every module that uses the ring).
InPlace(b, from, to) == \A p \in from..(to - 1) : b.cell[p % b.cap] = p

\* The constructor, on memory whose content is unspecified.
RingNew(cap) ==
  [start |-> 0, end |-> 0, cap |-> cap, cell |-> [i \in 0..(cap - 1) |-> Unset]]

\* clear: an empty buffer whose first byte will be the one at position pos.
RingClear(b, pos) == [b EXCEPT !.start = pos % b.cap, !.end = pos % b.cap]

RingSize(b)   == IF b.end < b.start THEN b.cap - b.start + b.end
                                    ELSE b.end - b.start
\* Mutant: the slot that stays empty is counted as room.
RingRemainOneMore(b) == b.cap - RingSize(b)
RingRemain(b) == b.cap - RingSize(b) - 1

\* The local variables p and pseudo_end of write, read and move_start: the
\* indexes of a position and of the end, unrolled past the wrap-around.
Unrolled(b, pos) == LET p == pos % b.cap
                    IN  IF p < b.start THEN p + b.cap ELSE p
PseudoEnd(b) == IF b.end < b.start THEN b.end + b.cap ELSE b.end

\* The test before "WRITE BUF ERROR".
RingWriteFits(b, n, pos) == n - PseudoEnd(b) + Unrolled(b, pos) <= RingRemain(b)

\* Mutant: the part of the data that wraps round to the front is not copied.
RingWriteTailLost(b, data, pos) ==
  LET p == pos % b.cap
  IN  [b EXCEPT !.end  = MaxOf(PseudoEnd(b), Unrolled(b, pos) + Len(data)) % b.cap,
                !.cell = [i \in 0..(b.cap - 1) |->
                            IF i \in p..(p + Len(data) - 1) THEN data[i - p + 1]
                                                            ELSE b.cell[i]]]

\* Mutant: the new end is not reduced.
RingWriteEndUnwrapped(b, data, pos) ==
  [b EXCEPT !.end  = MaxOf(PseudoEnd(b), Unrolled(b, pos) + Len(data)),
            !.cell = [i \in 0..(b.cap - 1) |->
                        LET k == (i - pos) % b.cap
                        IN  IF k < Len(data) THEN data[k + 1] ELSE b.cell[i]]]

\* write: store the bytes at their place, which may leave a gap behind the end
\* or lie before it; nothing is stored when they do not fit.
RingWrite(b, data, pos) ==
  LET n == Len(data)
      writeEnd == Unrolled(b, pos) + n
  IN  IF RingWriteFits(b, n, pos)
        THEN [b EXCEPT !.end  = MaxOf(PseudoEnd(b), writeEnd) % b.cap,
                       !.cell = [i \in 0..(b.cap - 1) |->
                                   LET k == (i - pos) % b.cap
                                   IN  IF k < n THEN data[k + 1] ELSE b.cell[i]]]
        ELSE b

\* Mutant: the bytes behind the end of the array are not fetched from its front.
RingCopyUnwrapped(b, n, pos) ==
  [k \in 1..n |-> IF (pos % b.cap) + k <= b.cap THEN b.cell[(pos % b.cap) + k - 1]
                                                ELSE Unset]

\* copy: no check at all, the bytes found at the n places from pos on.
RingCopy(b, n, pos) == [k \in 1..n |-> b.cell[(pos + k - 1) % b.cap]]

\* move_start: give up the bytes before pos + size, unless the buffer holds
\* fewer.
RingHolds(b, n, pos) == Unrolled(b, pos) + n <= PseudoEnd(b)

\* Mutant: the new start is not reduced.
RingMoveStartUnwrapped(b, n, pos) ==
  IF RingHolds(b, n, pos) THEN [b EXCEPT !.start = Unrolled(b, pos) + n] ELSE b

RingMoveStart(b, n, pos) ==
  IF RingHolds(b, n, pos)
    THEN [b EXCEPT !.start = (Unrolled(b, pos) + n) % b.cap]
    ELSE b

\* read: move_start and copy in one; the caller's array keeps what it had when
\* the buffer does not hold the bytes.
RingRead(b, n, pos) ==
  [buf  |-> RingMoveStart(b, n, pos),
   data |-> IF RingHolds(b, n, pos) THEN RingCopy(b, n, pos)
                                    ELSE [k \in 1..n |-> Unset]]
=============================================================================
