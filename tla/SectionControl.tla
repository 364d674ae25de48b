--------------------------- MODULE SectionControl ---------------------------
(***************************************************************************)
(* The list of out-of-order sections of lib/tool/section_control.{h,cpp}   *)
(* (class secCont): what the receiver holds beyond the first gap, as pairs *)
(* <<first, second>> standing for the bytes first..second-1.               *)
(*                                                                         *)
(* fillSection is a std::vector, and addSection erases from it while it    *)
(* runs over it.  Within a call the vector is therefore a record of its    *)
(* memory and its current size n: erase() moves the elements behind it one *)
(* slot down and leaves the slots from the new size on as they were, where *)
(* addSection reads them again with an index taken before the erasures.    *)
(***************************************************************************)
EXTENDS Integers, SequencesExt

\* fillSection.erase(iter + i): the last element goes when i is at or past the
\* end.  Indexes are the code's, from 0.
EraseAt(v, i) ==
  [mem |-> [j \in 1..Len(v.mem) |-> IF i < j /\ j < v.n THEN v.mem[j + 1] ELSE v.mem[j]],
   n   |-> v.n - 1]

\* v after the first k iterations of such a loop from index `from' on.
Erasures(v, from) ==
  LET after[k \in Nat] ==
        IF k = 0 THEN v ELSE EraseAt(after[k - 1], from + k - 1)
  IN  after

\* for(int i = from; i < to; i++) fillSection.erase(iter + i)
EraseRun(v, from, to) == IF from < to THEN Erasures(v, from)[to - from] ELSE v

\* fillSection.insert(iter + i, sec)
InsertSection(v, i, sec) ==
  LET kept == SubSeq(v.mem, 1, v.n) IN InsertAt(kept, i + 1, sec)

Contents(v) == SubSeq(v.mem, 1, v.n)

\* The index of the first section that ends (or begins) after position p, -1
\* when there is none: the search loops for front and back.
FirstBeyond(F, p) ==
  LET beyond == {i \in 0..(Len(F) - 1) : F[i + 1][1] > p \/ F[i + 1][2] > p}
  IN  IF beyond = {} THEN -1 ELSE Min(beyond)

\* (Mutant: a section that closes the gap between two does not erase the second.)
AddBeforeKeepsSecond(F, sec, front, back) ==
  LET count == IF back = -1 THEN Len(F) - front ELSE back - front
      v     == EraseRun([mem |-> F, n |-> Len(F)], front, count)
      touchesPrevious == front > 0 /\ sec[1] = v.mem[front][2]
      widened(second) == [v.mem EXCEPT ![front] = <<@[1], second>>]
  IN  IF back = -1 \/ sec[2] < v.mem[back + 1][1]
        THEN IF touchesPrevious
               THEN Contents([v EXCEPT !.mem = widened(sec[2])])
               ELSE InsertSection(v, front, sec)
        ELSE IF touchesPrevious
               THEN Contents([v EXCEPT !.mem = widened(v.mem[front + 1][2])])
               ELSE Contents([v EXCEPT !.mem[front + 1] = <<sec[1], @[2]>>])

\* sec begins before section front: erase what it covers, then insert it, or
\* widen a neighbour it touches.
AddBefore(F, sec, front, back) ==
  LET count == IF back = -1 THEN Len(F) - front ELSE back - front
      v     == EraseRun([mem |-> F, n |-> Len(F)], front, count)
      touchesPrevious == front > 0 /\ sec[1] = v.mem[front][2]
      widened(second) == [v.mem EXCEPT ![front] = <<@[1], second>>]
  IN  IF back = -1 \/ sec[2] < v.mem[back + 1][1]
        THEN IF touchesPrevious
               THEN Contents([v EXCEPT !.mem = widened(sec[2])])
               ELSE InsertSection(v, front, sec)
        ELSE IF touchesPrevious
               THEN Contents(EraseAt([v EXCEPT !.mem = widened(v.mem[front + 1][2])],
                                     front))
               ELSE Contents([v EXCEPT !.mem[front + 1] = <<sec[1], @[2]>>])

\* (Mutant: the section is taken to reach the next one behind it.)
AddInsideTouching(F, sec, front, back) ==
  LET full   == [mem |-> F, n |-> Len(F)]
      stop   == IF back = -1 THEN Len(F) ELSE back + 1
      second == IF back = -1 THEN sec[2] ELSE F[back + 1][2]
      v      == EraseRun(full, front + 1, stop)
  IN  Contents([v EXCEPT !.mem[front + 1] = <<@[1], second>>])

\* sec begins inside section front (or right at its first byte): widen that
\* section.  Without a back the loop bound is the shrinking size, so it runs
\* over half of the sections.
AddInside(F, sec, front, back) ==
  LET full   == [mem |-> F, n |-> Len(F)]
      inBack == back # -1 /\ F[back + 1][1] <= sec[2]
      stop   == CASE back = -1 -> front + 1 + (Len(F) - front) \div 2
                  [] inBack    -> back + 1
                  [] OTHER     -> back
      second == IF inBack THEN F[back + 1][2] ELSE sec[2]
      v      == EraseRun(full, front + 1, stop)
  IN  Contents([v EXCEPT !.mem[front + 1] = <<@[1], second>>])

addSection(F, sec) ==
  LET front == FirstBeyond(F, sec[1])
      back  == FirstBeyond(F, sec[2])
  IN  CASE front = -1                  -> Append(F, sec)
        [] front # -1 /\ sec[1] < F[front + 1][1]  -> AddBefore(F, sec, front, back)
        [] OTHER                       -> AddInside(F, sec, front, back)

\* (Mutant: the end of the last section is returned.)
LastSectionEnd(F) == F[Len(F)][2]

\* moveFirstSection returns the end of the first section and drops it.  (On an
\* empty list it returns nothing defined; the receiver never calls it so.)
FirstSectionEnd(F)  == F[1][2]
moveFirstSection(F) == Tail(F)
=============================================================================
