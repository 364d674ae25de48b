------------------------------ MODULE MCSender ------------------------------
(* The sender on a ring of 5 slots that the stream runs round, facing      *)
(* windows of nothing, less than a segment, and plenty.                    *)
EXTENDS Sender
=============================================================================
