---------------------------- MODULE MCConnection ----------------------------
(* A connection with buffers of a few bytes, on networks that hold one or  *)
(* two segments.                                                           *)
EXTENDS Connection
=============================================================================
