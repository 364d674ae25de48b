---------------------------- MODULE MCHandshake ----------------------------
(* A server and two clients.                                               *)
EXTENDS Handshake, TLC

Symmetry == Permutations(Clients)
=============================================================================
