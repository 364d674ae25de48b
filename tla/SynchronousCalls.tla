-------------------------- MODULE SynchronousCalls --------------------------
(***************************************************************************)
(* What the event dispatcher promises the threads that are not its own.    *)
(* Such a thread registers an event and waits for it; the event runs once, *)
(* on the dispatcher's thread, and only then the call returns.             *)
(***************************************************************************)
CONSTANT Threads

VARIABLE stage    \* where the call of each thread is

Init == stage = [t \in Threads |-> "away"]

Moves(t, from, to) == stage[t] = from /\ stage' = [stage EXCEPT ![t] = to]

Register(t) == Moves(t, "away", "registered")

Execute(t) == Moves(t, "registered", "done")

Return(t) == Moves(t, "done", "away")

Next == \E t \in Threads : Register(t) \/ Execute(t) \/ Return(t)

Spec == Init /\ [][Next]_stage

\* Every call returns.
EveryCallReturns == \A t \in Threads : stage[t] = "registered" ~> stage[t] = "away"
=============================================================================
