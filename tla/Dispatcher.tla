----------------------------- MODULE Dispatcher -----------------------------
(***************************************************************************)
(* lib/tool/EventDispatcher.cpp: the loop that runs every callback, the    *)
(* list of events, and thread_await, with which the UDP thread and the     *)
(* application's threads wait for a callback's result.                     *)
(*                                                                         *)
(* A thread's call has the form they all have in lib/net: an event is set  *)
(* that captures the caller's locals by reference and sets the flag leave, *)
(* then the thread awaits leave.  Here steps are as small as the locks     *)
(* make them, so that what the other modules take for granted, a callback  *)
(* as one action and an await that returns, is shown.                      *)
(***************************************************************************)
EXTENDS Naturals, FiniteSets

CONSTANTS
  Threads,    \* the threads that call
  System,     \* the dispatcher's thread, system_tid
  MaxCalls    \* bound: calls of one thread

Nobody == "nobody"

ASSUME DispatcherAssumption ==
  /\ System \notin Threads
  /\ Nobody \notin Threads \cup {System}
  /\ MaxCalls \in Nat

VARIABLES
  event_count,    \* the next id
  event_list,     \* the events set and not erased
  ready,          \* ids of the events whose time or condition has come
  system_mutex,   \* who holds it, or Nobody
  owner_tid,
  loop,           \* where run() is
  exec_event,     \* the event it has taken
  interval_id,    \* set()'s tid when a callback calls it
  pc,             \* where the thread's call is
  tid,            \* set()'s tid when the thread calls it
  calls,          \* how many calls the thread has begun
  leave,          \* the flag its event sets
  cond,           \* thread_await's flag
  timeout         \* thread_await's id, per call

listVars == <<event_count, event_list, ready>>
lockVars == <<system_mutex, owner_tid>>
loopVars == <<loop, exec_event, interval_id>>
callVars == <<tid, calls, leave, cond, timeout>>
vars == <<listVars, lockVars, loopVars, pc, callVars>>

\* The call an event belongs to, whose stack frame its callback refers to.
Frames == Threads \X (1..MaxCalls)
NoFrame == <<System, 0>>
Frame(t) == <<t, calls[t]>>

\* work: the event of the call itself; await: thread_await's conditional event;
\* notify: the interval that one sets; timer: an interval of the protocol.
Event(id, kind, frame) == [id |-> id, kind |-> kind, frame |-> frame]
NoEvent == Event(0, "timer", NoFrame)
IsInterval(e) == e.kind \in {"notify", "timer"}

Alive(frame) ==
  frame \in Frames /\ pc[frame[1]] # "idle" /\ calls[frame[1]] = frame[2]

Init ==
  /\ event_count = 2
  /\ event_list = {Event(1, "timer", NoFrame)}
  /\ ready = {}
  /\ system_mutex = Nobody
  /\ owner_tid = System
  /\ loop = "idle"
  /\ exec_event = NoEvent
  /\ interval_id = 0
  /\ pc = [t \in Threads |-> "idle"]
  /\ tid = [t \in Threads |-> 0]
  /\ calls = [t \in Threads |-> 0]
  /\ leave = [t \in Threads |-> FALSE]
  /\ cond = [t \in Threads |-> FALSE]
  /\ timeout = [f \in Frames |-> 0]
-----------------------------------------------------------------------------
(* The list of events.                                                     *)

\* set(), under id_lock.  Mutant: two events may get one id.
SameId(count) == count
NextId(count) == count + 1

\* set(), under event_lock.
Insert(e) == event_list' = {f \in event_list : f.id # e.id} \cup {e}

\* clearTimeout, clearInterval.
Erase(id) ==
  /\ event_list' = {e \in event_list : e.id # id}
  /\ ready' = ready \ {id}

\* An interval's time comes; its condition takes it back when it is found true.
\* What a call waits for comes, bytes for recv() or room for send().
ComesDue(e) ==
  /\ e.kind # "await"
  /\ ready' = ready \cup {e.id}
  /\ UNCHANGED <<event_count, event_list, lockVars, loopVars, pc, callVars>>

\* cond() of an event.  Mutant: the condition of an await is not asked.
DueAnyhow(e) == e.kind = "await" \/ e.id \in ready
Due(e) == IF e.kind = "await" THEN leave[e.frame[1]] ELSE e.id \in ready
-----------------------------------------------------------------------------
(* run(), on the dispatcher's thread.                                      *)

RunLocks ==
  /\ loop = "idle"
  /\ system_mutex = Nobody
  /\ system_mutex' = System
  /\ loop' = "scanning"
  /\ UNCHANGED <<listVars, owner_tid, exec_event, interval_id, pc, callVars>>

\* What is left of the list when e has been taken.  Mutant: erase is forgotten.
NothingTaken(e) == event_list
Taken(e) == IF IsInterval(e) THEN event_list ELSE event_list \ {e}

\* The due event with the lowest id, under event_lock.
Pick(e) ==
  /\ loop = "scanning"
  /\ Due(e)
  /\ \A f \in event_list : f.id < e.id => ~Due(f)
  /\ exec_event' = e
  /\ event_list' = Taken(e)
  /\ ready' = ready \ {e.id}
  /\ loop' = "callback"
  /\ UNCHANGED <<event_count, lockVars, interval_id, pc, callVars>>

PickNone ==
  /\ loop = "scanning"
  /\ \A e \in event_list : ~Due(e)
  /\ loop' = "leaving"
  /\ UNCHANGED <<listVars, lockVars, exec_event, interval_id, pc, callVars>>

\* cv.notify_all: only a thread that is waiting already hears it.
Notified(t) == IF pc[t] = "waiting" THEN [pc EXCEPT ![t] = "testing"] ELSE pc

\* A callback that belongs to no call, or to one that is over: what that one
\* then finds on the stack is not modelled.
RunTimer ==
  /\ loop = "callback"
  /\ ~Alive(exec_event.frame)
  /\ loop' = "leaving"
  /\ UNCHANGED <<listVars, lockVars, exec_event, interval_id, pc, callVars>>

RunWork ==
  LET t == exec_event.frame[1]
  IN  /\ loop = "callback"
      /\ exec_event.kind = "work" /\ Alive(exec_event.frame)
      /\ leave' = [leave EXCEPT ![t] = TRUE]
      /\ loop' = "leaving"
      /\ UNCHANGED <<listVars, lockVars, exec_event, interval_id, pc, tid, calls,
                     cond, timeout>>

RunNotify ==
  /\ loop = "callback"
  /\ exec_event.kind = "notify" /\ Alive(exec_event.frame)
  /\ pc' = Notified(exec_event.frame[1])
  /\ loop' = "leaving"
  /\ UNCHANGED <<listVars, lockVars, exec_event, interval_id, callVars>>

\* thread_await's callback wakes the thread once, then sets an interval that
\* goes on waking it.  Mutant: it does not.
NoInterval == "leaving"
AfterNotify == "setting"

RunAwait ==
  LET t == exec_event.frame[1]
  IN  /\ loop = "callback"
      /\ exec_event.kind = "await" /\ Alive(exec_event.frame)
      /\ cond' = [cond EXCEPT ![t] = TRUE]
      /\ pc' = Notified(t)
      /\ loop' = AfterNotify
      /\ UNCHANGED <<listVars, lockVars, exec_event, interval_id, tid, calls, leave,
                     timeout>>

IntervalTakesId ==
  /\ loop = "setting"
  /\ interval_id' = event_count
  /\ event_count' = NextId(event_count)
  /\ loop' = "inserting"
  /\ UNCHANGED <<event_list, ready, lockVars, exec_event, pc, callVars>>

IntervalInserted ==
  /\ loop = "inserting"
  /\ Insert(Event(interval_id, "notify", exec_event.frame))
  /\ loop' = "naming"
  /\ UNCHANGED <<event_count, ready, lockVars, exec_event, interval_id, pc, callVars>>

IntervalNamed ==
  /\ loop = "naming"
  /\ timeout' = [timeout EXCEPT ![exec_event.frame] = interval_id]
  /\ interval_id' = 0
  /\ loop' = "leaving"
  /\ UNCHANGED <<listVars, lockVars, exec_event, pc, tid, calls, leave, cond>>

RunUnlocks ==
  /\ loop = "leaving"
  /\ system_mutex' = Nobody
  /\ exec_event' = NoEvent
  /\ loop' = "idle"
  /\ UNCHANGED <<listVars, owner_tid, interval_id, pc, callVars>>

Callback ==
  \/ RunTimer \/ RunWork \/ RunNotify \/ RunAwait
  \/ IntervalTakesId \/ IntervalInserted \/ IntervalNamed

Loop == RunLocks \/ PickNone \/ Callback \/ RunUnlocks
-----------------------------------------------------------------------------
(* A call, on a thread of its own.                                         *)

Goes(t, from, to) == pc[t] = from /\ pc' = [pc EXCEPT ![t] = to]

TakesId(t) ==
  /\ tid' = [tid EXCEPT ![t] = event_count]
  /\ event_count' = NextId(event_count)

Inserts(t, kind) == Insert(Event(tid[t], kind, Frame(t)))

CallBegins(t) ==
  /\ Goes(t, "idle", "setting work")
  /\ calls[t] < MaxCalls
  /\ calls' = [calls EXCEPT ![t] = @ + 1]
  /\ TakesId(t)
  /\ UNCHANGED <<event_list, ready, lockVars, loopVars, leave, cond, timeout>>

WorkInserted(t) ==
  /\ Goes(t, "setting work", "work set")
  /\ Inserts(t, "work")
  /\ UNCHANGED <<event_count, ready, lockVars, loopVars, callVars>>

AwaitTakesId(t) ==
  /\ Goes(t, "work set", "setting await")
  /\ TakesId(t)
  /\ UNCHANGED <<event_list, ready, lockVars, loopVars, calls, leave, cond, timeout>>

AwaitInserted(t) ==
  /\ Goes(t, "setting await", "naming")
  /\ Inserts(t, "await")
  /\ UNCHANGED <<event_count, ready, lockVars, loopVars, callVars>>

\* timeout = setConditional(...): the callback may have assigned it before.
AwaitNamed(t) ==
  /\ Goes(t, "naming", "testing")
  /\ timeout' = [timeout EXCEPT ![Frame(t)] = tid[t]]
  /\ UNCHANGED <<listVars, lockVars, loopVars, tid, calls, leave, cond>>

\* while (!cond) cv.wait(lock): the callback does not hold that lock, so it may
\* notify between the test and the wait.
TestFails(t) ==
  /\ Goes(t, "testing", "entering")
  /\ ~cond[t]
  /\ UNCHANGED <<listVars, lockVars, loopVars, callVars>>

WaitEntered(t) ==
  /\ Goes(t, "entering", "waiting")
  /\ UNCHANGED <<listVars, lockVars, loopVars, callVars>>

\* A condition variable may also wake its thread for no reason.
WakesSpuriously(t) ==
  /\ Goes(t, "waiting", "testing")
  /\ UNCHANGED <<listVars, lockVars, loopVars, callVars>>

\* Mutant: the event is cleared without the system's lock.
NoLock == "clearing"
AfterTest == "locking"

TestSucceeds(t) ==
  /\ Goes(t, "testing", AfterTest)
  /\ cond[t]
  /\ UNCHANGED <<listVars, lockVars, loopVars, callVars>>

\* SystemLock::lock: who owns the system already does not lock it again.
Locks(t) ==
  /\ Goes(t, "locking", "clearing")
  /\ IF owner_tid = t THEN UNCHANGED system_mutex
     ELSE system_mutex = Nobody /\ system_mutex' = t
  /\ owner_tid' = t
  /\ UNCHANGED <<listVars, loopVars, callVars>>

\* Mutant: the conditional event is cleared, which is gone, not the interval.
ClearedIsConditional(t) == tid[t]
Cleared(t) == timeout[Frame(t)]

Clears(t) ==
  /\ Goes(t, "clearing", "unlocking")
  /\ Erase(Cleared(t))
  /\ UNCHANGED <<event_count, lockVars, loopVars, callVars>>

\* SystemLock::unlock, for who has locked.  thread_await and its caller then
\* return, and their locals are gone.
Unlocks(t) ==
  /\ Goes(t, "unlocking", "idle")
  /\ IF system_mutex = t THEN system_mutex' = Nobody /\ owner_tid' = System
     ELSE UNCHANGED lockVars
  /\ tid' = [tid EXCEPT ![t] = 0]
  /\ leave' = [leave EXCEPT ![t] = FALSE]
  /\ cond' = [cond EXCEPT ![t] = FALSE]
  /\ UNCHANGED <<listVars, loopVars, calls, timeout>>

Proceeds(t) ==
  \/ WorkInserted(t) \/ AwaitTakesId(t) \/ AwaitInserted(t) \/ AwaitNamed(t)
  \/ TestFails(t) \/ WaitEntered(t) \/ TestSucceeds(t)
  \/ Clears(t) \/ Unlocks(t)

Next ==
  \/ \E e \in event_list : ComesDue(e) \/ Pick(e)
  \/ Loop
  \/ \E t \in Threads :
       CallBegins(t) \/ Proceeds(t) \/ Locks(t) \/ WakesSpuriously(t)

Spec == Init /\ [][Next]_vars

(* Fairness.  The loop and the threads go on.  Intervals are of a           *)
(* millisecond or more and callbacks are short, so again and again a scan   *)
(* finds none of them due.  The lock is not taken from under a thread for   *)
(* ever: when nothing is due run() sleeps without it.  What a call waits    *)
(* for comes in the end; whether it does is for the other modules to show.  *)
(* Nothing is assumed of spurious wakeups and of new calls.                 *)
PicksOnce == \E e \in event_list : ~IsInterval(e) /\ Pick(e)

GetsDue(t) ==
  \E e \in event_list :
    e.kind \in {"work", "notify"} /\ e.frame = Frame(t) /\ ComesDue(e)

FairSpec ==
  /\ Spec
  /\ WF_vars(Loop \/ \E e \in event_list : Pick(e))
  /\ []<><<PickNone \/ PicksOnce>>_vars
  /\ \A t \in Threads :
       /\ WF_vars(Proceeds(t))
       /\ SF_vars(Locks(t))
       /\ WF_vars(GetsDue(t))
-----------------------------------------------------------------------------
(* Properties.                                                             *)

\* Ids are given once, and with them the slots of the list; every other
\* variable stays in its range.
Kinds == {"work", "await", "notify", "timer"}
Events == [id : Nat, kind : Kinds, frame : Frames \cup {NoFrame}]

DispatcherTypeOK ==
  /\ event_count \in Nat
  /\ event_list \subseteq Events
  /\ \A e \in event_list : e.id < event_count
  /\ \A e, f \in event_list : e.id = f.id => e = f
  /\ ready \subseteq 0..(event_count - 1)
  /\ system_mutex \in Threads \cup {System, Nobody}
  /\ owner_tid \in Threads \cup {System}
  /\ loop \in {"idle", "scanning", "callback", "setting", "inserting", "naming",
               "leaving"}
  /\ exec_event \in Events
  /\ interval_id \in Nat
  /\ pc \in [Threads -> {"idle", "setting work", "work set", "setting await",
                         "naming", "testing", "entering", "waiting", "locking",
                         "clearing", "unlocking"}]
  /\ {tid, calls} \subseteq [Threads -> Nat]
  /\ {leave, cond} \subseteq [Threads -> BOOLEAN]
  /\ timeout \in [Frames -> Nat]

\* AwaitNamed has come after the callback: timeout no longer holds the
\* interval's id.
Overwritten(e) == timeout[e.frame] # e.id

\* A callback refers to the locals of the call that has set its event.  It runs
\* while that call lasts, for all its steps, or it is an interval whose id the
\* call has overwritten.
CallbacksHaveFrames ==
  loop \in {"callback", "setting", "inserting", "naming"} =>
    \/ exec_event.kind = "timer"
    \/ Alive(exec_event.frame)
    \/ exec_event.kind = "notify" /\ Overwritten(exec_event)

\* A call that is over has left no event in the list, but for such an interval.
NothingLeftBehind ==
  \A e \in event_list :
    \/ e.kind = "timer"
    \/ Alive(e.frame)
    \/ e.kind = "notify" /\ Overwritten(e)

\* What the other modules take for granted: a call's event has run, as one step,
\* when the call returns.
CallStage(t) ==
  IF pc[t] \in {"idle", "setting work"} THEN "away"
  ELSE IF leave[t] THEN "done" ELSE "registered"

Calls == INSTANCE SynchronousCalls WITH stage <- [t \in Threads |-> CallStage(t)]

CallsAreSynchronous == Calls!Spec

\* Every call returns: no wakeup is lost for good, no event starves.
EveryCallReturns == Calls!EveryCallReturns
=============================================================================
