-------------------------- MODULE DispatcherProofs --------------------------
(***************************************************************************)
(* The safety of the event dispatcher, for any set of threads and any      *)
(* number of calls.                                                        *)
(***************************************************************************)
EXTENDS Dispatcher, TLAPS

\* The events that may yet run, or are running their first step.
Live == event_list \cup {e \in {exec_event} : loop = "callback"}

Once == {"work", "await"}
Thread(e) == e.frame[1]

\* Ids that are about to be used have been given; a call that lasts has a number.
IdsGiven ==
  /\ interval_id < event_count
  /\ \A t \in Threads :
       /\ tid[t] < event_count
       /\ pc[t] # "idle" => calls[t] \in 1..MaxCalls

\* The system is held by the loop or by the thread that clears its event.
LocksInOrder ==
  /\ system_mutex = System <=> loop # "idle"
  /\ \A t \in Threads : system_mutex = t <=> pc[t] \in {"clearing", "unlocking"}
  /\ \A t \in Threads : owner_tid = t => system_mutex = t

\* A call's flags are set in order, and only while it lasts.
FlagsInOrder ==
  \A t \in Threads :
    /\ leave[t] => pc[t] \notin {"idle", "setting work"}
    /\ cond[t] => leave[t] /\ pc[t] \notin {"work set", "setting await"}
    /\ pc[t] \in {"locking", "clearing", "unlocking"} => cond[t]

\* A call sets each of its events once, and run() takes it from the list.
OnceEach ==
  /\ \A e, f \in Live :
       e.kind \in Once /\ e.kind = f.kind /\ e.frame = f.frame => e = f
  /\ loop = "callback" /\ exec_event.kind \in Once => exec_event \notin event_list

WorkInTime ==
  \A e \in Live :
    e.kind = "work" =>
      /\ Alive(e.frame)
      /\ pc[Thread(e)] # "setting work"
      /\ ~leave[Thread(e)]

AwaitInTime ==
  /\ \A e \in Live :
       e.kind = "await" =>
         /\ Alive(e.frame)
         /\ pc[Thread(e)] \in {"naming", "testing", "entering", "waiting"}
         /\ ~cond[Thread(e)]
  /\ loop = "callback" /\ exec_event.kind = "await" => leave[Thread(exec_event)]

NotifyInTime ==
  \A e \in Live : e.kind = "notify" =>
    e.frame \in Frames /\ (Alive(e.frame) \/ Overwritten(e))

\* The rest of a callback runs while its call lasts.
CallbackInTime ==
  loop \in {"setting", "inserting", "naming"} =>
    Alive(exec_event.frame) /\ exec_event.kind = "await"

\* What Clears has left of the call's intervals.
ClearedInTime ==
  \A t \in Threads, e \in event_list :
    pc[t] = "unlocking" /\ e.kind = "notify" /\ e.frame = Frame(t) => Overwritten(e)

DispatcherInv ==
  /\ DispatcherTypeOK /\ IdsGiven /\ LocksInOrder /\ FlagsInOrder /\ OnceEach
  /\ WorkInTime /\ AwaitInTime /\ NotifyInTime /\ CallbackInTime /\ ClearedInTime
-----------------------------------------------------------------------------
(* Lemmas.                                                                 *)

\* A new id is above the others.
LEMMA NewId ==
  ASSUME NEW n \in Nat
  PROVE  /\ NextId(n) \in Nat
         /\ n < NextId(n)
         /\ \A i \in Nat : i < n => i < NextId(n)
         /\ \A i \in 0..(n - 1) : i \in 0..(NextId(n) - 1)
BY DEF NextId

LEMMA NextCall ==
  ASSUME NEW n \in Nat
  PROVE  n + 1 \in Nat /\ \A m \in Nat : n < m => n + 1 \in 1..m
OBVIOUS

LEMMA FramesDiffer ==
  ASSUME NEW f \in Frames, NEW g \in Frames, f[1] = g[1], f[2] = g[2]
  PROVE  f = g
BY DEF Frames

\* The list has one event of an id.
LEMMA InsertTypes ==
  ASSUME DispatcherTypeOK, NEW e \in Events, e.id < event_count, Insert(e)
  PROVE  /\ event_list' \subseteq Events
         /\ \A f \in event_list' : f.id < event_count
         /\ \A f, g \in event_list' : f.id = g.id => f = g
BY DEF DispatcherTypeOK, Insert

\* While the loop has the system, no thread clears its event.
LEMMA LoopHolds ==
  ASSUME DispatcherTypeOK, LocksInOrder, loop # "idle"
  PROVE  \A t \in Threads : pc[t] \notin {"clearing", "unlocking"}
BY DispatcherAssumption DEF DispatcherTypeOK, LocksInOrder

\* A thread that clears its event is the only one, and the loop is idle.
LEMMA ThreadHolds ==
  ASSUME LocksInOrder, NEW t \in Threads, pc[t] \in {"clearing", "unlocking"}
  PROVE  /\ loop = "idle"
         /\ system_mutex = t
         /\ \A u \in Threads \ {t} : pc[u] \notin {"clearing", "unlocking"}
BY DispatcherAssumption DEF LocksInOrder

LEMMA EventFields ==
  ASSUME NEW id, NEW kind, NEW frame
  PROVE  /\ Event(id, kind, frame).id = id
         /\ Event(id, kind, frame).kind = kind
         /\ Event(id, kind, frame).frame = frame
BY DEF Event

LEMMA FrameOf ==
  ASSUME DispatcherInv, NEW t \in Threads, pc[t] # "idle"
  PROVE  Frame(t) \in Frames /\ Frame(t)[1] = t /\ Alive(Frame(t))
BY DEF DispatcherInv, IdsGiven, Frame, Frames, Alive
-----------------------------------------------------------------------------
(* The loop's steps and the threads'.                                      *)

LEMMA RunLocksStep ==
  ASSUME DispatcherInv, RunLocks PROVE DispatcherInv'
<1> USE DEF DispatcherInv, listVars, lockVars, loopVars, callVars
<1>0. DispatcherTypeOK'
  BY DispatcherAssumption DEF DispatcherTypeOK, RunLocks
<1>1. IdsGiven'
  BY DEF DispatcherTypeOK, IdsGiven, RunLocks
<1>2. LocksInOrder'
  BY DispatcherAssumption DEF DispatcherTypeOK, LocksInOrder, RunLocks
<1>3. FlagsInOrder'
  BY DEF DispatcherTypeOK, FlagsInOrder, RunLocks
<1>4. OnceEach'
  BY DEF OnceEach, Live, RunLocks
<1>5. WorkInTime'
  BY DEF DispatcherTypeOK, WorkInTime, Live, Alive, Thread, Frames, RunLocks
<1>6. AwaitInTime'
  BY DEF DispatcherTypeOK, AwaitInTime, Live, Alive, Thread, Frames, RunLocks
<1>7. NotifyInTime'
  BY DEF DispatcherTypeOK, NotifyInTime, Live, Alive, Frames, Overwritten,
     RunLocks
<1>8. CallbackInTime'
  BY DEF DispatcherTypeOK, CallbackInTime, Alive, Frames, RunLocks
<1>9. ClearedInTime'
  BY DEF DispatcherTypeOK, ClearedInTime, Frame, Overwritten, RunLocks
<1> QED BY <1>0, <1>1, <1>2, <1>3, <1>4, <1>5, <1>6, <1>7, <1>8, <1>9

LEMMA PickNoneStep ==
  ASSUME DispatcherInv, PickNone PROVE DispatcherInv'
<1> USE DEF DispatcherInv, listVars, lockVars, loopVars, callVars
<1>0. DispatcherTypeOK'
  BY DispatcherAssumption DEF DispatcherTypeOK, PickNone
<1>1. IdsGiven'
  BY DEF DispatcherTypeOK, IdsGiven, PickNone
<1>2. LocksInOrder'
  BY DispatcherAssumption DEF DispatcherTypeOK, LocksInOrder, PickNone
<1>3. FlagsInOrder'
  BY DEF DispatcherTypeOK, FlagsInOrder, PickNone
<1>4. OnceEach'
  BY DEF OnceEach, Live, PickNone
<1>5. WorkInTime'
  BY DEF DispatcherTypeOK, WorkInTime, Live, Alive, Thread, Frames, PickNone
<1>6. AwaitInTime'
  BY DEF DispatcherTypeOK, AwaitInTime, Live, Alive, Thread, Frames, PickNone
<1>7. NotifyInTime'
  BY DEF DispatcherTypeOK, NotifyInTime, Live, Alive, Frames, Overwritten,
     PickNone
<1>8. CallbackInTime'
  BY DEF DispatcherTypeOK, CallbackInTime, Alive, Frames, PickNone
<1>9. ClearedInTime'
  BY DEF DispatcherTypeOK, ClearedInTime, Frame, Overwritten, PickNone
<1> QED BY <1>0, <1>1, <1>2, <1>3, <1>4, <1>5, <1>6, <1>7, <1>8, <1>9

LEMMA PickStep ==
  ASSUME DispatcherInv, NEW e \in event_list, Pick(e) PROVE DispatcherInv'
<1> USE DEF DispatcherInv, listVars, lockVars, loopVars, callVars
<1>0. DispatcherTypeOK'
  BY DispatcherAssumption DEF DispatcherTypeOK, Pick, Taken, IsInterval
<1>1. IdsGiven'
  BY DEF DispatcherTypeOK, IdsGiven, Pick, Taken, IsInterval
<1>2. LocksInOrder'
  BY DispatcherAssumption DEF DispatcherTypeOK, LocksInOrder, Pick, Taken,
     IsInterval
<1>3. FlagsInOrder'
  BY DEF DispatcherTypeOK, FlagsInOrder, Pick, Taken, IsInterval
<1>4. OnceEach'
  <2>1. Live' \subseteq Live
    BY DEF Live, Pick, Taken
  <2>2. exec_event'.kind \in Once => exec_event' \notin event_list'
    BY DEF Once, Pick, Taken, IsInterval
  <2> QED BY <2>1, <2>2 DEF OnceEach
<1>5. WorkInTime'
  BY DEF DispatcherTypeOK, WorkInTime, Live, Alive, Thread, Frames, Pick,
     Taken, IsInterval
<1>6. AwaitInTime'
  BY DEF DispatcherTypeOK, AwaitInTime, Live, Alive, Thread, Frames, Pick,
     Taken, IsInterval, Due
<1>7. NotifyInTime'
  BY DEF DispatcherTypeOK, NotifyInTime, Live, Alive, Frames, Overwritten,
     Pick, Taken, IsInterval
<1>8. CallbackInTime'
  BY DEF DispatcherTypeOK, CallbackInTime, Alive, Frames, Pick, Taken,
     IsInterval
<1>9. ClearedInTime'
  BY LoopHolds DEF DispatcherTypeOK, ClearedInTime, Frame, Overwritten, Pick,
     Taken, IsInterval
<1> QED BY <1>0, <1>1, <1>2, <1>3, <1>4, <1>5, <1>6, <1>7, <1>8, <1>9

LEMMA ComesDueStep ==
  ASSUME DispatcherInv, NEW e \in event_list, ComesDue(e) PROVE DispatcherInv'
<1> USE DEF DispatcherInv, listVars, lockVars, loopVars, callVars
<1>0. DispatcherTypeOK'
  <2>1. event_count \in Nat /\ e.id \in Nat /\ e.id < event_count
    BY DEF DispatcherTypeOK, Events
  <2>2. e.id \in 0..(event_count - 1)
    BY <2>1
  <2> QED BY <2>2 DEF DispatcherTypeOK, ComesDue
<1>1. IdsGiven'
  BY DEF DispatcherTypeOK, IdsGiven, ComesDue
<1>2. LocksInOrder'
  BY DispatcherAssumption DEF DispatcherTypeOK, LocksInOrder, ComesDue
<1>3. FlagsInOrder'
  BY DEF DispatcherTypeOK, FlagsInOrder, ComesDue
<1>4. OnceEach'
  BY DEF OnceEach, Live, ComesDue
<1>5. WorkInTime'
  BY DEF DispatcherTypeOK, WorkInTime, Live, Alive, Thread, Frames, ComesDue
<1>6. AwaitInTime'
  BY DEF DispatcherTypeOK, AwaitInTime, Live, Alive, Thread, Frames, ComesDue
<1>7. NotifyInTime'
  BY DEF DispatcherTypeOK, NotifyInTime, Live, Alive, Frames, Overwritten,
     ComesDue
<1>8. CallbackInTime'
  BY DEF DispatcherTypeOK, CallbackInTime, Alive, Frames, ComesDue
<1>9. ClearedInTime'
  BY DEF DispatcherTypeOK, ClearedInTime, Frame, Overwritten, ComesDue
<1> QED BY <1>0, <1>1, <1>2, <1>3, <1>4, <1>5, <1>6, <1>7, <1>8, <1>9

LEMMA RunTimerStep ==
  ASSUME DispatcherInv, RunTimer PROVE DispatcherInv'
<1> USE DEF DispatcherInv, listVars, lockVars, loopVars, callVars
<1>0. DispatcherTypeOK'
  BY DispatcherAssumption DEF DispatcherTypeOK, RunTimer
<1>1. IdsGiven'
  BY DEF DispatcherTypeOK, IdsGiven, RunTimer
<1>2. LocksInOrder'
  BY DispatcherAssumption DEF DispatcherTypeOK, LocksInOrder, RunTimer
<1>3. FlagsInOrder'
  BY DEF DispatcherTypeOK, FlagsInOrder, RunTimer
<1>4. OnceEach'
  BY DEF OnceEach, Live, RunTimer
<1>5. WorkInTime'
  BY DEF DispatcherTypeOK, WorkInTime, Live, Alive, Thread, Frames, RunTimer
<1>6. AwaitInTime'
  BY DEF DispatcherTypeOK, AwaitInTime, Live, Alive, Thread, Frames, RunTimer
<1>7. NotifyInTime'
  BY DEF DispatcherTypeOK, NotifyInTime, Live, Alive, Frames, Overwritten,
     RunTimer
<1>8. CallbackInTime'
  BY DEF DispatcherTypeOK, CallbackInTime, Alive, Frames, RunTimer
<1>9. ClearedInTime'
  BY DEF DispatcherTypeOK, ClearedInTime, Frame, Overwritten, RunTimer
<1> QED BY <1>0, <1>1, <1>2, <1>3, <1>4, <1>5, <1>6, <1>7, <1>8, <1>9

LEMMA RunWorkStep ==
  ASSUME DispatcherInv, RunWork PROVE DispatcherInv'
<1> USE DEF DispatcherInv, listVars, lockVars, loopVars, callVars
<1>0. DispatcherTypeOK'
  BY DispatcherAssumption DEF DispatcherTypeOK, RunWork, Alive, Frames
<1>1. IdsGiven'
  BY DEF DispatcherTypeOK, IdsGiven, RunWork
<1>2. LocksInOrder'
  BY DispatcherAssumption DEF DispatcherTypeOK, LocksInOrder, RunWork
<1>3. FlagsInOrder'
  BY DEF DispatcherTypeOK, FlagsInOrder, RunWork, WorkInTime, Live, Alive,
     Thread, Frames
<1>4. OnceEach'
  BY DEF OnceEach, Live, RunWork
<1>5. WorkInTime'
  <2>1. exec_event \notin event_list
    BY DEF OnceEach, Once, RunWork
  <2>2. \A f \in event_list : f.kind = "work" => f.frame # exec_event.frame
    BY <2>1 DEF OnceEach, Once, RunWork, Live
  <2>3. \A f \in Live : f.kind = "work" => Alive(f.frame) /\ f.frame \in Frames
    BY DEF WorkInTime, Alive
  <2>4. exec_event \in Live /\ exec_event.kind = "work" /\ event_list \subseteq Live
    BY DEF Live, RunWork
  <2>5. \A f \in event_list : f.kind = "work" => Thread(f) # Thread(exec_event)
    BY <2>2, <2>3, <2>4, FramesDiffer DEF Alive, Thread
  <2> QED BY <2>5 DEF DispatcherTypeOK, WorkInTime, Live, Alive, Thread, Frames, RunWork
<1>6. AwaitInTime'
  BY DEF DispatcherTypeOK, AwaitInTime, Live, Alive, Thread, Frames, RunWork
<1>7. NotifyInTime'
  BY DEF DispatcherTypeOK, NotifyInTime, Live, Alive, Frames, Overwritten,
     RunWork
<1>8. CallbackInTime'
  BY DEF DispatcherTypeOK, CallbackInTime, Alive, Frames, RunWork
<1>9. ClearedInTime'
  BY DEF DispatcherTypeOK, ClearedInTime, Frame, Overwritten, RunWork
<1> QED BY <1>0, <1>1, <1>2, <1>3, <1>4, <1>5, <1>6, <1>7, <1>8, <1>9

LEMMA RunNotifyStep ==
  ASSUME DispatcherInv, RunNotify PROVE DispatcherInv'
<1> USE DEF DispatcherInv, listVars, lockVars, loopVars, callVars
<1>0. DispatcherTypeOK'
  BY DispatcherAssumption DEF DispatcherTypeOK, RunNotify, Notified, Alive,
     Frames
<1>1. IdsGiven'
  BY DEF DispatcherTypeOK, IdsGiven, RunNotify, Notified
<1>2. LocksInOrder'
  BY DispatcherAssumption DEF DispatcherTypeOK, LocksInOrder, RunNotify,
     Notified
<1>3. FlagsInOrder'
  BY DEF DispatcherTypeOK, FlagsInOrder, RunNotify, Notified
<1>4. OnceEach'
  BY DEF OnceEach, Live, RunNotify, Notified
<1>5. WorkInTime'
  BY DEF DispatcherTypeOK, WorkInTime, Live, Alive, Thread, Frames, RunNotify,
     Notified
<1>6. AwaitInTime'
  BY DEF DispatcherTypeOK, AwaitInTime, Live, Alive, Thread, Frames,
     RunNotify, Notified
<1>7. NotifyInTime'
  BY DEF DispatcherTypeOK, NotifyInTime, Live, Alive, Frames, Overwritten,
     RunNotify, Notified
<1>8. CallbackInTime'
  BY DEF DispatcherTypeOK, CallbackInTime, Alive, Frames, RunNotify, Notified
<1>9. ClearedInTime'
  BY DEF DispatcherTypeOK, ClearedInTime, Frame, Overwritten, RunNotify,
     Notified
<1> QED BY <1>0, <1>1, <1>2, <1>3, <1>4, <1>5, <1>6, <1>7, <1>8, <1>9

LEMMA RunAwaitStep ==
  ASSUME DispatcherInv, RunAwait PROVE DispatcherInv'
<1> USE DEF DispatcherInv, listVars, lockVars, loopVars, callVars
<1>0. DispatcherTypeOK'
  BY DispatcherAssumption DEF DispatcherTypeOK, RunAwait, Notified,
     AfterNotify, Alive, Frames
<1>1. IdsGiven'
  BY DEF DispatcherTypeOK, IdsGiven, RunAwait, Notified, AfterNotify
<1>2. LocksInOrder'
  BY DispatcherAssumption DEF DispatcherTypeOK, LocksInOrder, RunAwait,
     Notified, AfterNotify
<1>3. FlagsInOrder'
  BY DEF DispatcherTypeOK, FlagsInOrder, RunAwait, Notified, AfterNotify,
     AwaitInTime, Live, Alive, Thread, Frames
<1>4. OnceEach'
  BY DEF OnceEach, Live, RunAwait, Notified, AfterNotify
<1>5. WorkInTime'
  BY DEF DispatcherTypeOK, WorkInTime, Live, Alive, Thread, Frames, RunAwait,
     Notified, AfterNotify
<1>6. AwaitInTime'
  <2>1. exec_event \notin event_list
    BY DEF OnceEach, Once, RunAwait
  <2>2. \A f \in event_list : f.kind = "await" => f.frame # exec_event.frame
    BY <2>1 DEF OnceEach, Once, RunAwait, Live
  <2>3. \A f \in event_list : f.kind = "await" => Thread(f) # Thread(exec_event)
    BY <2>2 DEF AwaitInTime, Live, Alive, Thread, Frames, RunAwait
  <2>4. loop' = "setting" /\ Live' = event_list
    BY DEF RunAwait, AfterNotify, Live
  <2>5. \A u \in Threads : u # Thread(exec_event) => pc'[u] = pc[u] /\ cond'[u] = cond[u]
    BY DEF RunAwait, Notified, Thread, DispatcherTypeOK
  <2>6. calls' = calls
    BY DEF RunAwait
  <2> QED BY <2>3, <2>4, <2>5, <2>6 DEF AwaitInTime, Live, Alive, Thread, Frames
<1>7. NotifyInTime'
  BY DEF DispatcherTypeOK, NotifyInTime, Live, Alive, Frames, Overwritten,
     RunAwait, Notified, AfterNotify
<1>8. CallbackInTime'
  BY DEF DispatcherTypeOK, CallbackInTime, Alive, Frames, RunAwait, Notified,
     AfterNotify, AwaitInTime, Live
<1>9. ClearedInTime'
  BY DEF DispatcherTypeOK, ClearedInTime, Frame, Overwritten, RunAwait,
     Notified, AfterNotify
<1> QED BY <1>0, <1>1, <1>2, <1>3, <1>4, <1>5, <1>6, <1>7, <1>8, <1>9

LEMMA IntervalTakesIdStep ==
  ASSUME DispatcherInv, IntervalTakesId PROVE DispatcherInv'
<1> USE DEF DispatcherInv, listVars, lockVars, loopVars, callVars
<1>0. DispatcherTypeOK'
  <2>1. event_count \in Nat /\ event_count' = NextId(event_count)
    BY DEF DispatcherTypeOK, IntervalTakesId
  <2>2. /\ event_list' = event_list /\ \A f \in event_list : f.id \in Nat /\ f.id < event_count
        /\ ready' = ready /\ ready \subseteq 0..(event_count - 1)
    BY DEF DispatcherTypeOK, Events, IntervalTakesId
  <2>3. /\ event_count' \in Nat
        /\ \A f \in event_list' : f.id < event_count'
        /\ ready' \subseteq 0..(event_count' - 1)
    BY <2>1, <2>2, NewId
  <2> QED BY <2>1, <2>2, <2>3 DEF DispatcherTypeOK, IntervalTakesId
<1>1. IdsGiven'
  <2>t. /\ event_count \in Nat /\ interval_id \in Nat /\ tid \in [Threads -> Nat]
        /\ calls \in [Threads -> Nat] /\ pc = [u \in Threads |-> pc[u]]
    BY DEF DispatcherTypeOK
  <2>g. /\ interval_id < event_count
        /\ \A u \in Threads : tid[u] < event_count
        /\ \A u \in Threads : pc[u] # "idle" => calls[u] \in 1..MaxCalls
    BY DEF IdsGiven
  <2>1. event_count' = NextId(event_count)
    BY DEF IntervalTakesId
  <2>2. interval_id' \in {interval_id, event_count}
    BY DEF IntervalTakesId
  <2>3. \A u \in Threads : tid'[u] \in {tid[u], event_count}
    BY <2>t DEF IntervalTakesId
  <2>5. \A u \in Threads : pc'[u] # "idle" => calls'[u] \in 1..MaxCalls
    BY <2>t, <2>g DEF IntervalTakesId
  <2>6. \A i \in Nat : i <= event_count => i < NextId(event_count)
    BY <2>t, NewId
  <2>7. interval_id \in Nat /\ \A u \in Threads : tid[u] \in Nat
    BY <2>t
  <2>8. interval_id' < event_count'
    BY <2>t, <2>g, <2>1, <2>2, <2>6
  <2>9. \A u \in Threads : tid'[u] < event_count'
    BY <2>t, <2>g, <2>1, <2>3, <2>6, <2>7
  <2> QED BY <2>5, <2>8, <2>9 DEF IdsGiven
<1>2. LocksInOrder'
  BY DispatcherAssumption DEF DispatcherTypeOK, LocksInOrder, IntervalTakesId
<1>3. FlagsInOrder'
  BY DEF DispatcherTypeOK, FlagsInOrder, IntervalTakesId
<1>4. OnceEach'
  BY DEF OnceEach, Live, IntervalTakesId
<1>5. WorkInTime'
  BY DEF DispatcherTypeOK, WorkInTime, Live, Alive, Thread, Frames,
     IntervalTakesId
<1>6. AwaitInTime'
  BY DEF DispatcherTypeOK, AwaitInTime, Live, Alive, Thread, Frames,
     IntervalTakesId
<1>7. NotifyInTime'
  BY DEF DispatcherTypeOK, NotifyInTime, Live, Alive, Frames, Overwritten,
     IntervalTakesId
<1>8. CallbackInTime'
  BY DEF DispatcherTypeOK, CallbackInTime, Alive, Frames, IntervalTakesId
<1>9. ClearedInTime'
  BY DEF DispatcherTypeOK, ClearedInTime, Frame, Overwritten, IntervalTakesId
<1> QED BY <1>0, <1>1, <1>2, <1>3, <1>4, <1>5, <1>6, <1>7, <1>8, <1>9

LEMMA IntervalInsertedStep ==
  ASSUME DispatcherInv, IntervalInserted PROVE DispatcherInv'
<1> USE DEF DispatcherInv, listVars, lockVars, loopVars, callVars
<1> DEFINE n == Event(interval_id, "notify", exec_event.frame)
<1>n. /\ n.id = interval_id /\ n.kind = "notify" /\ n.frame = exec_event.frame
      /\ Insert(n)
  BY EventFields DEF IntervalInserted
<1> HIDE DEF n
<1>l. Live = event_list /\ Live' \subseteq Live \cup {n} /\ event_list' \subseteq event_list \cup {n}
      /\ loop' = "naming" /\ exec_event' = exec_event /\ UNCHANGED <<pc, callVars>>
  BY <1>n DEF Live, IntervalInserted, Insert
<1>0. DispatcherTypeOK'
  <2>1. n \in Events
    BY DEF n, CallbackInTime, Alive, Events, Kinds, Event, DispatcherTypeOK, IntervalInserted
  <2>2. n.id < event_count
    BY <1>n DEF IdsGiven
  <2> QED BY <2>1, <2>2, <1>n, InsertTypes DEF DispatcherTypeOK, IntervalInserted
<1>1. IdsGiven'
  BY DEF DispatcherTypeOK, IdsGiven, IntervalInserted
<1>2. LocksInOrder'
  BY DispatcherAssumption DEF DispatcherTypeOK, LocksInOrder, IntervalInserted
<1>3. FlagsInOrder'
  BY DEF DispatcherTypeOK, FlagsInOrder, IntervalInserted
<1>4. OnceEach'
  BY <1>n, <1>l DEF OnceEach, Once
<1>5. WorkInTime'
  BY <1>n, <1>l DEF WorkInTime, Alive, Thread
<1>6. AwaitInTime'
  BY <1>n, <1>l DEF AwaitInTime, Alive, Thread
<1>7. NotifyInTime'
  BY <1>n, <1>l DEF NotifyInTime, CallbackInTime, Alive, Overwritten, IntervalInserted
<1>8. CallbackInTime'
  BY DEF DispatcherTypeOK, CallbackInTime, Alive, Frames, IntervalInserted
<1>9. ClearedInTime'
  BY LoopHolds DEF ClearedInTime, IntervalInserted
<1> QED BY <1>0, <1>1, <1>2, <1>3, <1>4, <1>5, <1>6, <1>7, <1>8, <1>9

LEMMA IntervalNamedStep ==
  ASSUME DispatcherInv, IntervalNamed PROVE DispatcherInv'
<1> USE DEF DispatcherInv, listVars, lockVars, loopVars, callVars
<1>0. DispatcherTypeOK'
  BY DispatcherAssumption DEF DispatcherTypeOK, IntervalNamed, IdsGiven
<1>1. IdsGiven'
  <2>1. interval_id \in Nat /\ event_count \in Nat
    BY DEF DispatcherTypeOK
  <2> QED BY <2>1 DEF IdsGiven, IntervalNamed
<1>2. LocksInOrder'
  BY DispatcherAssumption DEF DispatcherTypeOK, LocksInOrder, IntervalNamed
<1>3. FlagsInOrder'
  BY DEF DispatcherTypeOK, FlagsInOrder, IntervalNamed
<1>4. OnceEach'
  BY DEF OnceEach, Live, IntervalNamed
<1>5. WorkInTime'
  BY DEF DispatcherTypeOK, WorkInTime, Live, Alive, Thread, Frames,
     IntervalNamed
<1>6. AwaitInTime'
  BY DEF DispatcherTypeOK, AwaitInTime, Live, Alive, Thread, Frames,
     IntervalNamed
<1>7. NotifyInTime'
  BY DEF DispatcherTypeOK, NotifyInTime, Live, Alive, Frames, Overwritten,
     IntervalNamed, CallbackInTime
<1>8. CallbackInTime'
  BY DEF DispatcherTypeOK, CallbackInTime, Alive, Frames, IntervalNamed
<1>9. ClearedInTime'
  BY LoopHolds DEF ClearedInTime, IntervalNamed
<1> QED BY <1>0, <1>1, <1>2, <1>3, <1>4, <1>5, <1>6, <1>7, <1>8, <1>9

LEMMA RunUnlocksStep ==
  ASSUME DispatcherInv, RunUnlocks PROVE DispatcherInv'
<1> USE DEF DispatcherInv, listVars, lockVars, loopVars, callVars
<1>0. DispatcherTypeOK'
  BY DispatcherAssumption DEF DispatcherTypeOK, RunUnlocks, NoEvent, NoFrame,
     Event, Events, Kinds
<1>1. IdsGiven'
  BY DEF DispatcherTypeOK, IdsGiven, RunUnlocks, NoEvent, NoFrame, Event,
     Events, Kinds
<1>2. LocksInOrder'
  BY DispatcherAssumption DEF DispatcherTypeOK, LocksInOrder, RunUnlocks,
     NoEvent, NoFrame, Event, Events, Kinds
<1>3. FlagsInOrder'
  BY DEF DispatcherTypeOK, FlagsInOrder, RunUnlocks, NoEvent, NoFrame, Event,
     Events, Kinds
<1>4. OnceEach'
  BY DEF OnceEach, Live, RunUnlocks, NoEvent, NoFrame, Event, Events, Kinds
<1>5. WorkInTime'
  BY DEF DispatcherTypeOK, WorkInTime, Live, Alive, Thread, Frames,
     RunUnlocks, NoEvent, NoFrame, Event, Events, Kinds
<1>6. AwaitInTime'
  BY DEF DispatcherTypeOK, AwaitInTime, Live, Alive, Thread, Frames,
     RunUnlocks, NoEvent, NoFrame, Event, Events, Kinds
<1>7. NotifyInTime'
  BY DEF DispatcherTypeOK, NotifyInTime, Live, Alive, Frames, Overwritten,
     RunUnlocks, NoEvent, NoFrame, Event, Events, Kinds
<1>8. CallbackInTime'
  BY DEF DispatcherTypeOK, CallbackInTime, Alive, Frames, RunUnlocks, NoEvent,
     NoFrame, Event, Events, Kinds
<1>9. ClearedInTime'
  BY DEF DispatcherTypeOK, ClearedInTime, Frame, Overwritten, RunUnlocks,
     NoEvent, NoFrame, Event, Events, Kinds
<1> QED BY <1>0, <1>1, <1>2, <1>3, <1>4, <1>5, <1>6, <1>7, <1>8, <1>9

LEMMA CallBeginsStep ==
  ASSUME DispatcherInv, NEW t \in Threads, CallBegins(t) PROVE DispatcherInv'
<1> USE DEF DispatcherInv, Goes, listVars, lockVars, loopVars, callVars
<1>0. DispatcherTypeOK'
  <2>1. event_count \in Nat /\ event_count' = NextId(event_count)
    BY DEF DispatcherTypeOK, CallBegins, TakesId
  <2>2. /\ event_list' = event_list /\ \A f \in event_list : f.id \in Nat /\ f.id < event_count
        /\ ready' = ready /\ ready \subseteq 0..(event_count - 1)
    BY DEF DispatcherTypeOK, Events, CallBegins, TakesId
  <2>3. /\ event_count' \in Nat
        /\ \A f \in event_list' : f.id < event_count'
        /\ ready' \subseteq 0..(event_count' - 1)
    BY <2>1, <2>2, NewId
  <2>7. tid \in [Threads -> Nat] /\ calls \in [Threads -> Nat]
    BY DEF DispatcherTypeOK
  <2>8. tid' \in [Threads -> Nat]
    BY <2>1, <2>7 DEF CallBegins, TakesId
  <2>9. calls' \in [Threads -> Nat]
    <3>1. calls[t] \in Nat
      BY <2>7
    <3>2. calls[t] + 1 \in Nat
      BY <3>1, NextCall
    <3>3. calls' = [calls EXCEPT ![t] = calls[t] + 1]
      BY DEF CallBegins
    <3> QED BY <2>7, <3>2, <3>3
  <2>4. ({tid, calls} \subseteq [Threads -> Nat])'
    BY <2>8, <2>9
  <2>5. (pc \in [Threads -> {"idle", "setting work", "work set", "setting await",
                         "naming", "testing", "entering", "waiting", "locking",
                         "clearing", "unlocking"}])'
    BY DEF DispatcherTypeOK, CallBegins
  <2>6. UNCHANGED <<lockVars, loopVars, leave, cond, timeout>>
    BY DEF CallBegins
  <2> QED BY <2>2, <2>3, <2>4, <2>5, <2>6 DEF DispatcherTypeOK
<1>1. IdsGiven'
  <2>t. /\ event_count \in Nat /\ interval_id \in Nat /\ tid \in [Threads -> Nat]
        /\ calls \in [Threads -> Nat] /\ pc = [u \in Threads |-> pc[u]]
    BY DEF DispatcherTypeOK
  <2>g. /\ interval_id < event_count
        /\ \A u \in Threads : tid[u] < event_count
        /\ \A u \in Threads : pc[u] # "idle" => calls[u] \in 1..MaxCalls
    BY DEF IdsGiven
  <2>1. event_count' = NextId(event_count)
    BY DEF CallBegins, TakesId
  <2>2. interval_id' \in {interval_id, event_count}
    BY DEF CallBegins, TakesId
  <2>3. \A u \in Threads : tid'[u] \in {tid[u], event_count}
    BY <2>t DEF CallBegins, TakesId
  <2>4. /\ pc' = [pc EXCEPT ![t] = "setting work"] /\ calls[t] < MaxCalls
        /\ calls' = [calls EXCEPT ![t] = calls[t] + 1]
    BY DEF CallBegins
  <2>5. \A u \in Threads : pc'[u] # "idle" => calls'[u] \in 1..MaxCalls
    <3>1. calls[t] \in Nat
      BY <2>t
    <3>2. calls[t] + 1 \in 1..MaxCalls
      BY <2>4, <3>1, NextCall, DispatcherAssumption
    <3> QED BY <2>t, <2>g, <2>4, <3>2
  <2>6. \A i \in Nat : i <= event_count => i < NextId(event_count)
    BY <2>t, NewId
  <2>7. interval_id \in Nat /\ \A u \in Threads : tid[u] \in Nat
    BY <2>t
  <2>8. interval_id' < event_count'
    BY <2>t, <2>g, <2>1, <2>2, <2>6
  <2>9. \A u \in Threads : tid'[u] < event_count'
    BY <2>t, <2>g, <2>1, <2>3, <2>6, <2>7
  <2> QED BY <2>5, <2>8, <2>9 DEF IdsGiven
<1>2. LocksInOrder'
  BY DispatcherAssumption DEF DispatcherTypeOK, LocksInOrder, CallBegins,
     TakesId
<1>3. FlagsInOrder'
  BY DEF DispatcherTypeOK, FlagsInOrder, CallBegins, TakesId
<1>4. OnceEach'
  BY DEF OnceEach, Live, CallBegins, TakesId
<1>5. WorkInTime'
  BY DEF DispatcherTypeOK, WorkInTime, Live, Alive, Thread, Frames,
     CallBegins, TakesId
<1>6. AwaitInTime'
  BY DEF DispatcherTypeOK, AwaitInTime, Live, Alive, Thread, Frames,
     CallBegins, TakesId
<1>7. NotifyInTime'
  BY DEF DispatcherTypeOK, NotifyInTime, Live, Alive, Frames, Overwritten,
     CallBegins, TakesId
<1>8. CallbackInTime'
  BY DEF DispatcherTypeOK, CallbackInTime, Alive, Frames, CallBegins, TakesId
<1>9. ClearedInTime'
  BY DEF DispatcherTypeOK, ClearedInTime, Frame, Overwritten, CallBegins,
     TakesId
<1> QED BY <1>0, <1>1, <1>2, <1>3, <1>4, <1>5, <1>6, <1>7, <1>8, <1>9

LEMMA WorkInsertedStep ==
  ASSUME DispatcherInv, NEW t \in Threads, WorkInserted(t) PROVE DispatcherInv'
<1> USE DEF DispatcherInv, Goes, listVars, lockVars, loopVars, callVars
<1> DEFINE n == Event(tid[t], "work", Frame(t))
<1>n. n.id = tid[t] /\ n.kind = "work" /\ n.frame = Frame(t)
  BY EventFields
<1>i. Insert(n)
  BY DEF WorkInserted, Inserts
<1> HIDE DEF n
<1>l. /\ event_list' \subseteq event_list \cup {n} /\ Live' \subseteq Live \cup {n}
      /\ loop' = loop /\ exec_event' = exec_event
  BY <1>i DEF Live, WorkInserted, Insert
<1>f. Frame(t) \in Frames /\ Frame(t)[1] = t /\ Alive(Frame(t))
  BY FrameOf DEF WorkInserted
<1>o. \A f \in Live : f.kind = "work" => f.frame # Frame(t)
  BY <1>f DEF WorkInserted, WorkInTime, Thread
<1>p. /\ \A u \in Threads : pc'[u] = IF u = t THEN "work set" ELSE pc[u]
      /\ calls' = calls /\ leave' = leave /\ cond' = cond /\ timeout' = timeout
  BY DEF WorkInserted, DispatcherTypeOK
<1>a. \A frame : Alive(frame) => Alive(frame)'
  BY <1>p DEF Alive, Frames
<1>0. DispatcherTypeOK'
  <2>1. n \in Events
    BY <1>f DEF n, Events, Kinds, Event, DispatcherTypeOK
  <2>2. n.id < event_count
    BY <1>n DEF IdsGiven
  <2> QED BY <2>1, <2>2, <1>i, InsertTypes DEF DispatcherTypeOK, WorkInserted
<1>1. IdsGiven'
  BY DEF DispatcherTypeOK, IdsGiven, WorkInserted, Inserts, Insert
<1>2. LocksInOrder'
  BY DispatcherAssumption DEF DispatcherTypeOK, LocksInOrder, WorkInserted,
     Inserts, Insert
<1>3. FlagsInOrder'
  BY DEF DispatcherTypeOK, FlagsInOrder, WorkInserted, Inserts, Insert
<1>4. OnceEach'
  BY <1>l, <1>n, <1>o DEF OnceEach, Once, Live
<1>5. WorkInTime'
  <2>1. ~leave[t]
    BY DEF FlagsInOrder, WorkInserted
  <2>2. \A f \in Live : f.kind = "work" => Thread(f) \in Threads
    BY DEF WorkInTime, Alive, Frames, Thread
  <2> QED BY <2>1, <2>2, <1>l, <1>n, <1>f, <1>p, <1>a DEF WorkInTime, Thread
<1>6. AwaitInTime'
  <2>1. \A f \in Live : f.kind = "await" => Thread(f) \in Threads /\ Thread(f) # t
    BY DEF AwaitInTime, Alive, Frames, Thread, WorkInserted
  <2> QED BY <2>1, <1>l, <1>n, <1>p, <1>a DEF AwaitInTime, Thread
<1>7. NotifyInTime'
  BY <1>l, <1>n, <1>p, <1>a DEF NotifyInTime, Overwritten
<1>8. CallbackInTime'
  BY DEF DispatcherTypeOK, CallbackInTime, Alive, Frames, WorkInserted,
     Inserts, Insert
<1>9. ClearedInTime'
  BY <1>l, <1>n, <1>p DEF ClearedInTime, Overwritten, Frame
<1> QED BY <1>0, <1>1, <1>2, <1>3, <1>4, <1>5, <1>6, <1>7, <1>8, <1>9

LEMMA AwaitTakesIdStep ==
  ASSUME DispatcherInv, NEW t \in Threads, AwaitTakesId(t) PROVE DispatcherInv'
<1> USE DEF DispatcherInv, Goes, listVars, lockVars, loopVars, callVars
<1>0. DispatcherTypeOK'
  <2>1. event_count \in Nat /\ event_count' = NextId(event_count)
    BY DEF DispatcherTypeOK, AwaitTakesId, TakesId
  <2>2. /\ event_list' = event_list /\ \A f \in event_list : f.id \in Nat /\ f.id < event_count
        /\ ready' = ready /\ ready \subseteq 0..(event_count - 1)
    BY DEF DispatcherTypeOK, Events, AwaitTakesId, TakesId
  <2>3. /\ event_count' \in Nat
        /\ \A f \in event_list' : f.id < event_count'
        /\ ready' \subseteq 0..(event_count' - 1)
    BY <2>1, <2>2, NewId
  <2> QED BY <2>1, <2>2, <2>3 DEF DispatcherTypeOK, AwaitTakesId, TakesId
<1>1. IdsGiven'
  <2>t. /\ event_count \in Nat /\ interval_id \in Nat /\ tid \in [Threads -> Nat]
        /\ calls \in [Threads -> Nat] /\ pc = [u \in Threads |-> pc[u]]
    BY DEF DispatcherTypeOK
  <2>g. /\ interval_id < event_count
        /\ \A u \in Threads : tid[u] < event_count
        /\ \A u \in Threads : pc[u] # "idle" => calls[u] \in 1..MaxCalls
    BY DEF IdsGiven
  <2>1. event_count' = NextId(event_count)
    BY DEF AwaitTakesId, TakesId
  <2>2. interval_id' \in {interval_id, event_count}
    BY DEF AwaitTakesId, TakesId
  <2>3. \A u \in Threads : tid'[u] \in {tid[u], event_count}
    BY <2>t DEF AwaitTakesId, TakesId
  <2>5. \A u \in Threads : pc'[u] # "idle" => calls'[u] \in 1..MaxCalls
    BY <2>t, <2>g DEF AwaitTakesId, TakesId
  <2>6. \A i \in Nat : i <= event_count => i < NextId(event_count)
    BY <2>t, NewId
  <2>7. interval_id \in Nat /\ \A u \in Threads : tid[u] \in Nat
    BY <2>t
  <2>8. interval_id' < event_count'
    BY <2>t, <2>g, <2>1, <2>2, <2>6
  <2>9. \A u \in Threads : tid'[u] < event_count'
    BY <2>t, <2>g, <2>1, <2>3, <2>6, <2>7
  <2> QED BY <2>5, <2>8, <2>9 DEF IdsGiven
<1>2. LocksInOrder'
  BY DispatcherAssumption DEF DispatcherTypeOK, LocksInOrder, AwaitTakesId,
     TakesId
<1>3. FlagsInOrder'
  BY DEF DispatcherTypeOK, FlagsInOrder, AwaitTakesId, TakesId
<1>4. OnceEach'
  BY DEF OnceEach, Live, AwaitTakesId, TakesId
<1>5. WorkInTime'
  BY DEF DispatcherTypeOK, WorkInTime, Live, Alive, Thread, Frames,
     AwaitTakesId, TakesId
<1>6. AwaitInTime'
  BY DEF DispatcherTypeOK, AwaitInTime, Live, Alive, Thread, Frames,
     AwaitTakesId, TakesId
<1>7. NotifyInTime'
  BY DEF DispatcherTypeOK, NotifyInTime, Live, Alive, Frames, Overwritten,
     AwaitTakesId, TakesId
<1>8. CallbackInTime'
  BY DEF DispatcherTypeOK, CallbackInTime, Alive, Frames, AwaitTakesId, TakesId
<1>9. ClearedInTime'
  BY DEF DispatcherTypeOK, ClearedInTime, Frame, Overwritten, AwaitTakesId,
     TakesId
<1> QED BY <1>0, <1>1, <1>2, <1>3, <1>4, <1>5, <1>6, <1>7, <1>8, <1>9

LEMMA AwaitInsertedStep ==
  ASSUME DispatcherInv, NEW t \in Threads, AwaitInserted(t) PROVE DispatcherInv'
<1> USE DEF DispatcherInv, Goes, listVars, lockVars, loopVars, callVars
<1> DEFINE n == Event(tid[t], "await", Frame(t))
<1>n. n.id = tid[t] /\ n.kind = "await" /\ n.frame = Frame(t)
  BY EventFields
<1>i. Insert(n)
  BY DEF AwaitInserted, Inserts
<1> HIDE DEF n
<1>l. /\ event_list' \subseteq event_list \cup {n} /\ Live' \subseteq Live \cup {n}
      /\ loop' = loop /\ exec_event' = exec_event
  BY <1>i DEF Live, AwaitInserted, Insert
<1>f. Frame(t) \in Frames /\ Frame(t)[1] = t /\ Alive(Frame(t))
  BY FrameOf DEF AwaitInserted
<1>o. \A f \in Live : f.kind = "await" => f.frame # Frame(t)
  BY <1>f DEF AwaitInserted, AwaitInTime, Thread
<1>p. /\ \A u \in Threads : pc'[u] = IF u = t THEN "naming" ELSE pc[u]
      /\ calls' = calls /\ leave' = leave /\ cond' = cond /\ timeout' = timeout
  BY DEF AwaitInserted, DispatcherTypeOK
<1>a. \A frame : Alive(frame) => Alive(frame)'
  BY <1>p DEF Alive, Frames
<1>0. DispatcherTypeOK'
  <2>1. n \in Events
    BY <1>f DEF n, Events, Kinds, Event, DispatcherTypeOK
  <2>2. n.id < event_count
    BY <1>n DEF IdsGiven
  <2> QED BY <2>1, <2>2, <1>i, InsertTypes DEF DispatcherTypeOK, AwaitInserted
<1>1. IdsGiven'
  BY DEF DispatcherTypeOK, IdsGiven, AwaitInserted, Inserts, Insert
<1>2. LocksInOrder'
  BY DispatcherAssumption DEF DispatcherTypeOK, LocksInOrder, AwaitInserted,
     Inserts, Insert
<1>3. FlagsInOrder'
  BY DEF DispatcherTypeOK, FlagsInOrder, AwaitInserted, Inserts, Insert
<1>4. OnceEach'
  BY <1>l, <1>n, <1>o DEF OnceEach, Once, Live
<1>5. WorkInTime'
  <2>1. \A f \in Live : f.kind = "work" => Thread(f) \in Threads
    BY DEF WorkInTime, Alive, Frames, Thread
  <2> QED BY <2>1, <1>l, <1>n, <1>p, <1>a DEF WorkInTime, Thread
<1>6. AwaitInTime'
  <2>1. ~cond[t]
    BY DEF FlagsInOrder, AwaitInserted
  <2>2. \A f \in Live : f.kind = "await" => Thread(f) \in Threads
    BY DEF AwaitInTime, Alive, Frames, Thread
  <2> QED BY <2>1, <2>2, <1>l, <1>n, <1>f, <1>p, <1>a DEF AwaitInTime, Thread
<1>7. NotifyInTime'
  BY <1>l, <1>n, <1>p, <1>a DEF NotifyInTime, Overwritten
<1>8. CallbackInTime'
  BY DEF DispatcherTypeOK, CallbackInTime, Alive, Frames, AwaitInserted,
     Inserts, Insert
<1>9. ClearedInTime'
  BY <1>l, <1>n, <1>p DEF ClearedInTime, Overwritten, Frame
<1> QED BY <1>0, <1>1, <1>2, <1>3, <1>4, <1>5, <1>6, <1>7, <1>8, <1>9

LEMMA AwaitNamedStep ==
  ASSUME DispatcherInv, NEW t \in Threads, AwaitNamed(t) PROVE DispatcherInv'
<1> USE DEF DispatcherInv, Goes, listVars, lockVars, loopVars, callVars
<1>0. DispatcherTypeOK'
  BY FrameOf DEF DispatcherTypeOK, AwaitNamed, IdsGiven
<1>1. IdsGiven'
  BY DEF DispatcherTypeOK, IdsGiven, AwaitNamed
<1>2. LocksInOrder'
  BY DispatcherAssumption DEF DispatcherTypeOK, LocksInOrder, AwaitNamed
<1>3. FlagsInOrder'
  BY DEF DispatcherTypeOK, FlagsInOrder, AwaitNamed
<1>4. OnceEach'
  BY DEF OnceEach, Live, AwaitNamed
<1>5. WorkInTime'
  BY DEF DispatcherTypeOK, WorkInTime, Live, Alive, Thread, Frames, AwaitNamed
<1>6. AwaitInTime'
  BY DEF DispatcherTypeOK, AwaitInTime, Live, Alive, Thread, Frames, AwaitNamed
<1>7. NotifyInTime'
  <2>1. Frame(t) \in Frames /\ Frame(t)[1] = t /\ Alive(Frame(t))
    BY FrameOf DEF AwaitNamed
  <2>2. Alive(Frame(t))'
    BY <2>1 DEF Alive, Frame, AwaitNamed, DispatcherTypeOK
  <2>3. \A frame \in Frames : Alive(frame) => Alive(frame)'
    BY DEF Alive, Frames, AwaitNamed, DispatcherTypeOK
  <2>4. Live' = Live /\ calls' = calls
    BY DEF Live, AwaitNamed
  <2>5. \A frame \in Frames : frame # Frame(t) => timeout'[frame] = timeout[frame]
    BY DEF AwaitNamed, DispatcherTypeOK
  <2>6. SUFFICES ASSUME NEW e \in Live, e.kind = "notify", e.frame # Frame(t)
                 PROVE  e.frame \in Frames /\ (Alive(e.frame)' \/ Overwritten(e)')
    BY <2>1, <2>2, <2>4 DEF NotifyInTime, Frame
  <2> QED BY <2>3, <2>5, <2>6 DEF NotifyInTime, Overwritten
<1>8. CallbackInTime'
  BY DEF DispatcherTypeOK, CallbackInTime, Alive, Frames, AwaitNamed
<1>9. ClearedInTime'
  <2>1. \A u \in Threads : pc'[u] = "unlocking" => u # t /\ pc[u] = "unlocking"
    BY DEF AwaitNamed, DispatcherTypeOK
  <2>2. \A u \in Threads : u # t => Frame(u) # Frame(t) /\ Frame(u)' = Frame(u)
    BY DEF Frame, AwaitNamed
  <2>3. \A u \in Threads : pc[u] = "unlocking" => Frame(u) \in Frames
    BY FrameOf
  <2>4. \A frame \in Frames : frame # Frame(t) => timeout'[frame] = timeout[frame]
    BY DEF AwaitNamed, DispatcherTypeOK
  <2> QED BY <2>1, <2>2, <2>3, <2>4 DEF ClearedInTime, Overwritten, AwaitNamed
<1> QED BY <1>0, <1>1, <1>2, <1>3, <1>4, <1>5, <1>6, <1>7, <1>8, <1>9

LEMMA TestFailsStep ==
  ASSUME DispatcherInv, NEW t \in Threads, TestFails(t) PROVE DispatcherInv'
<1> USE DEF DispatcherInv, Goes, listVars, lockVars, loopVars, callVars
<1>0. DispatcherTypeOK'
  BY DispatcherAssumption DEF DispatcherTypeOK, TestFails
<1>1. IdsGiven'
  BY DEF DispatcherTypeOK, IdsGiven, TestFails
<1>2. LocksInOrder'
  BY DispatcherAssumption DEF DispatcherTypeOK, LocksInOrder, TestFails
<1>3. FlagsInOrder'
  BY DEF DispatcherTypeOK, FlagsInOrder, TestFails
<1>4. OnceEach'
  BY DEF OnceEach, Live, TestFails
<1>5. WorkInTime'
  BY DEF DispatcherTypeOK, WorkInTime, Live, Alive, Thread, Frames, TestFails
<1>6. AwaitInTime'
  BY DEF DispatcherTypeOK, AwaitInTime, Live, Alive, Thread, Frames, TestFails
<1>7. NotifyInTime'
  BY DEF DispatcherTypeOK, NotifyInTime, Live, Alive, Frames, Overwritten,
     TestFails
<1>8. CallbackInTime'
  BY DEF DispatcherTypeOK, CallbackInTime, Alive, Frames, TestFails
<1>9. ClearedInTime'
  BY DEF DispatcherTypeOK, ClearedInTime, Frame, Overwritten, TestFails
<1> QED BY <1>0, <1>1, <1>2, <1>3, <1>4, <1>5, <1>6, <1>7, <1>8, <1>9

LEMMA WaitEnteredStep ==
  ASSUME DispatcherInv, NEW t \in Threads, WaitEntered(t) PROVE DispatcherInv'
<1> USE DEF DispatcherInv, Goes, listVars, lockVars, loopVars, callVars
<1>0. DispatcherTypeOK'
  BY DispatcherAssumption DEF DispatcherTypeOK, WaitEntered
<1>1. IdsGiven'
  BY DEF DispatcherTypeOK, IdsGiven, WaitEntered
<1>2. LocksInOrder'
  BY DispatcherAssumption DEF DispatcherTypeOK, LocksInOrder, WaitEntered
<1>3. FlagsInOrder'
  BY DEF DispatcherTypeOK, FlagsInOrder, WaitEntered
<1>4. OnceEach'
  BY DEF OnceEach, Live, WaitEntered
<1>5. WorkInTime'
  BY DEF DispatcherTypeOK, WorkInTime, Live, Alive, Thread, Frames, WaitEntered
<1>6. AwaitInTime'
  BY DEF DispatcherTypeOK, AwaitInTime, Live, Alive, Thread, Frames, WaitEntered
<1>7. NotifyInTime'
  BY DEF DispatcherTypeOK, NotifyInTime, Live, Alive, Frames, Overwritten,
     WaitEntered
<1>8. CallbackInTime'
  BY DEF DispatcherTypeOK, CallbackInTime, Alive, Frames, WaitEntered
<1>9. ClearedInTime'
  BY DEF DispatcherTypeOK, ClearedInTime, Frame, Overwritten, WaitEntered
<1> QED BY <1>0, <1>1, <1>2, <1>3, <1>4, <1>5, <1>6, <1>7, <1>8, <1>9

LEMMA WakesSpuriouslyStep ==
  ASSUME DispatcherInv, NEW t \in Threads, WakesSpuriously(t) PROVE DispatcherInv'
<1> USE DEF DispatcherInv, Goes, listVars, lockVars, loopVars, callVars
<1>0. DispatcherTypeOK'
  BY DispatcherAssumption DEF DispatcherTypeOK, WakesSpuriously
<1>1. IdsGiven'
  BY DEF DispatcherTypeOK, IdsGiven, WakesSpuriously
<1>2. LocksInOrder'
  BY DispatcherAssumption DEF DispatcherTypeOK, LocksInOrder, WakesSpuriously
<1>3. FlagsInOrder'
  BY DEF DispatcherTypeOK, FlagsInOrder, WakesSpuriously
<1>4. OnceEach'
  BY DEF OnceEach, Live, WakesSpuriously
<1>5. WorkInTime'
  BY DEF DispatcherTypeOK, WorkInTime, Live, Alive, Thread, Frames,
     WakesSpuriously
<1>6. AwaitInTime'
  BY DEF DispatcherTypeOK, AwaitInTime, Live, Alive, Thread, Frames,
     WakesSpuriously
<1>7. NotifyInTime'
  BY DEF DispatcherTypeOK, NotifyInTime, Live, Alive, Frames, Overwritten,
     WakesSpuriously
<1>8. CallbackInTime'
  BY DEF DispatcherTypeOK, CallbackInTime, Alive, Frames, WakesSpuriously
<1>9. ClearedInTime'
  BY DEF DispatcherTypeOK, ClearedInTime, Frame, Overwritten, WakesSpuriously
<1> QED BY <1>0, <1>1, <1>2, <1>3, <1>4, <1>5, <1>6, <1>7, <1>8, <1>9

LEMMA TestSucceedsStep ==
  ASSUME DispatcherInv, NEW t \in Threads, TestSucceeds(t) PROVE DispatcherInv'
<1> USE DEF DispatcherInv, Goes, listVars, lockVars, loopVars, callVars
<1>0. DispatcherTypeOK'
  BY DispatcherAssumption DEF DispatcherTypeOK, TestSucceeds, AfterTest
<1>1. IdsGiven'
  BY DEF DispatcherTypeOK, IdsGiven, TestSucceeds, AfterTest
<1>2. LocksInOrder'
  BY DispatcherAssumption DEF DispatcherTypeOK, LocksInOrder, TestSucceeds,
     AfterTest
<1>3. FlagsInOrder'
  BY DEF DispatcherTypeOK, FlagsInOrder, TestSucceeds, AfterTest
<1>4. OnceEach'
  BY DEF OnceEach, Live, TestSucceeds, AfterTest
<1>5. WorkInTime'
  BY DEF DispatcherTypeOK, WorkInTime, Live, Alive, Thread, Frames,
     TestSucceeds, AfterTest
<1>6. AwaitInTime'
  BY DEF DispatcherTypeOK, AwaitInTime, Live, Alive, Thread, Frames,
     TestSucceeds, AfterTest
<1>7. NotifyInTime'
  BY DEF DispatcherTypeOK, NotifyInTime, Live, Alive, Frames, Overwritten,
     TestSucceeds, AfterTest
<1>8. CallbackInTime'
  BY DEF DispatcherTypeOK, CallbackInTime, Alive, Frames, TestSucceeds,
     AfterTest
<1>9. ClearedInTime'
  BY DEF DispatcherTypeOK, ClearedInTime, Frame, Overwritten, TestSucceeds,
     AfterTest
<1> QED BY <1>0, <1>1, <1>2, <1>3, <1>4, <1>5, <1>6, <1>7, <1>8, <1>9

LEMMA LocksStep ==
  ASSUME DispatcherInv, NEW t \in Threads, Locks(t) PROVE DispatcherInv'
<1> USE DEF DispatcherInv, Goes, listVars, lockVars, loopVars, callVars
<1>0. DispatcherTypeOK'
  BY DispatcherAssumption DEF DispatcherTypeOK, Locks
<1>1. IdsGiven'
  BY DEF DispatcherTypeOK, IdsGiven, Locks
<1>2. LocksInOrder'
  BY DispatcherAssumption DEF DispatcherTypeOK, LocksInOrder, Locks
<1>3. FlagsInOrder'
  BY DEF DispatcherTypeOK, FlagsInOrder, Locks
<1>4. OnceEach'
  BY DEF OnceEach, Live, Locks
<1>5. WorkInTime'
  BY DEF DispatcherTypeOK, WorkInTime, Live, Alive, Thread, Frames, Locks
<1>6. AwaitInTime'
  BY DEF DispatcherTypeOK, AwaitInTime, Live, Alive, Thread, Frames, Locks
<1>7. NotifyInTime'
  BY DEF DispatcherTypeOK, NotifyInTime, Live, Alive, Frames, Overwritten, Locks
<1>8. CallbackInTime'
  BY DEF DispatcherTypeOK, CallbackInTime, Alive, Frames, Locks, LocksInOrder
<1>9. ClearedInTime'
  BY DEF DispatcherTypeOK, ClearedInTime, Frame, Overwritten, Locks
<1> QED BY <1>0, <1>1, <1>2, <1>3, <1>4, <1>5, <1>6, <1>7, <1>8, <1>9

LEMMA ClearsStep ==
  ASSUME DispatcherInv, NEW t \in Threads, Clears(t) PROVE DispatcherInv'
<1> USE DEF DispatcherInv, Goes, listVars, lockVars, loopVars, callVars
<1>0. DispatcherTypeOK'
  BY DispatcherAssumption DEF DispatcherTypeOK, Clears, Erase, Cleared
<1>1. IdsGiven'
  BY DEF DispatcherTypeOK, IdsGiven, Clears, Erase, Cleared
<1>2. LocksInOrder'
  BY DispatcherAssumption DEF DispatcherTypeOK, LocksInOrder, Clears, Erase,
     Cleared
<1>3. FlagsInOrder'
  BY DEF DispatcherTypeOK, FlagsInOrder, Clears, Erase, Cleared
<1>4. OnceEach'
  BY DEF OnceEach, Live, Clears, Erase, Cleared
<1>5. WorkInTime'
  BY DEF DispatcherTypeOK, WorkInTime, Live, Alive, Thread, Frames, Clears,
     Erase, Cleared
<1>6. AwaitInTime'
  BY DEF DispatcherTypeOK, AwaitInTime, Live, Alive, Thread, Frames, Clears,
     Erase, Cleared
<1>7. NotifyInTime'
  BY DEF DispatcherTypeOK, NotifyInTime, Live, Alive, Frames, Overwritten,
     Clears, Erase, Cleared
<1>8. CallbackInTime'
  BY DEF DispatcherTypeOK, CallbackInTime, Alive, Frames, Clears, Erase, Cleared
<1>9. ClearedInTime'
  <2>1. \A u \in Threads \ {t} : pc[u] # "unlocking"
    BY ThreadHolds DEF Clears
  <2>2. \A u \in Threads \ {t} : pc'[u] # "unlocking"
    BY <2>1 DEF Clears, DispatcherTypeOK
  <2> QED BY <2>2 DEF ClearedInTime, Overwritten, Clears, Erase, Cleared, Frame
<1> QED BY <1>0, <1>1, <1>2, <1>3, <1>4, <1>5, <1>6, <1>7, <1>8, <1>9

LEMMA UnlocksStep ==
  ASSUME DispatcherInv, NEW t \in Threads, Unlocks(t) PROVE DispatcherInv'
<1> USE DEF DispatcherInv, Goes, listVars, lockVars, loopVars, callVars
<1>0. DispatcherTypeOK'
  <2>1. pc \in [Threads -> {"idle", "setting work", "work set", "setting await",
                         "naming", "testing", "entering", "waiting", "locking",
                         "clearing", "unlocking"}]'
    BY DEF Unlocks, DispatcherTypeOK
  <2>7. tid \in [Threads -> Nat] /\ calls \in [Threads -> Nat]
    BY DEF DispatcherTypeOK
  <2>2. ({tid, calls} \subseteq [Threads -> Nat])'
    BY <2>7 DEF Unlocks
  <2>5. leave \in [Threads -> BOOLEAN] /\ leave' = [leave EXCEPT ![t] = FALSE]
    BY DEF Unlocks, DispatcherTypeOK
  <2>6. cond \in [Threads -> BOOLEAN] /\ cond' = [cond EXCEPT ![t] = FALSE]
    BY DEF Unlocks, DispatcherTypeOK
  <2>3. ({leave, cond} \subseteq [Threads -> BOOLEAN])'
    BY <2>5, <2>6
  <2>4. (system_mutex \in Threads \cup {System, Nobody} /\ owner_tid \in Threads \cup {System})'
    BY DEF Unlocks, DispatcherTypeOK
  <2> QED BY <2>1, <2>2, <2>3, <2>4 DEF Unlocks, DispatcherTypeOK
<1>1. IdsGiven'
  <2>1. interval_id \in Nat /\ event_count \in Nat /\ tid \in [Threads -> Nat]
        /\ pc = [u \in Threads |-> pc[u]]
    BY DEF DispatcherTypeOK
  <2> QED BY <2>1 DEF IdsGiven, Unlocks
<1>2. LocksInOrder'
  <2>1. /\ loop = "idle" /\ system_mutex = t
        /\ \A u \in Threads \ {t} : pc[u] \notin {"clearing", "unlocking"}
    BY ThreadHolds DEF Unlocks
  <2>2. system_mutex' = Nobody /\ owner_tid' = System /\ loop' = "idle"
    BY <2>1 DEF Unlocks
  <2>3. \A u \in Threads : pc'[u] \notin {"clearing", "unlocking"}
    BY <2>1 DEF Unlocks, DispatcherTypeOK
  <2> QED BY <2>2, <2>3, DispatcherAssumption DEF LocksInOrder
<1>3. FlagsInOrder'
  BY DEF DispatcherTypeOK, FlagsInOrder, Unlocks
<1>4. OnceEach'
  BY DEF OnceEach, Live, Unlocks
<1>5. WorkInTime'
  BY DEF DispatcherTypeOK, WorkInTime, Live, Alive, Thread, Frames, Unlocks,
     FlagsInOrder, LocksInOrder
<1>6. AwaitInTime'
  BY DEF DispatcherTypeOK, AwaitInTime, Live, Alive, Thread, Frames, Unlocks,
     FlagsInOrder, LocksInOrder
<1>7. NotifyInTime'
  <2>1. loop = "idle" /\ Live' = event_list
    BY ThreadHolds DEF Unlocks, Live
  <2>2. SUFFICES ASSUME NEW e \in event_list, e.kind = "notify"
                 PROVE  e.frame \in Frames /\ (Alive(e.frame)' \/ Overwritten(e)')
    BY <2>1 DEF NotifyInTime
  <2>3. e.frame \in Frames /\ (Alive(e.frame) \/ Overwritten(e))
    BY <2>2 DEF NotifyInTime, Live
  <2>4. CASE Overwritten(e)
    BY <2>3, <2>4 DEF Overwritten, Unlocks
  <2>5. CASE Alive(e.frame) /\ e.frame[1] # t
    BY <2>3, <2>5 DEF Alive, Frames, Unlocks, DispatcherTypeOK
  <2>6. CASE Alive(e.frame) /\ e.frame[1] = t
    <3>1. e.frame = Frame(t)
      BY <2>3, <2>6 DEF Alive, Frames, Frame
    <3>2. Overwritten(e)
      BY <2>2, <3>1 DEF ClearedInTime, Unlocks
    <3> QED BY <2>3, <3>2 DEF Overwritten, Unlocks
  <2> QED BY <2>3, <2>4, <2>5, <2>6
<1>8. CallbackInTime'
  BY ThreadHolds DEF CallbackInTime, Unlocks
<1>9. ClearedInTime'
  BY DEF DispatcherTypeOK, ClearedInTime, Frame, Overwritten, Unlocks
<1> QED BY <1>0, <1>1, <1>2, <1>3, <1>4, <1>5, <1>6, <1>7, <1>8, <1>9
-----------------------------------------------------------------------------
LEMMA DispatcherInit == Init => DispatcherInv
<1> SUFFICES ASSUME Init PROVE DispatcherInv
  OBVIOUS
<1> USE DispatcherAssumption
<1>1. \A t \in Threads : pc[t] = "idle" /\ ~leave[t] /\ ~cond[t] /\ tid[t] = 0
  BY DEF Init
<1>2. exec_event.kind = "timer" /\ \A e \in Live : e.kind = "timer"
  BY DEF Init, Live, Event, NoEvent
<1>3. exec_event \in Events /\ event_list \subseteq Events
  BY DEF Init, Events, Kinds, Event, NoEvent
<1>4. DispatcherTypeOK
  BY <1>3 DEF Init, DispatcherTypeOK, Event
<1>5. IdsGiven /\ FlagsInOrder
  BY <1>1 DEF Init, IdsGiven, FlagsInOrder
<1>6. LocksInOrder
  BY <1>1 DEF Init, LocksInOrder
<1>7. OnceEach /\ WorkInTime /\ AwaitInTime /\ NotifyInTime
  BY <1>2 DEF Init, OnceEach, Once, WorkInTime, AwaitInTime, NotifyInTime
<1>8. CallbackInTime /\ ClearedInTime
  BY <1>1 DEF Init, CallbackInTime, ClearedInTime
<1> QED BY <1>4, <1>5, <1>6, <1>7, <1>8 DEF DispatcherInv

LEMMA DispatcherStutters ==
  ASSUME DispatcherInv, UNCHANGED vars PROVE DispatcherInv'
<1> USE DEF vars, listVars, lockVars, loopVars, callVars
<1>1. Live' = Live /\ UNCHANGED <<pc, calls, timeout, loop, leave, cond>>
  BY DEF Live
<1>2. DispatcherTypeOK' /\ IdsGiven' /\ LocksInOrder' /\ FlagsInOrder'
  BY DEF DispatcherInv, DispatcherTypeOK, IdsGiven, LocksInOrder, FlagsInOrder
<1>3. OnceEach' /\ WorkInTime' /\ AwaitInTime' /\ NotifyInTime'
  BY <1>1 DEF DispatcherInv, OnceEach, WorkInTime, AwaitInTime, NotifyInTime,
     Alive, Overwritten
<1>4. CallbackInTime' /\ ClearedInTime'
  BY DEF DispatcherInv, CallbackInTime, ClearedInTime, Alive, Overwritten, Frame
<1> QED BY <1>2, <1>3, <1>4 DEF DispatcherInv

LEMMA DispatcherSteps ==
  ASSUME DispatcherInv, [Next]_vars PROVE DispatcherInv'
<1> DEFINE Goal == DispatcherInv'
<1>1. ASSUME NEW e \in event_list, ComesDue(e) \/ Pick(e) PROVE Goal
  BY <1>1, ComesDueStep, PickStep
<1>2. ASSUME Loop PROVE Goal
  BY <1>2, RunLocksStep, PickNoneStep, RunTimerStep, RunWorkStep, RunNotifyStep,
     RunAwaitStep, IntervalTakesIdStep, IntervalInsertedStep, IntervalNamedStep,
     RunUnlocksStep DEF Loop, Callback
<1>3. ASSUME NEW t \in Threads, CallBegins(t) \/ Proceeds(t) \/ Locks(t) \/ WakesSpuriously(t)
      PROVE  Goal
  BY <1>3, CallBeginsStep, WorkInsertedStep, AwaitTakesIdStep, AwaitInsertedStep,
     AwaitNamedStep, TestFailsStep, WaitEnteredStep, WakesSpuriouslyStep,
     TestSucceedsStep, LocksStep, ClearsStep, UnlocksStep DEF Proceeds
<1>4. ASSUME UNCHANGED vars PROVE Goal
  BY <1>4, DispatcherStutters
<1> HIDE DEF Goal
<1>5. Goal
  BY <1>1, <1>2, <1>3, <1>4 DEF Next
<1> QED BY <1>5 DEF Goal

\* The inductive invariant of the loop, the list of events and the calls.
THEOREM DispatcherInvariant == Spec => []DispatcherInv
BY DispatcherInit, DispatcherSteps, PTL DEF Spec

\* The types, and that an id stands for one event of the list.
THEOREM DispatcherTypes == Spec => []DispatcherTypeOK
<1>1. DispatcherInv => DispatcherTypeOK
  BY DEF DispatcherInv
<1> QED BY <1>1, DispatcherInvariant, PTL

\* run(): no callback refers to the locals of a call that has returned, but for
\* the interval whose id the call has overwritten.
THEOREM CallbacksSafe == Spec => []CallbacksHaveFrames
<1>1. DispatcherInv => CallbacksHaveFrames
  <2> SUFFICES ASSUME DispatcherInv PROVE CallbacksHaveFrames
    OBVIOUS
  <2>1. CASE loop = "callback"
    <3>1. exec_event \in Live /\ exec_event \in Events
      BY <2>1 DEF Live, DispatcherInv, DispatcherTypeOK
    <3>2. exec_event.kind \in {"work", "await", "notify", "timer"}
      BY <3>1 DEF Events, Kinds
    <3> QED BY <3>1, <3>2 DEF DispatcherInv, WorkInTime, AwaitInTime, NotifyInTime,
               CallbacksHaveFrames
  <2>2. CASE loop # "callback"
    BY <2>2 DEF DispatcherInv, CallbackInTime, CallbacksHaveFrames
  <2> QED BY <2>1, <2>2
<1> QED BY <1>1, DispatcherInvariant, PTL

\* thread_await: a call that has returned has left no event in the list, but for
\* such an interval.
THEOREM NothingStays == Spec => []NothingLeftBehind
<1>1. DispatcherInv => NothingLeftBehind
  <2> SUFFICES ASSUME DispatcherInv, NEW e \in event_list
               PROVE  e.kind = "timer" \/ Alive(e.frame)
                        \/ (e.kind = "notify" /\ Overwritten(e))
    BY DEF NothingLeftBehind
  <2>1. e \in Live /\ e.kind \in {"work", "await", "notify", "timer"}
    BY DEF Live, DispatcherInv, DispatcherTypeOK, Events, Kinds
  <2> QED BY <2>1 DEF DispatcherInv, WorkInTime, AwaitInTime, NotifyInTime
<1> QED BY <1>1, DispatcherInvariant, PTL
-----------------------------------------------------------------------------
(* The refinement: calls are synchronous.                                  *)

LEMMA StageInit == Init => Calls!Init
BY DEF Init, Calls!Init, CallStage

LEMMA StageMoves ==
  ASSUME NEW t \in Threads, NEW a, NEW b, CallStage(t) = a, CallStage(t)' = b,
         \A u \in Threads \ {t} : CallStage(u)' = CallStage(u)
  PROVE  Calls!Moves(t, a, b)
<1> DEFINE stage == [u \in Threads |-> CallStage(u)]
<1>1. stage[t] = a
  OBVIOUS
<1>2. stage' = [u \in Threads |-> CallStage(u)']
  OBVIOUS
<1>3. stage' = [stage EXCEPT ![t] = b]
  BY <1>2
<1> QED BY <1>1, <1>3 DEF Calls!Moves

\* A step moves no stage that leaves the flags as they are and begins a call or
\* goes on with one.
LEMMA StageStays ==
  ASSUME leave' = leave,
         \A t \in Threads : /\ pc[t] \in {"idle", "setting work"}
                            /\ pc'[t] \in {"idle", "setting work"}
                         \/ /\ pc[t] \notin {"idle", "setting work"}
                            /\ pc'[t] \notin {"idle", "setting work"}
  PROVE  UNCHANGED [t \in Threads |-> CallStage(t)]
<1>1. \A t \in Threads : CallStage(t)' = CallStage(t)
  BY DEF CallStage
<1> QED BY <1>1

LEMMA StageSteps ==
  ASSUME DispatcherInv, [Next]_vars
  PROVE  [Calls!Next]_([t \in Threads |-> CallStage(t)])
<1> DEFINE Same == UNCHANGED [t \in Threads |-> CallStage(t)]
           Goal == Same \/ Calls!Next
           Within == \A t \in Threads : /\ pc[t] \in {"idle", "setting work"}
                                        /\ pc'[t] \in {"idle", "setting work"}
                                     \/ /\ pc[t] \notin {"idle", "setting work"}
                                        /\ pc'[t] \notin {"idle", "setting work"}
<1> USE DEF listVars, lockVars, loopVars, callVars
<1>t. pc = [t \in Threads |-> pc[t]] /\ leave \in [Threads -> BOOLEAN]
  BY DEF DispatcherInv, DispatcherTypeOK
<1>1. ASSUME leave' = leave, pc' = pc PROVE Goal
  <2>1. Within
    BY <1>1
  <2> QED BY <2>1, <1>1, StageStays
<1>2. ASSUME NEW e \in event_list, ComesDue(e) \/ Pick(e) PROVE Goal
  <2>1. leave' = leave /\ pc' = pc
    BY <1>2 DEF ComesDue, Pick
  <2> HIDE DEF Goal
  <2> QED BY <2>1, <1>1
<1>3. ASSUME UNCHANGED vars PROVE Goal
  <2>1. leave' = leave /\ pc' = pc
    BY <1>3 DEF vars
  <2> HIDE DEF Goal
  <2> QED BY <2>1, <1>1
<1>4. ASSUME RunWork PROVE Goal
  <2>1. exec_event \in Live /\ exec_event.kind = "work"
    BY <1>4 DEF RunWork, Live
  <2>2. PICK t \in Threads : /\ t = Thread(exec_event)
                             /\ pc[t] \notin {"idle", "setting work"} /\ ~leave[t]
    BY <2>1 DEF DispatcherInv, WorkInTime, Alive, Frames, Thread
  <2>0. pc' = pc /\ leave' = [leave EXCEPT ![t] = TRUE]
    BY <1>4, <2>2 DEF RunWork, Thread
  <2>3. leave'[t] /\ \A u \in Threads \ {t} : leave'[u] = leave[u]
    BY <2>0, <1>t
  <2>4. CallStage(t) = "registered" /\ CallStage(t)' = "done"
    BY <2>0, <2>2, <2>3 DEF CallStage
  <2>5. \A u \in Threads \ {t} : CallStage(u)' = CallStage(u)
    BY <2>0, <2>3 DEF CallStage
  <2>6. Calls!Moves(t, "registered", "done")
    BY <2>2, <2>4, <2>5, StageMoves
  <2> QED BY <2>2, <2>6 DEF Calls!Next, Calls!Execute
<1>5. ASSUME RunNotify \/ RunAwait PROVE Goal
  <2> DEFINE t == exec_event.frame[1]
  <2>1. leave' = leave /\ pc' = Notified(t)
    BY <1>5 DEF RunNotify, RunAwait
  <2>2. Within
    BY <2>1, <1>t DEF Notified
  <2> QED BY <2>1, <2>2, StageStays
<1>6. ASSUME RunLocks \/ PickNone \/ RunTimer \/ IntervalTakesId \/ IntervalInserted
               \/ IntervalNamed \/ RunUnlocks
      PROVE  Goal
  <2>1. leave' = leave /\ pc' = pc
    BY <1>6 DEF RunLocks, PickNone, RunTimer, IntervalTakesId, IntervalInserted,
       IntervalNamed, RunUnlocks
  <2> HIDE DEF Goal
  <2> QED BY <2>1, <1>1
<1>7. ASSUME NEW t \in Threads,
             CallBegins(t) \/ AwaitTakesId(t) \/ AwaitInserted(t) \/ AwaitNamed(t)
               \/ TestFails(t) \/ WaitEntered(t) \/ TestSucceeds(t) \/ Clears(t)
               \/ Locks(t) \/ WakesSpuriously(t)
      PROVE  Goal
  <2>1. leave' = leave
    BY <1>7 DEF CallBegins, AwaitTakesId, AwaitInserted, AwaitNamed, TestFails,
       WaitEntered, TestSucceeds, Clears, Locks, WakesSpuriously
  <2>2. PICK from, to :
          /\ pc[t] = from /\ pc' = [pc EXCEPT ![t] = to]
          /\ \/ from = "idle" /\ to = "setting work"
             \/ /\ from \notin {"idle", "setting work"}
                /\ to \notin {"idle", "setting work"}
    BY <1>7 DEF CallBegins, AwaitTakesId, AwaitInserted, AwaitNamed, TestFails,
       WaitEntered, TestSucceeds, AfterTest, Clears, Locks, WakesSpuriously, Goes
  <2>3. Within
    BY <2>2, <1>t
  <2> QED BY <2>1, <2>3, StageStays
<1>8. ASSUME NEW t \in Threads, WorkInserted(t) PROVE Goal
  <2>1. /\ pc[t] = "setting work" /\ pc' = [pc EXCEPT ![t] = "work set"]
        /\ leave' = leave
    BY <1>8 DEF WorkInserted, Goes
  <2>2. ~leave[t]
    BY <2>1 DEF DispatcherInv, FlagsInOrder
  <2>3. pc'[t] = "work set" /\ \A u \in Threads \ {t} : pc'[u] = pc[u]
    BY <2>1, <1>t
  <2>4. CallStage(t) = "away" /\ CallStage(t)' = "registered"
    BY <2>1, <2>2, <2>3 DEF CallStage
  <2>5. \A u \in Threads \ {t} : CallStage(u)' = CallStage(u)
    BY <2>1, <2>3 DEF CallStage
  <2>6. Calls!Moves(t, "away", "registered")
    BY <2>4, <2>5, StageMoves
  <2> QED BY <2>6 DEF Calls!Next, Calls!Register
<1>9. ASSUME NEW t \in Threads, Unlocks(t) PROVE Goal
  <2>1. /\ pc[t] = "unlocking" /\ pc' = [pc EXCEPT ![t] = "idle"]
        /\ leave' = [leave EXCEPT ![t] = FALSE]
    BY <1>9 DEF Unlocks, Goes
  <2>2. leave[t]
    BY <2>1 DEF DispatcherInv, FlagsInOrder
  <2>3. pc'[t] = "idle" /\ \A u \in Threads \ {t} : pc'[u] = pc[u]
    BY <2>1, <1>t
  <2>4. \A u \in Threads \ {t} : leave'[u] = leave[u]
    BY <2>1, <1>t
  <2>5. CallStage(t) = "done" /\ CallStage(t)' = "away"
    BY <2>1, <2>2, <2>3 DEF CallStage
  <2>6. \A u \in Threads \ {t} : CallStage(u)' = CallStage(u)
    BY <2>3, <2>4 DEF CallStage
  <2>7. Calls!Moves(t, "done", "away")
    BY <2>5, <2>6, StageMoves
  <2> QED BY <2>7 DEF Calls!Next, Calls!Return
<1> HIDE DEF Goal
<1>10. Goal
  BY <1>2, <1>3, <1>4, <1>5, <1>6, <1>7, <1>8, <1>9 DEF Next, Loop, Callback, Proceeds
<1> QED BY <1>10 DEF Goal

\* thread_await: every call registers its event, the event runs, once, and only
\* then the call returns.
THEOREM Synchronous == Spec => CallsAreSynchronous
BY StageInit, StageSteps, DispatcherInvariant, PTL
   DEF Spec, CallsAreSynchronous, Calls!Spec
=============================================================================
