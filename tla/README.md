# UDP_simulate_TCP in TLA+

A verification development for `UDP_simulate_TCP`: a user-space TCP over UDP in
C++ (about 2300 lines) with delayed ACKs, slow start, congestion avoidance,
fast retransmit and fast recovery. A client and a server program link the same
library under `lib/`. This directory holds TLA+ modules translated from the
source, the TLC runs that check them on small instances, and TLAPS proofs for
every value of the constants.

## 1. The system

Each process has three kinds of thread: one **dispatcher** thread
(`event_handler`), one **UDP** thread (`udp_recv`) and the **application**
threads. All protocol code runs as callbacks on the dispatcher thread under
`system_mutex`; the others register an event and `await` a flag that the
callback sets. So a protocol handler never interleaves with another one, and
one handler is one action in the models of the protocol; that the dispatcher
makes this so is shown in a model of its own. Concurrency is in the order in
which events are dispatched, in the network, and in the threads' waiting.

A segment that acknowledges new data may make `tcp_duplex` send data at once.
Then the segment's own ACK is left out (`not_send_ack`), because the data carry
one already, with the numbers of the moment before the segment was stored.

The programs hold one conversation per connection: the client writes a line,
the server answers with a line and, for a video, with the file behind it. The
number in the line is all that tells the client where the file ends.

| Component | Source | State it keeps | Operations | Talks to |
|---|---|---|---|---|
| event dispatcher | `tool/EventDispatcher.cpp` | ordered map of events (condition, callback, erase flag), `system_mutex`, owner id | set, setTimeout, setInterval, setConditional, clear, run, system_await, thread_await, SystemLock | runs every callback below |
| async wrapper | `tool/async.cpp` | none (the other half is never compiled) | clear_event, cond_event, setTimeout, setInterval, await | forwards to the dispatcher |
| ring buffer | `tool/buffer.cpp` | start, end, capacity, memory | clear, write, read, copy, move_start, size, remain | owned by sender and receiver |
| out-of-order sections | `tool/section_control.cpp` | vector of [first, second) pairs | addSection, moveFirstSection, empty | owned by the receiver |
| sender | `net/sender.cpp` | nextSeqNum, sendBase, dest_rwnd, senderTimer, send_tool | sender, send_new, fast_retransmit, timer callback | lossy output; window from ACK processing |
| ACK processing, congestion control | `net/tcp_duplex.cpp` | state, cwnd, ssthresh, duplicate_count | tcp_duplex: new ACK, duplicate ACK | calls send_new and fast_retransmit, then receiver with not_send_ack |
| receiver | `net/receiver.cpp` | expectSeqNum, rwnd, recv_tool, recvControl, delayAckTimer | receiver (five branches), delayed-ACK callback | ACKs through the lossy output |
| stream calls | `net/tcp.cpp` | lastByteRead | send, recv, read_till_ln | conditional events on the two rings |
| connection set-up | `net/tcp.cpp`, `net/tcpiostream.cpp`, `global_var.cpp` | tcp_port_table, key_table, getSYN, get3wayACK, syn_ack_failed, client_port, two timers | connect, accept, SYN / SYN-ACK / third-ACK branches of tcp_istream | creates the link records |
| lossy output | `net/tcp.cpp` send_poisson | random generator | drop, or send after 20 ms | UDP |
| UDP layer | `net/udp.cpp` | socket, peers by IP | udp_recv, udp_send | delivers to tcp_istream |
| packet header | `net/packet.cpp` | - | set_packetH | all senders |
| debugger | `net/tcpiostream.h` | - | prints state; never enabled | - |
| client, server programs | `Client.cpp`, `Server.cpp` | files | requests, videos, arithmetic | stream calls |

There is no connection tear-down in the program (FIN is never set) and nothing
is persisted, so there is no crash recovery to model.

What makes each component correct, and what makes it hard:

- *ring buffer* - bytes keep their slots while the stream runs round the ring;
  the full and the empty ring differ by one empty slot; indexes never disagree
  with the callers' sequence numbers.
- *sections* - what is stored beyond a gap is recorded exactly; the code erases
  from a vector while it walks over it.
- *sender* - nothing is overwritten before it is acknowledged; outstanding data
  always has a timer; new data stays in the window though windows shrink and
  ACKs come late; retransmissions carry the right bytes.
- *congestion control* - state, duplicate count and windows move together,
  through timeouts and ACKs in any order.
- *receiver* - in-order delivery without gaps or repeats under loss,
  duplication, reordering and differently cut retransmissions; the window never
  promises room that is not there; an ACK is not held back at a gap.
- *connection* - both ends together are a reliable stream; what was sent
  arrives, given that repeated attempts succeed.
- *set-up* - both sides agree on initial numbers when segments are lost or
  repeated; a handshake that was begun comes to an end, and leaves others alone.
- *dispatcher* - a call's event runs once and before the call returns, a waiter
  is woken, no callback touches the locals of a call that is over, none is
  starved.
- *programs* - client and server agree where every answer ends, however the
  stream is cut, and never both wait.

`PROJECT.json` lists the hazards at their lines ("hazards"), with the
properties that cover each.

## 2. Modules

| Module | Models |
|---|---|
| `RingBuffer` | class buffer_tool: every method as an operator from buffer to buffer |
| `SectionControl` | class secCont, with the effect of each `erase` on the vector |
| `Sender` | sender.cpp, the timer callback, the ACK branch of tcp_duplex.cpp |
| `Receiver` | receiver.cpp, the delayed-ACK callback, recv |
| `ReliableStream` | abstract: bytes accepted, bytes delivered in order |
| `Connection` | one direction of a connection: Sender, Receiver, UDP between, and what the other direction does to them |
| `Handshake` | connect and accept with their threads, the set-up branches of tcp_istream.cpp, several clients |
| `SynchronousCalls` | abstract: a call registers its event, the event runs, the call returns |
| `Dispatcher` | EventDispatcher.cpp: run, the list of events, set and clear, thread_await, SystemLock |
| `FileTransfer` | Client.cpp and Server.cpp over send, recv and read_till_ln |
| `MCSender`, `MCReceiver`, `MCConnection`, `MCHandshake`, `MCDispatcher`, `MCFileTransfer` | what TLC checks |
| `RingBufferProofs`, `SectionControlProofs`, `SenderProofs`, `ReceiverProofs`, `ConnectionProofs`, `HandshakeProofs`, `DispatcherProofs`, `FileTransferProofs` | theorems |

How they fit together: `Dispatcher` implements `SynchronousCalls`, which is what
lets the others take a callback as one action; `Handshake` ends in the `Init` of
`Sender` and `Receiver`; `Connection` composes these two and implements
`ReliableStream`; `FileTransfer` uses one such stream each way.

Conventions. A byte is represented by its stream position, so "the right byte"
is a statement about positions; the application's data is arbitrary. Operators,
variables and constants keep the source's names (`SendNew` is `send_new`,
`recvControl`, `dest_rwnd`, ...). Segments carry only the fields the handlers
read. The network of a direction is a set: sending may lose any subset of what
is there, delivery takes any member, and may leave a copy.

**Sender.** `SenderWrite` is the conditional event behind `send()`, with its
guard `remain() > size`. `NewAck` and the three duplicate-ACK actions are the
branches of `tcp_duplex`; `SendNew` is `send_new` on the values its caller has
already assigned. `TimerFires` is the callback that five places register with
identical text. `senderTimer` is kept as "set or not": ids are not needed
because clearing and setting always happen in one handler. The state is 3
exactly while three duplicates or more are counted (`RecoveryCounted`), so the
code's two consecutive tests of a duplicate are exclusive and are separate
actions. `UndefinedGain` is the result
of the cast in tcp_duplex.cpp:36 when cwnd is 0, which C++ leaves undefined: it
is a constant of the model and the theorems hold for each of its values.

**Receiver.** The five branches of `receiver` are five actions, `mute` is the
argument not_send_ack. A muted segment is not without an ACK: `tcp_duplex` has
just sent data, and `Piggyback` is the ACK these carry, with `rwnd` and
`expectSeqNum` as they were before the segment. The delayed-ACK callback
captures the argument, so `delayAckTimer` may be "muted", a callback that will
send nothing, and it stays so for the segments that follow. It distinguishes
"fired" from "off" because the callback does not reset it. `DataCarriesAck` is
data of the other direction at any other time.

**SectionControl** follows the vector through its erasures, including slots
read after the vector has shrunk. The module was compared with the compiled
class on 7000 random calls: same results.

**Connection** composes Sender and Receiver by INSTANCE over one set of
variables; each of its actions is an action of one side and leaves the other
unchanged. Of the other direction there is here what it does to this one: its
data carry ACKs at any time (`DataCarriesAck`) and mute the ACKs of segments
that arrive (`mute`). Whether a segment is muted depends on the other
direction's window, so both are possible at every segment. The two
directions share nothing else but the ACK's fields, and each is a `Connection`.

**Handshake** has one action per callback and one per step of the two threads
that call connect and accept: `ConnectWakes` is the end of the await,
`ConnectTestsFailed` the test of `failed` some time later, and so for accept,
which reads `client_port` and `syn_ack_failed` without the lock. The network is
the set of datagrams that were sent and not dropped; each is delivered at any
time and any number of times. The SYN/ACKs the server has made are kept in a
sequence: the ids in the globals `timer` and `deadline` are always those of the
last one, and an interval or deadline is named by the SYN/ACK it belongs to. The
server's interval keeps a reference to a variable that has gone
(tcpiostream.cpp:77), so `ResendSynAck` sends its SYN/ACK, a later one, or
nothing a client would take; that the process may also die there is not modelled.
Where it does die is Server.cpp:123: a thread is started for every port accept
returns, the 0 of a failure included, and its read_till_ln dereferences the null
entry that operator[] makes for it. `AcceptFails` starts that thread,
`ServerDies` is the loop's scan that evaluates the condition, at any later time,
and no action of the server is possible after it (`Running`). connect's failure
event erases through a dangling reference too (tcp.cpp:91), and may miss. A
client in its half-open state that receives a segment without SYN would take
the server's branch of `tcp_istream`; it needs a port drawn again while the
server still has the old link, and is left out. The link records hold what the
set-up decides; the record of a finished handshake is `Init` of `Sender` (with
duplicate_count 0 for a client and 1 for a server, whose third ACK goes on
to `tcp_duplex` and counts as a duplicate) and of `Receiver`.

**Dispatcher** has steps as small as the locks make them. `set` is two, since
`id_lock` and `event_lock` are taken one after the other; run's search for the
due event with the lowest id is one, since it holds `event_lock` and callbacks
and conditions run without others (`Pick`, `PickNone`); a callback of
thread_await is four, because it writes three things a waiting thread reads
under another lock. `Locks` and `Unlocks` take the mutex and `owner_tid`
together: only who has the mutex writes the latter, and a thread compares it with
its own id only. `cond` is tested and the wait entered in two steps, with the
notification possible in between, and the condition variable may wake for no
reason. A call is that of `send`, `recv`, `read_till_ln`, `udp_recv` and of the
waits of connect and accept: set an event that refers to the caller's locals,
await the flag it sets. The callback of a call that is over changes nothing in
the model; what it would write over is not modelled, and that it does not
happen is `CallbacksHaveFrames`. There is one exception, which the properties name
`Overwritten`: thread_await assigns `timeout` after `setConditional` has returned
its id, and the callback may have assigned the interval's id before; then
`clearTimeout` clears an event that is gone and the interval stays.

**FileTransfer** takes each direction as the reliable stream that `Connection`
implements: `sent` is accepted and not yet in the receive buffer, `ready` is what
recv may return. `SendRoom` stands for the send ring's `remain() > size` together
with what the peer's ring takes, `RecvRoom` for the receive ring. Bytes move
any number at a time, since segments are cut at any place. A line is one byte of
text and one newline, enough to be cut in two. `ClientHangs` and `ServerHangs` are
read_till_ln's event when the bytes that are there end within a line: it has
stored them and is erased, and nobody sets `end`. A file's bytes are named by
request and position, so a byte of another answer in the wrong place is seen.

## 3. Runs

| Run | Checks | Instance |
|---|---|---|
| `sender` | SenderTypeOK, WindowOrdered, TimerCoversOutstanding, UnackedInPlace, SegmentsIntact, RecoveryCounted, SlowStartBelowThreshold, FlightFitsWindow | MSS 2, ring of 5 slots, 7 bytes, windows 0, 2, 3 and 8 |
| `sender_idle_recovery` | RecoveryMeansLoss is violated | the same |
| `receiver` | ReceiverTypeOK, InOrderDelivery, ReadableBytesHeld, SectionsHeld, AcceptedDataFits, WindowFitsBuffer, GapDisarmsDelay, StaleOnlyByStraddling | every segment of 1 to 3 bytes of a 10-byte stream, ring of 8, window 5, while expectSeqNum is not behind lastByteRead |
| `connection` | EndsAgree, FlowControlled, UnreceivedBytesKept, StreamSpec | MSS 2, rings of 4 and 5 slots, window 4, 5 bytes |
| `connection_progress` | SentIsDelivered | MSS 2, writes of 2, reads of 1, window 4, rings of 6 and 7: two segments outstanding |
| `connection_stream` | StreamSpec is violated | MSS 8, writes of 1, receive ring of 17, window 8 |
| `connection_stall` | WrittenIsDelivered is violated | MSS 2, writes of 2, reads of 1, window 2, rings of 5 and 4 |
| `handshake` | HandshakeTypeOK, OneHandshake, NumbersAgree, AcceptedAreOpen, ConnectedHaveLink, TimersOfHandshake, AcceptedSurvive | two clients, two initial numbers, two SYNs taken up |
| `handshake_ends` | TakenUpIsSettled, ConnectedIsAccepted | the same with one initial number |
| `dispatcher` | DispatcherTypeOK, CallbacksHaveFrames, NothingLeftBehind, CallsAreSynchronous, EveryCallReturns | two threads with a call each, one interval of the protocol |
| `file_transfer` | FileTransferTypeOK, FilesIntact, InStep, SessionEnds | five requests: a file that ends within a chunk, a missing one, one that ends with a chunk, a sum, an empty file; chunks of 4 |
| `file_transfer_split` | SessionFinishes is violated | the same |

Bounds and why they suffice. The rings are shorter than the stream, so every
index wraps, and start, end and the data wrap separately. `Threshold` is a few
segments, so slow start, congestion avoidance and fast recovery all occur, cwnd
falls to 0 by repeated halving and grows from there. `MaxDup` allows more than
three duplicates in a row. `NetCap` and `AckCap` bound what is under way at one
moment; with one segment under way loss still produces gaps, since what was
sent before can be dropped in favour of what is sent after. Deadlock is
checked where the system goes on for ever (`receiver`, `connection`,
`connection_progress`, `dispatcher`); the sender alone stops when the bounded
stream is acknowledged, the set-up when MaxSyns are taken up, the programs when
the requests are answered or a line is split.

For the set-up, two SYNs taken up are enough to serve two clients one after the
other, to serve one twice after a failure with an old SYN/ACK still under way,
and to overwrite the global timer ids; nothing a handler does depends on more
than the current and one earlier handshake. A third one adds states and no
error.

For the dispatcher, two threads are enough to have one wait for the lock that the
other has and to set events while the other's are cleared, and one interval that
nobody clears is enough to keep the loop busy. The theorems of section 4 cover
any number of threads and calls. In the file transfer every length is chosen
around `Chunk`, and the room is less than two chunks on one side, so that sending
waits for reading; `RecvRoom` 6 cuts chunks and lets an answer and the
file behind it be read at once.

Segment lengths and the window matter for the receiver. A segment that begins
before a section and ends inside or behind it *straddles* the section's
beginning; it may leave a stale section, at whose end expectSeqNum is later set
back (finding 2 below). In the `receiver` run segments are long and the window
wide enough for that: with the stream complete and read up to 5 and the sections
[5,6) and [7,8), the segment [6,9) arrives and makes them [5,9) and [7,8);
expectSeqNum will be 9 and then 8. `StaleOnlyByStraddling` says that nothing
else does such harm. The run's specification, `BehindSpec`, stops
short of one step, the one that sets expectSeqNum behind what recv() has read
already; up to there all invariants hold, with stale sections and a window that
goes back. In the `connection` runs segments have two bytes and the window four,
and no section is left behind: there the direction is a reliable stream.
`connection_stream` shows it going wrong beyond these bounds, and the theorems
on the receiver and the connection (section 4) say for all bounds which
condition the code needs.

### Findings

1. `sender_idle_recovery`. Any segment whose ACK number is sendBase counts as a
   duplicate ACK (tcp_duplex.cpp:76), also a data segment while nothing is
   outstanding; three of them start fast recovery. The size test that would
   prevent it is commented out in the line above.
2. `connection_stream`. The loops `for(int i = front; i < delCount; i++)
   erase(iter+i)` (section_control.cpp:37) and their like erase too few or the
   wrong elements. A small write, then others, arrive out of order; a
   retransmission that joins them leaves sections behind the stream's end;
   later expectSeqNum is set back to one. When it falls below lastByteRead, a
   write refused by the ring goes unnoticed and recv() hands out stale memory.
3. `connection_stall`. The window closes while bytes wait in the send buffer;
   the application reads, but recv() sends no ACK, and the timer resends only
   what was sent before. Without traffic the other way the bytes stay. (With
   traffic the other way they are sent: an ACK that rides on data opens the
   window. The counterexample is a peer that has nothing to say.)
4. `file_transfer_split`. read_till_ln registers its conditional event once
   (tcp.cpp:222). If what is readable ends within a line the event has run and is
   erased, the flag is not set, and the caller waits for ever. The programs'
   lines are short and go out in one segment as a rule, but a segment ends where
   the sender's window ends, or is cropped to the receiver's: a line at the end of
   a window comes in two parts. That is the only way in which the two programs
   come to wait for ever on a reliable stream (`SessionEnds`).

Also seen, where the repository makes no statement to refute:

- thread_await's interval may be left running with a reference to a condition
  variable that has gone (EventDispatcher.cpp:136, see `Overwritten` above). The
  window is the return of `setConditional`.
- connect does not wait for its failure event, which refers to its locals
  (tcp.cpp:92). Its other event (tcp.cpp:98), which sets the congestion state
  after the SYN/ACK's handler has opened the link, is harmless: connect waits for
  it, and nothing is sent on the link before the client has asked for something.
- Both the SYN/ACK and its interval keep the pointer inet_ntoa returned
  (tcpiostream.cpp:75), whose text later datagrams overwrite: a SYN/ACK may go
  to another host, where it finds no link. To the models it is lost.
- The UDP layer keeps one port per host (udp.cpp:58): a second client on a host is
  answered at the first one's port. To the models all it is sent is lost.
- accept may return 0, and Server.cpp:123 starts a thread for it all the same,
  which dereferences a null entry: one client that does not answer its SYN/ACK
  ends the server process. `TakenUpIsSettled` allows this as the one end of a
  handshake besides accept.
- `syn_ack_failed` is never reset (tcpiostream.cpp:85). Between a handshake that
  timed out and the end of the process every accept returns 0 as soon as a SYN
  arrives and erases the link, while the client's connect may succeed.
  ConnectedHaveLink, TimersOfHandshake and ConnectedIsAccepted hold up to the
  time-out only, and say so. After it timers are left whose ids are overwritten.
- The handshake is completed by any segment of the client, and its sequence
  number is where the server's stream begins (tcpiostream.cpp:129). With
  DataOffsets = {0, 2} in place of {0}, that is with a second segment sent
  before the first is acknowledged, NumbersAgree fails: the third ACK and the first
  segment are lost and the bytes before the second are skipped. The client program
  sends one short request and waits.
- With RWND_MAX at the full size of the ring, bytes beyond a gap can fill it
  and reduce rwnd to 0, after which the missing byte is rejected for ever. With
  the built constants (65535 and 512 K) it cannot happen; with the commented-out
  ones (2000 and 2000) it could. The progress run keeps the built proportion.

### Fairness

`FairSpec` assumes: a retransmission that leaves its first segment in the
network happens again and again if it can (strong fairness: losses are
independent and rare, `LOSS_RATE`, and the timer is an interval); that segment
reaches the receiver and is not for ever answered in vain, that is, an armed
timer or an ACK at least as new comes of it again and again (a mute is
an ACK on data, which may be lost like any other); an ACK of new data
arrives if such ACKs are in the network again and again; the delayed-ACK timer
fires and the application keeps reading (weak fairness: the dispatcher's loop
goes on). Nothing is assumed about writes. For the set-up, the server's
deadline fires, the thread in accept is woken, and the loop comes to the event
of the thread for port 0 (weak fairness); nothing is assumed about the network.

For the dispatcher: the loop and the threads go on (weak fairness). Again and
again a scan finds no interval due: intervals are of a millisecond or more and
callbacks are short, and without it the lowest due id would starve the others
(the code gives no other guarantee). A thread that waits for the system gets it
(strong fairness): when nothing is due run() sleeps 500 microseconds without
the mutex. What a call waits for comes. Nothing is assumed about spurious wakeups
and new calls. For the file transfer: both threads go on, and what was sent
arrives (weak fairness), which is `SentIsDelivered` of `Connection` on the
assumption that finding 3 does not occur.

## 4. Proofs

`RingBufferProofs` proves about the ring, for every capacity, base and size,
what its methods do to indexes, size and cells: lemmas on remainders, then
`RingWriteAppends`, `RingWriteKeeps` (a write behind the end keeps all bytes in
place and adds its own) and `RingMoveStartDrops`. `RingWriteClosed` and
`RingMoveStartClosed` say that a write or a read at any place whatever leaves a
ring, which is all that is known once a stale section has set the window back.

`SenderProofs` proves for the sender, from `ConstantsAssumption` alone, all the
properties of the `sender` run. The inductive invariant is

    SenderInv == SenderTypeOK /\ WindowOrdered /\ TimerCoversOutstanding
                 /\ UnackedInPlace /\ SegmentsIntact

`WindowOrdered` says that the ring's start is sendBase's slot, which makes
`sendBase + size()` the right place for a write; it also gives
`TimerCoversOutstanding` its step for a new ACK, which implies outstanding data
and so a timer that goes on. `UnackedInPlace` is what `SegmentsIntact` needs of
the buffer each segment is copied from. `SendNewStep` treats the tail that all
three callers of send_new share, `SameWindow` the steps that leave the window
alone; there is one lemma per handler. `RecoveryIsCounted` and `SlowStartIsBelow`
have an inductive invariant of their own, the two facts and the types: every
handler sets state and count so that fast recovery and three duplicates go
together, and that a timeout halves ssthresh and takes the window to one segment keeps slow start
below its threshold whatever the window was.

`HandshakeProofs` proves the properties of the `handshake` run from
`HandshakeAssumption`, for any set of clients, any initial numbers and any
number of SYNs. The inductive invariant of the server is

    ServerInv == HandshakeTypeOK /\ AcceptInOrder /\ FlagsInOrder
                 /\ OneHandshake /\ AcceptedAreOpen

`AcceptInOrder` is why accept may read `client_port` without the lock: past its
first wait `getSYN` is set, so no SYN is taken up and the port it has read is
still the one named. `FlagsInOrder` says what the two flags promise: with
`getSYN` the named client is not accepted yet, with `get3wayACK` its link is
open. From these follow `OneAtATime`, `AcceptedLinksAreOpen` and
`AcceptedIsLeftAlone`. `TimersAreOfHandshake` and `ConnectedIsKnown` speak of
the time before a handshake has failed; the latter needs `Answered`, that
whoever was sent a SYN/ACK has a link, and `ConnectInOrder`, that connect
makes the client's link before it returns. `EndsStartAlike` needs `NumbersKnown`:
each number in an ACK on its way, or taken from one, is that of the client's
link while there is one. It assumes `DataOffsets = {0}`, since with a later
data segment as the third ACK the numbers differ (see "Also seen" in section
3); every other theorem of the module holds for any `DataOffsets`.

`DispatcherProofs` proves the safety properties of the `dispatcher` run, its
refinement among them, from `DispatcherAssumption`, for any set of threads and
any number of calls. The inductive invariant is

    DispatcherInv == DispatcherTypeOK /\ IdsGiven /\ LocksInOrder
                     /\ FlagsInOrder /\ OnceEach /\ WorkInTime /\ AwaitInTime
                     /\ NotifyInTime /\ CallbackInTime /\ ClearedInTime

`LocksInOrder` is mutual exclusion: the loop or the one thread that clears its
event has the system. It gives `ClearedInTime`, that nobody sets an interval
between a thread's clearing and its return, and `CallbackInTime`, that a thread
does not return while the rest of its callback runs. `OnceEach` says that an event
which run() has taken is not in the list, so that a call's event and its await
run once; `WorkInTime`, `AwaitInTime` and `NotifyInTime` say in which stage of
the call each kind of event exists. `Synchronous` maps a call to "away",
"registered" and "done": `StageMoves` has the three steps that move it,
`StageStays` the others, `StageSteps` puts them together.

`SectionControlProofs` is about addSection with its erasures as the code makes
them, for lists of any length. `AddSectionInventsNothing` takes any list whose
sections are in order: whatever is erased, the result is in order, claims no
byte that neither the list nor the new section claimed, and ends only where one
of them ended. `AddSectionJoins` takes sections that are apart, none of which
begins inside the new one: then nothing is forgotten either, and they stay
apart. The condition cannot be dropped: in finding 2 a section begins inside the
new one. The erasures are folds, and a fold is defined by
recursion: `NatInductionSet` is induction over a set of naturals in the place of a
predicate, obtained from the library's theorem on least elements, and
`RecursionExists` gives from it the function that a recursive definition
describes. With them `ErasuresUnfold` says what one more erasure does.

`ReceiverProofs` proves `GapsAreReported`, that no ACK is delayed while sections
wait, for every capacity, window and segment, muted or not. That invariant is
inductive as it stands, because the one branch that arms the timer asks for an
empty list and every branch that fills the list turns it off. The other
properties rest on

    ReceiverInv == BufferFrom(recv_tool, lastByteRead) /\ ReadStaysBehind
                   /\ "every byte below expectSeqNum is in its slot or read"
                   /\ SectionsBacked(recvControl, recv_tool, lastByteRead) /\ ...

in which every byte that a number or a section vouches for is in the ring.
`SectionsBacked` survives any addSection by `AddSectionInventsNothing`: a
list that has forgotten bytes, or keeps a stale section, still claims
nothing that did not arrive. What a stale section can do is set expectSeqNum
back, and when it falls behind `lastByteRead` recv() hands out stale memory. So
without a condition the properties are false (finding 2), and the theorems
`ReceiverTypes`, `DeliveryInOrder`, `ReadableBytesAreHeld`, `SectionsAreHeld`,
`AcceptedFits` and `WindowFits` have the hypothesis `[]ReadStaysBehind`, that it
does not fall that far. `ForwardMeansBehind` derives this hypothesis from
`WindowSlidesForward`, that expectSeqNum never decreases.

How a section becomes stale is the subject of the other two. From
`StaleSectionsAreStraddled`, which has no hypothesis, a step that starts with
tidy sections (in order, apart, none behind the window) moves the window
forward or leaves it, and leaves tidy sections behind unless it is the arrival
of a segment that straddles the beginning of one. Its inductive invariant,
`RangesKept /\ GapDisarmsDelay`, holds in every behaviour, also where stale
sections have set the window back and the ring holds anything; the heart is
`AddSectionJoins`. `ReceiverUnlessStraddled` follows: in a behaviour in which no
segment straddles a section as it arrives the sections stay tidy, the window
only slides forward, and the six invariants hold. Loss, repetition, reordering,
overlap with what was received in order, and cropping at either end are all
free in it.

`ConnectionProofs` proves the safety properties of the `connection` run and its
refinement of the reliable stream. Its first part identifies the operators of the
instances in `Connection` with those that the lemmas of `SenderProofs` and
`ReceiverProofs` are about, so that each half's step lemmas can be cited. The
inductive invariant is

    ConnInv == SenderInv with the segments sent /\ ReceiverInv
               /\ sendBase <= expectSeqNum /\ nextSeqNum <= Room
               /\ sendBase + dest_rwnd <= Room
               /\ "nothing the receiver holds ends beyond nextSeqNum"
               /\ \A a \in ackNet : AckHolds(a)

where `Room` is lastByteRead + RecvCap - 1. `AckHolds` is the heart of it: an ACK
of any age, an ACK that rides on data with yesterday's numbers included, claims
no more than has arrived, and its number and window together promise no more
than `Room`, which only grows. So a duplicated or late ACK may set dest_rwnd to
any old value and flow control holds all the same. `ConnectionInvariant`,
`EndsStayInAgreement`, `FlowIsControlled`, `UnreceivedAreKept` and
`ConnectionIsStream` have the hypothesis `WindowNeverBack`, that no step of the
connection moves expectSeqNum back; the behaviour of `connection_stream`
violates it, and an ACK once sent would then claim too much. `NothingStraddled` is a
state predicate that is enough for it: no section the receiver holds begins
strictly inside a segment under way. `ForwardUnlessStraddled` proves
WindowNeverBack from it, and `StreamUnlessStraddled` puts all together. It holds
as long as retransmissions are cut where the transmissions were, and may fail
when the window has cut them elsewhere: in the `connection` instance it is false in
about one state in a hundred.

`FileTransferProofs` proves the safety properties of `file_transfer` from
`FileTransferAssumption`, for any list of requests, any chunk and any room. The
inductive invariant `SessionInv` says that the session is in one of six phases,
and what is on the two streams in each: nothing (`Between`, `Served`), the
request (`Asked`), the answer and as much of the file as the server has sent
(`Answered`), what is left of that (`Receiving`), or anything when a line has
been split (`Lost`). `Content`, the bytes of a stream whether they have arrived
or not, is what the phases speak of, so that arrivals leave each phase alone;
`HasLine` tells whether a line is whole, and then the lemmas on sequences give
that what is taken is exactly the line in front. `FilesComeWhole` and
`ProgramsInStep` are parts of it.

Only model-checked: the liveness properties (`SentIsDelivered`,
`TakenUpIsSettled`, `ConnectedIsAccepted`, `EveryCallReturns`, `SessionEnds`), which
are out of the prover's reach, and, within the bounds of their runs, the
receiver's and the connection's properties without the hypotheses named above.

## 5. Plan

Done: ring, sections, sender, receiver, connection with the effects of the other
direction, set-up, dispatcher with its refinement, the two programs. Left, in
this order:

1. A numeric check of the ring with positions of a small word width (they become
   negative in the ring from 2^31 on, buffer.cpp:16).
2. The UDP layer's table of peers, with several clients on one host.
3. Proofs: a weaker condition than `NothingStraddled`, one that follows from how
   the sender cuts its segments and not from what the receiver holds.

### Not modelled

- The debugger (prints, and is enabled nowhere), packet layout and byte order,
  socket calls, files and console of the two programs, the operands of the
  arithmetic.
- What is in the source and never used: the half of async.cpp that is not
  compiled, system_await, setTimeoutSync, todoCount, class Promise and
  endEventDispatcher.
- A data race inside `std::map` when application threads use tcp_port_table and
  key_table without the lock (tcp.cpp:174): its outcomes cannot be
  enumerated. The models take each lookup as one step.
- What the process does after a callback has written through a dangling
  reference.
