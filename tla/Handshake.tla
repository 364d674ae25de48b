------------------------------ MODULE Handshake ------------------------------
(***************************************************************************)
(* Setting up connections: connect and accept of lib/net/tcp.cpp and the   *)
(* SYN, SYN/ACK and third-ACK branches of tcp_istream in                   *)
(* lib/net/tcpiostream.cpp, for one server and several clients.            *)
(*                                                                         *)
(* Callbacks run one at a time on the dispatcher's thread, each is one     *)
(* action.  connect and accept run on application threads: they wait for   *)
(* a condition, go on at some later time and read the globals without the  *)
(* lock, so waking up and reading are actions of their own.  Clients are   *)
(* known to the server by their ports and call connect once.               *)
(***************************************************************************)
EXTENDS Naturals, Sequences

CONSTANTS
  Clients,         \* the ports connect draws
  InitialNumbers,  \* what initSeqNum may be
  DataOffsets,     \* how far into the stream a client's segments may begin
  MaxSyns          \* bound: SYNs the server takes up

NoPort == "none"

ASSUME HandshakeAssumption ==
  /\ NoPort \notin Clients
  /\ InitialNumbers \subseteq Nat
  /\ DataOffsets \subseteq Nat
  /\ MaxSyns \in Nat

VARIABLES
  phase,           \* where the call of connect is
  clink,           \* the client's entry of tcp_port_table
  iss,             \* initSeqNum of connect
  resending,       \* is the SYN interval set
  limited,         \* is the client's deadline set
  failed,          \* the flag the deadline sets
  link,            \* the server's tcp_port_table
  key_table,       \* ports in the server's key_table
  synAcks,         \* the SYN/ACKs made; the last one's number is timer and deadline
  intervals,       \* numbers of the SYN/ACKs whose interval is set
  deadlines,       \* numbers of the SYN/ACKs whose deadline is set
  getSYN, get3wayACK, syn_ack_failed, client_port,
  acceptPc,        \* where the call of accept is
  acceptKey,       \* the port it has read
  accepted,        \* the ports it has returned
  process,         \* the server's: "doomed" when it serves port 0, then "down"
  net              \* datagrams sent and not dropped

connectVars == <<phase, resending, limited, failed>>
clientVars == <<connectVars, clink, iss>>
flags == <<getSYN, get3wayACK, client_port>>
timerVars == <<synAcks, intervals, deadlines, syn_ack_failed>>
tableVars == <<link, key_table>>
acceptVars == <<acceptPc, acceptKey, accepted, process>>
vars == <<clientVars, flags, timerVars, tableVars, acceptVars, net>>

NoLink == [state |-> "none", sendBase |-> 0, expectSeqNum |-> 0]
HalfOpen == [state |-> "half-open", sendBase |-> 0, expectSeqNum |-> 0]
Established(sendBase, expectSeqNum) ==
  [state |-> "open", sendBase |-> sendBase, expectSeqNum |-> expectSeqNum]
Closed(entry) == entry.state = "none"
Opening(entry) == entry.state = "half-open"
Open(entry) == entry.state = "open"

Pack(kind, port, seq, ack) ==
  [kind |-> kind, port |-> port, seq |-> seq, ack |-> ack]

\* send_poisson may drop it.  UDP delivers a datagram any number of times, and
\* at any time, or never.
Send(pack) == net' \in {net, net \cup {pack}}

timer == Len(synAcks)

Init ==
  /\ phase = [c \in Clients |-> "idle"]
  /\ clink = [c \in Clients |-> NoLink]
  /\ iss \in [Clients -> InitialNumbers]
  /\ resending = [c \in Clients |-> FALSE]
  /\ limited = [c \in Clients |-> FALSE]
  /\ failed = [c \in Clients |-> FALSE]
  /\ link = [c \in Clients |-> NoLink]
  /\ key_table = {}
  /\ synAcks = << >>
  /\ intervals = {}
  /\ deadlines = {}
  /\ getSYN = FALSE
  /\ get3wayACK = FALSE
  /\ syn_ack_failed = FALSE
  /\ client_port = NoPort
  /\ acceptPc = "listening"
  /\ acceptKey = NoPort
  /\ accepted = {}
  /\ process = "up"
  /\ net = {}
-----------------------------------------------------------------------------
(* The client.                                                             *)

Syn(c) == Pack("SYN", c, iss[c], 0)

\* connect's first event: the link, the SYN and the two timers.
Connect(c) ==
  /\ phase[c] = "idle"
  /\ phase' = [phase EXCEPT ![c] = "waiting"]
  /\ clink' = [clink EXCEPT ![c] = HalfOpen]
  /\ resending' = [resending EXCEPT ![c] = TRUE]
  /\ limited' = [limited EXCEPT ![c] = TRUE]
  /\ Send(Syn(c))
  /\ UNCHANGED <<iss, failed, flags, timerVars, tableVars, acceptVars>>

ResendSyn(c) ==
  /\ resending[c]
  /\ Send(Syn(c))
  /\ UNCHANGED <<clientVars, flags, timerVars, tableVars, acceptVars>>

ConnectDeadline(c) ==
  /\ limited[c]
  /\ limited' = [limited EXCEPT ![c] = FALSE]
  /\ resending' = [resending EXCEPT ![c] = FALSE]
  /\ failed' = [failed EXCEPT ![c] = TRUE]
  /\ UNCHANGED <<phase, clink, iss, flags, timerVars, tableVars, acceptVars, net>>

\* The numbers a client takes from the SYN/ACK.
SynAckNumbers(pack) == Established(pack.ack, pack.seq + 1)

ClientSegment(c, offset) ==
  Pack("ACK", c, clink[c].sendBase + offset, clink[c].expectSeqNum)

\* The SYN/ACK branch of tcp_istream.
SynAckArrives(pack) ==
  LET c == pack.port
  IN  /\ pack.kind = "SYN/ACK"
      /\ Opening(clink[c])
      /\ clink' = [clink EXCEPT ![c] = SynAckNumbers(pack)]
      /\ Send(Pack("ACK", c, clink'[c].sendBase, clink'[c].expectSeqNum))
      /\ UNCHANGED <<connectVars, iss, flags, timerVars, tableVars, acceptVars>>

\* The await of get_SYN_ACK, which is set when the link opens, or failed.
ConnectWakes(c) ==
  /\ phase[c] = "waiting"
  /\ Open(clink[c]) \/ failed[c]
  /\ phase' = [phase EXCEPT ![c] = "awake"]
  /\ UNCHANGED <<clink, iss, resending, limited, failed, flags, timerVars,
                 tableVars, acceptVars, net>>

ConnectTestsFailed(c) ==
  /\ phase[c] = "awake"
  /\ phase' = [phase EXCEPT ![c] = IF failed[c] THEN "failing" ELSE "resetting"]
  /\ UNCHANGED <<clink, iss, resending, limited, failed, flags, timerVars,
                 tableVars, acceptVars, net>>

\* connect returns 0 at once; the event erases what its dangling reference to
\* the key names by then, the link or nothing.
ConnectFails(c) ==
  /\ phase[c] = "failing"
  /\ phase' = [phase EXCEPT ![c] = "failed"]
  /\ clink' \in {clink, [clink EXCEPT ![c] = NoLink]}
  /\ UNCHANGED <<iss, resending, limited, failed, flags, timerVars, tableVars,
                 acceptVars, net>>

ConnectReturns(c) ==
  /\ phase[c] = "resetting"
  /\ phase' = [phase EXCEPT ![c] = "connected"]
  /\ limited' = [limited EXCEPT ![c] = FALSE]
  /\ resending' = [resending EXCEPT ![c] = FALSE]
  /\ UNCHANGED <<clink, iss, failed, flags, timerVars, tableVars, acceptVars, net>>

\* Data of a connected client, with the ACK field every segment has.
SendData(c, offset) ==
  /\ phase[c] = "connected"
  /\ Send(ClientSegment(c, offset))
  /\ UNCHANGED <<clientVars, flags, timerVars, tableVars, acceptVars>>
-----------------------------------------------------------------------------
(* The server.                                                             *)

Running == process # "down"

\* The SYN branch is taken by a new client while no other one is being served.
\* Mutants: either of the two tests is left out.
NewClientWhileBusy(c) == Closed(link[c])
NewClientAnyLink(c) == ~getSYN /\ ~Opening(link[c])
NewClient(c) == Closed(link[c]) /\ ~getSYN

SynArrives(pack) ==
  LET c == pack.port
  IN  /\ Running
      /\ pack.kind = "SYN"
      /\ NewClient(c)
      /\ Len(synAcks) < MaxSyns
      /\ \E initSeqNum \in InitialNumbers :
           LET synAck == Pack("SYN/ACK", c, initSeqNum, pack.seq + 1)
           IN  /\ synAcks' = Append(synAcks, synAck)
               /\ Send(synAck)
      /\ intervals' = intervals \cup {timer'}
      /\ deadlines' = deadlines \cup {timer'}
      /\ link' = [link EXCEPT ![c] = HalfOpen]
      /\ client_port' = c
      /\ getSYN' = TRUE
      /\ UNCHANGED <<clientVars, key_table, get3wayACK, syn_ack_failed, acceptVars>>

\* The interval's callback keeps a reference to a variable that is gone: what
\* it sends is the SYN/ACK, a later one in the same memory, or nothing of use.
ResendSynAck(n) ==
  /\ Running
  /\ n \in intervals
  /\ \E k \in n..Len(synAcks) : Send(synAcks[k])
  /\ UNCHANGED <<clientVars, flags, timerVars, tableVars, acceptVars>>

\* It clears the interval that timer names by then.  Mutant: the flag
\* is not set.
SynAckDeadlineUnseen(n) ==
  /\ Running
  /\ n \in deadlines
  /\ deadlines' = deadlines \ {n}
  /\ intervals' = intervals \ {timer}
  /\ UNCHANGED <<clientVars, synAcks, syn_ack_failed, flags, tableVars, acceptVars,
                 net>>

SynAckDeadline(n) ==
  /\ Running
  /\ n \in deadlines
  /\ deadlines' = deadlines \ {n}
  /\ intervals' = intervals \ {timer}
  /\ syn_ack_failed' = TRUE
  /\ UNCHANGED <<clientVars, synAcks, flags, tableVars, acceptVars, net>>

\* The segment that completes a handshake: the third ACK or, if that one was
\* lost, data.  Its call of tcp_duplex is the first duplicate ACK of the sender
\* (see Sender) and the first segment of the receiver (see Receiver).
\* Mutants: the numbers of the server's last SYN/ACK are used; one timer stays.
AckNumbersOfServer(pack) ==
  Established(synAcks[Len(synAcks)].seq + 1, pack.seq)
AckNumbers(pack) == Established(pack.ack, pack.seq)

StoppedTimersButDeadline(set) == IF set = deadlines THEN set ELSE set \ {timer}
StoppedTimers(set) == set \ {timer}

AckArrives(pack) ==
  LET c == pack.port
  IN  /\ Running
      /\ pack.kind = "ACK"
      /\ Opening(link[c])
      /\ ~get3wayACK
      /\ intervals' = StoppedTimers(intervals)
      /\ deadlines' = StoppedTimers(deadlines)
      /\ link' = [link EXCEPT ![c] = AckNumbers(pack)]
      /\ key_table' = key_table \cup {c}
      /\ get3wayACK' = TRUE
      /\ UNCHANGED <<clientVars, synAcks, syn_ack_failed, getSYN, client_port,
                     acceptVars, net>>
-----------------------------------------------------------------------------
(* accept, which the server calls again and again.                         *)

AcceptSeesSyn ==
  /\ acceptPc = "listening"
  /\ getSYN
  /\ acceptPc' = "awake"
  /\ UNCHANGED <<clientVars, flags, timerVars, tableVars, acceptKey, accepted,
                 process, net>>

\* Mutant: the port was read before the wait.
PortReadBefore == acceptKey
PortRead == client_port

AcceptReadsPort ==
  /\ acceptPc = "awake"
  /\ acceptPc' = "waiting"
  /\ acceptKey' = PortRead
  /\ UNCHANGED <<clientVars, flags, timerVars, tableVars, accepted, process,
                 net>>

AcceptWakes ==
  /\ acceptPc = "waiting"
  /\ get3wayACK \/ syn_ack_failed
  /\ acceptPc' = "deciding"
  /\ UNCHANGED <<clientVars, flags, timerVars, tableVars, acceptKey, accepted,
                 process, net>>

\* Mutant: the test is inverted.
OutcomeInverted == IF syn_ack_failed THEN "resetting" ELSE "failing"
Outcome == IF syn_ack_failed THEN "failing" ELSE "resetting"

AcceptTestsFailed ==
  /\ acceptPc = "deciding"
  /\ acceptPc' = Outcome
  /\ UNCHANGED <<clientVars, flags, timerVars, tableVars, acceptKey, accepted,
                 process, net>>

\* accept returns 0.  Its event runs before the next call's, which is younger.
\* The server calls accept again, and starts a thread for port 0 all the same.
\* Mutant: it does so only for a port that accept has accepted.
AcceptFailsUnserved ==
  /\ acceptPc = "failing"
  /\ acceptPc' = "listening"
  /\ link' = [link EXCEPT ![acceptKey] = NoLink]
  /\ getSYN' = FALSE
  /\ get3wayACK' = FALSE
  /\ UNCHANGED <<clientVars, client_port, timerVars, key_table, acceptKey, accepted,
                 process, net>>

AcceptFails ==
  /\ acceptPc = "failing"
  /\ acceptPc' = "listening"
  /\ link' = [link EXCEPT ![acceptKey] = NoLink]
  /\ getSYN' = FALSE
  /\ get3wayACK' = FALSE
  /\ process' = "doomed"
  /\ UNCHANGED <<clientVars, client_port, timerVars, key_table, acceptKey, accepted,
                 net>>

\* Mutant: get3wayACK is not taken back.
AckFlagKept == get3wayACK
AckFlagTakenBack == FALSE

AcceptReturns ==
  /\ acceptPc = "resetting"
  /\ acceptPc' = "listening"
  /\ getSYN' = FALSE
  /\ get3wayACK' = AckFlagTakenBack
  /\ accepted' = accepted \cup {acceptKey}
  /\ UNCHANGED <<clientVars, client_port, timerVars, tableVars, acceptKey, process,
                 net>>

\* The thread of port 0 registers read_till_ln's event on the null entry that
\* operator[] makes; the loop's next scan evaluates its condition, and the
\* process ends.
ServerDies ==
  /\ process = "doomed"
  /\ process' = "down"
  /\ UNCHANGED <<clientVars, flags, timerVars, tableVars, acceptPc, acceptKey, accepted,
                 net>>

ConnectCall(c) ==
  ConnectWakes(c) \/ ConnectTestsFailed(c) \/ ConnectFails(c) \/ ConnectReturns(c)

AcceptCall ==
  /\ Running
  /\ \/ AcceptSeesSyn
     \/ AcceptReadsPort
     \/ AcceptWakes
     \/ AcceptTestsFailed
     \/ AcceptFails
     \/ AcceptReturns

Next ==
  \/ \E c \in Clients :
       \/ Connect(c)
       \/ ResendSyn(c)
       \/ ConnectDeadline(c)
       \/ ConnectCall(c)
       \/ \E offset \in DataOffsets : SendData(c, offset)
  \/ \E pack \in net : SynArrives(pack) \/ SynAckArrives(pack) \/ AckArrives(pack)
  \/ \E n \in 1..MaxSyns : ResendSynAck(n) \/ SynAckDeadline(n)
  \/ AcceptCall
  \/ ServerDies

Spec == Init /\ [][Next]_vars

(* The server's deadline fires, its waiting thread is woken and its loop    *)
(* comes to every event.  Nothing is assumed of the network: without an     *)
(* answer a handshake ends by deadline.                                     *)
FairSpec ==
  /\ Spec
  /\ WF_vars(AcceptCall)
  /\ WF_vars(ServerDies)
  /\ \A n \in 1..MaxSyns : WF_vars(SynAckDeadline(n))
-----------------------------------------------------------------------------
(* Properties.                                                             *)

Links ==
  [state : {"none", "half-open", "open"}, sendBase : Nat, expectSeqNum : Nat]

ClientTypeOK ==
  /\ phase \in [Clients -> {"idle", "waiting", "awake", "failing", "resetting",
                            "failed", "connected"}]
  /\ clink \in [Clients -> Links]
  /\ iss \in [Clients -> InitialNumbers]
  /\ {resending, limited, failed} \subseteq [Clients -> BOOLEAN]

TableTypeOK ==
  /\ link \in [Clients -> Links]
  /\ key_table \subseteq Clients
  /\ accepted \subseteq Clients

SynAckPacks == [kind : {"SYN/ACK"}, port : Clients, seq : Nat, ack : Nat]

TimerTypeOK ==
  /\ synAcks \in Seq(SynAckPacks)
  /\ Len(synAcks) <= MaxSyns
  /\ intervals \subseteq 1..Len(synAcks)
  /\ deadlines \subseteq 1..Len(synAcks)

AcceptTypeOK ==
  /\ {getSYN, get3wayACK, syn_ack_failed} \subseteq BOOLEAN
  /\ {client_port, acceptKey} \subseteq Clients \cup {NoPort}
  /\ acceptPc \in {"listening", "awake", "waiting", "deciding", "failing",
                   "resetting"}
  /\ process \in {"up", "doomed", "down"}

NetTypeOK ==
  net \subseteq [kind : {"SYN", "SYN/ACK", "ACK"}, port : Clients, seq : Nat,
                ack : Nat]

\* Every variable stays in its range.
HandshakeTypeOK ==
  ClientTypeOK /\ TableTypeOK /\ TimerTypeOK /\ AcceptTypeOK /\ NetTypeOK

\* The globals getSYN and client_port speak of one handshake: no link but the
\* one of client_port is half open, and that one only until accept is done.
OneHandshake ==
  \A c \in Clients : Opening(link[c]) => getSYN /\ client_port = c

\* The two ends of a connection start from the same numbers, whichever of the
\* SYN/ACKs the client has answered and whichever segment the server has taken
\* for the third ACK.
NumbersAgree ==
  \A c \in Clients :
    Open(clink[c]) /\ Open(link[c]) =>
      /\ link[c].sendBase = clink[c].expectSeqNum
      /\ link[c].expectSeqNum = clink[c].sendBase

\* The port that accept returns is one the client has answered for: the link
\* is open and send() and recv() will find it.
AcceptedAreOpen ==
  \A c \in accepted : Open(link[c]) /\ c \in key_table

\* A connect that succeeds is known to the server, until a handshake has timed
\* out: its link is there and the third ACK or data will open it.
ConnectedHaveLink ==
  \A c \in Clients :
    phase[c] = "connected" /\ ~syn_ack_failed => ~Closed(link[c])

\* Until a handshake has timed out the two globals timer and deadline are
\* enough: the timers of a handshake run exactly while it is half open, and no
\* timer whose id has been overwritten is left.
TimersOfHandshake ==
  ~syn_ack_failed =>
    /\ intervals = deadlines
    /\ deadlines = IF \E c \in Clients : Opening(link[c]) THEN {timer} ELSE {}

\* An accepted connection is left alone by later handshakes, late SYNs and old
\* timers.
AcceptedSurvive ==
  [][\A c \in accepted : c \in accepted' /\ link'[c] = link[c]]_vars

\* A SYN that is taken up has one of two ends, whatever is lost and however the
\* third ACK, the deadlines and accept's decision meet: its client is accepted,
\* or the server process ends, since accept's 0 is served like a port.  No
\* handshake leaves accept waiting or its client forgotten.
TakenUpIsSettled ==
  \A c \in Clients :
    getSYN /\ client_port = c ~> c \in accepted \/ process = "down"

\* Until a handshake has timed out every client whose connect succeeds is
\* returned by accept.
ConnectedIsAccepted ==
  \A c \in Clients : phase[c] = "connected" ~> c \in accepted \/ syn_ack_failed
=============================================================================
