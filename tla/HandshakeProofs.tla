-------------------------- MODULE HandshakeProofs --------------------------
(***************************************************************************)
(* Proofs about Handshake, for any set of clients, any initial numbers and *)
(* any number of SYNs.                                                     *)
(***************************************************************************)
EXTENDS Handshake, TLAPS

\* accept: while it is past its first wait, getSYN is set and client_port, which
\* nothing overwrites until the flag is taken back, is the port it has read.
AcceptInOrder ==
  /\ acceptPc # "listening" => getSYN
  /\ acceptPc \in {"waiting", "deciding", "failing", "resetting"} =>
       acceptKey = client_port
  /\ acceptPc = "deciding" => get3wayACK \/ syn_ack_failed
  /\ acceptPc = "failing" => syn_ack_failed
  /\ acceptPc = "resetting" => get3wayACK

\* The globals: a client is named while getSYN is set, it has not been accepted,
\* and get3wayACK says that its link is open.
FlagsInOrder ==
  /\ getSYN => client_port \in Clients /\ client_port \notin accepted
  /\ get3wayACK =>
       getSYN /\ Open(link[client_port]) /\ client_port \in key_table

ServerInv ==
  HandshakeTypeOK /\ AcceptInOrder /\ FlagsInOrder /\ OneHandshake /\ AcceptedAreOpen

\* connect makes the link first and returns the port only when it is open.
ConnectInOrder ==
  \A c \in Clients :
    /\ phase[c] = "idle" => Closed(clink[c])
    /\ phase[c] \in {"resetting", "connected"} => Open(clink[c])
    /\ phase[c] = "awake" => Open(clink[c]) \/ failed[c]

\* Numbers that a client's segment carries, or that the server has taken from
\* one, are those of the client's link as long as that is there.
NumbersOf(at, entry, sendBase, expectSeqNum) ==
  /\ at # "idle"
  /\ ~Opening(entry)
  /\ Open(entry) => sendBase = entry.expectSeqNum /\ expectSeqNum = entry.sendBase

NumbersKnown ==
  /\ \A pack \in net :
       pack.kind = "ACK" =>
         NumbersOf(phase[pack.port], clink[pack.port], pack.ack, pack.seq)
  /\ \A c \in Clients :
       Open(link[c]) =>
         NumbersOf(phase[c], clink[c], link[c].sendBase, link[c].expectSeqNum)

\* Whoever has been sent a SYN/ACK has a link, until a handshake times out.
Answered ==
  ~syn_ack_failed =>
    /\ \A pack \in net : pack.kind = "SYN/ACK" => ~Closed(link[pack.port])
    /\ \A i \in 1..Len(synAcks) : ~Closed(link[synAcks[i].port])
    /\ \A c \in Clients : Open(clink[c]) => ~Closed(link[c])
-----------------------------------------------------------------------------
(* The server.                                                             *)

\* Appending to a sequence of datagrams.
LEMMA SeqAppend ==
  ASSUME NEW S, NEW s \in Seq(S), NEW e \in S
  PROVE  Append(s, e) \in Seq(S) /\ Len(Append(s, e)) = Len(s) + 1
OBVIOUS

\* An element of a sequence is a member of what it ranges over.
LEMMA SeqElement ==
  ASSUME NEW S, NEW s \in Seq(S), NEW k \in 1..Len(s)
  PROVE  s[k] \in S
OBVIOUS

\* The number of the next SYN is in range while there is room for one.
LEMMA NextNumber ==
  ASSUME NEW n \in Nat, NEW I, I \subseteq 1..n
  PROVE  I \cup {n + 1} \subseteq 1..(n + 1)
OBVIOUS

\* The server's invariant holds initially.
LEMMA ServerInit == Init => ServerInv
<1> SUFFICES ASSUME Init PROVE ServerInv
  OBVIOUS
<1> USE HandshakeAssumption DEF Init
<1>1. ClientTypeOK
  BY DEF ClientTypeOK, Links, NoLink
<1>2. TableTypeOK
  BY DEF TableTypeOK, Links, NoLink
<1>3. TimerTypeOK
  BY DEF TimerTypeOK
<1>6. AcceptTypeOK /\ NetTypeOK
  BY DEF AcceptTypeOK, NetTypeOK
<1>4. AcceptInOrder /\ FlagsInOrder
  BY DEF AcceptInOrder, FlagsInOrder
<1>5. OneHandshake /\ AcceptedAreOpen
  BY DEF OneHandshake, AcceptedAreOpen, Opening, NoLink
<1> QED
  BY <1>1, <1>2, <1>3, <1>4, <1>5, <1>6 DEF ServerInv, HandshakeTypeOK

\* Every step keeps the types.
LEMMA TypesStep == ServerInv /\ [Next]_vars => HandshakeTypeOK'
<1>0. SUFFICES ASSUME ServerInv, [Next]_vars PROVE HandshakeTypeOK'
  OBVIOUS
<1>t. ClientTypeOK /\ TableTypeOK /\ TimerTypeOK /\ AcceptTypeOK /\ NetTypeOK
  BY <1>0 DEF ServerInv, HandshakeTypeOK
<1> USE DEF HandshakeTypeOK
<1>client. ASSUME UNCHANGED clientVars PROVE ClientTypeOK'
  BY <1>t, <1>client DEF ClientTypeOK, clientVars, connectVars
<1>table. ASSUME UNCHANGED tableVars, UNCHANGED accepted PROVE TableTypeOK'
  BY <1>t, <1>table DEF TableTypeOK, tableVars
<1>timer. ASSUME UNCHANGED timerVars PROVE TimerTypeOK'
  BY <1>t, <1>timer DEF TimerTypeOK, timerVars
<1>accept. ASSUME UNCHANGED flags, UNCHANGED syn_ack_failed,
                  UNCHANGED <<acceptPc, acceptKey, process>>
           PROVE AcceptTypeOK'
  BY <1>t, <1>accept DEF AcceptTypeOK, flags
<1>server. ASSUME UNCHANGED <<flags, timerVars, tableVars, acceptVars>>
           PROVE TableTypeOK' /\ TimerTypeOK' /\ AcceptTypeOK'
  BY <1>server, <1>table, <1>timer, <1>accept DEF acceptVars, timerVars
<1>same. ASSUME UNCHANGED net PROVE NetTypeOK'
  BY <1>t, <1>same DEF NetTypeOK
<1>send. ASSUME NEW kind \in {"SYN", "SYN/ACK", "ACK"}, NEW c \in Clients,
                NEW seq \in Nat, NEW ack \in Nat, Send(Pack(kind, c, seq, ack))
         PROVE NetTypeOK'
  BY <1>t, <1>send DEF NetTypeOK, Send, Pack
<1>net. ASSUME NEW pack \in net
        PROVE pack.port \in Clients /\ pack.seq \in Nat /\ pack.ack \in Nat
  BY <1>t DEF NetTypeOK
<1>1. ASSUME NEW c \in Clients, Connect(c) PROVE HandshakeTypeOK'
  <2>1. ClientTypeOK'
    BY <1>t, <1>1 DEF Connect, ClientTypeOK, Links, HalfOpen
  <2>2. iss[c] \in Nat
    BY <1>t, HandshakeAssumption DEF ClientTypeOK
  <2>3. NetTypeOK'
    BY <1>1, <1>send, <2>2 DEF Connect, Syn
  <2> QED
    BY <1>1, <1>server, <2>1, <2>3 DEF Connect
<1>2. ASSUME NEW c \in Clients, ResendSyn(c) PROVE HandshakeTypeOK'
  <2>1. iss[c] \in Nat
    BY <1>t, HandshakeAssumption DEF ClientTypeOK
  <2>2. NetTypeOK'
    BY <1>2, <1>send, <2>1 DEF ResendSyn, Syn
  <2> QED
    BY <1>2, <1>client, <1>server, <2>2 DEF ResendSyn
<1>3. ASSUME NEW c \in Clients, ConnectDeadline(c) PROVE HandshakeTypeOK'
  <2>1. ClientTypeOK'
    BY <1>t, <1>3 DEF ConnectDeadline, ClientTypeOK
  <2> QED
    BY <1>3, <1>server, <1>same, <2>1 DEF ConnectDeadline
<1>4. ASSUME NEW c \in Clients, ConnectCall(c) PROVE HandshakeTypeOK'
  <2>1. ClientTypeOK'
    <3>1. CASE ConnectWakes(c)
      BY <1>t, <3>1 DEF ConnectWakes, ClientTypeOK
    <3>2. CASE ConnectTestsFailed(c)
      BY <1>t, <3>2 DEF ConnectTestsFailed, ClientTypeOK
    <3>3. CASE ConnectFails(c)
      BY <1>t, <3>3 DEF ConnectFails, ClientTypeOK, Links, NoLink
    <3>4. CASE ConnectReturns(c)
      BY <1>t, <3>4 DEF ConnectReturns, ClientTypeOK
    <3> QED
      BY <1>4, <3>1, <3>2, <3>3, <3>4 DEF ConnectCall
  <2> QED
    BY <1>4, <1>server, <1>same, <2>1
    DEF ConnectCall, ConnectWakes, ConnectTestsFailed, ConnectFails, ConnectReturns
<1>5. ASSUME NEW c \in Clients, NEW offset \in DataOffsets, SendData(c, offset)
      PROVE HandshakeTypeOK'
  <2>1. clink[c].sendBase + offset \in Nat /\ clink[c].expectSeqNum \in Nat
    BY <1>t, HandshakeAssumption DEF ClientTypeOK, Links
  <2>2. NetTypeOK'
    BY <1>5, <1>send, <2>1 DEF SendData, ClientSegment
  <2> QED
    BY <1>5, <1>client, <1>server, <2>2 DEF SendData
<1>6. ASSUME NEW pack \in net, SynArrives(pack) PROVE HandshakeTypeOK'
  <2>1. PICK initSeqNum \in InitialNumbers :
          /\ synAcks' = Append(synAcks, Pack("SYN/ACK", pack.port, initSeqNum,
                                             pack.seq + 1))
          /\ Send(Pack("SYN/ACK", pack.port, initSeqNum, pack.seq + 1))
    BY <1>6 DEF SynArrives
  <2>2. initSeqNum \in Nat /\ pack.seq + 1 \in Nat /\ pack.port \in Clients
    BY <1>net, HandshakeAssumption
  <2>3. NetTypeOK'
    BY <1>send, <2>1, <2>2
  <2>4. TimerTypeOK'
    <3> DEFINE synAck == Pack("SYN/ACK", pack.port, initSeqNum, pack.seq + 1)
    <3>1. synAck \in SynAckPacks
      BY <2>2 DEF Pack, SynAckPacks
    <3>2. synAcks \in Seq(SynAckPacks)
      BY <1>t DEF TimerTypeOK
    <3> HIDE DEF synAck
    <3>3. synAcks' \in Seq(SynAckPacks) /\ Len(synAcks') = Len(synAcks) + 1
      BY <2>1, <3>1, <3>2, SeqAppend DEF synAck
    <3>4. Len(synAcks) \in Nat
      BY <3>2
    <3>5. /\ Len(synAcks) < MaxSyns
          /\ intervals' = intervals \cup {Len(synAcks')}
          /\ deadlines' = deadlines \cup {Len(synAcks')}
      BY <1>6 DEF SynArrives, timer
    <3>6. intervals \subseteq 1..Len(synAcks) /\ deadlines \subseteq 1..Len(synAcks)
      BY <1>t DEF TimerTypeOK
    <3>7. Len(synAcks') <= MaxSyns
      BY <3>3, <3>4, <3>5, HandshakeAssumption
    <3>8. intervals' \subseteq 1..Len(synAcks') /\ deadlines' \subseteq 1..Len(synAcks')
      BY <3>3, <3>4, <3>5, <3>6, NextNumber
    <3> QED
      BY <3>3, <3>7, <3>8 DEF TimerTypeOK
  <2>5. TableTypeOK'
    BY <1>6, <1>t, <2>2 DEF SynArrives, TableTypeOK, Links, HalfOpen, acceptVars
  <2>6. AcceptTypeOK'
    BY <1>6, <1>t, <2>2 DEF SynArrives, AcceptTypeOK, acceptVars
  <2> QED
    BY <1>6, <1>client, <2>3, <2>4, <2>5, <2>6 DEF SynArrives
<1>7. ASSUME NEW pack \in net, SynAckArrives(pack) PROVE HandshakeTypeOK'
  <2>1. clink' = [clink EXCEPT ![pack.port] = SynAckNumbers(pack)]
    BY <1>7 DEF SynAckArrives
  <2>2. SynAckNumbers(pack) \in Links
    BY <1>net DEF SynAckNumbers, Established, Links
  <2>3. ClientTypeOK'
    BY <1>7, <1>t, <2>1, <2>2 DEF SynAckArrives, ClientTypeOK, connectVars
  <2>4. clink'[pack.port].sendBase \in Nat /\ clink'[pack.port].expectSeqNum \in Nat
    BY <1>net, <2>3 DEF ClientTypeOK, Links
  <2>5. NetTypeOK'
    BY <1>7, <1>net, <1>send, <2>4 DEF SynAckArrives
  <2> QED
    BY <1>7, <1>server, <2>3, <2>5 DEF SynAckArrives
<1>8. ASSUME NEW pack \in net, AckArrives(pack) PROVE HandshakeTypeOK'
  <2>1. TableTypeOK'
    BY <1>8, <1>t, <1>net
    DEF AckArrives, TableTypeOK, Links, AckNumbers, Established, acceptVars
  <2>2. TimerTypeOK'
    BY <1>8, <1>t DEF AckArrives, TimerTypeOK, StoppedTimers
  <2>3. AcceptTypeOK'
    BY <1>8, <1>t DEF AckArrives, AcceptTypeOK, acceptVars
  <2> QED
    BY <1>8, <1>client, <1>same, <2>1, <2>2, <2>3 DEF AckArrives
<1>9. ASSUME NEW n \in 1..MaxSyns, ResendSynAck(n) PROVE HandshakeTypeOK'
  <2>1. PICK k \in n..Len(synAcks) : Send(synAcks[k])
    BY <1>9 DEF ResendSynAck
  <2>2. synAcks[k] \in SynAckPacks
    BY <1>t, SeqElement, HandshakeAssumption DEF TimerTypeOK
  <2>3. NetTypeOK'
    BY <1>t, <2>1, <2>2 DEF NetTypeOK, Send, SynAckPacks
  <2> QED
    BY <1>9, <1>client, <1>server, <2>3 DEF ResendSynAck
<1>10. ASSUME NEW n \in 1..MaxSyns, SynAckDeadline(n) PROVE HandshakeTypeOK'
  <2>1. TimerTypeOK'
    BY <1>10, <1>t DEF SynAckDeadline, TimerTypeOK
  <2>2. AcceptTypeOK'
    BY <1>10, <1>t DEF SynAckDeadline, AcceptTypeOK, flags, acceptVars
  <2> QED
    BY <1>10, <1>client, <1>table, <1>same, <2>1, <2>2 DEF SynAckDeadline, acceptVars
<1>11. CASE AcceptCall
  <2>1. TableTypeOK'
    BY <1>0, <1>11, <1>t
    DEF AcceptCall, AcceptSeesSyn, AcceptReadsPort, AcceptWakes, AcceptTestsFailed,
        AcceptFails, AcceptReturns, TableTypeOK, Links, NoLink, tableVars,
        ServerInv, AcceptInOrder, FlagsInOrder
  <2>2. AcceptTypeOK'
    BY <1>11, <1>t
    DEF AcceptCall, AcceptSeesSyn, AcceptReadsPort, AcceptWakes, AcceptTestsFailed,
        AcceptFails, AcceptReturns, AcceptTypeOK, flags, timerVars, PortRead, Outcome,
        AckFlagTakenBack
  <2> QED
    BY <1>11, <1>client, <1>timer, <1>same, <2>1, <2>2
    DEF AcceptCall, AcceptSeesSyn, AcceptReadsPort, AcceptWakes, AcceptTestsFailed,
        AcceptFails, AcceptReturns
<1>12. CASE ServerDies
  <2>1. AcceptTypeOK'
    BY <1>12, <1>t DEF ServerDies, AcceptTypeOK, flags, timerVars
  <2> QED
    BY <1>12, <1>client, <1>table, <1>timer, <1>same, <2>1 DEF ServerDies
<1>13. CASE UNCHANGED vars
  BY <1>13, <1>client, <1>server, <1>same DEF vars
<1> QED
  BY <1>0, <1>1, <1>2, <1>3, <1>4, <1>5, <1>6, <1>7, <1>8, <1>9, <1>10, <1>11, <1>12,
     <1>13 DEF Next

\* What the actions of clients and the interval of the server leave alone.
ServerUnchanged ==
  UNCHANGED <<flags, syn_ack_failed, tableVars, acceptPc, acceptKey, accepted>>

\* Every step keeps the server's invariant.
LEMMA ServerStep == ServerInv /\ [Next]_vars => ServerInv'
<1> SUFFICES ASSUME ServerInv, [Next]_vars
    PROVE AcceptInOrder' /\ FlagsInOrder' /\ OneHandshake' /\ AcceptedAreOpen'
  BY TypesStep DEF ServerInv
<1> DEFINE Goal == AcceptInOrder' /\ FlagsInOrder' /\ OneHandshake' /\ AcceptedAreOpen'
<1> USE DEF ServerInv, AcceptInOrder, FlagsInOrder, OneHandshake, AcceptedAreOpen
<1>1. ASSUME ServerUnchanged PROVE Goal
  BY <1>1 DEF ServerUnchanged, flags, tableVars
<1>2. ASSUME NEW pack \in net, SynArrives(pack) PROVE Goal
  BY <1>2 DEF SynArrives, NewClient, HandshakeTypeOK, TableTypeOK, NetTypeOK, Links,
              Opening, Closed, Open, HalfOpen, acceptVars
<1>3. ASSUME NEW pack \in net, AckArrives(pack) PROVE Goal
  BY <1>3 DEF AckArrives, HandshakeTypeOK, TableTypeOK, NetTypeOK, Links, Opening,
              Open, AckNumbers, Established, acceptVars
<1>4. ASSUME NEW n \in 1..MaxSyns, SynAckDeadline(n) PROVE Goal
  BY <1>4 DEF SynAckDeadline, flags, tableVars, acceptVars
<1>5. ASSUME AcceptSeesSyn PROVE Goal
  BY <1>5 DEF AcceptSeesSyn, flags, timerVars, tableVars
<1>6. ASSUME AcceptReadsPort PROVE Goal
  BY <1>6 DEF AcceptReadsPort, PortRead, flags, timerVars, tableVars
<1>7. ASSUME AcceptWakes PROVE Goal
  BY <1>7 DEF AcceptWakes, flags, timerVars, tableVars
<1>8. ASSUME AcceptTestsFailed PROVE Goal
  BY <1>8 DEF AcceptTestsFailed, Outcome, flags, timerVars, tableVars
<1>9. ASSUME AcceptFails PROVE Goal
  BY <1>9 DEF AcceptFails, HandshakeTypeOK, TableTypeOK, Links, NoLink, Opening, Open,
              timerVars
<1>10. ASSUME AcceptReturns PROVE Goal
  BY <1>10 DEF AcceptReturns, AckFlagTakenBack, HandshakeTypeOK, TableTypeOK, Opening, Open,
               timerVars, tableVars
<1>11. ASSUME NEW c \in Clients,
              \/ Connect(c) \/ ResendSyn(c) \/ ConnectDeadline(c) \/ ConnectCall(c)
              \/ \E offset \in DataOffsets : SendData(c, offset)
       PROVE ServerUnchanged
  BY <1>11 DEF Connect, ResendSyn, ConnectDeadline, ConnectCall, ConnectWakes,
     ConnectTestsFailed, ConnectFails, ConnectReturns, SendData, ServerUnchanged,
     timerVars, acceptVars
<1>12. ASSUME NEW pack \in net, SynAckArrives(pack) PROVE ServerUnchanged
  BY <1>12 DEF SynAckArrives, ServerUnchanged, timerVars, acceptVars
<1>13. ASSUME NEW n \in 1..MaxSyns, ResendSynAck(n) PROVE ServerUnchanged
  BY <1>13 DEF ResendSynAck, ServerUnchanged, timerVars, acceptVars
<1>14. ASSUME ServerDies \/ UNCHANGED vars PROVE Goal
  <2>1. ServerUnchanged
    BY <1>14 DEF ServerDies, vars, ServerUnchanged, timerVars, acceptVars
  <2> QED
    BY <1>1, <2>1
<1> HIDE DEF Goal, ServerInv, AcceptInOrder, FlagsInOrder, OneHandshake, AcceptedAreOpen
<1>15. ASSUME AcceptCall PROVE Goal
  BY <1>5, <1>6, <1>7, <1>8, <1>9, <1>10, <1>15 DEF AcceptCall
<1>16. Goal
  BY <1>1, <1>2, <1>3, <1>4, <1>11, <1>12, <1>13, <1>14, <1>15 DEF Next
<1> QED
  BY <1>16 DEF Goal

\* Type correctness.
THEOREM HandshakeTypes == Spec => []HandshakeTypeOK
BY ServerInit, ServerStep, PTL DEF Spec, ServerInv

\* At most one link is half open, the one of client_port, and getSYN is set.
THEOREM OneAtATime == Spec => []OneHandshake
BY ServerInit, ServerStep, PTL DEF Spec, ServerInv

\* What accept returns is an open link that send() and recv() find.
THEOREM AcceptedLinksAreOpen == Spec => []AcceptedAreOpen
BY ServerInit, ServerStep, PTL DEF Spec, ServerInv

\* No step touches an accepted connection.
LEMMA AcceptedStep ==
  ServerInv /\ [Next]_vars => \A c \in accepted : c \in accepted' /\ link'[c] = link[c]
<1>0. SUFFICES ASSUME ServerInv, [Next]_vars, NEW p \in accepted
      PROVE p \in accepted' /\ link'[p] = link[p]
  OBVIOUS
<1>t. /\ link \in [Clients -> Links]
      /\ accepted \subseteq Clients
      /\ \A pack \in net : pack.port \in Clients
  BY <1>0 DEF ServerInv, HandshakeTypeOK, TableTypeOK, NetTypeOK
<1>open. Open(link[p])
  BY <1>0 DEF ServerInv, AcceptedAreOpen
<1>1. ASSUME UNCHANGED link, accepted \subseteq accepted'
      PROVE p \in accepted' /\ link'[p] = link[p]
  BY <1>1
<1>2. ASSUME NEW pack \in net, SynArrives(pack)
      PROVE p \in accepted' /\ link'[p] = link[p]
  BY <1>2, <1>t, <1>open DEF SynArrives, NewClient, Open, Closed, acceptVars
<1>3. ASSUME NEW pack \in net, AckArrives(pack)
      PROVE p \in accepted' /\ link'[p] = link[p]
  BY <1>3, <1>t, <1>open DEF AckArrives, Open, Opening, acceptVars
<1>4. ASSUME AcceptFails PROVE p \in accepted' /\ link'[p] = link[p]
  <2>1. acceptKey # p
    BY <1>0, <1>4 DEF AcceptFails, ServerInv, AcceptInOrder, FlagsInOrder
  <2> QED
    BY <1>4, <1>t, <2>1 DEF AcceptFails
<1>5. ASSUME NEW c \in Clients,
             \/ Connect(c) \/ ResendSyn(c) \/ ConnectDeadline(c) \/ ConnectCall(c)
             \/ \E offset \in DataOffsets : SendData(c, offset)
      PROVE UNCHANGED link /\ accepted \subseteq accepted'
  BY <1>5 DEF Connect, ResendSyn, ConnectDeadline, ConnectCall, ConnectWakes,
     ConnectTestsFailed, ConnectFails, ConnectReturns, SendData, tableVars, acceptVars
<1>6. ASSUME NEW pack \in net, SynAckArrives(pack)
      PROVE UNCHANGED link /\ accepted \subseteq accepted'
  BY <1>6 DEF SynAckArrives, tableVars, acceptVars
<1>7. ASSUME NEW n \in 1..MaxSyns, ResendSynAck(n) \/ SynAckDeadline(n)
      PROVE UNCHANGED link /\ accepted \subseteq accepted'
  BY <1>7 DEF ResendSynAck, SynAckDeadline, tableVars, acceptVars
<1>8. ASSUME \/ AcceptSeesSyn \/ AcceptReadsPort \/ AcceptWakes
             \/ AcceptTestsFailed \/ AcceptReturns
      PROVE UNCHANGED link /\ accepted \subseteq accepted'
  BY <1>8 DEF AcceptSeesSyn, AcceptReadsPort, AcceptWakes, AcceptTestsFailed,
     AcceptReturns, tableVars
<1>9. ASSUME ServerDies \/ UNCHANGED vars PROVE UNCHANGED link /\ accepted \subseteq accepted'
  BY <1>9 DEF ServerDies, vars, tableVars, acceptVars
<1> QED
  BY <1>0, <1>1, <1>2, <1>3, <1>4, <1>5, <1>6, <1>7, <1>8, <1>9 DEF Next, AcceptCall

\* No later handshake, late SYN or old timer touches an accepted connection.
THEOREM AcceptedIsLeftAlone == Spec => AcceptedSurvive
BY ServerInit, ServerStep, AcceptedStep, PTL DEF Spec, AcceptedSurvive
-----------------------------------------------------------------------------
(* The timers.                                                             *)

\* A half-open link exists.
Pending == \E c \in Clients : Opening(link[c])

\* Every step keeps the timers those of the handshake that is pending.
LEMMA TimersStep ==
  ServerInv /\ TimersOfHandshake /\ [Next]_vars => TimersOfHandshake'
<1>0. SUFFICES ASSUME ServerInv, TimersOfHandshake, [Next]_vars, ~syn_ack_failed'
      PROVE /\ intervals' = deadlines'
            /\ deadlines' = IF Pending' THEN {timer'} ELSE {}
  BY DEF TimersOfHandshake, Pending
<1> DEFINE Goal == /\ intervals' = deadlines'
                   /\ deadlines' = IF Pending' THEN {timer'} ELSE {}
<1>t. /\ link \in [Clients -> Links]
      /\ \A pack \in net : pack.port \in Clients
  BY <1>0 DEF ServerInv, HandshakeTypeOK, TableTypeOK, NetTypeOK
<1>one. \A c \in Clients : Opening(link[c]) => getSYN /\ client_port = c
  BY <1>0 DEF ServerInv, OneHandshake
<1>now. ASSUME ~syn_ack_failed
        PROVE intervals = deadlines /\ deadlines = IF Pending THEN {timer} ELSE {}
  BY <1>0, <1>now DEF TimersOfHandshake, Pending
<1>1. ASSUME UNCHANGED <<timerVars, link>> PROVE Goal
  BY <1>0, <1>1, <1>now DEF timerVars, timer, Pending
<1>2. ASSUME NEW pack \in net, SynArrives(pack) PROVE Goal
  <2>1. ~Pending
    BY <1>2, <1>one DEF SynArrives, NewClient, Pending
  <2>2. ~syn_ack_failed
    BY <1>0, <1>2 DEF SynArrives
  <2>3. Pending'
    BY <1>2, <1>t DEF SynArrives, Pending, Opening, HalfOpen
  <2>4. intervals = {} /\ deadlines = {}
    BY <1>now, <2>1, <2>2
  <2> QED
    BY <1>2, <2>3, <2>4 DEF SynArrives
<1>3. ASSUME NEW pack \in net, AckArrives(pack) PROVE Goal
  <2>1. ~syn_ack_failed /\ Pending
    BY <1>0, <1>3, <1>t DEF AckArrives, Pending
  <2>2. intervals' = {} /\ deadlines' = {}
    BY <1>3, <1>now, <2>1 DEF AckArrives, StoppedTimers
  <2>3. \A c \in Clients : Opening(link[c]) => c = pack.port
    BY <1>3, <1>t, <1>one DEF AckArrives
  <2>4. ~Pending'
    BY <1>3, <1>t, <2>3 DEF AckArrives, Pending, Opening, AckNumbers, Established
  <2> QED
    BY <2>2, <2>4
<1>4. ASSUME NEW n \in 1..MaxSyns, SynAckDeadline(n) PROVE FALSE
  BY <1>0, <1>4 DEF SynAckDeadline
<1>5. ASSUME AcceptFails PROVE FALSE
  BY <1>0, <1>5 DEF AcceptFails, timerVars, ServerInv, AcceptInOrder
<1>6. ASSUME NEW c \in Clients,
             \/ Connect(c) \/ ResendSyn(c) \/ ConnectDeadline(c) \/ ConnectCall(c)
             \/ \E offset \in DataOffsets : SendData(c, offset)
      PROVE UNCHANGED <<timerVars, link>>
  BY <1>6 DEF Connect, ResendSyn, ConnectDeadline, ConnectCall, ConnectWakes,
     ConnectTestsFailed, ConnectFails, ConnectReturns, SendData, tableVars
<1>7. ASSUME NEW pack \in net, SynAckArrives(pack) PROVE UNCHANGED <<timerVars, link>>
  BY <1>7 DEF SynAckArrives, tableVars
<1>8. ASSUME NEW n \in 1..MaxSyns, ResendSynAck(n) PROVE UNCHANGED <<timerVars, link>>
  BY <1>8 DEF ResendSynAck, tableVars
<1>9. ASSUME \/ AcceptSeesSyn \/ AcceptReadsPort \/ AcceptWakes
             \/ AcceptTestsFailed \/ AcceptReturns
      PROVE UNCHANGED <<timerVars, link>>
  BY <1>9 DEF AcceptSeesSyn, AcceptReadsPort, AcceptWakes, AcceptTestsFailed,
     AcceptReturns, tableVars
<1>10. ASSUME ServerDies \/ UNCHANGED vars PROVE UNCHANGED <<timerVars, link>>
  BY <1>10 DEF ServerDies, vars, tableVars
<1> HIDE DEF Goal
<1>11. Goal
  BY <1>0, <1>1, <1>2, <1>3, <1>4, <1>5, <1>6, <1>7, <1>8, <1>9, <1>10
  DEF Next, AcceptCall
<1> QED
  BY <1>11 DEF Goal

\* Until a handshake has timed out, the two globals name the only timers there
\* are, and these run exactly while a link is half open.
THEOREM TimersAreOfHandshake == Spec => []TimersOfHandshake
<1>1. Init => TimersOfHandshake
  BY DEF Init, TimersOfHandshake, Opening, NoLink
<1> QED
  BY <1>1, ServerInit, ServerStep, TimersStep, PTL DEF Spec
-----------------------------------------------------------------------------
(* Both ends.                                                              *)

\* No client has called connect yet.
LEMMA ConnectInit == Init => ConnectInOrder
<1> SUFFICES ASSUME Init, NEW c \in Clients
             PROVE  phase[c] = "idle" /\ Closed(clink[c])
  BY DEF ConnectInOrder
<1>1. phase[c] = "idle" /\ clink[c] = NoLink
  BY DEF Init
<1>2. Closed(NoLink)
  BY DEF Closed, NoLink
<1> QED
  BY <1>1, <1>2

\* connect keeps the order of its steps.
LEMMA ConnectStep ==
  ServerInv /\ ConnectInOrder /\ [Next]_vars => ConnectInOrder'
<1>0. SUFFICES ASSUME ServerInv, ConnectInOrder, [Next]_vars PROVE ConnectInOrder'
  OBVIOUS
<1>t. ClientTypeOK /\ \A pack \in net : pack.port \in Clients
  BY <1>0 DEF ServerInv, HandshakeTypeOK, NetTypeOK
<1>1. ASSUME NEW c \in Clients, Connect(c) PROVE ConnectInOrder'
  BY <1>0, <1>1, <1>t DEF Connect, ConnectInOrder, ClientTypeOK
<1>2. ASSUME NEW c \in Clients, ConnectDeadline(c) PROVE ConnectInOrder'
  BY <1>0, <1>2, <1>t DEF ConnectDeadline, ConnectInOrder, ClientTypeOK
<1>3. ASSUME NEW c \in Clients, ConnectWakes(c) PROVE ConnectInOrder'
  BY <1>0, <1>3, <1>t DEF ConnectWakes, ConnectInOrder, ClientTypeOK
<1>4. ASSUME NEW c \in Clients, ConnectTestsFailed(c) PROVE ConnectInOrder'
  BY <1>0, <1>4, <1>t DEF ConnectTestsFailed, ConnectInOrder, ClientTypeOK
<1>5. ASSUME NEW c \in Clients, ConnectFails(c) PROVE ConnectInOrder'
  BY <1>0, <1>5, <1>t DEF ConnectFails, ConnectInOrder, ClientTypeOK
<1>6. ASSUME NEW c \in Clients, ConnectReturns(c) PROVE ConnectInOrder'
  BY <1>0, <1>6, <1>t DEF ConnectReturns, ConnectInOrder, ClientTypeOK
<1>7. ASSUME NEW pack \in net, SynAckArrives(pack) PROVE ConnectInOrder'
  BY <1>0, <1>7, <1>t DEF SynAckArrives, ConnectInOrder, ClientTypeOK, connectVars,
     Open, Opening, Closed, SynAckNumbers, Established
<1>8. ASSUME UNCHANGED clientVars PROVE ConnectInOrder'
  BY <1>0, <1>8 DEF ConnectInOrder, clientVars, connectVars
<1>9. ASSUME NEW c \in Clients,
             ResendSyn(c) \/ \E offset \in DataOffsets : SendData(c, offset)
      PROVE UNCHANGED clientVars
  BY <1>9 DEF ResendSyn, SendData
<1>10. ASSUME NEW pack \in net, SynArrives(pack) \/ AckArrives(pack)
       PROVE UNCHANGED clientVars
  BY <1>10 DEF SynArrives, AckArrives
<1>11. ASSUME NEW n \in 1..MaxSyns, ResendSynAck(n) \/ SynAckDeadline(n)
       PROVE UNCHANGED clientVars
  BY <1>11 DEF ResendSynAck, SynAckDeadline
<1>12. ASSUME AcceptCall PROVE UNCHANGED clientVars
  BY <1>12 DEF AcceptCall, AcceptSeesSyn, AcceptReadsPort, AcceptWakes,
     AcceptTestsFailed, AcceptFails, AcceptReturns
<1>13. ASSUME ServerDies \/ UNCHANGED vars PROVE UNCHANGED clientVars
  BY <1>13 DEF ServerDies, vars
<1> QED
  BY <1>0, <1>1, <1>2, <1>3, <1>4, <1>5, <1>6, <1>7, <1>8, <1>9, <1>10, <1>11,
     <1>12, <1>13 DEF Next, ConnectCall

\* No step closes a link while no handshake has timed out.
LEMMA LinksStay ==
  ASSUME ServerInv, [Next]_vars, ~syn_ack_failed'
  PROVE  ~syn_ack_failed /\ \A c \in Clients : ~Closed(link[c]) => ~Closed(link'[c])
<1>t. /\ link \in [Clients -> Links]
      /\ \A pack \in net : pack.port \in Clients
  BY DEF ServerInv, HandshakeTypeOK, TableTypeOK, NetTypeOK
<1> DEFINE Goal == /\ ~syn_ack_failed
                   /\ \A c \in Clients : ~Closed(link[c]) => ~Closed(link'[c])
<1>1. ASSUME NEW pack \in net, SynArrives(pack) PROVE Goal
  BY <1>1, <1>t DEF SynArrives, Closed, HalfOpen
<1>2. ASSUME NEW pack \in net, AckArrives(pack) PROVE Goal
  BY <1>2, <1>t DEF AckArrives, Closed, AckNumbers, Established
<1>3. ASSUME NEW n \in 1..MaxSyns, SynAckDeadline(n) PROVE FALSE
  BY <1>3 DEF SynAckDeadline
<1>4. ASSUME AcceptFails PROVE FALSE
  BY <1>4 DEF AcceptFails, timerVars, ServerInv, AcceptInOrder
<1>5. ASSUME UNCHANGED <<timerVars, link>> PROVE Goal
  BY <1>5 DEF timerVars
<1>6. ASSUME NEW c \in Clients,
             \/ Connect(c) \/ ResendSyn(c) \/ ConnectDeadline(c) \/ ConnectCall(c)
             \/ \E offset \in DataOffsets : SendData(c, offset)
      PROVE UNCHANGED <<timerVars, link>>
  BY <1>6 DEF Connect, ResendSyn, ConnectDeadline, ConnectCall, ConnectWakes,
     ConnectTestsFailed, ConnectFails, ConnectReturns, SendData, tableVars
<1>7. ASSUME NEW pack \in net, SynAckArrives(pack) PROVE UNCHANGED <<timerVars, link>>
  BY <1>7 DEF SynAckArrives, tableVars
<1>8. ASSUME NEW n \in 1..MaxSyns, ResendSynAck(n) PROVE UNCHANGED <<timerVars, link>>
  BY <1>8 DEF ResendSynAck, tableVars
<1>9. ASSUME \/ AcceptSeesSyn \/ AcceptReadsPort \/ AcceptWakes
             \/ AcceptTestsFailed \/ AcceptReturns
      PROVE UNCHANGED <<timerVars, link>>
  BY <1>9 DEF AcceptSeesSyn, AcceptReadsPort, AcceptWakes, AcceptTestsFailed,
     AcceptReturns, tableVars
<1>10. ASSUME ServerDies \/ UNCHANGED vars PROVE UNCHANGED <<timerVars, link>>
  BY <1>10 DEF ServerDies, vars, tableVars
<1> HIDE DEF Goal
<1>11. Goal
  BY <1>1, <1>2, <1>3, <1>4, <1>5, <1>6, <1>7, <1>8, <1>9, <1>10
  DEF Next, AcceptCall
<1> QED
  BY <1>11 DEF Goal

\* Every step keeps Answered: a link that is open has been answered for.
LEMMA AnsweredStep ==
  ServerInv /\ ConnectInOrder /\ Answered /\ [Next]_vars => Answered'
<1>0. SUFFICES ASSUME ServerInv, Answered, [Next]_vars, ~syn_ack_failed'
      PROVE /\ \A pack \in net' : pack.kind = "SYN/ACK" => ~Closed(link'[pack.port])
            /\ \A i \in 1..Len(synAcks') : ~Closed(link'[synAcks'[i].port])
            /\ \A c \in Clients : Open(clink'[c]) => ~Closed(link'[c])
  BY DEF Answered
<1>t. /\ link \in [Clients -> Links]
      /\ clink \in [Clients -> Links]
      /\ synAcks \in Seq(SynAckPacks)
      /\ \A pack \in net : pack.port \in Clients
  BY <1>0 DEF ServerInv, HandshakeTypeOK, ClientTypeOK, TableTypeOK, TimerTypeOK,
     NetTypeOK
<1>now. /\ \A pack \in net : pack.kind = "SYN/ACK" => ~Closed(link[pack.port])
        /\ \A i \in 1..Len(synAcks) : ~Closed(link[synAcks[i].port])
        /\ \A c \in Clients : Open(clink[c]) => ~Closed(link[c])
  BY <1>0, LinksStay DEF Answered
<1>stay. \A c \in Clients : ~Closed(link[c]) => ~Closed(link'[c])
  BY <1>0, LinksStay
<1>ports. \A i \in 1..Len(synAcks) : synAcks[i].port \in Clients
  <2>1. \A i \in 1..Len(synAcks) : synAcks[i] \in SynAckPacks
    BY <1>t, SeqElement
  <2> QED
    BY <2>1 DEF SynAckPacks
<1> DEFINE Packs == \A pack \in net' : pack.kind = "SYN/ACK" => ~Closed(link'[pack.port])
           Acks == \A i \in 1..Len(synAcks') : ~Closed(link'[synAcks'[i].port])
           Ends == \A c \in Clients : Open(clink'[c]) => ~Closed(link'[c])
<1>packs. ASSUME UNCHANGED net PROVE Packs
  BY <1>t, <1>now, <1>stay, <1>packs
<1>send. ASSUME NEW kind, kind # "SYN/ACK", NEW c, NEW seq, NEW ack,
                Send(Pack(kind, c, seq, ack))
         PROVE Packs
  BY <1>t, <1>now, <1>stay, <1>send DEF Send, Pack
<1>acks. ASSUME UNCHANGED synAcks PROVE Acks
  BY <1>ports, <1>now, <1>stay, <1>acks
<1>ends. ASSUME \A c \in Clients : Open(clink'[c]) => Open(clink[c]) PROVE Ends
  BY <1>now, <1>stay, <1>ends
<1>same. ASSUME UNCHANGED clink PROVE Ends
  BY <1>ends, <1>same
<1> HIDE DEF Packs, Acks, Ends
<1>1. ASSUME NEW c \in Clients, Connect(c) PROVE Packs /\ Acks /\ Ends
  <2>1. \A d \in Clients : Open(clink'[d]) => Open(clink[d])
    BY <1>1, <1>t DEF Connect, Open, HalfOpen
  <2> QED
    BY <1>1, <2>1, <1>send, <1>acks, <1>ends DEF Connect, Syn, timerVars
<1>2. ASSUME NEW c \in Clients, ResendSyn(c) PROVE Packs /\ Acks /\ Ends
  BY <1>2, <1>send, <1>acks, <1>same DEF ResendSyn, Syn, timerVars, clientVars
<1>3. ASSUME NEW c \in Clients, ConnectDeadline(c) PROVE Packs /\ Acks /\ Ends
  BY <1>3, <1>packs, <1>acks, <1>same DEF ConnectDeadline, timerVars
<1>4. ASSUME NEW c \in Clients, ConnectCall(c) PROVE Packs /\ Acks /\ Ends
  <2>1. \A d \in Clients : Open(clink'[d]) => Open(clink[d])
    BY <1>4, <1>t DEF ConnectCall, ConnectWakes, ConnectTestsFailed, ConnectFails,
       ConnectReturns, Open, NoLink
  <2> QED
    BY <1>4, <2>1, <1>packs, <1>acks, <1>ends
    DEF ConnectCall, ConnectWakes, ConnectTestsFailed, ConnectFails, ConnectReturns,
        timerVars
<1>5. ASSUME NEW c \in Clients, NEW offset \in DataOffsets, SendData(c, offset)
      PROVE Packs /\ Acks /\ Ends
  BY <1>5, <1>send, <1>acks, <1>same DEF SendData, ClientSegment, timerVars, clientVars
<1>6. ASSUME NEW pack \in net, SynArrives(pack) PROVE Packs /\ Acks /\ Ends
  <2>1. PICK initSeqNum \in InitialNumbers :
          /\ synAcks' = Append(synAcks, Pack("SYN/ACK", pack.port, initSeqNum,
                                             pack.seq + 1))
          /\ Send(Pack("SYN/ACK", pack.port, initSeqNum, pack.seq + 1))
    BY <1>6 DEF SynArrives
  <2>2. ~Closed(link'[pack.port])
    BY <1>6, <1>t DEF SynArrives, Closed, HalfOpen
  <2>3. Packs
    BY <1>t, <1>now, <1>stay, <2>1, <2>2 DEF Packs, Send, Pack
  <2>4. Acks
    <3>1. ASSUME NEW i \in 1..Len(synAcks')
          PROVE \/ i \in 1..Len(synAcks) /\ synAcks'[i] = synAcks[i]
                \/ synAcks'[i].port = pack.port
      BY <1>t, <2>1 DEF Pack
    <3> QED
      BY <3>1, <1>ports, <1>now, <1>stay, <2>2 DEF Acks
  <2> QED
    BY <1>6, <1>same, <2>3, <2>4 DEF SynArrives, clientVars
<1>7. ASSUME NEW pack \in net, SynAckArrives(pack) PROVE Packs /\ Acks /\ Ends
  <2>1. Packs
    BY <1>7, <1>send DEF SynAckArrives
  <2>2. Ends
    BY <1>7, <1>t, <1>now, <1>stay DEF SynAckArrives, Ends
  <2> QED
    BY <1>7, <1>acks, <2>1, <2>2 DEF SynAckArrives, timerVars
<1>8. ASSUME NEW pack \in net, AckArrives(pack) PROVE Packs /\ Acks /\ Ends
  BY <1>8, <1>packs, <1>acks, <1>same DEF AckArrives, clientVars
<1>9. ASSUME NEW n \in 1..MaxSyns, ResendSynAck(n) PROVE Packs /\ Acks /\ Ends
  <2>1. PICK k \in n..Len(synAcks) : Send(synAcks[k])
    BY <1>9 DEF ResendSynAck
  <2>2. k \in 1..Len(synAcks)
    BY <1>t, HandshakeAssumption
  <2>3. Packs
    BY <1>t, <1>ports, <1>now, <1>stay, <2>1, <2>2 DEF Packs, Send
  <2> QED
    BY <1>9, <1>acks, <1>same, <2>3 DEF ResendSynAck, timerVars, clientVars
<1>10. ASSUME NEW n \in 1..MaxSyns, SynAckDeadline(n) PROVE Packs /\ Acks /\ Ends
  BY <1>10, <1>packs, <1>acks, <1>same DEF SynAckDeadline, clientVars
<1>11. ASSUME AcceptCall PROVE Packs /\ Acks /\ Ends
  BY <1>11, <1>packs, <1>acks, <1>same
  DEF AcceptCall, AcceptSeesSyn, AcceptReadsPort, AcceptWakes, AcceptTestsFailed,
      AcceptFails, AcceptReturns, timerVars, clientVars
<1>12. ASSUME ServerDies \/ UNCHANGED vars PROVE Packs /\ Acks /\ Ends
  BY <1>12, <1>packs, <1>acks, <1>same DEF ServerDies, vars, timerVars, clientVars
<1>13. Packs /\ Acks /\ Ends
  BY <1>0, <1>1, <1>2, <1>3, <1>4, <1>5, <1>6, <1>7, <1>8, <1>9, <1>10, <1>11, <1>12
  DEF Next
<1> QED
  BY <1>13 DEF Packs, Acks, Ends

\* A client whose connect has succeeded has a link at the server until a
\* handshake has timed out.
THEOREM ConnectedIsKnown == Spec => []ConnectedHaveLink
<1>1. Init => ConnectInOrder
  BY ConnectInit
<1>2. Init => Answered
  BY DEF Init, Answered, Open, NoLink
<1>3. ConnectInOrder /\ Answered => ConnectedHaveLink
  BY DEF ConnectInOrder, Answered, ConnectedHaveLink
<1> QED
  BY <1>1, <1>2, <1>3, ServerInit, ServerStep, ConnectStep, AnsweredStep, PTL DEF Spec

\* The numbers that agree with a client's link do so as long as it is there.
LEMMA NumbersStay ==
  ASSUME ServerInv, [Next]_vars, NEW p \in Clients, NEW s, NEW e,
         NumbersOf(phase[p], clink[p], s, e)
  PROVE  NumbersOf(phase'[p], clink'[p], s, e)
<1>t. ClientTypeOK
  BY DEF ServerInv, HandshakeTypeOK
<1> DEFINE Goal == NumbersOf(phase'[p], clink'[p], s, e)
<1>1. ASSUME NEW c \in Clients, Connect(c) PROVE Goal
  BY <1>1, <1>t DEF Connect, NumbersOf, ClientTypeOK
<1>2. ASSUME NEW c \in Clients, ConnectCall(c) PROVE Goal
  <2>1. phase'[p] # "idle" /\ clink'[p] \in {clink[p], NoLink}
    BY <1>2, <1>t DEF ConnectCall, ConnectWakes, ConnectTestsFailed, ConnectFails,
       ConnectReturns, NumbersOf, ClientTypeOK
  <2> QED
    BY <2>1 DEF NumbersOf, NoLink, Open, Opening
<1>3. ASSUME NEW pack \in net, SynAckArrives(pack) PROVE Goal
  BY <1>3, <1>t DEF SynAckArrives, NumbersOf, ClientTypeOK, connectVars
<1>4. ASSUME UNCHANGED <<phase, clink>> PROVE Goal
  BY <1>4
<1>5. ASSUME NEW c \in Clients,
             \/ ResendSyn(c) \/ ConnectDeadline(c)
             \/ \E offset \in DataOffsets : SendData(c, offset)
      PROVE UNCHANGED <<phase, clink>>
  BY <1>5 DEF ResendSyn, ConnectDeadline, SendData, clientVars, connectVars
<1>6. ASSUME NEW pack \in net, SynArrives(pack) \/ AckArrives(pack)
      PROVE UNCHANGED <<phase, clink>>
  BY <1>6 DEF SynArrives, AckArrives, clientVars, connectVars
<1>7. ASSUME NEW n \in 1..MaxSyns, ResendSynAck(n) \/ SynAckDeadline(n)
      PROVE UNCHANGED <<phase, clink>>
  BY <1>7 DEF ResendSynAck, SynAckDeadline, clientVars, connectVars
<1>8. ASSUME AcceptCall PROVE UNCHANGED <<phase, clink>>
  BY <1>8 DEF AcceptCall, AcceptSeesSyn, AcceptReadsPort, AcceptWakes,
     AcceptTestsFailed, AcceptFails, AcceptReturns, clientVars, connectVars
<1>9. ASSUME ServerDies \/ UNCHANGED vars PROVE UNCHANGED <<phase, clink>>
  BY <1>9 DEF ServerDies, vars, clientVars, connectVars
<1> HIDE DEF Goal
<1>10. Goal
  BY <1>1, <1>2, <1>3, <1>4, <1>5, <1>6, <1>7, <1>8, <1>9 DEF Next
<1> QED
  BY <1>10 DEF Goal

\* A link that a step opens has the numbers of an ACK.
LEMMA LinkOpens ==
  ASSUME ServerInv, [Next]_vars, NEW p \in Clients, Open(link'[p])
  PROVE  \/ link'[p] = link[p]
         \/ \E pack \in net : /\ pack.kind = "ACK" /\ pack.port = p
                              /\ link'[p].sendBase = pack.ack
                              /\ link'[p].expectSeqNum = pack.seq
<1>t. link \in [Clients -> Links] /\ \A pack \in net : pack.port \in Clients
  BY DEF ServerInv, HandshakeTypeOK, TableTypeOK, NetTypeOK
<1> DEFINE Goal == \/ link'[p] = link[p]
                   \/ \E pack \in net : /\ pack.kind = "ACK" /\ pack.port = p
                                        /\ link'[p].sendBase = pack.ack
                                        /\ link'[p].expectSeqNum = pack.seq
<1>1. ASSUME NEW pack \in net, SynArrives(pack) PROVE Goal
  BY <1>1, <1>t DEF SynArrives, Open, HalfOpen
<1>2. ASSUME NEW pack \in net, AckArrives(pack) PROVE Goal
  <2>1. CASE pack.port = p
    BY <1>2, <1>t, <2>1 DEF AckArrives, AckNumbers, Established
  <2>2. CASE pack.port # p
    BY <1>2, <1>t, <2>2 DEF AckArrives
  <2> QED
    BY <2>1, <2>2
<1>3. ASSUME AcceptFails PROVE Goal
  BY <1>3, <1>t DEF AcceptFails, Open, NoLink
<1>4. ASSUME UNCHANGED link PROVE Goal
  BY <1>4
<1>5. ASSUME NEW c \in Clients,
             \/ Connect(c) \/ ResendSyn(c) \/ ConnectDeadline(c) \/ ConnectCall(c)
             \/ \E offset \in DataOffsets : SendData(c, offset)
      PROVE UNCHANGED link
  BY <1>5 DEF Connect, ResendSyn, ConnectDeadline, ConnectCall, ConnectWakes,
     ConnectTestsFailed, ConnectFails, ConnectReturns, SendData, tableVars
<1>6. ASSUME NEW pack \in net, SynAckArrives(pack) PROVE UNCHANGED link
  BY <1>6 DEF SynAckArrives, tableVars
<1>7. ASSUME NEW n \in 1..MaxSyns, ResendSynAck(n) \/ SynAckDeadline(n)
      PROVE UNCHANGED link
  BY <1>7 DEF ResendSynAck, SynAckDeadline, tableVars
<1>8. ASSUME \/ AcceptSeesSyn \/ AcceptReadsPort \/ AcceptWakes
             \/ AcceptTestsFailed \/ AcceptReturns
      PROVE UNCHANGED link
  BY <1>8 DEF AcceptSeesSyn, AcceptReadsPort, AcceptWakes, AcceptTestsFailed,
     AcceptReturns, tableVars
<1>9. ASSUME ServerDies \/ UNCHANGED vars PROVE UNCHANGED link
  BY <1>9 DEF ServerDies, vars, tableVars
<1> HIDE DEF Goal
<1>10. Goal
  BY <1>1, <1>2, <1>3, <1>4, <1>5, <1>6, <1>7, <1>8, <1>9 DEF Next, AcceptCall
<1> QED
  BY <1>10 DEF Goal

\* One write of the client is outstanding at a time: its segments begin where
\* its stream does until the server has acknowledged the first.
OneOutstanding == DataOffsets = {0}

\* An ACK that a step sends has the numbers of the client's open link.
LEMMA AckLeaves ==
  ASSUME OneOutstanding, ServerInv, ConnectInOrder, [Next]_vars,
         NEW a \in net', a \notin net, a.kind = "ACK"
  PROVE  a.port \in Clients /\ NumbersOf(phase'[a.port], clink'[a.port], a.ack, a.seq)
<1>t. /\ ClientTypeOK
      /\ synAcks \in Seq(SynAckPacks)
      /\ \A pack \in net :
           pack.port \in Clients /\ pack.seq \in Nat /\ pack.ack \in Nat
  BY DEF ServerInv, HandshakeTypeOK, TimerTypeOK, NetTypeOK
<1> DEFINE Goal ==
      a.port \in Clients /\ NumbersOf(phase'[a.port], clink'[a.port], a.ack, a.seq)
<1>1. ASSUME NEW pack \in net, SynAckArrives(pack) PROVE Goal
  <2>1. a = Pack("ACK", pack.port, clink'[pack.port].sendBase,
                 clink'[pack.port].expectSeqNum)
    BY <1>1 DEF SynAckArrives, Send
  <2>2. phase'[pack.port] # "idle"
    BY <1>1, <1>t DEF SynAckArrives, ConnectInOrder, Closed, Opening, connectVars
  <2>3. Open(clink'[pack.port])
    BY <1>1, <1>t DEF SynAckArrives, ClientTypeOK, Open, SynAckNumbers, Established
  <2>4. /\ a.port = pack.port
        /\ a.seq = clink'[pack.port].sendBase
        /\ a.ack = clink'[pack.port].expectSeqNum
    BY <2>1 DEF Pack
  <2> QED
    BY <1>t, <2>2, <2>3, <2>4 DEF NumbersOf, Open, Opening
<1>2. ASSUME NEW c \in Clients, NEW offset \in DataOffsets, SendData(c, offset)
      PROVE Goal
  <2>1. offset = 0
    BY DEF OneOutstanding
  <2>2. a = ClientSegment(c, 0) /\ UNCHANGED <<phase, clink>>
    BY <1>2, <2>1 DEF SendData, Send, clientVars, connectVars
  <2>3. Open(clink[c]) /\ phase[c] # "idle"
    BY <1>2 DEF SendData, ConnectInOrder
  <2>4. clink[c].sendBase + 0 = clink[c].sendBase
    BY <1>t DEF ClientTypeOK, Links
  <2>5. a.port = c /\ a.seq = clink[c].sendBase /\ a.ack = clink[c].expectSeqNum
    BY <2>2, <2>4 DEF ClientSegment, Pack
  <2> QED
    BY <2>2, <2>3, <2>5 DEF NumbersOf, Open, Opening
<1>3. ASSUME NEW pack, pack.kind # "ACK", Send(pack) PROVE FALSE
  BY <1>3 DEF Send
<1>4. ASSUME NEW c \in Clients, Connect(c) \/ ResendSyn(c) PROVE FALSE
  BY <1>3, <1>4 DEF Connect, ResendSyn, Syn, Pack
<1>5. ASSUME NEW pack \in net, SynArrives(pack) PROVE FALSE
  BY <1>3, <1>5 DEF SynArrives, Pack
<1>6. ASSUME NEW n \in 1..MaxSyns, ResendSynAck(n) PROVE FALSE
  <2>1. PICK k \in n..Len(synAcks) : Send(synAcks[k])
    BY <1>6 DEF ResendSynAck
  <2>2. k \in 1..Len(synAcks)
    BY <1>t, HandshakeAssumption
  <2>3. synAcks[k] \in SynAckPacks
    BY <1>t, <2>2, SeqElement
  <2> QED
    BY <1>3, <2>1, <2>3 DEF SynAckPacks
<1>7. ASSUME NEW c \in Clients, ConnectDeadline(c) \/ ConnectCall(c)
      PROVE UNCHANGED net
  BY <1>7 DEF ConnectDeadline, ConnectCall, ConnectWakes, ConnectTestsFailed,
     ConnectFails, ConnectReturns
<1>8. ASSUME NEW pack \in net, AckArrives(pack) PROVE UNCHANGED net
  BY <1>8 DEF AckArrives
<1>9. ASSUME NEW n \in 1..MaxSyns, SynAckDeadline(n) PROVE UNCHANGED net
  BY <1>9 DEF SynAckDeadline
<1>10. ASSUME AcceptCall PROVE UNCHANGED net
  BY <1>10 DEF AcceptCall, AcceptSeesSyn, AcceptReadsPort, AcceptWakes,
     AcceptTestsFailed, AcceptFails, AcceptReturns
<1>11. ASSUME ServerDies \/ UNCHANGED vars PROVE UNCHANGED net
  BY <1>11 DEF ServerDies, vars
<1> HIDE DEF Goal
<1>12. Goal
  BY <1>1, <1>2, <1>4, <1>5, <1>6, <1>7, <1>8, <1>9, <1>10, <1>11 DEF Next
<1> QED
  BY <1>12 DEF Goal

\* Every step keeps the numbers the two ends know of each other.
LEMMA NumbersStep ==
  ASSUME OneOutstanding
  PROVE  ServerInv /\ ConnectInOrder /\ NumbersKnown /\ [Next]_vars => NumbersKnown'
<1>0. SUFFICES ASSUME ServerInv, ConnectInOrder, NumbersKnown, [Next]_vars
      PROVE NumbersKnown'
  OBVIOUS
<1>1. ASSUME NEW a \in net', a.kind = "ACK"
      PROVE NumbersOf(phase'[a.port], clink'[a.port], a.ack, a.seq)
  <2>1. CASE a \notin net
    BY <1>0, <1>1, <2>1, AckLeaves
  <2>2. CASE a \in net
    <3>1. a.port \in Clients
      BY <1>0, <2>2 DEF ServerInv, HandshakeTypeOK, NetTypeOK
    <3>2. NumbersOf(phase[a.port], clink[a.port], a.ack, a.seq)
      BY <1>0, <1>1, <2>2 DEF NumbersKnown
    <3> QED
      BY <1>0, <3>1, <3>2, NumbersStay
  <2> QED
    BY <2>1, <2>2
<1>2. ASSUME NEW c \in Clients, Open(link'[c])
      PROVE NumbersOf(phase'[c], clink'[c], link'[c].sendBase, link'[c].expectSeqNum)
  <2>1. NumbersOf(phase[c], clink[c], link'[c].sendBase, link'[c].expectSeqNum)
    <3>1. CASE link'[c] = link[c]
      BY <1>0, <1>2, <3>1 DEF NumbersKnown
    <3>2. CASE \E pack \in net : /\ pack.kind = "ACK" /\ pack.port = c
                                 /\ link'[c].sendBase = pack.ack
                                 /\ link'[c].expectSeqNum = pack.seq
      BY <1>0, <3>2 DEF NumbersKnown
    <3> QED
      BY <1>0, <1>2, <3>1, <3>2, LinkOpens
  <2> QED
    BY <1>0, <2>1, NumbersStay
<1> QED
  BY <1>1, <1>2 DEF NumbersKnown

\* Both ends of a connection start from the same numbers, whichever SYN/ACK was
\* answered and whichever segment took the place of the third ACK.
THEOREM EndsStartAlike ==
  ASSUME OneOutstanding
  PROVE  Spec => []NumbersAgree
<1>1. Init => ConnectInOrder
  BY ConnectInit
<1>2. Init => NumbersKnown
  BY DEF Init, NumbersKnown, Open, NoLink
<1>3. NumbersKnown => NumbersAgree
  BY DEF NumbersKnown, NumbersAgree, NumbersOf
<1> QED
  BY <1>1, <1>2, <1>3, ServerInit, ServerStep, ConnectStep, NumbersStep, PTL DEF Spec
=============================================================================
