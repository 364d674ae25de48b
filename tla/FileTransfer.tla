---------------------------- MODULE FileTransfer ----------------------------
(***************************************************************************)
(* What the two programs do with a connection: Client.cpp asks for videos  *)
(* and sums, line by line, Server.cpp answers on the same connection, and  *)
(* both use send(), recv() and read_till_ln() of lib/net/tcp.cpp.          *)
(*                                                                         *)
(* Each direction is a reliable stream, which Connection is shown to be:   *)
(* bytes arrive in order, as many at a time as the segments happen to      *)
(* hold, and two buffers bound what is under way.                          *)
(***************************************************************************)
EXTENDS Integers, Sequences

CONSTANTS
  Requests,   \* what the client asks for, one after the other
  Chunk,      \* 64000: what send_vid and get_video move at a time
  SendRoom,   \* bytes a stream takes before the first of them has arrived
  RecvRoom    \* bytes that may wait for recv()

Missing == -1     \* the size of a file that the server cannot open

ASSUME FileTransferAssumption ==
  /\ Requests \in Seq([op : {"video", "calculate"}, size : Nat \cup {Missing}])
  /\ Chunk \in Nat \ {0}
  /\ SendRoom \in Nat /\ SendRoom > Chunk /\ SendRoom > 2
  /\ RecvRoom \in Nat \ {0}

VARIABLES
  client,      \* where the client's thread is
  asked,       \* the request it is at
  file_size,   \* bytes of the answer that it still expects
  output,      \* what it has written, per request
  server,      \* where server() is
  serving,     \* the request it has read
  input,       \* the read position of its file
  up, down     \* the streams to the server and to the client

clientVars == <<client, asked, file_size, output>>
serverVars == <<server, serving, input>>
vars == <<clientVars, serverVars, up, down>>

\* The text of a line is one byte here, its newline another; it may be the
\* request r, a number n, a result or the excuse that there is no such file.
Byte(what, r, n) == [what |-> what, of |-> r, n |-> n]
NewLine == Byte("newline", 0, 0)
Line(what, r, n) == <<Byte(what, r, n), NewLine>>

Size(r) == Requests[r].size
File(r, from, to) == [k \in 1..(to - from) |-> Byte("file", r, from + k)]

Empty == [sent |-> <<>>, ready |-> <<>>]

Init ==
  /\ client = "asking"
  /\ asked = 1
  /\ file_size = 0
  /\ output = [r \in 1..Len(Requests) |-> <<>>]
  /\ server = "listening"
  /\ serving = 0
  /\ input = 0
  /\ up = Empty
  /\ down = Empty
-----------------------------------------------------------------------------
(* The stream calls.                                                       *)

SmallerOf(a, b) == IF a < b THEN a ELSE b

\* send() waits for remain() > size.
CanSend(stream, bytes) == Len(stream.sent) + Len(bytes) < SendRoom
Sent(stream, bytes) ==
  [sent |-> stream.sent \o bytes, ready |-> stream.ready]

\* The first n bytes under way are put into the receive buffer.
Arrive(stream, n) ==
  [sent  |-> SubSeq(stream.sent, n + 1, Len(stream.sent)),
   ready |-> stream.ready \o SubSeq(stream.sent, 1, n)]

Arrivals(stream) ==
  {n \in 1..Len(stream.sent) : Len(stream.ready) + n <= RecvRoom}

Readable(stream) == stream.ready # <<>>
Taken(stream, n) == SubSeq(stream.ready, 1, n)
Rest(stream, n) ==
  [sent  |-> stream.sent,
   ready |-> SubSeq(stream.ready, n + 1, Len(stream.ready))]

\* read_till_ln's event reads up to a newline, or all that is there; in either
\* case it is erased.
NewLines(stream) == {i \in 1..Len(stream.ready) : stream.ready[i] = NewLine}
LineLength(stream) ==
  IF NewLines(stream) = {} THEN Len(stream.ready)
  ELSE CHOOSE i \in NewLines(stream) : \A j \in NewLines(stream) : i <= j

HasLine(stream) == stream.ready[LineLength(stream)] = NewLine
-----------------------------------------------------------------------------
(* The client: get_video, calculate, and the loop of main.                 *)

ClientAsks ==
  /\ client = "asking" /\ asked <= Len(Requests)
  /\ CanSend(up, Line("request", asked, 0))
  /\ up' = Sent(up, Line("request", asked, 0))
  /\ client' = "reading answer"
  /\ UNCHANGED <<asked, file_size, output, serverVars, down>>

\* read_till_ln returns a line.
ClientReadsLine ==
  /\ client = "reading answer"
  /\ Readable(down) /\ HasLine(down)
  /\ down' = Rest(down, LineLength(down))
  /\ UNCHANGED <<serverVars, up>>

NextRequest == client' = "asking" /\ asked' = asked + 1

\* calculate() writes the line to a file.
ClientGetsResult ==
  /\ ClientReadsLine
  /\ Requests[asked].op = "calculate"
  /\ output' = [output EXCEPT ![asked] = Taken(down, LineLength(down))]
  /\ NextRequest
  /\ UNCHANGED file_size

\* get_video() returns when the line is an excuse, or takes the number in it.
ClientGetsExcuse ==
  /\ ClientReadsLine
  /\ Requests[asked].op = "video" /\ down.ready[1].what = "can't"
  /\ NextRequest
  /\ UNCHANGED <<file_size, output>>

ClientGetsSize ==
  /\ ClientReadsLine
  /\ Requests[asked].op = "video" /\ down.ready[1].what # "can't"
  /\ file_size' = down.ready[1].n
  /\ client' = "receiving"
  /\ UNCHANGED <<asked, output>>

\* Only part of a line: it is in buf, the event is gone, nothing sets end.
ClientHangs ==
  /\ client = "reading answer"
  /\ Readable(down) /\ ~HasLine(down)
  /\ down' = Rest(down, LineLength(down))
  /\ client' = "hanging"
  /\ UNCHANGED <<asked, file_size, output, serverVars, up>>

\* recv() may return less than it was asked for.  Mutant: that is overlooked.
Wanted == SmallerOf(Chunk, file_size)
SizeAfterAsked(n) == file_size - Wanted
SizeAfter(n) == file_size - n

ClientReceives ==
  LET n == SmallerOf(Wanted, Len(down.ready))
  IN  /\ client = "receiving" /\ file_size > 0
      /\ Readable(down)
      /\ file_size' = SizeAfter(n)
      /\ output' = [output EXCEPT ![asked] = @ \o Taken(down, n)]
      /\ down' = Rest(down, n)
      /\ UNCHANGED <<client, asked, serverVars, up>>

ClientCloses ==
  /\ client = "receiving" /\ file_size = 0
  /\ NextRequest
  /\ UNCHANGED <<file_size, output, serverVars, up, down>>

Client ==
  \/ ClientAsks \/ ClientHangs
  \/ ClientGetsResult \/ ClientGetsExcuse \/ ClientGetsSize
  \/ ClientReceives \/ ClientCloses
-----------------------------------------------------------------------------
(* The server: server() and send_vid.                                      *)

ServerReads ==
  /\ server = "listening"
  /\ Readable(up) /\ HasLine(up)
  /\ up' = Rest(up, LineLength(up))
  /\ serving' = up.ready[1].of
  /\ server' = "answering"
  /\ UNCHANGED <<input, clientVars, down>>

ServerHangs ==
  /\ server = "listening"
  /\ Readable(up) /\ ~HasLine(up)
  /\ up' = Rest(up, LineLength(up))
  /\ server' = "hanging"
  /\ UNCHANGED <<serving, input, clientVars, down>>

Answer(r) ==
  CASE Requests[r].op = "calculate" -> Line("result", r, 0)
    [] Requests[r].op = "video" /\ Size(r) = Missing -> Line("can't", r, 0)
    [] OTHER -> Line("size", r, Size(r))

\* Mutant: send_vid does not return after its excuse.
HasFileAnyhow(r) == Requests[r].op = "video"
HasFile(r) == Requests[r].op = "video" /\ Size(r) # Missing

ServerAnswers ==
  /\ server = "answering"
  /\ CanSend(down, Answer(serving))
  /\ down' = Sent(down, Answer(serving))
  /\ input' = 0
  /\ server' = (IF HasFile(serving) THEN "sending" ELSE "listening")
  /\ UNCHANGED <<serving, clientVars, up>>

\* A read that comes to the end sets eof, one that stops short of it does not:
\* the last chunk may be empty.  Mutant: a full chunk counts as the last.
EofWhenFull(n) == n <= Chunk
Eof(n) == n < Chunk

ServerSends ==
  LET n == SmallerOf(Chunk, Size(serving) - input)
      chunk == File(serving, input, input + n)
  IN  /\ server = "sending"
      /\ CanSend(down, chunk)
      /\ down' = Sent(down, chunk)
      /\ input' = input + n
      /\ server' = (IF Eof(n) THEN "listening" ELSE "sending")
      /\ UNCHANGED <<serving, clientVars, up>>

Server == ServerReads \/ ServerHangs \/ ServerAnswers \/ ServerSends
-----------------------------------------------------------------------------
RequestArrives ==
  /\ \E n \in Arrivals(up) : up' = Arrive(up, n)
  /\ UNCHANGED <<clientVars, serverVars, down>>

AnswerArrives ==
  /\ \E n \in Arrivals(down) : down' = Arrive(down, n)
  /\ UNCHANGED <<clientVars, serverVars, up>>

Next == Client \/ Server \/ RequestArrives \/ AnswerArrives

Spec == Init /\ [][Next]_vars

\* The threads go on, and what was sent arrives (SentIsDelivered of Connection).
FairSpec ==
  /\ Spec
  /\ WF_vars(Client) /\ WF_vars(Server)
  /\ WF_vars(RequestArrives) /\ WF_vars(AnswerArrives)
-----------------------------------------------------------------------------
(* Properties.                                                             *)

Bytes == [what : {"newline", "request", "size", "result", "can't", "file"},
          of : 0..Len(Requests), n : Nat]

FileTransferTypeOK ==
  /\ client \in {"asking", "reading answer", "receiving", "hanging"}
  /\ asked \in 1..(Len(Requests) + 1)
  /\ file_size \in Nat
  /\ output \in [1..Len(Requests) -> Seq(Bytes)]
  /\ server \in {"listening", "answering", "sending", "hanging"}
  /\ serving \in 0..Len(Requests)
  /\ input \in Nat
  /\ {up, down} \subseteq [sent : Seq(Bytes), ready : Seq(Bytes)]

\* What a request leaves at the client when it is over.
Expected(r) ==
  CASE HasFile(r) -> File(r, 0, Size(r))
    [] Requests[r].op = "calculate" -> Answer(r)
    [] OTHER -> <<>>

\* Files and answers come out whole: each has all its bytes and no other's,
\* though nothing but the number in front says where it ends, recv() returns
\* whatever is there, and the next answer follows on the same stream.
FilesIntact ==
  \A r \in 1..Len(Requests) : r < asked => output[r] = Expected(r)

\* The two programs stay in step: when the client turns to the next request,
\* nothing of an answer is left, neither under way nor unread, and the server
\* is not waiting with more of it, but for the empty chunk at a file's end.
InStep ==
  client = "asking" =>
    /\ up = Empty /\ down = Empty
    /\ server \in {"listening", "sending"}
    /\ server = "sending" => input = Size(serving)

Finished == client = "asking" /\ asked > Len(Requests)

\* The client gets through all its requests, unless a line has been handed out
\* in two parts: buffers, streams and eof never leave both programs waiting.
SessionEnds == <>(Finished \/ client = "hanging" \/ server = "hanging")

\* "use UDP to simulate TCP": a program that speaks over a stream in this way
\* is not stopped by where the stream happens to be cut.
SessionFinishes == <>Finished
=============================================================================
