------------------------- MODULE FileTransferProofs -------------------------
(***************************************************************************)
(* The two programs stay in step and every file comes out whole, for any   *)
(* requests, any chunk and any room, however the streams are cut.          *)
(***************************************************************************)
EXTENDS FileTransfer, SequenceTheorems, TLAPS

Streams == [sent : Seq(Bytes), ready : Seq(Bytes)]
Content(stream) == stream.ready \o stream.sent

\* The server has nothing left of earlier requests but an empty chunk.
ServerDone ==
  \/ server = "listening"
  \/ /\ server = "sending" /\ serving \in 1..Len(Requests)
     /\ HasFile(serving) /\ input = Size(serving)

\* The server is at the client's request and has sent the file up to input.
ServerAhead ==
  /\ serving = asked /\ up = Empty
  /\ IF HasFile(asked)
       THEN /\ input \in 0..Size(asked)
            /\ server = "sending" \/ (server = "listening" /\ input = Size(asked))
       ELSE server = "listening"

Body(r) == IF HasFile(r) THEN File(r, 0, input) ELSE <<>>

(* The session goes through these phases, once for each request.           *)
Between ==
  client = "asking" /\ up = Empty /\ down = Empty /\ ServerDone

Asked ==
  /\ client = "reading answer" /\ asked <= Len(Requests)
  /\ Content(up) = Line("request", asked, 0)
  /\ down = Empty /\ ServerDone

Served ==
  /\ client = "reading answer" /\ asked <= Len(Requests)
  /\ server = "answering" /\ serving = asked
  /\ up = Empty /\ down = Empty

Answered ==
  /\ client = "reading answer" /\ asked <= Len(Requests) /\ ServerAhead
  /\ Content(down) = Answer(asked) \o Body(asked)

Receiving ==
  /\ client = "receiving" /\ asked <= Len(Requests) /\ ServerAhead
  /\ HasFile(asked) /\ file_size \in 0..Size(asked)
  /\ Size(asked) - file_size <= input
  /\ output[asked] = File(asked, 0, Size(asked) - file_size)
  /\ Content(down) = File(asked, Size(asked) - file_size, input)

\* A line has been handed out in two parts.
Lost ==
  \/ /\ client = "reading answer" /\ asked <= Len(Requests)
     /\ server = "hanging" /\ down = Empty
  \/ client = "hanging" /\ asked <= Len(Requests) /\ ServerAhead

\* What the client has written; the request it is at has nothing yet.
OutputSoFar ==
  \A r \in 1..Len(Requests) :
    /\ r < asked => output[r] = Expected(r)
    /\ r > asked => output[r] = <<>>
    /\ r = asked /\ client # "receiving" => output[r] = <<>>

Phases == Between \/ Asked \/ Served \/ Answered \/ Receiving \/ Lost

SessionInv == FileTransferTypeOK /\ OutputSoFar /\ Phases
-----------------------------------------------------------------------------
(* Sequences.                                                              *)

LEMMA NatFacts ==
  /\ \A n \in Nat : 0 <= n /\ n - n = 0 /\ n \in 0..n
  /\ \A m, n \in Nat : m > n => m # n
OBVIOUS

\* The first n elements, and those behind them.
LEMMA SplitFront ==
  ASSUME NEW S, NEW s \in Seq(S), NEW n \in 0..Len(s)
  PROVE  /\ SubSeq(s, 1, n) \in Seq(S) /\ SubSeq(s, n + 1, Len(s)) \in Seq(S)
         /\ Len(SubSeq(s, 1, n)) = n /\ Len(SubSeq(s, n + 1, Len(s))) = Len(s) - n
         /\ SubSeq(s, 1, n) \o SubSeq(s, n + 1, Len(s)) = s
<1> DEFINE u == SubSeq(s, 1, n)
           v == SubSeq(s, n + 1, Len(s))
<1>1. Len(s) \in Nat /\ n \in Nat /\ \A i \in 1..Len(s) : s[i] \in S
  BY LenProperties, ElementOfSeq
<1>2. /\ u \in Seq(S) /\ Len(u) = n /\ \A i \in 1..n : u[i] = s[i]
  BY <1>1, SubSeqProperties
<1>3. /\ v \in Seq(S) /\ Len(v) = Len(s) - n
      /\ \A i \in 1..(Len(s) - n) : v[i] = s[n + i]
  BY <1>1, SubSeqProperties
<1> HIDE DEF u, v
<1>4. /\ u \o v \in Seq(S) /\ Len(u \o v) = Len(s)
      /\ \A i \in 1..Len(s) : (u \o v)[i] = s[i]
  <2>1. /\ u \o v \in Seq(S) /\ Len(u \o v) = Len(u) + Len(v)
        /\ \A i \in 1..(Len(u) + Len(v)) :
             (u \o v)[i] = IF i <= Len(u) THEN u[i] ELSE v[i - Len(u)]
    BY <1>2, <1>3, ConcatProperties
  <2>2. Len(u) + Len(v) = Len(s)
    BY <1>1, <1>2, <1>3
  <2>3. \A i \in 1..Len(s) : i <= n \/ i - n \in 1..(Len(s) - n)
    BY <1>1
  <2> QED BY <2>1, <2>2, <2>3, <1>1, <1>2, <1>3
<1>5. u \o v = s
  BY <1>4, SeqEqual
<1> QED BY <1>2, <1>3, <1>5 DEF u, v

\* Sequences that are equal are so when their fronts of the same length go.
LEMMA SameRest ==
  ASSUME NEW S, NEW s \in Seq(S), NEW t \in Seq(S), NEW u \in Seq(S), NEW v \in Seq(S),
         s \o t = u \o v, Len(s) = Len(u)
  PROVE  s = u /\ t = v
<1>1. /\ Len(s) \in Nat /\ Len(u) \in Nat
      /\ \A i \in 1..(Len(s) + Len(t)) :
           (s \o t)[i] = IF i <= Len(s) THEN s[i] ELSE t[i - Len(s)]
      /\ \A i \in 1..(Len(u) + Len(v)) :
           (u \o v)[i] = IF i <= Len(u) THEN u[i] ELSE v[i - Len(u)]
      /\ Len(t) \in Nat /\ Len(v) \in Nat
      /\ Len(s \o t) = Len(s) + Len(t) /\ Len(u \o v) = Len(u) + Len(v)
  BY ConcatProperties, LenProperties
<1>2. \A i \in 1..Len(s) : s[i] = u[i]
  BY <1>1
<1>3. s = u
  BY <1>2, SeqEqual
<1>4. t = v
  BY <1>3, ConcatSimplifications
<1> QED BY <1>3, <1>4
-----------------------------------------------------------------------------
(* The streams.                                                            *)

LEMMA EmptyStream ==
  /\ Empty \in Streams /\ Content(Empty) = <<>> /\ ~Readable(Empty)
  /\ Arrivals(Empty) = {}
  /\ \A s \in Streams : Content(s) = <<>> => s = Empty
<1>1. <<>> \in Seq(Bytes) /\ Len(<<>>) = 0
  BY EmptySeq
<1>2. Empty \in Streams /\ ~Readable(Empty) /\ Arrivals(Empty) = {}
  BY <1>1 DEF Empty, Streams, Readable, Arrivals
<1>3. Content(Empty) = <<>>
  BY <1>1, ConcatEmptySeq DEF Content, Empty
<1>4. ASSUME NEW s \in Streams, Content(s) = <<>> PROVE s = Empty
  <2>1. s.ready = <<>> /\ s.sent = <<>>
    BY <1>4, ConcatEqualIffEmpty DEF Content, Streams
  <2> QED BY <2>1 DEF Streams, Empty
<1> QED BY <1>2, <1>3, <1>4

\* send() appends to what the stream holds.
LEMMA SentContent ==
  ASSUME NEW s \in Streams, NEW b \in Seq(Bytes)
  PROVE  Sent(s, b) \in Streams /\ Content(Sent(s, b)) = Content(s) \o b
<1>1. s.ready \in Seq(Bytes) /\ s.sent \in Seq(Bytes)
  BY DEF Streams
<1>2. Sent(s, b) = [sent |-> s.sent \o b, ready |-> s.ready]
  BY DEF Sent
<1>3. s.sent \o b \in Seq(Bytes)
  BY <1>1, ConcatProperties
<1>4. (s.ready \o s.sent) \o b = s.ready \o (s.sent \o b)
  <2> DEFINE r == s.ready
             t == s.sent
  <2>1. r \in Seq(Bytes) /\ t \in Seq(Bytes)
    BY <1>1
  <2> HIDE DEF r, t
  <2>2. (r \o t) \o b = r \o (t \o b)
    BY <2>1, ConcatAssociative
  <2> QED BY <2>2 DEF r, t
<1> QED BY <1>1, <1>2, <1>3, <1>4 DEF Streams, Content

\* Arrival changes where bytes are, not which bytes the stream holds.
LEMMA ArriveContent ==
  ASSUME NEW s \in Streams, NEW n \in Arrivals(s)
  PROVE  Arrive(s, n) \in Streams /\ Content(Arrive(s, n)) = Content(s)
<1>1. s.ready \in Seq(Bytes) /\ s.sent \in Seq(Bytes)
  BY DEF Streams
<1>2. n \in 0..Len(s.sent)
  BY <1>1, LenProperties DEF Arrivals
<1> DEFINE u == SubSeq(s.sent, 1, n)
           v == SubSeq(s.sent, n + 1, Len(s.sent))
<1>3. u \in Seq(Bytes) /\ v \in Seq(Bytes) /\ u \o v = s.sent
  BY <1>1, <1>2, SplitFront
<1>4. Arrive(s, n) = [sent |-> v, ready |-> s.ready \o u]
  BY DEF Arrive
<1> HIDE DEF u, v
<1>5. s.ready \o u \in Seq(Bytes)
  BY <1>1, <1>3, ConcatProperties
<1>6. (s.ready \o u) \o v = s.ready \o s.sent
  <2> DEFINE r == s.ready
  <2>1. r \in Seq(Bytes) /\ u \in Seq(Bytes) /\ v \in Seq(Bytes)
    BY <1>1, <1>3
  <2> HIDE DEF r
  <2>2. (r \o u) \o v = r \o (u \o v)
    BY <2>1, ConcatAssociative
  <2> QED BY <2>2, <1>3 DEF r
<1> QED BY <1>3, <1>4, <1>5, <1>6 DEF Streams, Content

\* recv() takes the first bytes the stream holds.
LEMMA TakenContent ==
  ASSUME NEW s \in Streams, NEW n \in 0..Len(s.ready)
  PROVE  /\ Rest(s, n) \in Streams
         /\ Taken(s, n) \in Seq(Bytes) /\ Len(Taken(s, n)) = n
         /\ Content(s) = Taken(s, n) \o Content(Rest(s, n))
<1>1. s.ready \in Seq(Bytes) /\ s.sent \in Seq(Bytes)
  BY DEF Streams
<1> DEFINE v == SubSeq(s.ready, n + 1, Len(s.ready))
<1>2. Rest(s, n) = [sent |-> s.sent, ready |-> v]
  BY DEF Rest
<1>3. /\ v \in Seq(Bytes) /\ Taken(s, n) \in Seq(Bytes) /\ Len(Taken(s, n)) = n
      /\ Taken(s, n) \o (v \o s.sent) = s.ready \o s.sent
  <2> DEFINE r == s.ready
             t == s.sent
  <2>1. r \in Seq(Bytes) /\ t \in Seq(Bytes) /\ n \in 0..Len(r)
    BY <1>1
  <2> HIDE DEF r, t
  <2> DEFINE x == SubSeq(r, 1, n)
             y == SubSeq(r, n + 1, Len(r))
  <2>2. x \in Seq(Bytes) /\ y \in Seq(Bytes) /\ Len(x) = n /\ x \o y = r
    BY <2>1, SplitFront
  <2> HIDE DEF x, y
  <2>3. (x \o y) \o t = x \o (y \o t)
    <3>1. x \in Seq(Bytes) /\ y \in Seq(Bytes) /\ t \in Seq(Bytes)
      BY <2>1, <2>2
    <3> QED BY <3>1, ConcatAssociative
  <2>4. x \o (y \o t) = r \o t
    BY <2>2, <2>3
  <2> QED BY <2>2, <2>4 DEF r, t, x, y, Taken
<1> HIDE DEF v
<1>4. Rest(s, n) \in Streams
  BY <1>1, <1>2, <1>3 DEF Streams
<1>5. Content(Rest(s, n)) = v \o s.sent
  BY <1>2 DEF Content
<1>6. Content(s) = s.ready \o s.sent
  BY DEF Content
<1> QED BY <1>3, <1>4, <1>5, <1>6

\* read_till_ln, when the stream holds a line first: a line that is found is
\* that line, and what is behind it stays.
LEMMA LineContent ==
  ASSUME NEW s \in Streams, NEW a \in Bytes, a # NewLine, NEW b \in Seq(Bytes),
         Content(s) = <<a, NewLine>> \o b, Readable(s)
  PROVE  /\ Rest(s, LineLength(s)) \in Streams
         /\ HasLine(s) => /\ LineLength(s) = 2
                          /\ Taken(s, 2) = <<a, NewLine>>
                          /\ s.ready[1] = a
                          /\ Content(Rest(s, 2)) = b
<1> DEFINE l == <<a, NewLine>>
           r == s.ready
<1>1. r \in Seq(Bytes) /\ s.sent \in Seq(Bytes) /\ l \in Seq(Bytes)
  BY DEF Streams, NewLine, Byte, Bytes
<1>2. l[1] = a /\ l[2] = NewLine /\ Len(l) = 2
  OBVIOUS
<1> HIDE DEF l
<1>3. Len(r) \in Nat /\ r # <<>> /\ Len(r) >= 1
  BY <1>1, EmptySeq, LenProperties DEF Readable
<1> DEFINE m == Len(r)
           c == Content(s)
<1>m. m \in Nat /\ m >= 1 /\ m = Len(r)
  BY <1>3
<1>r. \A i \in 1..m : c[i] = r[i]
  <2>1. \A i \in 1..(Len(r) + Len(s.sent)) :
          c[i] = IF i <= Len(r) THEN r[i] ELSE s.sent[i - Len(r)]
    BY <1>1, ConcatProperties DEF Content
  <2>2. Len(s.sent) \in Nat
    BY <1>1, LenProperties
  <2> HIDE DEF r, c, m
  <2> QED BY <2>1, <2>2, <1>m
<1>l. c[1] = a /\ c[2] = NewLine
  <2>1. \A i \in 1..(Len(l) + Len(b)) :
          c[i] = IF i <= Len(l) THEN l[i] ELSE b[i - Len(l)]
    BY <1>1, ConcatProperties DEF l
  <2>2. Len(b) \in Nat
    BY LenProperties
  <2> HIDE DEF c
  <2> QED BY <2>1, <2>2, <1>2
<1> HIDE DEF c, m
<1>5. r[1] = a
  BY <1>m, <1>r, <1>l
<1>6. CASE m = 1
  <2>1. NewLines(s) = {}
    BY <1>5, <1>6, <1>m DEF NewLines
  <2>2. LineLength(s) = 1 /\ ~HasLine(s)
    BY <2>1, <1>5, <1>6, <1>m DEF HasLine, LineLength
  <2>3. 1 \in 0..Len(s.ready)
    BY <1>m, <1>6
  <2>4. Rest(s, 1) \in Streams
    BY <2>3, TakenContent
  <2> QED BY <2>2, <2>4
<1>7. CASE m # 1
  <2>1. m \in Nat /\ m >= 2
    <3> HIDE DEF r
    <3> QED BY <1>7, <1>m
  <2>2. 2 \in NewLines(s) /\ NewLines(s) \subseteq 1..m /\ 1 \notin NewLines(s)
    BY <2>1, <1>m, <1>r, <1>l, <1>5 DEF NewLines
  <2>3. \A i \in NewLines(s) : 2 <= i
    BY <1>m, <2>2
  <2>4. LineLength(s) = 2
    <3>1. LineLength(s) = CHOOSE i \in NewLines(s) : \A j \in NewLines(s) : i <= j
      BY <2>2 DEF LineLength
    <3>2. \A i \in NewLines(s) : (\A j \in NewLines(s) : i <= j) => i = 2
      BY <1>m, <2>2, <2>3
    <3> QED BY <3>1, <3>2, <2>2, <2>3
  <2>5. /\ Rest(s, 2) \in Streams
        /\ Taken(s, 2) \in Seq(Bytes) /\ Len(Taken(s, 2)) = 2
        /\ Content(s) = Taken(s, 2) \o Content(Rest(s, 2))
    <3>1. 2 \in 0..Len(s.ready)
      BY <1>m, <2>1
    <3> QED BY <3>1, TakenContent
  <2>6. Content(Rest(s, 2)) \in Seq(Bytes)
    BY <2>5, ConcatProperties DEF Content, Streams
  <2>7. Taken(s, 2) = l /\ Content(Rest(s, 2)) = b
    <3> DEFINE x == Taken(s, 2)
               y == Content(Rest(s, 2))
    <3>1. x \o y = l \o b
      BY <2>5 DEF l
    <3>2. Len(x) = Len(l) /\ x \in Seq(Bytes) /\ y \in Seq(Bytes) /\ l \in Seq(Bytes)
      BY <1>1, <1>2, <2>5, <2>6
    <3> HIDE DEF x, y
    <3>3. x = l /\ y = b
      BY <3>1, <3>2, SameRest
    <3> QED BY <3>3 DEF x, y
  <2> QED BY <1>5, <2>4, <2>5, <2>7 DEF l
<1> QED BY <1>6, <1>7
-----------------------------------------------------------------------------
(* Files and lines.                                                        *)

LEMMA RequestTypes ==
  /\ Len(Requests) \in Nat
  /\ \A r \in 1..Len(Requests) :
       /\ Requests[r].op \in {"video", "calculate"}
       /\ Size(r) \in Nat \cup {Missing}
       /\ HasFile(r) => Size(r) \in Nat /\ Requests[r].op = "video"
<1>1. Requests \in Seq([op : {"video", "calculate"}, size : Nat \cup {Missing}])
  BY FileTransferAssumption
<1>2. \A r \in 1..Len(Requests) :
        Requests[r] \in [op : {"video", "calculate"}, size : Nat \cup {Missing}]
  BY <1>1, ElementOfSeq
<1> QED BY <1>1, <1>2, LenProperties DEF Size, HasFile

LEMMA FileBytes ==
  ASSUME NEW r \in 1..Len(Requests), NEW a \in Nat, NEW b \in Nat, a <= b
  PROVE  /\ File(r, a, b) \in Seq(Bytes) /\ Len(File(r, a, b)) = b - a
         /\ \A k \in 1..(b - a) : File(r, a, b)[k] = Byte("file", r, a + k)
<1>1. \A k \in 1..(b - a) : Byte("file", r, a + k) \in Bytes
  BY RequestTypes DEF Byte, Bytes
<1> QED BY <1>1 DEF File

LEMMA NoFileBytes ==
  ASSUME NEW r \in 1..Len(Requests), NEW a \in Nat
  PROVE  File(r, a, a) = <<>>
<1>1. a <= a /\ a - a = 0
  OBVIOUS
<1>2. File(r, a, a) \in Seq(Bytes) /\ Len(File(r, a, a)) = 0
  BY <1>1, FileBytes
<1> QED BY <1>2, EmptySeq

\* Neighbouring parts of a file make one.
LEMMA FileParts ==
  ASSUME NEW r \in 1..Len(Requests), NEW a \in Nat, NEW b \in Nat, NEW c \in Nat,
         a <= b, b <= c
  PROVE  File(r, a, b) \o File(r, b, c) = File(r, a, c)
<1> DEFINE u == File(r, a, b)
           v == File(r, b, c)
           w == File(r, a, c)
<1>1. /\ u \in Seq(Bytes) /\ Len(u) = b - a
      /\ \A k \in 1..(b - a) : u[k] = Byte("file", r, a + k)
  BY FileBytes
<1>2. /\ v \in Seq(Bytes) /\ Len(v) = c - b
      /\ \A k \in 1..(c - b) : v[k] = Byte("file", r, b + k)
  BY FileBytes
<1>3. /\ w \in Seq(Bytes) /\ Len(w) = c - a
      /\ \A k \in 1..(c - a) : w[k] = Byte("file", r, a + k)
  <2>1. a <= c
    OBVIOUS
  <2> QED BY <2>1, FileBytes
<1> HIDE DEF u, v, w
<1>4. /\ u \o v \in Seq(Bytes) /\ Len(u \o v) = c - a
      /\ \A k \in 1..(c - a) : (u \o v)[k] = IF k <= b - a THEN u[k] ELSE v[k - (b - a)]
  <2>1. /\ u \o v \in Seq(Bytes) /\ Len(u \o v) = Len(u) + Len(v)
        /\ \A k \in 1..(Len(u) + Len(v)) :
             (u \o v)[k] = IF k <= Len(u) THEN u[k] ELSE v[k - Len(u)]
    BY <1>1, <1>2, ConcatProperties
  <2>2. Len(u) + Len(v) = c - a
    BY <1>1, <1>2
  <2> QED BY <2>1, <2>2, <1>1
<1>5. \A k \in 1..(c - a) : (u \o v)[k] = w[k]
  <2> TAKE k \in 1..(c - a)
  <2>1. CASE k <= b - a
    BY <2>1, <1>1, <1>3, <1>4
  <2>2. CASE ~(k <= b - a)
    <3>1. k - (b - a) \in 1..(c - b) /\ b + (k - (b - a)) = a + k
      BY <2>2
    <3> QED BY <3>1, <2>2, <1>2, <1>3, <1>4
  <2> QED BY <2>1, <2>2
<1>6. u \o v = w
  BY <1>3, <1>4, <1>5, SeqEqual
<1> QED BY <1>6 DEF u, v, w

LEMMA LineBytes ==
  ASSUME NEW what \in {"request", "size", "result", "can't"},
         NEW r \in 1..Len(Requests), NEW n \in Nat
  PROVE  /\ Line(what, r, n) = <<Byte(what, r, n), NewLine>>
         /\ Line(what, r, n) \in Seq(Bytes)
         /\ Byte(what, r, n) \in Bytes /\ Byte(what, r, n) # NewLine
         /\ Byte(what, r, n).what = what /\ Byte(what, r, n).of = r
         /\ Byte(what, r, n).n = n
<1>1. /\ Byte(what, r, n) \in Bytes /\ NewLine \in Bytes
      /\ Byte(what, r, n).what = what /\ Byte(what, r, n).of = r
      /\ Byte(what, r, n).n = n /\ NewLine.what = "newline"
  BY RequestTypes DEF Byte, Bytes, NewLine
<1> QED BY <1>1 DEF Line

\* Every answer is a line; the client tells the excuse, and takes the size.
LEMMA AnswerBytes ==
  ASSUME NEW r \in 1..Len(Requests)
  PROVE  /\ Answer(r) \in Seq(Bytes)
         /\ \E a \in Bytes :
              /\ a # NewLine /\ Answer(r) = <<a, NewLine>>
              /\ Requests[r].op = "video" => (a.what = "can't" <=> ~HasFile(r))
              /\ HasFile(r) => a.n = Size(r)
<1>1. CASE Requests[r].op = "calculate"
  <2>1. Answer(r) = Line("result", r, 0) /\ ~HasFile(r)
    BY <1>1 DEF Answer, HasFile
  <2> QED BY <1>1, <2>1, LineBytes
<1>2. CASE Requests[r].op = "video" /\ Size(r) = Missing
  <2>1. Answer(r) = Line("can't", r, 0) /\ ~HasFile(r)
    BY <1>2 DEF Answer, HasFile
  <2> QED BY <1>2, <2>1, LineBytes
<1>3. CASE Requests[r].op = "video" /\ Size(r) # Missing
  <2>1. Answer(r) = Line("size", r, Size(r)) /\ HasFile(r) /\ Size(r) \in Nat
    BY <1>3, RequestTypes DEF Answer, HasFile
  <2> QED BY <1>3, <2>1, LineBytes
<1> QED BY <1>1, <1>2, <1>3, RequestTypes
-----------------------------------------------------------------------------
(* The invariant.                                                          *)

LEMMA SessionInit == Init => SessionInv
<1> SUFFICES ASSUME Init PROVE SessionInv
  OBVIOUS
<1>1. <<>> \in Seq(Bytes)
  BY EmptySeq
<1>2. FileTransferTypeOK
  BY <1>1, RequestTypes, EmptyStream DEF Init, FileTransferTypeOK, Streams
<1>3. OutputSoFar
  BY RequestTypes DEF Init, OutputSoFar
<1>4. Between
  BY DEF Init, Between, ServerDone
<1> QED BY <1>2, <1>3, <1>4 DEF SessionInv, Phases

\* What the types say of a state.
LEMMA Types ==
  ASSUME FileTransferTypeOK
  PROVE  /\ up \in Streams /\ down \in Streams
         /\ asked \in Nat /\ asked >= 1 /\ Len(Requests) \in Nat
         /\ asked <= Len(Requests) => asked \in 1..Len(Requests)
         /\ file_size \in Nat /\ input \in Nat
         /\ output \in [1..Len(Requests) -> Seq(Bytes)]
<1>1. up \in Streams /\ down \in Streams
  BY DEF FileTransferTypeOK, Streams
<1>2. file_size \in Nat /\ input \in Nat /\ output \in [1..Len(Requests) -> Seq(Bytes)]
  BY DEF FileTransferTypeOK
<1>3. asked \in 1..(Len(Requests) + 1)
  BY DEF FileTransferTypeOK
<1> DEFINE len == Len(Requests)
<1>4. len \in Nat
  BY RequestTypes
<1> HIDE DEF len
<1>5. asked \in 1..(len + 1)
  BY <1>3 DEF len
<1>6. asked \in Nat /\ asked >= 1 /\ (asked <= len => asked \in 1..len)
  BY <1>4, <1>5
<1> QED BY <1>1, <1>2, <1>4, <1>6 DEF len

\* The client asks: its line is all there is in the stream.
LEMMA ClientAsksStep ==
  ASSUME SessionInv, ClientAsks PROVE SessionInv'
<1>1. /\ FileTransferTypeOK /\ OutputSoFar /\ Between /\ asked <= Len(Requests)
      /\ up' = Sent(up, Line("request", asked, 0)) /\ client' = "reading answer"
      /\ UNCHANGED <<asked, file_size, output, serverVars, down>>
  BY DEF SessionInv, Phases, ClientAsks, Between, Asked, Served, Answered, Receiving, Lost
<1>2. asked \in 1..Len(Requests)
  BY <1>1, Types
<1>3. Line("request", asked, 0) \in Seq(Bytes)
  BY <1>2, LineBytes
<1>4. up' \in Streams /\ Content(up') = Content(up) \o Line("request", asked, 0)
  BY <1>1, <1>3, Types, SentContent
<1>5. Content(up') = Line("request", asked, 0)
  <2>1. Content(up) = <<>>
    BY <1>1, EmptyStream DEF Between
  <2> QED BY <2>1, <1>3, <1>4, ConcatEmptySeq
<1>6. FileTransferTypeOK'
  BY <1>1, <1>4 DEF FileTransferTypeOK, Streams, serverVars
<1>7. OutputSoFar'
  BY <1>1 DEF OutputSoFar, Between, Expected
<1>8. Asked'
  BY <1>1, <1>5 DEF Asked, Between, ServerDone, serverVars
<1> QED BY <1>6, <1>7, <1>8 DEF SessionInv, Phases

\* A line or part of one comes back only while the answer is under way.
LEMMA ReadingIsAnswered ==
  ASSUME SessionInv, client = "reading answer", Readable(down)
  PROVE  FileTransferTypeOK /\ OutputSoFar /\ Answered
<1>1. down # Empty
  BY EmptyStream
<1> QED BY <1>1 DEF SessionInv, Phases, Between, Asked, Served, Answered, Receiving, Lost

\* The line that is read is the answer, and the file is left behind it.
LEMMA AnswerInStream ==
  ASSUME SessionInv, client = "reading answer", Readable(down)
  PROVE  /\ asked \in 1..Len(Requests)
         /\ Rest(down, LineLength(down)) \in Streams
         /\ HasLine(down) =>
              /\ LineLength(down) = 2
              /\ Taken(down, 2) = Answer(asked)
              /\ Content(Rest(down, 2)) = Body(asked)
              /\ Requests[asked].op = "video" =>
                   (down.ready[1].what = "can't" <=> ~HasFile(asked))
              /\ HasFile(asked) => down.ready[1].n = Size(asked)
<1>1. FileTransferTypeOK /\ Answered /\ down \in Streams
  BY ReadingIsAnswered, Types
<1>2. asked \in 1..Len(Requests)
  BY <1>1, Types DEF Answered
<1>3. PICK a \in Bytes :
        /\ a # NewLine /\ Answer(asked) = <<a, NewLine>>
        /\ Requests[asked].op = "video" => (a.what = "can't" <=> ~HasFile(asked))
        /\ HasFile(asked) => a.n = Size(asked)
  BY <1>2, AnswerBytes
<1>4. Body(asked) \in Seq(Bytes)
  <2>1. CASE HasFile(asked)
    <3>1. input \in Nat
      BY <1>1, Types
    <3>2. 0 <= input
      BY <3>1, NatFacts
    <3> QED BY <2>1, <3>1, <3>2, <1>2, FileBytes DEF Body
  <2>2. CASE ~HasFile(asked)
    BY <2>2, EmptySeq DEF Body
  <2> QED BY <2>1, <2>2
<1>5. Content(down) = <<a, NewLine>> \o Body(asked)
  BY <1>1, <1>3 DEF Answered
<1>6. /\ Rest(down, LineLength(down)) \in Streams
      /\ HasLine(down) =>
           /\ LineLength(down) = 2 /\ Taken(down, 2) = <<a, NewLine>>
           /\ down.ready[1] = a /\ Content(Rest(down, 2)) = Body(asked)
  BY <1>1, <1>3, <1>4, <1>5, LineContent
<1> QED BY <1>2, <1>3, <1>6

LEMMA LineTyped ==
  ASSUME SessionInv, client = "reading answer", Readable(down),
         down' = Rest(down, LineLength(down))
  PROVE  down' \in Streams
BY AnswerInStream

LEMMA LineIsAnswer ==
  ASSUME SessionInv, client = "reading answer", Readable(down), HasLine(down)
  PROVE  /\ asked \in 1..Len(Requests) /\ LineLength(down) = 2
         /\ Rest(down, 2) \in Streams
         /\ Taken(down, 2) = Answer(asked)
         /\ Content(Rest(down, 2)) = Body(asked)
         /\ Requests[asked].op = "video" => (down.ready[1].what = "can't" <=> ~HasFile(asked))
         /\ HasFile(asked) => down.ready[1].n = Size(asked)
BY AnswerInStream

\* NextRequest.
LEMMA NextAsked ==
  ASSUME FileTransferTypeOK, asked <= Len(Requests), asked' = asked + 1
  PROVE  /\ (asked \in 1..(Len(Requests) + 1))'
         /\ \A r \in 1..Len(Requests) : r < asked' <=> (r < asked \/ r = asked)
         /\ \A r \in 1..Len(Requests) : r >= asked' => r > asked
<1> DEFINE len == Len(Requests)
<1>1. asked \in Nat /\ asked >= 1 /\ len \in Nat /\ asked <= len
  BY Types
<1>2. len' = len
  OBVIOUS
<1> HIDE DEF len
<1>3. (asked \in 1..(len + 1))'
  BY <1>1, <1>2
<1>4. \A r \in 1..len : r < asked' <=> (r < asked \/ r = asked)
  BY <1>1
<1>5. \A r \in 1..len : r >= asked' => r > asked
  BY <1>1
<1> QED BY <1>3, <1>4, <1>5 DEF len

LEMMA NatRange == \A n, r : r \in 1..n => r \in Nat
OBVIOUS

LEMMA OutputByRequest ==
  ASSUME FileTransferTypeOK, asked <= Len(Requests), asked' = asked + 1,
         \A r \in 1..Len(Requests) : /\ r < asked' => output'[r] = Expected(r)
                                     /\ r >= asked' => output'[r] = <<>>
  PROVE  OutputSoFar'
<1>1. asked' \in Nat
  BY Types
<1>2. \A r \in Nat : (r > asked' \/ r = asked') => r >= asked'
  BY <1>1
<1>3. \A r \in 1..Len(Requests) : r \in Nat
  OBVIOUS
<1>4. \A r \in 1..Len(Requests) : r = asked' => r >= asked'
  BY <1>2, <1>3
<1>5. \A r \in 1..Len(Requests) : r > asked' => r >= asked'
  BY <1>2, <1>3
<1>6. \A r \in 1..Len(Requests) :
        /\ r < asked' => output'[r] = Expected(r)
        /\ r > asked' => output'[r] = <<>>
        /\ r = asked' => output'[r] = <<>>
  <2> TAKE r \in 1..Len(Requests)
  <2> DEFINE before == r < asked'
             from   == r >= asked'
  <2>1. /\ before => output'[r] = Expected(r)
        /\ from => output'[r] = <<>>
    OBVIOUS
  <2>2. (r > asked' => from) /\ (r = asked' => from)
    BY <1>4, <1>5
  <2> QED BY <2>1, <2>2
<1> QED BY <1>6 DEF OutputSoFar, Expected

\* When an answer without a file is read, nothing is left of it.
LEMMA NothingBehindLine ==
  ASSUME SessionInv, client = "reading answer", Readable(down), HasLine(down),
         ~HasFile(asked), NextRequest, down' = Rest(down, LineLength(down)),
         UNCHANGED <<serverVars, up>>
  PROVE  Between'
<1>1. Answered /\ Content(Rest(down, 2)) = <<>> /\ Rest(down, 2) \in Streams /\ LineLength(down) = 2
  BY ReadingIsAnswered, LineIsAnswer DEF Body
<1>2. down' = Empty
  BY <1>1, EmptyStream
<1>3. up = Empty /\ server = "listening"
  BY <1>1 DEF Answered, ServerAhead
<1> QED BY <1>2, <1>3 DEF Between, ServerDone, NextRequest, serverVars, Empty

LEMMA ClientGetsResultStep ==
  ASSUME SessionInv, ClientGetsResult PROVE SessionInv'
<1> USE DEF ClientGetsResult, ClientReadsLine
<1>1. FileTransferTypeOK /\ OutputSoFar /\ Answered
  BY ReadingIsAnswered
<1>2. /\ asked \in 1..Len(Requests) /\ LineLength(down) = 2
      /\ Taken(down, 2) = Answer(asked) /\ Rest(down, 2) \in Streams
  BY LineIsAnswer
<1>3. Requests[asked].op = "calculate" /\ ~HasFile(asked)
  BY DEF HasFile
<1>4. Between'
  BY <1>3, NothingBehindLine
<1>5. output' = [output EXCEPT ![asked] = Answer(asked)]
  BY <1>2
<1>6. Answer(asked) \in Seq(Bytes) /\ Answer(asked) = Expected(asked)
  BY <1>2, <1>3, AnswerBytes DEF Expected
<1>7. asked' = asked + 1 /\ asked <= Len(Requests) /\ client' = "asking"
  BY <1>1 DEF Answered, NextRequest
<1>8. output \in [1..Len(Requests) -> Seq(Bytes)]
  BY <1>1, Types
<1>9. FileTransferTypeOK'
  <2>1. (asked \in 1..(Len(Requests) + 1))'
    BY <1>1, <1>7, NextAsked
  <2>2. output' \in [1..Len(Requests) -> Seq(Bytes)]
    BY <1>5, <1>6, <1>8
  <2>3. down' \in Streams
    BY <1>2
  <2> QED BY <1>1, <1>7, <2>1, <2>2, <2>3 DEF FileTransferTypeOK, Streams, serverVars
<1>10. OutputSoFar'
  <2> SUFFICES ASSUME NEW r \in 1..Len(Requests)
               PROVE  /\ r < asked' => output'[r] = Expected(r)
                      /\ r >= asked' => output'[r] = <<>>
    BY <1>1, <1>7, OutputByRequest
  <2>1. r < asked' <=> (r < asked \/ r = asked)
    BY <1>1, <1>7, NextAsked
  <2>2. r >= asked' => r > asked
    BY <1>1, <1>7, NextAsked
  <2>3. output'[r] = IF r = asked THEN Expected(r) ELSE output[r]
    BY <1>2, <1>5, <1>6, <1>8
  <2>4. /\ r < asked => output[r] = Expected(r)
        /\ r > asked => output[r] = <<>>
    BY <1>1 DEF OutputSoFar
  <2>5. r \in Nat /\ asked \in Nat
    <3>1. r \in Nat
      BY NatRange
    <3> QED BY <3>1, <1>1, Types
  <2>6. r > asked => r # asked
    BY <2>5, NatFacts
  <2> QED BY <2>1, <2>2, <2>3, <2>4, <2>6
<1> QED BY <1>4, <1>9, <1>10 DEF SessionInv, Phases

LEMMA ClientGetsExcuseStep ==
  ASSUME SessionInv, ClientGetsExcuse PROVE SessionInv'
<1> USE DEF ClientGetsExcuse, ClientReadsLine
<1>1. FileTransferTypeOK /\ OutputSoFar /\ Answered
  BY ReadingIsAnswered
<1>2. /\ asked \in 1..Len(Requests) /\ LineLength(down) = 2 /\ Rest(down, 2) \in Streams
      /\ ~HasFile(asked) /\ Requests[asked].op # "calculate"
  BY LineIsAnswer
<1>3. Between'
  BY <1>2, NothingBehindLine
<1>4. asked' = asked + 1 /\ asked <= Len(Requests) /\ client' = "asking"
  BY <1>1 DEF Answered, NextRequest
<1>5. FileTransferTypeOK'
  <2>1. (asked \in 1..(Len(Requests) + 1))'
    BY <1>1, <1>4, NextAsked
  <2> QED BY <1>1, <1>2, <1>4, <2>1 DEF FileTransferTypeOK, Streams, serverVars
<1>6. OutputSoFar'
  <2> SUFFICES ASSUME NEW r \in 1..Len(Requests)
               PROVE  /\ r < asked' => output'[r] = Expected(r)
                      /\ r >= asked' => output'[r] = <<>>
    BY <1>1, <1>4, OutputByRequest
  <2>1. r < asked' <=> (r < asked \/ r = asked)
    BY <1>1, <1>4, NextAsked
  <2>2. r >= asked' => r > asked
    BY <1>1, <1>4, NextAsked
  <2>3. /\ r < asked => output[r] = Expected(r)
        /\ r > asked => output[r] = <<>>
        /\ r = asked => output[r] = <<>>
    BY <1>1 DEF OutputSoFar, Answered
  <2>4. Expected(asked) = <<>>
    BY <1>2 DEF Expected
  <2> QED BY <2>1, <2>2, <2>3, <2>4
<1> QED BY <1>3, <1>5, <1>6 DEF SessionInv, Phases

LEMMA ClientGetsSizeStep ==
  ASSUME SessionInv, ClientGetsSize PROVE SessionInv'
<1> USE DEF ClientGetsSize, ClientReadsLine
<1>1. FileTransferTypeOK /\ OutputSoFar /\ Answered
  BY ReadingIsAnswered
<1>2. /\ asked \in 1..Len(Requests) /\ LineLength(down) = 2 /\ Rest(down, 2) \in Streams
      /\ HasFile(asked) /\ down.ready[1].n = Size(asked)
      /\ Content(Rest(down, 2)) = Body(asked)
  BY LineIsAnswer
<1>3. Size(asked) \in Nat
  BY <1>2, RequestTypes
<1>4. /\ client' = "receiving" /\ file_size' = Size(asked) /\ down' = Rest(down, 2)
      /\ UNCHANGED <<asked, output, serverVars, up>>
  BY <1>2
<1>5. FileTransferTypeOK'
  BY <1>1, <1>2, <1>3, <1>4 DEF FileTransferTypeOK, Streams, serverVars
<1>6. OutputSoFar'
  BY <1>1, <1>4 DEF OutputSoFar, Expected
<1>7. Receiving'
  <2>1. ServerAhead' /\ asked' = asked /\ asked <= Len(Requests) /\ input \in Nat
    BY <1>1, <1>4, Types DEF Answered, ServerAhead, serverVars
  <2>2. Size(asked) - file_size' = 0 /\ file_size' \in 0..Size(asked)
    BY <1>3, <1>4, NatFacts
  <2>3. output'[asked] = File(asked, 0, 0)
    BY <1>1, <1>2, <1>4, NoFileBytes DEF OutputSoFar, Answered
  <2>4. Content(down') = File(asked, 0, input)
    BY <1>2, <1>4 DEF Body
  <2>5. input' = input /\ 0 <= input
    BY <1>4, <2>1, NatFacts DEF serverVars
  <2> QED BY <1>2, <1>4, <2>1, <2>2, <2>3, <2>4, <2>5 DEF Receiving, Size
<1> QED BY <1>5, <1>6, <1>7 DEF SessionInv, Phases

LEMMA ClientHangsStep ==
  ASSUME SessionInv, ClientHangs PROVE SessionInv'
<1>1. FileTransferTypeOK /\ OutputSoFar /\ Answered
  BY ReadingIsAnswered DEF ClientHangs
<1>2. down' \in Streams
  BY LineTyped DEF ClientHangs
<1>3. /\ client' = "hanging" /\ asked <= Len(Requests) /\ ServerAhead
      /\ UNCHANGED <<asked, file_size, output, serverVars, up>>
  BY <1>1 DEF ClientHangs, Answered
<1>4. FileTransferTypeOK'
  BY <1>1, <1>2, <1>3 DEF FileTransferTypeOK, Streams, serverVars
<1>5. OutputSoFar'
  BY <1>1, <1>3 DEF OutputSoFar, Expected, Answered
<1>6. Lost'
  BY <1>3 DEF Lost, ServerAhead, serverVars
<1> QED BY <1>4, <1>5, <1>6 DEF SessionInv, Phases

\* What recv() takes while the file comes is the next part of the file.
LEMMA FileTaken ==
  ASSUME NEW s \in Streams, NEW r \in 1..Len(Requests), NEW a \in Nat, NEW b \in Nat,
         a <= b, Content(s) = File(r, a, b), NEW n \in 0..Len(s.ready)
  PROVE  /\ n \in Nat /\ a + n \in Nat /\ a <= a + n /\ a + n <= b
         /\ Taken(s, n) = File(r, a, a + n)
         /\ Rest(s, n) \in Streams /\ Content(Rest(s, n)) = File(r, a + n, b)
<1> DEFINE x == Taken(s, n)
           y == Content(Rest(s, n))
           f == File(r, a, b)
<1>1. /\ x \in Seq(Bytes) /\ Len(x) = n /\ Rest(s, n) \in Streams
      /\ f = x \o y
  BY TakenContent
<1>2. y \in Seq(Bytes)
  BY <1>1, ConcatProperties DEF Content, Streams
<1>3. f \in Seq(Bytes) /\ Len(f) = b - a
  BY FileBytes
<1> HIDE DEF x, y, f
<1>4. Len(f) = Len(x) + Len(y) /\ Len(y) \in Nat
  <2>1. x \in Seq(Bytes) /\ y \in Seq(Bytes)
    BY <1>1, <1>2
  <2>2. Len(x \o y) = Len(x) + Len(y)
    BY <2>1, ConcatProperties
  <2> QED BY <2>1, <2>2, <1>1, LenProperties
<1>5. n \in Nat
  BY NatFacts
<1>6. a + n \in Nat /\ a <= a + n /\ a + n <= b
  BY <1>1, <1>3, <1>4, <1>5
<1> DEFINE u == File(r, a, a + n)
           v == File(r, a + n, b)
<1>7. u \in Seq(Bytes) /\ Len(u) = (a + n) - a /\ v \in Seq(Bytes)
  BY <1>6, FileBytes
<1>8. u \o v = f
  BY <1>6, FileParts DEF f
<1> HIDE DEF u, v
<1>9. Len(u) = Len(x)
  BY <1>1, <1>5, <1>7
<1>10. x \o y = u \o v
  BY <1>1, <1>8
<1>11. x = u /\ y = v
  <2>1. x \in Seq(Bytes) /\ y \in Seq(Bytes) /\ u \in Seq(Bytes) /\ v \in Seq(Bytes)
    BY <1>1, <1>2, <1>7
  <2> QED BY <2>1, <1>9, <1>10, SameRest
<1> QED BY <1>1, <1>5, <1>6, <1>11 DEF x, y, u, v

LEMMA OutputStays ==
  ASSUME OutputSoFar, UNCHANGED <<asked, output>>,
         client' = "receiving" \/ client # "receiving"
  PROVE  OutputSoFar'
BY DEF OutputSoFar, Expected

LEMMA ReceivingPhase ==
  ASSUME SessionInv, client = "receiving"
  PROVE  FileTransferTypeOK /\ OutputSoFar /\ Receiving
BY DEF SessionInv, Phases, Between, Asked, Served, Answered, Receiving, Lost

LEMMA ReceivedSizes ==
  ASSUME NEW size \in Nat, NEW rest \in 0..size, NEW n \in 0..rest
  PROVE  /\ size - rest \in Nat /\ rest - n \in 0..size /\ rest - n \in Nat
         /\ size - (rest - n) = (size - rest) + n
OBVIOUS

LEMMA ClientReceivesStep ==
  ASSUME SessionInv, ClientReceives PROVE SessionInv'
<1>1. FileTransferTypeOK /\ OutputSoFar /\ Receiving
  BY ReceivingPhase DEF ClientReceives
<1>2. /\ asked \in 1..Len(Requests) /\ down \in Streams /\ input \in Nat
      /\ output \in [1..Len(Requests) -> Seq(Bytes)]
  BY <1>1, Types DEF Receiving
<1> DEFINE n == SmallerOf(Wanted, Len(down.ready))
           size == Size(asked)
           got == size - file_size
<1>3. size \in Nat /\ file_size \in 0..size /\ got <= input
  BY <1>1, <1>2, RequestTypes DEF Receiving
<1>4. n \in 0..file_size /\ n \in 0..Len(down.ready)
  <2>1. Len(down.ready) \in Nat
    BY <1>2, LenProperties DEF Streams
  <2>2. file_size \in Nat /\ Chunk \in Nat
    BY <1>1, Types, FileTransferAssumption
  <2>3. \A c, f, l \in Nat :
          /\ SmallerOf(SmallerOf(c, f), l) \in 0..f
          /\ SmallerOf(SmallerOf(c, f), l) \in 0..l
    BY DEF SmallerOf
  <2> QED BY <2>1, <2>2, <2>3 DEF Wanted
<1>5. /\ file_size' = file_size - n /\ down' = Rest(down, n)
      /\ output' = [output EXCEPT ![asked] = output[asked] \o Taken(down, n)]
      /\ UNCHANGED <<client, asked, serverVars, up>>
  BY DEF ClientReceives, SizeAfter
<1> HIDE DEF n
<1>6. /\ got \in Nat /\ file_size' \in 0..size /\ file_size' \in Nat
      /\ size - file_size' = got + n
  BY <1>3, <1>4, <1>5, ReceivedSizes
<1>7. Content(down) = File(asked, got, input) /\ output[asked] = File(asked, 0, got)
  BY <1>1 DEF Receiving
<1> HIDE DEF got
<1>8. /\ n \in Nat /\ got + n \in Nat /\ got <= got + n /\ got + n <= input
      /\ Taken(down, n) = File(asked, got, got + n)
      /\ down' \in Streams /\ Content(down') = File(asked, got + n, input)
  BY <1>2, <1>3, <1>4, <1>5, <1>6, <1>7, FileTaken DEF got
<1>9. output'[asked] = File(asked, 0, got + n)
  <2>1. output'[asked] = File(asked, 0, got) \o File(asked, got, got + n)
    BY <1>2, <1>5, <1>7, <1>8
  <2>2. 0 <= got
    BY <1>6, NatFacts
  <2>3. File(asked, 0, got) \o File(asked, got, got + n) = File(asked, 0, got + n)
    BY <1>2, <1>6, <1>8, <2>2, FileParts
  <2> QED BY <2>1, <2>3
<1>10. File(asked, 0, got + n) \in Seq(Bytes)
  <2>1. 0 <= got + n
    BY <1>8, NatFacts
  <2> QED BY <1>2, <1>8, <2>1, FileBytes
<1>11. output' \in [1..Len(Requests) -> Seq(Bytes)]
  BY <1>2, <1>5, <1>9, <1>10
<1>12. FileTransferTypeOK'
  BY <1>1, <1>5, <1>6, <1>8, <1>11 DEF FileTransferTypeOK, Streams, serverVars
<1>13. OutputSoFar'
  <2>1. client' = "receiving" /\ asked' = asked
    BY <1>1, <1>5 DEF Receiving
  <2>2. \A r \in 1..Len(Requests) : r # asked => output'[r] = output[r]
    BY <1>2, <1>5
  <2>3. \A r \in 1..Len(Requests) : (r < asked => r # asked) /\ (r > asked => r # asked)
    BY NatRange, NatFacts, <1>2
  <2> QED BY <1>1, <2>1, <2>2, <2>3 DEF OutputSoFar, Expected
<1>14. Receiving'
  BY <1>1, <1>5, <1>6, <1>8, <1>9 DEF Receiving, ServerAhead, serverVars, Size
<1> QED BY <1>12, <1>13, <1>14 DEF SessionInv, Phases

LEMMA ClientClosesStep ==
  ASSUME SessionInv, ClientCloses PROVE SessionInv'
<1>1. FileTransferTypeOK /\ OutputSoFar /\ Receiving /\ down \in Streams
  BY ReceivingPhase, Types DEF ClientCloses
<1>2. /\ asked \in 1..Len(Requests) /\ asked <= Len(Requests)
      /\ asked' = asked + 1 /\ client' = "asking" /\ file_size = 0
      /\ UNCHANGED <<file_size, output, serverVars, up, down>>
  BY <1>1, Types DEF ClientCloses, Receiving, NextRequest
<1>3. Size(asked) \in Nat /\ HasFile(asked)
  BY <1>1, <1>2, RequestTypes DEF Receiving
<1> DEFINE size == Size(asked)
<1>4. size - file_size = size
  BY <1>2, <1>3
<1>5. input = size /\ server \in {"sending", "listening"} /\ up = Empty /\ serving = asked
  <2>1. input \in 0..size /\ size <= input
    BY <1>1, <1>4 DEF Receiving, ServerAhead
  <2>2. input = size
    BY <1>3, <2>1
  <2> QED BY <1>1, <1>3, <2>2 DEF Receiving, ServerAhead
<1>6. down = Empty
  <2>1. Content(down) = File(asked, size, size)
    BY <1>1, <1>4, <1>5 DEF Receiving
  <2> QED BY <1>1, <1>2, <1>3, <2>1, NoFileBytes, EmptyStream
<1>7. FileTransferTypeOK'
  <2>1. (asked \in 1..(Len(Requests) + 1))'
    BY <1>1, <1>2, NextAsked
  <2> QED BY <1>1, <1>2, <2>1 DEF FileTransferTypeOK, serverVars
<1>8. OutputSoFar'
  <2>1. output[asked] = Expected(asked)
    <3>1. output[asked] = File(asked, 0, size - file_size)
      BY <1>1 DEF Receiving
    <3>2. Expected(asked) = File(asked, 0, size)
      <4>1. Requests[asked].op = "video"
        BY <1>2, <1>3, RequestTypes
      <4> QED BY <1>3, <4>1 DEF Expected
    <3> HIDE DEF size
    <3> QED BY <3>1, <3>2, <1>4
  <2> SUFFICES ASSUME NEW r \in 1..Len(Requests)
               PROVE  /\ r < asked' => output'[r] = Expected(r)
                      /\ r >= asked' => output'[r] = <<>>
    BY <1>1, <1>2, OutputByRequest
  <2>2. r < asked' <=> (r < asked \/ r = asked)
    BY <1>1, <1>2, NextAsked
  <2>3. r >= asked' => r > asked
    BY <1>1, <1>2, NextAsked
  <2>4. /\ r < asked => output[r] = Expected(r)
        /\ r > asked => output[r] = <<>>
    BY <1>1 DEF OutputSoFar
  <2> QED BY <1>2, <2>1, <2>2, <2>3, <2>4
<1>9. Between'
  BY <1>2, <1>3, <1>5, <1>6 DEF Between, ServerDone, serverVars, Empty, HasFile, Size
<1> QED BY <1>7, <1>8, <1>9 DEF SessionInv, Phases

\* The server reads the request: the client has sent nothing else.
LEMMA RequestInStream ==
  ASSUME SessionInv, server = "listening", Readable(up)
  PROVE  /\ FileTransferTypeOK /\ OutputSoFar /\ Asked
         /\ Rest(up, LineLength(up)) \in Streams
         /\ HasLine(up) => /\ Rest(up, LineLength(up)) = Empty
                           /\ up.ready[1].of = asked
<1>1. up # Empty
  BY EmptyStream
<1>2. FileTransferTypeOK /\ OutputSoFar /\ Asked /\ up \in Streams
  BY <1>1, Types DEF SessionInv, Phases, Between, Asked, Served, Answered, Receiving,
     Lost, ServerAhead
<1>3. asked \in 1..Len(Requests)
  BY <1>2, Types DEF Asked
<1> DEFINE a == Byte("request", asked, 0)
<1>4. /\ Line("request", asked, 0) = <<a, NewLine>> /\ a \in Bytes /\ a # NewLine
      /\ a.of = asked /\ Line("request", asked, 0) \in Seq(Bytes)
  BY <1>3, LineBytes
<1> HIDE DEF a
<1>5. <<>> \in Seq(Bytes)
  BY EmptySeq
<1>6. Content(up) = <<a, NewLine>> \o <<>>
  <2>1. Content(up) = Line("request", asked, 0)
    BY <1>2 DEF Asked
  <2>2. Line("request", asked, 0) \o <<>> = Line("request", asked, 0)
    BY <1>4, ConcatEmptySeq
  <2> QED BY <2>1, <2>2, <1>4
<1>7. /\ Rest(up, LineLength(up)) \in Streams
      /\ HasLine(up) => /\ LineLength(up) = 2 /\ up.ready[1] = a
                        /\ Content(Rest(up, 2)) = <<>>
  BY <1>2, <1>4, <1>5, <1>6, LineContent
<1>8. HasLine(up) => Rest(up, LineLength(up)) = Empty
  BY <1>7, EmptyStream
<1> QED BY <1>2, <1>4, <1>7, <1>8

LEMMA ServerReadsStep ==
  ASSUME SessionInv, ServerReads PROVE SessionInv'
<1>1. /\ FileTransferTypeOK /\ OutputSoFar /\ Asked
      /\ up' = Empty /\ serving' = asked /\ server' = "answering"
      /\ UNCHANGED <<input, clientVars, down>>
  BY RequestInStream DEF ServerReads
<1>2. asked \in 0..Len(Requests)
  <2>1. asked \in 1..Len(Requests)
    BY <1>1, Types DEF Asked
  <2> QED BY <2>1
<1>3. FileTransferTypeOK'
  BY <1>1, <1>2, EmptyStream DEF FileTransferTypeOK, Streams, clientVars
<1>4. OutputSoFar'
  BY <1>1, OutputStays DEF clientVars, Asked
<1>5. Served'
  BY <1>1 DEF Asked, Served, clientVars, Empty
<1> QED BY <1>3, <1>4, <1>5 DEF SessionInv, Phases

LEMMA ServerHangsStep ==
  ASSUME SessionInv, ServerHangs PROVE SessionInv'
<1>1. /\ FileTransferTypeOK /\ OutputSoFar /\ Asked
      /\ up' \in Streams /\ server' = "hanging"
      /\ UNCHANGED <<serving, input, clientVars, down>>
  BY RequestInStream DEF ServerHangs
<1>2. FileTransferTypeOK'
  BY <1>1 DEF FileTransferTypeOK, Streams, clientVars
<1>3. OutputSoFar'
  BY <1>1, OutputStays DEF clientVars, Asked
<1>4. Lost'
  BY <1>1 DEF Asked, Lost, clientVars, Empty
<1> QED BY <1>2, <1>3, <1>4 DEF SessionInv, Phases

LEMMA ServerAnswersStep ==
  ASSUME SessionInv, ServerAnswers PROVE SessionInv'
<1>1. /\ FileTransferTypeOK /\ OutputSoFar /\ Served
      /\ down' = Sent(down, Answer(asked)) /\ input' = 0
      /\ server' = (IF HasFile(asked) THEN "sending" ELSE "listening")
      /\ UNCHANGED <<serving, clientVars, up>>
  BY DEF ServerAnswers, SessionInv, Phases, Between, Asked, Served, Answered,
     Receiving, Lost, ServerDone, ServerAhead
<1>2. asked \in 1..Len(Requests) /\ down = Empty /\ down \in Streams
  BY <1>1, Types DEF Served
<1>3. Answer(asked) \in Seq(Bytes)
  BY <1>2, AnswerBytes
<1>4. down' \in Streams /\ Content(down') = Answer(asked)
  <2>1. down' \in Streams /\ Content(down') = Content(down) \o Answer(asked)
    BY <1>1, <1>2, <1>3, SentContent
  <2>2. Content(down) = <<>>
    BY <1>2, EmptyStream
  <2> QED BY <2>1, <2>2, <1>3, ConcatEmptySeq
<1>5. Body(asked)' = <<>>
  <2>1. File(asked, 0, 0) = <<>>
    BY <1>2, NoFileBytes
  <2> QED BY <1>1, <2>1 DEF Body, clientVars, HasFile, Size
<1>6. FileTransferTypeOK'
  BY <1>1, <1>4 DEF FileTransferTypeOK, Streams, clientVars
<1>7. OutputSoFar'
  BY <1>1, OutputStays DEF clientVars, Served
<1>8. ServerAhead'
  <2>1. HasFile(asked) => 0 \in 0..Size(asked)
    BY <1>2, RequestTypes
  <2> QED BY <1>1, <2>1 DEF ServerAhead, Served, clientVars, Empty, HasFile, Size
<1>9. Content(down') = Answer(asked) \o Body(asked)'
  BY <1>3, <1>4, <1>5, ConcatEmptySeq
<1>10. Answered'
  BY <1>1, <1>8, <1>9 DEF Answered, Served, clientVars, Answer, Size
<1> QED BY <1>6, <1>7, <1>10 DEF SessionInv, Phases
-----------------------------------------------------------------------------
\* A chunk that does not reach the end of the file is full.
LEMMA ChunkSize ==
  ASSUME NEW size \in Nat, NEW i \in 0..size
  PROVE  LET n == SmallerOf(Chunk, size - i)
         IN  /\ n \in Nat /\ i + n \in 0..size /\ i + n \in Nat /\ i <= i + n
             /\ Eof(n) => i + n = size
             /\ i = size => n = 0 /\ Eof(n) /\ i + n = i
<1>1. Chunk \in Nat /\ Chunk > 0
  BY FileTransferAssumption
<1> QED BY <1>1 DEF SmallerOf, Eof

\* Where the server is when it sends.
LEMMA SendingPhase ==
  ASSUME SessionInv, server = "sending"
  PROVE  /\ FileTransferTypeOK /\ OutputSoFar
         /\ serving \in 1..Len(Requests) /\ HasFile(serving)
         /\ Size(serving) \in Nat /\ input \in 0..Size(serving)
         /\ \/ (Between \/ Asked) /\ input = Size(serving)
            \/ (Answered \/ Receiving \/ (Lost /\ client = "hanging")) /\ ServerAhead
<1>1. FileTransferTypeOK /\ OutputSoFar
  BY DEF SessionInv
<1>2. CASE Between \/ Asked
  <2>1. serving \in 1..Len(Requests) /\ HasFile(serving) /\ input = Size(serving)
    BY <1>2 DEF Between, Asked, ServerDone
  <2>2. Size(serving) \in Nat
    BY <2>1, RequestTypes
  <2> QED BY <1>1, <1>2, <2>1, <2>2, NatFacts
<1>3. CASE Answered \/ Receiving \/ (Lost /\ client = "hanging")
  <2>1. ServerAhead /\ asked <= Len(Requests)
    BY <1>3 DEF Answered, Receiving, Lost
  <2>2. asked \in 1..Len(Requests)
    BY <1>1, <2>1, Types
  <2>3. serving = asked /\ HasFile(asked) /\ input \in 0..Size(asked)
    BY <2>1 DEF ServerAhead
  <2>4. Size(serving) \in Nat
    BY <2>2, <2>3, RequestTypes
  <2> QED BY <1>1, <1>3, <2>1, <2>2, <2>3, <2>4
<1> QED BY <1>2, <1>3 DEF SessionInv, Phases, Served, Lost

LEMMA ServerSendsStep ==
  ASSUME SessionInv, ServerSends PROVE SessionInv'
<1>1. /\ FileTransferTypeOK /\ OutputSoFar
      /\ serving \in 1..Len(Requests) /\ HasFile(serving)
      /\ Size(serving) \in Nat /\ input \in 0..Size(serving)
      /\ \/ (Between \/ Asked) /\ input = Size(serving)
         \/ (Answered \/ Receiving \/ (Lost /\ client = "hanging")) /\ ServerAhead
  BY SendingPhase DEF ServerSends
<1>2. down \in Streams /\ input \in Nat
  BY <1>1, Types
<1> DEFINE size == Size(serving)
           n == SmallerOf(Chunk, size - input)
           chunk == File(serving, input, input + n)
<1>3. /\ n \in Nat /\ input + n \in 0..size /\ input + n \in Nat /\ input <= input + n
      /\ Eof(n) => input + n = size
      /\ input = size => n = 0 /\ Eof(n) /\ input + n = input
  BY <1>1, ChunkSize
<1>4. /\ down' = Sent(down, chunk) /\ input' = input + n
      /\ server' = (IF Eof(n) THEN "listening" ELSE "sending")
      /\ UNCHANGED <<serving, clientVars, up>>
  BY DEF ServerSends
<1>5. chunk \in Seq(Bytes)
  BY <1>1, <1>2, <1>3, FileBytes
<1> HIDE DEF n
<1>6. down' \in Streams /\ Content(down') = Content(down) \o chunk
  BY <1>2, <1>4, <1>5, SentContent
<1>7. FileTransferTypeOK'
  BY <1>1, <1>3, <1>4, <1>6 DEF FileTransferTypeOK, Streams, clientVars
<1>8. OutputSoFar'
  BY <1>1, <1>4, OutputStays DEF clientVars
<1>9. CASE (Between \/ Asked) /\ input = size
  <2>1. n = 0 /\ Eof(n) /\ input + n = input
    BY <1>3, <1>9
  <2>2. chunk = <<>>
    BY <2>1, <1>1, <1>2, NoFileBytes
  <2>3. down = Empty
    BY <1>9 DEF Between, Asked
  <2>4. Content(down') = <<>>
    <3>1. Content(down) = <<>>
      BY <2>3, EmptyStream
    <3>2. <<>> \o <<>> = <<>>
      BY EmptySeq, ConcatEmptySeq
    <3> QED BY <1>6, <2>2, <3>1, <3>2
  <2>5. down' = Empty
    BY <1>6, <2>4, EmptyStream
  <2>6. server' = "listening"
    BY <1>4, <2>1
  <2>7. Between' \/ Asked'
    BY <1>4, <1>9, <2>5, <2>6 DEF Between, Asked, ServerDone, clientVars, Empty
  <2> QED BY <1>7, <1>8, <2>7 DEF SessionInv, Phases
<1>10. CASE (Answered \/ Receiving \/ (Lost /\ client = "hanging")) /\ ServerAhead
  <2>1. serving = asked /\ up = Empty /\ asked <= Len(Requests)
    BY <1>10 DEF ServerAhead, Answered, Receiving, Lost
  <2>2. ServerAhead'
    <3>1. asked' = asked /\ up' = Empty /\ serving' = asked
      BY <1>4, <2>1 DEF clientVars
    <3>2. input' \in 0..Size(asked) /\ HasFile(asked)
      BY <1>1, <1>3, <1>4, <2>1
    <3>3. server' = "sending" \/ (server' = "listening" /\ input' = Size(asked))
      BY <1>3, <1>4, <2>1
    <3> QED BY <3>1, <3>2, <3>3 DEF ServerAhead, Empty, HasFile, Size
  <2>3. CASE Answered
    <3> DEFINE old == File(asked, 0, input)
               new == File(asked, 0, input + n)
               answer == Answer(asked)
    <3>1. 0 <= input
      BY <1>2, NatFacts
    <3>2. old \o chunk = new
      <4>1. File(serving, 0, input) \o File(serving, input, input + n)
              = File(serving, 0, input + n)
        BY <1>1, <1>2, <1>3, <3>1, FileParts
      <4> QED BY <4>1, <2>1
    <3>3. old \in Seq(Bytes) /\ answer \in Seq(Bytes) /\ chunk \in Seq(Bytes)
      BY <1>1, <1>2, <1>5, <2>1, <3>1, FileBytes, AnswerBytes
    <3>4. Content(down) = answer \o old
      BY <1>1, <2>1, <2>3 DEF Answered, Body
    <3> HIDE DEF old, new, chunk, answer
    <3>5. (answer \o old) \o chunk = answer \o (old \o chunk)
      BY <3>3, ConcatAssociative
    <3>6. Content(down') = answer \o new
      BY <1>6, <3>2, <3>4, <3>5
    <3>7. Body(asked)' = new
      BY <1>1, <1>4, <2>1 DEF Body, new, clientVars, HasFile, Size
    <3>8. Answered'
      BY <1>4, <2>2, <2>3, <3>6, <3>7 DEF Answered, answer, clientVars, Answer, Size
    <3> QED BY <1>7, <1>8, <3>8 DEF SessionInv, Phases
  <2>4. CASE Receiving
    <3> DEFINE got == Size(asked) - file_size
               old == File(asked, got, input)
               new == File(asked, got, input + n)
    <3>1. got \in Nat /\ got <= input
      BY <1>1, <2>1, <2>4, ReceivedSizes, NatFacts DEF Receiving
    <3>2. Content(down) = old
      BY <2>4 DEF Receiving
    <3> HIDE DEF got
    <3>3. old \o chunk = new
      <4>1. File(serving, got, input) \o File(serving, input, input + n)
              = File(serving, got, input + n)
        BY <1>1, <1>2, <1>3, <3>1, FileParts
      <4> QED BY <4>1, <2>1
    <3>4. Content(down') = new
      BY <1>6, <3>2, <3>3
    <3>5. got <= input + n
      BY <1>2, <1>3, <3>1
    <3>6. Receiving'
      BY <1>4, <2>2, <2>4, <3>4, <3>5 DEF Receiving, got, clientVars, HasFile, Size
    <3> QED BY <1>7, <1>8, <3>6 DEF SessionInv, Phases
  <2>5. CASE Lost /\ client = "hanging"
    <3>1. Lost'
      BY <1>4, <2>1, <2>2, <2>5 DEF Lost, clientVars
    <3> QED BY <1>7, <1>8, <3>1 DEF SessionInv, Phases
  <2> QED BY <1>10, <2>3, <2>4, <2>5
<1> QED BY <1>1, <1>9, <1>10

LEMMA RequestArrivesStep ==
  ASSUME SessionInv, RequestArrives PROVE SessionInv'
<1>1. PICK n \in Arrivals(up) : up' = Arrive(up, n)
  BY DEF RequestArrives
<1>2. UNCHANGED <<clientVars, serverVars, down>>
  BY DEF RequestArrives
<1>3. FileTransferTypeOK /\ OutputSoFar /\ Phases /\ up \in Streams
  BY Types DEF SessionInv
<1>4. up' \in Streams /\ Content(up') = Content(up) /\ up # Empty
  BY <1>1, <1>3, ArriveContent, EmptyStream
<1>5. FileTransferTypeOK'
  BY <1>2, <1>3, <1>4 DEF FileTransferTypeOK, Streams, clientVars, serverVars
<1>6. OutputSoFar'
  BY <1>2, <1>3, OutputStays DEF clientVars
<1>7. CASE Asked
  <2>1. Asked'
    BY <1>2, <1>4, <1>7 DEF Asked, ServerDone, clientVars, serverVars, Empty
  <2> QED BY <1>5, <1>6, <2>1 DEF SessionInv, Phases
<1>8. CASE Lost
  <2>1. Lost'
    BY <1>2, <1>4, <1>8 DEF Lost, ServerAhead, clientVars, serverVars, Empty
  <2> QED BY <1>5, <1>6, <2>1 DEF SessionInv, Phases
<1> QED BY <1>3, <1>4, <1>7, <1>8 DEF Phases, Between, Served, Answered, Receiving,
           ServerAhead

LEMMA AnswerArrivesStep ==
  ASSUME SessionInv, AnswerArrives PROVE SessionInv'
<1>1. PICK n \in Arrivals(down) : down' = Arrive(down, n)
  BY DEF AnswerArrives
<1>2. UNCHANGED <<clientVars, serverVars, up>>
  BY DEF AnswerArrives
<1>3. FileTransferTypeOK /\ OutputSoFar /\ Phases /\ down \in Streams
  BY Types DEF SessionInv
<1>4. down' \in Streams /\ Content(down') = Content(down) /\ down # Empty
  BY <1>1, <1>3, ArriveContent, EmptyStream
<1>5. FileTransferTypeOK'
  BY <1>2, <1>3, <1>4 DEF FileTransferTypeOK, Streams, clientVars, serverVars
<1>6. OutputSoFar'
  BY <1>2, <1>3, OutputStays DEF clientVars
<1>7. ServerAhead => ServerAhead'
  BY <1>2 DEF ServerAhead, clientVars, serverVars, Empty, HasFile, Size
<1>8. CASE Answered
  <2>1. Answered'
    BY <1>2, <1>4, <1>7, <1>8 DEF Answered, clientVars, serverVars, Answer, Body, HasFile, Size
  <2> QED BY <1>5, <1>6, <2>1 DEF SessionInv, Phases
<1>9. CASE Receiving
  <2>1. Receiving'
    BY <1>2, <1>4, <1>7, <1>9 DEF Receiving, clientVars, serverVars, HasFile, Size
  <2> QED BY <1>5, <1>6, <2>1 DEF SessionInv, Phases
<1>10. CASE Lost
  <2>1. Lost'
    BY <1>2, <1>4, <1>7, <1>10 DEF Lost, clientVars, serverVars
  <2> QED BY <1>5, <1>6, <2>1 DEF SessionInv, Phases
<1> QED BY <1>3, <1>4, <1>8, <1>9, <1>10 DEF Phases, Between, Asked, Served

LEMMA SessionStutters ==
  ASSUME SessionInv, UNCHANGED vars PROVE SessionInv'
<1> USE DEF vars, clientVars, serverVars
<1>1. FileTransferTypeOK' /\ OutputSoFar'
  BY OutputStays DEF SessionInv, FileTransferTypeOK
<1>2. ServerAhead' = ServerAhead /\ ServerDone' = ServerDone
  BY DEF ServerAhead, ServerDone, Empty, HasFile, Size
<1>3. Between' = Between /\ Asked' = Asked /\ Served' = Served
  BY <1>2 DEF Between, Asked, Served, Content, Empty
<1>4. Answered' = Answered /\ Receiving' = Receiving /\ Lost' = Lost
  BY <1>2 DEF Answered, Receiving, Lost, Content, Empty, Body, HasFile, Size, Answer
<1>5. Phases'
  BY <1>3, <1>4 DEF SessionInv, Phases
<1> QED BY <1>1, <1>5 DEF SessionInv
-----------------------------------------------------------------------------
(* The theorems.                                                           *)

\* The inductive invariant: the session goes through its phases.
THEOREM SessionInvariant == Spec => []SessionInv
<1>1. ASSUME SessionInv, [Next]_vars PROVE SessionInv'
  BY <1>1, ClientAsksStep, ClientHangsStep, ClientGetsResultStep, ClientGetsExcuseStep,
     ClientGetsSizeStep, ClientReceivesStep, ClientClosesStep, ServerReadsStep,
     ServerHangsStep, ServerAnswersStep, ServerSendsStep, RequestArrivesStep,
     AnswerArrivesStep, SessionStutters DEF Next, Client, Server
<1> QED BY <1>1, SessionInit, PTL DEF Spec

\* The types of the session's state, for any requests.
THEOREM SessionTypes == Spec => []FileTransferTypeOK
<1>1. SessionInv => FileTransferTypeOK
  BY DEF SessionInv
<1> QED BY <1>1, SessionInvariant, PTL

\* get_video and calculate: every file and every answer comes out whole, whatever
\* is asked for, and wherever the stream is cut.
THEOREM FilesComeWhole == Spec => []FilesIntact
<1>1. SessionInv => FilesIntact
  BY DEF SessionInv, OutputSoFar, FilesIntact
<1> QED BY <1>1, SessionInvariant, PTL

\* Client and server stay in step: nothing of one answer is left for the next.
THEOREM ProgramsInStep == Spec => []InStep
<1>1. SessionInv => InStep
  BY DEF SessionInv, Phases, Between, Asked, Served, Answered, Receiving, Lost,
     ServerDone, InStep
<1> QED BY <1>1, SessionInvariant, PTL
=============================================================================
