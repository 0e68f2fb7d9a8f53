------------------------------ MODULE HttpBody ------------------------------
(***************************************************************************)
(* The reply to one POST (src/src/http.rs): read_headers decides how the   *)
(* body is framed, read_body hands it out read by read.  The server        *)
(* answers correctly but the connection may be closed, or fail, after any  *)
(* part of the answer has arrived.                                         *)
(*                                                                         *)
(* A reply is a sequence of tokens: a line, or one unit of the body.  The  *)
(* connection is cut between two, or within a line: read_line then returns *)
(* the part that came as if it were all.  The text of lines is left out.   *)
(***************************************************************************)
EXTENDS Integers, Sequences, SequencesExt

CONSTANTS
  Replies,    \* what the server may answer
  BufSize     \* the caller's buffer, in units

Header == {"other", "chunked", "content-length"}
\* n: what a line says, or which unit of the body it is.  A size line also
\* has (history) how many units are sent before it.
Token  == [t : Header \cup {"status", "blank", "size", "crlf", "data"}, n : Nat, before : Nat]
Unit(i)  == [t |-> "data", n |-> i, before |-> 0]
Units(n) == [i \in 1..n |-> Unit(i)]

\* padded: the server writes sizes with zeros in front ("000a").
\* A reply is headed by a status line, header lines and, at r.head, a blank.
WellHeaded(r) ==
  /\ r.tokens \in Seq(Token) /\ r.payload \in Nat /\ r.padded \in BOOLEAN
  /\ r.head \in 2..Len(r.tokens)
  /\ r.tokens[1].t = "status" /\ r.tokens[r.head].t = "blank"
  /\ \A k \in 2..(r.head - 1) : r.tokens[k].t \in Header
Announces(r, h) == \E k \in 2..(r.head - 1) : r.tokens[k].t = h

\* The body comes whole, its length announced or up to the close.
Plain(r) ==
  /\ Len(r.tokens) = r.head + r.payload
  /\ \A i \in 1..r.payload : r.tokens[r.head + i] = Unit(i)
  /\ ~Announces(r, "chunked")
  /\ r.framing = "close" => ~Announces(r, "content-length")
  /\ r.framing = "length" =>
       /\ Announces(r, "content-length")
       /\ \A k \in 2..(r.head - 1) : r.tokens[k].t = "content-length" => r.tokens[k].n = r.payload

\* A chunk has as many units as its size says, a CRLF, and another behind it;
\* one of size 0 is the last, and is followed by trailer lines and a blank.
\* The header may have a Content-Length too, with any value.
ChunkAt(r, k) ==
  LET size == r.tokens[k] IN
  IF size.n > 0
  THEN /\ k + size.n + 2 <= Len(r.tokens) /\ size.before + size.n <= r.payload
       /\ \A i \in 1..size.n : r.tokens[k + i] = Unit(size.before + i)
       /\ r.tokens[k + size.n + 1].t = "crlf"
       /\ r.tokens[k + size.n + 2].t = "size"
       /\ r.tokens[k + size.n + 2].before = size.before + size.n
  ELSE /\ size.before = r.payload /\ k < Len(r.tokens)
       /\ \A j \in (k + 1)..(Len(r.tokens) - 1) : r.tokens[j].t = "other"
       /\ r.tokens[Len(r.tokens)].t = "blank"
Chunked(r) ==
  /\ Announces(r, "chunked")
  /\ r.head < Len(r.tokens)
  /\ r.tokens[r.head + 1].t = "size" /\ r.tokens[r.head + 1].before = 0
  /\ \A k \in (r.head + 1)..Len(r.tokens) : r.tokens[k].t = "size" => ChunkAt(r, k)

ASSUME HttpAssumption ==
  /\ BufSize \in Nat \ {0}
  /\ \A r \in Replies : /\ WellHeaded(r) /\ r.framing \in {"length", "chunked", "close"}
                       /\ IF r.framing = "chunked" THEN Chunked(r) ELSE Plain(r)

VARIABLES
  reply,      \* the server's answer
  arrives,    \* how many of its tokens arrive whole
  end,        \* and then: "open", "closed", "torn" (closed within the next
              \* token, a line) or "error"
  pos,        \* how many have been read
  pc,         \* "status", "headers", "body", "trailer", "done", "failed"
  kind,       \* BodyKind, as read from the headers
  remainingTotal, remainingInChunk,
  body        \* what the caller has been given

server == <<reply, arrives, end>>
vars   == <<server, pos, pc, kind, remainingTotal, remainingInChunk, body>>

NoTotal == -1   \* remaining_total: None
Whole   == arrives = Len(reply.tokens)
Part    == reply.tokens[arrives + 1]   \* the line a torn connection ends in
Closed  == end \in {"closed", "torn"}

Init ==
  /\ reply \in Replies /\ arrives \in 0..Len(reply.tokens)
  /\ end \in {"open", "closed", "torn", "error"}
  /\ end = "open" => Whole /\ reply.framing # "close"
  /\ end = "torn" => ~Whole /\ Part.t # "data"
  /\ pos = 0 /\ pc = "status" /\ kind = "UntilClose"
  /\ remainingTotal = NoTotal /\ remainingInChunk = 0 /\ body = <<>>

-----------------------------------------------------------------------------
More  == pos < arrives
First == reply.tokens[pos + 1]
Step(l) == pc = l /\ UNCHANGED server
Fail  == pc' = "failed" /\ UNCHANGED <<kind, remainingTotal, remainingInChunk, body>>

\* A read of a silent open connection times out, one of a broken one fails.
ReadFails ==
  /\ pc \in {"status", "headers", "body"} /\ ~More /\ ~Closed
  /\ pc = "body" => remainingTotal # 0
  /\ Fail /\ UNCHANGED <<server, pos>>

StatusLine ==
  /\ Step("status") /\ More
  /\ pos' = pos + 1 /\ pc' = "headers"
  /\ UNCHANGED <<kind, remainingTotal, remainingInChunk, body>>

NoStatusLine ==
  /\ Step("status") /\ ~More /\ Closed
  /\ Fail /\ UNCHANGED pos

\* What there is of a status line may have a number in its second place.
CutStatusLine ==
  /\ Step("status") /\ ~More /\ end = "torn"
  /\ pc' = "headers"
  /\ UNCHANGED <<pos, kind, remainingTotal, remainingInChunk, body>>

\* remaining_total: what Content-Length says is left.
TotalForgotten(n) == NoTotal
TotalOf(n) == n

\* Transfer-Encoding wins over Content-Length, whichever comes first.
HeaderLine ==
  /\ Step("headers") /\ More /\ First.t # "blank"
  /\ pos' = pos + 1
  /\ IF First.t = "chunked" THEN kind' = "Chunked" /\ remainingTotal' = NoTotal
     ELSE IF First.t = "content-length" /\ kind # "Chunked"
     THEN kind' = "ContentLength" /\ remainingTotal' = TotalOf(First.n)
     ELSE UNCHANGED <<kind, remainingTotal>>
  /\ UNCHANGED <<pc, remainingInChunk, body>>

\* A header line that lacks its end counts for what there is of it: a length
\* for less than it is or, without a digit, for none.  Nothing follows it.
CutHeaderLine ==
  /\ Step("headers") /\ ~More /\ end = "torn"
  /\ \/ Part.t = "chunked" /\ kind' = "Chunked" /\ remainingTotal' = NoTotal
     \/ /\ Part.t = "content-length" /\ kind # "Chunked"
        /\ \/ kind' = "UntilClose" /\ remainingTotal' = NoTotal
           \/ kind' = "ContentLength" /\ remainingTotal' \in 0..Part.n
  /\ pc' = "body"
  /\ UNCHANGED <<pos, remainingInChunk, body>>

\* The blank line, or the end of the connection: n == 0 ends the headers too,
\* after a part of a line that names no framing if there is one.
HeadersEnd ==
  /\ Step("headers")
  /\ \/ More /\ First.t = "blank" /\ pos' = pos + 1
     \/ ~More /\ Closed /\ pos' = pos
  /\ pc' = "body"
  /\ UNCHANGED <<kind, remainingTotal, remainingInChunk, body>>

\* At most this many units may a read ask the stream for.
WantBuffer(left) == BufSize
Want(left) == IF left < BufSize THEN left ELSE BufSize

\* A read gives the caller the next n tokens, whatever they are.
Give(n) == body' = body \o SubSeq(reply.tokens, pos + 1, pos + n)

\* read_body, Content-Length: at the end without another read ...
LengthEnds ==
  /\ Step("body") /\ kind = "ContentLength" /\ remainingTotal = 0
  /\ pc' = "done"
  /\ UNCHANGED <<pos, kind, remainingTotal, remainingInChunk, body>>

\* ... and otherwise what has arrived, in one or more reads.
ReadPlain ==
  /\ Step("body") /\ kind # "Chunked" /\ remainingTotal # 0 /\ More
  /\ \E n \in 1..(IF remainingTotal = NoTotal THEN BufSize ELSE Want(remainingTotal)) :
       /\ pos + n <= arrives
       /\ Give(n) /\ pos' = pos + n
       /\ remainingTotal' = IF remainingTotal = NoTotal THEN NoTotal ELSE remainingTotal - n
  /\ UNCHANGED <<pc, kind, remainingInChunk>>

\* A closed connection is the end of the body, short or not.
PlainEndsAtClose ==
  /\ Step("body") /\ kind # "Chunked" /\ remainingTotal # 0
  /\ ~More /\ Closed
  /\ pc' = "done"
  /\ UNCHANGED <<pos, kind, remainingTotal, remainingInChunk, body>>

ChunkSize ==
  /\ Step("body") /\ kind = "Chunked" /\ remainingInChunk = 0 /\ More
  /\ pos' = pos + 1
  /\ IF First.t # "size"
     THEN Fail
     ELSE /\ remainingInChunk' = First.n
          /\ pc' = IF First.n = 0 THEN "trailer" ELSE "body"
          /\ UNCHANGED <<kind, remainingTotal, body>>

\* Of a size line only zeros have come: to the code it is the last chunk's.
CutSize ==
  /\ Step("body") /\ kind = "Chunked" /\ remainingInChunk = 0
  /\ ~More /\ end = "torn" /\ Part.t = "size"
  /\ reply.padded \/ Part.n = 0
  /\ pc' = "trailer"
  /\ UNCHANGED <<pos, kind, remainingTotal, remainingInChunk, body>>

\* The trailer is skipped up to a blank line or the end of the connection.
TrailerLoops == IF Closed THEN "trailer" ELSE "failed"
TrailerCut   == IF Closed THEN "done" ELSE "failed"

Trailer ==
  /\ Step("trailer")
  /\ IF More
     THEN pos' = pos + 1 /\ pc' = IF First.t = "blank" THEN "done" ELSE "trailer"
     ELSE pos' = pos /\ pc' = TrailerCut
  /\ UNCHANGED <<kind, remainingTotal, remainingInChunk, body>>

\* Part of a chunk; the whole of it together with the CRLF that must follow,
\* for want of which the units just read are lost with the error.
ReadChunk ==
  /\ Step("body") /\ kind = "Chunked" /\ remainingInChunk > 0 /\ More
  /\ \E n \in 1..Want(remainingInChunk) :
       /\ pos + n <= arrives
       /\ \/ /\ n < remainingInChunk
             /\ Give(n) /\ pos' = pos + n
             /\ remainingInChunk' = remainingInChunk - n
             /\ UNCHANGED <<pc, kind, remainingTotal>>
          \/ /\ n >= remainingInChunk /\ pos + n < arrives
             /\ Give(n) /\ pos' = pos + n + 1 /\ remainingInChunk' = 0
             /\ UNCHANGED <<pc, kind, remainingTotal>>
          \/ /\ n >= remainingInChunk /\ pos + n = arrives
             /\ pos' = arrives /\ Fail

\* No size line, or no data where a chunk still owes some, its size read
\* whole or in part.
CutAsEnd == "done"
TruncatedChunk == "failed"

ChunkedCut ==
  /\ Step("body") /\ kind = "Chunked" /\ ~More /\ Closed
  /\ pc' = TruncatedChunk
  /\ UNCHANGED <<pos, kind, remainingTotal, remainingInChunk, body>>

Next ==
  \/ StatusLine \/ NoStatusLine \/ CutStatusLine
  \/ HeaderLine \/ CutHeaderLine \/ HeadersEnd \/ ReadFails
  \/ LengthEnds \/ ReadPlain \/ PlainEndsAtClose
  \/ ChunkSize \/ CutSize \/ ReadChunk \/ Trailer \/ ChunkedCut

Spec == Init /\ [][Next]_vars /\ WF_vars(Next)

-----------------------------------------------------------------------------
\* However reads and chunks fall, the caller is given the body's units in
\* order: none twice, none left out, and never a piece of the framing.
OnlyPayload == IsPrefix(body, Units(reply.payload))

\* A chunked reply that ends without an error was read to its last unit, be
\* the connection closed in its data, its framing or its trailer.  There is one
\* exception: a server that pads its sizes with zeros, and a connection closed
\* within such a size line, of which read_body may see a 0.
CutInPaddedSize == reply.padded /\ end = "torn" /\ Part.t = "size"
ChunkedEndIsWhole ==
  kind = "Chunked" /\ pc = "done" => Len(body) = reply.payload \/ CutInPaddedSize

\* A framed reply that arrived whole is read whole, and without waiting for
\* a peer that leaves the connection open: no timeout turns it into an error.
WholeReplyIsRead ==
  Whole /\ reply.framing # "close" => /\ pc # "failed"
                                      /\ pc = "done" => Len(body) = reply.payload

\* Reading ends: no branch asks again for what can no longer come.
ReadingEnds == <>(pc \in {"done", "failed"})

=============================================================================
