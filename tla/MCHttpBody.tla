----------------------------- MODULE MCHttpBody -----------------------------
(***************************************************************************)
(* The replies TLC has read: every way to cut a body into chunks, however  *)
(* the body is framed, with a Content-Length before or after the chunked   *)
(* header, with or without a trailer, its sizes padded with zeros or not.  *)
(***************************************************************************)
EXTENDS HttpBody

CONSTANTS
  MaxChunks,  \* bound: chunks in a reply
  MaxChunk    \* bound: units in a chunk

Line(h)  == [t |-> h, n |-> 0, before |-> 0]
Of(h, n) == [t |-> h, n |-> n, before |-> 0]
Sum(c)   == FoldLeft(LAMBDA x, y : x + y, 0, c)

Chunk(from, n) ==
  <<[t |-> "size", n |-> n, before |-> from]>> \o
  (IF n = 0 THEN <<>> ELSE [i \in 1..n |-> Unit(from + i)] \o <<Line("crlf")>>)
Made(framing, header, c, rest, padded) ==
  [framing |-> framing, payload |-> Sum(c), head |-> Len(header) + 2, padded |-> padded,
   tokens  |-> <<Line("status")>> \o header \o <<Line("blank")>> \o rest]

Cuts == SeqOf(1..MaxChunk, MaxChunks)
Cut(c) == FlattenSeq([i \in 1..Len(c) |-> Chunk(Sum(SubSeq(c, 1, i - 1)), c[i])])
            \o Chunk(Sum(c), 0)

MCReplies ==
  {Made("close", <<Line("other")>>, <<n>>, Units(n), FALSE) : n \in 0..(MaxChunks * MaxChunk)} \cup
  {Made("length", <<Line("other"), Of("content-length", n)>>, <<n>>, Units(n), FALSE) :
     n \in 0..(MaxChunks * MaxChunk)} \cup
  {Made("chunked", h, c, Cut(c) \o trailer \o <<Line("blank")>>, padded) :
     c \in Cuts, trailer \in {<<>>, <<Line("other")>>}, padded \in BOOLEAN,
     h \in {<<Line("chunked")>>, <<Line("other"), Line("chunked")>>,
            <<Of("content-length", 1), Line("chunked")>>,
            <<Line("chunked"), Of("content-length", 1)>>}}
=============================================================================
