---------------------------- MODULE HttpBodyProofs ----------------------------
(***************************************************************************)
(* Proofs about HttpBody, for every set of correct replies, cut anywhere,  *)
(* and any size of the caller's buffer: what the caller is given is a      *)
(* prefix of the payload, a chunked body that ends is whole (but for one   *)
(* case, a padded size line cut short), and a framed reply that arrives    *)
(* whole is read whole.  They rest on where the reader stands in the       *)
(* reply, by what it has given (InBody).                                   *)
(***************************************************************************)
EXTENDS HttpBody, TLAPS, SequenceTheorems

N     == Len(reply.tokens)
Tok(k) == reply.tokens[k]

TypeOK ==
  /\ reply \in Replies /\ arrives \in 0..N /\ end \in {"open", "closed", "torn", "error"}
  /\ end = "torn" => arrives < N
  /\ pos \in 0..arrives
  /\ pc \in {"status", "headers", "body", "trailer", "done", "failed"}
  /\ kind \in {"UntilClose", "ContentLength", "Chunked"}
  /\ remainingTotal \in Nat \cup {NoTotal} /\ remainingInChunk \in Nat
  /\ body \in Seq(Token)

\* The caller has so many of the body's units, the first ones, in order.
Given == Len(body) <= reply.payload /\ body = Units(Len(body))

\* What is known of the framing from the header lines read so far.
KindSoFar ==
  /\ kind = "Chunked" <=> \E k \in 2..pos : Tok(k).t = "chunked"
  /\ kind = "UntilClose" => ~\E k \in 2..pos : Tok(k).t = "content-length"
  /\ kind = "ContentLength" => \E k \in 2..pos : Tok(k).t = "content-length"
  /\ kind = "ContentLength" /\ reply.framing = "length" => remainingTotal = reply.payload
  /\ kind # "ContentLength" => remainingTotal = NoTotal

InHead ==
  /\ body = <<>> /\ remainingInChunk = 0
  /\ IF pc = "status" THEN pos = 0 ELSE pos \in 1..(reply.head - 1) \/ (pos = 0 /\ arrives = 0)
  /\ KindSoFar

\* The connection was closed inside the headers, which read_headers takes for
\* their end: nothing is left to read.
CutInHead == pos = arrives /\ pos < reply.head /\ body = <<>> /\ remainingInChunk = 0

InPlain ==
  /\ reply.framing # "chunked" /\ pos = reply.head + Len(body) /\ remainingInChunk = 0
  /\ IF reply.framing = "length"
     THEN kind = "ContentLength" /\ remainingTotal = reply.payload - Len(body)
     ELSE kind = "UntilClose" /\ remainingTotal = NoTotal

Sizes == {k \in (reply.head + 1)..N : Tok(k).t = "size"}
InChunks ==
  /\ reply.framing = "chunked" /\ kind = "Chunked" /\ remainingTotal = NoTotal
  /\ \E k \in Sizes :
       \/ remainingInChunk = 0 /\ pos = k - 1 /\ Len(body) = Tok(k).before
       \/ /\ remainingInChunk \in 1..Tok(k).n
          /\ pos = k + (Tok(k).n - remainingInChunk)
          /\ Len(body) = Tok(k).before + (Tok(k).n - remainingInChunk)

InBody    == CutInHead \/ InPlain \/ InChunks
\* Behind the last size line, or at the close with a part of one taken for it.
InTrailer ==
  /\ reply.framing = "chunked"
  /\ \/ /\ Len(body) = reply.payload
        /\ \E k \in Sizes : Tok(k).n = 0 /\ pos \in k..(N - 1)
     \/ /\ pos = arrives /\ arrives < N
        /\ Len(body) = reply.payload \/ CutInPaddedSize
AtEnd ==
  /\ kind = "Chunked" => Len(body) = reply.payload \/ CutInPaddedSize
  /\ Whole /\ reply.framing # "close" => Len(body) = reply.payload

IInv ==
  /\ TypeOK /\ Given
  /\ pc \in {"status", "headers"} => InHead
  /\ pc = "body" => InBody
  /\ pc = "trailer" => InTrailer
  /\ pc = "done" => AtEnd
  /\ pc = "failed" => ~(Whole /\ reply.framing # "close")

-----------------------------------------------------------------------------
(* What a correct reply is like.                                           *)

LEMMA ReplyFacts ==
  ASSUME TypeOK
  PROVE  /\ WellHeaded(reply) /\ reply.framing \in {"length", "chunked", "close"}
         /\ reply.tokens \in Seq(Token) /\ N \in Nat /\ reply.payload \in Nat /\ reply.head \in 2..N
         /\ arrives \in 0..N /\ pos \in 0..arrives /\ pos \in Nat /\ arrives \in Nat
         /\ \A k \in 1..N : Tok(k) \in Token /\ Tok(k).n \in Nat /\ Tok(k).before \in Nat
<1>1. WellHeaded(reply) /\ reply.framing \in {"length", "chunked", "close"}
  BY HttpAssumption DEF TypeOK
<1>2. /\ reply.tokens \in Seq(Token) /\ N \in Nat /\ reply.payload \in Nat /\ reply.head \in 2..N
  BY <1>1 DEF WellHeaded, N
<1>3. \A k \in 1..N : Tok(k) \in Token
  BY <1>2 DEF N, Tok
<1>4. \A t \in Token : t.n \in Nat /\ t.before \in Nat
  BY DEF Token
<1>5. arrives \in 0..N /\ pos \in 0..arrives /\ pos \in Nat /\ arrives \in Nat
  BY <1>2 DEF TypeOK
<1> QED
  BY <1>1, <1>2, <1>3, <1>4, <1>5

LEMMA PlainFacts ==
  ASSUME TypeOK, reply.framing # "chunked"
  PROVE  /\ N = reply.head + reply.payload
         /\ \A i \in 1..reply.payload : Tok(reply.head + i) = Unit(i)
         /\ ~Announces(reply, "chunked")
         /\ reply.framing = "close" => ~Announces(reply, "content-length")
         /\ reply.framing = "length" =>
              /\ Announces(reply, "content-length")
              /\ \A k \in 2..(reply.head - 1) : Tok(k).t = "content-length" => Tok(k).n = reply.payload
<1>1. Plain(reply)
  BY HttpAssumption DEF TypeOK
<1> QED
  BY <1>1 DEF Plain, N, Tok

LEMMA ChunkFacts ==
  ASSUME TypeOK, reply.framing = "chunked"
  PROVE  /\ Announces(reply, "chunked") /\ reply.head + 1 \in Sizes /\ Tok(reply.head + 1).before = 0
         /\ \A k \in Sizes :
              /\ k \in (reply.head + 1)..N /\ k \in Nat
              /\ Tok(k).n > 0 =>
                   /\ k + Tok(k).n + 2 \in Sizes /\ Tok(k).before + Tok(k).n <= reply.payload
                   /\ \A i \in 1..Tok(k).n : Tok(k + i) = Unit(Tok(k).before + i)
                   /\ Tok(k + Tok(k).n + 2).before = Tok(k).before + Tok(k).n
              /\ Tok(k).n = 0 =>
                   /\ Tok(k).before = reply.payload /\ k < N
                   /\ \A j \in (k + 1)..(N - 1) : Tok(j).t = "other"
                   /\ Tok(N).t = "blank"
<1>1. Chunked(reply)
  BY HttpAssumption DEF TypeOK
<1>2. /\ N \in Nat /\ reply.head \in 2..N /\ \A k \in 1..N : Tok(k).n \in Nat /\ Tok(k).before \in Nat
  BY ReplyFacts
<1>3. reply.head + 1 \in Sizes /\ Tok(reply.head + 1).before = 0
  BY <1>1, <1>2 DEF Chunked, Sizes, N, Tok
<1>4. ASSUME NEW k \in Sizes
      PROVE  /\ k \in (reply.head + 1)..N /\ k \in Nat
             /\ Tok(k).n > 0 =>
                   /\ k + Tok(k).n + 2 \in Sizes /\ Tok(k).before + Tok(k).n <= reply.payload
                   /\ \A i \in 1..Tok(k).n : Tok(k + i) = Unit(Tok(k).before + i)
                   /\ Tok(k + Tok(k).n + 2).before = Tok(k).before + Tok(k).n
             /\ Tok(k).n = 0 =>
                   /\ Tok(k).before = reply.payload /\ k < N
                   /\ \A j \in (k + 1)..(N - 1) : Tok(j).t = "other"
                   /\ Tok(N).t = "blank"
  <2>1. k \in (reply.head + 1)..N /\ k \in Nat /\ Tok(k).t = "size" /\ Tok(k).n \in Nat
    BY <1>2 DEF Sizes
  <2>2. ChunkAt(reply, k)
    BY <1>1, <2>1 DEF Chunked, N, Tok
  <2>3. CASE Tok(k).n > 0
    <3>1. /\ k + Tok(k).n + 2 <= N /\ Tok(k).before + Tok(k).n <= reply.payload
          /\ \A i \in 1..Tok(k).n : Tok(k + i) = Unit(Tok(k).before + i)
          /\ Tok(k + Tok(k).n + 2).t = "size"
          /\ Tok(k + Tok(k).n + 2).before = Tok(k).before + Tok(k).n
      BY <2>2, <2>3 DEF ChunkAt, N, Tok
    <3>2. k + Tok(k).n + 2 \in (reply.head + 1)..N
      BY <1>2, <2>1, <3>1
    <3> QED
      BY <2>1, <2>3, <3>1, <3>2 DEF Sizes
  <2>4. CASE Tok(k).n = 0
    BY <2>1, <2>2, <2>4 DEF ChunkAt, N, Tok
  <2> QED
    BY <2>1, <2>3, <2>4
<1> QED
  BY <1>1, <1>3, <1>4 DEF Chunked

LEMMA UnitsFacts ==
  ASSUME NEW m \in Nat
  PROVE  Units(m) \in Seq(Token) /\ Len(Units(m)) = m /\ \A i \in 1..m : Units(m)[i] = Unit(i)
<1>1. \A i \in 1..m : Unit(i) \in Token
  BY DEF Unit, Token
<1> QED
  BY <1>1 DEF Units

LEMMA UnitsMore ==
  ASSUME NEW m \in Nat, NEW n \in Nat, NEW s \in Seq(Token), Len(s) = n,
         \A i \in 1..n : s[i] = Unit(m + i)
  PROVE  Units(m) \o s = Units(m + n)
<1> DEFINE a == Units(m)
           b == Units(m + n)
<1>1. a \in Seq(Token) /\ Len(a) = m /\ \A i \in 1..m : a[i] = Unit(i)
  BY UnitsFacts
<1>0. m + n \in Nat
  OBVIOUS
<1>2. b \in Seq(Token) /\ Len(b) = m + n /\ \A i \in 1..(m + n) : b[i] = Unit(i)
  BY <1>0, UnitsFacts
<1> HIDE DEF a, b
<1>3. /\ a \o s \in Seq(Token) /\ Len(a \o s) = m + n
      /\ \A i \in 1..(m + n) : (a \o s)[i] = IF i <= m THEN a[i] ELSE s[i - m]
  BY <1>1, ConcatProperties
<1>4. ASSUME NEW i \in 1..(m + n) PROVE (a \o s)[i] = b[i]
  <2>0. i \in Nat
    BY <1>0
  <2>1. CASE i <= m
    BY <1>1, <1>2, <1>3, <2>1
  <2>2. CASE i > m
    <3>1. i - m \in 1..n /\ m + (i - m) = i
      BY <2>2
    <3>2. s[i - m] = Unit(i)
      BY <3>1
    <3> QED
      BY <1>2, <1>3, <2>2, <3>2
  <2>3. i <= m \/ i > m
    BY <2>0
  <2> QED
    BY <2>1, <2>2, <2>3
<1>5. a \o s = b
  BY <1>2, <1>3, <1>4, SeqEqual
<1> QED
  BY <1>5 DEF a, b

\* The next n units, given.
LEMMA GiveUnits ==
  ASSUME TypeOK, Given, NEW n \in Nat \ {0}, pos + n <= N, Len(body) + n <= reply.payload,
         \A i \in 1..n : Tok(pos + i) = Unit(Len(body) + i), Give(n)
  PROVE  body' \in Seq(Token) /\ Len(body') = Len(body) + n /\ body' = Units(Len(body) + n)
<1> DEFINE s == SubSeq(reply.tokens, pos + 1, pos + n)
<1>1. PICK m \in Nat : Len(body) = m /\ body = Units(m)
  BY DEF TypeOK, Given
<1>2. /\ pos \in Nat /\ reply.tokens \in Seq(Token) /\ Len(reply.tokens) = N /\ N \in Nat
  BY ReplyFacts DEF N
<1>3. s \in Seq(Token) /\ Len(s) = n /\ \A i \in 1..n : s[i] = reply.tokens[pos + i]
  <2>1. \A i \in (pos + 1)..(pos + n) : reply.tokens[i] \in Token
    BY <1>2
  <2> QED
    BY <1>2, <2>1, SubSeqProperties
<1>4. body' = Units(m) \o s
  BY <1>1 DEF Give
<1> HIDE DEF s
<1>5. Units(m) \o s = Units(m + n)
  <2>1. \A i \in 1..n : s[i] = Unit(m + i)
    BY <1>1, <1>3 DEF Tok
  <2> QED
    BY <1>3, <2>1, UnitsMore
<1>6. m + n \in Nat
  OBVIOUS
<1> QED
  BY <1>1, <1>4, <1>5, <1>6, UnitsFacts

-----------------------------------------------------------------------------
(* The steps.                                                              *)

\* Reading goes on: types from what the step sets.
LEMMA TypedStep ==
  ASSUME TypeOK, UNCHANGED server, pos' \in 0..arrives,
         pc' \in {"status", "headers", "body", "trailer", "done", "failed"},
         kind' \in {"UntilClose", "ContentLength", "Chunked"},
         remainingTotal' \in Nat \cup {NoTotal}, remainingInChunk' \in Nat, body' \in Seq(Token)
  PROVE  TypeOK'
  BY DEF TypeOK, server, N

\* A failure, anywhere, of a reply that has not arrived whole or has no end.
LEMMA FailStep ==
  ASSUME IInv, Fail, UNCHANGED server, pos' \in 0..arrives, ~(Whole /\ reply.framing # "close")
  PROVE  IInv'
<1>1. UNCHANGED <<reply, arrives, end, kind, remainingTotal, remainingInChunk, body>> /\ pc' = "failed"
  BY DEF Fail, server
<1>2. TypeOK'
  BY <1>1, TypedStep DEF IInv, TypeOK
<1>3. Given' /\ ~(Whole /\ reply.framing # "close")'
  BY <1>1 DEF IInv, Given, Whole
<1> QED
  BY <1>1, <1>2, <1>3 DEF IInv

\* Something still comes of a whole reply as long as its end is not reached.
LEMMA HeadersGoOn ==
  ASSUME IInv, pc \in {"status", "headers"}
  PROVE  /\ InHead /\ pos < reply.head /\ (~More => pos = arrives /\ ~Whole)
         /\ pc = "headers" /\ First.t = "blank" /\ More => pos + 1 = reply.head
<1>1. /\ TypeOK /\ InHead /\ WellHeaded(reply) /\ N \in Nat /\ reply.head \in 2..N
      /\ arrives \in 0..N /\ pos \in 0..arrives /\ pos \in Nat /\ arrives \in Nat
  BY ReplyFacts DEF IInv
<1>2. pos < reply.head
  BY <1>1 DEF InHead
<1>3. ~More => pos = arrives /\ ~Whole
  BY <1>1, <1>2 DEF More, Whole, N
<1>4. ASSUME pc = "headers", First.t = "blank", More, pos + 1 # reply.head PROVE FALSE
  <2>0. pos # 0
    <3>1. pos = 0 => pos \notin 1..(reply.head - 1)
      OBVIOUS
    <3>2. pos = 0 => arrives = 0
      BY <1>1, <1>4, <3>1 DEF InHead
    <3> QED
      BY <1>1, <1>4, <3>2 DEF More
  <2>1. pos + 1 \in 2..(reply.head - 1)
    BY <1>1, <1>4, <2>0 DEF InHead
  <2>2. reply.tokens[pos + 1].t \in Header
    BY <1>1, <2>1 DEF WellHeaded
  <2> QED
    BY <1>4, <2>2 DEF First, Header
<1> QED
  BY <1>1, <1>2, <1>3, <1>4

LEMMA HeadSteps == ASSUME IInv, StatusLine \/ NoStatusLine \/ CutStatusLine \/ HeaderLine PROVE IInv'
<1>1. /\ TypeOK /\ WellHeaded(reply) /\ N \in Nat /\ reply.head \in 2..N /\ Given
      /\ arrives \in 0..N /\ pos \in 0..arrives /\ pos \in Nat /\ arrives \in Nat
  BY ReplyFacts DEF IInv
<1>2. CASE StatusLine
  <2>1. /\ UNCHANGED <<reply, arrives, end, kind, remainingTotal, remainingInChunk, body>>
        /\ pos = 0 /\ pos' = 1 /\ pc' = "headers" /\ InHead /\ More
    BY <1>2, HeadersGoOn DEF StatusLine, Step, server, InHead
  <2>2. TypeOK'
    <3>1. pos' \in 0..arrives
      BY <1>1, <2>1 DEF More
    <3> QED
      BY <1>1, <2>1, <3>1, TypedStep DEF TypeOK, server
  <2>3. 1 \in 1..(reply.head - 1)
    BY <1>1
  <2>4. InHead'
    BY <2>1, <2>3 DEF InHead, KindSoFar, Tok
  <2> QED
    BY <1>1, <2>1, <2>2, <2>4 DEF IInv, Given
<1>3. CASE NoStatusLine
  <2>1. Fail /\ UNCHANGED server /\ pos' = pos /\ ~Whole
    BY <1>3, HeadersGoOn DEF NoStatusLine, Step
  <2> QED
    BY <1>1, <2>1, FailStep
<1>4. CASE HeaderLine
  <2> DEFINE q == pos + 1
  <2>1. /\ UNCHANGED <<reply, arrives, end, pc, remainingInChunk, body>> /\ pc = "headers"
        /\ pos' = q /\ More /\ First.t # "blank" /\ First = Tok(q) /\ InHead
    BY <1>4, HeadersGoOn DEF HeaderLine, Step, server, First, Tok
  <2>2. IF Tok(q).t = "chunked" THEN kind' = "Chunked" /\ remainingTotal' = NoTotal
        ELSE IF Tok(q).t = "content-length" /\ kind # "Chunked"
        THEN kind' = "ContentLength" /\ remainingTotal' = Tok(q).n
        ELSE UNCHANGED <<kind, remainingTotal>>
    BY <1>4, <2>1 DEF HeaderLine, TotalOf
  <2>3. q \in 2..(reply.head - 1) /\ q \in 1..(reply.head - 1) /\ q \in 0..arrives /\ q \in 1..N
    <3>0. pos # 0 /\ pos < reply.head
      <4>1. pos = 0 => pos \notin 1..(reply.head - 1)
        OBVIOUS
      <4>2. pos = 0 => arrives = 0
        BY <2>1, <4>1 DEF InHead
      <4> QED
        BY <1>1, <2>1, <4>2, HeadersGoOn DEF More
    <3>1. pos \in 1..(reply.head - 1) /\ q # reply.head
      BY <1>1, <2>1, <3>0 DEF WellHeaded, Tok
    <3> QED
      BY <1>1, <2>1, <3>1 DEF More
  <2>4. Tok(q).t \in Header /\ Tok(q).n \in Nat
    BY <1>1, <2>3, ReplyFacts DEF WellHeaded, Tok
  <2>5. \A k : k \in 2..q <=> k \in 2..pos \/ k = q
    BY <1>1, <2>3
  <2>6. \A k : Tok(k)' = Tok(k)
    BY <2>1 DEF Tok
  <2>7. TypeOK'
    BY <1>1, <2>1, <2>2, <2>3, <2>4, TypedStep DEF TypeOK, server
  <2>8. reply.framing = "length" /\ Tok(q).t = "content-length" => Tok(q).n = reply.payload
    BY <1>1, <2>3, PlainFacts
  <2> HIDE DEF q
  <2>9. KindSoFar'
    <3>1. /\ kind' = "Chunked" <=> kind = "Chunked" \/ Tok(q).t = "chunked"
          /\ kind' = "UntilClose" => kind = "UntilClose" /\ Tok(q).t # "content-length"
          /\ kind' = "ContentLength" => kind = "ContentLength" \/ Tok(q).t = "content-length"
      BY <2>2
    <3>2. KindSoFar
      BY <2>1 DEF InHead
    <3>3. kind' = "Chunked" <=> \E k \in 2..q : Tok(k).t = "chunked"
      BY <2>5, <3>1, <3>2 DEF KindSoFar
    <3>4. kind' = "UntilClose" => ~\E k \in 2..q : Tok(k).t = "content-length"
      BY <2>5, <3>1, <3>2 DEF KindSoFar
    <3>5. kind' = "ContentLength" => \E k \in 2..q : Tok(k).t = "content-length"
      BY <2>5, <3>1, <3>2 DEF KindSoFar
    <3>6. /\ kind' = "ContentLength" /\ reply.framing = "length" => remainingTotal' = reply.payload
          /\ kind' # "ContentLength" => remainingTotal' = NoTotal
      BY <2>2, <2>8, <3>2 DEF KindSoFar
    <3> QED
      BY <2>1, <2>6, <3>3, <3>4, <3>5, <3>6 DEF KindSoFar
  <2>10. InHead' /\ Given'
    BY <1>1, <2>1, <2>3, <2>9 DEF InHead, Given
  <2> QED
    BY <2>1, <2>7, <2>10 DEF IInv
<1>5. CASE CutStatusLine
  <2>1. /\ UNCHANGED <<reply, arrives, end, pos, kind, remainingTotal, remainingInChunk, body>>
        /\ pos = 0 /\ arrives = 0 /\ pc' = "headers" /\ InHead
    BY <1>1, <1>5, HeadersGoOn DEF CutStatusLine, Step, server, InHead
  <2>2. TypeOK'
    BY <1>1, <2>1, TypedStep DEF TypeOK, server
  <2>3. InHead'
    BY <2>1 DEF InHead, KindSoFar, Tok
  <2> QED
    BY <1>1, <2>1, <2>2, <2>3 DEF IInv, Given
<1> QED
  BY <1>2, <1>3, <1>4, <1>5

\* A header line cut short says what it may: nothing is left to read.
LEMMA CutHeaderStep == ASSUME IInv, CutHeaderLine PROVE IInv'
<1>1. /\ UNCHANGED <<reply, arrives, end, pos, remainingInChunk, body>>
      /\ pc = "headers" /\ pc' = "body" /\ ~More /\ end = "torn"
  BY DEF CutHeaderLine, Step, server
<1>2. /\ TypeOK /\ Given /\ InHead /\ pos = arrives /\ pos < reply.head
      /\ arrives \in Nat /\ arrives < N /\ N \in Nat
  BY <1>1, HeadersGoOn, ReplyFacts DEF IInv, TypeOK
<1>3. Part.n \in Nat
  <2>1. arrives + 1 \in 1..N
    BY <1>2
  <2> QED
    BY <1>2, <2>1, ReplyFacts DEF Part, Tok
<1>4. kind' \in {"UntilClose", "ContentLength", "Chunked"} /\ remainingTotal' \in Nat \cup {NoTotal}
  BY <1>3 DEF CutHeaderLine
<1>5. TypeOK'
  BY <1>1, <1>2, <1>4, TypedStep DEF TypeOK, server
<1>6. CutInHead'
  BY <1>1, <1>2 DEF CutInHead, InHead
<1> QED
  BY <1>1, <1>2, <1>5, <1>6 DEF IInv, Given, InBody

LEMMA HeadersEndStep == ASSUME IInv, HeadersEnd PROVE IInv'
<1>1. /\ TypeOK /\ WellHeaded(reply) /\ N \in Nat /\ reply.head \in 2..N /\ Given
      /\ arrives \in 0..N /\ pos \in 0..arrives /\ pos \in Nat /\ arrives \in Nat
      /\ reply.framing \in {"length", "chunked", "close"} /\ reply.payload \in Nat
  BY ReplyFacts DEF IInv
<1>2. /\ UNCHANGED <<reply, arrives, end, kind, remainingTotal, remainingInChunk, body>>
      /\ pc = "headers" /\ pc' = "body" /\ InHead
      /\ body = <<>> /\ Len(body) = 0 /\ remainingInChunk = 0
  BY HeadersGoOn DEF HeadersEnd, Step, server, InHead
<1>3. CASE pos' = pos /\ ~More
  <2>1. CutInHead'
    BY <1>2, <1>3, HeadersGoOn DEF CutInHead
  <2>2. TypeOK'
    BY <1>1, <1>2, <1>3, TypedStep DEF TypeOK, server
  <2> QED
    BY <1>1, <1>2, <2>1, <2>2 DEF IInv, Given, InBody
<1>4. CASE More /\ First.t = "blank" /\ pos' = pos + 1
  <2>1. pos + 1 = reply.head /\ pos' = reply.head /\ pos = reply.head - 1
    BY <1>1, <1>2, <1>4, HeadersGoOn
  <2>2. TypeOK'
    <3>1. pos' \in 0..arrives
      BY <1>1, <1>4 DEF More
    <3> QED
      BY <1>1, <1>2, <3>1, TypedStep DEF TypeOK, server
  <2>3. KindSoFar
    BY <1>2 DEF InHead
  <2>4. /\ kind = "Chunked" <=> Announces(reply, "chunked")
        /\ kind = "UntilClose" => ~Announces(reply, "content-length")
        /\ kind = "ContentLength" => Announces(reply, "content-length")
    BY <2>1, <2>3 DEF KindSoFar, Announces, Tok
  <2>5. kind \in {"UntilClose", "ContentLength", "Chunked"}
    BY <1>1 DEF TypeOK
  <2>6. CASE reply.framing # "chunked"
    <3>1. IF reply.framing = "length"
          THEN kind = "ContentLength" /\ remainingTotal = reply.payload
          ELSE kind = "UntilClose" /\ remainingTotal = NoTotal
      BY <1>1, <2>3, <2>4, <2>5, <2>6, PlainFacts DEF KindSoFar
    <3>2. reply.payload - 0 = reply.payload /\ reply.head + 0 = reply.head
      BY <1>1
    <3>3. InPlain'
      BY <1>2, <2>1, <2>6, <3>1, <3>2 DEF InPlain
    <3> QED
      BY <1>1, <1>2, <2>2, <3>3 DEF IInv, Given, InBody
  <2>7. CASE reply.framing = "chunked"
    <3>1. kind = "Chunked" /\ remainingTotal = NoTotal
      BY <1>1, <2>3, <2>4, <2>7, ChunkFacts DEF KindSoFar
    <3>2. reply.head + 1 \in Sizes /\ Tok(reply.head + 1).before = 0 /\ reply.head = (reply.head + 1) - 1
      BY <1>1, <2>7, ChunkFacts
    <3>3. InChunks'
      BY <1>2, <2>1, <2>7, <3>1, <3>2 DEF InChunks, Sizes, Tok, N
    <3> QED
      BY <1>1, <1>2, <2>2, <3>3 DEF IInv, Given, InBody
  <2> QED
    BY <2>6, <2>7
<1> QED
  BY <1>3, <1>4 DEF HeadersEnd

\* Where the body has been read to: between chunks, or so far into one.
BetweenChunks(k) == remainingInChunk = 0 /\ pos = k - 1 /\ Len(body) = Tok(k).before
InsideChunk(k) ==
  /\ remainingInChunk \in 1..Tok(k).n
  /\ pos = k + (Tok(k).n - remainingInChunk)
  /\ Len(body) = Tok(k).before + (Tok(k).n - remainingInChunk)

LEMMA BodyFacts ==
  ASSUME IInv, pc = "body"
  PROVE  /\ TypeOK /\ Given /\ InBody /\ N \in Nat /\ reply.head \in 2..N /\ reply.payload \in Nat
         /\ arrives \in 0..N /\ pos \in 0..arrives /\ pos \in Nat /\ arrives \in Nat
         /\ Len(body) \in Nat /\ remainingInChunk \in Nat
         /\ reply.framing \in {"length", "chunked", "close"}
         /\ More /\ kind # "Chunked" => InPlain
         /\ kind = "Chunked" /\ (More \/ remainingInChunk > 0) => InChunks
         /\ InChunks => reply.framing = "chunked" /\ kind = "Chunked" /\ remainingTotal = NoTotal
                        /\ \E k \in Sizes : BetweenChunks(k) \/ InsideChunk(k)
<1>1. /\ TypeOK /\ Given /\ InBody /\ N \in Nat /\ reply.head \in 2..N /\ reply.payload \in Nat
      /\ arrives \in 0..N /\ pos \in 0..arrives /\ pos \in Nat /\ arrives \in Nat
      /\ Len(body) \in Nat /\ remainingInChunk \in Nat
      /\ reply.framing \in {"length", "chunked", "close"}
  BY ReplyFacts DEF IInv, TypeOK
<1>2. CutInHead => ~More /\ remainingInChunk = 0
  BY <1>1 DEF CutInHead, More
<1>3. InPlain => kind # "Chunked"
  BY DEF InPlain
<1>4. InChunks => reply.framing = "chunked" /\ kind = "Chunked" /\ remainingTotal = NoTotal
                  /\ \E k \in Sizes : BetweenChunks(k) \/ InsideChunk(k)
  BY DEF InChunks, BetweenChunks, InsideChunk
<1> QED
  BY <1>1, <1>2, <1>3, <1>4 DEF InBody

\* With nothing left to read of a whole framed reply, its length is reached.
LEMMA WholeIsRead ==
  ASSUME IInv, pc = "body", ~More, Whole, reply.framing # "close"
  PROVE  kind = "ContentLength" /\ remainingTotal = 0 /\ Len(body) = reply.payload
<1>1. pos = N
  BY BodyFacts DEF More, Whole, N
<1>2. ~CutInHead
  BY <1>1, BodyFacts DEF CutInHead
<1>3. ~InChunks
  <2>1. ASSUME reply.framing = "chunked", NEW k \in Sizes, BetweenChunks(k) \/ InsideChunk(k)
        PROVE  FALSE
    <3>1. k \in (reply.head + 1)..N /\ k \in Nat /\ Tok(k).n \in Nat
      BY <2>1, BodyFacts, ChunkFacts, ReplyFacts DEF Sizes
    <3>2. CASE BetweenChunks(k)
      BY <1>1, <3>1, <3>2, BodyFacts DEF BetweenChunks
    <3>3. CASE InsideChunk(k)
      <4>1. Tok(k).n > 0 /\ pos <= k + Tok(k).n
        BY <3>1, <3>3, BodyFacts, SMTT(20) DEF InsideChunk
      <4>2. k + Tok(k).n + 2 <= N
        BY <2>1, <4>1, BodyFacts, ChunkFacts DEF Sizes
      <4> QED
        BY <1>1, <3>1, <4>1, <4>2, BodyFacts
    <3> QED
      BY <2>1, <3>2, <3>3
  <2> QED
    BY <2>1, BodyFacts
<1>4. InPlain
  BY <1>2, <1>3, BodyFacts DEF InBody
<1>5. Len(body) = reply.payload
  BY <1>1, <1>4, BodyFacts, PlainFacts DEF InPlain
<1> QED
  BY <1>4, <1>5, BodyFacts DEF InPlain

LEMMA ReadFailsStep == ASSUME IInv, ReadFails PROVE IInv'
<1>1. Fail /\ UNCHANGED server /\ pos' = pos /\ ~More /\ pc \in {"status", "headers", "body"}
      /\ (pc = "body" => remainingTotal # 0)
  BY DEF ReadFails
<1>2. pos' \in 0..arrives
  BY <1>1 DEF IInv, TypeOK
<1>3. ~(Whole /\ reply.framing # "close")
  BY <1>1, HeadersGoOn, WholeIsRead
<1> QED
  BY <1>1, <1>2, <1>3, FailStep

\* The body ends, or a chunked one is cut.
LEMMA PlainEndSteps == ASSUME IInv, LengthEnds \/ PlainEndsAtClose PROVE IInv'
<1>1. /\ UNCHANGED <<reply, arrives, end, pos, kind, remainingTotal, remainingInChunk, body>>
      /\ pc = "body" /\ pc' = "done"
  BY DEF LengthEnds, PlainEndsAtClose, Step, server
<1>2. kind # "Chunked"
  BY DEF LengthEnds, PlainEndsAtClose
<1>3. Whole /\ reply.framing # "close" => Len(body) = reply.payload
  <2>1. CASE LengthEnds
    <3>1. remainingTotal = 0 /\ kind = "ContentLength"
      BY <2>1 DEF LengthEnds
    <3>2. CASE CutInHead
      BY <1>1, <3>2, BodyFacts DEF CutInHead, Whole, N
    <3>3. CASE InPlain
      BY <1>1, <3>1, <3>3, BodyFacts DEF InPlain
    <3>4. CASE InChunks
      BY <1>1, <1>2, <3>4, BodyFacts
    <3> QED
      BY <1>1, <3>2, <3>3, <3>4, BodyFacts DEF InBody
  <2>2. CASE PlainEndsAtClose
    BY <1>1, <2>2, WholeIsRead DEF PlainEndsAtClose
  <2> QED
    BY <2>1, <2>2
<1>4. TypeOK'
  BY <1>1, TypedStep DEF IInv, TypeOK, server
<1> QED
  BY <1>1, <1>2, <1>3, <1>4 DEF IInv, Given, AtEnd, Whole

LEMMA ChunkedCutStep == ASSUME IInv, ChunkedCut PROVE IInv'
<1>1. Fail /\ UNCHANGED server /\ pos' = pos /\ ~More /\ pc = "body" /\ kind = "Chunked"
  BY DEF ChunkedCut, Step, Fail, TruncatedChunk
<1>2. pos' \in 0..arrives
  BY <1>1 DEF IInv, TypeOK
<1> QED
  BY <1>1, <1>2, WholeIsRead, FailStep

LEMMA ReadPlainStep == ASSUME IInv, ReadPlain PROVE IInv'
<1>1. /\ UNCHANGED <<reply, arrives, end, pc, kind, remainingInChunk>> /\ pc = "body" /\ More
      /\ kind # "Chunked" /\ InPlain
  BY BodyFacts DEF ReadPlain, Step, server
<1>2. PICK n \in Nat \ {0} :
        /\ pos + n <= arrives /\ Give(n) /\ pos' = pos + n
        /\ remainingTotal' = IF remainingTotal = NoTotal THEN NoTotal ELSE remainingTotal - n
  <2>1. PICK n \in 1..(IF remainingTotal = NoTotal THEN BufSize ELSE Want(remainingTotal)) :
          /\ pos + n <= arrives /\ Give(n) /\ pos' = pos + n
          /\ remainingTotal' = IF remainingTotal = NoTotal THEN NoTotal ELSE remainingTotal - n
    BY DEF ReadPlain
  <2>2. n \in Nat \ {0}
    BY <2>1
  <2> QED
    BY <2>1, <2>2
<1>3. PICK m \in Nat : Len(body) = m
  BY <1>1, BodyFacts
<1>0. N \in Nat /\ reply.head \in Nat /\ reply.payload \in Nat /\ pos \in Nat /\ arrives \in Nat /\ arrives <= N
  <2>1. N \in Nat /\ reply.head \in 2..N /\ reply.payload \in Nat /\ pos \in Nat /\ arrives \in Nat /\ arrives \in 0..N
    BY <1>1, BodyFacts
  <2> QED
    BY <2>1
<1>4. /\ N = reply.head + reply.payload /\ pos = reply.head + m /\ m + n <= reply.payload
      /\ pos + n <= N /\ pos + n \in 0..arrives
  <2>1. N = reply.head + reply.payload /\ pos = reply.head + m
    BY <1>1, <1>3, BodyFacts, PlainFacts DEF InPlain
  <2>2. pos + n <= arrives /\ n \in Nat \ {0}
    BY <1>2
  <2> QED
    BY <1>0, <1>3, <2>1, <2>2, SMTT(20)
<1>5. ASSUME NEW i \in 1..n PROVE Tok(pos + i) = Unit(m + i)
  <2>0. i \in Nat /\ i >= 1 /\ i <= n /\ m + n <= reply.payload /\ pos = reply.head + m
    BY <1>2, <1>4
  <2>1. m + i \in 1..reply.payload /\ pos + i = reply.head + (m + i)
    BY <1>0, <2>0
  <2> QED
    BY <1>1, <2>1, BodyFacts, PlainFacts DEF InPlain
<1>6. body' \in Seq(Token) /\ Len(body') = m + n /\ body' = Units(m + n)
  BY <1>1, <1>2, <1>3, <1>4, <1>5, BodyFacts, GiveUnits
<1>7. pos' = reply.head + (m + n)
  BY <1>0, <1>2, <1>3, <1>4
<1>8. IF reply.framing = "length"
      THEN kind = "ContentLength" /\ remainingTotal' = reply.payload - (m + n) /\ remainingTotal' \in Nat
      ELSE kind = "UntilClose" /\ remainingTotal' = NoTotal
  <2>1. CASE reply.framing = "length"
    <3>1. remainingTotal = reply.payload - m /\ kind = "ContentLength"
      BY <1>1, <1>3, <2>1 DEF InPlain
    <3>2. remainingTotal # NoTotal /\ remainingTotal - n = reply.payload - (m + n)
          /\ reply.payload - (m + n) \in Nat
      <4>1. reply.payload \in Nat /\ m + n <= reply.payload /\ remainingTotal = reply.payload - m
        BY <1>0, <1>4, <3>1
      <4> QED
        BY <4>1 DEF NoTotal
    <3> QED
      BY <1>1, <1>2, <2>1, <3>1, <3>2
  <2>2. CASE reply.framing # "length"
    BY <1>1, <1>2, <2>2 DEF InPlain
  <2> QED
    BY <2>1, <2>2
<1>9. InPlain'
  BY <1>1, <1>6, <1>7, <1>8 DEF InPlain
<1>10. TypeOK'
  BY <1>1, <1>2, <1>4, <1>6, <1>8, BodyFacts, TypedStep DEF TypeOK, server
<1> QED
  BY <1>1, <1>4, <1>6, <1>9, <1>10 DEF IInv, Given, InBody

\* A size line is read between chunks, and nothing else is there.
LEMMA ChunkSizeStep == ASSUME IInv, ChunkSize PROVE IInv'
<1>1. /\ UNCHANGED <<reply, arrives, end, kind, remainingTotal, body>> /\ pc = "body" /\ More
      /\ kind = "Chunked" /\ remainingInChunk = 0 /\ pos' = pos + 1
  BY DEF ChunkSize, Step, Fail, server
<1>2. TypeOK /\ Given /\ InChunks /\ reply.framing = "chunked" /\ remainingTotal = NoTotal
  BY <1>1, BodyFacts
<1>3. N \in Nat /\ reply.head \in Nat /\ pos \in Nat /\ arrives \in Nat /\ arrives <= N
  <2>1. N \in Nat /\ reply.head \in 2..N /\ pos \in Nat /\ arrives \in Nat /\ arrives \in 0..N
    BY <1>1, BodyFacts
  <2> QED
    BY <2>1
<1>4. PICK k \in Sizes : BetweenChunks(k)
  <2>1. PICK k \in Sizes : BetweenChunks(k) \/ InsideChunk(k)
    BY <1>1, <1>2, BodyFacts
  <2>2. ~InsideChunk(k)
    BY <1>1 DEF InsideChunk
  <2> QED
    BY <2>1, <2>2
<1>5. k \in Nat /\ Tok(k).n \in Nat /\ Tok(k).before \in Nat /\ Tok(k).t = "size" /\ k <= N /\ k >= reply.head + 1
  <2>1. k \in (reply.head + 1)..N /\ Tok(k).t = "size"
    BY <1>4 DEF Sizes
  <2>2. k \in 1..N /\ k \in Nat /\ k <= N /\ k >= reply.head + 1
    BY <1>3, <2>1
  <2> QED
    BY <1>2, <2>1, <2>2, ReplyFacts
<1>6. pos = k - 1 /\ Len(body) = Tok(k).before /\ pos' = k
  BY <1>1, <1>4, <1>5 DEF BetweenChunks
<1>7. First = Tok(k) /\ First.t = "size"
  BY <1>5, <1>6 DEF First, Tok
<1>8. remainingInChunk' = Tok(k).n /\ pc' = IF Tok(k).n = 0 THEN "trailer" ELSE "body"
  BY <1>7 DEF ChunkSize
<1>9. TypeOK'
  <2>1. pos' \in 0..arrives
    BY <1>1, <1>3 DEF More
  <2> QED
    BY <1>1, <1>2, <1>5, <1>8, <2>1, TypedStep DEF TypeOK, server
<1>10. Given' /\ UNCHANGED <<N, Sizes, reply>> /\ Tok(k)' = Tok(k)
  BY <1>1, <1>2 DEF Given, N, Sizes, Tok
<1>11. CASE Tok(k).n = 0
  <2>1. Tok(k).before = reply.payload /\ k < N
    BY <1>2, <1>4, <1>11, ChunkFacts
  <2>2. k \in k..(N - 1)
    BY <1>3, <1>5, <2>1
  <2>3. InTrailer'
    BY <1>1, <1>2, <1>4, <1>6, <1>10, <1>11, <2>1, <2>2 DEF InTrailer
  <2> QED
    BY <1>8, <1>9, <1>10, <1>11, <2>3 DEF IInv
<1>12. CASE Tok(k).n # 0
  <2>1. Tok(k).n \in 1..Tok(k).n /\ Tok(k).n - Tok(k).n = 0 /\ k + 0 = k /\ Tok(k).before + 0 = Tok(k).before
    BY <1>5, <1>12
  <2>2. InChunks'
    BY <1>1, <1>2, <1>4, <1>6, <1>8, <1>10, <2>1 DEF InChunks
  <2> QED
    BY <1>8, <1>9, <1>10, <1>12, <2>2 DEF IInv, InBody
<1> QED
  BY <1>11, <1>12

LEMMA WantFacts ==
  ASSUME NEW left \in Nat, NEW n \in 1..Want(left) PROVE n \in Nat \ {0} /\ n <= left
  BY HttpAssumption DEF Want

\* Inside a chunk nothing but its units is read, and what must follow is there
\* unless the connection was cut.
LEMMA ReadChunkStep == ASSUME IInv, ReadChunk PROVE IInv'
<1>1. /\ UNCHANGED <<reply, arrives, end, kind, remainingTotal>> /\ pc = "body" /\ More
      /\ kind = "Chunked" /\ remainingInChunk > 0
  BY DEF ReadChunk, Step, Fail, server
<1>2. TypeOK /\ Given /\ InChunks /\ reply.framing = "chunked" /\ remainingTotal = NoTotal
  BY <1>1, BodyFacts
<1>3. N \in Nat /\ pos \in Nat /\ arrives \in Nat /\ arrives <= N /\ remainingInChunk \in Nat
  <2>1. N \in Nat /\ pos \in Nat /\ arrives \in Nat /\ arrives \in 0..N /\ remainingInChunk \in Nat
    BY <1>1, BodyFacts
  <2> QED
    BY <2>1
<1>4. \E k \in Sizes : InsideChunk(k)
  <2>1. PICK k \in Sizes : BetweenChunks(k) \/ InsideChunk(k)
    BY <1>1, <1>2, BodyFacts
  <2>2. ~BetweenChunks(k)
    BY <1>1, <1>3 DEF BetweenChunks
  <2> QED
    BY <2>1, <2>2
<1>5. \A k \in Sizes : k \in Nat /\ Tok(k).n \in Nat /\ Tok(k).before \in Nat /\ k <= N
  <2> SUFFICES ASSUME NEW k \in Sizes
               PROVE  k \in Nat /\ Tok(k).n \in Nat /\ Tok(k).before \in Nat /\ k <= N
    OBVIOUS
  <2>1. k \in (reply.head + 1)..N /\ reply.head \in 2..N
    BY <1>2, ReplyFacts DEF Sizes
  <2>2. k \in 1..N /\ k \in Nat /\ k <= N
    BY <1>3, <2>1
  <2> QED
    BY <1>2, <2>2, ReplyFacts
\* gone: how much of the chunk at k has been read
<1>6. PICK k \in Nat, size \in Nat, before \in Nat, gone \in Nat :
        /\ k \in Sizes /\ size = Tok(k).n /\ before = Tok(k).before
        /\ remainingInChunk = size - gone /\ gone < size
        /\ pos = k + gone /\ Len(body) = before + gone
  <2>1. PICK k \in Sizes : InsideChunk(k)
    BY <1>4
  <2>2. PICK g \in Nat : g = Tok(k).n - remainingInChunk
    BY <1>5, <2>1 DEF InsideChunk
  <2>3. remainingInChunk = Tok(k).n - g /\ g < Tok(k).n
    BY <1>1, <1>3, <1>5, <2>2
  <2> QED
    BY <1>5, <2>1, <2>2, <2>3 DEF InsideChunk
<1>7. size > 0
  BY <1>6
<1>8. /\ k + size + 2 \in Sizes /\ before + size <= reply.payload
      /\ \A i \in 1..size : Tok(k + i) = Unit(before + i)
      /\ Tok(k + size + 2).before = before + size
  BY <1>2, <1>6, <1>7, ChunkFacts
<1>9. k + size + 2 <= N
  BY <1>5, <1>8
<1>10. PICK n \in Nat \ {0} :
         /\ gone + n <= size /\ pos + n <= arrives
         /\ \/ /\ gone + n < size
               /\ Give(n) /\ pos' = pos + n
               /\ remainingInChunk' = size - (gone + n) /\ pc' = pc
            \/ /\ gone + n = size /\ pos + n < arrives
               /\ Give(n) /\ pos' = pos + n + 1 /\ remainingInChunk' = 0 /\ pc' = pc
            \/ gone + n = size /\ pos + n = arrives /\ pos' = arrives /\ Fail
  <2>1. PICK n \in Nat \ {0} :
         /\ n <= remainingInChunk /\ pos + n <= arrives
         /\ \/ n < remainingInChunk /\ Give(n) /\ pos' = pos + n
               /\ remainingInChunk' = remainingInChunk - n /\ pc' = pc
            \/ /\ n >= remainingInChunk /\ pos + n < arrives
               /\ Give(n) /\ pos' = pos + n + 1 /\ remainingInChunk' = 0 /\ pc' = pc
            \/ n >= remainingInChunk /\ pos + n = arrives /\ pos' = arrives /\ Fail
    <3>1. \A n \in 1..Want(remainingInChunk) : n \in Nat \ {0} /\ n <= remainingInChunk
      BY <1>3, WantFacts
    <3> QED
      BY <3>1 DEF ReadChunk
  <2>2. n <= size - gone /\ (n < remainingInChunk <=> n < size - gone)
        /\ (n >= remainingInChunk <=> n >= size - gone) /\ remainingInChunk - n = (size - gone) - n
    BY <1>6, <2>1
  <2>3. /\ gone + n <= size /\ (n < remainingInChunk => gone + n < size)
        /\ (n >= remainingInChunk => gone + n = size)
        /\ remainingInChunk - n = size - (gone + n)
    BY <2>2
  <2> QED
    BY <2>1, <2>3
<1>11. PICK m \in Nat : Len(body) = m /\ m = before + gone
  BY <1>6
<1>12. pos + n <= N /\ m + n <= reply.payload
  <2>1. m + n <= before + size /\ before + size \in Nat /\ pos + n <= N
    BY <1>3, <1>10, <1>11
  <2>2. reply.payload \in Nat
    BY <1>2, ReplyFacts
  <2> QED
    BY <1>8, <1>10, <1>11, <2>1, <2>2
<1>13. ASSUME Give(n) PROVE body' \in Seq(Token) /\ Len(body') = m + n /\ body' = Units(m + n)
  <2>1. ASSUME NEW i \in 1..n PROVE Tok(pos + i) = Unit(m + i)
    <3>1. i \in Nat /\ gone + i \in 1..size
      BY <1>10
    <3>2. pos + i = k + (gone + i) /\ m + i = before + (gone + i)
      BY <1>6, <1>11, <3>1
    <3> QED
      BY <1>8, <3>1, <3>2
  <2> QED
    BY <1>2, <1>10, <1>11, <1>12, <1>13, <2>1, GiveUnits
<1>14. UNCHANGED <<Sizes, N>> /\ \A j : Tok(j)' = Tok(j)
  BY <1>1 DEF Sizes, N, Tok
<1>15. ASSUME Give(n), pc' = pc, pos' \in 0..arrives, remainingInChunk' \in Nat, InChunks' PROVE IInv'
  <2>1. TypeOK'
    BY <1>1, <1>2, <1>13, <1>15, TypedStep DEF TypeOK, server
  <2>2. Given'
    BY <1>1, <1>12, <1>13, <1>15 DEF Given
  <2> QED
    BY <1>1, <1>15, <2>1, <2>2 DEF IInv, InBody
<1>16. CASE /\ gone + n < size /\ Give(n) /\ pos' = pos + n
            /\ remainingInChunk' = size - (gone + n) /\ pc' = pc
  <2>1. PICK g \in Nat : g = gone + n /\ g < size /\ m + n = before + g /\ pos + n = k + g
    BY <1>6, <1>10, <1>11, <1>16, SMTT(20)
  <2>2. remainingInChunk' \in 1..size /\ remainingInChunk' \in Nat /\ size - remainingInChunk' = g
    BY <1>16, <2>1
  <2>3. pos' \in 0..arrives
    BY <1>3, <1>10, <1>16
  <2>4. InChunks'
    BY <1>1, <1>2, <1>6, <1>13, <1>14, <1>16, <2>1, <2>2 DEF InChunks
  <2> QED
    BY <1>15, <1>16, <2>2, <2>3, <2>4
<1>17. CASE /\ gone + n = size /\ pos + n < arrives
            /\ Give(n) /\ pos' = pos + n + 1 /\ remainingInChunk' = 0 /\ pc' = pc
  <2>1. pos' = (k + (gone + n)) + 1 /\ m + n = before + (gone + n)
    <3>1. pos = k + gone /\ pos' = pos + n + 1 /\ m = before + gone
      BY <1>6, <1>11, <1>17
    <3> QED
      BY <3>1
  <2>2. pos' = (k + size + 2) - 1 /\ m + n = before + size
    BY <1>17, <2>1
  <2>3. pos' \in 0..arrives
    BY <1>3, <1>17
  <2>4. InChunks'
    BY <1>1, <1>2, <1>8, <1>13, <1>14, <1>17, <2>2 DEF InChunks
  <2> QED
    BY <1>15, <1>17, <2>3, <2>4
<1>18. CASE gone + n = size /\ pos + n = arrives /\ pos' = arrives /\ Fail
  <2>1. arrives # N /\ pos' \in 0..arrives
    BY <1>3, <1>6, <1>9, <1>18
  <2> QED
    BY <1>1, <1>18, <2>1, FailStep DEF Whole, N, server
<1> QED
  BY <1>10, <1>16, <1>17, <1>18

\* A size line cut short is read for the last chunk's only if it was padded,
\* or is the last chunk's.
LEMMA CutSizeStep == ASSUME IInv, CutSize PROVE IInv'
<1>1. /\ UNCHANGED <<reply, arrives, end, pos, kind, remainingTotal, remainingInChunk, body>>
      /\ pc = "body" /\ pc' = "trailer" /\ kind = "Chunked" /\ remainingInChunk = 0
      /\ ~More /\ end = "torn" /\ Part.t = "size" /\ (reply.padded \/ Part.n = 0)
  BY DEF CutSize, Step, server
<1>2. /\ TypeOK /\ Given /\ InBody /\ arrives < N /\ pos = arrives
      /\ N \in Nat /\ pos \in Nat /\ arrives \in Nat /\ reply.head \in Nat
  <2>1. /\ TypeOK /\ Given /\ InBody /\ N \in Nat /\ pos \in 0..arrives /\ pos \in Nat
        /\ arrives \in Nat /\ reply.head \in 2..N
    BY <1>1, BodyFacts
  <2>2. arrives < N
    BY <1>1, <2>1 DEF TypeOK
  <2> QED
    BY <1>1, <2>1, <2>2 DEF More
<1>3. ~CutInHead
  <2> SUFFICES ASSUME CutInHead PROVE FALSE
    OBVIOUS
  <2>1. WellHeaded(reply) /\ arrives + 1 <= reply.head /\ Part = reply.tokens[arrives + 1]
    BY <1>2, ReplyFacts DEF CutInHead, Part
  <2>2. arrives + 1 = 1 \/ arrives + 1 = reply.head \/ arrives + 1 \in 2..(reply.head - 1)
    BY <1>2, <2>1
  <2>3. Part.t = "status" \/ Part.t = "blank" \/ Part.t \in Header
    BY <2>1, <2>2 DEF WellHeaded
  <2> QED
    BY <1>1, <2>3 DEF Header
<1>4. InChunks
  BY <1>1, <1>2, <1>3 DEF InBody, InPlain
<1>5. PICK k \in Sizes : BetweenChunks(k)
  <2>1. PICK k \in Sizes : BetweenChunks(k) \/ InsideChunk(k)
    BY <1>1, <1>4, BodyFacts
  <2>2. ~InsideChunk(k)
    BY <1>1 DEF InsideChunk
  <2> QED
    BY <2>1, <2>2
<1>6. Part = Tok(k) /\ Len(body) = Tok(k).before /\ reply.framing = "chunked"
  <2>1. k \in Nat /\ pos = k - 1
    BY <1>1, <1>2, <1>4, <1>5, BodyFacts, ChunkFacts DEF BetweenChunks
  <2>2. arrives + 1 = k
    BY <1>2, <2>1
  <2> QED
    BY <1>1, <1>4, <1>5, <2>2, BodyFacts DEF BetweenChunks, Part, Tok
<1>7. Len(body) = reply.payload \/ CutInPaddedSize
  BY <1>1, <1>2, <1>5, <1>6, ChunkFacts DEF CutInPaddedSize
<1>8. InTrailer'
  BY <1>1, <1>2, <1>6, <1>7 DEF InTrailer, CutInPaddedSize, Part, N
<1>9. TypeOK' /\ Given'
  BY <1>1, <1>2, TypedStep DEF TypeOK, Given, server
<1> QED
  BY <1>1, <1>8, <1>9 DEF IInv

\* Behind the last chunk every byte of the body has been given.
LEMMA TrailerStep == ASSUME IInv, Trailer PROVE IInv'
<1>1. /\ UNCHANGED <<reply, arrives, end, kind, remainingTotal, remainingInChunk, body>>
      /\ pc = "trailer" /\ TypeOK /\ Given /\ InTrailer
  BY DEF Trailer, Step, server, IInv
<1>2. N \in Nat /\ pos \in Nat /\ arrives \in Nat /\ arrives <= N /\ pos <= arrives
  <2>1. N \in Nat /\ pos \in Nat /\ arrives \in 0..N /\ pos \in 0..arrives /\ arrives \in Nat
    BY <1>1, ReplyFacts
  <2> QED
    BY <2>1
<1>3. Len(body) = reply.payload \/ CutInPaddedSize
  BY <1>1 DEF InTrailer
<1>4. pos < N
  <2>1. CASE \E k \in Sizes : pos \in k..(N - 1)
    <3>1. PICK k \in Sizes : pos \in k..(N - 1)
      BY <2>1
    <3> QED
      BY <1>2, <3>1
  <2>2. CASE pos = arrives /\ arrives < N
    BY <2>2
  <2> QED
    BY <1>1, <2>1, <2>2 DEF InTrailer
<1>5. UNCHANGED <<Sizes, N>> /\ (\A j : Tok(j)' = Tok(j)) /\ Given'
  BY <1>1 DEF Sizes, N, Tok, Given
<1>6. AtEnd'
  <2>1. (Len(body) = reply.payload \/ CutInPaddedSize)'
    BY <1>1, <1>3 DEF CutInPaddedSize, Part
  <2>2. CASE Len(body) = reply.payload
    BY <1>1, <2>1, <2>2 DEF AtEnd
  <2>3. CASE CutInPaddedSize
    <3>1. ~Whole'
      BY <1>1, <1>2, <2>3 DEF CutInPaddedSize, TypeOK, Whole, N
    <3> QED
      BY <2>1, <3>1 DEF AtEnd
  <2> QED
    BY <1>3, <2>2, <2>3
<1>7. CASE More
  <2>1. pos' = pos + 1 /\ pc' = (IF First.t = "blank" THEN "done" ELSE "trailer") /\ First = Tok(pos + 1)
    BY <1>7 DEF Trailer, First, Tok
  <2>2. TypeOK'
    <3>1. pos' \in 0..arrives
      BY <1>2, <1>7, <2>1 DEF More
    <3> QED
      BY <1>1, <2>1, <3>1, TypedStep DEF TypeOK, server
  <2>3. CASE First.t = "blank"
    BY <1>5, <1>6, <2>1, <2>2, <2>3 DEF IInv
  <2>4. CASE First.t # "blank"
    <3>0. pos # arrives
      BY <1>2, <1>7 DEF More
    <3>00. PICK k \in Sizes : Tok(k).n = 0 /\ pos \in k..(N - 1)
      BY <1>1, <3>0 DEF InTrailer
    <3>01. k \in Nat /\ Tok(N).t = "blank" /\ reply.framing = "chunked" /\ Len(body) = reply.payload
      BY <1>1, <3>0, <3>00, ChunkFacts DEF InTrailer
    <3>1. pos + 1 # N
      BY <2>1, <2>4, <3>01
    <3>2. pos' \in k..(N - 1)
      BY <1>2, <2>1, <3>00, <3>01, <3>1
    <3>3. InTrailer'
      BY <1>1, <1>5, <3>00, <3>01, <3>2 DEF InTrailer
    <3> QED
      BY <1>5, <2>1, <2>2, <2>4, <3>3 DEF IInv
  <2> QED
    BY <2>3, <2>4
<1>8. CASE ~More
  <2>1. pos' = pos /\ pc' \in {"done", "failed"}
    BY <1>8 DEF Trailer, TrailerCut
  <2>2. TypeOK'
    BY <1>1, <2>1, TypedStep DEF TypeOK, server
  <2>3. arrives # N
    BY <1>2, <1>4, <1>8 DEF More
  <2>4. ~(Whole /\ reply.framing # "close")'
    BY <1>1, <2>3 DEF Whole, N
  <2> QED
    BY <1>5, <1>6, <2>1, <2>2, <2>4 DEF IInv
<1> QED
  BY <1>7, <1>8

LEMMA StutterStep == ASSUME IInv, UNCHANGED vars PROVE IInv'
<1>1. /\ UNCHANGED <<reply, arrives, end, pos, pc, kind, remainingTotal, remainingInChunk, body>>
  BY DEF vars, server
<1>2. UNCHANGED <<TypeOK, Given, InHead, InPlain, InChunks, CutInHead, InTrailer, AtEnd, Whole,
                  CutInPaddedSize>>
  BY <1>1 DEF TypeOK, Given, InHead, KindSoFar, InPlain, InChunks, CutInHead, InTrailer, AtEnd,
              Whole, Sizes, N, Tok, CutInPaddedSize, Part
<1> QED
  BY <1>1, <1>2 DEF IInv, InBody

-----------------------------------------------------------------------------
(* The theorems.                                                           *)

LEMMA InitIInv == ASSUME Init PROVE IInv
<1>1. WellHeaded(reply)
  BY HttpAssumption DEF Init
<1>2. N \in Nat /\ reply.head \in 2..N /\ reply.payload \in Nat /\ Len(reply.tokens) = N
  BY <1>1 DEF WellHeaded, N
<1>3. TypeOK
  <2>1. pos \in 0..arrives
    BY <1>2 DEF Init
  <2>2. arrives \in 0..N /\ (end = "torn" => arrives < N)
    <3>1. arrives \in 0..N /\ (end = "torn" => arrives # N)
      BY DEF Init, Whole, N
    <3> QED
      BY <1>2, <3>1
  <2> QED
    BY <1>2, <2>1, <2>2 DEF Init, TypeOK
<1>4. Given
  <2>1. Units(0) = <<>>
    BY DEF Units
  <2> QED
    BY <1>2, <2>1 DEF Init, Given
<1>5. InHead
  <2>1. \A k : k \notin 2..pos
    BY DEF Init
  <2> QED
    BY <2>1 DEF Init, InHead, KindSoFar
<1> QED
  BY <1>3, <1>4, <1>5 DEF Init, IInv

LEMMA Inductive == ASSUME IInv, [Next]_vars PROVE IInv'
<1>1. CASE UNCHANGED vars
  BY <1>1, StutterStep
<1>2. CASE Next
  BY <1>2, HeadSteps, CutHeaderStep, HeadersEndStep, ReadFailsStep, PlainEndSteps, ReadPlainStep,
     ChunkSizeStep, CutSizeStep, ReadChunkStep, TrailerStep, ChunkedCutStep DEF Next
<1> QED
  BY <1>1, <1>2

LEMMA Invariance == Spec => []IInv
<1>1. Init => IInv
  BY InitIInv
<1>2. IInv /\ [Next]_vars => IInv'
  BY Inductive
<1> QED
  BY <1>1, <1>2, PTL DEF Spec

\* Whatever correct reply the server sends, wherever the connection is cut and
\* however large the buffer is, the caller is given a prefix of the payload.
THEOREM PayloadOnly == Spec => []OnlyPayload
<1>1. IInv => OnlyPayload
  <2> SUFFICES ASSUME IInv PROVE OnlyPayload
    OBVIOUS
  <2>1. TypeOK /\ reply.payload \in Nat /\ Given
    BY ReplyFacts DEF IInv
  <2>2. PICK m \in Nat, p \in Nat : Len(body) = m /\ body = Units(m) /\ p = reply.payload /\ m <= p
    BY <2>1 DEF TypeOK, Given
  <2>3. /\ Len(Units(p)) = p /\ \A i \in 1..p : Units(p)[i] = Unit(i)
        /\ Len(Units(m)) = m /\ \A i \in 1..m : Units(m)[i] = Unit(i)
        /\ Units(p) \in Seq(Token) /\ Units(m) \in Seq(Token)
    BY <2>2, UnitsFacts
  <2>4. IsPrefix(Units(m), Units(p))
    BY <2>2, <2>3 DEF IsPrefix
  <2> QED
    BY <2>2, <2>4 DEF OnlyPayload
<1> QED
  BY <1>1, Invariance, PTL

\* A chunked reply that ends without an error has been given to its last byte,
\* unless its sizes are padded and the connection was closed within one: a 0 in
\* front of a size, all that has come of it, ends the body.
THEOREM ChunkedEndsWhole == Spec => []ChunkedEndIsWhole
<1>1. IInv => ChunkedEndIsWhole
  BY DEF IInv, AtEnd, ChunkedEndIsWhole
<1> QED
  BY <1>1, Invariance, PTL

\* A framed reply that arrives whole never fails, and ends with all of it given.
THEOREM WholeReplies == Spec => []WholeReplyIsRead
<1>1. IInv => WholeReplyIsRead
  BY DEF IInv, AtEnd, WholeReplyIsRead
<1> QED
  BY <1>1, Invariance, PTL

=============================================================================
