--------------------------------- MODULE Api ---------------------------------
(***************************************************************************)
(* One ApiClient::call (src/src/api.rs): the retry loop with its doubling  *)
(* delay, the hashcash rounds inside an attempt, and what is made of each  *)
(* reply.  The server answers as it likes; a reply read in full by         *)
(* http::post may still be cut short (HttpBody's PlainEndsAtClose).        *)
(*                                                                         *)
(* Replies are named by their shape; commands, JSON, the search for a      *)
(* hashcash and the texts of errors are left out.  Delays are in units of  *)
(* the first one, 250 ms.                                                  *)
(***************************************************************************)
EXTENDS Naturals

CONSTANTS
  GiveUpAfter,  \* 256 s: the longest delay that is slept
  Rounds,       \* 4: posts of one attempt
  MaxCalls      \* bound: calls made on the client, one after another

ASSUME ApiAssumption ==
  GiveUpAfter \in Nat \ {0} /\ Rounds \in Nat \ {0} /\ MaxCalls \in Nat \ {0}

VARIABLES
  pc,         \* "idle", "post", "wait", "ok", "failed"
  calls,      \* calls begun on this client
  delay,
  waited,     \* history: the delays slept in this call, added up
  seq,        \* the client's request counter
  id,         \* the id in this attempt's URL
  round,      \* posts left in this attempt
  hashcash,   \* the challenge its next post answers, or NoChallenge
  challenge,  \* history: the server's last challenge to it, or NoChallenge
  last,       \* history: the last reply
  used        \* history: the ids of earlier attempts

vars == <<pc, calls, delay, waited, seq, id, round, hashcash, challenge, last, used>>

\* The shapes of a reply with status 200 or 201.  A number is an error of the
\* request, a number in an array one of the command; "value" is anything else
\* first in an array, and "cut" what is left of one when the connection closes.
Bodies == {"value", "eagain", "[eagain]", "code", "[code]", "positive", "garbage", "cut"}

\* How else a post may end: no reply, or another status; a 402 that cannot be
\* answered has no challenge or an unsupported one.
Fates == Bodies \cup {"io error", "500", "other status", "402", "unanswerable 402"}

Challenges  == 1..2
NoChallenge == 0

Init ==
  /\ pc = "idle" /\ calls = 0 /\ delay = 1 /\ waited = 0
  /\ seq = 0 /\ id = 0 /\ round = 0
  /\ hashcash = NoChallenge /\ challenge = NoChallenge
  /\ last = "none" /\ used = {}

-----------------------------------------------------------------------------
\* decode_api_response: what is returned as the command's result ...
IsValue(b) == b = "value"

\* ... and with post's own errors, after what call tries again.
MayRetry(f) == f \in {"io error", "500", "eagain"}

\* An attempt has an id of its own, which all its rounds share.
NextSeq(n) == n + 1

KeepsHashcash == hashcash
FirstHashcash == NoChallenge

NewAttempt ==
  /\ id' = seq /\ seq' = NextSeq(seq)
  /\ used' = IF calls = 0 THEN {} ELSE used \cup {id}
  /\ round' = Rounds
  /\ hashcash' = FirstHashcash /\ challenge' = NoChallenge
  /\ pc' = "post"

Call ==
  /\ pc \in {"idle", "ok", "failed"} /\ calls < MaxCalls
  /\ calls' = calls + 1 /\ delay' = 1 /\ waited' = 0
  /\ NewAttempt /\ UNCHANGED last

\* One round of post, and what becomes of the call.
Outcome(f) == CASE IsValue(f)  -> "ok"
                [] MayRetry(f) -> "wait"
                [] OTHER       -> "failed"

Answered(f) ==
  /\ pc = "post" /\ round > 0 /\ f # "402"
  /\ last' = f /\ pc' = Outcome(f)
  /\ UNCHANGED <<calls, delay, waited, seq, id, round, hashcash, challenge, used>>

RoundKept(n)  == n
RoundSpent(n) == n - 1

\* The proof-of-work gate: the request again, with the challenge answered.
Gated(c) ==
  /\ pc = "post" /\ round > 0
  /\ last' = "402" /\ round' = RoundSpent(round)
  /\ challenge' = c /\ hashcash' = c
  /\ UNCHANGED <<pc, calls, delay, waited, seq, id, used>>

TooManyRounds ==
  /\ pc = "post" /\ round = 0
  /\ pc' = "failed"
  /\ UNCHANGED <<calls, delay, waited, seq, id, round, hashcash, challenge, last, used>>

TooLongOnce(d) == d > 2 * GiveUpAfter
TooLong(d)     == d > GiveUpAfter

GivesUp ==
  /\ pc = "wait" /\ TooLong(delay)
  /\ pc' = "failed"
  /\ UNCHANGED <<calls, delay, waited, seq, id, round, hashcash, challenge, last, used>>

TriesAgain ==
  /\ pc = "wait" /\ ~TooLong(delay)
  /\ waited' = waited + delay /\ delay' = 2 * delay
  /\ NewAttempt /\ UNCHANGED <<calls, last>>

Reply == (\E f \in Fates : Answered(f)) \/ (\E c \in Challenges : Gated(c))
Next  == Call \/ Reply \/ TooManyRounds \/ GivesUp \/ TriesAgain

\* A post ends: every read and write has a timeout.  Nobody has to call again.
Spec == Init /\ [][Next]_vars /\ WF_vars(Reply \/ TooManyRounds \/ GivesUp \/ TriesAgain)

-----------------------------------------------------------------------------
TypeOK ==
  /\ pc \in {"idle", "post", "wait", "ok", "failed"} /\ calls \in 0..MaxCalls
  /\ delay \in 1..(2 * GiveUpAfter) /\ waited \in Nat
  /\ seq \in Nat /\ id \in Nat /\ used \subseteq Nat /\ round \in 0..Rounds
  /\ hashcash \in Challenges \cup {NoChallenge}
  /\ challenge \in Challenges \cup {NoChallenge}
  /\ last \in Fates \cup {"none"}

\* The waits of a call add up to less than twice the longest of them, 512 s,
\* however it is mixed of errors, 500s and EAGAIN (api.rs:68-80).
BoundedPatience == waited < 2 * GiveUpAfter

\* No two attempts share an id, over all the calls of a client: the server
\* would take the second for a replay (api.rs:85).
AttemptsAreDistinct == id \notin used

\* Every post answers the challenge the server last set to this very request,
\* and one that was set none answers none (api.rs:90-108).
AnswersTheChallenge == pc = "post" => hashcash = challenge

\* Every call returns, even from a server that only sends new challenges.
CallReturns == pc = "post" ~> pc \in {"ok", "failed"}

GaveUp == TooLong(delay)

\* "retrying EAGAIN (and dropped connections / 500s)": none of these ends a
\* call before patience has run out (api.rs:61).  Two do: an EAGAIN in an
\* array, the shape of a command's errors, and a connection dropped within
\* the body of a reply, of which what arrived is no JSON.
RetriesWhatItSays ==
  pc = "failed" /\ ~GaveUp => last \notin {"io error", "500", "cut", "eagain", "[eagain]"}

=============================================================================
