------------------------------ MODULE Download ------------------------------
(***************************************************************************)
(* One file's download (src/src/download.rs): sync_file, fetch_file,       *)
(* fetch_range and wait_or_cancel, run again and again by a user over one  *)
(* target path, with the faults the code is written for: dropped and       *)
(* over-long bodies, corrupted data, refused requests, expired URLs, local *)
(* I/O errors, cancellation, kill -9 and power loss.                       *)
(*                                                                         *)
(* A file is a sequence of units (the bytes of one read).  Unit k of the   *)
(* remote file has the plaintext k; 0 is a unit with any other content.    *)
(* The cipher is a stream, so a ciphertext unit decrypts to its plaintext  *)
(* only at its own offset.  The chunked MAC is the sequence of units it    *)
(* was fed, and matches the key's only if that is the remote file (module  *)
(* ChunkedMac models how it gets there from arbitrary reads).              *)
(***************************************************************************)
EXTENDS Naturals, Sequences, SequencesExt

CONSTANTS
  Size,        \* units in the remote file (FileJob.size, get_url's size)
  FetchChunk,  \* units per range request (FETCH_CHUNK_SIZE)
  MaxTries,    \* the cap of the back-off exponent (8 in the code)
  OverSend,    \* bound: units a broken server may send beyond the file (the
               \* read loop has none: it reads until the body ends)
  NoFile       \* a path with nothing at it

ASSUME DownloadAssumption ==
  /\ Size \in Nat
  /\ FetchChunk \in Nat \ {0}
  /\ MaxTries \in Nat \ {0}
  /\ OverSend \in Nat
  /\ NoFile \notin Seq(0..Size)

Unit  == 0..Size
Plain == [k \in 1..Size |-> k]

VARIABLES
  \* on disk
  partial,     \* content of .megatmp.<handle>
  local,       \* content of local_path
  unsynced,    \* which of "partial", "local" (contents) and "rename" (the
               \* directory entry) have not reached stable storage
  \* the running sync_file
  pc,          \* where it is
  pos, mac,    \* fetch_file's pos and running MAC
  req,         \* fetch_range's locals and the response it reads
  tries,       \* fetch_file's tries
  late,        \* Instant::now() > deadline
  cancel,      \* the flag behind the cancel() closure
  url,         \* whether the URL that get_url returned still works
  outcome,     \* how the last run ended
  \* history, read by properties only
  tainted,     \* the environment has damaged what the partial was made of
  afterCancel  \* units accepted since cancel was set

disk  == <<partial, local, unsynced, tainted>>
place == <<pos, mac, req>>
marks == <<tries, late, cancel, url, outcome, afterCancel>>
run   == <<place, marks>>
vars  == <<disk, pc, run>>

Outcomes == {"none", "done", "skipped", "cancelled", "failed"}
Labels   == {"idle", "resolve", "open", "loop", "poll", "read", "retry",
             "wait", "sync", "rename"}

\* from, end: the range asked for.  sent: what the server has streamed of
\* the file.  ks: how far the keystream is.  at: the file cursor.
Request(f, e, n, k, c) == [from |-> f, end |-> e, sent |-> n, ks |-> k, at |-> c]
NoRequest == Request(0, 0, 0, 0, 0)

-----------------------------------------------------------------------------
(* Pure parts of the code.  A definition placed just before another, with  *)
(* the same parameters, is a plausible slip in it; only the mutation runs  *)
(* use it.                                                                 *)

\* The end of the range requested at offset p.
RangeEnd(p) == IF p + FetchChunk < Size THEN p + FetchChunk ELSE Size

\* apply_keystream: cipher unit c under the keystream of unit k.
DecryptAt(c, k) == IF c = k /\ k <= Size THEN c ELSE 0

\* write_all(u) with the file cursor at offset at; a gap reads as garbage.
WriteAt(s, at, u) ==
  [i \in 1..(IF at < Len(s) THEN Len(s) ELSE at + 1) |->
     IF i = at + 1 THEN u ELSE IF i <= Len(s) THEN s[i] ELSE 0]

\* mac.update(u)
MacUpdate(m, u) == Append(m, u)

\* The running MAC that has been fed the units of s: fetch_file's resume loop.
MacForgotten(s) == <<>>
MacOf(s) == s

\* mac.finish() == job.key.meta_mac
MacMatches(m) == m = Plain

\* What the open file holds: OpenOptions create(true).truncate(false).
OpenedTruncated(s) == <<>>
Opened(s) == IF s = NoFile THEN <<>> ELSE s

\* cancel(), as the read loop sees it before each read.
MayReadUnpolled == TRUE
MayRead == ~cancel

\* cancel(), as fetch_file and wait_or_cancel see it between attempts.
CancelUnseen == FALSE
CancelSeen == cancel

\* The retry window has closed: the deadline is set once per file.
WindowReopened == FALSE
WindowClosed == late

\* The back-off exponent of one more attempt.
Escalate(t) == IF t < MaxTries THEN t + 1 ELSE t

\* fetch_range's request and response, begun at offset p: seek to p,
\* POST <url>/<p>-<end - 1>, ctr_at(p).
RangeKeyRestarted(p) == Request(p, RangeEnd(p), p, 0, p)
RangeAt(p) == Request(p, RangeEnd(p), p, p, p)

\* The partial after remove_file on a MAC mismatch, whose failure is ignored.
AfterMismatch(removed) == IF removed THEN NoFile ELSE partial

\* What has not reached stable storage after sync_all on the partial.
AfterFlush(u) == u
AfterSync(u) == u \ {"partial"}

\* What sync_file makes of a FetchErr::Fatal met at label l.
ErrorOutcome(l) == "failed"

-----------------------------------------------------------------------------
Init ==
  /\ partial = NoFile /\ local = NoFile /\ unsynced = {} /\ tainted = FALSE
  /\ pc = "idle"
  /\ pos = 0 /\ mac = <<>> /\ req = NoRequest /\ tries = 0
  /\ late = FALSE /\ cancel = FALSE /\ url = "none" /\ outcome = "none"
  /\ afterCancel = 0

\* sync_file returns, or its process ends: everything but the disk is gone.
Stop(o) ==
  /\ pc' = "idle" /\ outcome' = o
  /\ pos' = 0 /\ mac' = <<>> /\ req' = NoRequest /\ tries' = 0
  /\ late' = FALSE /\ cancel' = FALSE /\ url' = "none" /\ afterCancel' = 0

(* sync_file.                                                              *)
Skip ==
  /\ pc = "idle" /\ local # NoFile
  /\ Stop("skipped")
  /\ UNCHANGED disk

Start ==
  /\ pc = "idle" /\ local = NoFile
  /\ pc' = "resolve" /\ outcome' = "none"
  /\ UNCHANGED <<disk, place, tries, late, cancel, url, afterCancel>>

CreateDirFails ==
  /\ pc = "idle" /\ local = NoFile
  /\ Stop(ErrorOutcome(pc))
  /\ UNCHANGED disk

(* fetch_file, up to its loop.                                             *)
GetUrl ==
  /\ pc = "resolve"
  /\ pc' = "open" /\ url' = "live"
  /\ UNCHANGED <<disk, place, tries, late, cancel, outcome, afterCancel>>

\* Open the partial and feed what it holds to the MAC.
Open ==
  /\ pc = "open"
  /\ partial' = Opened(partial)
  /\ unsynced' = IF partial = NoFile THEN unsynced \cup {"partial"} ELSE unsynced
  /\ IF Len(partial') > Size
     THEN Stop(ErrorOutcome(pc))
     ELSE /\ pc' = "loop" /\ pos' = Len(partial') /\ mac' = MacOf(partial')
          /\ UNCHANGED <<req, marks>>
  /\ UNCHANGED <<local, tainted>>

\* get_url, the resume's read, the seek of fetch_range (or a URL http::post
\* cannot use), sync_all or the rename fails: the run is over.
Fails ==
  /\ \/ pc \in {"resolve", "open", "sync", "rename"}
     \/ pc = "loop" /\ pos < Size
  /\ Stop(ErrorOutcome(pc))
  /\ UNCHANGED disk

(* fetch_range.                                                            *)
RangeAccepted ==
  /\ pc = "loop" /\ pos < Size /\ url = "live"
  /\ pc' = "poll" /\ req' = RangeAt(pos)
  /\ UNCHANGED <<disk, pos, mac, marks>>

\* No connection, a timeout, or a status that is not 200 or 201.
RangeRefused ==
  /\ pc = "loop" /\ pos < Size
  /\ pc' = "retry" /\ req' = RangeAt(pos)
  /\ UNCHANGED <<disk, pos, mac, marks>>

\* The cancel check at the head of the read loop passes.
Poll ==
  /\ pc = "poll" /\ MayRead
  /\ pc' = "read"
  /\ UNCHANGED <<disk, run>>

\* body.read returns cipher unit c: decrypt, write, MAC, advance.
Accept(c) ==
  LET u == DecryptAt(c, req.ks + 1) IN
  /\ pc = "read"
  /\ pc' = "poll"
  /\ partial' = WriteAt(partial, req.at, u)
  /\ unsynced' = unsynced \cup {"partial"}
  /\ mac' = MacUpdate(mac, u)
  /\ pos' = pos + 1
  /\ req' = [req EXCEPT !.sent = @ + 1, !.ks = @ + 1, !.at = @ + 1]
  /\ afterCancel' = IF cancel THEN afterCancel + 1 ELSE afterCancel
  /\ UNCHANGED <<local, tries, late, cancel, url, outcome>>

ReadUnit ==
  /\ req.sent < req.end
  /\ Accept(req.sent + 1)
  /\ UNCHANGED tainted

\* The server, or the path to it, changes the data.
ReadCorrupted ==
  /\ req.sent < req.end
  /\ Accept(0)
  /\ tainted' = TRUE

\* The server sends more than the range: more of the file, then garbage.
ReadOverrun ==
  /\ req.end <= req.sent /\ req.sent < Size + OverSend
  /\ Accept(IF req.sent < Size THEN req.sent + 1 ELSE 0)
  /\ tainted' = (tainted \/ req.sent >= Size)

\* A timeout, a reset, or a broken chunked body.
ReadFails ==
  /\ pc = "read"
  /\ pc' = "retry"
  /\ UNCHANGED <<disk, run>>

\* The unit may or may not be in the file; pos and mac do not count it.
WriteFails ==
  /\ pc = "read" /\ req.sent < req.end
  /\ partial' \in {partial,
                   WriteAt(partial, req.at, DecryptAt(req.sent + 1, req.ks + 1))}
  /\ unsynced' = unsynced \cup {"partial"}
  /\ Stop(ErrorOutcome(pc))
  /\ UNCHANGED <<local, tainted>>

\* body.read returns 0: the range is complete, or the server closed early.
EndOfBody ==
  /\ pc = "read"
  /\ IF pos = req.end THEN pc' = "loop" /\ tries' = 0
                      ELSE pc' = "retry" /\ UNCHANGED tries
  /\ UNCHANGED <<disk, place, late, cancel, url, outcome, afterCancel>>

(* fetch_file, between attempts.                                           *)
\* cancel() in the read loop, after a FetchErr::Retry or in wait_or_cancel.
Cancelled ==
  /\ \/ pc = "poll" /\ cancel
     \/ pc \in {"retry", "wait"} /\ CancelSeen
  /\ Stop("cancelled")
  /\ UNCHANGED disk

GiveUp ==
  /\ pc = "retry" /\ ~CancelSeen /\ WindowClosed
  /\ Stop(ErrorOutcome(pc))
  /\ UNCHANGED disk

Retry ==
  /\ pc = "retry" /\ ~CancelSeen /\ ~WindowClosed
  /\ pc' = "wait" /\ tries' = Escalate(IF pos > req.from THEN 0 ELSE tries)
  /\ UNCHANGED <<disk, place, late, cancel, url, outcome, afterCancel>>

WaitEnds ==
  /\ pc = "wait" /\ ~CancelSeen
  /\ pc' = "loop"
  /\ UNCHANGED <<disk, run>>

(* fetch_file, once pos >= size.                                           *)
Verify ==
  /\ pc = "loop" /\ pos >= Size /\ MacMatches(mac)
  /\ pc' = "sync"
  /\ UNCHANGED <<disk, run>>

Discard(removed) ==
  /\ pc = "loop" /\ pos >= Size /\ ~MacMatches(mac)
  /\ partial' = AfterMismatch(removed)
  /\ unsynced' = IF partial' = NoFile THEN unsynced \ {"partial"} ELSE unsynced
  /\ tainted' = (tainted /\ partial' # NoFile)
  /\ Stop(ErrorOutcome(pc))
  /\ UNCHANGED local

Sync ==
  /\ pc = "sync"
  /\ pc' = "rename" /\ unsynced' = AfterSync(unsynced)
  /\ UNCHANGED <<partial, local, tainted, run>>

Rename ==
  /\ pc = "rename"
  /\ local' = partial /\ partial' = NoFile /\ tainted' = FALSE
  /\ unsynced' = {"rename"} \cup (IF "partial" \in unsynced THEN {"local"} ELSE {})
  /\ Stop("done")

-----------------------------------------------------------------------------
(* The environment.                                                        *)

\* Ctrl-C in the CLI; removing the item or quitting in the TUI.
UserCancels ==
  /\ pc # "idle" /\ ~cancel
  /\ cancel' = TRUE
  /\ UNCHANGED <<disk, pc, place, tries, late, url, outcome, afterCancel>>

\* RETRY_WINDOW has passed since the file was opened.
ClockExpires ==
  /\ pc \notin {"idle", "resolve", "open"} /\ ~late
  /\ late' = TRUE
  /\ UNCHANGED <<disk, pc, place, tries, cancel, url, outcome, afterCancel>>

\* MEGA's storage URLs do not live for ever.
UrlExpires ==
  /\ url = "live"
  /\ url' = "expired"
  /\ UNCHANGED <<disk, pc, place, tries, late, cancel, outcome, afterCancel>>

\* The process dies; what it wrote is in the page cache.
Kill ==
  /\ pc # "idle"
  /\ Stop("none")
  /\ UNCHANGED disk

\* What may be left of a file whose content was not on stable storage.
Damaged(s) ==
  UNION {[1..n -> Unit] : n \in 0..Len(s)}
    \cap {t \in Seq(Unit) : \A i \in 1..Len(t) : t[i] \in {s[i], 0}}

PowerLoss ==
  /\ \E p \in IF "partial" \in unsynced
              THEN Damaged(partial) \cup {NoFile} ELSE {partial},
        l \in IF "local" \in unsynced THEN Damaged(local) ELSE {local} :
       \/ partial' = p /\ local' = l
       \/ "rename" \in unsynced /\ partial' = l /\ local' = NoFile
  /\ tainted' = (partial' # NoFile /\ (tainted \/ "partial" \in unsynced))
  /\ unsynced' = {}
  /\ Stop("none")

\* The kernel writes dirty data back in its own time.
Writeback ==
  /\ \E x \in unsynced : unsynced' = unsynced \ {x}
  /\ UNCHANGED <<partial, local, tainted, pc, run>>

\* "larger than the remote file (remove it to fix this)".
UserRemovesPartial ==
  /\ pc = "idle" /\ partial # NoFile /\ Len(partial) > Size
  /\ partial' = NoFile /\ tainted' = FALSE
  /\ unsynced' = unsynced \ {"partial"}
  /\ UNCHANGED <<local, pc, run>>

-----------------------------------------------------------------------------
\* Steps of a run that nothing has gone wrong in, and those that meet an error.
Works ==
  \/ GetUrl \/ Open \/ RangeAccepted \/ Poll \/ ReadUnit \/ EndOfBody
  \/ Cancelled \/ GiveUp \/ Retry \/ WaitEnds
  \/ Verify \/ Discard(TRUE) \/ Sync \/ Rename
Errs ==
  \/ Fails \/ RangeRefused \/ ReadCorrupted \/ ReadOverrun \/ ReadFails
  \/ WriteFails \/ Discard(FALSE)

Program == Works \/ Errs

Environment ==
  \/ UserCancels \/ ClockExpires \/ UrlExpires \/ Kill \/ PowerLoss
  \/ Writeback \/ UserRemovesPartial

Next == Skip \/ Start \/ CreateDirFails \/ Program \/ Environment

Spec == Init /\ [][Next]_vars

\* A running thread keeps running: every blocking call in it has a timeout
\* (connect and read time-outs of http.rs, sleeps of at most 200 ms).
RunSpec == Spec /\ WF_vars(Program)

\* Time passes, and a user who wants the file keeps asking for it and, told
\* again and again that the partial is too large, removes it at last (between
\* two runs, so never for ever enabled).  The properties that need these have
\* them as premises.
Time == WF_vars(ClockExpires)
User == WF_vars(Start) /\ SF_vars(UserRemovesPartial)

-----------------------------------------------------------------------------
Files == {NoFile} \cup Seq(Unit)

TypeOK ==
  /\ partial \in Files /\ local \in Files
  /\ unsynced \subseteq {"partial", "local", "rename"}
  /\ pc \in Labels /\ outcome \in Outcomes
  /\ pos \in Nat /\ mac \in Seq(Unit)
  /\ req \in [from : Nat, end : Nat, sent : Nat, ks : Nat, at : Nat]
  /\ tries \in 0..MaxTries
  /\ late \in BOOLEAN /\ cancel \in BOOLEAN
  /\ url \in {"none", "live", "expired"}
  /\ tainted \in BOOLEAN /\ afterCancel \in Nat

-----------------------------------------------------------------------------
(* What a download promises.                                               *)

\* A file that stands at local_path is the remote file, whole and
\* bit-for-bit, whatever went wrong before: the MAC is checked over what the
\* partial really holds, the content is synced before the rename, and
\* nothing writes to the file afterwards.
Integrity == local # NoFile => local = Plain

\* While a file is being fetched, the file on disk, the running MAC, pos, the
\* file cursor and the key stream are at the same place: "a retry continues
\* exactly where this attempt stopped" (fetch_range's comment).
InStep ==
  pc \notin {"idle", "resolve", "open"} =>
    /\ partial # NoFile /\ mac = partial /\ pos = Len(partial)
    /\ pc \in {"poll", "read"} => req.sent = pos /\ req.ks = pos /\ req.at = pos

\* "MAC mismatch" is never a false alarm: a download is thrown away only
\* when the environment damaged it.  Cancels, kills, early closes, retries and
\* resumes at any point keep the partial good.
MacMismatch == pc = "loop" /\ pos >= Size /\ ~MacMatches(mac)
NoFalseAlarm == MacMismatch => tainted

\* A run that reports success, or skips the file as existing, leaves the
\* remote file at local_path.
TruthfulReport == outcome \in {"done", "skipped"} => local = Plain

\* Once cancelled, a run takes in at most the read it was blocked in.
CancelTakesHold == afterCancel <= 1

\* No step of the program loses a byte that was received: the partial grows,
\* moves to local_path, or is removed on a MAC mismatch; restarts, resumes
\* and failed attempts keep all of it.
ProgressKept ==
  [][ \/ partial = NoFile
      \/ partial' # NoFile /\ IsPrefix(partial, partial')
      \/ local' = partial
      \/ MacMismatch
      \/ PowerLoss \/ UserRemovesPartial ]_vars

\* sync_file returns if each body that is sent has an end: RETRY_WINDOW bounds
\* the retries.
Termination == Time => (pc # "idle" ~> pc = "idle")

\* A cancelled run ends even if every request keeps failing and the retry
\* window never closes.
CancelStops == cancel ~> pc = "idle"

\* If from some time on nothing goes wrong, the file is delivered and stays:
\* no leftover of earlier crashes, corruption or over-long bodies can
\* block it for ever.  That Open refuses an over-long partial is no fault but
\* the program's own doing, although an I/O error there looks the same.
Faulty ==
  \/ Errs /\ ~Open
  \/ CreateDirFails \/ UserCancels \/ UrlExpires \/ Kill \/ PowerLoss
  \/ EndOfBody /\ req.sent < req.end
EventualDelivery == Time /\ User /\ <>[][~Faulty]_vars => <>[](local = Plain)

\* FileJob.get_url: "Resolves (or re-resolves, on retry) the transfer URL and
\* size", so an attempt that follows a failure starts from a live URL.  The
\* code calls get_url once per file.
RetryReResolves == [][pc = "wait" /\ pc' = "loop" => url' = "live"]_vars

\* To its callers a download is a Delivery: what happens to the partial shows
\* only as time spent, an answer or a crash.
Promise == INSTANCE Delivery
             WITH target  <- CASE local = NoFile -> "absent"
                               [] local = Plain  -> "whole"
                               [] OTHER          -> "wrong",
                  durable <- "rename" \notin unsynced,
                  busy    <- pc # "idle",
                  answer  <- outcome
ImplementsDelivery == Promise!Spec

=============================================================================
