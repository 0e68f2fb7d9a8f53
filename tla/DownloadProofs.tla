--------------------------- MODULE DownloadProofs ---------------------------
(***************************************************************************)
(* Proofs about Download, for every Size, FetchChunk, MaxTries and         *)
(* OverSend.                                                               *)
(***************************************************************************)
EXTENDS Download, SequenceTheorems, TLAPS

USE DownloadAssumption DEF DownloadAssumption

-----------------------------------------------------------------------------
(* The pure parts.                                                         *)

\* Whatever the server sent decrypts to a unit, and to unit k only if it is
\* the cipher unit k of the remote file.
LEMMA DecryptFact ==
  ASSUME NEW c \in Nat, NEW k \in Nat \ {0}
  PROVE  /\ DecryptAt(c, k) \in Unit
         /\ c = k /\ k <= Size => DecryptAt(c, k) = k
  BY DEF DecryptAt, Unit

\* A write at the end of the file appends to it.
LEMMA WriteAtEnd ==
  ASSUME NEW s \in Seq(Unit), NEW u \in Unit
  PROVE  WriteAt(s, Len(s), u) = Append(s, u)
  <1> DEFINE w == WriteAt(s, Len(s), u)
  <1>1. \A i \in 1..(Len(s) + 1) :
           (IF i = Len(s) + 1 THEN u ELSE IF i <= Len(s) THEN s[i] ELSE 0)
             = Append(s, u)[i]
    OBVIOUS
  <1>2. w = [i \in 1..(Len(s) + 1) |-> Append(s, u)[i]]
    BY <1>1 DEF WriteAt
  <1>3. Append(s, u) \in Seq(Unit) /\ Len(Append(s, u)) = Len(s) + 1
    OBVIOUS
  <1>4. w \in Seq(Unit) /\ Len(w) = Len(s) + 1
    BY <1>2, <1>3
  <1>5. QED
    BY <1>2, <1>3, <1>4, SeqEqual

\* A write at any offset leaves a file of units.
LEMMA WriteAtType ==
  ASSUME NEW s \in Seq(Unit), NEW at \in Nat, NEW u \in Unit
  PROVE  WriteAt(s, at, u) \in Seq(Unit)
  <1> DEFINE n == IF at < Len(s) THEN Len(s) ELSE at + 1
  <1>1. n \in Nat /\ 0 \in Unit
    BY DEF Unit
  <1>2. \A i \in 1..n : (IF i = at + 1 THEN u ELSE IF i <= Len(s) THEN s[i] ELSE 0) \in Unit
    BY <1>1
  <1>3. QED
    BY <1>1, <1>2 DEF WriteAt

\* The remote file is a file of units.
LEMMA PlainType == Plain \in Seq(Unit) /\ Len(Plain) = Size
  <1>1. \A k \in 1..Size : k \in Unit
    BY DEF Unit
  <1>2. QED
    BY <1>1 DEF Plain

\* Nothing that is a file is NoFile.
LEMMA FileIsNotNoFile == \A s \in Seq(Unit) : s # NoFile
  BY DEF Unit

-----------------------------------------------------------------------------
(* Type correctness.                                                       *)

\* Everything the running process keeps, typed.
RunTypeOK ==
  /\ pc \in Labels /\ outcome \in Outcomes
  /\ pos \in Nat /\ mac \in Seq(Unit)
  /\ req \in [from : Nat, end : Nat, sent : Nat, ks : Nat, at : Nat]
  /\ tries \in 0..MaxTries
  /\ late \in BOOLEAN /\ cancel \in BOOLEAN
  /\ url \in {"none", "live", "expired"} /\ afterCancel \in Nat

\* From the time it is opened, the partial exists.
HasPartial == pc \notin {"idle", "resolve", "open"} => partial # NoFile

TypeInv == TypeOK /\ HasPartial

LEMMA RangeEndType == ASSUME NEW p \in Nat PROVE RangeEnd(p) \in Nat
  BY DEF RangeEnd

\* A run that ends leaves well-typed values behind.
LEMMA StopType ==
  ASSUME NEW o \in Outcomes, Stop(o)
  PROVE  RunTypeOK' /\ HasPartial'
  <1>1. <<>> \in Seq(Unit)
    OBVIOUS
  <1>2. NoRequest \in [from : Nat, end : Nat, sent : Nat, ks : Nat, at : Nat]
    BY DEF NoRequest, Request
  <1>3. pc' \in Labels /\ outcome' \in Outcomes /\ HasPartial'
    BY DEF Stop, Labels, HasPartial
  <1>4. mac' \in Seq(Unit) /\ pos' \in Nat /\ tries' \in 0..MaxTries /\ afterCancel' \in Nat
    BY <1>1 DEF Stop
  <1>5. req' \in [from : Nat, end : Nat, sent : Nat, ks : Nat, at : Nat]
    BY <1>2 DEF Stop
  <1>6. late' \in BOOLEAN /\ cancel' \in BOOLEAN /\ url' \in {"none", "live", "expired"}
    BY DEF Stop
  <1>7. QED
    BY <1>3, <1>4, <1>5, <1>6 DEF RunTypeOK

\* So does a unit taken in.
LEMMA AcceptType ==
  ASSUME TypeInv, NEW c \in Nat, Accept(c), tainted' \in BOOLEAN
  PROVE  TypeInv'
  <1> DEFINE u == DecryptAt(c, req.ks + 1)
  <1>1. u \in Unit
    <2>1. req.ks \in Nat
      BY DEF TypeInv, TypeOK
    <2>2. QED
      BY <2>1, DecryptFact
  <1>2. partial \in Seq(Unit) /\ req.at \in Nat
    BY DEF TypeInv, HasPartial, TypeOK, Accept, Files
  <1>3. partial' \in Seq(Unit) /\ mac' \in Seq(Unit)
    BY <1>1, <1>2, WriteAtType, SMTT(20) DEF TypeInv, TypeOK, Accept, MacUpdate
  <1>4. req' \in [from : Nat, end : Nat, sent : Nat, ks : Nat, at : Nat]
    <2>1. req' = [req EXCEPT !.sent = @ + 1, !.ks = @ + 1, !.at = @ + 1]
      BY DEF Accept
    <2>2. req \in [from : Nat, end : Nat, sent : Nat, ks : Nat, at : Nat]
      BY DEF TypeInv, TypeOK
    <2>3. req.sent + 1 \in Nat /\ req.ks + 1 \in Nat /\ req.at + 1 \in Nat
      BY <2>2
    <2>4. QED
      BY <2>1, <2>2, <2>3
  <1>5. afterCancel' \in Nat /\ pos' \in Nat
    BY SMTT(20) DEF TypeInv, TypeOK, Accept
  <1>6. partial' # NoFile
    BY <1>3, FileIsNotNoFile
  <1>7. QED
    BY <1>3, <1>4, <1>5, <1>6 DEF TypeInv, HasPartial, TypeOK, Accept, Files, Labels

\* A range request starts with well-typed offsets.
LEMMA RangeAtType ==
  ASSUME NEW p \in Nat
  PROVE  RangeAt(p) \in [from : Nat, end : Nat, sent : Nat, ks : Nat, at : Nat]
  BY RangeEndType DEF RangeAt, Request

\* The variables have their types in every reachable state, and a fetch
\* that is under way always has its partial on disk.
THEOREM TypeCorrect == Spec => [](TypeOK /\ HasPartial)
  <1>1. Init => TypeInv
    <2> SUFFICES ASSUME Init PROVE TypeInv
      OBVIOUS
    <2>1. <<>> \in Seq(Unit) /\ 0 \in 0..MaxTries
      OBVIOUS
    <2>2. NoRequest \in [from : Nat, end : Nat, sent : Nat, ks : Nat, at : Nat]
      BY DEF NoRequest, Request
    <2>3. QED
      BY <2>1, <2>2 DEF Init, TypeInv, TypeOK, HasPartial, Files, Labels, Outcomes
  <1>2. TypeInv /\ [Next]_vars => TypeInv'
    <2> SUFFICES ASSUME TypeInv, [Next]_vars PROVE TypeInv'
      OBVIOUS
    <2> USE DEF TypeInv
    <2>e. \A l : ErrorOutcome(l) \in Outcomes
      BY DEF ErrorOutcome, Outcomes
    <2>o. {"none", "done", "skipped", "cancelled"} \subseteq Outcomes
      BY DEF Outcomes
    <2>d. ASSUME UNCHANGED disk, RunTypeOK', HasPartial' PROVE TypeInv'
      BY <2>d DEF disk, TypeOK, RunTypeOK
    <2>f. ASSUME UNCHANGED disk, UNCHANGED marks, UNCHANGED place,
                 pc' \in Labels, pc \notin {"idle", "resolve", "open"}
          PROVE  TypeInv'
      BY <2>f DEF disk, place, marks, TypeOK, HasPartial
    <2>1. CASE Skip
      BY <2>1, <2>d, <2>o, StopType DEF Skip
    <2>2. CASE Start
      BY <2>2, <2>o DEF Start, disk, place, TypeOK, HasPartial, Labels
    <2>3. CASE CreateDirFails
      BY <2>3, <2>d, <2>e, StopType DEF CreateDirFails
    <2>4. CASE GetUrl
      BY <2>4 DEF GetUrl, disk, place, TypeOK, HasPartial, Labels
    <2>5. CASE Open
      <3>1. partial' \in Seq(Unit)
        BY <2>5 DEF Open, Opened, TypeOK, Files
      <3>2. unsynced' \subseteq {"partial", "local", "rename"} /\ UNCHANGED <<local, tainted>>
        BY <2>5 DEF Open, TypeOK
      <3>3. RunTypeOK' /\ HasPartial'
        <4>1. CASE Len(partial') > Size
          BY <4>1, <2>5, <2>e, StopType DEF Open
        <4>2. CASE ~(Len(partial') > Size)
          BY <4>2, <3>1, <2>5, FileIsNotNoFile
             DEF Open, MacOf, marks, RunTypeOK, TypeOK, HasPartial, Labels
        <4>3. QED
          BY <4>1, <4>2
      <3>4. QED
        BY <3>1, <3>2, <3>3 DEF TypeOK, RunTypeOK, Files
    <2>6. CASE Fails
      BY <2>6, <2>d, <2>e, StopType DEF Fails
    <2>7. CASE RangeAccepted \/ RangeRefused
      <3>1. req' \in [from : Nat, end : Nat, sent : Nat, ks : Nat, at : Nat]
        BY <2>7, RangeAtType DEF RangeAccepted, RangeRefused, TypeOK
      <3>2. QED
        BY <2>7, <3>1 DEF RangeAccepted, RangeRefused, disk, marks, TypeOK, HasPartial, Labels
    <2>8. CASE Poll \/ ReadFails \/ WaitEnds \/ Verify
      BY <2>8, <2>f DEF Poll, ReadFails, WaitEnds, Verify, run, Labels
    <2>9. CASE ReadUnit \/ ReadCorrupted \/ ReadOverrun
      <3>1. tainted' \in BOOLEAN
        BY <2>9 DEF ReadUnit, ReadCorrupted, ReadOverrun, TypeOK
      <3>2. \E c \in Nat : Accept(c)
        BY <2>9 DEF ReadUnit, ReadCorrupted, ReadOverrun, TypeOK
      <3>3. QED
        BY <3>1, <3>2, AcceptType
    <2>10. CASE WriteFails
      <3> DEFINE u == DecryptAt(req.sent + 1, req.ks + 1)
      <3>1. u \in Unit
        <4>1. req.sent + 1 \in Nat /\ req.ks + 1 \in Nat \ {0}
          BY DEF TypeOK
        <4>2. QED
          BY <4>1, DecryptFact
      <3>2. partial \in Seq(Unit) /\ req.at \in Nat
        BY <2>10 DEF WriteFails, HasPartial, TypeOK, Files
      <3>3. partial' \in Seq(Unit)
        BY <2>10, <3>1, <3>2, WriteAtType DEF WriteFails
      <3>4. RunTypeOK' /\ HasPartial'
        BY <2>10, <2>e, StopType DEF WriteFails
      <3>5. QED
        BY <2>10, <3>3, <3>4 DEF WriteFails, TypeOK, RunTypeOK, Files
    <2>11. CASE EndOfBody
      BY <2>11 DEF EndOfBody, disk, place, TypeOK, HasPartial, Labels
    <2>12. CASE Cancelled
      BY <2>12, <2>d, <2>o, StopType DEF Cancelled
    <2>13. CASE GiveUp
      BY <2>13, <2>d, <2>e, StopType DEF GiveUp
    <2>14. CASE Retry
      BY <2>14 DEF Retry, Escalate, disk, place, TypeOK, HasPartial, Labels
    <2>15. CASE Discard(TRUE) \/ Discard(FALSE)
      <3>1. RunTypeOK' /\ HasPartial'
        BY <2>15, <2>e, StopType DEF Discard
      <3>2. QED
        BY <2>15, <3>1 DEF Discard, AfterMismatch, TypeOK, RunTypeOK, Files
    <2>16. CASE Sync
      BY <2>16 DEF Sync, AfterSync, run, place, marks, TypeOK, HasPartial, Labels
    <2>17. CASE Rename
      <3>1. RunTypeOK' /\ HasPartial'
        BY <2>17, <2>o, StopType DEF Rename
      <3>2. QED
        BY <2>17, <3>1 DEF Rename, TypeOK, RunTypeOK, Files
    <2>18. CASE UserCancels \/ ClockExpires \/ UrlExpires
      BY <2>18 DEF UserCancels, ClockExpires, UrlExpires, disk, place, TypeOK, HasPartial
    <2>19. CASE Kill
      BY <2>19, <2>d, <2>o, StopType DEF Kill
    <2>20. CASE PowerLoss
      <3>1. RunTypeOK' /\ HasPartial'
        BY <2>20, <2>o, StopType DEF PowerLoss
      <3>2. partial' \in Files /\ local' \in Files
        <4>1. \A s : Damaged(s) \subseteq Seq(Unit)
          BY DEF Damaged
        <4>2. QED
          BY <2>20, <4>1 DEF PowerLoss, TypeOK, Files
      <3>3. tainted' \in BOOLEAN /\ unsynced' = {}
        BY <2>20 DEF PowerLoss
      <3>4. QED
        BY <3>1, <3>2, <3>3 DEF TypeOK, RunTypeOK
    <2>21. CASE Writeback
      BY <2>21 DEF Writeback, run, place, marks, TypeOK, HasPartial
    <2>22. CASE UserRemovesPartial
      BY <2>22 DEF UserRemovesPartial, run, place, marks, TypeOK, HasPartial, Files
    <2>23. CASE UNCHANGED vars
      BY <2>23 DEF vars, disk, run, place, marks, TypeOK, HasPartial
    <2>24. QED
      BY <2>1, <2>2, <2>3, <2>4, <2>5, <2>6, <2>7, <2>8, <2>9, <2>10, <2>11,
         <2>12, <2>13, <2>14, <2>15, <2>16, <2>17, <2>18, <2>19, <2>20, <2>21,
         <2>22, <2>23
         DEF Next, Program, Works, Errs, Environment
  <1>3. QED
    BY <1>1, <1>2, PTL DEF Spec, TypeInv

-----------------------------------------------------------------------------
(* The inductive invariant.                                                *)

\* A range never reaches beyond the file.
RangeInFile == pc \in {"poll", "read"} => req.end <= Size

\* Only what the MAC accepted is synced, and only what is synced is renamed.
Verified    == pc \in {"sync", "rename"} => mac = Plain
SyncedFirst == pc = "rename" => "partial" \notin unsynced
DeliveredSafely == "local" \notin unsynced /\ (local # NoFile => local = Plain)

\* s is made of the first units of the remote file.
Begins(s) == Len(s) <= Size /\ \A i \in 1..Len(s) : s[i] = i

\* An undamaged partial can always be resumed.
CleanPrefix == partial # NoFile /\ ~tainted => Begins(partial)

Safe == InStep /\ RangeInFile /\ Verified /\ SyncedFirst
        /\ DeliveredSafely /\ CleanPrefix

\* Past the read it was blocked in, a cancelled run takes nothing in.
CancelInv == afterCancel # 0 => afterCancel = 1 /\ cancel /\ pc = "poll"

\* A unit taken in is appended to the partial and to the MAC alike, and
\* everything that tracks the offset moves with it.
LEMMA AcceptAppends ==
  ASSUME TypeInv, InStep, NEW c \in Nat, Accept(c)
  PROVE  /\ DecryptAt(c, pos + 1) \in Unit
         /\ partial' = Append(partial, DecryptAt(c, pos + 1))
         /\ partial \in Seq(Unit) /\ partial' \in Seq(Unit)
         /\ InStep' /\ RangeInFile' = (req.end <= Size)
  <1> DEFINE u == DecryptAt(c, pos + 1)
  <1>1. /\ partial \in Seq(Unit) /\ pos = Len(partial) /\ mac = partial
        /\ req.sent = pos /\ req.ks = pos /\ req.at = pos
    BY DEF TypeInv, TypeOK, HasPartial, Files, Accept, InStep
  <1>2. u \in Unit
    BY <1>1, DecryptFact
  <1>3. partial' = Append(partial, u) /\ mac' = Append(mac, u)
    BY <1>1, <1>2, WriteAtEnd DEF Accept, MacUpdate
  <1>4. partial' \in Seq(Unit) /\ Len(partial') = pos + 1
    BY <1>1, <1>2, <1>3
  <1>5. /\ req' = [req EXCEPT !.sent = @ + 1, !.ks = @ + 1, !.at = @ + 1]
        /\ req \in [from : Nat, end : Nat, sent : Nat, ks : Nat, at : Nat]
    BY DEF Accept, TypeInv, TypeOK
  <1>6. /\ req'.sent = pos + 1 /\ req'.ks = pos + 1 /\ req'.at = pos + 1
        /\ req'.end = req.end
    BY <1>1, <1>5
  <1>7. InStep'
    BY <1>1, <1>3, <1>4, <1>6, FileIsNotNoFile DEF Accept, InStep
  <1>8. RangeInFile' = (req.end <= Size)
    BY <1>6 DEF Accept, RangeInFile
  <1>9. QED
    BY <1>1, <1>2, <1>3, <1>4, <1>7, <1>8

\* The next unit of the file, appended to a clean partial, keeps it clean.
LEMMA AppendNext ==
  ASSUME NEW s \in Seq(Unit), Begins(s), Len(s) + 1 <= Size
  PROVE  Begins(Append(s, Len(s) + 1))
  <1>1. Len(s) + 1 \in Unit
    BY DEF Unit
  <1>2. QED
    BY <1>1 DEF Begins

\* A run that ends claims nothing about what it was doing.
LEMMA StopInv ==
  ASSUME NEW o, Stop(o)
  PROVE  InStep' /\ RangeInFile' /\ Verified' /\ SyncedFirst'
  BY DEF Stop, InStep, RangeInFile, Verified, SyncedFirst

\* A clean partial as long as the remote file is the remote file.
LEMMA WholeIsPlain ==
  ASSUME NEW s \in Seq(Unit), Begins(s), Len(s) >= Size
  PROVE  s = Plain
  <1>1. Len(s) = Size
    BY DEF Begins
  <1>2. \A i \in 1..Len(s) : s[i] = Plain[i]
    BY <1>1 DEF Begins, Plain
  <1>3. QED
    BY <1>1, <1>2, PlainType, SeqEqual

\* The invariant is preserved, action by action.
LEMMA SafeStep == TypeInv /\ TypeInv' /\ Safe /\ [Next]_vars => Safe'
  <1> SUFFICES ASSUME TypeInv, TypeInv', Safe, [Next]_vars PROVE Safe'
    OBVIOUS
  <1> USE DEF Safe
  <1>d. ASSUME UNCHANGED disk PROVE DeliveredSafely' /\ CleanPrefix'
    BY <1>d DEF disk, DeliveredSafely, CleanPrefix
  <1>s. ASSUME NEW o, Stop(o), UNCHANGED disk PROVE Safe'
    BY <1>s, <1>d, StopInv
  <1>1. CASE Skip \/ CreateDirFails \/ Fails \/ Cancelled \/ GiveUp \/ Kill
    BY <1>1, <1>s DEF Skip, CreateDirFails, Fails, Cancelled, GiveUp, Kill
  <1>2. CASE Start \/ GetUrl
    BY <1>2, <1>d DEF Start, GetUrl, InStep, RangeInFile, Verified, SyncedFirst
  <1>3. CASE Open
    <2>1. partial' = Opened(partial) /\ UNCHANGED <<local, tainted>>
          /\ unsynced' \subseteq unsynced \cup {"partial"}
      BY <1>3 DEF Open
    <2>2. DeliveredSafely'
      BY <2>1 DEF DeliveredSafely
    <2>3. CleanPrefix'
      <3>1. Begins(<<>>)
        BY DEF Begins
      <3>2. QED
        BY <2>1, <3>1 DEF CleanPrefix, Opened
    <2>4. CASE Len(partial') > Size
      BY <2>2, <2>3, <2>4, <1>3, StopInv DEF Open
    <2>5. CASE ~(Len(partial') > Size)
      <3>1. pc' = "loop" /\ pos' = Len(partial') /\ mac' = partial' /\ partial' # NoFile
        BY <1>3, <2>5 DEF Open, MacOf, TypeInv, HasPartial
      <3>2. QED
        BY <2>2, <2>3, <3>1 DEF InStep, RangeInFile, Verified, SyncedFirst
    <2>6. QED
      BY <2>4, <2>5
  <1>4. CASE RangeAccepted \/ RangeRefused
    <2>1. req' = RangeAt(pos) /\ UNCHANGED <<disk, pos, mac>> /\ pc' \in {"poll", "retry"}
          /\ pc = "loop" /\ pos \in Nat
      BY <1>4 DEF RangeAccepted, RangeRefused, TypeInv, TypeOK
    <2>2. req'.sent = pos /\ req'.ks = pos /\ req'.at = pos /\ req'.end <= Size
      BY <2>1 DEF RangeAt, Request, RangeEnd
    <2>3. QED
      BY <2>1, <2>2, <1>d DEF disk, InStep, RangeInFile, Verified, SyncedFirst
  <1>5. CASE Poll \/ ReadFails \/ WaitEnds \/ Verify
    BY <1>5, <1>d DEF Poll, ReadFails, WaitEnds, Verify, MacMatches, run, place, disk,
                      InStep, RangeInFile, Verified, SyncedFirst
  <1>6. ASSUME NEW c \in Nat, Accept(c), tainted' \in BOOLEAN, ~tainted' => ~tainted,
               ~tainted' => c = pos + 1 /\ c <= Size
        PROVE  Safe'
    <2>1. /\ partial' = Append(partial, DecryptAt(c, pos + 1))
          /\ partial \in Seq(Unit) /\ InStep' /\ RangeInFile'
      BY <1>6, AcceptAppends DEF RangeInFile, Accept
    <2>2. Verified' /\ SyncedFirst' /\ DeliveredSafely'
      BY <1>6 DEF Accept, Verified, SyncedFirst, DeliveredSafely
    <2>3. ASSUME ~tainted' PROVE Begins(partial')
      <3>1. pos = Len(partial) /\ Begins(partial) /\ DecryptAt(c, pos + 1) = pos + 1
        BY <1>6, <2>3, <2>1 DEF InStep, Accept, CleanPrefix, DecryptAt
      <3>2. QED
        BY <1>6, <2>1, <2>3, <3>1, AppendNext
    <2>4. QED
      BY <2>1, <2>2, <2>3 DEF CleanPrefix
  <1>7. CASE ReadUnit
    <2>1. Accept(req.sent + 1) /\ UNCHANGED tainted /\ req.sent < req.end
      BY <1>7 DEF ReadUnit
    <2>2. req.sent = pos /\ req.end <= Size /\ pos \in Nat /\ req.end \in Nat
      BY <2>1 DEF Accept, InStep, RangeInFile, TypeInv, TypeOK
    <2>3. QED
      BY <2>1, <2>2, <1>6, SMTT(20) DEF TypeInv, TypeOK
  <1>8. CASE ReadCorrupted
    BY <1>8, <1>6 DEF ReadCorrupted
  <1>9. CASE ReadOverrun
    <2>1. req.sent = pos /\ pos \in Nat
      BY <1>9 DEF ReadOverrun, Accept, InStep, TypeInv, TypeOK
    <2> DEFINE c == IF req.sent < Size THEN req.sent + 1 ELSE 0
    <2>2. Accept(c)
      BY <1>9 DEF ReadOverrun
    <2>3. ~tainted' => ~tainted /\ ~(req.sent >= Size)
      BY <1>9, Zenon DEF ReadOverrun
    <2>4. c \in Nat /\ (~tainted' => ~tainted /\ c = pos + 1 /\ c <= Size)
      <3>1. CASE tainted'
        BY <2>1, <3>1
      <3>2. CASE ~tainted'
        BY <2>1, <2>3, <3>2
      <3>3. QED
        BY <3>1, <3>2
    <2> HIDE DEF c
    <2>5. QED
      BY <2>2, <2>4, <1>6 DEF TypeInv, TypeOK
  <1>10. CASE WriteFails
    <2> DEFINE u == DecryptAt(req.sent + 1, req.ks + 1)
    <2>1. /\ pc = "read" /\ req.sent < req.end /\ req.end \in Nat
          /\ partial' \in {partial, WriteAt(partial, req.at, u)}
          /\ unsynced' = unsynced \cup {"partial"} /\ UNCHANGED <<local, tainted>>
      BY <1>10 DEF WriteFails, TypeInv, TypeOK
    <2>2. /\ partial \in Seq(Unit) /\ pos = Len(partial) /\ pos + 1 <= Size
          /\ req.sent = pos /\ req.ks = pos /\ req.at = pos
      BY <2>1 DEF TypeInv, TypeOK, HasPartial, Files, InStep, RangeInFile
    <2>3. u = pos + 1 /\ u \in Unit
      BY <2>2 DEF DecryptAt, Unit
    <2>4. WriteAt(partial, req.at, u) = Append(partial, pos + 1)
      BY <2>2, <2>3, WriteAtEnd
    <2>5. CleanPrefix'
      <3>1. CASE partial' = partial
        BY <2>1, <3>1 DEF CleanPrefix
      <3>2. CASE partial' = Append(partial, pos + 1)
        <4>1. ASSUME ~tainted' PROVE Begins(partial')
          <5>1. Begins(partial)
            BY <2>1, <2>2, <4>1, FileIsNotNoFile DEF CleanPrefix
          <5>2. QED
            BY <2>2, <3>2, <5>1, AppendNext
        <4>2. QED
          BY <4>1 DEF CleanPrefix
      <3>3. QED
        BY <2>1, <2>4, <3>1, <3>2
    <2>6. QED
      BY <1>10, <2>1, <2>5, StopInv DEF WriteFails, DeliveredSafely
  <1>11. CASE EndOfBody
    BY <1>11, <1>d DEF EndOfBody, disk, place, InStep, RangeInFile, Verified, SyncedFirst
  <1>12. CASE Retry
    BY <1>12, <1>d DEF Retry, disk, place, InStep, RangeInFile, Verified, SyncedFirst
  <1>13. CASE Discard(TRUE) \/ Discard(FALSE)
    BY <1>13, StopInv DEF Discard, AfterMismatch, DeliveredSafely, CleanPrefix
  <1>14. CASE Sync
    BY <1>14 DEF Sync, AfterSync, run, place, InStep, RangeInFile, Verified, SyncedFirst,
                 DeliveredSafely, CleanPrefix
  <1>15. CASE Rename
    BY <1>15, StopInv DEF Rename, InStep, Verified, SyncedFirst, DeliveredSafely, CleanPrefix
  <1>16. CASE UserCancels \/ ClockExpires \/ UrlExpires
    BY <1>16, <1>d DEF UserCancels, ClockExpires, UrlExpires, disk, place,
                       InStep, RangeInFile, Verified, SyncedFirst
  <1>17. CASE PowerLoss
    <2>1. DeliveredSafely' /\ CleanPrefix'
      <3>1. local = NoFile \/ (local = Plain /\ Begins(Plain))
        BY DEF DeliveredSafely, Begins, Plain
      <3>2. "local" \notin unsynced /\ unsynced' = {}
        BY <1>17 DEF DeliveredSafely, PowerLoss
      <3>3. PICK p : /\ "partial" \notin unsynced => p = partial
                     /\ \/ partial' = p /\ local' = local
                        \/ partial' = local /\ local' = NoFile
        BY <1>17, <3>2 DEF PowerLoss
      <3>4. DeliveredSafely'
        BY <3>2, <3>3 DEF DeliveredSafely
      <3>5. ASSUME partial' # NoFile, ~tainted' PROVE Begins(partial')
        <4>1. ~tainted /\ "partial" \notin unsynced
          BY <1>17, <3>5 DEF PowerLoss
        <4>2. QED
          BY <3>1, <3>3, <3>5, <4>1 DEF CleanPrefix
      <3>6. QED
        BY <3>4, <3>5 DEF CleanPrefix
    <2>2. QED
      BY <1>17, <2>1, StopInv DEF PowerLoss
  <1>18. CASE Writeback
    BY <1>18 DEF Writeback, run, place, InStep, RangeInFile, Verified, SyncedFirst,
                 DeliveredSafely, CleanPrefix
  <1>19. CASE UserRemovesPartial
    BY <1>19 DEF UserRemovesPartial, run, place, InStep, RangeInFile, Verified, SyncedFirst,
                 DeliveredSafely, CleanPrefix
  <1>20. CASE UNCHANGED vars
    BY <1>20, <1>d DEF vars, disk, run, place, InStep, RangeInFile, Verified, SyncedFirst
  <1>21. QED
    BY <1>1, <1>2, <1>3, <1>4, <1>5, <1>7, <1>8, <1>9, <1>10, <1>11, <1>12,
       <1>13, <1>14, <1>15, <1>16, <1>17, <1>18, <1>19, <1>20
       DEF Next, Program, Works, Errs, Environment

\* The inductive invariant holds of every run.
LEMMA AlwaysSafe == Spec => [](TypeInv /\ Safe)
  <1>1. Init => Safe
    BY DEF Init, Safe, InStep, RangeInFile, Verified, SyncedFirst, DeliveredSafely, CleanPrefix
  <1>2. Spec => []TypeInv
    BY TypeCorrect DEF TypeInv
  <1>3. QED
    BY <1>1, <1>2, SafeStep, PTL DEF Spec

-----------------------------------------------------------------------------
(* What a download promises, for every value of the constants.             *)

\* Only the whole, authentic remote file is ever found at local_path,
\* through cancels, kills, power losses and any data the server sends.
THEOREM IntegrityHolds == Spec => []Integrity
  <1>1. Safe => Integrity
    BY DEF Safe, DeliveredSafely, Integrity
  <1>2. QED
    BY <1>1, AlwaysSafe, PTL

\* Disk, MAC, pos, file cursor and key stream agree whenever a file is
\* being fetched, however it got there (resume, retry, early close).
THEOREM InStepHolds == Spec => []InStep
  <1>1. Safe => InStep
    BY DEF Safe
  <1>2. QED
    BY <1>1, AlwaysSafe, PTL

\* The client never throws away a partial it could have completed: without
\* outside damage, the MAC matches.
THEOREM NoFalseAlarmHolds == Spec => []NoFalseAlarm
  <1>1. TypeInv /\ Safe => NoFalseAlarm
    <2> SUFFICES ASSUME TypeInv, Safe, MacMismatch, ~tainted PROVE FALSE
      BY DEF NoFalseAlarm
    <2>1. partial \in Seq(Unit) /\ mac = partial /\ Len(partial) >= Size
      BY DEF TypeInv, TypeOK, HasPartial, Files, Safe, InStep, MacMismatch
    <2>2. Begins(partial)
      BY <2>1, FileIsNotNoFile DEF Safe, CleanPrefix
    <2>3. QED
      BY <2>1, <2>2, WholeIsPlain DEF MacMismatch, MacMatches
  <1>2. QED
    BY <1>1, AlwaysSafe, PTL

\* Success is only reported, and a file only skipped, when the remote file
\* stands at local_path.
THEOREM TruthfulReportHolds == Spec => []TruthfulReport
  <1>1. Init => TruthfulReport
    BY DEF Init, TruthfulReport
  <1>2. TypeInv /\ Safe /\ TruthfulReport /\ [Next]_vars => TruthfulReport'
    <2> SUFFICES ASSUME TypeInv, Safe, TruthfulReport, [Next]_vars PROVE TruthfulReport'
      OBVIOUS
    <2>1. CASE UNCHANGED <<local, outcome>>
      BY <2>1 DEF TruthfulReport
    <2>2. CASE outcome' \notin {"done", "skipped"}
      BY <2>2 DEF TruthfulReport
    <2>3. CASE Skip
      BY <2>3 DEF Skip, disk, TruthfulReport, Safe, DeliveredSafely
    <2>4. CASE Rename
      BY <2>4 DEF Rename, TruthfulReport, Safe, InStep, Verified
    <2>5. CASE Open
      BY <2>5, <2>1, <2>2 DEF Open, Stop, ErrorOutcome, marks
    <2>6. CASE \/ Start \/ CreateDirFails \/ Fails \/ WriteFails \/ Cancelled \/ GiveUp
               \/ Discard(TRUE) \/ Discard(FALSE) \/ Kill \/ PowerLoss
      BY <2>6, <2>2 DEF Start, CreateDirFails, Fails, WriteFails, Cancelled, GiveUp,
                        Discard, Kill, PowerLoss, Stop, ErrorOutcome
    <2>7. CASE \/ GetUrl \/ RangeAccepted \/ RangeRefused \/ Poll \/ ReadUnit \/ ReadCorrupted
               \/ ReadOverrun \/ ReadFails \/ EndOfBody \/ Retry \/ WaitEnds \/ Verify \/ Sync
      BY <2>7, <2>1 DEF GetUrl, RangeAccepted, RangeRefused, Poll, ReadUnit, ReadCorrupted,
                        ReadOverrun, Accept, ReadFails, EndOfBody, Retry, WaitEnds, Verify,
                        Sync, disk, run, marks
    <2>8. CASE \/ UserCancels \/ ClockExpires \/ UrlExpires \/ Writeback
               \/ UserRemovesPartial \/ UNCHANGED vars
      BY <2>8, <2>1 DEF UserCancels, ClockExpires, UrlExpires, Writeback,
                        UserRemovesPartial, vars, disk, run, marks
    <2>9. QED
      BY <2>3, <2>4, <2>5, <2>6, <2>7, <2>8 DEF Next, Program, Works, Errs, Environment
  <1>3. QED
    BY <1>1, <1>2, AlwaysSafe, PTL DEF Spec

\* A cancelled run takes in at most the read it was blocked in.
THEOREM CancelTakesHoldAlways == Spec => []CancelTakesHold
  <1>1. Init => CancelInv
    BY DEF Init, CancelInv
  <1>2. TypeInv /\ CancelInv /\ [Next]_vars => CancelInv'
    <2> SUFFICES ASSUME TypeInv, CancelInv, [Next]_vars PROVE CancelInv'
      OBVIOUS
    <2>1. ASSUME NEW o, Stop(o) PROVE CancelInv'
      BY <2>1 DEF Stop, CancelInv
    <2>2. CASE \/ Skip \/ CreateDirFails \/ Fails \/ WriteFails \/ Cancelled \/ GiveUp
               \/ Rename \/ Discard(TRUE) \/ Discard(FALSE) \/ Kill \/ PowerLoss
      BY <2>2, <2>1 DEF Skip, CreateDirFails, Fails, WriteFails, Cancelled, GiveUp,
                        Rename, Discard, Kill, PowerLoss
    <2>3. ASSUME pc # "poll", UNCHANGED afterCancel PROVE CancelInv'
      BY <2>3 DEF CancelInv
    <2>4. CASE Open
      BY <2>4, <2>1, <2>3 DEF Open, marks
    <2>5. CASE \/ Start \/ GetUrl \/ RangeAccepted \/ RangeRefused \/ ReadFails \/ EndOfBody
               \/ Retry \/ WaitEnds \/ Verify \/ Sync
      BY <2>5, <2>3 DEF Start, GetUrl, RangeAccepted, RangeRefused, ReadFails, EndOfBody,
                        Retry, WaitEnds, Verify, Sync, run, marks
    <2>6. CASE Poll
      BY <2>6 DEF Poll, MayRead, run, marks, CancelInv
    <2>7. CASE ReadUnit \/ ReadCorrupted \/ ReadOverrun
      <3>1. /\ pc = "read" /\ pc' = "poll" /\ cancel' = cancel
            /\ afterCancel' = IF cancel THEN afterCancel + 1 ELSE afterCancel
        BY <2>7 DEF ReadUnit, ReadCorrupted, ReadOverrun, Accept
      <3>2. QED
        BY <3>1 DEF CancelInv, TypeInv, TypeOK
    <2>8. CASE UserCancels \/ ClockExpires \/ UrlExpires \/ Writeback
               \/ UserRemovesPartial \/ UNCHANGED vars
      BY <2>8 DEF UserCancels, ClockExpires, UrlExpires, Writeback,
                  UserRemovesPartial, vars, run, marks, CancelInv
    <2>9. QED
      BY <2>2, <2>4, <2>5, <2>6, <2>7, <2>8 DEF Next, Program, Works, Errs, Environment
  <1>3. CancelInv => CancelTakesHold
    BY DEF CancelInv, CancelTakesHold
  <1>4. Spec => []TypeInv
    BY TypeCorrect DEF TypeInv
  <1>5. QED
    BY <1>1, <1>2, <1>3, <1>4, PTL DEF Spec

\* A file is a prefix of itself and of itself with a unit appended.
LEMMA PrefixFacts ==
  ASSUME NEW s \in Seq(Unit), NEW u \in Unit
  PROVE  IsPrefix(s, s) /\ IsPrefix(s, Append(s, u))
  <1> DEFINE t == Append(s, u)
  <1>1. t \in Seq(Unit) /\ Len(t) = Len(s) + 1 /\ \A i \in 1..Len(s) : t[i] = s[i]
    OBVIOUS
  <1>2. /\ SubSeq(t, 1, Len(s)) \in Seq(Unit) /\ Len(SubSeq(t, 1, Len(s))) = Len(s)
        /\ \A i \in 1..Len(s) : SubSeq(t, 1, Len(s))[i] = t[i]
    BY <1>1
  <1>3. SubSeq(s, 1, Len(s)) = s
    BY SubSeqFull
  <1>4. SubSeq(t, 1, Len(s)) = s
    BY <1>1, <1>2, SeqEqual
  <1>5. Len(s) <= Len(s) /\ Len(s) <= Len(t)
    BY <1>1
  <1>6. QED
    BY <1>3, <1>4, <1>5 DEF IsPrefix

\* What was received is never lost: no step but a power loss, the user's
\* removal, the rename and a MAC mismatch takes units out of the partial.
THEOREM ProgressIsKept == Spec => ProgressKept
  <1> DEFINE Kept == \/ partial = NoFile
                     \/ partial' # NoFile /\ IsPrefix(partial, partial')
                     \/ local' = partial
                     \/ MacMismatch
                     \/ PowerLoss \/ UserRemovesPartial
  <1>1. TypeInv /\ Safe /\ [Next]_vars => [Kept]_vars
    <2> SUFFICES ASSUME TypeInv, Safe, Next, partial # NoFile PROVE Kept
      OBVIOUS
    <2>1. partial \in Seq(Unit)
      BY DEF TypeInv, TypeOK, Files
    <2>2. ASSUME partial' = partial PROVE Kept
      BY <2>1, <2>2, PrefixFacts DEF Unit
    <2>3. ASSUME NEW c \in Nat, Accept(c) PROVE Kept
      <3>1. DecryptAt(c, pos + 1) \in Unit /\ partial' = Append(partial, DecryptAt(c, pos + 1))
            /\ partial' \in Seq(Unit)
        BY <2>3, AcceptAppends DEF Safe
      <3>2. IsPrefix(partial, partial') /\ partial' # NoFile
        BY <2>1, <3>1, PrefixFacts, FileIsNotNoFile
      <3>3. QED
        BY <3>2
    <2>4. CASE ReadUnit \/ ReadCorrupted \/ ReadOverrun
      <3>1. \E c \in Nat : Accept(c)
        BY <2>4 DEF ReadUnit, ReadCorrupted, ReadOverrun, TypeInv, TypeOK
      <3>2. QED
        BY <3>1, <2>3
    <2>5. CASE WriteFails
      <3>1. /\ req.sent = pos /\ req.ks = pos /\ req.at = Len(partial) /\ pos = Len(partial)
            /\ pos \in Nat
        BY <2>5 DEF WriteFails, Safe, InStep, TypeInv, TypeOK
      <3>2. DecryptAt(pos + 1, pos + 1) \in Unit
        BY <3>1, DecryptFact
      <3>3. \/ partial' = partial
            \/ partial' = Append(partial, DecryptAt(pos + 1, pos + 1))
        BY <2>5, <2>1, <3>1, <3>2, WriteAtEnd DEF WriteFails
      <3>4. ASSUME partial' = Append(partial, DecryptAt(pos + 1, pos + 1)) PROVE Kept
        <4>1. partial' \in Seq(Unit)
          BY <2>1, <3>2, <3>4
        <4>2. IsPrefix(partial, partial') /\ partial' # NoFile
          BY <2>1, <3>2, <3>4, <4>1, PrefixFacts, FileIsNotNoFile
        <4>3. QED
          BY <4>2
      <3>5. QED
        BY <2>2, <3>3, <3>4
    <2>6. CASE Open
      BY <2>6, <2>2 DEF Open, Opened
    <2>7. CASE Rename
      BY <2>7 DEF Rename
    <2>8. CASE Discard(TRUE) \/ Discard(FALSE)
      BY <2>8 DEF Discard, MacMismatch
    <2>9. CASE \/ Skip \/ Start \/ CreateDirFails \/ GetUrl \/ Fails \/ RangeAccepted
               \/ RangeRefused \/ Poll \/ ReadFails \/ EndOfBody \/ Cancelled \/ GiveUp
               \/ Retry \/ WaitEnds \/ Verify \/ Sync
      BY <2>9, <2>2 DEF Skip, Start, CreateDirFails, GetUrl, Fails, RangeAccepted,
                        RangeRefused, Poll, ReadFails, EndOfBody, Cancelled, GiveUp,
                        Retry, WaitEnds, Verify, Sync, disk
    <2>10. CASE UserCancels \/ ClockExpires \/ UrlExpires \/ Kill \/ Writeback
      BY <2>10, <2>2 DEF UserCancels, ClockExpires, UrlExpires, Kill, Writeback, disk
    <2>11. CASE PowerLoss \/ UserRemovesPartial
      BY <2>11
    <2>12. QED
      BY <2>4, <2>5, <2>6, <2>7, <2>8, <2>9, <2>10, <2>11
         DEF Next, Program, Works, Errs, Environment
  <1>2. QED
    BY <1>1, AlwaysSafe, PTL DEF Spec, ProgressKept

-----------------------------------------------------------------------------
(* To its callers a download is a Delivery.                                *)

\* Nothing puts a file at local_path while a run is under way.
StillAbsent == pc # "idle" => local = NoFile

LEMMA StillAbsentStep == StillAbsent /\ [Next]_vars => StillAbsent'
  <1> SUFFICES ASSUME StillAbsent, [Next]_vars PROVE StillAbsent'
    OBVIOUS
  <1> USE DEF StillAbsent
  <1>1. ASSUME NEW o, Stop(o) PROVE StillAbsent'
    BY <1>1 DEF Stop
  <1>2. CASE \/ Skip \/ CreateDirFails \/ Fails \/ WriteFails \/ Cancelled \/ GiveUp
             \/ Rename \/ Discard(TRUE) \/ Discard(FALSE) \/ Kill \/ PowerLoss
    BY <1>2, <1>1 DEF Skip, CreateDirFails, Fails, WriteFails, Cancelled, GiveUp,
                      Rename, Discard, Kill, PowerLoss
  <1>3. CASE Open
    BY <1>3 DEF Open, Stop, marks
  <1>4. CASE \/ Start \/ GetUrl \/ RangeAccepted \/ RangeRefused \/ Poll \/ ReadUnit
             \/ ReadCorrupted \/ ReadOverrun \/ ReadFails \/ EndOfBody \/ Retry
             \/ WaitEnds \/ Verify \/ Sync
    BY <1>4 DEF Start, GetUrl, RangeAccepted, RangeRefused, Poll, ReadUnit, ReadCorrupted,
                ReadOverrun, Accept, ReadFails, EndOfBody, Retry, WaitEnds, Verify, Sync, disk
  <1>5. CASE \/ UserCancels \/ ClockExpires \/ UrlExpires \/ Writeback
             \/ UserRemovesPartial \/ UNCHANGED vars
    BY <1>5 DEF UserCancels, ClockExpires, UrlExpires, Writeback, UserRemovesPartial,
                vars, disk
  <1>6. QED
    BY <1>2, <1>3, <1>4, <1>5 DEF Next, Program, Works, Errs, Environment

\* What a caller sees.
Target == CASE local = NoFile -> "absent" [] local = Plain -> "whole" [] OTHER -> "wrong"
Durable == "rename" \notin unsynced
Busy == pc # "idle"

LEMMA TargetFact ==
  /\ local = NoFile => Target = "absent"
  /\ local = Plain => Target = "whole"
  /\ local' = NoFile => Target' = "absent"
  /\ local' = Plain => Target' = "whole"
  /\ UNCHANGED local => UNCHANGED Target
  <1>1. Plain # NoFile
    BY PlainType, FileIsNotNoFile
  <1>2. QED
    BY <1>1 DEF Target

\* Every step of a download is a step of a Delivery, or does not show.
LEMMA DeliveryStep ==
  TypeInv /\ Safe /\ StillAbsent /\ [Next]_vars => [Promise!Next]_(Promise!vars)
  <1> SUFFICES ASSUME TypeInv, Safe, StillAbsent, [Next]_vars
               PROVE  [Promise!Next]_(Promise!vars)
    OBVIOUS
  <1> USE DEF Promise!Next, Promise!vars
  <1>t. local = NoFile \/ local = Plain
    BY DEF Safe, DeliveredSafely
  <1>n. ASSUME UNCHANGED <<local, outcome>>, Busy' = Busy, Durable' = Durable
        PROVE  UNCHANGED Promise!vars
    BY <1>n, TargetFact DEF Target, Busy, Durable
  <1>f. ASSUME NEW o, Stop(o), UNCHANGED local, Durable' = Durable,
               local = NoFile, o = "failed" \/ (o = "cancelled" /\ pc # "idle")
        PROVE  Promise!Fail
    BY <1>f, TargetFact DEF Stop, Promise!Fail, Target, Busy, Durable
  <1>1. CASE Skip
    BY <1>1, <1>t, TargetFact DEF Skip, Stop, disk, Promise!Skip, Target, Durable
  <1>2. CASE Start
    BY <1>2, TargetFact DEF Start, disk, Promise!Ask, Target, Durable
  <1>3. CASE CreateDirFails \/ Fails \/ GiveUp
    BY <1>3, <1>f DEF CreateDirFails, Fails, GiveUp, ErrorOutcome, disk, StillAbsent, Durable
  <1>4. CASE Cancelled
    BY <1>4, <1>f DEF Cancelled, disk, StillAbsent, Durable
  <1>5. CASE WriteFails
    BY <1>5, <1>f DEF WriteFails, ErrorOutcome, StillAbsent, Durable
  <1>6. CASE Discard(TRUE) \/ Discard(FALSE)
    BY <1>6, <1>f DEF Discard, ErrorOutcome, StillAbsent, Durable
  <1>7. CASE Open
    <2>1. UNCHANGED local /\ Durable' = Durable /\ pc = "open" /\ local = NoFile
      BY <1>7 DEF Open, StillAbsent, Durable
    <2>2. CASE Stop("failed")
      BY <2>1, <2>2, <1>f
    <2>3. CASE pc' = "loop" /\ UNCHANGED marks
      BY <2>1, <2>3, <1>n DEF marks, Busy
    <2>4. QED
      BY <1>7, <2>2, <2>3 DEF Open, ErrorOutcome
  <1>8. CASE Rename
    BY <1>8, TargetFact
       DEF Rename, Stop, Promise!Deliver, Target, Durable, Safe, InStep, Verified, StillAbsent
  <1>9. CASE \/ GetUrl \/ RangeAccepted \/ RangeRefused \/ Poll \/ ReadUnit \/ ReadCorrupted
             \/ ReadOverrun \/ ReadFails \/ EndOfBody \/ Retry \/ WaitEnds \/ Verify \/ Sync
    BY <1>9, <1>n DEF GetUrl, RangeAccepted, RangeRefused, Poll, ReadUnit, ReadCorrupted,
                      ReadOverrun, Accept, ReadFails, EndOfBody, Retry, WaitEnds, Verify,
                      Sync, AfterSync, disk, run, marks, Busy, Durable
  <1>10. CASE \/ UserCancels \/ ClockExpires \/ UrlExpires \/ UserRemovesPartial
              \/ UNCHANGED vars
    BY <1>10, <1>n DEF UserCancels, ClockExpires, UrlExpires, UserRemovesPartial,
                       vars, disk, run, marks, Busy, Durable
  <1>11. CASE Kill
    BY <1>11, TargetFact DEF Kill, Stop, disk, Promise!Die, Target, Durable
  <1>12. CASE PowerLoss
    <2>1. "local" \notin unsynced
      BY DEF Safe, DeliveredSafely
    <2>2. \/ local' = local
          \/ ~Durable /\ local' = NoFile
      BY <1>12, <2>1 DEF PowerLoss, Durable
    <2>3. Stop("none") /\ Durable'
      BY <1>12 DEF PowerLoss, Durable
    <2>4. QED
      BY <2>2, <2>3, TargetFact DEF Stop, Promise!LosePower, Target, Durable
  <1>13. CASE Writeback
    <2>1. UNCHANGED <<local, outcome>> /\ Busy' = Busy
      BY <1>13 DEF Writeback, run, marks, Busy
    <2>2. CASE Durable' = Durable
      BY <2>1, <2>2, <1>n
    <2>3. CASE Durable' /\ ~Durable
      BY <2>1, <2>3, TargetFact DEF Promise!Settle, Target, Busy, Durable
    <2>4. QED
      BY <1>13, <2>2, <2>3 DEF Writeback, Durable
  <1>14. QED
    BY <1>1, <1>2, <1>3, <1>4, <1>5, <1>6, <1>7, <1>8, <1>9, <1>10, <1>11, <1>12, <1>13
       DEF Next, Program, Works, Errs, Environment

\* Download implements Delivery, for every size of file, range and back-off.
THEOREM DownloadDelivers == Spec => ImplementsDelivery
  <1>1. Init => Promise!Init /\ StillAbsent
    <2> SUFFICES ASSUME Init PROVE Promise!Init /\ StillAbsent
      OBVIOUS
    <2>1. Target = "absent" /\ outcome = "none" /\ StillAbsent
      BY TargetFact DEF Init, StillAbsent
    <2>2. ("rename" \notin unsynced) = TRUE /\ (pc # "idle") = FALSE
      BY DEF Init
    <2>3. QED
      BY <2>1, <2>2, Zenon DEF Promise!Init, Target
  <1>2. QED
    BY <1>1, AlwaysSafe, StillAbsentStep, DeliveryStep, PTL
       DEF Spec, ImplementsDelivery, Promise!Spec
=============================================================================
