----------------------------- MODULE CliProofs -----------------------------
(***************************************************************************)
(* Proofs about Cli, for any links and files: what a Ctrl-C stops, and that *)
(* the picker hears it, for any number of processes; and that two of them   *)
(* share partials and targets without damage, and tell the truth about it.  *)
(***************************************************************************)
EXTENDS Cli, TLAPS

Places == {"link", "job", "open", "fetch", "rename", "after", "check", "linkend", "pick", "exit"}

\* The places of a process that has begun a sync_file after Ctrl-C: none from
\* which the loops begin another.
Winding == Places \ {"link", "job", "pick"}

\* One process, its record as far as the two theorems look.
Sound(r) ==
  /\ DOMAIN r = DOMAIN Fresh
  /\ r.pc \in Places /\ r.cancel \in BOOLEAN /\ r.late \in {0, 1}
  /\ ~r.cancel => r.late = 0
  /\ r.late = 1 => r.pc \in Winding
  /\ r.reading \in Reading /\ r.unheard \in {0, 1}
  /\ r.unheard = 1 => r.reading \in {Ground, "second"}

CliInv == DOMAIN proc = Process /\ \A p \in Process : Sound(proc[p])

LEMMA FreshIsSound == Sound(Fresh) /\ Sound([Fresh EXCEPT !.pc = "exit", !.status = Killed])
  BY DEF Sound, Fresh, Places, Winding, Reading, Ground

LEMMA CliInit == Init => CliInv
  BY FreshIsSound DEF Init, CliInv

LEMMA OneProcess ==
  ASSUME CliInv, NEW p \in Process, NEW r, Sound(r), proc' = [proc EXCEPT ![p] = r]
  PROVE  CliInv'
  BY DEF CliInv

\* A link can end from anywhere, and a job wherever a sync_file runs.
LEMMA LinkEndIsSound ==
  ASSUME CliInv, NEW p \in Process, NEW ok \in BOOLEAN, LinkEnds(p, ok)
  PROVE  CliInv'
  BY DEF CliInv, LinkEnds, Sound, Places, Winding, Reading, Ground, Fresh

LEMMA PlanIsSound ==
  ASSUME CliInv, NEW p \in Process, NEW jobs, Planned(p, jobs), proc[p].pc \in {"link", "pick"}
  PROVE  CliInv'
<1>1. CASE jobs = <<>>
  BY <1>1, LinkEndIsSound DEF Planned
<1>2. CASE jobs # <<>>
  <2> DEFINE r == [proc[p] EXCEPT !.pc = "job", !.jobs = jobs, !.asked = @ \cup ToSet(jobs),
                                  !.reading = Ground, !.unheard = 0]
  <2>1. proc' = [proc EXCEPT ![p] = r]
    BY <1>2 DEF Planned
  <2>2. Sound(proc[p])
    BY DEF CliInv
  <2>3. Sound(r)
    BY <2>2 DEF Sound, Places, Winding, Reading, Ground, Fresh
  <2> QED
    BY <2>1, <2>3, OneProcess
<1> QED
  BY <1>1, <1>2

LEMMA JobEndIsSound ==
  ASSUME NEW r, NEW outcome, Sound(r)
  PROVE  Sound([r EXCEPT !.pc = "after", !.outcome = outcome, !.fd = "none", !.pos = 0,
                         !.good = TRUE])
  BY DEF Sound, Places, Winding, Reading, Ground, Fresh

LEMMA OthersAreSound ==
  ASSUME CliInv, NEW p \in Process, NEW outcome, NEW moved, proc' = Others(p, outcome, moved)
  PROVE  CliInv'
<1>1. DOMAIN proc' = Process
  BY DEF Others
<1>2. ASSUME NEW q \in Process PROVE Sound(proc'[q])
  <2>1. Sound(proc[q])
    BY DEF CliInv
  <2>2. Sound(JobEnded(p, outcome))
    BY JobEndIsSound DEF CliInv, JobEnded
  <2>3. \A fd : Sound([proc[q] EXCEPT !.fd = fd])
    BY <2>1 DEF Sound, Fresh
  <2>4. proc'[q] = IF q = p THEN JobEnded(p, outcome)
                   ELSE IF proc[q].fd = "none" \/ Current(q) # Current(p) THEN proc[q]
                   ELSE [proc[q] EXCEPT !.fd = IF @ = "partial" THEN moved
                                 ELSE IF moved = "target" THEN "gone" ELSE @]
    BY DEF Others
  <2> QED
    BY <2>1, <2>2, <2>3, <2>4
<1> QED
  BY <1>1, <1>2 DEF CliInv

-----------------------------------------------------------------------------
(* The steps, by the part of the program they are in.                      *)
LEMMA LoopsAreSound ==
  ASSUME CliInv, NEW p \in Process,
         ResolveFails(p) \/ TakeAll(p) \/ LinkLoop(p) \/ AfterJob(p) \/ JobLoop(p) \/ OpenPicker(p)
  PROVE  CliInv'
<1>1. CASE ResolveFails(p)
  BY <1>1, LinkEndIsSound DEF ResolveFails
<1>2. CASE TakeAll(p)
  BY <1>2, PlanIsSound DEF TakeAll, At
<1>3. CASE LinkLoop(p)
  BY <1>3 DEF LinkLoop, At, CliInv, Sound, Places, Winding, Reading, Ground, Fresh
<1>4. CASE AfterJob(p)
  <2>1. CASE LinkEnds(p, FALSE)
    BY <2>1, LinkEndIsSound
  <2>2. CASE proc' = [proc EXCEPT ![p].pc = "check"]
    BY <1>4, <2>2 DEF AfterJob, At, CliInv, Sound, Places, Winding, Fresh
  <2> QED
    BY <1>4, <2>1, <2>2 DEF AfterJob
<1>5. CASE JobLoop(p)
  \* A job is begun only if there was no Ctrl-C, so that none was late.
  <2>1. CASE LinkEnds(p, TRUE)
    BY <2>1, LinkEndIsSound
  <2>2. CASE ~proc[p].cancel /\ proc' = [proc EXCEPT ![p].pc = "job", ![p].job = @ + 1]
    BY <2>2 DEF CliInv, Sound, Places, Winding, Fresh
  <2> QED
    BY <1>5, <2>1, <2>2 DEF JobLoop, Breaks
<1>6. CASE OpenPicker(p)
  <2>1. CASE LinkEnds(p, FALSE)
    BY <2>1, LinkEndIsSound
  <2>2. CASE proc' = [proc EXCEPT ![p].pc = "pick"]
    BY <1>6, <2>2 DEF OpenPicker, At, CliInv, Sound, Places, Winding, Fresh
  <2> QED
    BY <1>6, <2>1, <2>2 DEF OpenPicker
<1> QED
  BY <1>1, <1>2, <1>3, <1>4, <1>5, <1>6

\* A q or a Ctrl-C that leaves the picker up has met an Esc before it, and the
\* next one cannot.
LEMMA TypingIsSound ==
  ASSUME CliInv, NEW p \in Process, Type(p)
  PROVE  CliInv'
<1>1. PICK b \in Bytes :
        \/ LinkEnds(p, FALSE)
        \/ \E jobs : Planned(p, jobs)
        \/ /\ KeyOf(proc[p].reading, b) \notin Quits \cup {"esc"}
           /\ proc' = [proc EXCEPT
                ![p].reading = ReadingAfter(proc[p].reading, b),
                ![p].unheard = IF b \notin Quits THEN 0
                               ELSE IF proc[p].unheard = 2 THEN 2 ELSE proc[p].unheard + 1]
  BY DEF Type
<1>2. CASE LinkEnds(p, FALSE)
  BY <1>2, LinkEndIsSound
<1>3. CASE \E jobs : Planned(p, jobs)
  BY <1>3, PlanIsSound DEF Type, At
<1>4. CASE /\ KeyOf(proc[p].reading, b) \notin Quits \cup {"esc"}
           /\ proc' = [proc EXCEPT
                ![p].reading = ReadingAfter(proc[p].reading, b),
                ![p].unheard = IF b \notin Quits THEN 0
                               ELSE IF proc[p].unheard = 2 THEN 2 ELSE proc[p].unheard + 1]
  BY <1>4 DEF CliInv, Sound, Fresh, KeyOf, ReadingAfter, Quits, Reading, Ground, Bytes, NoKey
<1> QED
  BY <1>1, <1>2, <1>3, <1>4

LEMMA SyncIsSound ==
  ASSUME CliInv, NEW p \in Process,
         \/ Begin(p) \/ Open(p) \/ Fetch(p) \/ SeesCancel(p) \/ Fails(p)
         \/ Verifies(p) \/ Mismatch(p) \/ Rename(p)
  PROVE  CliInv'
<1>1. ASSUME NEW outcome, JobEnds(p, outcome) PROVE CliInv'
  <2>1. Sound(JobEnded(p, outcome))
    BY JobEndIsSound DEF CliInv, JobEnded
  <2> QED
    BY <1>1, <2>1, OneProcess DEF JobEnds
<1>2. CASE Begin(p)
  BY <1>2, SMTT(20) DEF Begin, At, CliInv, Sound, Places, Winding, Fresh
<1>3. CASE Open(p)
  BY <1>3, SMTT(20) DEF Open, At, CliInv, Sound, Places, Winding, Fresh
<1>4. CASE Fetch(p)
  BY <1>4, SMTT(20) DEF Fetch, CliInv, Sound, Fresh
<1>5. CASE SeesCancel(p)
  BY <1>5, <1>1 DEF SeesCancel
<1>6. CASE Fails(p)
  BY <1>6, <1>1 DEF Fails
<1>7. CASE Verifies(p)
  BY <1>7 DEF Verifies, At, CliInv, Sound, Places, Winding, Fresh
<1>8. CASE Mismatch(p)
  BY <1>8, <1>1, OthersAreSound DEF Mismatch
<1>9. CASE Rename(p)
  BY <1>9, <1>1, OthersAreSound DEF Rename
<1> QED
  BY <1>2, <1>3, <1>4, <1>5, <1>6, <1>7, <1>8, <1>9

LEMMA OutsideIsSound ==
  ASSUME CliInv, NEW p \in Process, CtrlC(p) \/ Kill(p) \/ Again(p)
  PROVE  CliInv'
<1>1. CASE CtrlC(p)
  BY <1>1, ZenonT(20) DEF CtrlC, CliInv, Sound, Fresh
<1>2. CASE Kill(p)
  BY <1>2, FreshIsSound, OneProcess DEF Kill
<1>3. CASE Again(p)
  BY <1>3, FreshIsSound, OneProcess DEF Again
<1> QED
  BY <1>1, <1>2, <1>3

LEMMA CliStep == CliInv /\ [Next]_vars => CliInv'
<1> SUFFICES ASSUME CliInv, [Next]_vars PROVE CliInv'
  OBVIOUS
<1>1. ASSUME NEW p \in Process, Run(p) \/ Type(p) \/ CtrlC(p) \/ Kill(p) \/ Again(p)
      PROVE  CliInv'
  BY <1>1, LoopsAreSound, TypingIsSound, SyncIsSound, OutsideIsSound DEF Run
<1>2. CASE UNCHANGED vars
  BY <1>2 DEF vars, CliInv
<1> QED
  BY <1>1, <1>2 DEF Next

\* Whatever is left of jobs and links, Ctrl-C lets at most one more sync_file
\* begin (cli.rs:104-106, 146-148).
THEOREM CtrlCStopsTheLoops == Spec => []AtMostOneMore
<1>1. CliInv => AtMostOneMore
  BY DEF CliInv, Sound, AtMostOneMore
<1> QED
  BY CliInit, CliStep, <1>1, PTL DEF Spec

\* However an escape sequence was begun, the picker is gone after the second q or
\* Ctrl-C in a row (term.rs:86-101).
THEOREM PickerHearsTheUser == Spec => []QuitIsHeard
<1>1. CliInv => QuitIsHeard
  BY DEF CliInv, Sound, QuitIsHeard
<1> QED
  BY CliInit, CliStep, <1>1, PTL DEF Spec

-----------------------------------------------------------------------------
(* Two processes over the same files.                                      *)
Right(f) == [len : 0..Size[f], wrong : {{}}]
Full(f) == [len |-> Size[f], wrong |-> {}]

\* Only a process that has opened a partial holds a file.
FdInv ==
  /\ DOMAIN partial = File /\ DOMAIN target = File /\ corrupted \in BOOLEAN
  /\ \A p \in Process : proc[p].fd = "none" <=> proc[p].pc \notin {"fetch", "rename"}

Values ==
  \A f \in File :
    /\ partial[f] = Absent \/ partial[f] \in Right(f)
    /\ target[f] \in {Absent, Full(f)}

\* p is about to open f's partial, or has opened it.
Busy(p, f) == proc[p].pc \in {"open", "fetch", "rename"} /\ Current(p) = f

\* What p has read or written is in the partial; or it was overtaken, and then
\* nobody else is at that file any more, to make it a new partial.
Working(p, f) ==
  proc[p].pc \in {"fetch", "rename"} /\ Current(p) = f =>
    /\ proc[p].good = TRUE /\ proc[p].pos \in 0..Size[f]
    /\ proc[p].pc = "rename" => proc[p].pos = Size[f]
    /\ proc[p].fd \in {"partial", "target"}
    /\ proc[p].fd = "partial" => partial[f] # Absent /\ proc[p].pos <= partial[f].len
    /\ proc[p].fd = "target" =>
         /\ target[f] = Full(f) /\ partial[f] = Absent
         /\ \A q \in Process \ {p} : ~Busy(q, f)

ShareInv ==
  /\ CliInv /\ FdInv
  /\ ~corrupted => Values /\ \A p \in Process, f \in File : Working(p, f)

LEMMA NotAbsent == \A f \in File : Full(f) # Absent
  BY DEF Full, Absent

LEMMA SizeIsPositive == \A f \in File : Size[f] \in Nat /\ Size[f] > 0
  BY CliAssumption

LEMMA ShareInit == Init => ShareInv
<1> SUFFICES ASSUME Init PROVE ShareInv
  OBVIOUS
<1>1. \A p \in Process : proc[p].pc = "link" /\ proc[p].fd = "none"
  BY DEF Init, Fresh
<1> QED
  BY <1>1, CliInit DEF Init, ShareInv, FdInv, Values, Working

\* A process that holds no file afterwards disturbs nobody, unless it goes for a
\* file that has been delivered.
LEMMA HandsOff ==
  ASSUME ShareInv, CliInv', NEW p \in Process, NEW r, UNCHANGED Files,
         proc' = [proc EXCEPT ![p] = r],
         r.fd = "none", r.pc \notin {"fetch", "rename"},
         r.pc = "open" => target[r.jobs[r.job]] = Absent
  PROVE  ShareInv'
<1>1. UNCHANGED <<partial, target, corrupted>>
  BY DEF Files
<1>2. proc'[p] = r /\ \A q \in Process \ {p} : proc'[q] = proc[q]
  BY DEF ShareInv, CliInv
<1>3. FdInv'
  BY <1>1, <1>2 DEF ShareInv, FdInv
<1>4. ASSUME ~corrupted', NEW q \in Process, NEW f \in File PROVE Working(q, f)'
  <2>1. CASE q = p
    BY <2>1, <1>2 DEF Working
  <2>2. CASE q # p
    <3>1. Working(q, f) /\ proc'[q] = proc[q]
      BY <1>1, <1>2, <1>4, <2>2 DEF ShareInv
    <3>2. target[f] = Full(f) => ~(r.pc = "open" /\ r.jobs[r.job] = f)
      BY NotAbsent
    <3> QED
      BY <1>1, <1>2, <3>1, <3>2 DEF Working, Busy, Current, Full
  <2> QED
    BY <2>1, <2>2
<1>5. ~corrupted' => Values'
  BY <1>1 DEF ShareInv, Values, Right, Full
<1> QED
  BY <1>3, <1>4, <1>5 DEF ShareInv

LEMMA ShareLinkEnds ==
  ASSUME ShareInv, CliInv', NEW p \in Process, NEW ok, LinkEnds(p, ok), UNCHANGED Files,
         proc[p].fd = "none"
  PROVE  ShareInv'
<1> DEFINE r == [proc[p] EXCEPT !.pc = "linkend", !.status = StatusAfter(p, ok),
                                !.jobs = <<>>, !.job = 1, !.outcome = "done",
                                !.reading = Ground, !.unheard = 0]
<1>1. DOMAIN proc[p] = DOMAIN Fresh
  BY DEF ShareInv, CliInv, Sound
<1>2. r.pc = "linkend" /\ r.fd = "none"
  BY <1>1 DEF Fresh
<1>3. proc' = [proc EXCEPT ![p] = r]
  BY DEF LinkEnds
<1> HIDE DEF r
<1> QED
  BY <1>2, <1>3, HandsOff

LEMMA SharePlanned ==
  ASSUME ShareInv, CliInv', NEW p \in Process, NEW jobs, Planned(p, jobs), UNCHANGED Files,
         proc[p].fd = "none"
  PROVE  ShareInv'
<1>1. CASE jobs = <<>>
  BY <1>1, ShareLinkEnds DEF Planned
<1>2. CASE jobs # <<>>
  <2> DEFINE r == [proc[p] EXCEPT !.pc = "job", !.jobs = jobs, !.asked = @ \cup ToSet(jobs),
                                  !.reading = Ground, !.unheard = 0]
  <2>1. DOMAIN proc[p] = DOMAIN Fresh
    BY DEF ShareInv, CliInv, Sound
  <2>2. r.pc = "job" /\ r.fd = "none"
    BY <2>1 DEF Fresh
  <2>3. proc' = [proc EXCEPT ![p] = r]
    BY <1>2 DEF Planned
  <2> HIDE DEF r
  <2> QED
    BY <2>2, <2>3, HandsOff
<1> QED
  BY <1>1, <1>2

LEMMA ShareMoves ==
  ASSUME ShareInv, CliInv', NEW p \in Process, NEW place, UNCHANGED Files,
         proc' = [proc EXCEPT ![p].pc = place], proc[p].fd = "none",
         place \notin {"open", "fetch", "rename"}
  PROVE  ShareInv'
<1> DEFINE r == [proc[p] EXCEPT !.pc = place]
<1>1. DOMAIN proc[p] = DOMAIN Fresh
  BY DEF ShareInv, CliInv, Sound
<1>2. r.pc = place /\ r.fd = "none"
  BY <1>1 DEF Fresh
<1>3. proc' = [proc EXCEPT ![p] = r]
  OBVIOUS
<1> HIDE DEF r
<1> QED
  BY <1>2, <1>3, HandsOff

LEMMA ShareLoops ==
  ASSUME ShareInv, CliInv', NEW p \in Process,
         ResolveFails(p) \/ TakeAll(p) \/ LinkLoop(p) \/ AfterJob(p) \/ JobLoop(p) \/ OpenPicker(p)
  PROVE  ShareInv'
<1>1. proc[p].fd = "none" /\ UNCHANGED Files
  BY DEF ResolveFails, TakeAll, LinkLoop, AfterJob, JobLoop, OpenPicker, At, ShareInv, FdInv
<1>2. CASE \E ok : LinkEnds(p, ok)
  BY <1>1, <1>2, ShareLinkEnds
<1>3. CASE \E jobs : Planned(p, jobs)
  BY <1>1, <1>3, SharePlanned
<1>4. CASE \E place \in {"check", "pick"} : proc' = [proc EXCEPT ![p].pc = place]
  BY <1>1, <1>4, ShareMoves
<1>5. CASE LinkLoop(p)
  <2> DEFINE r == [proc[p] EXCEPT !.pc = IF proc[p].cancel \/ NextLink(p) > Len(Commands[p])
                                         THEN "exit" ELSE "link",
                                  !.link = NextLink(p)]
  <2>1. DOMAIN proc[p] = DOMAIN Fresh
    BY DEF ShareInv, CliInv, Sound
  <2>2. r.pc \in {"exit", "link"} /\ r.fd = "none"
    BY <1>1, <2>1 DEF Fresh
  <2>3. proc' = [proc EXCEPT ![p] = r]
    BY <1>5 DEF LinkLoop
  <2> HIDE DEF r
  <2> QED
    BY <1>1, <2>2, <2>3, HandsOff
<1>6. CASE proc' = [proc EXCEPT ![p].pc = "job", ![p].job = @ + 1]
  <2> DEFINE r == [proc[p] EXCEPT !.pc = "job", !.job = @ + 1]
  <2>1. DOMAIN proc[p] = DOMAIN Fresh
    BY DEF ShareInv, CliInv, Sound
  <2>2. r.pc = "job" /\ r.fd = "none"
    BY <1>1, <2>1 DEF Fresh
  <2>3. proc' = [proc EXCEPT ![p] = r]
    BY <1>6
  <2> HIDE DEF r
  <2> QED
    BY <1>1, <2>2, <2>3, HandsOff
<1> QED
  BY <1>2, <1>3, <1>4, <1>5, <1>6 DEF ResolveFails, TakeAll, AfterJob, JobLoop, OpenPicker

LEMMA ShareTyping ==
  ASSUME ShareInv, CliInv', NEW p \in Process, Type(p)
  PROVE  ShareInv'
<1>1. proc[p].fd = "none" /\ UNCHANGED Files
  BY DEF Type, At, ShareInv, FdInv
<1>2. CASE \E ok : LinkEnds(p, ok)
  BY <1>1, <1>2, ShareLinkEnds
<1>3. CASE \E jobs : Planned(p, jobs)
  BY <1>1, <1>3, SharePlanned
<1>4. CASE \E now, n : proc' = [proc EXCEPT ![p].reading = now, ![p].unheard = n]
  <2>1. PICK now, n : proc' = [proc EXCEPT ![p].reading = now, ![p].unheard = n]
    BY <1>4
  <2> DEFINE r == [proc[p] EXCEPT !.reading = now, !.unheard = n]
  <2>2. DOMAIN proc[p] = DOMAIN Fresh
    BY DEF ShareInv, CliInv, Sound
  <2>3. r.pc = "pick" /\ r.fd = "none"
    BY <1>1, <2>2 DEF Fresh, Type, At
  <2>4. proc' = [proc EXCEPT ![p] = r]
    BY <2>1
  <2> HIDE DEF r
  <2> QED
    BY <1>1, <2>3, <2>4, HandsOff
<1> QED
  BY <1>2, <1>3, <1>4 DEF Type

LEMMA ShareJobEnds ==
  ASSUME ShareInv, CliInv', NEW p \in Process, NEW outcome, JobEnds(p, outcome), UNCHANGED Files
  PROVE  ShareInv'
<1> DEFINE r == JobEnded(p, outcome)
<1>1. DOMAIN proc[p] = DOMAIN Fresh
  BY DEF ShareInv, CliInv, Sound
<1>2. r.pc = "after" /\ r.fd = "none"
  BY <1>1 DEF Fresh, JobEnded
<1>3. proc' = [proc EXCEPT ![p] = r]
  BY DEF JobEnds
<1> HIDE DEF r
<1> QED
  BY <1>2, <1>3, HandsOff

\* A sync_file goes for the partial only if the target was not there.
LEMMA ShareBegin ==
  ASSUME ShareInv, CliInv', NEW p \in Process, Begin(p)
  PROVE  ShareInv'
<1>1. PICK late : proc' = [proc EXCEPT ![p].late = late, ![p].outcome = "done",
                              ![p].pc = IF target[Current(p)] # Absent THEN "after" ELSE "open"]
  BY DEF Begin
<1> DEFINE r == [proc[p] EXCEPT !.late = late, !.outcome = "done",
                                !.pc = IF target[Current(p)] # Absent THEN "after" ELSE "open"]
<1>2. DOMAIN proc[p] = DOMAIN Fresh /\ proc[p].fd = "none" /\ UNCHANGED Files
  BY DEF ShareInv, CliInv, Sound, FdInv, Begin, At
<1>3. /\ r.pc \in {"after", "open"} /\ r.fd = "none"
      /\ r.pc = "open" => target[r.jobs[r.job]] = Absent
  BY <1>2 DEF Fresh, Current
<1>4. proc' = [proc EXCEPT ![p] = r]
  BY <1>1
<1> HIDE DEF r
<1> QED
  BY <1>2, <1>3, <1>4, HandsOff

LEMMA ShareOutside ==
  ASSUME ShareInv, CliInv', NEW p \in Process, CtrlC(p) \/ Kill(p) \/ Again(p)
  PROVE  ShareInv'
<1>1. CASE Kill(p)
  <2> DEFINE r == [Fresh EXCEPT !.pc = "exit", !.status = Killed]
  <2>1. r.pc = "exit" /\ r.fd = "none"
    BY DEF Fresh
  <2> QED
    BY <1>1, <2>1, HandsOff DEF Kill
<1>2. CASE Again(p)
  <2>1. Fresh.pc = "link" /\ Fresh.fd = "none"
    BY DEF Fresh
  <2> QED
    BY <1>2, <2>1, HandsOff DEF Again
<1>3. CASE CtrlC(p)
  <2>1. UNCHANGED <<partial, target, corrupted>> /\ proc' = [proc EXCEPT ![p].cancel = TRUE]
    BY <1>3 DEF CtrlC, Files
  <2>2. DOMAIN proc = Process /\ \A q \in Process : DOMAIN proc[q] = DOMAIN Fresh
    BY DEF ShareInv, CliInv, Sound
  <2>3. \A q \in Process :
          /\ proc'[q].pc = proc[q].pc /\ proc'[q].fd = proc[q].fd /\ proc'[q].pos = proc[q].pos
          /\ proc'[q].good = proc[q].good
          /\ proc'[q].jobs = proc[q].jobs /\ proc'[q].job = proc[q].job
    BY <2>1, <2>2 DEF Fresh
  <2>4. FdInv'
    BY <2>1, <2>3 DEF ShareInv, FdInv
  <2>5. ~corrupted' => Values'
    BY <2>1 DEF ShareInv, Values, Right, Full
  <2>6. \A q \in Process : Current(q)' = Current(q)
    BY <2>3 DEF Current
  <2>7. ASSUME ~corrupted', NEW q \in Process, NEW f \in File PROVE Working(q, f)'
    <3>1. Working(q, f)
      BY <2>1, <2>7 DEF ShareInv
    <3> QED
      BY <3>1, <2>1, <2>3, <2>6 DEF Working, Busy, Full
  <2> QED
    BY <2>4, <2>5, <2>7 DEF ShareInv
<1> QED
  BY <1>1, <1>2, <1>3

\* A file that is opened is no longer than the remote one, and nothing in it is
\* wrong; the target is looked at no more.
LEMMA ShareOpen ==
  ASSUME ShareInv, CliInv', NEW p \in Process, Open(p)
  PROVE  ShareInv'
<1> DEFINE held == Opened(partial[Current(p)])
<1>1. /\ proc[p].pc = "open" /\ UNCHANGED <<target, corrupted>>
      /\ partial' = [partial EXCEPT ![Current(p)] = held]
      /\ proc' = [proc EXCEPT ![p].pc = "fetch", ![p].fd = "partial",
                              ![p].pos = held.len, ![p].good = Seeded(held)]
  BY DEF Open, At
<1>2. DOMAIN proc = Process /\ \A q \in Process : DOMAIN proc[q] = DOMAIN Fresh
  BY DEF ShareInv, CliInv, Sound
<1>3. /\ proc'[p].pc = "fetch" /\ proc'[p].fd = "partial" /\ Current(p)' = Current(p)
      /\ proc'[p].pos = held.len /\ proc'[p].good = Seeded(held)
      /\ \A q \in Process \ {p} : proc'[q] = proc[q] /\ Current(q)' = Current(q)
  BY <1>1, <1>2 DEF Fresh, Current
<1>4. FdInv'
  BY <1>1, <1>3 DEF ShareInv, FdInv
<1>5. ASSUME ~corrupted', Current(p) \in File
      PROVE  /\ held \in Right(Current(p)) /\ held # Absent
             /\ partial[Current(p)] # Absent => held = partial[Current(p)]
  <2>1. Values
    BY <1>1, <1>5 DEF ShareInv
  <2>2. CASE partial[Current(p)] = Absent
    BY <1>5, <2>2, SizeIsPositive DEF Opened, Empty, Absent, Right
  <2>3. CASE partial[Current(p)] # Absent
    BY <1>5, <2>1, <2>3 DEF Values, Opened
  <2> QED
    BY <2>2, <2>3
<1>6. \A f \in File : partial'[f] = IF f = Current(p) THEN held ELSE partial[f]
  BY <1>1 DEF ShareInv, FdInv
<1> HIDE DEF held
<1>7. ASSUME ~corrupted', NEW f \in File
      PROVE  /\ partial'[f] = Absent \/ partial'[f] \in Right(f)
             /\ target'[f] \in {Absent, Full(f)}
  <2>1. Values
    BY <1>1, <1>7 DEF ShareInv
  <2>2. CASE f = Current(p)
    BY <1>1, <1>5, <1>6, <1>7, <2>1, <2>2 DEF Values
  <2>3. CASE f # Current(p)
    BY <1>1, <1>6, <1>7, <2>1, <2>3 DEF Values
  <2> QED
    BY <2>2, <2>3
<1>8. ASSUME ~corrupted', NEW q \in Process, NEW f \in File PROVE Working(q, f)'
  <2>1. CASE q = p
    <3>1. CASE f = Current(p)
      <4>1. /\ held.len \in 0..Size[f] /\ held.wrong = {} /\ partial'[f] = held
            /\ held # Absent
        BY <1>5, <1>6, <1>8, <3>1 DEF Right
      <4>2. Seeded(held) = TRUE /\ held.len <= held.len
        BY <4>1, SizeIsPositive DEF Seeded
      <4>3. proc'[q].good = TRUE /\ proc'[q].pos = held.len
        BY <1>3, <2>1, <4>2, Zenon
      <4> QED
        BY <1>3, <2>1, <3>1, <4>1, <4>2, <4>3 DEF Working
    <3>2. CASE f # Current(p)
      BY <1>3, <2>1, <3>2 DEF Working
    <3> QED
      BY <3>1, <3>2
  <2>2. CASE q # p
    <3>1. Working(q, f)
      BY <1>1, <1>8 DEF ShareInv
    <3>2. CASE f # Current(p)
      <4>1. \A r \in Process : Busy(r, f)' = Busy(r, f)
        BY <1>1, <1>3, <3>2 DEF Busy
      <4>2. /\ partial'[f] = partial[f] /\ target' = target
            /\ proc'[q] = proc[q] /\ Current(q)' = Current(q)
        BY <1>1, <1>3, <1>6, <2>2, <3>2
      <4> QED
        BY <3>1, <4>1, <4>2 DEF Working, Full
    <3>3. CASE f = Current(p)
      \* q holds the partial: had it been overtaken, p would not be here.
      <4>1. proc[q].pc \in {"fetch", "rename"} /\ Current(q) = f =>
              proc[q].fd = "partial" /\ partial[f] # Absent
        <5>1. Busy(p, f)
          BY <1>1, <3>3 DEF Busy
        <5> QED
          BY <2>2, <3>1, <5>1 DEF Working
      <4>2. /\ partial[f] # Absent => partial'[f] = partial[f]
            /\ proc'[q] = proc[q] /\ Current(q)' = Current(q)
        BY <1>3, <1>5, <1>6, <1>8, <2>2, <3>3
      <4> QED
        BY <3>1, <4>1, <4>2 DEF Working
    <3> QED
      BY <3>2, <3>3
  <2> QED
    BY <2>1, <2>2
<1>9. ~corrupted' => Values'
  BY <1>7 DEF Values, Right, Full
<1> QED
  BY <1>4, <1>8, <1>9 DEF ShareInv

\* The file goes on right where it is right already.
LEMMA WrittenRight ==
  ASSUME NEW d, d.len \in Nat, d.wrong = {}, NEW k \in Nat, k <= d.len + 1
  PROVE  Written(d, k, TRUE) = [len |-> IF k > d.len THEN k ELSE d.len, wrong |-> {}]
<1>1. (d.len + 1)..(k - 1) = {}
  OBVIOUS
<1> QED
  BY <1>1 DEF Written

LEMMA ShareFetch ==
  ASSUME ShareInv, CliInv', NEW p \in Process, Fetch(p)
  PROVE  ShareInv'
<1> DEFINE k == proc[p].pos + 1
           c == Current(p)
<1>1. PICK right \in {TRUE, corrupted} :
        /\ partial' = IF proc[p].fd # "partial" THEN partial
                      ELSE [partial EXCEPT ![c] = Written(partial[c], k, right)]
        /\ target' = IF proc[p].fd # "target" THEN target
                     ELSE [target EXCEPT ![c] = Written(target[c], k, right)]
        /\ proc' = [proc EXCEPT ![p].pos = k, ![p].good = proc[p].good /\ right]
        /\ corrupted' = (corrupted \/ ~right)
  BY DEF Fetch
<1>2. proc[p].pc = "fetch" /\ proc[p].pos < Size[c]
  BY DEF Fetch, At
<1>3. DOMAIN proc = Process /\ \A q \in Process : DOMAIN proc[q] = DOMAIN Fresh
  BY DEF ShareInv, CliInv, Sound
<1>4. /\ proc'[p].pc = proc[p].pc /\ proc'[p].fd = proc[p].fd /\ Current(p)' = c
      /\ proc'[p].pos = k /\ proc'[p].good = (proc[p].good /\ right)
      /\ \A q \in Process \ {p} : proc'[q] = proc[q] /\ Current(q)' = Current(q)
  BY <1>1, <1>3 DEF Fresh, Current
<1>5. FdInv'
  <2>1. right \in BOOLEAN /\ corrupted' \in BOOLEAN
    BY <1>1 DEF ShareInv, FdInv
  <2>2. DOMAIN partial' = File /\ DOMAIN target' = File
    BY <1>1 DEF ShareInv, FdInv
  <2> QED
    BY <1>4, <2>1, <2>2 DEF ShareInv, FdInv
<1>6. ASSUME ~corrupted'
      PROVE  right = TRUE /\ ~corrupted /\ Values /\ \A q \in Process, f \in File : Working(q, f)
  BY <1>1, <1>6 DEF ShareInv, FdInv
<1>7. \A f \in File \ {c} : partial'[f] = partial[f] /\ target'[f] = target[f]
  BY <1>1
<1> HIDE DEF c
<1>8. ASSUME ~corrupted', c \in File
      PROVE  /\ k \in 0..Size[c]
             /\ proc[p].good = TRUE
             /\ \/ /\ proc[p].fd = "partial" /\ target'[c] = target[c] /\ partial[c] # Absent
                   /\ partial'[c] \in Right(c) /\ partial'[c] # Absent
                   /\ k <= partial'[c].len /\ partial[c].len <= partial'[c].len
                \/ /\ proc[p].fd = "target" /\ partial'[c] = partial[c] /\ partial[c] = Absent
                   /\ target[c] = Full(c) /\ target'[c] = Full(c)
                   /\ \A q \in Process \ {p} : ~Busy(q, c)
  <2>1. Size[c] \in Nat
    BY <1>8, SizeIsPositive
  <2>2. /\ Working(p, c) /\ proc[p].good = TRUE /\ proc[p].pos \in 0..Size[c]
        /\ proc[p].fd \in {"partial", "target"}
    BY <1>2, <1>6, <1>8 DEF Working, c
  <2>3. k \in 0..Size[c]
    BY <1>2, <2>1, <2>2
  <2>4. CASE proc[p].fd = "partial"
    <3>1. /\ partial[c] # Absent /\ partial[c].len \in 0..Size[c] /\ partial[c].wrong = {}
          /\ proc[p].pos <= partial[c].len
      BY <1>2, <1>6, <1>8, <2>2, <2>4 DEF Working, Values, Right, c
    <3>2. partial'[c] = Written(partial[c], k, TRUE) /\ target'[c] = target[c]
      BY <1>1, <1>6, <1>8, <2>4 DEF ShareInv, FdInv
    <3>3. k \in Nat /\ k <= partial[c].len + 1 /\ partial[c].len \in Nat
      BY <2>1, <2>2, <2>3, <3>1
    <3>4. /\ partial'[c].wrong = {} /\ partial'[c] \in Right(c)
          /\ partial[c].len <= partial'[c].len /\ k <= partial'[c].len
      <4>1. partial'[c] = [len |-> IF k > partial[c].len THEN k ELSE partial[c].len,
                           wrong |-> {}]
        BY <3>1, <3>2, <3>3, WrittenRight, Zenon
      <4> HIDE DEF k
      <4> QED
        BY <2>3, <3>1, <3>3, <4>1 DEF Right
    <3>5. partial'[c] # Absent
      BY <3>4 DEF Absent
    <3> QED
      BY <2>2, <2>3, <2>4, <3>1, <3>2, <3>4, <3>5
  <2>5. CASE proc[p].fd = "target"
    <3>1. /\ target[c] = Full(c) /\ partial[c] = Absent
          /\ \A q \in Process \ {p} : ~Busy(q, c)
      BY <1>2, <2>2, <2>5 DEF Working, c
    <3>2. target'[c] = Written(Full(c), k, TRUE) /\ partial'[c] = partial[c]
      BY <1>1, <1>6, <1>8, <2>5, <3>1 DEF ShareInv, FdInv
    <3>3. Written(Full(c), k, TRUE) = Full(c)
      <4>1. (Size[c] + 1)..(k - 1) = {} /\ ~(k > Size[c])
        BY <2>1, <2>3
      <4> QED
        BY <4>1 DEF Written, Full
    <3> QED
      BY <2>2, <2>3, <2>5, <3>1, <3>2, <3>3
  <2> QED
    BY <2>2, <2>4, <2>5
<1> HIDE DEF k
<1>9. ASSUME ~corrupted', NEW f \in File
      PROVE  /\ partial'[f] = Absent \/ partial'[f] \in Right(f)
             /\ target'[f] \in {Absent, Full(f)}
  <2>1. CASE f # c
    BY <1>6, <1>7, <1>9, <2>1 DEF Values
  <2>2. CASE f = c
    BY <1>6, <1>8, <1>9, <2>2 DEF Values
  <2> QED
    BY <2>1, <2>2
<1>10. \A q \in Process, f \in File : Busy(q, f)' = Busy(q, f)
  BY <1>4 DEF Busy, c
<1>11. ASSUME ~corrupted', NEW q \in Process, NEW f \in File PROVE Working(q, f)'
  <2>1. Working(q, f) /\ right = TRUE
    BY <1>6, <1>11
  <2>2. CASE f # c
    <3>1. CASE q = p
      BY <1>4, <2>2, <3>1 DEF Working
    <3>2. CASE q # p
      BY <1>4, <1>7, <1>10, <2>1, <2>2, <3>2 DEF Working, Full
    <3> QED
      BY <3>1, <3>2
  <2>3. CASE f = c /\ q = p
    <3>1. proc'[p].good = TRUE /\ proc'[p].pos \in 0..Size[f] /\ proc'[p].pc = "fetch"
      BY <1>2, <1>4, <1>8, <1>11, <2>1, <2>3
    <3>2. proc'[p].fd \in {"partial", "target"}
      BY <1>4, <1>8, <1>11, <2>3
    <3>3. proc'[p].fd = "partial" => partial'[f] # Absent /\ proc'[p].pos <= partial'[f].len
      BY <1>4, <1>8, <1>11, <2>3
    <3>4. proc'[p].fd = "target" =>
            /\ target'[f] = Full(f) /\ partial'[f] = Absent
            /\ \A r \in Process \ {p} : ~Busy(r, f)'
      BY <1>4, <1>8, <1>10, <1>11, <2>3
    <3> QED
      BY <2>3, <3>1, <3>2, <3>3, <3>4 DEF Working, Full
  <2>4. CASE f = c /\ q # p
    <3>1. Busy(p, f)
      BY <1>2, <2>4 DEF Busy, c
    <3>2. proc[q].pc \in {"fetch", "rename"} /\ Current(q) = f =>
            /\ Busy(q, f) /\ proc[q].fd = "partial"
            /\ proc[q].pos \in 0..Size[f] /\ proc[q].pos <= partial[f].len
            /\ partial[f].len \in 0..Size[f]
      BY <1>6, <1>11, <2>1, <2>4, <3>1 DEF Working, Busy, Values, Right
    <3>3. proc[q].pc \in {"fetch", "rename"} /\ Current(q) = f =>
            partial'[f] # Absent /\ proc[q].pos <= partial'[f].len
      BY <1>8, <1>11, <2>4, <3>2, SizeIsPositive DEF Right
    <3> QED
      BY <1>4, <2>1, <2>4, <3>2, <3>3 DEF Working
  <2> QED
    BY <2>2, <2>3, <2>4
<1>12. ~corrupted' => Values'
  BY <1>9 DEF Values, Right, Full
<1> QED
  BY <1>5, <1>11, <1>12 DEF ShareInv

LEMMA ShareVerifies ==
  ASSUME ShareInv, CliInv', NEW p \in Process, Verifies(p)
  PROVE  ShareInv'
<1>1. /\ proc' = [proc EXCEPT ![p].pc = "rename"] /\ UNCHANGED <<partial, target, corrupted>>
      /\ proc[p].pc = "fetch" /\ proc[p].pos = Size[Current(p)]
  BY DEF Verifies, At, Files
<1>2. DOMAIN proc = Process /\ \A q \in Process : DOMAIN proc[q] = DOMAIN Fresh
  BY DEF ShareInv, CliInv, Sound
<1>3. \A q \in Process :
        /\ proc'[q].fd = proc[q].fd /\ proc'[q].pos = proc[q].pos
        /\ proc'[q].good = proc[q].good /\ Current(q)' = Current(q)
        /\ proc'[q].pc = IF q = p THEN "rename" ELSE proc[q].pc
  BY <1>1, <1>2 DEF Fresh, Current
<1>4. FdInv'
  BY <1>1, <1>3 DEF ShareInv, FdInv
<1>5. ~corrupted' => Values'
  BY <1>1 DEF ShareInv, Values, Right, Full
<1>6. \A q \in Process, f \in File : Busy(q, f)' = Busy(q, f)
  BY <1>1, <1>3 DEF Busy
<1>7. ASSUME ~corrupted', NEW q \in Process, NEW f \in File PROVE Working(q, f)'
  <2>1. Working(q, f)
    BY <1>1, <1>7 DEF ShareInv
  <2> QED
    BY <2>1, <1>1, <1>3, <1>6 DEF Working, Full
<1> QED
  BY <1>4, <1>5, <1>7 DEF ShareInv

\* p's partial gets another name, or none: p has ended its job, and the others'
\* open files go with it.
LEMMA OthersMove ==
  ASSUME ShareInv, NEW p \in Process, proc[p].pc \in {"fetch", "rename"}, NEW outcome,
         NEW moved, proc' = Others(p, outcome, moved), moved \in {"target", "gone"}
  PROVE  /\ proc'[p].pc = "after" /\ proc'[p].fd = "none"
         /\ \A q \in Process \ {p} :
              /\ proc'[q].pc = proc[q].pc /\ proc'[q].pos = proc[q].pos
              /\ proc'[q].good = proc[q].good /\ Current(q)' = Current(q)
              /\ Current(q) # Current(p) => proc'[q].fd = proc[q].fd
              /\ Current(q) = Current(p) =>
                   /\ proc[q].fd = "partial" => proc'[q].fd = moved
                   /\ proc[q].fd = "none" => proc'[q].fd = "none"
              /\ proc'[q].fd = "none" => proc[q].fd = "none"
<1>1. DOMAIN proc = Process /\ \A q \in Process : DOMAIN proc[q] = DOMAIN Fresh
  BY DEF ShareInv, CliInv, Sound
<1>2. proc'[p].pc = "after" /\ proc'[p].fd = "none"
  BY <1>1 DEF Others, JobEnded, Fresh
<1>3. ASSUME NEW q \in Process \ {p}
      PROVE  /\ proc'[q].pc = proc[q].pc /\ proc'[q].pos = proc[q].pos
             /\ proc'[q].good = proc[q].good /\ Current(q)' = Current(q)
             /\ Current(q) # Current(p) => proc'[q].fd = proc[q].fd
             /\ Current(q) = Current(p) =>
                  /\ proc[q].fd = "partial" => proc'[q].fd = moved
                  /\ proc[q].fd = "none" => proc'[q].fd = "none"
             /\ proc'[q].fd = "none" => proc[q].fd = "none"
  <2>1. CASE proc[q].fd = "none" \/ Current(q) # Current(p)
    <3>1. proc'[q] = proc[q]
      BY <1>3, <2>1 DEF Others
    <3> QED
      BY <2>1, <3>1 DEF Current
  <2>2. CASE ~(proc[q].fd = "none" \/ Current(q) # Current(p))
    <3> DEFINE fd == IF proc[q].fd = "partial" THEN moved
                     ELSE IF moved = "target" THEN "gone" ELSE proc[q].fd
    <3>1. proc'[q] = [proc[q] EXCEPT !.fd = fd]
      BY <1>3, <2>2 DEF Others
    <3>2. fd # "none"
      BY <2>2
    <3> HIDE DEF fd
    <3>3. /\ proc'[q].pc = proc[q].pc /\ proc'[q].pos = proc[q].pos /\ proc'[q].fd = fd
          /\ proc'[q].good = proc[q].good
          /\ proc'[q].jobs = proc[q].jobs /\ proc'[q].job = proc[q].job
      BY <1>1, <1>3, <3>1 DEF Fresh
    <3> QED
      BY <2>2, <3>2, <3>3 DEF Current, fd
  <2> QED
    BY <2>1, <2>2
<1> QED
  BY <1>2, <1>3

\* Nothing is wrong, so no MAC is: only a file that is none of ours could fail.
LEMMA ShareMismatch ==
  ASSUME ShareInv, CliInv', NEW p \in Process, Mismatch(p)
  PROVE  ShareInv'
<1> DEFINE c == Current(p)
<1>1. CASE JobEnds(p, "failed") /\ UNCHANGED partial
  <2>1. UNCHANGED Files
    BY <1>1 DEF Mismatch, Files
  <2> QED
    BY <1>1, <2>1, ShareJobEnds
<1>2. CASE partial' = [partial EXCEPT ![Current(p)] = Absent] /\ proc' = Others(p, "failed", "gone")
  <2>1. proc[p].pc = "fetch" /\ ~proc[p].good /\ UNCHANGED <<target, corrupted>>
    BY DEF Mismatch, At
  <2>2. /\ proc'[p].pc = "after" /\ proc'[p].fd = "none"
        /\ \A q \in Process \ {p} :
             /\ proc'[q].pc = proc[q].pc /\ proc'[q].pos = proc[q].pos
             /\ proc'[q].good = proc[q].good /\ Current(q)' = Current(q)
             /\ Current(q) # c => proc'[q].fd = proc[q].fd
             /\ Current(q) = c /\ proc[q].fd = "none" => proc'[q].fd = "none"
             /\ proc'[q].fd = "none" => proc[q].fd = "none"
    BY <1>2, <2>1, OthersMove
  <2>3. FdInv'
    BY <1>2, <2>1, <2>2 DEF ShareInv, FdInv
  <2>4. ~corrupted' => c \notin File
    BY <2>1 DEF ShareInv, Working
  <2>5. ASSUME ~corrupted', NEW f \in File PROVE partial'[f] = partial[f]
    BY <1>2, <2>4, <2>5 DEF ShareInv, FdInv
  <2>6. ~corrupted' => Values'
    BY <2>1, <2>5 DEF ShareInv, Values, Full, Right
  <2>7. ASSUME ~corrupted', NEW q \in Process, NEW f \in File PROVE Working(q, f)'
    <3>1. Working(q, f) /\ f # c
      BY <2>1, <2>4, <2>7 DEF ShareInv
    <3>2. \A r \in Process : Busy(r, f)' => Busy(r, f)
      BY <2>2 DEF Busy
    <3>3. CASE q = p
      BY <2>2, <3>3 DEF Working
    <3>4. CASE q # p
      BY <2>1, <2>2, <2>5, <2>7, <3>1, <3>2, <3>4 DEF Working, Full
    <3> QED
      BY <3>3, <3>4
  <2> QED
    BY <2>3, <2>6, <2>7 DEF ShareInv
<1> QED
  BY <1>1, <1>2 DEF Mismatch

\* p's partial is whole, and is the one that gets the target's name; the other
\* process, if it is at the same file, has its hands on the target from then on.
LEMMA ShareRename ==
  ASSUME ShareInv, CliInv', NEW p \in Process, Rename(p),
         \A x, y, z \in Process : x = y \/ x = z \/ y = z
  PROVE  ShareInv'
<1> DEFINE c == Current(p)
<1>1. CASE JobEnds(p, "missing") /\ UNCHANGED Files
  BY <1>1, ShareJobEnds
<1>2. CASE /\ partial[c] # Absent
           /\ target' = [target EXCEPT ![c] = partial[c]]
           /\ partial' = [partial EXCEPT ![c] = Absent]
           /\ proc' = Others(p, "done", "target")
           /\ UNCHANGED corrupted
  <2>1. proc[p].pc = "rename"
    BY DEF Rename, At
  <2>2. /\ proc'[p].pc = "after" /\ proc'[p].fd = "none"
        /\ \A q \in Process \ {p} :
             /\ proc'[q].pc = proc[q].pc /\ proc'[q].pos = proc[q].pos
             /\ proc'[q].good = proc[q].good /\ Current(q)' = Current(q)
             /\ Current(q) # c => proc'[q].fd = proc[q].fd
             /\ Current(q) = c =>
                  /\ proc[q].fd = "partial" => proc'[q].fd = "target"
                  /\ proc[q].fd = "none" => proc'[q].fd = "none"
             /\ proc'[q].fd = "none" => proc[q].fd = "none"
    BY <1>2, <2>1, OthersMove
  <2>3. FdInv'
    BY <1>2, <2>1, <2>2 DEF ShareInv, FdInv
  <2>4. \A f \in File \ {c} : partial'[f] = partial[f] /\ target'[f] = target[f]
    BY <1>2
  <2>5. ASSUME ~corrupted', c \in File
        PROVE  proc[p].fd = "partial" /\ partial'[c] = Absent /\ target'[c] = Full(c)
    <3>1. Working(p, c) /\ Values /\ Size[c] \in Nat
      BY <1>2, <2>5, SizeIsPositive DEF ShareInv
    <3>2. proc[p].fd = "partial" /\ proc[p].pos = Size[c] /\ proc[p].pos <= partial[c].len
      BY <1>2, <2>1, <3>1 DEF Working
    <3>3. partial[c] \in Right(c)
      BY <1>2, <2>5, <3>1 DEF Values
    <3>4. partial[c].len = Size[c]
      BY <3>1, <3>2, <3>3 DEF Right
    <3> QED
      BY <1>2, <2>5, <3>2, <3>3, <3>4 DEF Full, Right, ShareInv, FdInv
  <2> HIDE DEF c
  <2>6. ASSUME ~corrupted', NEW f \in File
        PROVE  /\ partial'[f] = Absent \/ partial'[f] \in Right(f)
               /\ target'[f] \in {Absent, Full(f)}
    <3>1. Values
      BY <1>2, <2>6 DEF ShareInv
    <3>2. CASE f = c
      BY <2>5, <2>6, <3>2
    <3>3. CASE f # c
      BY <2>4, <2>6, <3>1, <3>3 DEF Values
    <3> QED
      BY <3>2, <3>3
  <2>7. ~corrupted' => Values'
    BY <2>6 DEF Values, Right, Full
  <2>8. ASSUME ~corrupted', NEW q \in Process, NEW f \in File PROVE Working(q, f)'
    <3>1. Working(q, f)
      BY <1>2, <2>8 DEF ShareInv
    <3>2. \A r \in Process : Busy(r, f)' => Busy(r, f) /\ r # p
      BY <2>2 DEF Busy
    <3>3. CASE q = p
      BY <2>2, <3>3 DEF Working
    <3>4. CASE q # p /\ f # c
      BY <2>2, <2>4, <2>8, <3>1, <3>2, <3>4 DEF Working, Full
    <3>5. CASE q # p /\ f = c
      <4>1. Busy(p, f)
        BY <2>1, <3>5 DEF Busy, c
      <4>2. \A r \in Process \ {q} : ~Busy(r, f)'
        BY <3>2, <3>5
      <4>3. proc[q].pc \in {"fetch", "rename"} /\ Current(q) = f => proc'[q].fd = "target"
        BY <2>2, <3>1, <3>5, <4>1 DEF Working
      <4> QED
        BY <2>2, <2>5, <2>8, <3>1, <3>5, <4>2, <4>3 DEF Working, Full
    <3> QED
      BY <3>3, <3>4, <3>5
  <2> QED
    BY <2>3, <2>7, <2>8 DEF ShareInv
<1> QED
  BY <1>1, <1>2 DEF Rename

LEMMA ShareStep ==
  ASSUME ShareInv, [Next]_vars, \A x, y, z \in Process : x = y \/ x = z \/ y = z
  PROVE  ShareInv'
<1>1. CliInv'
  BY CliStep DEF ShareInv
<1>2. ASSUME NEW p \in Process, Run(p) PROVE ShareInv'
  <2>1. CASE SeesCancel(p) \/ Fails(p)
    BY <1>1, <2>1, ShareJobEnds DEF SeesCancel, Fails
  <2> QED
    BY <1>1, <1>2, <2>1, ShareLoops, ShareBegin, ShareOpen, ShareFetch, ShareVerifies,
       ShareMismatch, ShareRename DEF Run
<1>3. ASSUME NEW p \in Process, Type(p) \/ CtrlC(p) \/ Kill(p) \/ Again(p) PROVE ShareInv'
  BY <1>1, <1>3, ShareTyping, ShareOutside
<1>4. CASE UNCHANGED vars
  BY <1>1, <1>4 DEF vars, ShareInv, FdInv, Values, Working, Busy, Current, Right, Full
<1> QED
  BY <1>2, <1>3, <1>4 DEF Next

\* Of two processes at work in one directory none delivers a file that is not
\* whole, as long as no unit is corrupted: what each opens, overwrites, renames
\* and removes by name may be the other's (download.rs:98, 185-187).
THEOREM TwoShareSafely ==
  ASSUME \A x, y, z \in Process : x = y \/ x = z \/ y = z
  PROVE  Spec => []SharedIntegrity
<1>1. Init => ShareInv
  BY ShareInit
<1>2. ShareInv /\ [Next]_vars => ShareInv'
  BY ShareStep
<1>3. ShareInv => SharedIntegrity
  BY DEF ShareInv, Values, SharedIntegrity, Whole, Full
<1> QED
  BY <1>1, <1>2, <1>3, PTL DEF Spec

-----------------------------------------------------------------------------
(* What exit status 0 says, and what a partial that is gone.               *)

\* Where a process is in its links and jobs.
Loops(p, r) ==
  /\ r.jobs \in Seq(File) /\ r.job \in Nat \ {0} /\ r.link \in Nat \ {0}
  /\ r.asked \in SUBSET File
  /\ r.pc \in {"link", "pick"} => r.link <= Len(Commands[p])
  /\ r.pc \in {"link", "pick", "linkend"} => r.job = 1 /\ r.jobs = <<>>
  /\ r.pc \in {"job", "open", "fetch", "rename", "after", "check"} => r.job <= Len(r.jobs)
  /\ r.pc = "exit" /\ r.status = 0 /\ ~r.cancel =>
       r.link > Len(Commands[p]) /\ r.jobs = <<>> /\ r.job = 1

\* The files of this link still to be downloaded: this job's is, until it is done.
Over(r)  == r.pc = "check" \/ (r.pc = "after" /\ r.outcome = "done")
Ahead(r) == {r.jobs[i] : i \in (IF Over(r) THEN r.job + 1 ELSE r.job)..Len(r.jobs)}

\* What the files that are whole by now, W, mean to a process.
Truthful(r, W) ==
  /\ r.status = 0 /\ ~r.cancel => r.asked \subseteq W \cup Ahead(r)
  /\ r.pc = "after" /\ r.outcome = "missing" => r.jobs[r.job] \in W

WholeFiles == {f \in File : Whole(f)}

DoneInv ==
  /\ ShareInv
  /\ \A p \in Process : Loops(p, proc[p])
  /\ ~corrupted => \A p \in Process : Truthful(proc[p], WholeFiles)

LEMMA CommandFacts ==
  ASSUME NEW p \in Process
  PROVE  /\ Commands[p] \in Seq(Seq(File)) /\ Len(Commands[p]) \in Nat /\ Len(Commands[p]) >= 1
         /\ \A k \in 1..Len(Commands[p]) : Commands[p][k] \in Seq(File)
<1>1. Commands[p] \in Seq(Seq(File)) /\ Commands[p] # <<>>
  BY CliAssumption
<1> QED
  BY <1>1

LEMMA ChosenFacts ==
  ASSUME NEW files \in Seq(File), NEW jobs \in Chosen(files)
  PROVE  jobs \in Seq(File)
<1>1. PICK n \in 1..Len(files) :
        \E row \in Rows(n, Len(files)) : jobs = [i \in 1..n |-> files[row[i]]]
  BY DEF Chosen
<1>0. PICK row \in Rows(n, Len(files)) : jobs = [i \in 1..n |-> files[row[i]]]
  BY <1>1
<1>2. \A i \in 1..n : row[i] \in 1..Len(files)
  BY DEF Rows
<1>3. \A i \in 1..n : files[row[i]] \in File
  BY <1>2
<1>4. n \in Nat
  OBVIOUS
<1> QED
  BY <1>0, <1>3, <1>4

\* A file once whole stays so as long as nothing is corrupted: what writes to it
\* writes what is there, and what takes its name is whole.
LEMMA WholeIsKept ==
  ASSUME ShareInv, ShareInv', [Next]_vars, ~corrupted'
  PROVE  ~corrupted /\ WholeFiles \subseteq WholeFiles'
<1>1. ~corrupted
  BY ZenonT(20) DEF Next, Run, vars, Files, ResolveFails, TakeAll, LinkLoop, AfterJob, JobLoop, OpenPicker,
         Type, Begin, Open, Fetch, SeesCancel, Fails, Verifies, Mismatch, Rename, CtrlC, Kill,
         Again, ShareInv, FdInv
<1>2. ASSUME NEW f \in File, target[f] = Full(f) PROVE target'[f] # Absent
  <2>1. CASE target' = target
    BY <1>2, <2>1, NotAbsent
  <2>2. ASSUME NEW p \in Process, Fetch(p) PROVE target'[f] # Absent
    <3>1. PICK right \in {TRUE, corrupted} :
            target' = IF proc[p].fd # "target" THEN target
                      ELSE [target EXCEPT ![Current(p)] = Written(target[Current(p)], proc[p].pos + 1, right)]
      BY <2>2 DEF Fetch
    <3>2. CASE Current(p) = f /\ proc[p].fd = "target"
      <4>1. proc[p].pos \in 0..Size[f] /\ Size[f] \in Nat /\ Size[f] > 0
        BY <1>1, <2>2, <3>2, SizeIsPositive DEF ShareInv, Working, Fetch, At
      <4>2. target'[f] = Written(Full(f), proc[p].pos + 1, right)
        BY <1>2, <3>1, <3>2 DEF ShareInv, FdInv
      <4>3. PICK k \in Nat : k = proc[p].pos + 1
        BY <4>1
      <4>4. Written(Full(f), k, right).len = IF k > Size[f] THEN k ELSE Size[f]
        BY DEF Written, Full
      <4> QED
        BY <4>1, <4>2, <4>3, <4>4 DEF Absent
    <3>3. CASE ~(Current(p) = f /\ proc[p].fd = "target")
      BY <1>2, <3>1, <3>3, NotAbsent
    <3> QED
      BY <3>2, <3>3
  <2>3. ASSUME NEW p \in Process, Rename(p) PROVE target'[f] # Absent
    <3>1. target' = target \/ /\ partial[Current(p)] # Absent
                              /\ target' = [target EXCEPT ![Current(p)] = partial[Current(p)]]
      BY <2>3 DEF Rename, Files
    <3> QED
      BY <1>2, <3>1, NotAbsent DEF ShareInv, FdInv
  <2>4. target' = target \/ \E p \in Process : Fetch(p) \/ Rename(p)
    BY DEF Next, Run, vars, Files, ResolveFails, TakeAll, LinkLoop, AfterJob, JobLoop, OpenPicker,
           Type, Begin, Open, SeesCancel, Fails, Verifies, Mismatch, CtrlC, Kill, Again
  <2> QED
    BY <2>1, <2>2, <2>3, <2>4
<1>3. \A f \in File : target'[f] \in {Absent, Full(f)}
  BY DEF ShareInv, Values, Full
<1> QED
  BY <1>1, <1>2, <1>3 DEF WholeFiles, Whole, Full

LEMMA MoreIsWhole ==
  ASSUME NEW r, NEW W, NEW V, Truthful(r, W), W \subseteq V
  PROVE  Truthful(r, V)
  BY DEF Truthful

\* Nothing but the open files of the others goes with a step of p.
LEMMA DoneStep ==
  ASSUME DoneInv, ShareInv', [Next]_vars, NEW p \in Process,
         Loops(p, proc'[p]), ~corrupted' => Truthful(proc'[p], WholeFiles'),
         \A q \in Process \ {p} : proc'[q] = proc[q] \/ \E x : proc'[q] = [proc[q] EXCEPT !.fd = x]
  PROVE  DoneInv'
<1>1. ASSUME NEW q \in Process \ {p}
      PROVE  Loops(q, proc'[q]) /\ (~corrupted' => Truthful(proc'[q], WholeFiles'))
  <2>1. /\ DOMAIN proc[q] = DOMAIN Fresh /\ Loops(q, proc[q])
        /\ ~corrupted' => Truthful(proc[q], WholeFiles')
    <3>1. ShareInv /\ DOMAIN proc[q] = DOMAIN Fresh /\ Loops(q, proc[q])
      BY DEF DoneInv, ShareInv, CliInv, Sound
    <3>2. ASSUME ~corrupted' PROVE Truthful(proc[q], WholeFiles')
      BY <3>1, <3>2, WholeIsKept, MoreIsWhole DEF DoneInv
    <3> QED
      BY <3>1, <3>2
  <2>2. CASE proc'[q] = proc[q]
    BY <2>1, <2>2
  <2>3. ASSUME NEW x, proc'[q] = [proc[q] EXCEPT !.fd = x]
        PROVE  Loops(q, proc'[q]) /\ (~corrupted' => Truthful(proc'[q], WholeFiles'))
    <3>1. /\ proc'[q].jobs = proc[q].jobs /\ proc'[q].job = proc[q].job /\ proc'[q].link = proc[q].link
          /\ proc'[q].asked = proc[q].asked /\ proc'[q].pc = proc[q].pc
          /\ proc'[q].status = proc[q].status /\ proc'[q].cancel = proc[q].cancel
          /\ proc'[q].outcome = proc[q].outcome
      BY <2>1, <2>3 DEF Fresh
    <3> QED
      BY <2>1, <3>1 DEF Loops, Truthful, Ahead, Over
  <2> QED
    BY <2>2, <2>3
<1> QED
  BY <1>1 DEF DoneInv

\* A step of p alone.
LEMMA DoneAlone ==
  ASSUME DoneInv, ShareInv', [Next]_vars, NEW p \in Process, NEW r, proc' = [proc EXCEPT ![p] = r],
         Loops(p, r), ~corrupted /\ ~corrupted' => \A W : WholeFiles \subseteq W => Truthful(r, W)
  PROVE  DoneInv'
<1>1. proc'[p] = r /\ \A q \in Process \ {p} : proc'[q] = proc[q]
  BY DEF DoneInv, ShareInv, CliInv
<1>2. ~corrupted' => Truthful(r, WholeFiles')
  BY WholeIsKept DEF DoneInv
<1> QED
  BY <1>1, <1>2, DoneStep

LEMMA DoneLinkEnds ==
  ASSUME DoneInv, ShareInv', [Next]_vars, NEW p \in Process, NEW ok \in BOOLEAN, LinkEnds(p, ok),
         ok /\ ~corrupted /\ proc[p].status = 0 /\ ~proc[p].cancel => proc[p].asked \subseteq WholeFiles
  PROVE  DoneInv'
<1> DEFINE r == [proc[p] EXCEPT !.pc = "linkend", !.status = StatusAfter(p, ok),
                                !.jobs = <<>>, !.job = 1, !.outcome = "done",
                                !.reading = Ground, !.unheard = 0]
<1>1. DOMAIN proc[p] = DOMAIN Fresh /\ Loops(p, proc[p])
  BY DEF DoneInv, ShareInv, CliInv, Sound
<1>2. /\ r.pc = "linkend" /\ r.status = StatusAfter(p, ok) /\ r.jobs = <<>> /\ r.job = 1
      /\ r.asked = proc[p].asked /\ r.cancel = proc[p].cancel /\ r.link = proc[p].link
  BY <1>1 DEF Fresh
<1>3. proc' = [proc EXCEPT ![p] = r]
  BY DEF LinkEnds
<1> HIDE DEF r
<1>4. <<>> \in Seq(File) /\ 1 \in Nat \ {0}
  OBVIOUS
<1>5. Loops(p, r)
  BY <1>1, <1>2, <1>4 DEF Loops
<1>6. ~corrupted => \A W : WholeFiles \subseteq W => Truthful(r, W)
  BY <1>2 DEF Truthful, StatusAfter
<1> QED
  BY <1>3, <1>5, <1>6, DoneAlone

LEMMA DonePlanned ==
  ASSUME DoneInv, ShareInv', [Next]_vars, NEW p \in Process, NEW jobs \in Seq(File),
         Planned(p, jobs), proc[p].pc \in {"link", "pick"}
  PROVE  DoneInv'
<1>1. DOMAIN proc[p] = DOMAIN Fresh /\ Loops(p, proc[p]) /\ (~corrupted => Truthful(proc[p], WholeFiles))
  BY DEF DoneInv, ShareInv, CliInv, Sound
<1>2. ~corrupted /\ proc[p].status = 0 /\ ~proc[p].cancel => proc[p].asked \subseteq WholeFiles
  BY <1>1 DEF Loops, Truthful, Ahead, Over
<1>3. CASE jobs = <<>>
  BY <1>2, <1>3, DoneLinkEnds DEF Planned
<1>4. CASE jobs # <<>>
  <2> DEFINE r == [proc[p] EXCEPT !.pc = "job", !.jobs = jobs, !.asked = @ \cup ToSet(jobs),
                                  !.reading = Ground, !.unheard = 0]
  <2>1. /\ r.pc = "job" /\ r.jobs = jobs /\ r.asked = proc[p].asked \cup ToSet(jobs)
        /\ r.job = proc[p].job /\ r.link = proc[p].link /\ r.status = proc[p].status
        /\ r.cancel = proc[p].cancel
    BY <1>1 DEF Fresh
  <2>2. proc' = [proc EXCEPT ![p] = r]
    BY <1>4 DEF Planned
  <2> HIDE DEF r
  <2>3. Len(jobs) >= 1 /\ r.job = 1 /\ ToSet(jobs) \in SUBSET File
    BY <1>1, <1>4, <2>1 DEF Loops, ToSet
  <2>4. Loops(p, r)
    BY <1>1, <2>1, <2>3 DEF Loops
  <2>5. Ahead(r) = ToSet(jobs)
    BY <2>1, <2>3 DEF Ahead, Over, ToSet
  <2>6. ~corrupted => \A W : WholeFiles \subseteq W => Truthful(r, W)
    BY <1>2, <2>1, <2>5 DEF Truthful
  <2> QED
    BY <2>2, <2>4, <2>6, DoneAlone
<1> QED
  BY <1>3, <1>4

\* A job has ended; as done only if its file is whole by then, as missing too.
LEMMA JobEndedFacts ==
  ASSUME DoneInv, NEW p \in Process, proc[p].pc \in {"open", "fetch", "rename"}, NEW outcome
  PROVE  /\ Loops(p, JobEnded(p, outcome))
         /\ \A W : /\ ~corrupted /\ WholeFiles \subseteq W
                   /\ outcome \in {"done", "missing"} => Current(p) \in W
                   => Truthful(JobEnded(p, outcome), W)
<1> DEFINE r == JobEnded(p, outcome)
<1>1. DOMAIN proc[p] = DOMAIN Fresh /\ Loops(p, proc[p]) /\ (~corrupted => Truthful(proc[p], WholeFiles))
  BY DEF DoneInv, ShareInv, CliInv, Sound
<1>2. /\ r.pc = "after" /\ r.outcome = outcome /\ r.jobs = proc[p].jobs /\ r.job = proc[p].job
      /\ r.asked = proc[p].asked /\ r.cancel = proc[p].cancel /\ r.link = proc[p].link
      /\ r.status = proc[p].status
  BY <1>1 DEF Fresh, JobEnded
<1> HIDE DEF r
<1>3. Loops(p, r)
  BY <1>1, <1>2 DEF Loops
<1>4. Ahead(proc[p]) \subseteq Ahead(r) \cup (IF outcome = "done" THEN {Current(p)} ELSE {})
  <2>1. proc[p].job \in Nat \ {0} /\ Len(proc[p].jobs) \in Nat
    BY <1>1 DEF Loops
  <2>2. ASSUME NEW i \in proc[p].job..Len(proc[p].jobs), i # proc[p].job
        PROVE  i \in (proc[p].job + 1)..Len(proc[p].jobs)
    BY <2>1, <2>2
  <2> QED
    BY <1>2, <2>2 DEF Ahead, Over, Current
<1>5. ASSUME NEW W, ~corrupted, WholeFiles \subseteq W, outcome \in {"done", "missing"} => Current(p) \in W
      PROVE  Truthful(r, W)
  <2>1. proc[p].status = 0 /\ ~proc[p].cancel => proc[p].asked \subseteq W \cup Ahead(proc[p])
    BY <1>1, <1>5 DEF Truthful
  <2>2. r.jobs[r.job] = Current(p)
    BY <1>2 DEF Current
  <2> QED
    BY <1>2, <1>4, <1>5, <2>1, <2>2 DEF Truthful
<1> QED
  BY <1>3, <1>5 DEF r

LEMMA DoneJobEnds ==
  ASSUME DoneInv, ShareInv', [Next]_vars, NEW p \in Process, NEW outcome, JobEnds(p, outcome),
         proc[p].pc \in {"open", "fetch", "rename"},
         ~corrupted /\ outcome \in {"done", "missing"} => Current(p) \in WholeFiles
  PROVE  DoneInv'
<1> DEFINE r == JobEnded(p, outcome)
<1>1. Loops(p, r) /\ (~corrupted => \A W : WholeFiles \subseteq W => Truthful(r, W))
  BY JobEndedFacts
<1>2. proc' = [proc EXCEPT ![p] = r]
  BY DEF JobEnds
<1> HIDE DEF r
<1> QED
  BY <1>1, <1>2, DoneAlone

\* What a process has to do with its files is nothing to its loops.
LEMMA DoneBusy ==
  ASSUME DoneInv, ShareInv', [Next]_vars, NEW p \in Process, NEW r, proc' = [proc EXCEPT ![p] = r],
         proc[p].pc \in {"job", "open", "fetch"}, r.pc \in {"open", "fetch", "rename"},
         r.jobs = proc[p].jobs, r.job = proc[p].job, r.asked = proc[p].asked,
         r.cancel = proc[p].cancel, r.link = proc[p].link, r.status = proc[p].status
  PROVE  DoneInv'
<1>1. Loops(p, proc[p]) /\ (~corrupted => Truthful(proc[p], WholeFiles))
  BY DEF DoneInv
<1>2. Loops(p, r)
  BY <1>1 DEF Loops
<1>3. Ahead(r) = Ahead(proc[p])
  BY DEF Ahead, Over
<1>4. ~corrupted => \A W : WholeFiles \subseteq W => Truthful(r, W)
  BY <1>1, <1>3 DEF Truthful
<1> QED
  BY <1>2, <1>4, DoneAlone

LEMMA DoneSync ==
  ASSUME DoneInv, ShareInv', [Next]_vars, NEW p \in Process,
         \/ Begin(p) \/ Open(p) \/ Fetch(p) \/ SeesCancel(p) \/ Fails(p)
         \/ Verifies(p) \/ Mismatch(p) \/ Rename(p)
  PROVE  DoneInv'
<1> DEFINE c == Current(p)
<1>1. /\ DOMAIN proc[p] = DOMAIN Fresh /\ Loops(p, proc[p]) /\ ShareInv
      /\ ~corrupted => Truthful(proc[p], WholeFiles)
  BY DEF DoneInv, ShareInv, CliInv, Sound
<1>2. proc[p].pc \in {"job", "open", "fetch", "rename"}
  BY DEF Begin, Open, Fetch, SeesCancel, Fails, Verifies, Mismatch, Rename, At
<1>3. c \in File
  <2>1. proc[p].job \in 1..Len(proc[p].jobs) /\ proc[p].jobs \in Seq(File)
    <3>1. proc[p].job \in Nat \ {0} /\ proc[p].jobs \in Seq(File) /\ proc[p].job <= Len(proc[p].jobs)
      BY <1>1, <1>2 DEF Loops
    <3>2. Len(proc[p].jobs) \in Nat
      BY <3>1
    <3> QED
      BY <3>1, <3>2
  <2> QED
    BY <2>1 DEF Current
<1>4. CASE Begin(p)
  <2>1. PICK late : proc' = [proc EXCEPT ![p].late = late, ![p].outcome = "done",
                              ![p].pc = IF target[c] # Absent THEN "after" ELSE "open"]
    BY <1>4 DEF Begin
  <2> DEFINE r == [proc[p] EXCEPT !.late = late, !.outcome = "done",
                                  !.pc = IF target[c] # Absent THEN "after" ELSE "open"]
  <2>2. /\ r.pc = (IF target[c] # Absent THEN "after" ELSE "open") /\ r.outcome = "done"
        /\ r.jobs = proc[p].jobs /\ r.job = proc[p].job /\ r.asked = proc[p].asked
        /\ r.cancel = proc[p].cancel /\ r.link = proc[p].link /\ r.status = proc[p].status
    BY <1>1 DEF Fresh
  <2>3. proc' = [proc EXCEPT ![p] = r] /\ proc[p].pc = "job"
    <3>1. proc' = [proc EXCEPT ![p] = r]
      BY <2>1
    <3>2. proc[p].pc = "job"
      BY <1>4 DEF Begin, At
    <3> QED
      BY <3>1, <3>2
  <2> HIDE DEF r
  <2>4. CASE target[c] = Absent
    BY <2>2, <2>3, <2>4, DoneBusy
  <2>5. CASE target[c] # Absent
    <3>1. ~corrupted => c \in WholeFiles
      BY <1>1, <1>3, <2>5 DEF ShareInv, Values, WholeFiles, Whole, Full
    <3>2. Loops(p, r)
      BY <1>1, <2>2, <2>3, <2>5 DEF Loops
    <3>3. Ahead(proc[p]) \subseteq Ahead(r) \cup {c}
      <4>1. proc[p].job \in Nat \ {0} /\ Len(proc[p].jobs) \in Nat
        BY <1>1 DEF Loops
      <4>2. ASSUME NEW i \in proc[p].job..Len(proc[p].jobs), i # proc[p].job
            PROVE  i \in (proc[p].job + 1)..Len(proc[p].jobs)
        BY <4>1, <4>2
      <4> QED
        BY <2>2, <2>3, <2>5, <4>2 DEF Ahead, Over, Current
    <3>4. ~corrupted => \A W : WholeFiles \subseteq W => Truthful(r, W)
      <4> SUFFICES ASSUME ~corrupted, NEW W, WholeFiles \subseteq W PROVE Truthful(r, W)
        OBVIOUS
      <4>1. proc[p].status = 0 /\ ~proc[p].cancel => proc[p].asked \subseteq WholeFiles \cup Ahead(proc[p])
        BY <1>1 DEF Truthful
      <4> QED
        BY <2>2, <3>1, <3>3, <4>1 DEF Truthful
    <3> QED
      BY <2>3, <3>2, <3>4, DoneAlone
  <2> QED
    BY <2>4, <2>5
<1>5. CASE Open(p)
  <2>1. PICK n, g : proc' = [proc EXCEPT ![p].pc = "fetch", ![p].fd = "partial",
                                        ![p].pos = n, ![p].good = g]
    BY <1>5 DEF Open
  <2> DEFINE r == [proc[p] EXCEPT !.pc = "fetch", !.fd = "partial", !.pos = n, !.good = g]
  <2>2. /\ r.pc = "fetch" /\ r.jobs = proc[p].jobs /\ r.job = proc[p].job /\ r.asked = proc[p].asked
        /\ r.cancel = proc[p].cancel /\ r.link = proc[p].link /\ r.status = proc[p].status
    BY <1>1 DEF Fresh
  <2>3. proc' = [proc EXCEPT ![p] = r] /\ proc[p].pc = "open"
    BY <1>5, <2>1 DEF Open, At
  <2> HIDE DEF r
  <2> QED
    BY <2>2, <2>3, DoneBusy
<1>6. CASE Fetch(p)
  <2>1. PICK n, g : proc' = [proc EXCEPT ![p].pos = n, ![p].good = g]
    BY <1>6 DEF Fetch
  <2> DEFINE r == [proc[p] EXCEPT !.pos = n, !.good = g]
  <2>2. /\ r.pc = "fetch" /\ r.jobs = proc[p].jobs /\ r.job = proc[p].job /\ r.asked = proc[p].asked
        /\ r.cancel = proc[p].cancel /\ r.link = proc[p].link /\ r.status = proc[p].status
    BY <1>1, <1>6 DEF Fresh, Fetch, At
  <2>3. proc' = [proc EXCEPT ![p] = r] /\ proc[p].pc = "fetch"
    BY <1>6, <2>1 DEF Fetch, At
  <2> HIDE DEF r
  <2> QED
    BY <2>2, <2>3, DoneBusy
<1>7. CASE Verifies(p)
  <2> DEFINE r == [proc[p] EXCEPT !.pc = "rename"]
  <2>2. /\ r.pc = "rename" /\ r.jobs = proc[p].jobs /\ r.job = proc[p].job /\ r.asked = proc[p].asked
        /\ r.cancel = proc[p].cancel /\ r.link = proc[p].link /\ r.status = proc[p].status
    BY <1>1 DEF Fresh
  <2>3. proc' = [proc EXCEPT ![p] = r] /\ proc[p].pc = "fetch"
    BY <1>7 DEF Verifies, At
  <2> HIDE DEF r
  <2> QED
    BY <2>2, <2>3, DoneBusy
<1>8. CASE SeesCancel(p) \/ Fails(p)
  BY <1>8, DoneJobEnds DEF SeesCancel, Fails, At
<1>9. ASSUME NEW outcome, NEW moved, proc' = Others(p, outcome, moved),
             proc[p].pc \in {"fetch", "rename"},
             ~corrupted' /\ outcome \in {"done", "missing"} => c \in WholeFiles'
      PROVE  DoneInv'
  <2>1. proc'[p] = JobEnded(p, outcome)
    BY <1>9 DEF Others
  <2>2. \A q \in Process \ {p} : proc'[q] = proc[q] \/ \E x : proc'[q] = [proc[q] EXCEPT !.fd = x]
    BY <1>9 DEF Others
  <2>3. Loops(p, proc'[p])
    BY <1>9, <2>1, JobEndedFacts
  <2>4. ASSUME ~corrupted' PROVE Truthful(proc'[p], WholeFiles')
    <3>1. ~corrupted /\ WholeFiles \subseteq WholeFiles'
      BY <1>1, <2>4, WholeIsKept
    <3> QED
      BY <1>9, <2>1, <2>4, <3>1, JobEndedFacts
  <2> QED
    BY <2>2, <2>3, <2>4, DoneStep
<1>10. CASE Mismatch(p)
  BY <1>9, <1>10, DoneJobEnds DEF Mismatch, At
<1>11. CASE Rename(p)
  <2>1. CASE partial[c] = Absent
    <3>1. ~corrupted => c \in WholeFiles
      BY <1>1, <1>3, <1>11, <2>1 DEF Rename, At, ShareInv, Working, WholeFiles, Whole, Full
    <3> QED
      BY <1>11, <2>1, <3>1, DoneJobEnds DEF Rename, At
  <2>2. CASE partial[c] # Absent
    <3>1. ~corrupted' => c \in WholeFiles'
      <4>1. target'[c] = partial[c]
        BY <1>1, <1>3, <1>11, <2>2 DEF Rename, ShareInv, FdInv
      <4> QED
        BY <1>3, <2>2, <4>1 DEF ShareInv, Values, WholeFiles, Whole, Full
    <3> QED
      BY <1>9, <1>11, <2>2, <3>1 DEF Rename, At
  <2> QED
    BY <2>1, <2>2
<1> QED
  BY <1>4, <1>5, <1>6, <1>7, <1>8, <1>10, <1>11

LEMMA DoneLoops ==
  ASSUME DoneInv, ShareInv', [Next]_vars, NEW p \in Process,
         ResolveFails(p) \/ TakeAll(p) \/ LinkLoop(p) \/ AfterJob(p) \/ JobLoop(p) \/ OpenPicker(p)
  PROVE  DoneInv'
<1>1. /\ DOMAIN proc[p] = DOMAIN Fresh /\ Loops(p, proc[p])
      /\ ~corrupted => Truthful(proc[p], WholeFiles)
  BY DEF DoneInv, ShareInv, CliInv, Sound
<1>2. /\ proc[p].job \in Nat \ {0} /\ proc[p].link \in Nat \ {0} /\ proc[p].jobs \in Seq(File)
      /\ Len(proc[p].jobs) \in Nat /\ Len(Commands[p]) \in Nat
  BY <1>1, CommandFacts DEF Loops
<1>3. CASE LinkEnds(p, FALSE)
  BY <1>3, DoneLinkEnds
<1>4. CASE TakeAll(p)
  <2>1. Commands[p][proc[p].link] \in Seq(File)
    <3>1. proc[p].link \in 1..Len(Commands[p])
      BY <1>1, <1>2, <1>4 DEF TakeAll, At, Loops
    <3> QED
      BY <3>1, CommandFacts
  <2> QED
    BY <1>4, <2>1, DonePlanned DEF TakeAll, At
<1>5. CASE LinkLoop(p)
  <2> DEFINE r == [proc[p] EXCEPT !.pc = IF proc[p].cancel \/ NextLink(p) > Len(Commands[p])
                                         THEN "exit" ELSE "link",
                                  !.link = NextLink(p)]
  <2>1. /\ r.pc = (IF proc[p].cancel \/ NextLink(p) > Len(Commands[p]) THEN "exit" ELSE "link")
        /\ r.link = NextLink(p) /\ r.jobs = proc[p].jobs /\ r.job = proc[p].job
        /\ r.asked = proc[p].asked /\ r.cancel = proc[p].cancel /\ r.status = proc[p].status
    BY <1>1 DEF Fresh
  <2>2. proc' = [proc EXCEPT ![p] = r]
    BY <1>5 DEF LinkLoop
  <2>3. proc[p].pc = "linkend" /\ proc[p].job = 1 /\ proc[p].jobs = <<>>
    BY <1>1, <1>5 DEF LinkLoop, At, Loops
  <2> HIDE DEF r
  <2>4. NextLink(p) \in Nat \ {0} /\ (~(NextLink(p) > Len(Commands[p])) => NextLink(p) <= Len(Commands[p]))
    BY <1>2 DEF NextLink
  <2>5. Loops(p, r)
    BY <1>1, <2>1, <2>3, <2>4 DEF Loops
  <2>6. Ahead(r) = Ahead(proc[p])
    BY <2>1, <2>3 DEF Ahead, Over
  <2>7. ~corrupted => \A W : WholeFiles \subseteq W => Truthful(r, W)
    BY <1>1, <2>1, <2>6 DEF Truthful
  <2> QED
    BY <2>2, <2>5, <2>7, DoneAlone
<1>6. CASE AfterJob(p) /\ (proc[p].outcome = "done" \/ proc[p].cancel)
  <2> DEFINE r == [proc[p] EXCEPT !.pc = "check"]
  <2>1. /\ r.pc = "check" /\ r.link = proc[p].link /\ r.jobs = proc[p].jobs /\ r.job = proc[p].job
        /\ r.asked = proc[p].asked /\ r.cancel = proc[p].cancel /\ r.status = proc[p].status
    BY <1>1 DEF Fresh
  <2>2. proc' = [proc EXCEPT ![p] = r] /\ proc[p].pc = "after"
    BY <1>6 DEF AfterJob, At
  <2> HIDE DEF r
  <2>3. Loops(p, r)
    BY <1>1, <2>1, <2>2 DEF Loops
  <2>4. ~proc[p].cancel => Ahead(r) = Ahead(proc[p])
    BY <1>6, <2>1, <2>2 DEF Ahead, Over
  <2>5. ~corrupted => \A W : WholeFiles \subseteq W => Truthful(r, W)
    BY <1>1, <2>1, <2>4 DEF Truthful
  <2> QED
    BY <2>2, <2>3, <2>5, DoneAlone
<1>7. CASE JobLoop(p) /\ (proc[p].cancel \/ IsLast(p))
  \* Nothing is ahead of the last job, and after a cancel nothing is promised.
  <2>1. proc[p].pc = "check" /\ LinkEnds(p, TRUE)
    BY <1>7 DEF JobLoop, At, Breaks
  <2>2. IsLast(p) => Ahead(proc[p]) = {}
    <3>1. IsLast(p) => (proc[p].job + 1)..Len(proc[p].jobs) = {}
      BY <1>2 DEF IsLast
    <3> QED
      BY <2>1, <3>1 DEF Ahead, Over
  <2>3. ~corrupted /\ proc[p].status = 0 /\ ~proc[p].cancel => proc[p].asked \subseteq WholeFiles
    BY <1>1, <1>7, <2>2 DEF Truthful
  <2> QED
    BY <2>1, <2>3, DoneLinkEnds
<1>8. CASE JobLoop(p) /\ ~proc[p].cancel /\ ~IsLast(p)
  <2> DEFINE r == [proc[p] EXCEPT !.pc = "job", !.job = @ + 1]
  <2>1. /\ r.pc = "job" /\ r.link = proc[p].link /\ r.jobs = proc[p].jobs /\ r.job = proc[p].job + 1
        /\ r.asked = proc[p].asked /\ r.cancel = proc[p].cancel /\ r.status = proc[p].status
    BY <1>1 DEF Fresh
  <2>2. proc' = [proc EXCEPT ![p] = r]
    BY <1>8 DEF JobLoop, Breaks
  <2>3. proc[p].pc = "check" /\ proc[p].job <= Len(proc[p].jobs) /\ proc[p].job # Len(proc[p].jobs)
    BY <1>1, <1>8 DEF JobLoop, At, Loops, IsLast
  <2> HIDE DEF r
  <2>4. r.job \in Nat \ {0} /\ r.job <= Len(r.jobs)
    BY <1>2, <2>1, <2>3
  <2>5. Loops(p, r)
    BY <1>1, <2>1, <2>4 DEF Loops
  <2>6. Ahead(r) = Ahead(proc[p])
    BY <2>1, <2>3 DEF Ahead, Over
  <2>7. ~corrupted => \A W : WholeFiles \subseteq W => Truthful(r, W)
    BY <1>1, <2>1, <2>6 DEF Truthful
  <2> QED
    BY <2>2, <2>5, <2>7, DoneAlone
<1>9. CASE OpenPicker(p) /\ proc' = [proc EXCEPT ![p].pc = "pick"]
  <2> DEFINE r == [proc[p] EXCEPT !.pc = "pick"]
  <2>1. /\ r.pc = "pick" /\ r.link = proc[p].link /\ r.jobs = proc[p].jobs /\ r.job = proc[p].job
        /\ r.asked = proc[p].asked /\ r.cancel = proc[p].cancel /\ r.status = proc[p].status
    BY <1>1 DEF Fresh
  <2>2. proc' = [proc EXCEPT ![p] = r] /\ proc[p].pc = "link"
    BY <1>9 DEF OpenPicker, At
  <2> HIDE DEF r
  <2>3. Loops(p, r)
    BY <1>1, <2>1, <2>2 DEF Loops
  <2>4. Ahead(r) = Ahead(proc[p])
    BY <2>1, <2>2 DEF Ahead, Over
  <2>5. ~corrupted => \A W : WholeFiles \subseteq W => Truthful(r, W)
    BY <1>1, <2>1, <2>4 DEF Truthful
  <2> QED
    BY <2>2, <2>3, <2>5, DoneAlone
<1> QED
  BY <1>3, <1>4, <1>5, <1>6, <1>7, <1>8, <1>9
     DEF ResolveFails, AfterJob, JobLoop, OpenPicker, Breaks

LEMMA DoneTyping ==
  ASSUME DoneInv, ShareInv', [Next]_vars, NEW p \in Process, Type(p)
  PROVE  DoneInv'
<1>1. /\ DOMAIN proc[p] = DOMAIN Fresh /\ Loops(p, proc[p]) /\ proc[p].pc = "pick"
      /\ ~corrupted => Truthful(proc[p], WholeFiles)
  BY DEF DoneInv, ShareInv, CliInv, Sound, Type, At
<1>2. CASE LinkEnds(p, FALSE)
  BY <1>2, DoneLinkEnds
<1>3. CASE \E jobs \in Chosen(Commands[p][proc[p].link]) : Planned(p, jobs)
  <2>1. PICK jobs \in Chosen(Commands[p][proc[p].link]) : Planned(p, jobs)
    BY <1>3
  <2>2. proc[p].link \in 1..Len(Commands[p])
    BY <1>1, CommandFacts DEF Loops
  <2>3. jobs \in Seq(File)
    BY <2>2, CommandFacts, ChosenFacts
  <2> QED
    BY <1>1, <2>1, <2>3, DonePlanned
<1>4. CASE \E now, n : proc' = [proc EXCEPT ![p].reading = now, ![p].unheard = n]
  <2>1. PICK now, n : proc' = [proc EXCEPT ![p].reading = now, ![p].unheard = n]
    BY <1>4
  <2> DEFINE r == [proc[p] EXCEPT !.reading = now, !.unheard = n]
  <2>2. /\ r.pc = "pick" /\ r.link = proc[p].link /\ r.jobs = proc[p].jobs /\ r.job = proc[p].job
        /\ r.asked = proc[p].asked /\ r.cancel = proc[p].cancel /\ r.status = proc[p].status
    BY <1>1 DEF Fresh
  <2>3. proc' = [proc EXCEPT ![p] = r]
    BY <2>1
  <2> HIDE DEF r
  <2>4. Loops(p, r) /\ Ahead(r) = Ahead(proc[p])
    BY <1>1, <2>2 DEF Loops, Ahead, Over
  <2>5. ~corrupted => \A W : WholeFiles \subseteq W => Truthful(r, W)
    BY <1>1, <2>2, <2>4 DEF Truthful
  <2> QED
    BY <2>3, <2>4, <2>5, DoneAlone
<1> QED
  BY <1>2, <1>3, <1>4 DEF Type

LEMMA FreshIsTruthful ==
  ASSUME NEW p \in Process
  PROVE  /\ Loops(p, Fresh) /\ \A W : Truthful(Fresh, W)
         /\ Loops(p, [Fresh EXCEPT !.pc = "exit", !.status = Killed])
         /\ \A W : Truthful([Fresh EXCEPT !.pc = "exit", !.status = Killed], W)
<1>1. <<>> \in Seq(File) /\ 1 \in Nat \ {0} /\ 1 <= Len(Commands[p]) /\ Killed # 0
  BY CommandFacts DEF Killed
<1> QED
  BY <1>1 DEF Loops, Truthful, Fresh

LEMMA DoneOutside ==
  ASSUME DoneInv, ShareInv', [Next]_vars, NEW p \in Process, CtrlC(p) \/ Kill(p) \/ Again(p)
  PROVE  DoneInv'
<1>1. CASE Kill(p) \/ Again(p)
  BY <1>1, FreshIsTruthful, DoneAlone DEF Kill, Again
<1>2. CASE CtrlC(p)
  <2> DEFINE r == [proc[p] EXCEPT !.cancel = TRUE]
  <2>1. /\ DOMAIN proc[p] = DOMAIN Fresh /\ Loops(p, proc[p]) /\ proc[p].pc # "exit"
        /\ ~corrupted => Truthful(proc[p], WholeFiles)
    BY <1>2 DEF DoneInv, ShareInv, CliInv, Sound, CtrlC
  <2>2. /\ r.pc = proc[p].pc /\ r.link = proc[p].link /\ r.jobs = proc[p].jobs
        /\ r.job = proc[p].job /\ r.asked = proc[p].asked /\ r.cancel = TRUE
        /\ r.status = proc[p].status /\ r.outcome = proc[p].outcome
    BY <2>1 DEF Fresh
  <2>3. proc' = [proc EXCEPT ![p] = r]
    BY <1>2 DEF CtrlC
  <2> HIDE DEF r
  <2>4. Loops(p, r)
    BY <2>1, <2>2 DEF Loops
  <2>5. ~corrupted => \A W : WholeFiles \subseteq W => Truthful(r, W)
    BY <2>1, <2>2 DEF Truthful
  <2> QED
    BY <2>3, <2>4, <2>5, DoneAlone
<1> QED
  BY <1>1, <1>2

LEMMA DoneInit == Init => DoneInv
<1> SUFFICES ASSUME Init PROVE DoneInv
  OBVIOUS
<1>1. \A p \in Process : proc[p] = Fresh
  BY DEF Init
<1> QED
  BY <1>1, ShareInit, FreshIsTruthful DEF DoneInv

LEMMA DoneNext ==
  ASSUME DoneInv, [Next]_vars, \A x, y, z \in Process : x = y \/ x = z \/ y = z
  PROVE  DoneInv'
<1>1. ShareInv'
  BY ShareStep DEF DoneInv
<1>2. ASSUME NEW p \in Process, Run(p) \/ Type(p) \/ CtrlC(p) \/ Kill(p) \/ Again(p)
      PROVE  DoneInv'
  BY <1>1, <1>2, DoneLoops, DoneSync, DoneTyping, DoneOutside DEF Run
<1>3. CASE UNCHANGED vars
  BY <1>1, <1>3 DEF vars, DoneInv, WholeFiles, Whole
<1> QED
  BY <1>2, <1>3 DEF Next

\* Of two processes, one that exits with 0 uncancelled has been through all its
\* links, and every file that it planned is whole, no matter which of the two
\* delivered it (cli.rs:98-108).
THEOREM ZeroIsTruthful ==
  ASSUME \A x, y, z \in Process : x = y \/ x = z \/ y = z
  PROVE  Spec => []ZeroMeansAll
<1>1. Init => DoneInv
  BY DoneInit
<1>2. DoneInv /\ [Next]_vars => DoneInv'
  BY DoneNext
<1>3. DoneInv => ZeroMeansAll
  <2> SUFFICES ASSUME DoneInv, ~corrupted, NEW p \in Process, proc[p].pc = "exit",
                      proc[p].status = 0, ~proc[p].cancel
               PROVE  /\ proc[p].link > Len(Commands[p])
                      /\ \A f \in proc[p].asked : Whole(f)
    BY DEF ZeroMeansAll, At
  <2>1. /\ proc[p].link > Len(Commands[p]) /\ proc[p].jobs = <<>> /\ proc[p].job = 1
        /\ proc[p].asked \subseteq WholeFiles \cup Ahead(proc[p])
    BY DEF DoneInv, Loops, Truthful
  <2>2. Ahead(proc[p]) = {}
    BY <2>1 DEF Ahead, Over
  <2> QED
    BY <2>1, <2>2 DEF WholeFiles
<1> QED
  BY <1>1, <1>2, <1>3, PTL DEF Spec

\* Of two processes, one that finds its verified partial gone was overtaken by the
\* other, and the target is that file, whole (download.rs:187).
THEOREM OvertakenIsDelivered ==
  ASSUME \A x, y, z \in Process : x = y \/ x = z \/ y = z
  PROVE  Spec => []OvertakenMeansDelivered
<1>1. Init => DoneInv
  BY DoneInit
<1>2. DoneInv /\ [Next]_vars => DoneInv'
  BY DoneNext
<1>3. DoneInv => OvertakenMeansDelivered
  BY DEF DoneInv, Truthful, OvertakenMeansDelivered, At, Current, WholeFiles
<1> QED
  BY <1>1, <1>2, <1>3, PTL DEF Spec
=============================================================================
