-------------------------------- MODULE Cli --------------------------------
(***************************************************************************)
(* The command line program (src/src/bin/cli.rs): the loops of main and    *)
(* run_one over links and files, the picker of --choose-files, Ctrl-C, and *)
(* the exit status; and several such processes in one directory, which     *)
(* meet in the partials and targets that sync_file (src/src/download.rs)   *)
(* opens, renames and removes by name.                                     *)
(*                                                                         *)
(* Here a fetch is units that arrive right or wrong, or a failure; Download *)
(* has its inside, and crashes of the machine.  Every file has a partial   *)
(* and a target of its own (OnePlacePerFile of Selection).                 *)
(***************************************************************************)
EXTENDS Naturals, Sequences, SequencesExt, FiniteSets, KeyReader

CONSTANTS
  Process,
  File,
  Commands,  \* for each process its links, each the files that it plans
  Choosers,  \* the processes started with --choose-files
  Size       \* units in each file

ASSUME CliAssumption ==
  /\ Commands \in [Process -> Seq(Seq(File))] /\ Choosers \subseteq Process
  /\ Size \in [File -> Nat \ {0}]
  /\ \A p \in Process : Commands[p] # <<>>

\* What a name may lead to: no file, or one of a length with some units wrong.
Absent == [len |-> 0, wrong |-> {0}]
Empty  == [len |-> 0, wrong |-> {}]

VARIABLES
  partial, target,  \* what is under each file's two names
  proc,             \* the processes; asked, late and unheard are history
  corrupted         \* has a server sent a wrong unit?

vars == <<partial, target, proc, corrupted>>

\* fd says where the open file is by now: still under the partial's name, under
\* the target's, or under none, never to be read again.
Fresh == [pc |-> "link", link |-> 1, jobs |-> <<>>, job |-> 1,
          fd |-> "none", pos |-> 0, good |-> TRUE, outcome |-> "done",
          cancel |-> FALSE, status |-> 0, late |-> 0,
          asked |-> {}, reading |-> Ground, unheard |-> 0]

Killed == 2  \* stands for the status of a process that was killed

Init ==
  /\ partial = [f \in File |-> Absent] /\ target = [f \in File |-> Absent]
  /\ proc = [p \in Process |-> Fresh]
  /\ corrupted = FALSE

Files == <<partial, target, corrupted>>
At(p, place) == proc[p].pc = place
Current(p) == proc[p].jobs[proc[p].job]

-----------------------------------------------------------------------------
(* main and run_one.                                                       *)

\* An error of run_one is printed and sets the status for good.
StatusOfLast(p, ok) == IF ok THEN 0 ELSE 1
StatusAfter(p, ok) == IF ok THEN proc[p].status ELSE 1
LinkEnds(p, ok) ==
  proc' = [proc EXCEPT ![p] =
             [proc[p] EXCEPT !.pc = "linkend", !.status = StatusAfter(p, ok),
                             !.jobs = <<>>, !.job = 1, !.outcome = "done",
                             !.reading = Ground, !.unheard = 0]]

\* resolve, or creating the directory of --path, fails.
ResolveFails(p) ==
  /\ At(p, "link") /\ LinkEnds(p, FALSE) /\ UNCHANGED Files

\* Without --choose-files the plan has all of the link's files.
Planned(p, jobs) ==
  IF jobs = <<>> THEN LinkEnds(p, TRUE)
  ELSE proc' = [proc EXCEPT ![p] =
                  [proc[p] EXCEPT !.pc = "job", !.jobs = jobs, !.asked = @ \cup ToSet(jobs),
                                  !.reading = Ground, !.unheard = 0]]

TakeAll(p) ==
  /\ At(p, "link") /\ p \notin Choosers /\ Planned(p, Commands[p][proc[p].link])
  /\ UNCHANGED Files

\* The loop over the links goes on after an error, and ends at a cancel.
LinkKept(p) == proc[p].link + (IF proc[p].status = 0 THEN 1 ELSE 0)
NextLink(p) == proc[p].link + 1
LinkLoop(p) ==
  /\ At(p, "linkend")
  /\ proc' = [proc EXCEPT ![p].pc = IF proc[p].cancel \/ NextLink(p) > Len(Commands[p])
                                    THEN "exit" ELSE "link",
                          ![p].link = NextLink(p)]
  /\ UNCHANGED Files

\* cancel is looked at twice: a failure is an error unless it is set, and the
\* loop over the jobs ends if it is.
AfterJob(p) ==
  /\ At(p, "after")
  /\ IF proc[p].outcome # "done" /\ ~proc[p].cancel THEN LinkEnds(p, FALSE)
     ELSE proc' = [proc EXCEPT ![p].pc = "check"]
  /\ UNCHANGED Files

NoBreak(p) == FALSE
Breaks(p) == proc[p].cancel
IsLast(p) == proc[p].job = Len(proc[p].jobs)
JobLoop(p) ==
  /\ At(p, "check")
  /\ IF Breaks(p) \/ IsLast(p) THEN LinkEnds(p, TRUE)
     ELSE proc' = [proc EXCEPT ![p].pc = "job", ![p].job = @ + 1]
  /\ UNCHANGED Files

-----------------------------------------------------------------------------
(* choose_files, with the terminal in raw mode: Ctrl-C is a byte like any  *)
(* other there, and no signal.                                             *)
OpenPicker(p) ==
  /\ At(p, "link") /\ p \in Choosers
  /\ IF Commands[p][proc[p].link] = <<>> THEN LinkEnds(p, FALSE)
     ELSE proc' = [proc EXCEPT ![p].pc = "pick"]
  /\ UNCHANGED Files

Quits == {"ctrl-c", "q"}

\* Some of the rows, in their order; choosing none is an error.
Rows(n, m) == {row \in [1..n -> 1..m] : \A i, j \in 1..n : i < j => row[i] < row[j]}
Chosen(files) ==
  UNION {{[i \in 1..n |-> files[row[i]]] : row \in Rows(n, Len(files))} : n \in 1..Len(files)}

Type(p) ==
  /\ At(p, "pick")
  /\ \E b \in Bytes :
       LET key == KeyOf(proc[p].reading, b)
       IN  CASE key \in Quits \cup {"esc"} -> LinkEnds(p, FALSE)
             [] key = "enter" ->
                  \/ LinkEnds(p, FALSE)
                  \/ \E jobs \in Chosen(Commands[p][proc[p].link]) : Planned(p, jobs)
             [] OTHER ->
                  proc' = [proc EXCEPT
                    ![p].reading = ReadingAfter(@, b),
                    ![p].unheard = IF b \notin Quits THEN 0 ELSE IF @ = 2 THEN 2 ELSE @ + 1]
  /\ UNCHANGED Files

-----------------------------------------------------------------------------
(* sync_file.                                                              *)
JobEnded(q, outcome) ==
  [proc[q] EXCEPT !.pc = "after", !.outcome = outcome, !.fd = "none", !.pos = 0, !.good = TRUE]
JobEnds(p, outcome) == proc' = [proc EXCEPT ![p] = JobEnded(p, outcome)]

Begin(p) ==
  /\ At(p, "job")
  /\ LET late == IF ~proc[p].cancel THEN 0 ELSE IF proc[p].late = 2 THEN 2 ELSE proc[p].late + 1
     IN  proc' = [proc EXCEPT ![p].late = late,
                              ![p].outcome = "done",
                              ![p].pc = IF target[Current(p)] # Absent THEN "after" ELSE "open"]
  /\ UNCHANGED Files

\* What is in the partial when it has been opened, or made; the MAC is fed all of
\* it, so that it will match if nothing in it is wrong.
OpenedTruncated(held) == Empty
Opened(held) == IF held = Absent THEN Empty ELSE held
Unseeded(held) == held.len = 0
Seeded(held) == held.wrong = {}
Open(p) ==
  /\ At(p, "open")
  /\ LET held == Opened(partial[Current(p)])
     IN  /\ partial' = [partial EXCEPT ![Current(p)] = held]
         /\ proc' = [proc EXCEPT ![p].pc = "fetch", ![p].fd = "partial",
                                 ![p].pos = held.len, ![p].good = Seeded(held)]
  /\ UNCHANGED <<target, corrupted>>

\* A unit is written where this process is, whatever others have written; what
\* a gap leaves reads as zeros.
Written(d, k, right) ==
  [len |-> IF k > d.len THEN k ELSE d.len,
   wrong |-> (d.wrong \cup (d.len + 1)..(k - 1) \cup {k}) \ (IF right THEN {k} ELSE {})]

\* One wrong unit in all.
Fetch(p) ==
  /\ At(p, "fetch") /\ proc[p].pos < Size[Current(p)]
  /\ \E right \in {TRUE, corrupted} :
       LET f == Current(p)
           k == proc[p].pos + 1
       IN  /\ partial' = IF proc[p].fd # "partial" THEN partial
                         ELSE [partial EXCEPT ![f] = Written(@, k, right)]
           /\ target' = IF proc[p].fd # "target" THEN target
                        ELSE [target EXCEPT ![f] = Written(@, k, right)]
           /\ proc' = [proc EXCEPT ![p].pos = k, ![p].good = @ /\ right]
           /\ corrupted' = (corrupted \/ ~right)

SeesCancel(p) ==
  /\ At(p, "fetch") /\ proc[p].pos < Size[Current(p)] /\ proc[p].cancel
  /\ JobEnds(p, "cancelled") /\ UNCHANGED Files

\* get_url, the disk, sync_all, or every attempt until the retry window closes.
Fails(p) ==
  /\ \/ proc[p].pc \in {"open", "rename"}
     \/ At(p, "fetch") /\ proc[p].pos < Size[Current(p)]
  /\ JobEnds(p, "failed") /\ UNCHANGED Files

Verifies(p) ==
  /\ At(p, "fetch") /\ proc[p].pos = Size[Current(p)] /\ proc[p].good
  /\ proc' = [proc EXCEPT ![p].pc = "rename"] /\ UNCHANGED Files

\* The other processes' open files when p's partial gets another name, or none.
Others(p, outcome, moved) ==
  [q \in Process |->
     IF q = p THEN JobEnded(p, outcome)
     ELSE IF proc[q].fd = "none" \/ Current(q) # Current(p) THEN proc[q]
     ELSE [proc[q] EXCEPT !.fd = IF @ = "partial" THEN moved
                                 ELSE IF moved = "target" THEN "gone" ELSE @]]

\* The partial is removed by name, which may fail.
Mismatch(p) ==
  /\ At(p, "fetch") /\ proc[p].pos = Size[Current(p)] /\ ~proc[p].good
  /\ \/ JobEnds(p, "failed") /\ UNCHANGED partial
     \/ /\ partial' = [partial EXCEPT ![Current(p)] = Absent]
        /\ proc' = Others(p, "failed", "gone")
  /\ UNCHANGED <<target, corrupted>>

\* The file is renamed by name: it may be another one by now, or gone.
Rename(p) ==
  /\ At(p, "rename")
  /\ IF partial[Current(p)] = Absent THEN JobEnds(p, "missing") /\ UNCHANGED Files
     ELSE /\ target' = [target EXCEPT ![Current(p)] = partial[Current(p)]]
          /\ partial' = [partial EXCEPT ![Current(p)] = Absent]
          /\ proc' = Others(p, "done", "target")
          /\ UNCHANGED corrupted

-----------------------------------------------------------------------------
(* The user and the system.                                                *)
CtrlC(p) ==
  /\ proc[p].pc \notin {"pick", "exit"} /\ ~proc[p].cancel
  /\ proc' = [proc EXCEPT ![p].cancel = TRUE]
  /\ UNCHANGED Files

Kill(p) ==
  /\ ~At(p, "exit")
  /\ proc' = [proc EXCEPT ![p] = [Fresh EXCEPT !.pc = "exit", !.status = Killed]]
  /\ UNCHANGED Files

Again(p) ==
  /\ At(p, "exit") /\ proc' = [proc EXCEPT ![p] = Fresh]
  /\ UNCHANGED Files

Run(p) == \/ ResolveFails(p) \/ TakeAll(p) \/ LinkLoop(p) \/ AfterJob(p) \/ JobLoop(p)
          \/ OpenPicker(p) \/ Begin(p) \/ Open(p) \/ Fetch(p) \/ SeesCancel(p) \/ Fails(p)
          \/ Verifies(p) \/ Mismatch(p) \/ Rename(p)

Next == \E p \in Process : Run(p) \/ Type(p) \/ CtrlC(p) \/ Kill(p) \/ Again(p)

\* A process runs; nobody has to type, to start it again, or to end it.
Spec == Init /\ [][Next]_vars /\ \A p \in Process : WF_vars(Run(p))

-----------------------------------------------------------------------------
(* Properties                                                              *)
Whole(f) == target[f] = [len |-> Size[f], wrong |-> {}]

\* Two processes at a time that write the same partial, rename and remove it by
\* name and start anew deliver whole files, as long as no unit is corrupted.
SharedIntegrity ==
  ~corrupted => \A f \in File : target[f] # Absent => Whole(f)

\* A process that exits with 0 and was not cancelled has been through all of its
\* links and has left every file it planned where it belongs (cli.rs:98-108).
ZeroMeansAll ==
  ~corrupted =>
    \A p \in Process :
      At(p, "exit") /\ proc[p].status = 0 /\ ~proc[p].cancel =>
        proc[p].link > Len(Commands[p]) /\ \A f \in proc[p].asked : Whole(f)

\* A process whose verified partial is gone has been overtaken by one that has
\* delivered that very file: nothing is lost but its report (download.rs:187).
OvertakenMeansDelivered ==
  ~corrupted => \A p \in Process :
    At(p, "after") /\ proc[p].outcome = "missing" => Whole(Current(p))

\* After Ctrl-C at most one more sync_file is begun, whatever is left of the jobs
\* and of the links (cli.rs:104-106, 146-148).
AtMostOneMore == \A p \in Process : proc[p].late <= 1

\* Of q and Ctrl-C typed in a row at most one is lost to an Esc typed before: the
\* picker is gone after the second (term.rs:86-101).
QuitIsHeard == \A p \in Process : proc[p].unheard <= 1

\* A process that is not waiting in the picker exits, failing links or not.
ProcessExits == \A p \in Process : []<>(proc[p].pc \in {"exit", "pick"})

=============================================================================
