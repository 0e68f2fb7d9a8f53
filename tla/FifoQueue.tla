----------------------------- MODULE FifoQueue -----------------------------
(***************************************************************************)
(* What the TUI's job queue promises its two threads: jobs are taken one   *)
(* at a time, in the order they were queued, unless withdrawn first, until *)
(* the worker stops.                                                       *)
(***************************************************************************)
EXTENDS Naturals, Sequences, SequencesExt

CONSTANT MaxJobs  \* bound: jobs ever queued

VARIABLES
  queue,    \* ids of the waiting jobs
  busy,     \* the worker is at a job ...
  current,  \* ... of this id, or 0
  queued,   \* how many jobs have been queued: ids are given in that order
  quit,     \* the user has quit
  stopped   \* the worker has returned

vars == <<queue, busy, current, queued, quit, stopped>>

Init == /\ queue = <<>> /\ busy = FALSE /\ current = 0 /\ queued = 0
        /\ quit = FALSE /\ stopped = FALSE

Enqueue ==
  /\ ~quit /\ queued < MaxJobs
  /\ queued' = queued + 1 /\ queue' = Append(queue, queued + 1)
  /\ UNCHANGED <<busy, current, quit, stopped>>

Withdraw(id) ==
  /\ ~quit
  /\ queue' = Remove(queue, id)
  /\ UNCHANGED <<busy, current, queued, quit, stopped>>

Take ==
  /\ ~busy /\ ~stopped /\ queue # <<>>
  /\ busy' = TRUE /\ current' = Head(queue) /\ queue' = Tail(queue)
  /\ UNCHANGED <<queued, quit, stopped>>

\* The worker may see a quit at the end of a job.
Finish ==
  /\ busy
  /\ busy' = FALSE /\ current' = 0 /\ stopped' \in {FALSE, quit}
  /\ UNCHANGED <<queue, queued, quit>>

Quit == ~quit /\ quit' = TRUE /\ UNCHANGED <<queue, busy, current, queued, stopped>>

Stop ==
  /\ quit /\ ~busy /\ ~stopped
  /\ stopped' = TRUE
  /\ UNCHANGED <<queue, busy, current, queued, quit>>

Next == Enqueue \/ (\E id \in 1..MaxJobs : Withdraw(id)) \/ Take \/ Finish \/ Quit \/ Stop

\* The worker does not rest while there is work, nor outlive a quit.
Spec == Init /\ [][Next]_vars /\ WF_vars(Take \/ Stop) /\ WF_vars(Finish)

=============================================================================
