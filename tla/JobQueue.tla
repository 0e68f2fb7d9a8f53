------------------------------ MODULE JobQueue ------------------------------
(***************************************************************************)
(* The TUI's Queue (src/src/bin/tui.rs): a mutex around the pending jobs   *)
(* and a condition variable, between the UI thread, which pushes, removes  *)
(* and quits, and the worker thread, which pops and works.                 *)
(***************************************************************************)
EXTENDS Naturals, Sequences, SequencesExt

CONSTANT MaxJobs  \* bound: jobs the user adds

ASSUME QueueAssumption == MaxJobs \in Nat

VARIABLES
  lock,     \* holder of the mutex: "free", "ui" or "worker"
  pending,  \* ids of the queued jobs
  quit,     \* the AtomicBool
  ui,       \* where the UI thread is
  arg,      \* the id it pushes or removes
  worker,   \* where the worker thread is
  current,  \* id of the job pop returned, or 0
  queued,   \* ids given out (next_id - 1)
  lateTakes \* history: jobs popped after quit was set

vars == <<lock, pending, quit, ui, arg, worker, current, queued, lateTakes>>

Init ==
  /\ lock = "free" /\ pending = <<>> /\ quit = FALSE
  /\ ui = "idle" /\ arg = 0 /\ worker = "top" /\ current = 0
  /\ queued = 0 /\ lateTakes = 0

-----------------------------------------------------------------------------
(* The UI thread.                                                          *)

\* next_id, which starts at 1, read before it is incremented.
NextId == queued + 1

\* A job is confirmed: Queue::push asks for the mutex.
AskPush ==
  /\ ui = "idle" /\ queued < MaxJobs
  /\ ui' = "push" /\ arg' = NextId /\ queued' = queued + 1
  /\ UNCHANGED <<lock, pending, quit, worker, current, lateTakes>>

\* 'd' on a listed item: Queue::remove asks for the mutex.
AskRemove(id) ==
  /\ ui = "idle"
  /\ ui' = "remove" /\ arg' = id
  /\ UNCHANGED <<lock, pending, quit, worker, current, queued, lateTakes>>

UiLocks ==
  /\ ui \in {"push", "remove"} /\ lock = "free"
  /\ lock' = "ui" /\ ui' = IF ui = "push" THEN "pushing" ELSE "removing"
  /\ UNCHANGED <<pending, quit, arg, worker, current, queued, lateTakes>>

\* push_back
PushedFront(s, id) == Cons(id, s)
PushedBack(s, id) == Append(s, id)

\* The guard is dropped before notify_one.
PushJob ==
  /\ ui = "pushing"
  /\ pending' = PushedBack(pending, arg)
  /\ lock' = "free" /\ ui' = "notify"
  /\ UNCHANGED <<quit, arg, worker, current, queued, lateTakes>>

\* retain(|j| j.id != id)
Retained(s, id) == Remove(s, id)

RemoveJob ==
  /\ ui = "removing"
  /\ pending' = Retained(pending, arg)
  /\ lock' = "free" /\ ui' = "idle" /\ arg' = 0
  /\ UNCHANGED <<quit, worker, current, queued, lateTakes>>

\* notify_one: lost if the worker is not waiting.
Notify ==
  /\ ui = "notify"
  /\ ui' = "idle" /\ arg' = 0
  /\ worker' = IF worker = "parked" THEN "woken" ELSE worker
  /\ UNCHANGED <<lock, pending, quit, current, queued, lateTakes>>

\* main's last statement; it takes no lock and notifies nobody.
Quit ==
  /\ ui = "idle"
  /\ quit' = TRUE /\ ui' = "gone"
  /\ UNCHANGED <<lock, pending, arg, worker, current, queued, lateTakes>>

-----------------------------------------------------------------------------
(* The worker thread.                                                      *)

\* quit.load(SeqCst), before popping, in pop and after a job.
SeesQuitNever == FALSE
SeesQuit == quit

Top ==
  /\ worker = "top"
  /\ worker' = IF SeesQuit THEN "stopped" ELSE "pop"
  /\ UNCHANGED <<lock, pending, quit, ui, arg, current, queued, lateTakes>>

\* lock() at the head of pop, and the relock inside wait_timeout.
WorkerLocks ==
  /\ worker \in {"pop", "woken"} /\ lock = "free"
  /\ lock' = "worker" /\ worker' = "checkQuit"
  /\ UNCHANGED <<pending, quit, ui, arg, current, queued, lateTakes>>

CheckQuit ==
  /\ worker = "checkQuit"
  /\ IF SeesQuit THEN worker' = "stopped" /\ lock' = "free"
             ELSE worker' = "checkQueue" /\ UNCHANGED lock
  /\ UNCHANGED <<pending, quit, ui, arg, current, queued, lateTakes>>

PopFront ==
  /\ worker = "checkQueue" /\ pending # <<>>
  /\ current' = Head(pending) /\ pending' = Tail(pending)
  /\ lock' = "free" /\ worker' = "working"
  /\ lateTakes' = IF quit THEN lateTakes + 1 ELSE lateTakes
  /\ UNCHANGED <<quit, ui, arg, queued>>

\* wait_timeout gives the mutex up while it waits.
LockKept == lock
LockWhileParked == "free"

Park ==
  /\ worker = "checkQueue" /\ pending = <<>>
  /\ lock' = LockWhileParked /\ worker' = "parked"
  /\ UNCHANGED <<pending, quit, ui, arg, current, queued, lateTakes>>

\* 200 ms have passed, or a spurious wake-up.
TimeOut ==
  /\ worker = "parked"
  /\ worker' = "woken"
  /\ UNCHANGED <<lock, pending, quit, ui, arg, current, queued, lateTakes>>

\* The rest of worker_loop's body; it ends with a look at quit.
FinishJob ==
  /\ worker = "working"
  /\ current' = 0 /\ worker' = IF SeesQuit THEN "stopped" ELSE "top"
  /\ UNCHANGED <<lock, pending, quit, ui, arg, queued, lateTakes>>

-----------------------------------------------------------------------------
UiStep     == UiLocks \/ PushJob \/ RemoveJob \/ Notify
User       == AskPush \/ (\E id \in 1..queued : AskRemove(id)) \/ Quit
WorkerStep == Top \/ CheckQuit \/ PopFront \/ Park \/ TimeOut \/ FinishJob

Next == UiStep \/ User \/ WorkerLocks \/ WorkerStep

\* Both threads run; a thread blocked on the mutex gets it if it is free
\* again and again (the worker leaves it for 200 ms at a time), and a job
\* ends (Download: Termination).
Spec ==
  /\ Init /\ [][Next]_vars
  /\ WF_vars(PushJob \/ RemoveJob \/ Notify) /\ SF_vars(UiLocks)
  /\ WF_vars(WorkerStep) /\ SF_vars(WorkerLocks)

-----------------------------------------------------------------------------
\* The mutex is held exactly by the thread that is inside: in particular the
\* worker never parks with it ("a sleep inside the lock would starve the UI
\* thread trying to enqueue", tui.rs:64).
LockHeldInside ==
  /\ (lock = "ui") <=> ui \in {"pushing", "removing"}
  /\ (lock = "worker") <=> worker \in {"checkQuit", "checkQueue"}

\* A quit that comes between pop's look at the flag and its pop_front lets
\* one more job start, never two.
AtMostOneLateJob == lateTakes <= 1

\* A push or remove never waits for ever, although the queue stays empty and
\* the worker keeps coming back to it.
UiGetsLock == ui \in {"push", "remove"} ~> ui \notin {"push", "remove"}

\* The threads see the abstract queue, its liveness included.
Fifo == INSTANCE FifoQueue
          WITH queue <- pending, queued <- queued - (IF ui \in {"push", "pushing"} THEN 1 ELSE 0),
               busy <- (worker = "working"), stopped <- (worker = "stopped")
ImplementsFifoQueue == Fifo!Spec

=============================================================================
