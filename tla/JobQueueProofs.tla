--------------------------- MODULE JobQueueProofs ---------------------------
(***************************************************************************)
(* Proofs about JobQueue: who holds the mutex, what a quit still lets      *)
(* through, and that the threads see the abstract queue.                   *)
(***************************************************************************)
EXTENDS JobQueue, TLAPS

UiPlaces     == {"idle", "push", "remove", "pushing", "removing", "notify", "gone"}
WorkerPlaces == {"top", "pop", "checkQuit", "checkQueue", "parked", "woken", "working", "stopped"}

\* LockHeldInside is inductive once the threads are somewhere.
LockInv ==
  /\ ui \in UiPlaces /\ worker \in WorkerPlaces
  /\ lock \in {"free", "ui", "worker"}
  /\ LockHeldInside

LEMMA LockInit == Init => LockInv
  BY DEF Init, LockInv, LockHeldInside, UiPlaces, WorkerPlaces

LEMMA LockStep == LockInv /\ [Next]_vars => LockInv'
<1> SUFFICES ASSUME LockInv, [Next]_vars PROVE LockInv'
  OBVIOUS
<1> USE DEF LockInv, LockHeldInside, UiPlaces, WorkerPlaces
<1>1. CASE AskPush
  BY <1>1 DEF AskPush
<1>2. ASSUME NEW id \in 1..queued, AskRemove(id) PROVE LockInv'
  BY <1>2 DEF AskRemove
<1>3. CASE UiLocks
  BY <1>3 DEF UiLocks
<1>4. CASE PushJob
  BY <1>4 DEF PushJob
<1>5. CASE RemoveJob
  BY <1>5 DEF RemoveJob
<1>6. CASE Notify
  BY <1>6 DEF Notify
<1>7. CASE Quit
  BY <1>7 DEF Quit
<1>8. CASE Top
  BY <1>8 DEF Top
<1>9. CASE WorkerLocks
  BY <1>9 DEF WorkerLocks
<1>10. CASE CheckQuit
  BY <1>10 DEF CheckQuit
<1>11. CASE PopFront
  BY <1>11 DEF PopFront
<1>12. CASE Park
  BY <1>12 DEF Park, LockWhileParked
<1>13. CASE TimeOut
  BY <1>13 DEF TimeOut
<1>14. CASE FinishJob
  BY <1>14 DEF FinishJob
<1>15. CASE UNCHANGED vars
  BY <1>15 DEF vars
<1> QED
  BY <1>1, <1>2, <1>3, <1>4, <1>5, <1>6, <1>7, <1>8, <1>9, <1>10, <1>11,
     <1>12, <1>13, <1>14, <1>15 DEF Next, UiStep, User, WorkerStep

\* The mutex is held by exactly the thread that is inside it, and so never by
\* a parked worker, for any number of jobs (tui.rs:63-65).
THEOREM LockIsHeldInside == Spec => []LockHeldInside
<1>1. LockInv => LockHeldInside
  BY DEF LockInv
<1> QED
  BY LockInit, LockStep, <1>1, PTL DEF Spec

-----------------------------------------------------------------------------
\* A late job is the one the worker is at when it next looks at quit.
LateInv ==
  /\ lateTakes \in {0, 1}
  /\ lateTakes = 1 => quit /\ worker \in {"working", "stopped"}

LEMMA LateInit == Init => LateInv
  BY DEF Init, LateInv

LEMMA LateStep == LateInv /\ [Next]_vars => LateInv'
<1> SUFFICES ASSUME LateInv, [Next]_vars PROVE LateInv'
  OBVIOUS
<1> USE DEF LateInv
<1>1. CASE AskPush
  BY <1>1 DEF AskPush
<1>2. ASSUME NEW id \in 1..queued, AskRemove(id) PROVE LateInv'
  BY <1>2 DEF AskRemove
<1>3. CASE UiLocks
  BY <1>3 DEF UiLocks
<1>4. CASE PushJob
  BY <1>4 DEF PushJob
<1>5. CASE RemoveJob
  BY <1>5 DEF RemoveJob
<1>6. CASE Notify
  BY <1>6 DEF Notify
<1>7. CASE Quit
  BY <1>7 DEF Quit
<1>8. CASE Top
  BY <1>8 DEF Top
<1>9. CASE WorkerLocks
  BY <1>9 DEF WorkerLocks
<1>10. CASE CheckQuit
  BY <1>10 DEF CheckQuit
<1>11. CASE PopFront
  BY <1>11 DEF PopFront
<1>12. CASE Park
  BY <1>12 DEF Park
<1>13. CASE TimeOut
  BY <1>13 DEF TimeOut
<1>14. CASE FinishJob
  BY <1>14 DEF FinishJob, SeesQuit
<1>15. CASE UNCHANGED vars
  BY <1>15 DEF vars
<1> QED
  BY <1>1, <1>2, <1>3, <1>4, <1>5, <1>6, <1>7, <1>8, <1>9, <1>10, <1>11,
     <1>12, <1>13, <1>14, <1>15 DEF Next, UiStep, User, WorkerStep

\* However many jobs wait, at most one is started after a quit: the one whose
\* pop had already looked at the flag (tui.rs:84-90).
THEOREM LateJobs == Spec => []AtMostOneLateJob
<1>1. LateInv => AtMostOneLateJob
  BY DEF LateInv, AtMostOneLateJob
<1> QED
  BY LateInit, LateStep, <1>1, PTL DEF Spec

-----------------------------------------------------------------------------
(* JobQueue implements the abstract queue: every step is a step of it, or  *)
(* does not show there.  What the queue holds is never looked at, so the   *)
(* proof needs no fact about sequences.                                    *)
FifoSafely == Fifo!Init /\ [][Fifo!Next]_(Fifo!vars)

Pushes  == ui \in {"push", "pushing"}
Removes == ui \in {"remove", "removing"}
Waiting == {"checkQueue", "parked", "woken", "pop", "top", "checkQuit"}

\* The UI thread works only until it quits; the job it pushes has the last id
\* given out, and the one it removes has an id given out.
HandInv ==
  /\ LockInv
  /\ queued \in 0..MaxJobs /\ arg \in Nat /\ quit \in BOOLEAN
  /\ quit <=> ui = "gone"
  /\ Pushes => queued > 0 /\ arg = queued
  /\ Removes => arg \in 1..queued

LEMMA HandInit == Init => HandInv
<1> SUFFICES ASSUME Init PROVE HandInv
  OBVIOUS
<1>1. LockInv
  BY LockInit
<1>2. quit = FALSE /\ ui = "idle"
  BY DEF Init
<1>3. ~Pushes /\ ~Removes /\ (quit <=> ui = "gone") /\ quit \in BOOLEAN
  BY <1>2 DEF Pushes, Removes
<1> QED
  BY <1>1, <1>3, QueueAssumption DEF Init, HandInv

LEMMA HandStep == HandInv /\ [Next]_vars => HandInv'
<1> SUFFICES ASSUME HandInv, [Next]_vars PROVE HandInv'
  OBVIOUS
<1>l. LockInv'
  BY LockStep DEF HandInv
<1> USE <1>l, QueueAssumption DEF HandInv, LockInv, UiPlaces, Pushes, Removes
<1>1. CASE AskPush
  BY <1>1 DEF AskPush, NextId
<1>2. ASSUME NEW id \in 1..queued, AskRemove(id) PROVE HandInv'
  BY <1>2 DEF AskRemove
<1>3. CASE UiLocks
  BY <1>3 DEF UiLocks
<1>4. CASE PushJob \/ RemoveJob \/ Notify
  BY <1>4 DEF PushJob, RemoveJob, Notify
<1>5. CASE Quit
  BY <1>5 DEF Quit
<1>6. CASE WorkerLocks \/ WorkerStep \/ UNCHANGED vars
  BY <1>6 DEF WorkerLocks, WorkerStep, Top, CheckQuit, PopFront, Park, TimeOut, FinishJob, vars
<1> QED
  BY <1>1, <1>2, <1>3, <1>4, <1>5, <1>6 DEF Next, UiStep, User

LEMMA FifoStep == HandInv /\ HandInv' /\ [Next]_vars => [Fifo!Next]_(Fifo!vars)
<1> SUFFICES ASSUME HandInv, HandInv', [Next]_vars PROVE [Fifo!Next]_(Fifo!vars)
  OBVIOUS
<1> DEFINE shown == queued - (IF ui \in {"push", "pushing"} THEN 1 ELSE 0)
<1> USE DEF Fifo!Next, Fifo!vars
<1>n. ASSUME UNCHANGED <<pending, current, quit>>, shown' = shown,
             worker \in Waiting \cup {"working"}, worker' \in Waiting \cup {"working"},
             worker = "working" <=> worker' = "working"
      PROVE  UNCHANGED Fifo!vars
  BY <1>n DEF Waiting
<1>u. ASSUME UNCHANGED <<pending, current, quit, worker>>, shown' = shown
      PROVE  UNCHANGED Fifo!vars
  BY <1>u
<1>1. CASE AskPush
  <2>1. shown' = shown
    BY <1>1 DEF AskPush, HandInv
  <2> QED
    BY <1>1, <1>u, <2>1 DEF AskPush
<1>2. ASSUME NEW id \in 1..queued, AskRemove(id) PROVE UNCHANGED Fifo!vars
  BY <1>2, <1>u DEF AskRemove
<1>3. CASE UiLocks
  BY <1>3, <1>u DEF UiLocks
<1>4. CASE PushJob
  <2>1. ~quit /\ arg = queued /\ queued \in 1..MaxJobs /\ shown = queued - 1 /\ shown' = queued
    BY <1>4 DEF PushJob, HandInv, Pushes
  <2>2. pending' = Append(pending, shown + 1) /\ shown < MaxJobs /\ shown' = shown + 1
    BY <1>4, <2>1, QueueAssumption DEF PushJob, PushedBack
  <2>3. UNCHANGED <<worker, current, quit>>
    BY <1>4 DEF PushJob
  <2>4. Fifo!Enqueue
    BY <2>1, <2>2, <2>3 DEF Fifo!Enqueue
  <2> QED
    BY <2>4
<1>5. CASE RemoveJob
  <2>1. ~quit /\ arg \in 1..MaxJobs /\ shown' = shown
    BY <1>5, QueueAssumption DEF RemoveJob, HandInv, Removes
  <2>2. pending' = Fifo!Remove(pending, arg) /\ UNCHANGED <<worker, current, quit>>
    BY <1>5 DEF RemoveJob, Retained, Remove, Fifo!Remove
  <2>3. Fifo!Withdraw(arg)
    BY <2>1, <2>2 DEF Fifo!Withdraw
  <2> QED
    BY <2>1, <2>3
<1>6. CASE Notify
  <2>1. shown' = shown
    BY <1>6 DEF Notify
  <2> QED
    BY <1>6, <2>1 DEF Notify
<1>7. CASE Quit
  <2>1. ~quit /\ quit' = TRUE /\ shown' = shown
    BY <1>7 DEF Quit, HandInv
  <2>2. Fifo!Quit
    BY <1>7, <2>1 DEF Quit, Fifo!Quit
  <2> QED
    BY <2>2
<1>8. CASE WorkerLocks \/ Park \/ TimeOut
  BY <1>8, <1>n DEF WorkerLocks, Park, TimeOut, Waiting
<1>9. CASE (Top \/ CheckQuit) /\ ~quit
  BY <1>9, <1>n DEF Top, CheckQuit, SeesQuit, Waiting
<1>10. CASE (Top \/ CheckQuit) /\ quit
  <2>1. Fifo!Stop
    BY <1>10 DEF Top, CheckQuit, SeesQuit, Fifo!Stop
  <2> QED
    BY <2>1
<1>11. CASE PopFront
  <2>1. Fifo!Take
    BY <1>11 DEF PopFront, Fifo!Take
  <2> QED
    BY <2>1
<1>12. CASE FinishJob
  <2>1. Fifo!Finish
    BY <1>12 DEF FinishJob, SeesQuit, HandInv, Fifo!Finish
  <2> QED
    BY <2>1
<1>13. CASE UNCHANGED vars
  BY <1>13, <1>u DEF vars
<1> QED
  BY <1>1, <1>2, <1>3, <1>4, <1>5, <1>6, <1>7, <1>8, <1>9, <1>10, <1>11, <1>12, <1>13
     DEF Next, UiStep, User, WorkerStep

\* In every interleaving of the two threads over mutex and condition variable
\* jobs are taken in the order queued, unless withdrawn, none lost or doubled
\* (tui.rs:71-95).
THEOREM QueueIsFifo == Spec => FifoSafely
<1>1. Init => Fifo!Init
  <2> SUFFICES ASSUME Init PROVE Fifo!Init
    OBVIOUS
  <2>1. (worker = "working") = FALSE /\ (worker = "stopped") = FALSE
    BY DEF Init
  <2>2. queued - (IF ui \in {"push", "pushing"} THEN 1 ELSE 0) = 0
    <3> DEFINE waits == IF ui \in {"push", "pushing"} THEN 1 ELSE 0
    <3>1. queued = 0 /\ waits = 0
      BY DEF Init
    <3> HIDE DEF waits
    <3>2. queued - waits = 0
      BY <3>1
    <3> QED
      BY <3>2 DEF waits
  <2> QED
    BY <2>1, <2>2, Zenon DEF Init, Fifo!Init
<1> QED
  BY <1>1, HandInit, HandStep, FifoStep, PTL DEF Spec, FifoSafely

=============================================================================
