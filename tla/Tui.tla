--------------------------------- MODULE Tui ---------------------------------
(***************************************************************************)
(* The terminal download manager (src/src/bin/tui.rs): the UI thread's     *)
(* event loop, its modal dialogs and the picker it runs inside them, the   *)
(* worker thread, the stdin reader, the one channel both feed and the      *)
(* queue between UI and worker (atomic here: JobQueue implements it).      *)
(*                                                                         *)
(* A key is named when it is consumed: what it does depends on the mode    *)
(* then, so the channel only carries that there is one.  A link is the     *)
(* number of its files, a choice the number of those ticked.  Notes,       *)
(* names, rates, text buffers and drawing are left out.                    *)
(***************************************************************************)
EXTENDS Naturals, Sequences, SequencesExt, FiniteSetsExt

CONSTANTS
  MaxJobs,   \* bound: links the user adds
  MaxKeys,   \* bound: keys waiting in the channel
  MaxEvents, \* bound: worker's events waiting in the channel
  Folder,    \* files in a folder link that has any to choose from
  FileSize   \* units in a file

ASSUME TuiAssumption ==
  /\ MaxJobs \in Nat /\ FileSize \in Nat \ {0}
  /\ MaxKeys \in Nat \ {0} /\ MaxEvents \in Nat \ {0}
  /\ Folder \in Nat /\ Folder > 1

VARIABLES
  items,     \* the list on the screen, oldest first
  cursor,    \* index into items, from 0
  mode,      \* Mode, plus the picker and the wait for resolve inside AskDest
  deferred,  \* worker events set aside while the picker has the keyboard
  nextId,    \* next_id
  chan,      \* the mpsc channel
  queue,     \* Queue.pending
  quit,      \* the AtomicBool
  w,         \* the worker: where it is, its job, files left, completed, pos
  result     \* history: how the worker ended each job

ui   == <<items, cursor, mode, deferred, nextId>>
vars == <<ui, chan, queue, quit, w, result>>

Ids    == 1..MaxJobs
NoJob  == [id |-> 0, files |-> 0, selected |-> 0, wanted |-> 0]
IsKey(e)  == e.type = "Key"
Key       == [type |-> "Key", id |-> 0, done |-> 0]
Event(t, d) == [type |-> t, id |-> w.job.id, done |-> d]

Init ==
  /\ items = <<>> /\ cursor = 0 /\ mode = "List"
  /\ deferred = <<>> /\ nextId = 1
  /\ chan = <<>> /\ queue = <<>> /\ quit = FALSE
  /\ w = [pc |-> "pop", job |-> NoJob, left |-> 0, base |-> 0, pos |-> 0]
  /\ result = [id \in Ids |-> "none"]

-----------------------------------------------------------------------------
(* apply                                                                   *)

\* The status an event gives its item; only a Progress one has figures.
ShownAs == [Started |-> "Active", Progress |-> "Active", Verifying |-> "Verifying",
            Finished |-> "Done", Failed |-> "Error"]
StatusAfter(e) == [kind |-> ShownAs[e.type], done |-> e.done]

\* find: the place of an item in the list, or 0.
Find(list, id) == SelectInSeq(list, LAMBDA i : i.id = id)

Apply(list, e) ==
  LET at == Find(list, e.id) IN
  IF at = 0 THEN list ELSE [list EXCEPT ![at].status = StatusAfter(e)]

\* The list once all the worker's events in s have been applied, in order:
\* each sets the whole of a status, so an item's last one decides.
Due(id, s) == {k \in DOMAIN s : ~IsKey(s[k]) /\ s[k].id = id}
StatusOnce(id, status, s) ==
  IF Due(id, s) = {} THEN status ELSE StatusAfter(s[Max(Due(id, s))])
ApplyReversed(list, s) ==
  [i \in DOMAIN list |->
    IF Due(list[i].id, s) = {} THEN list[i]
    ELSE [list[i] EXCEPT !.status = StatusAfter(s[Min(Due(list[i].id, s))])]]
ApplyFirst(list, s) == IF s = <<>> THEN list ELSE Apply(list, Head(s))
ApplyAll(list, s) ==
  [i \in DOMAIN list |-> [list[i] EXCEPT !.status = StatusOnce(list[i].id, @, s)]]

-----------------------------------------------------------------------------
(* The UI thread.                                                          *)
UiRuns == ~quit /\ mode # "Resolving"

\* The head of the main loop: what pull_key set aside, before anything newer.
Drain ==
  /\ UiRuns /\ mode # "Picker" /\ deferred # <<>>
  /\ items' = ApplyAll(items, deferred) /\ deferred' = <<>>
  /\ UNCHANGED <<cursor, mode, nextId, chan, queue, quit, w, result>>

\* rx.recv_timeout returns a worker's event.
ReceiveEvent ==
  /\ UiRuns /\ mode # "Picker" /\ deferred = <<>>
  /\ chan # <<>> /\ ~IsKey(Head(chan))
  /\ items' = Apply(items, Head(chan)) /\ chan' = Tail(chan)
  /\ UNCHANGED <<cursor, mode, deferred, nextId, queue, quit, w, result>>

\* ... or, in mode md, a key.
KeyIn(md) ==
  /\ UiRuns /\ mode = md
  /\ deferred = <<>> \/ md = "Picker"
  /\ chan # <<>> /\ IsKey(Head(chan)) /\ chan' = Tail(chan)

Ignored(md) ==
  /\ KeyIn(md)
  /\ UNCHANGED <<ui, queue, quit, w, result>>

GoTo(md) == mode' = md /\ UNCHANGED <<deferred, nextId>>

DismissMessage ==
  /\ KeyIn("Message")
  /\ GoTo("List")
  /\ UNCHANGED <<items, cursor, queue, quit, w, result>>

\* The two text dialogs: Esc, Enter, and Enter on an empty URL.  Characters
\* and Backspace only edit the buffer.
LeaveText ==
  /\ \/ KeyIn("AskUrl")  /\ GoTo("List")
     \/ KeyIn("AskUrl")  /\ GoTo("AskDest")
     \/ KeyIn("AskDest") /\ GoTo("List")
     \/ KeyIn("AskDest") /\ GoTo("Resolving")
  /\ UNCHANGED <<items, cursor, queue, quit, w, result>>

\* resolve, in the UI thread: an error, or a link to `files`.
ResolveFails ==
  /\ ~quit /\ mode = "Resolving"
  /\ GoTo("Message")
  /\ UNCHANGED <<items, cursor, chan, queue, quit, w, result>>

\* The tail of AskDest: sel is how many handles to ask for, wanted (history)
\* how many files the user meant.  No files at all is "nothing selected".
Add(files, sel, wanted) ==
  IF sel = 0 /\ files = 0
  THEN GoTo("Message") /\ UNCHANGED <<items, cursor, queue>>
  ELSE /\ items' = Append(items, [id |-> nextId, status |-> [kind |-> "Queued", done |-> 0]])
       /\ queue' = Append(queue, [id |-> nextId, files |-> files,
                                  selected |-> sel, wanted |-> wanted])
       /\ cursor' = Len(items)
       /\ nextId' = nextId + 1 /\ mode' = "List"
       /\ UNCHANGED deferred

\* A single file, or a folder with at most one: nothing to choose.
ResolvedSimple ==
  /\ ~quit /\ mode = "Resolving" /\ nextId <= MaxJobs
  /\ \E files \in {0, 1} : Add(files, 0, files)
  /\ UNCHANGED <<chan, quit, w, result>>

ResolvedFolder ==
  /\ ~quit /\ mode = "Resolving" /\ nextId <= MaxJobs
  /\ GoTo("Picker")
  /\ UNCHANGED <<items, cursor, chan, queue, quit, w, result>>

\* pull_key sets a worker's event aside.
Defer ==
  /\ UiRuns /\ mode = "Picker" /\ chan # <<>> /\ ~IsKey(Head(chan))
  /\ deferred' = Append(deferred, Head(chan)) /\ chan' = Tail(chan)
  /\ UNCHANGED <<items, cursor, mode, nextId, queue, quit, w, result>>

\* Enter, with any of the files ticked: Space, 'a' and 'n' reach every choice.
PickerEnter ==
  /\ KeyIn("Picker")
  /\ \E ticked \in 0..Folder : Add(Folder, ticked, ticked)
  /\ UNCHANGED <<quit, w, result>>

PickerCancel ==
  /\ KeyIn("Picker")
  /\ GoTo("List")
  /\ UNCHANGED <<items, cursor, queue, quit, w, result>>

OpenAdd ==
  /\ KeyIn("List")
  /\ GoTo("AskUrl")
  /\ UNCHANGED <<items, cursor, queue, quit, w, result>>

Move ==
  /\ KeyIn("List")
  /\ cursor' \in {IF cursor > 0 THEN cursor - 1 ELSE 0,
                  IF cursor + 1 < Len(items) THEN cursor + 1 ELSE cursor}
  /\ UNCHANGED <<items, mode, deferred, nextId, queue, quit, w, result>>

\* 'd': the cursor after the removal, with n items left.
CursorKept(c, n) == c
CursorAfter(c, n) == IF c > 0 /\ c >= n THEN c - 1 ELSE c

\* Queue::remove; ids are unique.
Without(jobs, id) == IF Find(jobs, id) = 0 THEN jobs ELSE RemoveAt(jobs, Find(jobs, id))

\* The job to withdraw: the id is read before the item goes.
IdAfterRemoval(list, i) == IF i < Len(list) THEN list[i + 1].id ELSE 0
IdAt(list, i) == list[i].id

RemoveItem ==
  /\ KeyIn("List") /\ cursor < Len(items)
  /\ items[cursor + 1].status.kind \notin {"Active", "Verifying"}
  /\ items' = RemoveAt(items, cursor + 1)
  /\ queue' = Without(queue, IdAt(items, cursor + 1))
  /\ cursor' = CursorAfter(cursor, Len(items) - 1)
  /\ UNCHANGED <<mode, deferred, nextId, quit, w, result>>

\* 'q' or Ctrl-C: main stores the flag and returns, which drops its list and
\* its end of the channel; the worker goes on until the process has ended.
Quit ==
  /\ UiRuns /\ mode = "List" /\ deferred = <<>>
  /\ chan # <<>> /\ IsKey(Head(chan))
  /\ quit' = TRUE /\ chan' = <<>> /\ items' = <<>> /\ cursor' = 0
  /\ UNCHANGED <<mode, deferred, nextId, queue, w, result>>

-----------------------------------------------------------------------------
(* The worker thread.                                                      *)
\* tx.send: never blocks (MaxEvents is the model's), fails once rx is gone.
Send(e) ==
  IF quit THEN UNCHANGED chan
          ELSE /\ Len(SelectSeq(chan, LAMBDA x : ~IsKey(x))) < MaxEvents
               /\ chan' = Append(chan, e)
MaySend(e) == Send(e) \/ UNCHANGED chan   \* progress is throttled
At(l)      == w.pc = l /\ UNCHANGED <<ui, quit>>

\* Back to the head of worker_loop, however the job ended.
StopsAtFailure(r) == IF quit \/ r = "failed" THEN "stopped" ELSE "pop"
AfterJob(r)       == IF quit THEN "stopped" ELSE "pop"

EndJob(r) ==
  /\ w' = [pc |-> AfterJob(r), job |-> NoJob, left |-> 0, base |-> 0, pos |-> 0]
  /\ result' = [result EXCEPT ![w.job.id] = r]
  /\ UNCHANGED queue

Pop ==
  /\ At("pop") /\ queue # <<>>
  /\ w' = [w EXCEPT !.pc = "resolve", !.job = Head(queue)] /\ queue' = Tail(queue)
  /\ UNCHANGED <<chan, result>>

WorkerQuits ==
  /\ At("pop") /\ quit
  /\ w' = [w EXCEPT !.pc = "stopped"]
  /\ UNCHANGED <<chan, queue, result>>

WorkerResolves ==
  /\ At("resolve")
  /\ w' = [w EXCEPT !.pc = "plan"] /\ Send(Event("Started", 0))
  /\ UNCHANGED <<queue, result>>

\* resolve or plan fails, or a file does.
JobFails ==
  /\ At(w.pc) /\ w.pc \in {"resolve", "plan", "file", "fetch", "verify"}
  /\ w.pc = "file" => w.left > 0
  /\ Send(Event("Failed", 0)) /\ EndJob("failed")

\* Resolved::plan: an empty selection is every file.
Planned(job) == IF job.selected = 0 THEN job.files ELSE job.selected

Plan ==
  /\ At("plan")
  /\ w' = [w EXCEPT !.pc = "file", !.left = Planned(w.job)]
  /\ UNCHANGED <<chan, queue, result>>

FileSkipped ==
  /\ At("file") /\ w.left > 0
  /\ w' = [w EXCEPT !.left = @ - 1, !.base = @ + FileSize]
  /\ UNCHANGED <<chan, queue, result>>

\* What a file's progress is added to: the item's completed files.
BaseOfFile == 0
BaseOfItem == w.base

\* The first report of a file, at what its partial holds, is not throttled.
FileStarts ==
  /\ At("file") /\ w.left > 0
  /\ \E from \in 0..FileSize :
       /\ w' = [w EXCEPT !.pc = "fetch", !.pos = from]
       /\ Send(Event("Progress", BaseOfItem + from))
  /\ UNCHANGED <<queue, result>>

Fetch ==
  /\ At("fetch") /\ w.pos < FileSize
  /\ w' = [w EXCEPT !.pos = @ + 1]
  /\ MaySend(Event("Progress", BaseOfItem + w.pos + 1))
  /\ UNCHANGED <<queue, result>>

FetchCancelled ==
  /\ At("fetch") /\ quit
  /\ EndJob("cancelled") /\ UNCHANGED chan

Verify ==
  /\ At("fetch") /\ w.pos = FileSize
  /\ w' = [w EXCEPT !.pc = "verify"] /\ Send(Event("Verifying", 0))
  /\ UNCHANGED <<queue, result>>

FileDone ==
  /\ At("verify")
  /\ w' = [w EXCEPT !.pc = "file", !.left = @ - 1, !.base = @ + FileSize, !.pos = 0]
  /\ UNCHANGED <<chan, queue, result>>

JobDone ==
  /\ At("file") /\ w.left = 0
  /\ Send(Event("Finished", 0)) /\ EndJob("ok")

-----------------------------------------------------------------------------
\* The one stdin reader.
PressKey ==
  /\ Len(SelectSeq(chan, IsKey)) < MaxKeys /\ ~quit
  /\ chan' = Append(chan, Key)
  /\ UNCHANGED <<ui, queue, quit, w, result>>

UiKey ==
  \/ DismissMessage \/ LeaveText \/ PickerEnter \/ PickerCancel
  \/ OpenAdd \/ Move \/ RemoveItem \/ Quit
  \/ \E md \in {"List", "Picker", "AskUrl", "AskDest"} : Ignored(md)
UiOwn  == Drain \/ ReceiveEvent \/ Defer \/ ResolveFails \/ ResolvedSimple \/ ResolvedFolder
Worker ==
  \/ Pop \/ WorkerQuits \/ WorkerResolves \/ JobFails \/ Plan \/ FileSkipped
  \/ FileStarts \/ Fetch \/ FetchCancelled \/ Verify \/ FileDone \/ JobDone

Next == UiKey \/ UiOwn \/ Worker \/ PressKey

\* Both threads run; nobody has to press a key.
Spec == Init /\ [][Next]_vars /\ WF_vars(UiOwn \/ UiKey) /\ WF_vars(Worker)

-----------------------------------------------------------------------------
(* Properties                                                              *)

Kinds == {"Queued", "Active", "Verifying", "Done", "Error"}
Total == FileSize * Folder

\* What an item's status may be while the worker is at it, by where it is.
AtWork == [resolve |-> {"Queued"}, plan |-> {"Active"}, file |-> {"Active", "Verifying"},
           fetch |-> {"Active"}, verify |-> {"Verifying"}]

Events ==
  [type : {"Progress"}, id : Ids, done : 0..Total] \cup
  [type : DOMAIN ShownAs \ {"Progress"}, id : Ids, done : {0}]
Jobs   == [id : Ids, files : 0..Folder, selected : 0..Folder, wanted : 0..Folder]

\* Types, among them the cursor, which List and 'd' must keep on a row.
TypeOK ==
  /\ items \in Seq([id : Ids, status : [kind : Kinds, done : 0..Total]])
  /\ cursor \in IF items = <<>> THEN {0} ELSE 0..(Len(items) - 1)
  /\ mode \in {"List", "Message", "AskUrl", "AskDest", "Resolving", "Picker"}
  /\ nextId \in 1..(MaxJobs + 1) /\ quit \in BOOLEAN
  /\ deferred \in Seq(Events) /\ chan \in Seq(Events \cup {Key}) /\ queue \in Seq(Jobs)
  /\ w \in [pc : DOMAIN AtWork \cup {"pop", "stopped"}, job : Jobs \cup {NoJob},
            left : 0..Folder, base : 0..Total, pos : 0..FileSize]
  /\ result \in [Ids -> {"none", "ok", "failed", "cancelled"}]

\* The worker's events that have not been applied, oldest first, and what
\* the list will say of an item once they are.
Waiting == deferred \o chan
CaughtUp(item) == StatusOnce(item.id, item.status, Waiting)

\* The statuses that go with where the queue and the worker have an item.
Truth(id) ==
  IF result[id] # "none" THEN IF result[id] = "ok" THEN {"Done"} ELSE {"Error"}
  ELSE IF w.job.id = id  THEN AtWork[w.pc]
  ELSE {"Queued"}

\* However events were split between the loop and the picker, which sets
\* them aside, the list catches up with the worker's true state: no event
\* is lost, applied twice or out of order (tui.rs:154-156, 288-296).
StatusCoherent ==
  \A item \in ToSet(items) :
    /\ CaughtUp(item).kind \in Truth(item.id)
    /\ CaughtUp(item).kind = "Active" => CaughtUp(item).done <= w.base + w.pos

\* What is still to be downloaded is on the screen, and each item once: 'd'
\* withdraws the job of the row it removes and of no other.
PendingIsListed ==
  /\ ~quit => ToSet([i \in DOMAIN queue |-> queue[i].id])
                \subseteq ToSet([i \in DOMAIN items |-> items[i].id])
  /\ IsInjective([i \in DOMAIN items |-> items[i].id])

\* The figures of an item never fall, from the one shown through those in s.
Reports(id, s) == {k \in Due(id, s) : s[k].type = "Progress"}
Advances(id, status, s) ==
  \A k \in Reports(id, s) :
    /\ status.kind = "Active" => status.done <= s[k].done
    /\ \A j \in Reports(id, s) : j < k => s[j].done <= s[k].done

\* "one bar that advances to the end": an item's bar never moves back, over
\* all its files, those resumed and those skipped included (tui.rs:393-409).
BarAdvances ==
  \A item \in ToSet(items) : Advances(item.id, item.status, Waiting)

\* The files an item downloads are those its picker had ticked (picker.rs:27).
\* They are not when none was: an empty list asks plan for the whole folder.
OnlyChosenFiles == w.pc = "file" => Planned(w.job) = w.job.wanted

Pending(id) == \E i \in DOMAIN queue : queue[i].id = id
Listed(id) == Find(items, id) # 0
Shows(id, kind) == Listed(id) /\ items[Find(items, id)].status.kind = kind

\* Every job queued is taken up, however the ones before it ended and whatever
\* dialog the UI sits in, unless it is withdrawn or the program is left.
JobsAreTaken == \A id \in Ids : Pending(id) ~> (~Pending(id) \/ quit)

\* What the worker finished, the list comes to show as done, provided the
\* user does not stay in the picker for ever.
DoneIsShown ==
  []<>(mode # "Picker") =>
    \A id \in Ids : result[id] = "ok" ~> (Shows(id, "Done") \/ ~Listed(id))

=============================================================================
