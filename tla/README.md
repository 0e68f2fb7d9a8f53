# A TLA+ development of megadl-rs

megadl-rs downloads public mega.nz links: `megadl`, a one-shot command line
program, and `megadl-tui`, a download manager in the terminal. This directory
models the parts of it whose correctness depends on the order of things, checks
the models with TLC and proves the most important results with TLAPS. Paths
below are those of the repository (`download.rs` is `src/download.rs` there,
`src/src/download.rs` in `PROJECT.json`).

## The system

| Component | State it keeps | Operations | Talks to |
| --- | --- | --- | --- |
| File download (`download.rs`) | the partial `.megatmp.<handle>`, the target, `pos`, the running MAC, `tries`, a deadline | `sync_file`, `fetch_file`, `fetch_range`, `wait_or_cancel` | HTTP for ranges, MAC, `get_url`, a `cancel` closure, a `Sink` for events |
| Chunked MAC (`crypto.rs`) | position, open chunk, boundary, meta-MAC | `new`, `update`, `finish` | called by the download |
| Keys and attributes (`crypto.rs`) | none | unpack, ECB, CBC, base64, `ctr_at` | folder, resolve, download |
| HTTP client (`http.rs`) | per response: framing, what remains of body and chunk | `post`, `read_headers`, `read_body` | API client, download |
| API client (`api.rs`) | request counter; per call a delay, per attempt a hashcash | `call`, `post`, `decode_api_response` | HTTP, resolve, folder |
| Links (`link.rs`) | none | `parse_link` | resolve |
| Folder tree (`folder.rs`) | nodes, root, index by handle | `open_folder`, `files_under`, `download_url` | API client |
| Resolve and plan (`lib.rs`) | the resolved link | `resolve`, `listing`, `plan` | CLI, TUI |
| Picker (`picker.rs`) | ticks, cursor | `pick` | keys from the CLI's or the TUI's reader |
| Terminal (`term.rs`) | termios | raw mode, `read_key` | stdin |
| TUI job queue (`bin/tui.rs`) | pending jobs under a mutex, a condition variable | `push`, `remove`, `pop` | UI thread and worker |
| TUI (`bin/tui.rs`) | items, cursor, mode, deferred events; channel; quit flag | event loop, dialogs, `pull_key`, `apply`, `worker_loop` | everything above |
| CLI (`bin/cli.rs`) | a cancel flag set by SIGINT | `main`, `run_one` | everything above |

What is hard about them, and what makes each correct:

* **File download.** It can be killed at any instant, meets servers that close
  early, send too much or send garbage, and must resume from whatever is on the
  disk. Correct: the target is the remote file or absent; no received byte is
  lost; a good download is never rejected; a run ends; a cancel takes hold; no
  leftover blocks later runs for ever.
* **Chunked MAC.** Reads cut the data anywhere, and differently on a resume.
  Correct: the result depends only on the bytes.
* **HTTP reader.** Three framings, and a connection may end anywhere. Correct:
  the caller gets a prefix of the payload, and a chunked body does not end early
  unnoticed (but for one case, below).
* **API client.** A retry loop around a challenge loop. Correct: bounded, one
  id per attempt, no error taken for a result.
* **Job queue and TUI.** Three threads, one channel, one mutex, and a modal
  picker that takes the channel over. Correct: no lost or reordered event, no
  lost job, no starvation, a list that tells the truth.
* **Folder tree, picker and plan.** The server's node list may be cyclic,
  incomplete or full of equal names, and the picker and the plan read it through
  sorted paths. Correct: the tree is what the parents say, a box acts on a
  subtree, and exactly the chosen files are planned, each at a path of its own.
* **CLI.** Loops over links and files that a signal may end anywhere, beside other
  processes at the same files. Correct: nothing damaged, a status that tells the
  truth, a Ctrl-C or a `q` that is heard.

`PROJECT.json` lists every hazard at its line, with the properties that cover
it, or why none does yet.

## The modules

### Download

One target path, and runs of `sync_file` over it, one after another, by any
number of users' commands. The state is the disk (`partial`, `local`, and in
`unsynced` what has not reached stable storage), the place in the code (`pc`)
with the locals that matter, and two history variables that only properties
read.

| `pc` | in the code |
| --- | --- |
| `idle` | no `sync_file` is running |
| `resolve` | line 102, `get_url` |
| `open` | lines 104-139, open the partial and feed it to the MAC |
| `loop` | the head of the loop at 145, and of what follows it at 178 |
| `poll`, `read` | the read loop of `fetch_range`: line 256 and line 259 |
| `retry`, `wait` | lines 155-170 and `wait_or_cancel` |
| `sync`, `rename` | lines 185 and 187 |

A read is of one unit; unit *k* of the remote file has content *k*, any other
content is 0. The cipher is positional: a unit decrypts to itself only under the
key stream of its own position, so a key stream, file cursor or range that is
off by one shows up as a wrong unit. The MAC is what it was fed, which assumes
that different contents have different MACs; `ChunkedMac` models how it is
computed. The server may refuse, stall, close early, corrupt a unit or send more
than was asked for. `Kill` ends the process and keeps the page cache;
`PowerLoss` may shorten or garble what was not synced and undo a rename that was
not. An expired URL is refused. `UserRemovesPartial` is the remedy the code's own
message names for a partial larger than the file. Left out: the callbacks to the
sink, the wording of errors and the durations of waits; `Cli` has other processes
over the same partial.

### Delivery

What `sync_file` promises whoever calls it, without partials, ranges, retries and
resumes: the target is absent or whole, becomes whole in one step, is taken back
by a power loss only until it is durable, and each answer is true when given.
`Download` implements it (`ImplementsDelivery`), with `target` for what stands at
`local_path`, `durable` for what no power loss can undo, `busy` for any `pc` but
`idle`, and `answer` for the last run's outcome.

### ChunkedMac

`update` byte by byte and block by block as its loop does, with every size of
call, then `finish`. A byte is its offset; a 16-byte value is the list of what was
encrypted so far and, per byte, the set of file bytes XORed in since, so
encryption is injective and XOR cancels. The reference (`MetaMac`) is the
definition in the comments of `crypto.rs`: chunk sizes that grow and then stay, a
zero-padded CBC-MAC for each. It is a closed form, where a chunk begins and what
its blocks hold, and shares no definition with the loop it is the measure of.

### JobQueue and FifoQueue

`JobQueue` has the mutex, the condition variable with its timeout and spurious
wake-ups, `notify_one` that is lost when nobody waits, and the quit flag read
outside the mutex; one action per critical section, and inside `pop` one per test.
`FifoQueue` is what the two threads should see. `JobQueue` implements it, with
`pending` for the queue; a job is queued there at `push_back` and no longer counted
while the UI still waits for the mutex.

### Tui

The UI thread (loop, dialogs, the picker and the resolve that block inside
them), the worker and the stdin reader, over one FIFO channel. The queue is the
abstract one. A key is named when it is consumed, because what it does depends on
the mode then. The worker reports as `TuiSink` does: started, throttled absolute
progress (the first report of a file is not throttled), verifying, finished or
failed; after a quit its sends fail. Left out: drawing, notes, names, rates, text
buffers. A folder has no directories here; any number of its files can be ticked.

### HttpBody

One reply, written on the wire as a sequence of tokens (a line, or a unit of
body) and cut after any of them or within any line; `read_headers` and
`read_body` read it with reads of every size up to the buffer's. The text of
lines is left out. At the end of the connection `read_line` returns the part of
a line that came, and the code parses it as if it were whole. `end = "torn"` is a
connection closed within a line, and the `Cut...` actions say what its part may be
taken for: a status, a framing header, a shorter length or none, and, of a size
padded with zeros, the size 0. A part of any other size only fails later
(`ChunkedCut`), one of any other line means nothing. What a correct reply is (`Plain`, `Chunked`) is an
assumption on the constant `Replies`, stated token by token: each size line says
what follows it, and has, as history that the reader never looks at, how much of
the payload went before. `MCHttpBody` builds the replies TLC reads, and TLC
evaluates the assumption on each of them.

### Api

One client, calls one after another. `post`'s rounds, `call`'s loop and
`decode_api_response` by the shape of the reply. Delays are counted in 250 ms;
the give-up limit of 256 s is 1024 of them. `waited` adds up the delays slept in
the call, for `BoundedPatience`.

### Folder

`open_folder` from the raw list to the sorted nodes. `Fail` and `FindRoot` are
lines 44-107, `PushChild` and `NextNode` the loop at 109-120, one child at a time,
`Finish` the sort and the renumbering. A handle is a node's place in the list, so
a server that gives one handle to two nodes is left out. Decryption is whether a
node is readable and under which share keys; a node's own share key becomes known
when it is met, so a folder after its children does not help them. A path is a
sequence of characters of which only the order relative to the slash counts:
that is what the sort and the prefix test of `files_under` see. A sort is a set put
in order (`InOrder`): the places of a list by the keys of what stands there, and by
the places themselves where keys are equal, because `sort_by` is stable. The
reference is the tree that the parents make: `Above` and `Below` quantify over the
sets of nodes that no step up leaves, so they say what climbing meets without
climbing, and have a value in a cyclic list too. `Ends` is where a climb is over:
the renumbering (line 149) clears a parent that was not reached.

### Selection

`Folder` with what comes next: `picker::pick` over the rows of `listing`, or
handles given otherwise (`--files`, the plain prompt, a choice the TUI made on an
earlier listing), then `plan` with its deduplication, sort, pruning and expansion.
A ticked box is a row in `ticked`. Handle 0 is any handle that is unknown by now.
Local paths are `RelToRoot`. `Named` are the nodes that some handle names,
`Topmost` what `prune_children` leaves of them, `JobsOf` the loop of `plan` over the
chosen nodes and the rows of each, skipping what was added before.

`Orderly` is the premise of what is said of the rows and the jobs: only folders hold
nodes, no two siblings have one name, and the root is not in the subtree below it.
A server that keeps to its own format sends such lists; what happens in others is
told below.

### KeyReader and Cli

`KeyReader` is `read_key`: what is left of an escape sequence (`reading`) and the
key that a byte completes. `Cli` is `main`, `run_one` and `choose_files` of any
number of processes in one directory, over `partial` and `target`, the files under
the two names of each job. What an open file descriptor leads to after another
process has renamed or removed the name is in `fd`: still the partial, the target,
or a file without a name.

| `pc` | in the code |
| --- | --- |
| `link`, `linkend` | the loop of `main`, `cli.rs:99-107` |
| `pick` | `choose_files` and `picker::pick`, waiting for a byte |
| `job`, `check` | the loop of `run_one`, `cli.rs:141-149` |
| `open`, `fetch`, `rename` | `fetch_file`, `download.rs:102-189` |
| `after` | `sync_file` has returned, `cli.rs:143` |

A fetch is one unit at a time, right or (once in a behaviour) wrong, or a
failure: `Download` has its inside, `Selection` the plan, of which `Commands` gives
only the files. `asked`, `late` and `unheard` are history for the properties.

## What the runs show

| Run | Bounds | Result |
| --- | --- | --- |
| `download` | 3 units, ranges of 2, back-off cap 2, 1 unit over-sent; 14740 states | `Integrity`, `InStep`, `NoFalseAlarm`, `CancelTakesHold`, `ProgressKept`, `ImplementsDelivery`, `Termination`, `CancelStops`, `EventualDelivery` hold |
| `download_reresolve` | same | `RetryReResolves` is violated |
| `chunked_mac` | blocks of 3, chunks of 6 and 12, 34 bytes; 665 states | `BoundaryAhead`, `SplitIndependent` hold |
| `job_queue` | 3 jobs; 686 states | `LockHeldInside`, `AtMostOneLateJob`, `UiGetsLock`, `ImplementsFifoQueue` hold |
| `tui` | 2 jobs, folders of 2 files, 1 key and 2 events in the channel; 166742 states | `TypeOK`, `StatusCoherent`, `PendingIsListed`, `BarAdvances`, `JobsAreTaken`, `DoneIsShown` hold |
| `tui_choice` | 1 job | `OnlyChosenFiles` is violated |
| `http_body` | up to 3 chunks of up to 3 units, a buffer of 2, four kinds of header, with and without a trailer, sizes padded or not; 295431 states | `OnlyPayload`, `ChunkedEndIsWhole`, `WholeReplyIsRead`, `ReadingEnds` hold |
| `api_call` | the real limits, 2 calls; 15491 states | `BoundedPatience`, `AnswersTheChallenge`, `CallReturns` hold |
| `api_retries` | a smaller limit | `RetriesWhatItSays` is violated |
| `selection` | every tree shape of 4 nodes, names of 1 and 2 characters, unreadable nodes, up to 2 handles; 1310424 states | `EachNodeOnce`, `WholeSubtree`, `ClimbsEnd`, `JobsAreSelection`, `OnePlacePerFile`, `ToggleIsLocal` hold |
| `selection_names` | same | `FilesUnderIsSubtree` is violated |
| `cli` | 2 processes, 2 files of 2 units and 1, 2 links for the one, a picker for the other; 903850 states | `SharedIntegrity`, `ZeroMeansAll`, `OvertakenMeansDelivered`, `AtMostOneMore`, `QuitIsHeard`, `ProcessExits` hold |

Why the bounds are enough. *Download*: two ranges, the second shorter, a partial at
every length, a back-off that reaches its cap, and a partial longer than the
file; the proofs below remove the bounds for safety. *ChunkedMac*: a block size
that divides a chunk but not the calls, chunks of both kinds of growth, two chunks
past its end, and files that end on and off every boundary. *JobQueue*: three
jobs, so that one can go from the middle. *Tui*: two items, so that an event, a
removal or a cursor can hit the wrong one, two files in an item, so that progress
has a base, and several events waiting when the picker closes. The real channel
is unbounded; a worker that waits for room in it only postpones its own steps.
*HttpBody*: reads end before, at and after a chunk's end, a Content-Length stands
before or after the chunked header or alone, and every reply is cut after every
token and within every line. *Api*: both calls run
the whole doubling. *Selection*: four nodes are a root, a folder, something in it and
something beside it, with every other parent they could have; the name `x.` sorts
before the slash that follows `x`, which is the case that sorting and prefixes can
get wrong; two handles can be equal, one above the other, or unknown. *Cli*: both
processes work on a file of two units, so that one can open, write, rename or
remove between any two steps of the other, and a second file and link show what
a cancel or an error stops. The second link is empty, since with files in it the
run is too long: that a cancel between two links with files keeps the second from
starting is in the proof (`CtrlCStopsTheLoops`), for any links, and not in the run.
Three is where sharing breaks, see below.

The type invariants of `Download`, `ChunkedMac` and `Api`, `TruthfulReport` and
`AttemptsAreDistinct` are not in a run: they are proved, for all bounds.

Every property of a passing run has a mutant in `PROJECT.json`: a definition of
the model changed as a plausible slip in the code would change it, under which
TLC finds the property violated. Those definitions stand in the modules just
before the ones they replace and nothing else uses them.

### Fairness

* *Download*: `RunSpec` lets a running thread go on (each blocking call has a
  timeout). That the clock advances (`Time`), and that a user asks again and follows
  the advice about an oversized partial (`User`), are premises of the properties
  that need them; `CancelStops` needs neither. The removal is strongly fair: the
  user may do it between two runs only, and without it, or with weak fairness alone,
  TLC finds the runs that refuse the partial again and again. Of the server
  `Termination` assumes only that a body ends (`OverSend` bounds the excess): the
  read loop never compares `pos` with the end of the range, so a body without an
  end holds the run until a cancel. `EventualDelivery` has the good behaviour of
  server and disk as a premise; that `Open` refuses an over-long leftover is not
  excluded by it (`Errs /\ ~Open`).
* *JobQueue*: the threads run, and a thread that waits for a mutex which is free
  again and again gets it: strong fairness, needed since the worker comes back to
  it every 200 ms. A job ends, as `Termination` shows.
* *Tui*: UI thread and worker run; nobody has to press a key. So the picker may
  stay open for ever, and `DoneIsShown` excludes just that. A resolve ends, as
  `CallReturns` shows.
* *HttpBody*, *Api*: one thread that runs; nobody has to call again.
* *Cli*: each process runs (`Run`), whatever its fetches meet; nobody has to type,
  send a signal or start it again. A fetch that ends is what `Termination` shows.
* *Selection*: only safety, so none.

### Where the code and its documentation part

1. **An empty selection is everything** (`tui_choice`). `n` and Enter in the
   TUI's picker queue the whole folder. `picker.rs:29` says the picker returns the
   chosen handles, and the CLI rejects an empty answer with "nothing selected"
   (`cli.rs:175`); the TUI has the same message (`tui.rs:232`) but shows it only
   for a link without files.
2. **Retries do not re-resolve** (`download_reresolve`). `download.rs:28` says
   `get_url` "Resolves (or re-resolves, on retry) the transfer URL and size";
   `fetch_file` calls it once, before its retry loop.
3. **Two transient failures are not retried** (`api_retries`): an EAGAIN in the
   array form, and a connection dropped within a reply's body, although
   `api.rs:61` says of `call` that it retries EAGAIN and dropped connections. Only
   a connection dropped before the headers, or in a chunked body, is retried (and
   not quite always then, see below).

4. **Files of a namesake** (`selection_names`). `folder.rs:234` promises "Every file
   in n's subtree"; `files_under` finds them by path. A file and a folder, or two
   folders, of one name side by side have the same path, so asking for the one
   plans the files of the other too; and files whose whole paths are equal have one
   local path, of which the second job is skipped as existing. Names can be equal
   because the server says so or because `sanitize_name` turns `/` into `_`.
   `NamesDiffer` is a premise of the properties of `selection` for that reason, and
   where it holds the comment is right: `SubtreeIsFoundByPath` proves it.

More that no document speaks of, so no run is built on them. A connection closed
within a line leaves a part that is parsed like a line (`http.rs:316`,
`http.rs:188`). If a server pads its chunk sizes with zeros (`000a`) and the
connection is closed when only zeros of one have come, `read_body` takes it for
the last chunk and the body ends early without an error, as a body with a
Content-Length always does. `ChunkedEndIsWhole` excepts exactly this
(`CutInPaddedSize`). `fetch_range` finds its range short and retries; `call` gets
a short answer, which does not parse. `d` on a row that
still shows as queued, whose job the worker has just popped, removes the row and
not the job, which downloads unseen. And a failure of `get_url` is of the kind
"worth another attempt" (`download.rs:81`) but never gets one, because it happens
before the loop.

`prune_children` (`lib.rs:197`) climbs until a node has no parent. When the first
node of a list cannot be read and the link is not deep, the next readable one is
the root and keeps the parent the list gives it: if that is a node below it, a
selected handle is climbed from for ever. `ClimbsEnd` holds in all other cases,
`RootOnTop` excludes this one, and `Plan` is not enabled in it.

Two processes share partials safely as long as no unit is corrupted, which is
proved. They need not both succeed: one whose verified partial has been renamed
under it fails with "No such file", ends its link there and exits with 1, although
the file is in place (`OvertakenMeansDelivered`). With a third process, or after a
corrupted unit, `SharedIntegrity` fails in the model: a process that has verified
its file renames by name what is by then the new, incomplete partial of another,
or a file that the other has written a wrong unit to.

Ctrl-C typed into the picker is a byte, not a signal: that link ends as
"cancelled" and the next one begins.

## What is proved

TLAPS checks the proofs for all values of the constants that satisfy the named
assumptions: `DownloadAssumption` (natural sizes, a positive range and cap, and a
`NoFile` that is no content), `MacAssumption` (positive sizes, a chunk a multiple of
the block), `QueueAssumption`, `TuiAssumption` and `SelectionAssumption` (natural
bounds, folders of two files or more), `ApiAssumption` (positive limits),
`HttpAssumption` (correct replies, a buffer of at least one unit), `FolderAssumption`
(lists of raw nodes) and `CliAssumption` (links with files of positive sizes for
every process). Every safety invariant and every action property of a passing run
is stated by one of the theorems.

`DownloadProofs`: `TypeCorrect`, `IntegrityHolds`, `InStepHolds`,
`NoFalseAlarmHolds`, `TruthfulReportHolds`, `CancelTakesHoldAlways` and
`ProgressIsKept`. None of the invariants is inductive alone. The strengthening
`Safe` adds to `InStep` that the range asked for lies in the file, that from
`Verify` on the partial is the remote file and unchanged (`Verified`), that it is
synced before the rename (`SyncedFirst`), that a delivered file can only lose its
directory entry and never its content (`DeliveredSafely`), and that an untainted
partial is a prefix of the remote file, followed at most by what no honest server
sends (`CleanPrefix`). `Integrity` follows from it: MAC check, sync and rename are
each linked to the next by one conjunct, and dropping any of them breaks the step of
`PowerLoss` or of `Rename`. `TruthfulReportHolds` says in one invariant what the
refinement below says step by step: success and skip are reported only of the whole
file. `ProgressIsKept` is an action property and needs `InStep`, because a write
keeps what was there only if the cursor is at the end. `DownloadDelivers` is the
refinement of `Delivery`: initial states map to initial states and each action to a
step or a stutter, `Rename` to `Deliver` by `Safe`, and `PowerLoss` to `LosePower`
by `DeliveredSafely`.

`ChunkedMacProofs`: `BoundaryAlwaysAhead`, that neither branch of `update` can step
over a boundary, with the chunk-size arithmetic as lemmas, and `MacIsTheReference`,
that `finish` returns the reference MAC of what was fed. Its invariant `MacInv` says
what the running state stands for at every byte (`SoFar`): each closed chunk's MAC is
the reference's, and the open one holds so many full blocks encrypted and a part of
one XORed in. The induction over the data is the induction over the steps, which is
why no recursive definition is needed. Both branches of `update` and the closing of a
chunk keep it; the growth of chunks enters by the closed form of `ChunkStart`.

`JobQueueProofs`: `LockIsHeldInside` and `LateJobs`, for any number of jobs and
time-outs. `LockInv` only adds the places a thread may be at. `LateInv` adds what a
late job implies: quit is set and the worker is still at that job or has stopped, so
that the next look at the flag ends it. `QueueIsFifo` is the safety half of
`ImplementsFifoQueue`: initial states map to initial states and each step to a step
of `FifoQueue` or a stutter. It needs `HandInv`: only a UI thread that has not quit
pushes or removes, and the id in its hand is the last one given out, or one that was.

`TuiProofs`: `TuiTyped`, `ListCatchesUp`, `PendingAlwaysListed` and `BarsAdvance`, of
the whole program for any bounds and sizes, from one invariant, `IInv`. `Numbered`:
ids are given in order, rows and queued jobs keep that order, and whatever the
worker has said or ended is of a job before all that are queued, so no event on its
way is about a job to come. `Measured`: the worker's figures lie within the files.
`Listing` says of each row, together with the events that still wait for it in
`deferred` and the channel, that they end at the worker's true state and that the
figures along them only rise; a key leaves that sequence as it is, however the
picker and the loop divide it. What an event list does to a row is the fold
`StatusOnce`; the lemmas take it apart at its last and at its first event, and an
induction over the length of the list is a least counterexample.

`HttpBodyProofs`: `PayloadOnly`, `ChunkedEndsWhole` and `WholeReplies`, for every set
of correct replies, cut anywhere; `ChunkedEndsWhole` with the exception of padded
sizes. `IInv` says where in the reply the reader stands,
by what it has given: at unit `Len(body)` of a plain body, or in a chunk of which it
has given what `remainingInChunk` lacks (`InBody`); in the trailer and at the end the
payload is complete, or a padded size line was cut. After a cut header line nothing
is left to read (`CutInHead`), whatever it was taken for. What is known of the framing while headers are still coming is
`KindSoFar`, by which a Content-Length before or after the chunked header makes no
difference.

`ApiProofs`: `AttemptsAlwaysDistinct` and `ChallengesAreAnswered`, for every retry
and round limit, `ApiTyped`, which bounds the delay, and `PatienceIsBounded`. `IdInv`
keeps the counter ahead of every id given out, the current one included;
`AnswersTheChallenge` is inductive as it stands. `PatienceInv` is that delays double,
so a call has waited its next delay less the first.

`FolderProofs` is about `Folder` and `Selection`, for every list a server may send.

* The walk. `NodesOnlyOnce`: `WalkInv` says of each node of the walk's list that it
  was added below an earlier one, and if below the current one, not after the last
  that was added: a repetition would have two places in that order. `NoChildLeftOut`
  adds the converse, that behind the walk's place no child is missing.
* The tree. `TreeInv` adds that climbing from each reached node leads to the root and
  that its path begins with the root's. `InOrderSorts` and `SortedReorders` are what a
  sort does: it has every place once, and the smaller first. From these
  `OpenedIsSubtree`, with the root first however names sort, and
  `ClimbsComeToAnEnd`.
* Paths. `PathInv` keeps for each node of the walk the earlier one its path goes on
  from. By least counterexamples in the order of the walk, paths with their closing
  slash begin one another exactly where the nodes are above one another, and differ
  (`BeginsAbove`, `AboveBegins`, `PathsDiffer`; together `PathsTell`), given
  `Orderly`. `SubtreeIsFoundByPath` follows.
* Rows. `TogglesAreLocal` is the action property `ToggleIsLocal`. A folder's sort key
  begins the keys of what is below it and no others (`KeysTell`); what lies between
  two keys that begin with it does too (`LexBetween`), so the subtree is a run of
  rows; and the first row behind the run has its parent above the folder, so it is no
  deeper and ends the run (`NextIsNoDeeper`).
* Jobs. `SelectionIsPlanned` and `PlacesDiffer`, from `SelInv`, which adds to `PathInv`
  what the picker and the handles have left. A named node that is pruned is below one
  that is not (`TopmostCover`, the least in the order of the walk), and each chosen
  node's files are found by path. Places differ because paths do, and a job is a file
  and so above no other.

`CliProofs`: `CtrlCStopsTheLoops` and `PickerHearsTheUser`, for any number of
processes, from the invariant `Sound` of one process: a process that has begun a
file after its cancel is at none of the places from which the loops begin another,
and one `q` is unheard only while one byte of a sequence is left. `TwoShareSafely`
is `SharedIntegrity` for at most two processes, any links, files and sizes. Its
invariant `Working` says of a process at a file that what it has read or written
is in the partial, or that it was overtaken: then the target is whole, the partial
is gone, and nobody else is at that file to make another. Two processes are needed
for exactly that last conjunct, in the step `Rename`. `ZeroIsTruthful` and
`OvertakenIsDelivered` have the same premise, from `DoneInv`: `Truthful` says of a
process whose status is still 0 that what it has planned is whole or yet to come in
its loop, and of one that found its partial gone that the file is whole.

Only model-checked: all liveness (TLAPS does not reason about fairness here), which
is `Termination`, `CancelStops`, `EventualDelivery`, `UiGetsLock`, `JobsAreTaken`,
`DoneIsShown`, `ReadingEnds`, `CallReturns`, `ProcessExits` and the liveness half of
JobQueue's refinement.

## Not modelled, and why

Attribute and key decryption, base64, link parsing and URL splitting are pure
conversions without state: what depends on their outcome (a node that cannot be
read, a name made safe, a deep link's handle, a resolve that fails) is an input of
the models. TLS, connecting, raw mode, rendering, argument parsing, packaging and
the release workflow are I/O, text or build. The search for a hashcash is one pure
loop. The plan of a single file has no choices; that one `--path` naming a file may
serve two links, the second of which is then skipped, is noted in `PROJECT.json`.

The components are composed by what they promise: `Tui` runs over the queue that
`JobQueue` implements, `Cli` over fetches that end and files that are whole when
delivered, as `Download` and `Delivery` have it, `Download` over bodies that
may end early unnoticed, as `HttpBody` has them. A product of all of them is out
of TLC's reach.

## Plan

In the order of what mattered most; all done.

1. `Download`, its runs and proofs.
2. `ChunkedMac`, its runs and the boundary proof.
3. `JobQueue` over `FifoQueue`, then `Tui` over the abstract queue.
4. `HttpBody` and `Api`.
5. `Delivery`, implemented by `Download`, model-checked and proved.
6. `Folder` and `Selection`: the tree, the picker and the plan in one run.
7. `KeyReader` and `Cli`, with several processes over one partial.
8. Proofs about `Folder` and `Cli`.
9. Proofs about `Tui`, `HttpBody`, `Api` and `ChunkedMac`, and of the rest of
   `Folder`, `Selection` and `Cli`.

Left to whoever takes it further: the hazards that `PROJECT.json` lists without a
property, and a proof of what `Cli` promises with three processes once
`fetch_file` keeps another process from its partial, which today it does not.
