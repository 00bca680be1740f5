# A formal model of One Dev Army

TLA+ modules, TLC runs and TLAPS proofs about One Dev Army: a Go program in
which one orchestrator takes the tickets of a GitHub sprint, one after the
other, and lets its worker plan, code, review, push, check and merge them,
while a dashboard lets users act on the same tickets.

`PROJECT.json` lists components, runs, findings, hazards and theorems, and maps
each definition to the lines it models. Paths below are relative to `src/`.

## 1. The system

| Part | State | Operations | Interaction |
|---|---|---|---|
| Orchestrator (`internal/mvp/orchestrator.go`) | `currentTask`, `processing`, `paused`, `manualNext`, the worker's `decisionCh` | `Run`, `ChangeStage`, `HandleWorkerEvent`, `HandleSyncEvent`, `SendDecision`, `QueueManualProcess`, `RestartCurrentStage`, `ResetForRestart`, `Start`/`Pause`/`Stop` | one goroutine; called by dashboard handlers, the worker and the synchronisation |
| Worker (`internal/mvp/worker.go`) | the ticket it processes | `Process`: plan, implement, review, PR, CI, approval, merge | runs on the orchestrator's goroutine; reports events, waits for decisions |
| Steps and issue cache (`internal/db/db.go`) | `task_steps`, `issue_cache`, `stage_changes` | insert/finish/delete steps, save issues | all writes go through one writer goroutine with a bounded queue |
| GitHub (`internal/github/`) | labels, issues, PRs | `SetStageLabel`, `CreatePR`, `MergePR`, `CloseIssue`, lists | each method is one or more calls of `gh` |
| Branches (`internal/git/worktree.go`) | the working directory's HEAD, local and remote branches | create, push, remove, compare | one directory, used by worker and dashboard |
| Dashboard (`internal/dashboard/handlers.go`, `api_v2*.go`) | none of its own | approve, reject, retry, restart, block, unblock, process, decline, approve and merge, pause, YOLO, close sprint | concurrent HTTP handlers, each a sequence of GitHub, git and store calls |
| Synchronisation (`sync.go`) | the last list of issues | `doSync` | periodic; repairs stages, refreshes the cache |
| Hub (`websocket.go`) | `clients`, `closed`, a channel per client | register, unregister, broadcast, stop, two pumps per connection | one goroutine, four kinds of others |
| Supervisor (`webserver.go`), log streams (`logstream.go`), wizard sessions (`wizard.go`), rate limits (`ratelimit.go`) | a process, monitors, sessions, counters | start, stop, restart, expire | each has a goroutine of its own |
| Sprints (`api_v2.go`, `github/milestones.go`, `github/tags.go`, `cmd/sprint.go`, `internal/sprint/`) | milestones, tags; none of its own | close a sprint, release, clean up its branches | concurrent requests and a command beside the program |
| Configuration (`internal/config/`) | the current config | load, reload, propagate | one goroutine per propagated update |
| Legacy pool (`internal/worker/`, `internal/pipeline/`) | workers | `Run` with retries | started by `main.go` on an `EmptyQueue` |
| LLM routing, scheduler, plans, opencode client, set-up commands, SPA | little or none | sequential | see PROJECT.json |
| Lifecycle (`main.go`) | the context | fill the cache, start everything, shut down | cancels the orchestrator without waiting for it |

What is hard here: the handlers act on a ticket between any two steps of the
worker; a ticket's truth is spread over GitHub labels, the issue cache, step
rows, two branches and a PR, changed one at a time; the process can end between
any two of these changes and resume from what is left; decisions travel over a
buffered channel that does not name its ticket; failures of GitHub calls are
often logged and ignored; channels of the hub are closed by one goroutine and
sent to by others.

What makes each part correct:

- *orchestrator and worker*: nothing is merged without an approval of its own,
  or put up for approval without CI; steps are skipped only when their work is
  there; done means done; every ticket reaches an end and the worker is freed;
  an interrupted ticket is resumed.
- *dashboard operations*: what is refused changes nothing; a restart or retry
  leaves rows and branches in agreement; blocking lasts until unblocking.
- *synchronisation*: it repairs what failed calls left and undoes nothing newer.
- *hub*: no panic, no deadlock, a limit that holds, no leaked client.
- *store*: a write happens once, or the caller learns that it may have not.
- *supervisor, log streams, configuration, rate limits*: stop ends; one monitor at
  a time; what is logged comes once and none of it is passed over; everyone ends
  with what the file says, or GitHub.
- *wizard, sprints*: one issue from a session, with the title of its text; always a sprint to work on; a tag
  for each release; no work lost in a clean-up.

## 2. Modules

| Module | What it models |
|---|---|
| `Stages` | Stage labels, step order and the pure functions between them: `decideNextStage`, `stageToStepName`, the first step of a resumed ticket. No state. |
| `TicketPipeline` | The orchestrator goroutine with its worker, the dashboard's operations, the synchronisation, crashes, shutdowns and restarts. |
| `StageChange` | `ChangeStage` and `SetStageLabel` call by call, `doSync` call by call beside them, the timestamps of the issue cache, edits on GitHub, crashes. |
| `AtomicStore` | What the store promises: atomic writes, in each caller's order, at most once. |
| `StoreWriter` | `submitWrite`, the queue, the writer goroutine, `Close`, the tables written; it implements `AtomicStore`. `MCStore` gives its writes for TLC. |
| `Hub` | The WebSocket hub with its connections and callers. |
| `WebServer` | The supervisor of the opencode web interface: `Start`, `Stop`, the monitor, the mutex between them, the processes. |
| `LogStream` | The manager's goroutine that polls log files, the loggers that write them, the orchestrator that starts and stops it. |
| `Settings` | The configuration file, its watcher, the handlers that save it, the goroutines that carry it to its consumers. |
| `RateLimit` | The poll and the refreshes of the rate limits, both forms of the data, the colour shown. |
| `Wizard` | Wizard sessions and the requests that refine them and make issues from them. |
| `SprintClose` | The three ways to close a sprint, call by call, the synchronisation's active milestone, start-up. |
| `SprintCleanup` | The command that removes the branches of a finished sprint, beside the program that works on them. |
| `Services` | The seven modules above it, one of which runs in a behaviour: they share no state. |
| `TicketPipelineProofs`, `HubProofs`, `StoreProofs`, `StageProofs`, `WebServerProofs`, `CleanupProofs`, `WizardProofs`, `ServicesProofs` | Theorems about the module they extend. |

`TicketPipeline` and `StageChange` look at the same code from two distances:
the first takes a change of stage as one step, the second shows what lies
between its calls. The label a change leaves is one when no two changes of a
ticket overlap (`OneStage`), which is what the first assumes.

### TicketPipeline

The worker is a program counter `pc` over the places of `Worker.Process`
between which another goroutine or a crash can come. An LLM step has two
actions: `StartStep` inserts its row and `Finish...` records its outcome, so
that a crash during the step leaves an open row (`row`). The straight-line parts
of `Process` are tables (`StepAt`, `CodingNext`, `FixNext`, `PushNext`,
`ReviewNext`, `ReportAt`): a place and what follows it. `Report` is
`reportStageComplete` down to `ChangeStage`. Each dashboard operation is an
action with all of its calls, named after its handler; `Redo`, `Queue` and
`Judge` group those that start work again, that choose what is worked on, and
that answer a worker.

| Variable | Code |
|---|---|
| `pc`, `task`, `row`, `attempt`, `result` | `Process`: position, task, open step row, CI retries, returned error |
| `candidates` | the list of issues `Run` has read and is choosing from |
| `current`, `manual`, `paused`, `stopping` | fields of the orchestrator and its context |
| `decision` | `decisionCh`, capacity one |
| `yolo` | YOLO mode |
| `direct` | the issue of a `handleDirectMerge` in progress |
| `github`, `cache` | label and open/closed state on GitHub and in `issue_cache` |
| `last`, `kept` | latest completed row of `task_steps`, over all rows and over those `DeleteStepsFrom` leaves |
| `local`, `remote`, `pr`, `head`, `behind` | branches, PR, checked-out branch, and whether the local default branch lacks a merge |
| `approvals`, `mergeCalls`, `granted`, `ci`, `verdict`, `produced`, `earned` | observations: never read by an action's guard, only by properties |
| `faults`, `misses` | failing calls, and writes of step rows that failed; both count against `MaxFaults` |

`local` says what a ticket's branch is: `absent`; `empty`, which the local default
branch contains; `fresh`, which starts at a merge on origin that the local default
branch lacks; or with a `fix` or the `work` on it. `HasCommits` compares with the
local default branch, so that `fresh` looks as if it had commits and `empty` does
not, also when a merge came after the branch was made. The worker commits on
the branch that is checked out (`head`), whichever that is; `produced` says whether
what an implementation left is on the ticket's branch or went `astray`.

A failing call that ends what its caller does, or leaves a stage unchanged, is
counted by `faults`. Calls whose failure is only logged (fetch, commit, checkout of
the default branch, `branch -D`, `gh pr close`) may fail at any time, if the instance
says so (`LoggedMayFail`). A write of a step row that fails leaves no row
(`misses`). YOLO mode is looked at once, before the wait for a decision
(`AskApproval`, then `Decide`).

Abstractions: an issue has one stage label (the four GitHub calls behind
`SetStageLabel` are one step); the synchronisation of one issue reads and writes
in one step; a handler is one step, except the direct merge, which has two, so
that nothing comes between the calls of one handler; a git command is one step;
what an LLM, CI or a reviewer answers is nondeterministic; a change of YOLO mode
reaches the worker at once; `awaiting-approval/in_progress`, an event without
effect, is left out.

### StageChange

Each goroutine (a handler, a synchronisation) has a program counter `pc` over
the calls of `ChangeStage` and `doSync`, the issue it is about (`issue`, `to`),
the copy it read (`got`) or its list (`list`, `todo`). `github` and `cache` hold
an issue's stage labels, state and update time. `clock` counts seconds, which is
what GitHub gives as an update time (twice the clock), while the program saves its
own time with fractions (one more, `SavedTime`); an edit may come in the same second
as what was before it. `shown` is the stage a change saved last, until the issue is
edited or its cached copy cannot be read; `raced` marks issues that two edited at a
time or whose labels could not be removed, `hidden` those whose last edit looks
older than the cached copy: all three are read by properties only. One clock is
assumed for the program and GitHub. An issue's missing `stage:backlog` is not added: the list
says `OPEN` where `doSync` asks for `open`.

### StoreWriter

A caller is idle, puts its job into the queue, or waits for its answer; the
writer serves, drains the queue once the context is cancelled, or is gone.
A time-out may come at any moment of a wait. The statements act on step rows
(who inserted and who ended each) and on the update time of one cached issue,
which may be unreadable when a synchronisation's copy comes (`SaveUnread`).
`effect` records which jobs were executed, `late` those that entered the queue
after the writer had left.

### Hub

`run` says whether `Hub.Run` is at its select, in the send loop, or at its own
unregister channel. The hub's three channels have no buffer, so a value passes
in one step shared by sender and `Run`. A handler, a reader and a writer per
connection are separate goroutines; `conn` is the connection, which a stalled
peer keeps open without reading. A send on, or a second close of, a closed
channel sets `panic`, after which nothing happens: an unrecovered panic in any
of these goroutines ends the process. Messages are counted.

### The services

`WebServer`: a process serves, does not (it hangs, or has exited and nobody has
waited for it, which signal 0 does not notice), or is gone. `mu` is the mutex.
`LogStream`: a file is its text and its modification time, which need not move
between two writes. The text is pieces, what one write adds each: a line, a part of
one as the LLM streams it, the line that ends a step, or more than the scanner's
buffer holds; the status, duration and output of a step come after its end. A poll
is a listing, a check, a scan, and what is remembered of it.
`Settings`: a configuration is its YOLO mode and whether the settings the page
does not show are there; a file being written is empty for a while, and its
modification time need not move with each write.
`RateLimit`: what GitHub counts as used, and what each fetch brings or fails to.
`Wizard`: a text is the number of the LLM's answer; a request keeps its session
while the LLM or GitHub answers, even if the store drops it. The page shows the
title an issue would get (`GetFinalTitle`) and posts it with the request to create,
which makes it the session's custom title; GitHub may make an issue whose request
is told of an error (`CreateIssueLost`).
`SprintClose`: sprints are numbers, each call of GitHub may fail before or after
it took effect; tags and versions are kept.
`SprintCleanup`: a branch is the number of its commits, here, at origin, and in
the default branch. A removal that fails may have switched branches already.

## 3. Runs

Every bound is a constant named `Max...`. They bound what users and the
environment do (operations, edits, failing calls, crashes, writes, commits); the
loops of the code itself are bounded by the code (`MaxRetries`, `MaxRestarts`,
the queue), except rejections of a declined fix, which users drive.

| Run | Instance | Shows |
|---|---|---|
| `pipeline_board` | fair; two tickets, two approvals or declines, no failures | `TypeOK`; `ApprovalSpent`: an approval merges once; `SprintDrains`. Two tickets, because a decision can outlive its ticket. |
| `pipeline_operations` | one ticket, all operations and a shutdown, two of them, one fault or unwritten row, any failures that are only logged | `ReviewedBeforePR`, `SettledStartsOver`, `AlreadyDoneHasNoWork`, `DoneIsEarned`, `BlockedIsLeftAlone`. The interleavings that matter are one operation against the worker and one against another's leftovers. No crash: the first three do not survive one (see below, and section 4 for what is proved up to it); `DoneIsEarned` and `BlockedIsLeftAlone` are proved with any number of them. |
| `pipeline_progress` | fair; one ticket; two attempts of CI; an approval, decline, change of YOLO mode or block; one crash, one fault or unwritten row | `CICheckedOrDeclined`, for resumed tickets and a direct merge beside the worker too; `WorkerFreed`, with a failed check that is retried and one that is the last; `MergedBecomesDone`, `InterruptedIsResumed` |
| `stage_change` | fair; one issue, one handler, one synchronisation; one change, edit, failing call or read, and crash each, within two seconds | `ShownStays`: a list read before a change does not undo what it showed; `OneStage`; `CacheSettles`: cache and GitHub end up agreeing; `ClosedBecomesDone`. The synchronisation changes stages too, so that there are always two who may. |
| `store` | fair; two callers, three writes in all, a queue of one, one failing statement or read, `Close` | `TypeOK`, `RowsEndedByOwner`, `NothingAcceptedIsLost`, `KeepsPromise` (the refinement of `AtomicStore`), `CacheForward`, `CallsReturn`. A caller has a second write while its first, timed out, is still queued behind the other's. |
| `hub` | fair; two connections, limit one, channels of two, two broadcasts, a ping, a Stop | `TypeOK`, `ClosedOnce`, `StoppedIsEmpty`, `WithinLimit`, `OnlyStopOrPingPanics`, `GoneIsForgotten`. One connection over the limit reaches the rejection, two broadcasts and an answer fill a channel. |
| `services` | six services, one in each behaviour | `NoneLeftBehind` (`WebServer`), `TextOnce`, `StopIsFinal` (`LogStream`), `OneIssue`, `TitleFitsText` (`Wizard`), `ASprintIsOpen`, `ReleasedSprintHasTag` (`SprintClose`), `SeenWorkSurvives` (`SprintCleanup`) |
| `services_live` | fair; supervisor, settings, rate limits, closing a sprint | `IsReplaced`, `Settles`, `NumbersSettle`, `SyncFollows` |

The instances of `services` and `services_live`: four processes, of which three
hang, exit or do not start, and two restarts, so that the attempts run out; two
tickets worked on in turn with a file of up to three pieces each; two changes of
the settings, one request and two deliveries, so that an older delivery may come
last; one refresh beside the poll, and limits of four used below and above half;
two requests on two sessions, one failing call and two answers of the LLM; two
closings of a sprint among four sprints, one failing call and one stop; two
branches with up to two commits, one failing command and one clean-up (`services`)
against one branch (`services_live`, where the clean-up does not run).

`MaxRetries` is one in the other pipeline runs, where a failed check is the last:
what comes back from a retry of CI is the concern of `pipeline_progress`, and of
the theorems. A direct merge beside a worker that waits for approval of the same
ticket merges a ticket that then stays in Approve until its user answers;
`MergedBecomesDone` says so. Deadlock is not checked where a system may stop: hub,
store, services and `StageChange` may all come to an end with their bounds used up.

The `doc_...` runs each check one statement of a document or a comment, and TLC
refutes it; "findings" in PROJECT.json quotes the line.

| Run | The statement that fails |
|---|---|
| `doc_approval_per_ticket` | Only the approved ticket is merged. A decision nobody took answers the next ticket. |
| `doc_checks_before_merge` | Approval comes after all checks. The fix of a decline is not checked. |
| `doc_hub_slow_client` | A client with a full buffer is closed. `Run` blocks on itself. |
| `doc_web_stop` | `Stop` is graceful. It waits, holding the mutex, for a monitor that waits for the mutex. |

### What properties excuse

A property holds where the code protects it; where the code does not, the
property names the exception instead of leaving the behaviour out of the model:

- A crash between the removal of a failed ticket's branch and the record of the
  failure leaves steps for work that is gone; the ticket is then closed as
  already done. A crash also resumes after a review that rejected. So does a
  step row that could not be written or deleted. `ReviewedBeforePR`,
  `SettledStartsOver` and `AlreadyDoneHasNoWork` are about behaviours without
  either so far (`Undisturbed`).
- A direct merge, or a handler that removes a branch, checks out the default
  branch in the directory the worker works in. What the worker commits next is not
  on its ticket's branch, `createPR` may find no commits there, and the ticket is
  closed as already implemented. `AlreadyDoneHasNoWork` is about the code on the
  ticket's branch only (`produced`).
- A ticket in `stage:merging` is not resumed after a crash (`isWorkerStage` does
  not list it): `InterruptedIsResumed` is about the other stages.
- Restarting a stage deletes every row but planning's.
- Two changes of one ticket's stage that overlap can leave two labels (`raced`).
- An edit on GitHub in the very second in which a change of stage saved the cached
  copy looks older than the copy at every synchronisation, and is never adopted
  (`hidden`).
- A synchronisation saves the copy of an issue it has, however old, when the cached
  one cannot be read (`SaveUnread`, `SaveListedUnread`).
- A closed issue the worker is on is left alone by the synchronisation, for as
  long as the worker waits for a decision: `ClosedBecomesDone` excepts it.
- The issues of a sprint closed meanwhile are not synchronised any more (`sprint`
  in `StageChange`).
- A broadcast under way when `Stop` comes, and a ping answered after its client
  left, panic: `OnlyStopOrPingPanics` says that nothing else does.
- Two requests may work on one wizard session (`overlapped`). An issue GitHub made
  without its request hearing of it is made again (`unheard`). A title given to a
  request that failed stays, and wins over that of a later refinement
  (`retitled`).
- Two propagations of the configuration may arrive in either order, a toggle of
  YOLO mode changes what consumers have and not the file, and a request may
  propagate what the file no longer says (`excused`). A write in the same tick as
  the one the watcher has read is not noticed (`unread`). Saving while the file
  cannot be read replaces it by the defaults.
- A part of a log line that is read before the rest is written comes as a line of
  its own. A line longer than the scanner's buffer makes what precedes it come
  again. A write in the same tick as the one remembered waits for the next
  (`unseen`). What follows the end marker of a step is not sent.
- Commits made after the clean-up looked are lost with their branch; those it
  saw are not.

### Fairness

`TicketPipeline`: the orchestrator goroutine with its worker is one goroutine
that always goes on (`WF`). Calls of the LLM have time-outs; `gh` and `git` are run
without any, and the fairness assumes that they return. The
synchronisation is periodic (`WF` per issue). A handler that started a direct
merge finishes it, and a crashed process is started again. Users owe nothing,
and neither do their decisions: a worker that waits for approval may wait for
ever, which the liveness properties allow.

`StageChange`: a handler's or a synchronisation's goroutine goes on, and the
synchronisation's ticker ticks (`WF` each). Users, other people, failures and crashes
owe nothing, and neither does the worker, which may wait for a decision for ever.

`StoreWriter`: the writer goroutine goes on; a time-out that is waited for
expires, or the answer comes first (`WF`). That the queue accepts a job is not
assumed. Nobody owes a call or a `Close`.

`Hub`: every goroutine that can go on does; what is offered at one of the hub's
channels again and again while `Run` returns to its select is received (`SF`:
Go's select picks among ready cases at random). A failing read is `SF` as well,
since a reader may be kept busy by pings. Peers and callers owe nothing.

`Services` (`FairSpec`): `main` and the monitor of the supervisor go on, the
monitor sees a closed stop channel, the watcher's ticker ticks, each goroutine
that carries a configuration arrives, a request that has begun goes on, and so do
the tickers of the synchronisation and the rate limits (`WF` each); a fetch of the
limits has a time-out of ten seconds. Processes need not exit, nobody
need edit the file, and no request need be made.

## 4. Proofs

The theorems hold for every value of the constants that satisfies the named
assumptions of their module (`ConstantsAssumption`: a finite non-empty set of
issues, at least one retry, any operations and bounds; `HubAssumption`;
`StoreAssumption`, `IdleAssumption` and `WritesAssumption`), which TLC evaluates
in every run of a module that extends it. The theorems about services that count
something assume in their statement that its bound is a number.

- `TypeCorrect` (`TicketPipelineProofs`): `Spec => []TypeOK`. `TypeOK` is not
  inductive: at `ciRetry` the counter of failed checks is about to be increased,
  which keeps its bound only because the last failure goes to `ciExhausted`.
  `TypeInv` adds `AttemptsUsedUp` for that.
- `ApprovalsBoundMerges`: `ApprovalSpent`, a balance of
  approvals given, in the channel, in the worker's hand, and spent. It is
  inductive with `TypeInv`.
- `DoneAlwaysEarned`: `DoneIsEarned`. `EarnedInv` adds that a closed issue and
  a ticket just merged are earned; the tables show that only the event sent
  after a merge leads to `Done`.
- `NoApprovalWithoutCI`: `CICheckedOrDeclined`. `CheckedInv` extends it to every
  place after CI (`PastCI`) and adds that the check, approval and merge steps
  are never recorded: otherwise a resumed ticket could start past CI.
- `BlockedTicketsAreLeftAlone`: `BlockedIsLeftAlone`, an action property. Three
  lemmas say what each party's steps leave alone: the worker's are about the
  ticket it holds (`WorkerFrame`), a request is counted (`RequestFrame`), and
  every step belongs to one party (`Parties`). Then only the search and the
  synchronisation are left to look at. The theorems below use the same lemmas.
- `NothingLostIsSkipped`, `NoPRWithoutReview`, `NoCodeOfTheBranchIsDropped`:
  `SettledStartsOver`, `ReviewedBeforePR`, `AlreadyDoneHasNoWork`, each in the form
  `Spec => [](Undisturbed => ...)`. The hypothesis is about the state, not about
  the bounds: the properties hold in every behaviour until its first crash or
  unwritten row, in those that crash later too. `StepsForgotten` is the reason of the
  first: a ticket the worker does not hold has no row of a step after planning as
  its latest, so that `Process` starts at planning or implementing
  (`StartsAfresh`). `ReviewedInv` follows the verdict from the review to the PR.
  `BranchInv` follows the code: what an implementation committed on the ticket's
  branch is on it, or the branch is gone, until createPR looks (`CodeIsThere`),
  whatever is merged or checked out beside the worker.
- `WorkerAdvances`: the safety half of `WorkerFreed`. `Rank`, made of the attempts
  left, the place in `Process` (`PlaceRank`) and whether the step's row is open,
  is lowered by every step of the loop and the worker from taking a ticket up to
  letting go of it or waiting for a user, and raised by no other step. Hence at
  most 100 * `MaxRetries` + 83 such steps, for any number of retries. That the worker
  can take them, and does, is TLC's part.
- `HubTypeCorrect`, `NeverClosedTwice`, `EmptyOnceStopped`, `LimitHolds`,
  `BroadcastsAreSafe` (`HubProofs`). `HubInv` adds `RegisteredIsOpen`: registered
  channels are open, and so is the channel of a handler that waits to register,
  whose client is in no other goroutine's hands. For `BroadcastsAreSafe`,
  `SendInv` adds `SnapshotIsRegistered`: clients leave only at the select, never
  during the send loop, so that until Stop the loop's snapshot is registered and
  open.
- `StoreTypeCorrect`, `CloseLosesNothing`, `StoreImplementsAtomicStore`
  (`StoreProofs`). The last is the refinement `Spec => KeepsPromise`: each step
  is mapped to a step of `AtomicStore` or a stutter. `StoreInv` says that a
  caller's jobs are executed, with the writer and in the queue in the order of
  its calls, each in one of these places (`InOrder`); that all of them belong to
  calls that have handed them over (`OnlyHanded`), of which only the last has not
  returned (`OneCallAtATime`); and that an answer "ok" comes after the effect
  (`OkIsEffect`).
- `RowsStayTheirOwners` (`StoreProofs`): `RowsEndedByOwner`. `RowInv` says that
  every row number a caller is told, keeps or writes to is that of a row it
  inserted. `CacheGoesBackOnlyUnread`: `CacheForward`, a property of single steps
  once times are known to be numbers (`RowInv` too).
- `ShownChangesStay` (`StageProofs`): `ShownStays`. `ShownInv` says that nothing
  carries a time ahead of the clock, and that a cached copy a change saved is
  newer than each list and than GitHub's copy until the issue is edited: then
  the guard on the timestamps refuses the older list.
- `OneStageAtATime` (`StageProofs`): `OneStage`. `OneInv` follows the one change
  of an issue nobody else edits through its calls: what it read is what is
  there until it removes it, and no label is there when it adds its own.
- `NoProcessLeftBehind` (`WebServerProofs`): `NoneLeftBehind`. `WebInv` says
  who holds the mutex at each place of `main` and the monitor, and where every
  process started has gone.
- `SeenWorkIsKept` (`CleanupProofs`): `SeenWorkSurvives`. A branch the command
  goes on with was merged when it looked, and the default branch only grows.
- `SessionBecomesOneIssue`, `IssueIsOfOneText` (`WizardProofs`): `OneIssue`,
  `TitleFitsText`. `WizardInv` says of a session held by one request at a time
  that an issue its request heard of keeps it held until it cannot be found any
  more, and that text and title differ only between the setters of one request, or
  after a title was given.
- `NoneIsLeftBehind`, `SeenWorkStays`, `OneIssueOfASession`, `TitlesFitTexts`
  (`ServicesProofs`): the four theorems before, for `Services`, whose properties the
  run checks. A step of `Services` is a step of a service or leaves its variables
  alone, so that `Services` implements each service and has what is proved of it.
- `NothingAfterStop` (`ServicesProofs`): `StopIsFinal`. Outside of a monitoring
  there is no goroutine that could read (`SilentInv`).
- `GreenMeansNoneHalfUsed` (`ServicesProofs`): for any numbers and any limit, the
  limit the board shows (`GetWorstLimit`) is green exactly if none is used by more than
  half. It is what `NumbersSettle` says of the colour in one instance.
- `NoTextIsPassedOver` (`ServicesProofs`): `TextOnce`. `LogInv` says that between polls
  the position kept for a file is that of what was broadcast, and that a file with
  text not broadcast yet has another modification time than the ones the monitor
  remembers, unless that text came within the tick of the last one, so that the
  next poll reads it.
- `SprintStaysOpen`, `ReleasesAreTagged` (`ServicesProofs`): `ASprintIsOpen`,
  `ReleasedSprintHasTag`. `CloseInv` adds that a request about to close its sprint
  has a tag for it, which no other request can take away.

Only model-checked: the liveness properties `SprintDrains`, `WorkerFreed`,
`MergedBecomesDone`, `InterruptedIsResumed`, `CacheSettles`, `ClosedBecomesDone`,
`CallsReturn`, `GoneIsForgotten`, `IsReplaced`, `Settles`, `NumbersSettle` and `SyncFollows`, since
fairness and ENABLED are out of the prover's reach. Every safety property of the
passing runs is proved.

## 5. Not modelled

PROJECT.json gives the reason per component. In short:

- *Time*: the 30 s ticker against the immediate-search wakeup. The orchestrator's
  loop searches again without timing; what is lost is at most a tick.
- *The working tree*: HEAD and index, which the worker and the dashboard's
  handlers share. `TicketPipeline` keeps one checked-out branch; commits and
  checkouts of two goroutines within one git command are beyond its runs.
- *The opencode client*: HTTP and an event stream of one caller at a time. The
  model takes each answer of the LLM as nondeterministic.
- *The legacy pool*: `main.go` starts it on an `EmptyQueue`, whose `NextTask`
  never returns a task. Its step logger is used, and is in `LogStream`.
- *LLM routing, scheduler, plan proposals, plans*: sequential code over texts
  and tables, without state between calls. The router's configuration is in
  `Settings`.
- *Rendering, prompts, one-shot commands, set-up, the SPA*: no state that another
  part races with.

What remains worth adding: an abstract life of a ticket that `TicketPipeline`
implements, and numbers like `Rank` for the other liveness properties.
