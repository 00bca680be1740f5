--------------------------- MODULE TicketPipeline ---------------------------
(***************************************************************************)
(* The core of One Dev Army: one orchestrator goroutine that picks a       *)
(* ticket and runs it through its single worker, the dashboard's handlers  *)
(* that act on tickets at the same time, the GitHub synchronisation, and   *)
(* the crashes and restarts in between.                                    *)
(*                                                                         *)
(* What is kept per ticket: its stage label and open/closed state on       *)
(* GitHub and in the local issue cache, the part of its task_steps rows    *)
(* that GetLastCompletedStep and DeleteStepsFrom can tell apart, its local *)
(* and remote branch and its pull request.  A worker is a program counter  *)
(* `pc` over the points of Worker.Process between which another goroutine  *)
(* or a crash can come.                                                    *)
(***************************************************************************)
EXTENDS Stages, FiniteSets

CONSTANTS
    Issue,          \* issue numbers of the active sprint
    None,           \* "no issue"
    MaxRetries,     \* pipeline.max_retries
    AutoStart,      \* sprint.auto_start
    UserOps,        \* dashboard and GitHub operations this instance performs
    MaxOps,         \* bound: operations performed by users
    MaxCrashes,     \* bound: crashes and shutdowns
    MaxFaults,      \* bound: failing GitHub calls, checkouts and pushes, and
                    \* failing writes of task_steps rows
    LoggedMayFail   \* whether calls whose failure is only logged may fail in this
                    \* instance: git fetch, commit, checkout of the default branch
                    \* and branch -D, and gh pr close

Ops == {"approve", "reject", "retry", "restartStage", "restartFull", "block",
        "unblock", "process", "decline", "approveMerge", "toggle", "yolo",
        "close", "reopen", "shutdown"}

ASSUME ConstantsAssumption ==
    /\ Issue \subseteq Nat \ {0} /\ Issue # {} /\ IsFiniteSet(Issue)
    /\ None \notin Issue
    /\ MaxRetries \in Nat \ {0}
    /\ AutoStart \in BOOLEAN
    /\ UserOps \subseteq Ops
    /\ MaxOps \in Nat /\ MaxCrashes \in Nat /\ MaxFaults \in Nat
    /\ LoggedMayFail \in BOOLEAN

VARIABLES
    pc,          \* where the orchestrator goroutine (and its worker) is
    task,        \* the issue that goroutine holds, None while searching
    candidates,  \* the issues it read from the cache and is choosing among
    row,         \* the task_steps row of the step the worker is in
    attempt,     \* failed CI checks since Process reached check-pipeline
    result,      \* how Process ended
    current,     \* o.currentTask: what SendDecision, sync and restart look at
    decision,    \* worker.decisionCh, a channel of capacity one
    manual,      \* o.manualNext
    paused,      \* o.paused
    stopping,    \* ctx canceled and Stop() called
    yolo,        \* YoloMode as propagated to the worker
    direct,      \* the issue whose handleDirectMerge is under way
    github,      \* stage label and state of each issue on GitHub
    cache,       \* the same in the issue_cache table
    last,        \* name of the latest completed row of task_steps
    kept,        \* the same over the rows DeleteStepsFrom leaves alone
    local,       \* the ticket's branch in the local repository
    remote,      \* the ticket's branch on origin
    pr,          \* the ticket's pull request
    head,        \* branch checked out in the one working directory
    behind,      \* the local default branch lacks a merged pull request
    \* observations, never read by the system
    approvals,   \* approvals given to the worker: by SendDecision or YOLO
    mergeCalls,  \* MergePR calls of the worker
    granted,     \* issues a user or YOLO mode approved
    ci,          \* what CI said, in this run of Process, of the pushed branch;
                 \* "declined": nothing yet of the fix of a user's decline
    verdict,     \* verdict of the AI review of the code as it is now
    produced,    \* what the ticket's latest implement step left: code committed on
                 \* its branch, code gone astray (committed elsewhere, because
                 \* the default branch was checked out, or nowhere), or nothing
    earned,      \* issues merged, found already done, or closed by a user
    \* bounds
    ops, crashes, faults, misses

workerVars == <<pc, task, candidates, row, attempt, result>>
orchVars   == <<current, decision, manual, paused, stopping, yolo, direct>>
labelVars  == <<github, cache, faults>>
stepVars   == <<last, kept, misses>>
gitVars    == <<local, remote, pr, head, behind>>
ghostVars  == <<approvals, mergeCalls, granted, ci, verdict, produced, earned>>
boundVars  == <<ops, crashes>>
vars == <<workerVars, orchVars, labelVars, stepVars, gitVars, ghostVars, boundVars>>

-----------------------------------------------------------------------------
(* Tables of the worker's program: one line per place in Process.          *)

\* LLM steps: the task_steps name a place records, and where it leads.
StepAt == [planning      |-> "technical-planning",
           implement     |-> "implement",
           codeReview    |-> "code-review",
           fixReview     |-> "fix-from-review",
           reReview      |-> "code-review",
           fixPipeline   |-> "implement",
           fixDecline    |-> "fix-from-review",
           declineReview |-> "code-review",
           fixReReview   |-> "fix-from-review"]

CodingNext == [implement |-> "implemented", fixPipeline |-> "pushPipelineFix"]
FixNext    == [fixReview   |-> "pushReviewFix",
               fixDecline  |-> "pushDeclineFix",
               fixReReview |-> "pushReReviewFix"]
PushNext   == [pushReviewFix   |-> "reReview",
               pushPipelineFix |-> "checkPipeline",
               pushDeclineFix  |-> "declineFixed",
               pushReReviewFix |-> "declineReviewed"]

\* Faulty: after a decline the approved fix is merged without asking again.
ReviewNextUnasked ==
    [codeReview    |-> [approved |-> "reviewed", rejected |-> "rejected"],
     reReview      |-> [approved |-> "reviewed", rejected |-> "fail"],
     declineReview |-> [approved |-> "approved", rejected |-> "reRejected"]]

\* Faulty: the verdict of the review after the fixes is not looked at.
ReviewNextLenient ==
    [codeReview    |-> [approved |-> "reviewed", rejected |-> "rejected"],
     reReview      |-> [approved |-> "reviewed", rejected |-> "reviewed"],
     declineReview |-> [approved |-> "declineReviewed", rejected |-> "reRejected"]]

ReviewNext == [codeReview    |-> [approved |-> "reviewed", rejected |-> "rejected"],
               reReview      |-> [approved |-> "reviewed", rejected |-> "fail"],
               declineReview |-> [approved |-> "declineReviewed", rejected |-> "reRejected"]]

Event(stage, status, next) == [stage |-> stage, status |-> status, next |-> next]

\* reportStageComplete calls: the event each place sends, and what follows.
\* The awaiting-approval/in_progress report is left out: it changes nothing.
ReportAt ==
    [planned         |-> Event("analysis", "success", "implement"),
     implemented     |-> Event("coding", "success", "codeReview"),
     rejected        |-> Event("coding", "in_progress", "fixReview"),
     reviewed        |-> Event("code-review", "success", "createPR"),
     prCreated       |-> Event("create-pr", "success", "checkPipeline"),
     ciRetry         |-> Event("check-pipeline", "failed", "ciCoding"),
     ciCoding        |-> Event("coding", "in_progress", "fixPipeline"),
     ciExhausted     |-> Event("check-pipeline", "failed", "fail"),
     ciPassed        |-> Event("check-pipeline", "success", "await"),
     approved        |-> Event("awaiting-approval", "success", "merge"),
     merged          |-> Event("merge", "success", "finished"),
     declined        |-> Event("coding", "in_progress", "declineNoted"),
     declineNoted    |-> Event("awaiting-approval", "failed", "fixDecline"),
     declineFixed    |-> Event("coding", "success", "declineReview"),
     reRejected      |-> Event("coding", "in_progress", "fixReReview"),
     declineReviewed |-> Event("code-review", "success", "await")]

\* Faulty: a resumed ticket that has its PR waits for approval at once.
StartAtSkippingCI(n) ==
    CASE n = 0 -> "planning"
      [] n = 1 -> "implement"
      [] n = 2 -> "codeReview"
      [] n = 3 -> "createPR"
      [] OTHER -> "await"

\* Where Process starts once the first n steps are known to be completed.
StartAt(n) ==
    CASE n = 0 -> "planning"
      [] n = 1 -> "implement"
      [] n = 2 -> "codeReview"
      [] n = 3 -> "createPR"
      [] n = 4 -> "checkPipeline"
      [] OTHER -> "await"

Working   == DOMAIN StepAt \cup DOMAIN PushNext \cup DOMAIN ReportAt
                \cup {"createPR", "checkPipeline", "await", "waiting", "merge",
                     "fail", "finished"}
Places    == Working \cup {"search", "pick", "begin", "returned", "settle", "down"}

-----------------------------------------------------------------------------
(* Types.                                                                  *)

View        == [label : AllStages \cup {NoStage}, open : BOOLEAN]
StepMarks   == {"none", "other"} \cup StepNames
KeptMarks   == {"none", "other", "technical-planning"}
\* Without commits of its own a branch is "fresh" if it starts at a merge the
\* local default branch lacks, else "empty".
BranchState == {"absent", "empty", "fresh", "fix", "work"}
PRState     == {"none", "open", "merged", "closed"}

WorkerTypeOK ==
    /\ pc \in Places /\ candidates \subseteq Issue
    /\ task \in IF pc \in {"search", "pick", "down"} THEN {None} ELSE Issue
    /\ row \in {"none", "open", "superseded", "deleted"}
    /\ attempt \in 0..MaxRetries
    /\ result \in {"none", "done", "failed", "already-done", "no-commits"}

OrchTypeOK ==
    /\ current \in Issue \cup {None} /\ manual \in Issue \cup {None}
    /\ direct \in Issue \cup {None}
    /\ decision \in {"none", "approve", "decline"}
    /\ paused \in BOOLEAN /\ stopping \in BOOLEAN /\ yolo \in BOOLEAN

LabelTypeOK ==
    /\ github \in [Issue -> View] /\ cache \in [Issue -> View]
    /\ faults \in 0..MaxFaults

StepTypeOK ==
    /\ last \in [Issue -> StepMarks] /\ kept \in [Issue -> KeptMarks]
    /\ misses \in 0..MaxFaults

GitTypeOK ==
    /\ local \in [Issue -> BranchState] /\ remote \in [Issue -> BranchState]
    /\ pr \in [Issue -> PRState]
    /\ head \in Issue \cup {None} /\ behind \in BOOLEAN

GhostTypeOK ==
    /\ approvals \in Nat /\ mergeCalls \in Nat
    /\ granted \subseteq Issue /\ ci \in [Issue -> {"unchecked", "green", "declined"}]
    /\ verdict \in [Issue -> {"none", "approved", "rejected"}]
    /\ produced \in [Issue -> {"nothing", "branch", "astray"}] /\ earned \subseteq Issue

BoundTypeOK == ops \in 0..MaxOps /\ crashes \in 0..MaxCrashes

\* Every variable keeps its type; for `attempt` that the retries of CI are
\* bounded, for `task` that the goroutine holds one exactly while it works.
TypeOK ==
    /\ WorkerTypeOK /\ OrchTypeOK /\ LabelTypeOK /\ StepTypeOK
    /\ GitTypeOK /\ GhostTypeOK /\ BoundTypeOK

Init ==
    /\ pc = "search" /\ task = None /\ candidates = {}
    /\ row = "none" /\ attempt = 0 /\ result = "none"
    /\ current = None /\ decision = "none" /\ manual = None
    /\ paused = ~AutoStart /\ stopping = FALSE /\ yolo = FALSE /\ direct = None
    /\ github = [i \in Issue |-> [label |-> NoStage, open |-> TRUE]]
    /\ cache = github
    /\ last = [i \in Issue |-> "none"] /\ kept = [i \in Issue |-> "none"]
    /\ local = [i \in Issue |-> "absent"] /\ remote = [i \in Issue |-> "absent"]
    /\ pr = [i \in Issue |-> "none"] /\ head = None /\ behind = FALSE
    /\ approvals = 0 /\ mergeCalls = 0 /\ granted = {}
    /\ ci = [i \in Issue |-> "unchecked"]
    /\ verdict = [i \in Issue |-> "none"] 
    /\ produced = [i \in Issue |-> "nothing"] /\ earned = {}
    /\ ops = 0 /\ crashes = 0 /\ faults = 0 /\ misses = 0

-----------------------------------------------------------------------------
(* Stage changes.  ChangeStage first relabels on GitHub (and closes the    *)
(* issue for Done), then overwrites the cached issue.  A failing gh call   *)
(* leaves the cache alone and GitHub with the old label, none, or the new. *)
(* Its ledger row and WebSocket messages carry no state read here.         *)

MayFail == faults + misses < MaxFaults

Staged(view, stage) == [label |-> stage, open |-> view.open /\ stage # Done]

ChangeStageOn(hub, store, i, stage) ==
    \/ /\ github' = [hub EXCEPT ![i] = Staged(hub[i], stage)]
       /\ cache'  = [store EXCEPT ![i] = Staged(hub[i], stage)]
       /\ UNCHANGED faults
    \/ /\ MayFail
       /\ faults' = faults + 1
       /\ \E label \in {hub[i].label, NoStage, stage} :
             github' = [hub EXCEPT ![i].label = label]
       /\ cache' = store

ChangeStage(i, stage) == ChangeStageOn(github, cache, i, stage)

(* The task_steps table.  Rows are ordered by insertion; a row completed   *)
(* after a later one was inserted is not the latest.                       *)
Mark(name) == IF name \in StepNames THEN name ELSE "other"

\* A failing write is logged, or not even that; the rows stay as they were.
Missed == MayFail /\ misses' = misses + 1

\* InsertStep of the worker; without its row the step runs all the same.
OpenRow ==
    \/ row' = "open" /\ UNCHANGED misses
    \/ row' = "deleted" /\ Missed

\* FinishStep of the worker's own row.
FinishRow(i, name) ==
    /\ row' = "none"
    /\ \/ /\ last' = IF row = "open" THEN [last EXCEPT ![i] = Mark(name)] ELSE last
          /\ kept' = IF row = "open" /\ name \notin DeletedFrom
                     THEN [kept EXCEPT ![i] = Mark(name)] ELSE kept
          /\ UNCHANGED misses
       \/ row = "open" /\ Missed /\ UNCHANGED <<last, kept>>

\* Faulty: the row is inserted but never completed.
RecordStepUnfinished(i) ==
    /\ UNCHANGED stepVars
    /\ row' = IF task = i /\ row = "open" THEN "superseded" ELSE row

\* recordStep of the orchestrator and of the dashboard: a completed row
\* whose name is none of stepOrder's.
StepRecorded(i) ==
    /\ last' = [last EXCEPT ![i] = "other"]
    /\ kept' = [kept EXCEPT ![i] = "other"]
    /\ row' = IF task = i /\ row = "open" THEN "superseded" ELSE row

RecordStep(i) ==
    \/ StepRecorded(i) /\ UNCHANGED misses
    \/ Missed /\ UNCHANGED <<last, kept, row>>

DeleteStepsFrom(i) ==
    \/ last' = [last EXCEPT ![i] = kept[i]] /\ UNCHANGED <<kept, misses>>
    \/ Missed /\ UNCHANGED <<last, kept>>

StepsDeleted(i) ==
    /\ last' = [last EXCEPT ![i] = "none"]
    /\ kept' = [kept EXCEPT ![i] = "none"]
    /\ row' = IF task = i /\ row # "none" THEN "deleted" ELSE row

DeleteSteps(i) ==
    \/ StepsDeleted(i) /\ UNCHANGED misses
    \/ Missed /\ UNCHANGED <<last, kept, row>>

(* Git.  None as head stands for the default branch.                       *)

\* CheckoutDefault; its failure is only logged.
CheckoutDefault == head' = None \/ (LoggedMayFail /\ UNCHANGED head)

\* RemoveBranch checks out the default branch first; a failure of that or of
\* the deletion is only logged by its callers.
RemoveBranch(i) ==
    \/ local[i] = "absent" /\ UNCHANGED <<local, head>>
    \/ /\ local[i] # "absent"
       /\ \/ local' = [local EXCEPT ![i] = "absent"] /\ head' = None
          \/ LoggedMayFail /\ UNCHANGED local /\ CheckoutDefault

\* CreateBranch: where the checked out branch starts.  git fetch may fail: a
\* new branch is then made from what is checked out, and an old one without
\* commits is not rebased onto origin's default branch.
Fetched   == IF behind THEN "fresh" ELSE "empty"
Unfetched == CASE head = None -> "empty" [] local[head] = "work" -> "fix" [] OTHER -> local[head]

BranchAt(i) ==
    CASE local[i] = "absent" -> {Fetched} \cup (IF LoggedMayFail THEN {Unfetched} ELSE {})
      [] local[i] = "empty"  -> {Fetched} \cup (IF LoggedMayFail THEN {"empty"} ELSE {})
      [] OTHER               -> {local[i]}

\* The worker's commits land on the branch that is checked out.
Commit(what) ==
    local' = IF head = task /\ local[task] # "work"
             THEN [local EXCEPT ![task] = what] ELSE local

-----------------------------------------------------------------------------
(* The orchestrator's loop: Run.                                           *)

\* ErrAlreadyDone, from the planning step or from createPR.
AlreadyDone == {"already-done", "no-commits"}

Resumable    == {i \in Issue : cache[i].open /\ cache[i].label \in WorkerStages}
PickedUpFrom == {i \in Issue : cache[i].open /\ cache[i].label \in CandidateStages}

\* One search cycle up to the choice: resume the first interrupted issue, or
\* take the manually queued one, or ask the LLM to choose (an answer that is
\* not usable falls back to the first candidate).
Search ==
    /\ pc = "search" /\ ~paused /\ ~stopping
    /\ \/ /\ Resumable # {}
          /\ \E i \in Resumable : task' = i /\ \A j \in Resumable : i <= j
          /\ pc' = "begin"
          /\ UNCHANGED <<candidates, manual>>
       \/ /\ Resumable = {}
          /\ manual' = None
          /\ candidates' = IF manual \in PickedUpFrom THEN {manual} ELSE PickedUpFrom
          /\ pc' = IF PickedUpFrom = {} THEN "search" ELSE "pick"
          /\ UNCHANGED task
    /\ UNCHANGED <<row, attempt, result, current, decision, paused, stopping,
                   yolo, direct, labelVars, stepVars, gitVars, ghostVars, boundVars>>

\* The LLM has answered: the choice is relabelled, whatever became of it.
Pick ==
    /\ pc = "pick"
    /\ \E i \in candidates : task' = i /\ ChangeStage(i, Plan)
    /\ pc' = "begin" /\ candidates' = {}
    /\ UNCHANGED <<row, attempt, result, orchVars, stepVars, gitVars, ghostVars, boundVars>>

\* currentTask is set and Process starts: it reads the last completed step
\* and checks out the ticket's branch, made when there is no local one.
Begin ==
    /\ pc = "begin"
    /\ current' = task
    /\ attempt' = 0
    /\ \/ /\ pc' = StartAt(ResumeFrom(last[task]))
          /\ \E state \in BranchAt(task) : local' = [local EXCEPT ![task] = state]
          /\ head' = task
          /\ UNCHANGED <<result, faults>>
       \/ /\ MayFail
          /\ faults' = faults + 1
          /\ pc' = "returned" /\ result' = "failed"
          /\ UNCHANGED <<local, head>>
    /\ ci' = [ci EXCEPT ![task] = "unchecked"]
    /\ UNCHANGED <<task, candidates, row, decision, manual, paused, stopping, yolo,
                   direct, github, cache, stepVars, remote, pr, behind, approvals,
                   mergeCalls, granted, verdict, produced, earned, boundVars>>

\* Process has returned: currentTask is cleared and the outcome recorded.
Return ==
    /\ pc = "returned"
    /\ pc' = "settle"
    /\ current' = None
    /\ RecordStep(task)
    /\ UNCHANGED <<task, candidates, attempt, result, decision, manual, paused, stopping,
                   yolo, direct, labelVars, gitVars, ghostVars, boundVars>>

\* Faulty: every error counts as ErrAlreadyDone.
OutcomeStageOfAnyError(res) == Done

OutcomeStage(res) == IF res \in AlreadyDone THEN Done ELSE Failed

\* The label that goes with the outcome; a merged ticket already has its own.
Settle ==
    /\ pc = "settle"
    /\ IF result = "done" THEN UNCHANGED labelVars ELSE ChangeStage(task, OutcomeStage(result))
    /\ earned' = IF result \in AlreadyDone THEN earned \cup {task} ELSE earned
    /\ pc' = "search" /\ task' = None /\ result' = "none" /\ attempt' = 0
    /\ UNCHANGED <<candidates, row, orchVars, stepVars, gitVars, approvals, mergeCalls,
                   granted, ci, verdict, produced, boundVars>>

-----------------------------------------------------------------------------
(* The worker: Process.                                                    *)

\* A step that talks to the LLM opens its row ...
StartStep ==
    /\ pc \in DOMAIN StepAt /\ row = "none"
    /\ OpenRow
    /\ UNCHANGED <<pc, task, candidates, attempt, result, orchVars, labelVars,
                   last, kept, gitVars, ghostVars, boundVars>>

\* ... and may fail: the row is marked failed and Process gives up.
FailStep ==
    /\ pc \in DOMAIN StepAt /\ row # "none"
    /\ row' = "none"
    /\ pc' = "fail" /\ result' = "failed"
    /\ UNCHANGED <<task, candidates, attempt, orchVars, labelVars, stepVars,
                   gitVars, ghostVars, boundVars>>

\* Technical planning; the LLM may find the ticket already done, and the
\* step's row is completed before the answer is looked at.
FinishPlanning ==
    /\ pc = "planning" /\ row # "none"
    /\ FinishRow(task, StepAt[pc])
    /\ \/ pc' = "planned" /\ UNCHANGED result
       \/ pc' = "fail" /\ result' = "already-done"
    /\ UNCHANGED <<task, candidates, attempt, orchVars, labelVars, gitVars,
                   ghostVars, boundVars>>

\* implement: the LLM changes the code and ensureCommit commits it, if the
\* ticket's branch is checked out and git takes it (nobody looks), or nothing
\* was left to change.
FinishCoding ==
    /\ pc \in DOMAIN CodingNext /\ row # "none"
    /\ FinishRow(task, StepAt[pc])
    /\ pc' = CodingNext[pc]
    /\ \/ /\ head = task /\ Commit("work")
          /\ produced' = [produced EXCEPT ![task] = "branch"]
          /\ verdict' = [verdict EXCEPT ![task] = "none"]
       \/ /\ head # task \/ LoggedMayFail
          /\ produced' = [produced EXCEPT ![task] = "astray"]
          /\ verdict' = [verdict EXCEPT ![task] = "none"]
          /\ UNCHANGED local
       \/ /\ produced' = [produced EXCEPT ![task] = "nothing"]
          /\ UNCHANGED <<local, verdict>>
    /\ UNCHANGED <<task, candidates, attempt, result, orchVars, labelVars, remote, pr, head,
                   behind, approvals, mergeCalls, granted, ci, earned, boundVars>>

\* fixFromReview: a commit on top of whatever the branch holds, if any.
FinishFix ==
    /\ pc \in DOMAIN FixNext /\ row # "none"
    /\ FinishRow(task, StepAt[pc])
    /\ pc' = FixNext[pc]
    /\ Commit("fix") \/ (LoggedMayFail /\ UNCHANGED local)
    /\ verdict' = [verdict EXCEPT ![task] = "none"]
    /\ UNCHANGED <<task, candidates, attempt, result, orchVars, labelVars, remote, pr, head,
                   behind, approvals, mergeCalls, granted, ci, produced, earned, boundVars>>

\* codeReview completes its row whatever the verdict; a second rejection in
\* a row is an error, except after a user's decline.
FinishReview ==
    /\ pc \in DOMAIN ReviewNext /\ row # "none"
    /\ FinishRow(task, StepAt[pc])
    /\ \E v \in {"approved", "rejected"} :
          /\ pc' = ReviewNext[pc][v]
          /\ result' = IF ReviewNext[pc][v] = "fail" THEN "failed" ELSE result
          /\ verdict' = [verdict EXCEPT ![task] = v]
    /\ UNCHANGED <<task, candidates, attempt, orchVars, labelVars, gitVars, approvals,
                   mergeCalls, granted, ci, produced, earned, boundVars>>

\* PushBranch.  A push that leaves an open PR without commits of its own
\* makes GitHub close it.
PushBranch(i) ==
    /\ local[i] # "absent"
    /\ remote' = [remote EXCEPT ![i] = local[i]]
    /\ pr' = [pr EXCEPT ![i] = IF @ = "open" /\ local[i] \in {"empty", "fresh"} THEN "closed" ELSE @]

\* The push after fixes: it fails without the local branch.
PushFixes ==
    /\ pc \in DOMAIN PushNext
    /\ \/ /\ PushBranch(task)
          /\ ci' = [ci EXCEPT ![task] = IF pc \in {"pushDeclineFix", "pushReReviewFix"}
                                        THEN "declined" ELSE "unchecked"]
          /\ pc' = PushNext[pc]
          /\ UNCHANGED <<result, faults>>
       \/ /\ \/ local[task] = "absent" /\ UNCHANGED faults
             \/ MayFail /\ faults' = faults + 1
          /\ pc' = "fail" /\ result' = "failed"
          /\ UNCHANGED <<remote, pr, ci>>
    /\ UNCHANGED <<task, candidates, row, attempt, orchVars, github, cache, stepVars,
                   local, head, behind, approvals, mergeCalls, granted, verdict,
                   produced, earned, boundVars>>

\* Faulty: the branch is compared with its upstream.
HasCommitsUpstream(i) == local[i] # remote[i]

\* HasCommitsDifferentFromMaster, or its failure on a missing branch.  The
\* merge base with the local default branch is compared with the branch: one
\* made from a merge that branch lacks looks as if it had commits.
HasCommits(i) == local[i] # "empty"

\* createPR, first part: without commits there is nothing to do.
StartCreatePR ==
    /\ pc = "createPR" /\ row = "none"
    /\ IF HasCommits(task)
       THEN OpenRow /\ UNCHANGED <<pc, result>>
       ELSE pc' = "fail" /\ result' = "no-commits" /\ UNCHANGED <<row, misses>>
    /\ UNCHANGED <<task, candidates, attempt, orchVars, labelVars, last, kept, gitVars,
                   ghostVars, boundVars>>

\* createPR, second part: push, then open a PR or find the open one.  GitHub
\* refuses a PR without commits; a branch deleted meanwhile is not pushed.
FinishCreatePR ==
    /\ pc = "createPR" /\ row # "none"
    /\ \/ /\ local[task] \in {"work", "fix"}
          /\ remote' = [remote EXCEPT ![task] = local[task]]
          /\ pr' = [pr EXCEPT ![task] = "open"]
          /\ FinishRow(task, "create-pr")
          /\ pc' = "prCreated"
          /\ UNCHANGED <<result, faults>>
       \/ /\ \/ local[task] \notin {"work", "fix"} /\ UNCHANGED faults
             \/ MayFail /\ faults' = faults + 1
          /\ \/ PushBranch(task)
             \/ UNCHANGED <<remote, pr>>
          /\ row' = "none" /\ pc' = "fail" /\ result' = "failed"
          /\ UNCHANGED stepVars
    /\ UNCHANGED <<task, candidates, attempt, orchVars, github, cache, local, head,
                   behind, ghostVars, boundVars>>

\* Faulty: one attempt too many.
FailedCheckOffByOne ==
    /\ attempt' = attempt + 1
    /\ IF attempt >= MaxRetries
       THEN pc' = "ciExhausted" /\ result' = "failed"
       ELSE pc' = "ciRetry" /\ UNCHANGED result

\* Faulty: the attempt is not counted.
FailedCheckUncounted ==
    /\ pc' = "ciRetry"
    /\ UNCHANGED <<attempt, result>>

\* One more failed attempt: back to coding, or the last one.
FailedCheck ==
    /\ attempt' = attempt + 1
    /\ IF attempt + 1 >= MaxRetries
       THEN pc' = "ciExhausted" /\ result' = "failed"
       ELSE pc' = "ciRetry" /\ UNCHANGED result

\* checkPipeline: the checks pass, or they fail, time out or are cut off by
\* a shutdown, which all count as a failed attempt.
CheckCI ==
    /\ pc = "checkPipeline"
    /\ \/ /\ pr[task] # "none"
          /\ pc' = "ciPassed"
          /\ ci' = [ci EXCEPT ![task] = "green"]
          /\ UNCHANGED <<attempt, result>>
       \/ FailedCheck /\ UNCHANGED ci
    /\ UNCHANGED <<task, candidates, row, orchVars, labelVars, stepVars, gitVars, approvals,
                   mergeCalls, granted, verdict, produced, earned, boundVars>>

\* HandleWorkerEvent: relabel as decideNextStage says; a failed CI check
\* first forgets the steps from implement on.
Report ==
    /\ pc \in DOMAIN ReportAt
    /\ ChangeStage(task, DecideNextStage(ReportAt[pc].stage, ReportAt[pc].status))
    /\ IF ReportAt[pc].stage = "check-pipeline" /\ ReportAt[pc].status = "failed"
       THEN DeleteStepsFrom(task) ELSE UNCHANGED stepVars
    /\ pc' = ReportAt[pc].next
    /\ UNCHANGED <<task, candidates, row, attempt, result, orchVars, gitVars,
                   ghostVars, boundVars>>

\* YOLO mode is looked at once, before the wait for approval.
AskApproval ==
    /\ pc = "await"
    /\ IF yolo
       THEN /\ pc' = "approved"
            /\ approvals' = approvals + 1
            /\ granted' = granted \cup {task}
       ELSE pc' = "waiting" /\ UNCHANGED <<approvals, granted>>
    /\ UNCHANGED <<task, candidates, row, attempt, result, orchVars, labelVars, stepVars,
                   gitVars, mergeCalls, ci, verdict, produced, earned, boundVars>>

\* The wait itself: a decision from the channel, or the end of the process.
Decide ==
    /\ pc = "waiting"
    /\ \/ /\ decision # "none"
          /\ pc' = IF decision = "approve" THEN "approved" ELSE "declined"
          /\ decision' = "none"
          /\ UNCHANGED result
       \/ /\ stopping
          /\ pc' = "fail" /\ result' = "failed"
          /\ UNCHANGED decision
    /\ UNCHANGED <<task, candidates, row, attempt, current, manual, paused, stopping, yolo,
                   direct, labelVars, stepVars, gitVars, ghostVars, boundVars>>

\* gh pr merge --delete-branch: an open PR is merged or conflicts; merging
\* again what is merged already may be reported either way.  The body's
\* "Closes #N" makes GitHub close the issue.
MergeSucceeds(i) ==
    /\ pr[i] \in {"open", "merged"}
    /\ pr' = [pr EXCEPT ![i] = "merged"]
    /\ remote' = [remote EXCEPT ![i] = "absent"]
    /\ behind' = TRUE
    /\ earned' = earned \cup {i}

\* ClosePR: gh pr close --delete-branch; its failure is only logged.
ClosePR(i) ==
    \/ /\ pr' = [pr EXCEPT ![i] = IF @ = "open" THEN "closed" ELSE @]
       /\ remote' = [remote EXCEPT ![i] = IF pr[i] = "open" THEN "absent" ELSE @]
    \/ LoggedMayFail /\ UNCHANGED <<pr, remote>>

MergeFails(i) == ClosePR(i) /\ UNCHANGED <<behind, earned>>

ClosedByMerge(i) ==
    [github EXCEPT ![i].open = @ /\ pr[i] # "open"]

MergePR ==
    /\ pc = "merge"
    /\ mergeCalls' = mergeCalls + 1
    /\ \/ /\ MergeSucceeds(task)
          /\ github' = ClosedByMerge(task)
          /\ pc' = "merged"
          /\ UNCHANGED result
       \/ /\ MergeFails(task)
          /\ pc' = "fail" /\ result' = "failed"
          /\ UNCHANGED github
    /\ UNCHANGED <<task, candidates, row, attempt, orchVars, cache, faults, stepVars, local, head,
                   approvals, granted, ci, verdict, produced, boundVars>>

\* After the merge the default branch is checked out and Process returns.
Finish ==
    /\ pc = "finished"
    /\ CheckoutDefault
    /\ pc' = "returned" /\ result' = "done"
    /\ UNCHANGED <<task, candidates, row, attempt, orchVars, labelVars, stepVars, local, remote,
                   pr, behind, ghostVars, boundVars>>

\* Process gives up: its deferred cleanup deletes the local branch.
GiveUp ==
    /\ pc = "fail"
    /\ RemoveBranch(task)
    /\ pc' = "returned"
    /\ UNCHANGED <<task, candidates, row, attempt, result, orchVars, labelVars, stepVars,
                   remote, pr, behind, ghostVars, boundVars>>

Worker ==
    \/ StartStep \/ FailStep \/ FinishPlanning \/ FinishCoding \/ FinishFix
    \/ FinishReview \/ PushFixes \/ StartCreatePR \/ FinishCreatePR \/ CheckCI
    \/ Report \/ AskApproval \/ Decide \/ MergePR \/ Finish \/ GiveUp

Orchestrator == Search \/ Pick \/ Begin \/ Return \/ Settle

-----------------------------------------------------------------------------
(* GitHub synchronisation of one issue: the cache is refreshed, then       *)
(* HandleSyncEvent repairs the label of a closed or merged issue, unless   *)
(* the worker is on it.                                                    *)

\* Faulty: closed issues are not repaired.
SyncRepairOfOpen(i) ==
    IF github[i].open /\ pr[i] = "merged" /\ github[i].label # Merge
    THEN Merge ELSE NoTransition

\* HandleSyncEvent: the label an issue should have had.
SyncRepair(i) ==
    CASE ~github[i].open /\ github[i].label # Done -> Done
      [] github[i].open /\ pr[i] = "merged" /\ github[i].label # Merge -> Merge
      [] OTHER -> NoTransition

Sync(i) ==
    LET refreshed == [cache EXCEPT ![i] = github[i]]
    IN  /\ pc # "down"
        /\ IF current # i /\ SyncRepair(i) # NoTransition
           THEN ChangeStageOn(github, refreshed, i, SyncRepair(i))
           ELSE cache' = refreshed /\ UNCHANGED <<github, faults>>
        /\ UNCHANGED <<workerVars, orchVars, stepVars, gitVars, ghostVars, boundVars>>

-----------------------------------------------------------------------------
(* The dashboard.  Its handlers run on goroutines of their own, at any     *)
(* time and for any issue; `Operation` counts them.                        *)

Operation(op) ==
    /\ op \in UserOps /\ pc # "down" /\ ops < MaxOps
    /\ ops' = ops + 1

\* handleApprove, handleReject, handleBlock, handleUnblock: a bare ChangeStage.
ApproveOp(i) ==
    /\ Operation("approve") /\ ChangeStage(i, Approve)
    /\ UNCHANGED <<workerVars, orchVars, stepVars, gitVars, ghostVars, crashes>>

RejectOp(i) ==
    /\ Operation("reject") /\ ChangeStage(i, Backlog)
    /\ UNCHANGED <<workerVars, orchVars, stepVars, gitVars, ghostVars, crashes>>

BlockOp(i) ==
    /\ Operation("block") /\ ChangeStage(i, Blocked)
    /\ UNCHANGED <<workerVars, orchVars, stepVars, gitVars, ghostVars, crashes>>

UnblockOp(i) ==
    /\ Operation("unblock") /\ ChangeStage(i, Backlog)
    /\ UNCHANGED <<workerVars, orchVars, stepVars, gitVars, ghostVars, crashes>>

\* Close the open PR with its remote branch, delete the local branch.
DropBranchAndPR(i) ==
    /\ ClosePR(i)
    /\ RemoveBranch(i)
    /\ UNCHANGED behind

\* handleRetry and handleRetryFresh.
RetryOp(i) ==
    /\ Operation("retry")
    /\ DropBranchAndPR(i)
    /\ DeleteSteps(i)
    /\ ChangeStage(i, Backlog)
    /\ UNCHANGED <<pc, task, candidates, attempt, result, orchVars, ghostVars, crashes>>

\* handleRestartFull: the PR and the branch are gone before
\* RestartFromBeginning refuses an issue that is being processed.
RestartFullOp(i) ==
    /\ Operation("restartFull")
    /\ DropBranchAndPR(i)
    /\ IF current = i
       THEN UNCHANGED <<labelVars, stepVars, row>>
       ELSE \/ StepsDeleted(i) /\ UNCHANGED misses /\ ChangeStage(i, Backlog)
            \/ Missed /\ UNCHANGED <<last, kept, row, labelVars>>
    /\ UNCHANGED <<pc, task, candidates, attempt, result, orchVars, ghostVars, crashes>>

\* RestartCurrentStage: only for an issue in a worker stage that is not
\* being processed.
RestartStageOp(i) ==
    /\ Operation("restartStage")
    /\ current # i /\ cache[i].label \in WorkerStages
    /\ StageToStepName(cache[i].label) \in StepNames
    /\ DeleteStepsFrom(i)
    /\ UNCHANGED <<workerVars, orchVars, labelVars, gitVars, ghostVars, crashes>>

\* QueueManualProcess.
ProcessOp(i) ==
    /\ Operation("process")
    /\ current # i
    /\ manual' = i /\ paused' = FALSE
    /\ UNCHANGED <<workerVars, current, decision, stopping, yolo, direct, labelVars,
                   stepVars, gitVars, ghostVars, crashes>>

\* SendDecision accepts a decision for the issue being processed, if the
\* channel is empty.
Accepts(i) == current = i /\ decision = "none"

\* handleDecline: "declined" is recorded; when SendDecision refuses, the
\* ticket is relabelled and its rows, that one included, are deleted.
DeclineOp(i) ==
    /\ Operation("decline")
    /\ IF Accepts(i)
       THEN decision' = "decline" /\ RecordStep(i) /\ UNCHANGED labelVars
       ELSE /\ ChangeStage(i, Code)
            /\ \/ DeleteSteps(i)
               \/ StepRecorded(i) /\ Missed
            /\ UNCHANGED decision
    /\ UNCHANGED <<pc, task, candidates, attempt, result, current, manual, paused, stopping,
                   yolo, direct, gitVars, ghostVars, crashes>>

\* handleApproveMerge, with its fallback: the direct merge starts by
\* labelling the issue, if it has an open PR.  Bound: one direct merge at a
\* time.
ApproveMergeOp(i) ==
    /\ Operation("approveMerge") /\ direct = None
    /\ RecordStep(i)
    /\ granted' = granted \cup {i}
    /\ IF Accepts(i)
       THEN /\ decision' = "approve" /\ approvals' = approvals + 1
            /\ UNCHANGED <<direct, labelVars>>
       ELSE /\ IF pr[i] = "open"
               THEN direct' = i /\ ChangeStage(i, Merge)
               ELSE UNCHANGED <<direct, labelVars>>
            /\ UNCHANGED <<decision, approvals>>
    /\ UNCHANGED <<pc, task, candidates, attempt, result, current, manual, paused, stopping,
                   yolo, gitVars, mergeCalls, ci, verdict, produced, earned, crashes>>

\* handleDirectMerge from MergePR on.
DirectMerge ==
    /\ direct # None
    /\ \/ /\ MergeSucceeds(direct)
          /\ ChangeStageOn(ClosedByMerge(direct), cache, direct, Done)
          /\ CheckoutDefault
       \/ /\ MergeFails(direct)
          /\ ChangeStage(direct, Failed)
          /\ UNCHANGED head
    /\ direct' = None
    /\ UNCHANGED <<workerVars, current, decision, manual, paused, stopping, yolo, stepVars,
                   local, approvals, mergeCalls, granted, ci, verdict, produced, boundVars>>

\* handleWorkerToggle.
ToggleOp ==
    /\ Operation("toggle")
    /\ paused' = ~paused
    /\ UNCHANGED <<workerVars, current, decision, manual, stopping, yolo, direct, labelVars,
                   stepVars, gitVars, ghostVars, crashes>>

\* handleYoloToggle: a runtime override, lost at a restart.
YoloOp ==
    /\ Operation("yolo")
    /\ yolo' = ~yolo
    /\ UNCHANGED <<workerVars, current, decision, manual, paused, stopping, direct, labelVars,
                   stepVars, gitVars, ghostVars, crashes>>

\* A user closes or reopens the issue on GitHub.
CloseOp(i) ==
    /\ Operation("close")
    /\ github' = [github EXCEPT ![i].open = FALSE]
    /\ earned' = earned \cup {i}
    /\ UNCHANGED <<workerVars, orchVars, cache, faults, stepVars, gitVars, approvals,
                   mergeCalls, granted, ci, verdict, produced, crashes>>

ReopenOp(i) ==
    /\ Operation("reopen")
    /\ github' = [github EXCEPT ![i].open = TRUE]
    /\ UNCHANGED <<workerVars, orchVars, cache, faults, stepVars, gitVars, ghostVars, crashes>>

\* What the board offers for a ticket at rest, ...
Redo(i) == ApproveOp(i) \/ RejectOp(i) \/ RetryOp(i) \/ RestartFullOp(i) \/ RestartStageOp(i)

\* ... for the queue, ...
Queue(i) == BlockOp(i) \/ UnblockOp(i) \/ ProcessOp(i)

\* ... and for a ticket that awaits approval.
Judge(i) == DeclineOp(i) \/ ApproveMergeOp(i)

User ==
    \/ \E i \in Issue : Redo(i) \/ Queue(i) \/ Judge(i) \/ CloseOp(i) \/ ReopenOp(i)
    \/ ToggleOp \/ YoloOp \/ DirectMerge

-----------------------------------------------------------------------------
(* The process.  SIGINT cancels the context and stops the orchestrator;    *)
(* nothing waits for the worker, so the process can end at any point.      *)
Shutdown ==
    /\ Operation("shutdown") /\ ~stopping
    /\ stopping' = TRUE
    /\ UNCHANGED <<workerVars, current, decision, manual, paused, yolo, direct, labelVars,
                   stepVars, gitVars, ghostVars, crashes>>

Crash ==
    /\ pc # "down" /\ crashes < MaxCrashes
    /\ crashes' = crashes + 1
    /\ pc' = "down" /\ task' = None /\ candidates' = {} /\ row' = "none"
    /\ attempt' = 0 /\ result' = "none"
    /\ current' = None /\ decision' = "none" /\ manual' = None
    /\ paused' = ~AutoStart /\ stopping' = FALSE /\ yolo' = FALSE /\ direct' = None
    /\ UNCHANGED <<labelVars, stepVars, gitVars, ghostVars, ops>>

\* runServe: the cache is overwritten with what GitHub has.
Restart ==
    /\ pc = "down"
    /\ pc' = "search"
    /\ cache' = github
    /\ UNCHANGED <<task, candidates, row, attempt, result, orchVars, github, faults, stepVars,
                   gitVars, ghostVars, boundVars>>

Next == \/ Orchestrator \/ Worker \/ User
        \/ \E i \in Issue : Sync(i)
        \/ Shutdown \/ Crash \/ Restart

Spec == Init /\ [][Next]_vars

(* Scheduling: the orchestrator's goroutine keeps running (its timers fire *)
(* and its calls return), synchronisation runs every 30 seconds, requests  *)
(* complete and a stopped process is started again.  Users owe nothing.    *)
Fairness ==
    /\ WF_vars(Orchestrator \/ Worker)
    /\ \A i \in Issue : WF_vars(Sync(i))
    /\ WF_vars(DirectMerge) /\ WF_vars(Restart)

FairSpec == Spec /\ Fairness

-----------------------------------------------------------------------------
(* Safety, besides TypeOK, which is stated with the types above.           *)

\* Every approval is spent at most once: the worker never calls MergePR more
\* often than users or YOLO mode approved, whatever decisions are sent while
\* it works, declines and fixes (SendDecision, decisionCh, the merge loop).
ApprovalSpent ==
    mergeCalls + (IF pc \in {"approved", "merge"} THEN 1 ELSE 0)
               + (IF decision = "approve" THEN 1 ELSE 0) <= approvals

\* A ticket is put up for approval, and merged, only after CI passed in this
\* very run of Process, even one resumed after a crash; only the fix of a
\* decline comes back unchecked (the check-pipeline and approval loops).
CICheckedOrDeclined ==
    pc \in {"await", "waiting", "approved", "merge"} => ci[task] # "unchecked"

\* No crash came, and no write of a step row failed, so far.
Undisturbed == crashes = 0 /\ misses = 0

\* A PR is opened only for code whose last AI review approved it, across
\* fixes, retries and whatever users do meanwhile (crashes and failing store
\* writes apart).
ReviewedBeforePR ==
    Undisturbed => (pc \in {"createPR", "prCreated"} => verdict[task] = "approved")

\* An issue is labelled done only if it was merged, found already done, or
\* closed by a user; no interleaving of worker, handlers, synchronisation,
\* failing calls and crashes labels unfinished work done.
DoneIsEarned ==
    \A i \in Issue : github[i].label = Done => i \in earned

\* Once the worker has let go of a ticket whose branch and PR are gone, its
\* stored steps cannot make the next run skip implementing it: the rows
\* that Run and the handlers add or delete keep pace with the branches
\* (crashes and failing store writes apart).
SettledStartsOver ==
    Undisturbed => \A i \in Issue :
        (i # task /\ local[i] = "absent" /\ pr[i] # "open")
            => last[i] \notin {"implement", "code-review", "create-pr"}

\* createPR never declares a ticket "already implemented", and so closes it,
\* whose latest implementation is committed on the ticket's branch, whatever
\* merges beside it do to the branches compared.  Code that went astray, since
\* a direct merge or a handler checked out the default branch under the
\* worker, is dropped so (crashes and failing store writes apart).
AlreadyDoneHasNoWork ==
    Undisturbed => (result = "no-commits" => produced[task] # "branch")

\* A blocked ticket is not taken up, and it leaves Blocked only by a user's
\* hand, because the loop or a direct merge already held it when it was
\* blocked, or because GitHub knows better (it is merged or closed): neither
\* the search for work nor the synchronisation undoes a Block
\* (state-machine.md, Any State -> Blocked).
BlockedIsLeftAlone ==
    [][\A i \in Issue \ (candidates \cup {task, direct}) :
         /\ cache[i].label = Blocked => i \notin candidates' \cup {task'}
         /\ (github[i].label = Blocked /\ github'[i].label # Blocked)
                => ops' > ops \/ ~github[i].open \/ pr[i] = "merged"]_vars

-----------------------------------------------------------------------------
(* Liveness.                                                               *)

\* Whatever it is doing, the worker comes to the end of its ticket or to the
\* wait for approval: retries of CI, reviews and fixes do not go on forever.
WorkerFreed == (task # None) ~> (task = None \/ pc = "waiting")

\* A merged ticket reaches Done on the board, although the call that should
\* have labelled it may fail: the synchronisation makes up for it.  Only a
\* direct merge of the very ticket the worker has leaves the worker waiting for
\* a decision on it, and synchronisation away from it.
MergedBecomesDone ==
    \A i \in Issue :
        (pr[i] = "merged") ~> (cache[i].label = Done \/ (pc = "waiting" /\ task = i))

\* A ticket left open in a stage of the worker, by a crash or by a decline
\* nobody received, is picked up again (unless the worker waits for a user).
InterruptedIsResumed ==
    \A i \in Issue :
        LET interrupted == cache[i].open /\ cache[i].label \in {Plan, Code, Review, CreatePR,
                                                              CheckPipeline, Approve}
        IN  interrupted ~> (task = i \/ ~interrupted \/ pc = "waiting")

\* With a GitHub that answers and no crash, every ticket of the sprint ends
\* up done or failed, or the worker waits for a user's decision.
SprintDrains ==
    \/ <>[](\A i \in Issue : cache[i].label \in {Done, Failed})
    \/ <>[](pc = "waiting")

-----------------------------------------------------------------------------
(* What documents and comments of the code say, and the code does not do.  *)
(* Each of these is refuted by a run of its own.                           *)

\* state-machine.md: a ticket is merged when the user clicks Approve & Merge
\* on it.  But a decision stays in decisionCh for whichever ticket comes.
MergedIsApproved ==
    pc \in {"approved", "merge"} => task \in granted

\* state-machine.md: a ticket reaches Approve when all checks pass.  But the
\* fix of a decline is pushed and merged without CI.
MergedWasGreen ==
    pc = "merge" => ci[task] = "green"
=============================================================================
