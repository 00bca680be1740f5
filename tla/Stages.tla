------------------------------- MODULE Stages -------------------------------
(***************************************************************************)
(* The vocabulary of One Dev Army's ticket state machine: stage labels,    *)
(* the order of the worker's steps, and the pure functions that connect    *)
(* them.  Nothing here has state; every other module builds on it.         *)
(***************************************************************************)
EXTENDS Naturals

(* The stage labels (type Stage).  A ticket carries one of them, or none. *)
Backlog       == "stage:backlog"
Plan          == "stage:analysis"
Code          == "stage:coding"
Review        == "stage:code-review"
CreatePR      == "stage:create-pr"
CheckPipeline == "stage:check-pipeline"
Approve       == "stage:awaiting-approval"
Merge         == "stage:merging"
Done          == "stage:done"
Failed        == "stage:failed"
Blocked       == "stage:blocked"
NeedsUser     == "stage:needs-user"
NoStage       == "no stage label"

AllStages == {Backlog, Plan, Code, Review, CreatePR, CheckPipeline, Approve,
              Merge, Done, Failed, Blocked, NeedsUser}

\* Faulty: a failed ticket is taken for an interrupted one.
WorkerStagesWithFailed == {Plan, Code, Review, CreatePR, CheckPipeline, Approve, Failed}

\* Faulty: a ticket whose CI is being checked is not resumed.
WorkerStagesWithoutCI == {Plan, Code, Review, CreatePR, Approve}

(* Stages in which a ticket is resumed after a restart (isWorkerStage).    *)
WorkerStages == {Plan, Code, Review, CreatePR, CheckPipeline, Approve}

\* Faulty: blocked tickets are work like any other.
CandidateStagesWithBlocked == {NoStage, Backlog, Blocked}

(* Stages from which a ticket is picked up as new work.                    *)
CandidateStages == {NoStage, Backlog}

-----------------------------------------------------------------------------
(* Step names in the order the worker runs them (stepOrder).               *)
stepOrder == <<"technical-planning", "implement", "code-review", "create-pr",
               "check-pipeline", "awaiting-approval", "merge">>

StepNames == {stepOrder[n] : n \in DOMAIN stepOrder}

(* Index of the first step to run when the last completed step is `name`;  *)
(* a name outside stepOrder means starting over.                           *)
ResumeFrom(name) ==
    IF name \in StepNames
    THEN CHOOSE n \in DOMAIN stepOrder : stepOrder[n] = name
    ELSE 0

(* DeleteStepsFrom deletes these names whatever step it is asked to start  *)
(* from.                                                                   *)
DeletedFrom == StepNames \ {"technical-planning"}

(* stageToStepName: the step a stage label stands for.                     *)
StageToStepName(stage) ==
    CASE stage = Plan          -> "technical-planning"
      [] stage = Code          -> "implement"
      [] stage = Review        -> "code-review"
      [] stage = CreatePR      -> "create-pr"
      [] stage = CheckPipeline -> "check-pipeline"
      [] stage = Approve       -> "awaiting-approval"
      [] stage = Merge         -> "merge"
      [] OTHER                 -> "no step"

-----------------------------------------------------------------------------
(* Worker events: the stage named by the worker and how it went.           *)
EventStages   == {"analysis", "coding", "code-review", "create-pr",
                  "check-pipeline", "awaiting-approval", "merge"}
EventStatuses == {"success", "failed", "in_progress", "blocked"}

NoTransition == "no transition"

(* decideNextStage: the label a worker event leads to.                     *)
DecideNextStage(stage, status) ==
    CASE stage = "analysis"          /\ status = "success"     -> Code
      [] stage = "coding"            /\ status = "success"     -> Review
      [] stage = "coding"            /\ status = "in_progress" -> Code
      [] stage = "code-review"       /\ status = "success"     -> CreatePR
      [] stage = "create-pr"         /\ status = "success"     -> CheckPipeline
      [] stage = "check-pipeline"    /\ status = "success"     -> Approve
      [] stage = "check-pipeline"    /\ status = "failed"      -> Code
      [] stage = "awaiting-approval" /\ status = "success"     -> Merge
      [] stage = "merge"             /\ status = "success"     -> Done
      [] stage # "check-pipeline"    /\ status = "failed"      -> Failed
      [] status = "blocked"                                    -> NeedsUser
      [] OTHER                                                 -> NoTransition
=============================================================================
