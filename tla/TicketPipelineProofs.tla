------------------------ MODULE TicketPipelineProofs ------------------------
(***************************************************************************)
(* Theorems about TicketPipeline, for every set of issues, every number of *)
(* retries, crashes and faults, and every choice of user operations.       *)
(***************************************************************************)
EXTENDS TicketPipeline, TLAPS

-----------------------------------------------------------------------------
(* The worker's tables.                                                    *)

LEMMA StepDomain ==
    DOMAIN StepAt = {"planning", "implement", "codeReview", "fixReview", "reReview",
                     "fixPipeline", "fixDecline", "declineReview", "fixReReview"}
BY DEF StepAt

LEMMA PushDomain ==
    DOMAIN PushNext = {"pushReviewFix", "pushPipelineFix", "pushDeclineFix", "pushReReviewFix"}
BY DEF PushNext

LEMMA ReportDomain ==
    DOMAIN ReportAt = {"planned", "implemented", "rejected", "reviewed", "prCreated",
                       "ciRetry", "ciCoding", "ciExhausted", "ciPassed", "approved",
                       "merged", "declined", "declineNoted", "declineFixed", "reRejected",
                       "declineReviewed"}
BY DEF ReportAt

LEMMA ReportNextPlaces == \A p \in DOMAIN ReportAt : ReportAt[p].next \in Places
BY StepDomain, PushDomain, ReportDomain DEF ReportAt, Event, Places, Working

LEMMA ReportStages ==
    \A p \in DOMAIN ReportAt :
        DecideNextStage(ReportAt[p].stage, ReportAt[p].status) \in AllStages
<1> USE DEF ReportAt, Event, DecideNextStage, AllStages
<1>1. \A p \in {"planned", "implemented", "rejected", "reviewed"} :
        DecideNextStage(ReportAt[p].stage, ReportAt[p].status) \in AllStages
  OBVIOUS
<1>2. \A p \in {"prCreated", "ciRetry", "ciCoding", "ciExhausted", "ciPassed", "approved"} :
        DecideNextStage(ReportAt[p].stage, ReportAt[p].status) \in AllStages
  OBVIOUS
<1>3. \A p \in {"merged", "declined", "declineNoted", "declineFixed", "reRejected",
                 "declineReviewed"} :
        DecideNextStage(ReportAt[p].stage, ReportAt[p].status) \in AllStages
  OBVIOUS
<1> QED
  BY <1>1, <1>2, <1>3, ReportDomain

LEMMA StartPlaces == \A n \in Nat : StartAt(n) \in
    {"planning", "implement", "codeReview", "createPR", "checkPipeline", "await"}
BY Zenon DEF StartAt

LEMMA RepairStages ==
    \A i \in Issue : SyncRepair(i) \in {Done, Merge, NoTransition}
BY Zenon DEF SyncRepair

LEMMA PlacesMembers ==
    Places = {"planning", "implement", "codeReview", "fixReview", "reReview", "fixPipeline",
              "fixDecline", "declineReview", "fixReReview",
              "pushReviewFix", "pushPipelineFix", "pushDeclineFix", "pushReReviewFix",
              "planned", "implemented", "rejected", "reviewed", "prCreated", "ciRetry",
              "ciCoding", "ciExhausted", "ciPassed", "approved", "merged", "declined",
              "declineNoted", "declineFixed", "reRejected", "declineReviewed",
              "createPR", "checkPipeline", "await", "waiting", "merge", "fail",
              "finished", "search", "pick", "begin", "returned", "settle", "down"}
BY StepDomain, PushDomain, ReportDomain DEF Places, Working

LEMMA StepNamesMembers ==
    StepNames = {"technical-planning", "implement", "code-review", "create-pr",
                 "check-pipeline", "awaiting-approval", "merge"}
<1>1. DOMAIN stepOrder = 1..7
  BY DEF stepOrder
<1>2. /\ stepOrder[1] = "technical-planning" /\ stepOrder[2] = "implement"
      /\ stepOrder[3] = "code-review" /\ stepOrder[4] = "create-pr"
      /\ stepOrder[5] = "check-pipeline" /\ stepOrder[6] = "awaiting-approval"
      /\ stepOrder[7] = "merge"
  BY DEF stepOrder
<1>3. 1..7 = {1, 2, 3, 4, 5, 6, 7}
  OBVIOUS
<1> QED
  BY <1>1, <1>2, <1>3 DEF StepNames

LEMMA ResumeFromNat == \A name : ResumeFrom(name) \in Nat
<1> SUFFICES ASSUME NEW name PROVE ResumeFrom(name) \in Nat
  OBVIOUS
<1>1. DOMAIN stepOrder \subseteq Nat
  BY DEF stepOrder
<1>2. CASE name \in StepNames
  <2>1. \E n \in DOMAIN stepOrder : stepOrder[n] = name
    BY <1>2 DEF StepNames
  <2>2. ResumeFrom(name) \in DOMAIN stepOrder
    BY <1>2, <2>1, Zenon DEF ResumeFrom
  <2> QED
    BY <1>1, <2>2
<1>3. CASE name \notin StepNames
  BY <1>3 DEF ResumeFrom
<1> QED
  BY <1>2, <1>3

(* What the helpers of the actions preserve.                               *)

LEMMA MarkTyped ==
    \A name : /\ Mark(name) \in StepMarks
              /\ name \notin DeletedFrom => Mark(name) \in KeptMarks
BY StepNamesMembers DEF Mark, StepMarks, KeptMarks, DeletedFrom

LEMMA StagedTyped ==
    ASSUME NEW view \in View, NEW stage \in AllStages
    PROVE  Staged(view, stage) \in View
BY DEF Staged, View

LEMMA ChangeStageTyped ==
    ASSUME NEW hub \in [Issue -> View], NEW store \in [Issue -> View],
           NEW i \in Issue, NEW stage \in AllStages,
           MaxFaults \in Nat, faults \in 0..MaxFaults, misses \in 0..MaxFaults,
           ChangeStageOn(hub, store, i, stage)
    PROVE  /\ github' \in [Issue -> View] /\ cache' \in [Issue -> View]
           /\ faults' \in 0..MaxFaults
<1>1. hub[i] \in View /\ store[i] \in View
  OBVIOUS
<1>2. Staged(hub[i], stage) \in View /\ Staged(store[i], stage) \in View
  BY <1>1, StagedTyped
<1>3. \A label \in {hub[i].label, NoStage, stage} : [hub[i] EXCEPT !.label = label] \in View
  BY <1>1 DEF View
<1>4. \A label \in {hub[i].label, NoStage, stage} :
        [hub EXCEPT ![i].label = label] \in [Issue -> View]
  BY <1>3
<1> QED
  BY <1>2, <1>4 DEF ChangeStageOn, MayFail

LEMMA MissesTyped ==
    ASSUME MaxFaults \in Nat, faults \in 0..MaxFaults, misses \in 0..MaxFaults,
           Missed \/ UNCHANGED misses
    PROVE  misses' \in 0..MaxFaults
BY DEF Missed, MayFail

LEMMA RowsTyped ==
    ASSUME StepTypeOK, row \in {"none", "open", "superseded", "deleted"}, NEW i \in Issue,
           LabelTypeOK
    PROVE  /\ \A name : FinishRow(i, name) => StepTypeOK' /\ row' = "none"
           /\ /\ \/ StepRecorded(i) \/ StepsDeleted(i) \/ UNCHANGED <<last, kept, row>>
              /\ Missed \/ UNCHANGED misses
              => StepTypeOK' /\ row' \in {"none", "open", "superseded", "deleted"}
           /\ DeleteStepsFrom(i) => StepTypeOK'
<1>1. ASSUME Missed \/ UNCHANGED misses PROVE misses' \in 0..MaxFaults
  BY <1>1, MissesTyped, ConstantsAssumption DEF StepTypeOK, LabelTypeOK
<1>2. ASSUME NEW name, FinishRow(i, name) PROVE StepTypeOK' /\ row' = "none"
  <2>1. last' \in [Issue -> StepMarks] /\ kept' \in [Issue -> KeptMarks] /\ row' = "none"
    BY <1>2, MarkTyped DEF FinishRow, StepTypeOK
  <2> QED
    BY <1>1, <1>2, <2>1 DEF FinishRow, StepTypeOK
<1>3. ASSUME StepRecorded(i) \/ StepsDeleted(i) \/ UNCHANGED <<last, kept, row>>,
             Missed \/ UNCHANGED misses
      PROVE  StepTypeOK' /\ row' \in {"none", "open", "superseded", "deleted"}
  BY <1>1, <1>3 DEF StepRecorded, StepsDeleted, StepMarks, KeptMarks, StepTypeOK
<1>4. ASSUME DeleteStepsFrom(i) PROVE StepTypeOK'
  <2>1. KeptMarks \subseteq StepMarks
    BY StepNamesMembers DEF KeptMarks, StepMarks
  <2> QED
    BY <1>1, <1>4, <2>1 DEF DeleteStepsFrom, StepTypeOK
<1> QED
  BY <1>2, <1>3, <1>4

-----------------------------------------------------------------------------
(* Type correctness.  `attempt` stays within the retries only because a     *)
(* worker whose attempts are used up never comes back to the CI check.      *)

AttemptsUsedUp == attempt = MaxRetries => pc \in {"ciExhausted", "fail", "returned", "settle"}

TypeInv == TypeOK /\ AttemptsUsedUp

\* The parts an action does not mention keep their types.
LEMMA UnchangedTyped ==
    ASSUME TypeInv
    PROVE  /\ UNCHANGED workerVars => WorkerTypeOK' /\ AttemptsUsedUp'
           /\ UNCHANGED orchVars => OrchTypeOK'
           /\ UNCHANGED labelVars => LabelTypeOK'
           /\ UNCHANGED stepVars => StepTypeOK'
           /\ UNCHANGED gitVars => GitTypeOK'
           /\ UNCHANGED ghostVars => GhostTypeOK'
           /\ UNCHANGED <<ops, crashes>> => BoundTypeOK'
<1> USE DEF TypeInv, TypeOK
<1>1. UNCHANGED workerVars => WorkerTypeOK' /\ AttemptsUsedUp'
  BY DEF workerVars, WorkerTypeOK, AttemptsUsedUp
<1>2. UNCHANGED orchVars => OrchTypeOK'
  BY DEF orchVars, OrchTypeOK
<1>3. UNCHANGED labelVars => LabelTypeOK'
  BY DEF labelVars, LabelTypeOK
<1>4. UNCHANGED stepVars => StepTypeOK'
  BY DEF stepVars, StepTypeOK
<1>5. UNCHANGED gitVars => GitTypeOK'
  BY DEF gitVars, GitTypeOK
<1>6. UNCHANGED ghostVars => GhostTypeOK'
  BY DEF ghostVars, GhostTypeOK
<1>7. UNCHANGED <<ops, crashes>> => BoundTypeOK'
  BY DEF BoundTypeOK
<1> QED
  BY <1>1, <1>2, <1>3, <1>4, <1>5, <1>6, <1>7

LEMMA TypeInvInit == Init => TypeInv
<1> SUFFICES ASSUME Init PROVE TypeInv
  OBVIOUS
<1> USE ConstantsAssumption DEF Init
<1>1. WorkerTypeOK /\ AttemptsUsedUp
  BY PlacesMembers DEF WorkerTypeOK, AttemptsUsedUp
<1>2. OrchTypeOK
  BY Zenon DEF OrchTypeOK
<1>3. LabelTypeOK
  BY DEF LabelTypeOK, View
<1>4. StepTypeOK
  <2>1. misses = 0 /\ 0 \in 0..MaxFaults
    OBVIOUS
  <2>2. last \in [Issue -> StepMarks] /\ kept \in [Issue -> KeptMarks]
    BY DEF StepMarks, KeptMarks
  <2> QED
    BY <2>1, <2>2 DEF StepTypeOK
<1>5. GitTypeOK
  BY DEF GitTypeOK, BranchState, PRState
<1>6. GhostTypeOK /\ BoundTypeOK
  BY DEF GhostTypeOK, BoundTypeOK
<1> QED
  BY <1>1, <1>2, <1>3, <1>4, <1>5, <1>6 DEF TypeInv, TypeOK

LEMMA SearchTyped == TypeInv /\ Search => TypeInv'
<1> SUFFICES ASSUME TypeInv, Search PROVE TypeInv'
  OBVIOUS
<1> USE DEF TypeInv, TypeOK
<1>1. WorkerTypeOK' /\ AttemptsUsedUp'
  BY ConstantsAssumption, PlacesMembers
  DEF Search, WorkerTypeOK, AttemptsUsedUp, Resumable, PickedUpFrom
<1>2. OrchTypeOK'
  BY DEF Search, OrchTypeOK
<1>3. UNCHANGED <<labelVars, stepVars, gitVars, ghostVars, ops, crashes>>
  BY DEF Search, boundVars
<1> QED
  BY <1>1, <1>2, <1>3, UnchangedTyped

LEMMA BeginTyped == TypeInv /\ Begin => TypeInv'
<1> SUFFICES ASSUME TypeInv, Begin PROVE TypeInv'
  OBVIOUS
<1> USE DEF TypeInv, TypeOK
<1>1. task \in Issue /\ StartAt(ResumeFrom(last[task])) \in
        {"planning", "implement", "codeReview", "createPR", "checkPipeline", "await"}
  BY StartPlaces, ResumeFromNat DEF Begin, WorkerTypeOK
<1>2. WorkerTypeOK' /\ AttemptsUsedUp'
  BY <1>1, ConstantsAssumption, PlacesMembers DEF Begin, WorkerTypeOK, AttemptsUsedUp
<1>3. OrchTypeOK' /\ LabelTypeOK'
  BY <1>1, ConstantsAssumption DEF Begin, OrchTypeOK, LabelTypeOK, StepTypeOK, MayFail
<1>4. GitTypeOK'
  <2>1. BranchAt(task) \subseteq BranchState
    BY <1>1, ConstantsAssumption DEF BranchAt, Fetched, Unfetched, GitTypeOK, BranchState
  <2> QED
    BY <1>1, <2>1 DEF Begin, GitTypeOK
<1>5. GhostTypeOK'
  BY <1>1 DEF Begin, GhostTypeOK
<1>6. UNCHANGED <<stepVars, ops, crashes>>
  BY DEF Begin, boundVars
<1> QED
  BY <1>2, <1>3, <1>4, <1>5, <1>6, UnchangedTyped

LEMMA PickTyped == TypeInv /\ Pick => TypeInv'
<1> SUFFICES ASSUME TypeInv, Pick PROVE TypeInv'
  OBVIOUS
<1> USE DEF TypeInv, TypeOK, Pick
<1>1. candidates \subseteq Issue /\ Plan \in AllStages
  BY DEF WorkerTypeOK, AllStages
<1>2. LabelTypeOK'
  BY <1>1, ConstantsAssumption, ChangeStageTyped DEF LabelTypeOK, StepTypeOK, ChangeStage
<1>3. WorkerTypeOK' /\ AttemptsUsedUp'
  BY <1>1, ConstantsAssumption, PlacesMembers DEF WorkerTypeOK, AttemptsUsedUp
<1>4. UNCHANGED <<orchVars, stepVars, gitVars, ghostVars, ops, crashes>>
  BY DEF boundVars, workerVars, orchVars, labelVars, stepVars, gitVars, ghostVars
<1> QED
  BY <1>1, <1>2, <1>3, <1>4, UnchangedTyped

LEMMA ReturnTyped == TypeInv /\ Return => TypeInv'
<1> SUFFICES ASSUME TypeInv, Return PROVE TypeInv'
  OBVIOUS
<1> USE DEF TypeInv, TypeOK, Return
<1>1. task \in Issue
  BY DEF WorkerTypeOK
<1>2. StepTypeOK' /\ row' \in {"none", "open", "superseded", "deleted"}
  BY <1>1, RowsTyped DEF WorkerTypeOK, RecordStep
<1>3. WorkerTypeOK' /\ AttemptsUsedUp'
  BY <1>2, ConstantsAssumption, PlacesMembers DEF WorkerTypeOK, AttemptsUsedUp
<1>4. OrchTypeOK'
  BY DEF OrchTypeOK
<1>5. UNCHANGED <<labelVars, gitVars, ghostVars, ops, crashes>>
  BY DEF boundVars, workerVars, orchVars, labelVars, stepVars, gitVars, ghostVars
<1> QED
  BY <1>1, <1>2, <1>3, <1>4, <1>5, UnchangedTyped

LEMMA SettleTyped == TypeInv /\ Settle => TypeInv'
<1> SUFFICES ASSUME TypeInv, Settle PROVE TypeInv'
  OBVIOUS
<1> USE DEF TypeInv, TypeOK, Settle
<1>1. task \in Issue /\ OutcomeStage(result) \in AllStages
  BY DEF WorkerTypeOK, OutcomeStage, AllStages
<1>2. LabelTypeOK'
  BY <1>1, ConstantsAssumption, ChangeStageTyped DEF LabelTypeOK, StepTypeOK, ChangeStage, labelVars
<1>3. WorkerTypeOK' /\ AttemptsUsedUp'
  BY ConstantsAssumption, PlacesMembers DEF WorkerTypeOK, AttemptsUsedUp
<1>4. GhostTypeOK'
  BY <1>1 DEF GhostTypeOK
<1>5. UNCHANGED <<orchVars, stepVars, gitVars, ops, crashes>>
  BY DEF boundVars, workerVars, orchVars, labelVars, stepVars, gitVars, ghostVars
<1> QED
  BY <1>1, <1>2, <1>3, <1>4, <1>5, UnchangedTyped

LEMMA StartStepTyped == TypeInv /\ StartStep => TypeInv'
<1> SUFFICES ASSUME TypeInv, StartStep PROVE TypeInv'
  OBVIOUS
<1> USE DEF TypeInv, TypeOK, StartStep
<1>1. WorkerTypeOK' /\ AttemptsUsedUp'
  BY StepDomain, ConstantsAssumption, PlacesMembers DEF WorkerTypeOK, AttemptsUsedUp, OpenRow
<1>2. StepTypeOK'
  BY MissesTyped, ConstantsAssumption DEF StepTypeOK, LabelTypeOK, OpenRow
<1>3. UNCHANGED <<orchVars, labelVars, gitVars, ghostVars, ops, crashes>>
  BY DEF boundVars, workerVars, orchVars, labelVars, stepVars, gitVars, ghostVars
<1> QED
  BY <1>1, <1>2, <1>3, UnchangedTyped

LEMMA FailStepTyped == TypeInv /\ FailStep => TypeInv'
<1> SUFFICES ASSUME TypeInv, FailStep PROVE TypeInv'
  OBVIOUS
<1> USE DEF TypeInv, TypeOK, FailStep
<1>1. WorkerTypeOK' /\ AttemptsUsedUp'
  BY StepDomain, ConstantsAssumption, PlacesMembers DEF WorkerTypeOK, AttemptsUsedUp
<1>2. UNCHANGED <<orchVars, labelVars, stepVars, gitVars, ghostVars, ops, crashes>>
  BY DEF boundVars, workerVars, orchVars, labelVars, stepVars, gitVars, ghostVars
<1> QED
  BY <1>1, <1>2, UnchangedTyped

LEMMA FinishPlanningTyped == TypeInv /\ FinishPlanning => TypeInv'
<1> SUFFICES ASSUME TypeInv, FinishPlanning PROVE TypeInv'
  OBVIOUS
<1> USE DEF TypeInv, TypeOK, FinishPlanning
<1>1. task \in Issue
  BY DEF WorkerTypeOK
<1>2. StepTypeOK' /\ row' = "none"
  BY <1>1, RowsTyped DEF WorkerTypeOK
<1>3. WorkerTypeOK' /\ AttemptsUsedUp'
  BY <1>2, ConstantsAssumption, PlacesMembers DEF WorkerTypeOK, AttemptsUsedUp
<1>4. UNCHANGED <<orchVars, labelVars, gitVars, ghostVars, ops, crashes>>
  BY DEF boundVars, workerVars, orchVars, labelVars, stepVars, gitVars, ghostVars
<1> QED
  BY <1>1, <1>2, <1>3, <1>4, UnchangedTyped

LEMMA FinishCodingTyped == TypeInv /\ FinishCoding => TypeInv'
<1> SUFFICES ASSUME TypeInv, FinishCoding PROVE TypeInv'
  OBVIOUS
<1> USE DEF TypeInv, TypeOK, FinishCoding
<1>1. task \in Issue /\ pc \in {"implement", "fixPipeline"}
  BY DEF WorkerTypeOK, CodingNext
<1>2. StepTypeOK' /\ row' = "none"
  BY <1>1, RowsTyped DEF WorkerTypeOK
<1>3. WorkerTypeOK' /\ AttemptsUsedUp'
  BY <1>1, <1>2, ConstantsAssumption, PlacesMembers DEF WorkerTypeOK, AttemptsUsedUp, CodingNext
<1>4. GitTypeOK'
  BY <1>1 DEF GitTypeOK, Commit, BranchState
<1>5. GhostTypeOK'
  BY <1>1 DEF GhostTypeOK
<1>6. UNCHANGED <<orchVars, labelVars, ops, crashes>>
  BY DEF boundVars, workerVars, orchVars, labelVars, stepVars, gitVars, ghostVars
<1> QED
  BY <1>1, <1>2, <1>3, <1>4, <1>5, <1>6, UnchangedTyped

LEMMA FinishFixTyped == TypeInv /\ FinishFix => TypeInv'
<1> SUFFICES ASSUME TypeInv, FinishFix PROVE TypeInv'
  OBVIOUS
<1> USE DEF TypeInv, TypeOK, FinishFix
<1>1. task \in Issue /\ pc \in {"fixReview", "fixDecline", "fixReReview"}
  BY DEF WorkerTypeOK, FixNext
<1>2. StepTypeOK' /\ row' = "none"
  BY <1>1, RowsTyped DEF WorkerTypeOK
<1>3. WorkerTypeOK' /\ AttemptsUsedUp'
  BY <1>1, <1>2, ConstantsAssumption, PlacesMembers DEF WorkerTypeOK, AttemptsUsedUp, FixNext
<1>4. GitTypeOK'
  BY <1>1 DEF GitTypeOK, Commit, BranchState
<1>5. GhostTypeOK'
  BY <1>1 DEF GhostTypeOK
<1>6. UNCHANGED <<orchVars, labelVars, ops, crashes>>
  BY DEF boundVars, workerVars, orchVars, labelVars, stepVars, gitVars, ghostVars
<1> QED
  BY <1>1, <1>2, <1>3, <1>4, <1>5, <1>6, UnchangedTyped

LEMMA FinishReviewTyped == TypeInv /\ FinishReview => TypeInv'
<1> SUFFICES ASSUME TypeInv, FinishReview PROVE TypeInv'
  OBVIOUS
<1> USE DEF TypeInv, TypeOK, FinishReview
<1>1. task \in Issue /\ pc \in {"codeReview", "reReview", "declineReview"}
  BY DEF WorkerTypeOK, ReviewNext
<1>2. StepTypeOK' /\ row' = "none"
  BY <1>1, RowsTyped DEF WorkerTypeOK
<1>3. WorkerTypeOK' /\ AttemptsUsedUp'
  BY <1>1, <1>2, ConstantsAssumption, PlacesMembers DEF WorkerTypeOK, AttemptsUsedUp, ReviewNext
<1>4. GhostTypeOK'
  BY <1>1 DEF GhostTypeOK
<1>5. UNCHANGED <<orchVars, labelVars, gitVars, ops, crashes>>
  BY DEF boundVars, workerVars, orchVars, labelVars, stepVars, gitVars, ghostVars
<1> QED
  BY <1>1, <1>2, <1>3, <1>4, <1>5, UnchangedTyped

LEMMA PushFixesTyped == TypeInv /\ PushFixes => TypeInv'
<1> SUFFICES ASSUME TypeInv, PushFixes PROVE TypeInv'
  OBVIOUS
<1> USE DEF TypeInv, TypeOK, PushFixes
<1>1. task \in Issue /\ pc \in DOMAIN PushNext
  BY PushDomain DEF WorkerTypeOK
<1>2. WorkerTypeOK' /\ AttemptsUsedUp'
  BY <1>1, PushDomain, ConstantsAssumption, PlacesMembers DEF WorkerTypeOK, AttemptsUsedUp, PushNext
<1>3. GitTypeOK'
  BY <1>1 DEF GitTypeOK, PushBranch, BranchState, PRState
<1>4. GhostTypeOK'
  BY <1>1 DEF GhostTypeOK
<1>5. LabelTypeOK'
  BY ConstantsAssumption DEF LabelTypeOK, StepTypeOK, MayFail
<1>6. UNCHANGED <<orchVars, stepVars, ops, crashes>>
  BY DEF boundVars, workerVars, orchVars, labelVars, stepVars, gitVars, ghostVars
<1> QED
  BY <1>1, <1>2, <1>3, <1>4, <1>5, <1>6, UnchangedTyped

LEMMA StartCreatePRTyped == TypeInv /\ StartCreatePR => TypeInv'
<1> SUFFICES ASSUME TypeInv, StartCreatePR PROVE TypeInv'
  OBVIOUS
<1> USE DEF TypeInv, TypeOK, StartCreatePR
<1>1. WorkerTypeOK' /\ AttemptsUsedUp'
  BY ConstantsAssumption, PlacesMembers DEF WorkerTypeOK, AttemptsUsedUp, OpenRow
<1>2. StepTypeOK'
  BY MissesTyped, ConstantsAssumption DEF StepTypeOK, LabelTypeOK, OpenRow
<1>3. UNCHANGED <<orchVars, labelVars, gitVars, ghostVars, ops, crashes>>
  BY DEF boundVars, workerVars, orchVars, labelVars, stepVars, gitVars, ghostVars
<1> QED
  BY <1>1, <1>2, <1>3, UnchangedTyped

LEMMA FinishCreatePRTyped == TypeInv /\ FinishCreatePR => TypeInv'
<1> SUFFICES ASSUME TypeInv, FinishCreatePR PROVE TypeInv'
  OBVIOUS
<1> USE DEF TypeInv, TypeOK, FinishCreatePR
<1>1. task \in Issue
  BY DEF WorkerTypeOK
<1>2. StepTypeOK' /\ row' = "none"
  BY <1>1, RowsTyped DEF WorkerTypeOK, stepVars, StepTypeOK
<1>3. WorkerTypeOK' /\ AttemptsUsedUp'
  BY <1>2, ConstantsAssumption, PlacesMembers DEF WorkerTypeOK, AttemptsUsedUp
<1>4. GitTypeOK'
  BY <1>1 DEF GitTypeOK, PushBranch, BranchState, PRState
<1>5. LabelTypeOK'
  BY ConstantsAssumption DEF LabelTypeOK, StepTypeOK, MayFail
<1>6. UNCHANGED <<orchVars, ghostVars, ops, crashes>>
  BY DEF boundVars, workerVars, orchVars, labelVars, stepVars, gitVars, ghostVars
<1> QED
  BY <1>1, <1>2, <1>3, <1>4, <1>5, <1>6, UnchangedTyped

LEMMA CheckCITyped == TypeInv /\ CheckCI => TypeInv'
<1> SUFFICES ASSUME TypeInv, CheckCI PROVE TypeInv'
  OBVIOUS
<1> USE DEF TypeInv, TypeOK, CheckCI
<1>1. task \in Issue
  BY DEF WorkerTypeOK
<1>2. WorkerTypeOK' /\ AttemptsUsedUp'
  BY ConstantsAssumption, PlacesMembers DEF WorkerTypeOK, AttemptsUsedUp, FailedCheck
<1>3. GhostTypeOK'
  BY <1>1 DEF GhostTypeOK
<1>4. UNCHANGED <<orchVars, labelVars, stepVars, gitVars, ops, crashes>>
  BY DEF boundVars, workerVars, orchVars, labelVars, stepVars, gitVars, ghostVars
<1> QED
  BY <1>1, <1>2, <1>3, <1>4, UnchangedTyped

LEMMA ReportTyped == TypeInv /\ Report => TypeInv'
<1> SUFFICES ASSUME TypeInv, Report PROVE TypeInv'
  OBVIOUS
<1> USE DEF TypeInv, TypeOK, Report
<1>1. task \in Issue /\ DecideNextStage(ReportAt[pc].stage, ReportAt[pc].status) \in AllStages
  BY ReportDomain, ReportStages DEF WorkerTypeOK
<1>2. LabelTypeOK'
  BY <1>1, ConstantsAssumption, ChangeStageTyped DEF LabelTypeOK, StepTypeOK, ChangeStage
<1>3. StepTypeOK'
  BY <1>1, RowsTyped, UnchangedTyped DEF StepTypeOK, WorkerTypeOK
<1>4. WorkerTypeOK' /\ AttemptsUsedUp'
  BY ReportDomain, ConstantsAssumption, PlacesMembers DEF WorkerTypeOK, AttemptsUsedUp, ReportAt, Event
<1>5. UNCHANGED <<orchVars, gitVars, ghostVars, ops, crashes>>
  BY DEF boundVars, workerVars, orchVars, labelVars, stepVars, gitVars, ghostVars
<1> QED
  BY <1>1, <1>2, <1>3, <1>4, <1>5, UnchangedTyped

LEMMA AskApprovalTyped == TypeInv /\ AskApproval => TypeInv'
<1> SUFFICES ASSUME TypeInv, AskApproval PROVE TypeInv'
  OBVIOUS
<1> USE DEF TypeInv, TypeOK, AskApproval
<1>1. task \in Issue
  BY DEF WorkerTypeOK
<1>2. WorkerTypeOK' /\ AttemptsUsedUp'
  BY ConstantsAssumption, PlacesMembers DEF WorkerTypeOK, AttemptsUsedUp
<1>3. GhostTypeOK'
  BY <1>1 DEF GhostTypeOK
<1>4. UNCHANGED <<orchVars, labelVars, stepVars, gitVars, ops, crashes>>
  BY DEF boundVars, workerVars, orchVars, labelVars, stepVars, gitVars, ghostVars
<1> QED
  BY <1>1, <1>2, <1>3, <1>4, UnchangedTyped

LEMMA DecideTyped == TypeInv /\ Decide => TypeInv'
<1> SUFFICES ASSUME TypeInv, Decide PROVE TypeInv'
  OBVIOUS
<1> USE DEF TypeInv, TypeOK, Decide
<1>1. task \in Issue
  BY DEF WorkerTypeOK
<1>2. WorkerTypeOK' /\ AttemptsUsedUp'
  BY ConstantsAssumption, PlacesMembers DEF WorkerTypeOK, AttemptsUsedUp
<1>3. OrchTypeOK'
  BY DEF OrchTypeOK
<1>4. UNCHANGED <<labelVars, stepVars, gitVars, ghostVars, ops, crashes>>
  BY DEF boundVars, workerVars, orchVars, labelVars, stepVars, gitVars, ghostVars
<1> QED
  BY <1>1, <1>2, <1>3, <1>4, UnchangedTyped

LEMMA MergePRTyped == TypeInv /\ MergePR => TypeInv'
<1> SUFFICES ASSUME TypeInv, MergePR PROVE TypeInv'
  OBVIOUS
<1> USE DEF TypeInv, TypeOK, MergePR
<1>1. task \in Issue
  BY DEF WorkerTypeOK
<1>2. WorkerTypeOK' /\ AttemptsUsedUp'
  BY <1>1, ConstantsAssumption, PlacesMembers DEF WorkerTypeOK, AttemptsUsedUp
<1>3. GitTypeOK'
  BY <1>1 DEF GitTypeOK, MergeSucceeds, MergeFails, ClosePR, BranchState, PRState
<1>4. LabelTypeOK'
  BY <1>1 DEF LabelTypeOK, View, ClosedByMerge
<1>5. GhostTypeOK'
  BY <1>1 DEF GhostTypeOK, MergeSucceeds, MergeFails
<1>6. UNCHANGED <<orchVars, stepVars, ops, crashes>>
  BY DEF boundVars, workerVars, orchVars, labelVars, stepVars, gitVars, ghostVars
<1> QED
  BY <1>1, <1>2, <1>3, <1>4, <1>5, <1>6, UnchangedTyped

LEMMA FinishTyped == TypeInv /\ Finish => TypeInv'
<1> SUFFICES ASSUME TypeInv, Finish PROVE TypeInv'
  OBVIOUS
<1> USE DEF TypeInv, TypeOK, Finish
<1>1. WorkerTypeOK' /\ AttemptsUsedUp'
  BY ConstantsAssumption, PlacesMembers DEF WorkerTypeOK, AttemptsUsedUp
<1>2. GitTypeOK'
  BY DEF GitTypeOK, CheckoutDefault
<1>3. UNCHANGED <<orchVars, labelVars, stepVars, ghostVars, ops, crashes>>
  BY DEF boundVars, workerVars, orchVars, labelVars, stepVars, gitVars, ghostVars
<1> QED
  BY <1>1, <1>2, <1>3, UnchangedTyped

LEMMA GiveUpTyped == TypeInv /\ GiveUp => TypeInv'
<1> SUFFICES ASSUME TypeInv, GiveUp PROVE TypeInv'
  OBVIOUS
<1> USE DEF TypeInv, TypeOK, GiveUp
<1>1. task \in Issue
  BY DEF WorkerTypeOK
<1>2. WorkerTypeOK' /\ AttemptsUsedUp'
  BY ConstantsAssumption, PlacesMembers DEF WorkerTypeOK, AttemptsUsedUp
<1>3. GitTypeOK'
  BY <1>1 DEF GitTypeOK, RemoveBranch, CheckoutDefault, BranchState
<1>4. UNCHANGED <<orchVars, labelVars, stepVars, ghostVars, ops, crashes>>
  BY DEF boundVars, workerVars, orchVars, labelVars, stepVars, gitVars, ghostVars
<1> QED
  BY <1>1, <1>2, <1>3, <1>4, UnchangedTyped

LEMMA SyncTyped ==
    ASSUME TypeInv, NEW i \in Issue, Sync(i)
    PROVE  TypeInv'
<1> DEFINE refreshed == [cache EXCEPT ![i] = github[i]]
<1> USE DEF TypeInv, TypeOK, Sync
<1>1. refreshed \in [Issue -> View]
  BY DEF LabelTypeOK
<1>2. ASSUME current # i, SyncRepair(i) # NoTransition PROVE LabelTypeOK'
  <2>1. SyncRepair(i) \in AllStages
    BY <1>2, RepairStages DEF AllStages
  <2>2. ChangeStageOn(github, refreshed, i, SyncRepair(i))
    BY <1>2
  <2> QED
    BY <1>1, <2>1, <2>2, ConstantsAssumption, ChangeStageTyped DEF LabelTypeOK, StepTypeOK
<1>3. ASSUME ~(current # i /\ SyncRepair(i) # NoTransition) PROVE LabelTypeOK'
  BY <1>1, <1>3 DEF LabelTypeOK
<1>4. LabelTypeOK'
  BY <1>2, <1>3
<1>5. UNCHANGED <<workerVars, orchVars, stepVars, gitVars, ghostVars, ops, crashes>>
  BY DEF boundVars
<1> QED
  BY <1>4, <1>5, UnchangedTyped

(* The dashboard.                                                          *)

LEMMA OperationTyped ==
    ASSUME TypeInv, NEW op, Operation(op), UNCHANGED crashes
    PROVE  BoundTypeOK'
BY ConstantsAssumption DEF TypeInv, TypeOK, BoundTypeOK, Operation

LEMMA ApproveOpTyped ==
    ASSUME TypeInv, NEW i \in Issue, ApproveOp(i)
    PROVE  TypeInv'
<1> USE DEF TypeInv, TypeOK, ApproveOp
<1>1. LabelTypeOK'
  BY ConstantsAssumption, ChangeStageTyped DEF LabelTypeOK, StepTypeOK, ChangeStage, AllStages
<1>2. BoundTypeOK'
  BY OperationTyped
<1>3. UNCHANGED <<workerVars, orchVars, stepVars, gitVars, ghostVars>>
  BY DEF boundVars, workerVars, orchVars, labelVars, stepVars, gitVars, ghostVars
<1> QED
  BY <1>1, <1>2, <1>3, UnchangedTyped

LEMMA RejectOpTyped ==
    ASSUME TypeInv, NEW i \in Issue, RejectOp(i)
    PROVE  TypeInv'
<1> USE DEF TypeInv, TypeOK, RejectOp
<1>1. LabelTypeOK'
  BY ConstantsAssumption, ChangeStageTyped DEF LabelTypeOK, StepTypeOK, ChangeStage, AllStages
<1>2. BoundTypeOK'
  BY OperationTyped
<1>3. UNCHANGED <<workerVars, orchVars, stepVars, gitVars, ghostVars>>
  BY DEF boundVars, workerVars, orchVars, labelVars, stepVars, gitVars, ghostVars
<1> QED
  BY <1>1, <1>2, <1>3, UnchangedTyped

LEMMA BlockOpTyped ==
    ASSUME TypeInv, NEW i \in Issue, BlockOp(i)
    PROVE  TypeInv'
<1> USE DEF TypeInv, TypeOK, BlockOp
<1>1. LabelTypeOK'
  BY ConstantsAssumption, ChangeStageTyped DEF LabelTypeOK, StepTypeOK, ChangeStage, AllStages
<1>2. BoundTypeOK'
  BY OperationTyped
<1>3. UNCHANGED <<workerVars, orchVars, stepVars, gitVars, ghostVars>>
  BY DEF boundVars, workerVars, orchVars, labelVars, stepVars, gitVars, ghostVars
<1> QED
  BY <1>1, <1>2, <1>3, UnchangedTyped

LEMMA UnblockOpTyped ==
    ASSUME TypeInv, NEW i \in Issue, UnblockOp(i)
    PROVE  TypeInv'
<1> USE DEF TypeInv, TypeOK, UnblockOp
<1>1. LabelTypeOK'
  BY ConstantsAssumption, ChangeStageTyped DEF LabelTypeOK, StepTypeOK, ChangeStage, AllStages
<1>2. BoundTypeOK'
  BY OperationTyped
<1>3. UNCHANGED <<workerVars, orchVars, stepVars, gitVars, ghostVars>>
  BY DEF boundVars, workerVars, orchVars, labelVars, stepVars, gitVars, ghostVars
<1> QED
  BY <1>1, <1>2, <1>3, UnchangedTyped

LEMMA RetryOpTyped ==
    ASSUME TypeInv, NEW i \in Issue, RetryOp(i)
    PROVE  TypeInv'
<1> USE DEF TypeInv, TypeOK, RetryOp
<1>1. LabelTypeOK'
  BY ConstantsAssumption, ChangeStageTyped DEF LabelTypeOK, StepTypeOK, ChangeStage, AllStages
<1>2. BoundTypeOK'
  BY OperationTyped
<1>3. StepTypeOK' /\ row' \in {"none", "open", "superseded", "deleted"}
  BY RowsTyped DEF WorkerTypeOK, DeleteSteps
<1>4. WorkerTypeOK' /\ AttemptsUsedUp'
  BY <1>3 DEF WorkerTypeOK, AttemptsUsedUp
<1>5. GitTypeOK'
  BY DEF GitTypeOK, DropBranchAndPR, ClosePR, RemoveBranch, CheckoutDefault, BranchState, PRState
<1>6. UNCHANGED <<orchVars, ghostVars>>
  BY DEF boundVars, workerVars, orchVars, labelVars, stepVars, gitVars, ghostVars
<1> QED
  BY <1>1, <1>2, <1>3, <1>4, <1>5, <1>6, UnchangedTyped

LEMMA RestartFullOpTyped ==
    ASSUME TypeInv, NEW i \in Issue, RestartFullOp(i)
    PROVE  TypeInv'
<1> USE DEF TypeInv, TypeOK, RestartFullOp
<1>1. LabelTypeOK'
  BY ConstantsAssumption, ChangeStageTyped DEF LabelTypeOK, StepTypeOK, ChangeStage, AllStages, labelVars
<1>2. BoundTypeOK'
  BY OperationTyped
<1>3. StepTypeOK' /\ row' \in {"none", "open", "superseded", "deleted"}
  BY RowsTyped DEF WorkerTypeOK, stepVars
<1>4. WorkerTypeOK' /\ AttemptsUsedUp'
  BY <1>3 DEF WorkerTypeOK, AttemptsUsedUp
<1>5. GitTypeOK'
  BY DEF GitTypeOK, DropBranchAndPR, ClosePR, RemoveBranch, CheckoutDefault, BranchState, PRState
<1>6. UNCHANGED <<orchVars, ghostVars>>
  BY DEF boundVars, workerVars, orchVars, labelVars, stepVars, gitVars, ghostVars
<1> QED
  BY <1>1, <1>2, <1>3, <1>4, <1>5, <1>6, UnchangedTyped

LEMMA RestartStageOpTyped ==
    ASSUME TypeInv, NEW i \in Issue, RestartStageOp(i)
    PROVE  TypeInv'
<1> USE DEF TypeInv, TypeOK, RestartStageOp
<1>1. StepTypeOK'
  BY RowsTyped DEF WorkerTypeOK
<1>2. BoundTypeOK'
  BY OperationTyped
<1>3. UNCHANGED <<workerVars, orchVars, labelVars, gitVars, ghostVars>>
  BY DEF boundVars, workerVars, orchVars, labelVars, stepVars, gitVars, ghostVars
<1> QED
  BY <1>1, <1>2, <1>3, UnchangedTyped

LEMMA ProcessOpTyped ==
    ASSUME TypeInv, NEW i \in Issue, ProcessOp(i)
    PROVE  TypeInv'
<1> USE DEF TypeInv, TypeOK, ProcessOp
<1>1. OrchTypeOK'
  BY DEF OrchTypeOK
<1>2. BoundTypeOK'
  BY OperationTyped
<1>3. UNCHANGED <<workerVars, labelVars, stepVars, gitVars, ghostVars>>
  BY DEF boundVars, workerVars, orchVars, labelVars, stepVars, gitVars, ghostVars
<1> QED
  BY <1>1, <1>2, <1>3, UnchangedTyped

LEMMA DeclineOpTyped ==
    ASSUME TypeInv, NEW i \in Issue, DeclineOp(i)
    PROVE  TypeInv'
<1> USE DEF TypeInv, TypeOK, DeclineOp
<1>1. LabelTypeOK'
  BY ConstantsAssumption, ChangeStageTyped DEF LabelTypeOK, StepTypeOK, ChangeStage, AllStages, labelVars
<1>2. BoundTypeOK'
  BY OperationTyped
<1>3. StepTypeOK' /\ row' \in {"none", "open", "superseded", "deleted"}
  BY RowsTyped DEF WorkerTypeOK, RecordStep, DeleteSteps
<1>4. WorkerTypeOK' /\ AttemptsUsedUp'
  BY <1>3 DEF WorkerTypeOK, AttemptsUsedUp
<1>5. OrchTypeOK'
  BY DEF OrchTypeOK
<1>6. UNCHANGED <<gitVars, ghostVars>>
  BY DEF boundVars, workerVars, orchVars, labelVars, stepVars, gitVars, ghostVars
<1> QED
  BY <1>1, <1>2, <1>3, <1>4, <1>5, <1>6, UnchangedTyped

LEMMA ApproveMergeOpTyped ==
    ASSUME TypeInv, NEW i \in Issue, ApproveMergeOp(i)
    PROVE  TypeInv'
<1> USE DEF TypeInv, TypeOK, ApproveMergeOp
<1>1. LabelTypeOK'
  BY ConstantsAssumption, ChangeStageTyped DEF LabelTypeOK, StepTypeOK, ChangeStage, AllStages, labelVars
<1>2. BoundTypeOK'
  BY OperationTyped
<1>3. StepTypeOK' /\ row' \in {"none", "open", "superseded", "deleted"}
  BY RowsTyped DEF WorkerTypeOK, RecordStep
<1>4. WorkerTypeOK' /\ AttemptsUsedUp'
  BY <1>3 DEF WorkerTypeOK, AttemptsUsedUp
<1>5. OrchTypeOK'
  BY DEF OrchTypeOK
<1>6. GhostTypeOK'
  BY DEF GhostTypeOK
<1>7. UNCHANGED <<gitVars>>
  BY DEF boundVars, workerVars, orchVars, labelVars, stepVars, gitVars, ghostVars
<1> QED
  BY <1>1, <1>2, <1>3, <1>4, <1>5, <1>6, <1>7, UnchangedTyped

LEMMA DirectMergeTyped == TypeInv /\ DirectMerge => TypeInv'
<1> SUFFICES ASSUME TypeInv, DirectMerge PROVE TypeInv'
  OBVIOUS
<1> USE DEF TypeInv, TypeOK, DirectMerge
<1>1. direct \in Issue /\ Done \in AllStages /\ Failed \in AllStages
  BY DEF OrchTypeOK, AllStages
<1>2. ClosedByMerge(direct) \in [Issue -> View]
  BY <1>1 DEF LabelTypeOK, View, ClosedByMerge
<1>3. LabelTypeOK'
  BY <1>1, <1>2, ConstantsAssumption, ChangeStageTyped DEF LabelTypeOK, StepTypeOK, ChangeStage
<1>4. GitTypeOK'
  BY <1>1 DEF GitTypeOK, MergeSucceeds, MergeFails, ClosePR, CheckoutDefault, BranchState, PRState
<1>5. GhostTypeOK'
  BY <1>1 DEF GhostTypeOK, MergeSucceeds, MergeFails
<1>6. OrchTypeOK'
  BY DEF OrchTypeOK
<1>7. UNCHANGED <<workerVars, stepVars, ops, crashes>>
  BY DEF boundVars
<1> QED
  BY <1>3, <1>4, <1>5, <1>6, <1>7, UnchangedTyped

LEMMA ToggleOpTyped == TypeInv /\ ToggleOp => TypeInv'
<1> SUFFICES ASSUME TypeInv, ToggleOp PROVE TypeInv'
  OBVIOUS
<1> USE DEF TypeInv, TypeOK, ToggleOp
<1>1. OrchTypeOK'
  BY DEF OrchTypeOK
<1>2. BoundTypeOK'
  BY OperationTyped
<1>3. UNCHANGED <<workerVars, labelVars, stepVars, gitVars, ghostVars>>
  BY DEF boundVars, workerVars, orchVars, labelVars, stepVars, gitVars, ghostVars
<1> QED
  BY <1>1, <1>2, <1>3, UnchangedTyped

LEMMA YoloOpTyped == TypeInv /\ YoloOp => TypeInv'
<1> SUFFICES ASSUME TypeInv, YoloOp PROVE TypeInv'
  OBVIOUS
<1> USE DEF TypeInv, TypeOK, YoloOp
<1>1. OrchTypeOK'
  BY DEF OrchTypeOK
<1>2. BoundTypeOK'
  BY OperationTyped
<1>3. UNCHANGED <<workerVars, labelVars, stepVars, gitVars, ghostVars>>
  BY DEF boundVars, workerVars, orchVars, labelVars, stepVars, gitVars, ghostVars
<1> QED
  BY <1>1, <1>2, <1>3, UnchangedTyped

LEMMA CloseOpTyped ==
    ASSUME TypeInv, NEW i \in Issue, CloseOp(i)
    PROVE  TypeInv'
<1> USE DEF TypeInv, TypeOK, CloseOp
<1>1. LabelTypeOK'
  BY DEF LabelTypeOK, View
<1>2. GhostTypeOK'
  BY DEF GhostTypeOK
<1>3. BoundTypeOK'
  BY OperationTyped
<1>4. UNCHANGED <<workerVars, orchVars, stepVars, gitVars>>
  BY DEF boundVars, workerVars, orchVars, labelVars, stepVars, gitVars, ghostVars
<1> QED
  BY <1>1, <1>2, <1>3, <1>4, UnchangedTyped

LEMMA ReopenOpTyped ==
    ASSUME TypeInv, NEW i \in Issue, ReopenOp(i)
    PROVE  TypeInv'
<1> USE DEF TypeInv, TypeOK, ReopenOp
<1>1. LabelTypeOK'
  BY DEF LabelTypeOK, View
<1>2. BoundTypeOK'
  BY OperationTyped
<1>3. UNCHANGED <<workerVars, orchVars, stepVars, gitVars, ghostVars>>
  BY DEF boundVars, workerVars, orchVars, labelVars, stepVars, gitVars, ghostVars
<1> QED
  BY <1>1, <1>2, <1>3, UnchangedTyped

LEMMA ShutdownTyped == TypeInv /\ Shutdown => TypeInv'
<1> SUFFICES ASSUME TypeInv, Shutdown PROVE TypeInv'
  OBVIOUS
<1> USE DEF TypeInv, TypeOK, Shutdown
<1>1. OrchTypeOK'
  BY DEF OrchTypeOK
<1>2. BoundTypeOK'
  BY OperationTyped
<1>3. UNCHANGED <<workerVars, labelVars, stepVars, gitVars, ghostVars>>
  BY DEF boundVars, workerVars, orchVars, labelVars, stepVars, gitVars, ghostVars
<1> QED
  BY <1>1, <1>2, <1>3, UnchangedTyped

LEMMA CrashTyped == TypeInv /\ Crash => TypeInv'
<1> SUFFICES ASSUME TypeInv, Crash PROVE TypeInv'
  OBVIOUS
<1> USE DEF TypeInv, TypeOK, Crash
<1>1. WorkerTypeOK' /\ AttemptsUsedUp'
  BY ConstantsAssumption, PlacesMembers DEF WorkerTypeOK, AttemptsUsedUp
<1>2. OrchTypeOK'
  BY ConstantsAssumption, Zenon DEF OrchTypeOK
<1>3. BoundTypeOK'
  BY ConstantsAssumption DEF BoundTypeOK
<1>4. UNCHANGED <<labelVars, stepVars, gitVars, ghostVars>>
  BY DEF boundVars, workerVars, orchVars, labelVars, stepVars, gitVars, ghostVars
<1> QED
  BY <1>1, <1>2, <1>3, <1>4, UnchangedTyped

LEMMA RestartTyped == TypeInv /\ Restart => TypeInv'
<1> SUFFICES ASSUME TypeInv, Restart PROVE TypeInv'
  OBVIOUS
<1> USE DEF TypeInv, TypeOK, Restart
<1>1. WorkerTypeOK' /\ AttemptsUsedUp'
  BY ConstantsAssumption, PlacesMembers DEF WorkerTypeOK, AttemptsUsedUp
<1>2. LabelTypeOK'
  BY DEF LabelTypeOK
<1>3. UNCHANGED <<orchVars, stepVars, gitVars, ghostVars, ops, crashes>>
  BY DEF boundVars, workerVars, orchVars, labelVars, stepVars, gitVars, ghostVars
<1> QED
  BY <1>1, <1>2, <1>3, UnchangedTyped

\* What any step keeps, action by action.
LEMMA TypeInvStep == TypeInv /\ [Next]_vars => TypeInv'
<1> SUFFICES ASSUME TypeInv, [Next]_vars PROVE TypeInv'
  OBVIOUS
<1>1. CASE Orchestrator
  BY <1>1, SearchTyped, PickTyped, BeginTyped, ReturnTyped, SettleTyped DEF Orchestrator
<1>2. CASE Worker
  BY <1>2, StartStepTyped, FailStepTyped, FinishPlanningTyped, FinishCodingTyped,
     FinishFixTyped, FinishReviewTyped, PushFixesTyped, StartCreatePRTyped,
     FinishCreatePRTyped, CheckCITyped, ReportTyped, AskApprovalTyped, DecideTyped, MergePRTyped,
     FinishTyped, GiveUpTyped DEF Worker
<1>3. CASE User
  BY <1>3, ApproveOpTyped, RejectOpTyped, BlockOpTyped, UnblockOpTyped, RetryOpTyped,
     RestartFullOpTyped, RestartStageOpTyped, ProcessOpTyped, DeclineOpTyped,
     ApproveMergeOpTyped, CloseOpTyped, ReopenOpTyped, ToggleOpTyped, YoloOpTyped,
     DirectMergeTyped DEF User, Redo, Queue, Judge
<1>4. CASE \E i \in Issue : Sync(i)
  BY <1>4, SyncTyped
<1>5. CASE Shutdown \/ Crash \/ Restart
  BY <1>5, ShutdownTyped, CrashTyped, RestartTyped
<1>6. CASE UNCHANGED vars
  <2>1. UNCHANGED <<workerVars, orchVars, labelVars, stepVars, gitVars, ghostVars, ops, crashes>>
    BY <1>6 DEF vars, boundVars
  <2> QED
    BY <2>1, UnchangedTyped DEF TypeInv, TypeOK
<1> QED
  BY <1>1, <1>2, <1>3, <1>4, <1>5, <1>6 DEF Next

\* Every reachable state is well typed: for any sprint, the retries of CI stay
\* within pipeline.max_retries and the worker holds a ticket exactly while it
\* works, whatever users, failing calls and crashes do.
THEOREM TypeCorrect == Spec => []TypeOK
<1>1. TypeInv => TypeOK
  BY DEF TypeInv
<1> QED
  BY <1>1, TypeInvInit, TypeInvStep, PTL DEF Spec

-----------------------------------------------------------------------------
(* Every approval is spent at most once.                                   *)

\* Steps that give and use no approval, and do not bring the worker nearer
\* to a merge, keep the balance.
LEMMA BalanceKept ==
    ASSUME ApprovalSpent, TypeInv,
           UNCHANGED <<approvals, mergeCalls>>,
           decision' = "approve" => decision = "approve",
           pc' \in {"approved", "merge"} => pc \in {"approved", "merge"}
    PROVE  ApprovalSpent'
BY DEF ApprovalSpent, TypeInv, TypeOK, GhostTypeOK

LEMMA ApprovalSpentStep == TypeInv /\ ApprovalSpent /\ [Next]_vars => ApprovalSpent'
<1> SUFFICES ASSUME TypeInv, ApprovalSpent, [Next]_vars PROVE ApprovalSpent'
  OBVIOUS
<1> USE DEF workerVars, orchVars, ghostVars
<1>1. CASE Search
  BY <1>1, BalanceKept DEF Search
<1>2. CASE Pick
  BY <1>2, BalanceKept DEF Pick
<1>3. CASE Begin
  <2>1. StartAt(ResumeFrom(last[task])) \notin {"approved", "merge"}
    BY StartPlaces, ResumeFromNat
  <2> QED
    BY <1>3, <2>1, BalanceKept DEF Begin
<1>4. CASE Return
  BY <1>4, BalanceKept DEF Return
<1>5. CASE Settle
  BY <1>5, BalanceKept DEF Settle
<1>6. CASE StartStep
  BY <1>6, BalanceKept DEF StartStep
<1>7. CASE FailStep
  BY <1>7, BalanceKept DEF FailStep
<1>8. CASE FinishPlanning
  BY <1>8, BalanceKept DEF FinishPlanning
<1>9. CASE FinishCoding
  BY <1>9, BalanceKept DEF FinishCoding, CodingNext
<1>10. CASE FinishFix
  BY <1>10, BalanceKept DEF FinishFix, FixNext
<1>11. CASE FinishReview
  BY <1>11, BalanceKept DEF FinishReview, ReviewNext
<1>12. CASE PushFixes
  BY <1>12, BalanceKept DEF PushFixes, PushNext
<1>13. CASE StartCreatePR
  BY <1>13, BalanceKept DEF StartCreatePR
<1>14. CASE FinishCreatePR
  BY <1>14, BalanceKept DEF FinishCreatePR
<1>15. CASE CheckCI
  BY <1>15, BalanceKept DEF CheckCI, FailedCheck
<1>16. CASE Report
  BY <1>16, BalanceKept, ReportDomain DEF Report, ReportAt, Event
<1>17. CASE AskApproval \/ Decide
  BY <1>17 DEF AskApproval, Decide, ApprovalSpent, TypeInv, TypeOK, GhostTypeOK
<1>18. CASE MergePR
  BY <1>18 DEF MergePR, ApprovalSpent, TypeInv, TypeOK, GhostTypeOK
<1>19. CASE Finish
  BY <1>19, BalanceKept DEF Finish
<1>20. CASE GiveUp
  BY <1>20, BalanceKept DEF GiveUp
<1>21. CASE \E i \in Issue : ApproveOp(i)
  BY <1>21, BalanceKept DEF ApproveOp
<1>22. CASE \E i \in Issue : RejectOp(i)
  BY <1>22, BalanceKept DEF RejectOp
<1>23. CASE \E i \in Issue : BlockOp(i)
  BY <1>23, BalanceKept DEF BlockOp
<1>24. CASE \E i \in Issue : UnblockOp(i)
  BY <1>24, BalanceKept DEF UnblockOp
<1>25. CASE \E i \in Issue : RetryOp(i)
  BY <1>25, BalanceKept DEF RetryOp
<1>26. CASE \E i \in Issue : RestartFullOp(i)
  BY <1>26, BalanceKept DEF RestartFullOp
<1>27. CASE \E i \in Issue : RestartStageOp(i)
  BY <1>27, BalanceKept DEF RestartStageOp
<1>28. CASE \E i \in Issue : ProcessOp(i)
  BY <1>28, BalanceKept DEF ProcessOp
<1>29. CASE \E i \in Issue : DeclineOp(i)
  BY <1>29, BalanceKept DEF DeclineOp
<1>30. CASE \E i \in Issue : ApproveMergeOp(i)
  BY <1>30 DEF ApproveMergeOp, Accepts, ApprovalSpent, TypeInv, TypeOK, GhostTypeOK
<1>31. CASE \E i \in Issue : CloseOp(i)
  BY <1>31, BalanceKept DEF CloseOp
<1>32. CASE \E i \in Issue : ReopenOp(i)
  BY <1>32, BalanceKept DEF ReopenOp
<1>33. CASE \E i \in Issue : Sync(i)
  BY <1>33, BalanceKept DEF Sync
<1>34. CASE DirectMerge
  BY <1>34, BalanceKept DEF DirectMerge
<1>35. CASE ToggleOp
  BY <1>35, BalanceKept DEF ToggleOp
<1>36. CASE YoloOp
  BY <1>36, BalanceKept DEF YoloOp
<1>37. CASE Shutdown
  BY <1>37, BalanceKept DEF Shutdown
<1>38. CASE Crash
  BY <1>38, BalanceKept DEF Crash
<1>39. CASE Restart
  BY <1>39, BalanceKept DEF Restart
<1>40. CASE UNCHANGED vars
  BY <1>40, BalanceKept DEF vars
<1> QED
  BY <1>1, <1>2, <1>3, <1>4, <1>5, <1>6, <1>7, <1>8, <1>9, <1>10, <1>11,
     <1>12, <1>13, <1>14, <1>15, <1>16, <1>17, <1>18, <1>19, <1>20, <1>21,
     <1>22, <1>23, <1>24, <1>25, <1>26, <1>27, <1>28, <1>29, <1>30, <1>31,
     <1>32, <1>33, <1>34, <1>35, <1>36, <1>37, <1>38, <1>39, <1>40
  DEF Next, Orchestrator, Worker, User, Redo, Queue, Judge

\* The worker never merges more often than it was approved to, for any sprint
\* and any number of declines, fixes, crashes and decisions sent in between.
THEOREM ApprovalsBoundMerges == Spec => []ApprovalSpent
<1>1. Init => ApprovalSpent
  BY DEF Init, ApprovalSpent
<1> QED
  BY <1>1, ApprovalSpentStep, TypeInvInit, TypeInvStep, PTL DEF Spec

-----------------------------------------------------------------------------
(* Done is earned.  A closed issue is labelled done by the synchronisation, *)
(* so being closed must be earned too; and so must the label of a worker    *)
(* that has merged, but not yet reported it.                                *)

EarnedInv ==
    /\ DoneIsEarned
    /\ \A i \in Issue : ~github[i].open => i \in earned
    /\ pc = "merged" => task \in earned

\* The only worker event that leads to Done is the one sent after a merge.
LEMMA OnlyMergeReportsDone ==
    \A p \in DOMAIN ReportAt :
        DecideNextStage(ReportAt[p].stage, ReportAt[p].status) = Done => p = "merged"
<1> USE DEF ReportAt, Event, DecideNextStage, Done, Code, Review, CreatePR, CheckPipeline,
            Approve, Merge, Failed, NeedsUser, NoTransition
<1>1. \A p \in {"planned", "implemented", "rejected", "reviewed"} :
        DecideNextStage(ReportAt[p].stage, ReportAt[p].status) # Done
  OBVIOUS
<1>2. \A p \in {"prCreated", "ciRetry", "ciCoding", "ciExhausted", "ciPassed", "approved"} :
        DecideNextStage(ReportAt[p].stage, ReportAt[p].status) # Done
  OBVIOUS
<1>3. \A p \in {"declined", "declineNoted", "declineFixed"} :
        DecideNextStage(ReportAt[p].stage, ReportAt[p].status) # Done
  OBVIOUS
<1>4. /\ ReportAt["reRejected"].stage = ReportAt["rejected"].stage
      /\ ReportAt["reRejected"].status = ReportAt["rejected"].status
      /\ ReportAt["declineReviewed"].stage = ReportAt["reviewed"].stage
      /\ ReportAt["declineReviewed"].status = ReportAt["reviewed"].status
  OBVIOUS
<1> HIDE DEF ReportAt, DecideNextStage, Done
<1>5. \A p \in {"reRejected", "declineReviewed"} :
        DecideNextStage(ReportAt[p].stage, ReportAt[p].status) # Done
  BY <1>1, <1>4
<1> QED
  BY <1>1, <1>2, <1>3, <1>4, <1>5, ReportDomain

\* The synchronisation labels only closed issues done.
LEMMA OnlyClosedRepairedToDone ==
    \A i \in Issue : SyncRepair(i) = Done => ~github[i].open
BY Zenon DEF SyncRepair, Done, Merge, NoTransition

\* A stage change on a state of GitHub where done and closed are earned
\* leaves them earned, unless it labels an unearned issue done.
LEMMA StageChangeEarned ==
    ASSUME NEW hub \in [Issue -> View], NEW store, NEW i \in Issue, NEW stage,
           \A j \in Issue : hub[j].label = Done \/ ~hub[j].open => j \in earned',
           stage = Done => i \in earned',
           ChangeStageOn(hub, store, i, stage)
    PROVE  \A j \in Issue : github'[j].label = Done \/ ~github'[j].open => j \in earned'
<1> SUFFICES ASSUME NEW j \in Issue, github'[j].label = Done \/ ~github'[j].open
             PROVE  j \in earned'
  OBVIOUS
<1>1. hub[i] \in View /\ hub[j] \in View
  OBVIOUS
<1>2. CASE github' = [hub EXCEPT ![i] = Staged(hub[i], stage)]
  BY <1>1, <1>2 DEF Staged
<1>3. CASE \E label \in {hub[i].label, NoStage, stage} : github' = [hub EXCEPT ![i].label = label]
  <2>1. PICK label \in {hub[i].label, NoStage, stage} : github' = [hub EXCEPT ![i].label = label]
    BY <1>3
  <2>2. github'[j].open = hub[j].open /\ github'[j].label = (IF j = i THEN label ELSE hub[j].label)
    BY <1>1, <2>1 DEF View
  <2>3. label = Done => stage = Done \/ hub[i].label = Done
    BY DEF NoStage, Done
  <2> QED
    BY <2>2, <2>3
<1> QED
  BY <1>2, <1>3 DEF ChangeStageOn

\* Steps that leave GitHub alone and do not merge.
LEMMA EarnedKept ==
    ASSUME EarnedInv, UNCHANGED github, earned \subseteq earned',
           pc' = "merged" => pc = "merged" /\ task' = task
    PROVE  EarnedInv'
BY DEF EarnedInv, DoneIsEarned

\* Steps that relabel one issue, not to Done unless it is earned.
LEMMA EarnedRelabelled ==
    ASSUME EarnedInv, TypeInv, NEW i \in Issue, NEW stage, ChangeStage(i, stage),
           earned \subseteq earned', stage = Done => i \in earned',
           pc' = "merged" => pc = "merged" /\ task' = task
    PROVE  EarnedInv'
<1>1. \A j \in Issue : github[j].label = Done \/ ~github[j].open => j \in earned'
  BY DEF EarnedInv, DoneIsEarned
<1>2. \A j \in Issue : github'[j].label = Done \/ ~github'[j].open => j \in earned'
  BY <1>1, StageChangeEarned DEF TypeInv, TypeOK, LabelTypeOK, ChangeStage
<1> QED
  BY <1>2 DEF EarnedInv, DoneIsEarned

LEMMA EarnedStep == TypeInv /\ EarnedInv /\ [Next]_vars => EarnedInv'
<1> SUFFICES ASSUME TypeInv, EarnedInv, [Next]_vars PROVE EarnedInv'
  OBVIOUS
<1> USE DEF workerVars, orchVars, labelVars, ghostVars
<1>0. pc \notin {"search", "pick", "down"} => task \in Issue
  BY DEF TypeInv, TypeOK, WorkerTypeOK
<1>1. CASE Search
  BY <1>1, EarnedKept DEF Search
<1>2. CASE Pick
  <2>1. candidates \subseteq Issue /\ Plan # Done
    BY DEF TypeInv, TypeOK, WorkerTypeOK, Plan, Done
  <2>2. PICK i \in candidates : ChangeStage(i, Plan)
    BY <1>2 DEF Pick
  <2> QED
    BY <1>2, <2>1, <2>2, EarnedRelabelled DEF Pick
<1>3. CASE Begin
  <2>1. StartAt(ResumeFrom(last[task])) # "merged"
    BY StartPlaces, ResumeFromNat
  <2> QED
    BY <1>3, <2>1, EarnedKept DEF Begin
<1>4. CASE Return
  BY <1>4, EarnedKept DEF Return
<1>5. CASE Settle
  <2>1. CASE result = "done"
    BY <1>5, <2>1, EarnedKept DEF Settle
  <2>2. CASE result # "done"
    <3>1. OutcomeStage(result) = Done => task \in earned'
      BY <1>5 DEF Settle, OutcomeStage, Done, Failed
    <3> QED
      BY <1>5, <1>0, <2>2, <3>1, EarnedRelabelled DEF Settle
  <2> QED
    BY <2>1, <2>2
<1>6. CASE StartStep
  BY <1>6, EarnedKept DEF StartStep
<1>7. CASE FailStep
  BY <1>7, EarnedKept DEF FailStep
<1>8. CASE FinishPlanning
  BY <1>8, EarnedKept DEF FinishPlanning
<1>9. CASE FinishCoding
  BY <1>9, EarnedKept DEF FinishCoding, CodingNext
<1>10. CASE FinishFix
  BY <1>10, EarnedKept DEF FinishFix, FixNext
<1>11. CASE FinishReview
  BY <1>11, EarnedKept DEF FinishReview, ReviewNext
<1>12. CASE PushFixes
  BY <1>12, EarnedKept DEF PushFixes, PushNext
<1>13. CASE StartCreatePR
  BY <1>13, EarnedKept DEF StartCreatePR
<1>14. CASE FinishCreatePR
  BY <1>14, EarnedKept DEF FinishCreatePR
<1>15. CASE CheckCI
  BY <1>15, EarnedKept DEF CheckCI, FailedCheck
<1>16. CASE Report
  <2>1. ChangeStage(task, DecideNextStage(ReportAt[pc].stage, ReportAt[pc].status))
    BY <1>16 DEF Report
  <2>2. DecideNextStage(ReportAt[pc].stage, ReportAt[pc].status) = Done => task \in earned'
    BY <1>16, OnlyMergeReportsDone DEF Report, EarnedInv
  <2>3. task \in Issue /\ pc' # "merged"
    BY <1>16, <1>0, ReportDomain DEF Report, ReportAt, Event
  <2>4. earned' = earned
    BY <1>16 DEF Report
  <2> QED
    BY <2>1, <2>2, <2>3, <2>4, EarnedRelabelled
<1>17. CASE AskApproval \/ Decide
  BY <1>17, EarnedKept DEF AskApproval, Decide
<1>18. CASE MergePR
  <2>1. task' = task /\ (pc' = "merged" => task \in earned') /\ earned \subseteq earned'
    BY <1>18 DEF MergePR, MergeSucceeds, MergeFails
  <2>2. \A j \in Issue : github'[j].label = Done \/ ~github'[j].open => j \in earned'
    BY <1>18, <1>0 DEF MergePR, MergeSucceeds, ClosedByMerge, MergeFails, EarnedInv, DoneIsEarned,
                     TypeInv, TypeOK, LabelTypeOK, View
  <2> QED
    BY <2>1, <2>2 DEF EarnedInv, DoneIsEarned
<1>19. CASE Finish
  BY <1>19, EarnedKept DEF Finish
<1>20. CASE GiveUp
  BY <1>20, EarnedKept DEF GiveUp
<1>21. CASE \E i \in Issue : ApproveOp(i)
  BY <1>21, EarnedRelabelled DEF ApproveOp, Approve, Done
<1>22. CASE \E i \in Issue : RejectOp(i)
  BY <1>22, EarnedRelabelled DEF RejectOp, Backlog, Done
<1>23. CASE \E i \in Issue : BlockOp(i)
  BY <1>23, EarnedRelabelled DEF BlockOp, Blocked, Done
<1>24. CASE \E i \in Issue : UnblockOp(i)
  BY <1>24, EarnedRelabelled DEF UnblockOp, Backlog, Done
<1>25. CASE \E i \in Issue : RetryOp(i)
  BY <1>25, EarnedRelabelled DEF RetryOp, Backlog, Done
<1>26. CASE \E i \in Issue : RestartFullOp(i)
  BY <1>26, EarnedRelabelled, EarnedKept DEF RestartFullOp, Backlog, Done
<1>27. CASE \E i \in Issue : RestartStageOp(i)
  BY <1>27, EarnedKept DEF RestartStageOp
<1>28. CASE \E i \in Issue : ProcessOp(i)
  BY <1>28, EarnedKept DEF ProcessOp
<1>29. CASE \E i \in Issue : DeclineOp(i)
  BY <1>29, EarnedRelabelled, EarnedKept DEF DeclineOp, Code, Done
<1>30. CASE \E i \in Issue : ApproveMergeOp(i)
  BY <1>30, EarnedRelabelled, EarnedKept DEF ApproveMergeOp, Merge, Done
<1>31. CASE \E i \in Issue : CloseOp(i)
  BY <1>31 DEF CloseOp, EarnedInv, DoneIsEarned, TypeInv, TypeOK, LabelTypeOK, View
<1>32. CASE \E i \in Issue : ReopenOp(i)
  BY <1>32 DEF ReopenOp, EarnedInv, DoneIsEarned, TypeInv, TypeOK, LabelTypeOK, View
<1>33. CASE \E i \in Issue : Sync(i)
  <2>1. PICK i \in Issue : Sync(i)
    BY <1>33
  <2> DEFINE refreshed == [cache EXCEPT ![i] = github[i]]
  <2>2. CASE current # i /\ SyncRepair(i) # NoTransition
    <3>1. ChangeStageOn(github, refreshed, i, SyncRepair(i))
      BY <2>1, <2>2 DEF Sync
    <3>2. UNCHANGED <<pc, task, earned>>
      BY <2>1 DEF Sync
    <3>3. \A j \in Issue : github[j].label = Done \/ ~github[j].open => j \in earned'
      BY <3>2 DEF EarnedInv, DoneIsEarned
    <3>4. \A j \in Issue : github'[j].label = Done \/ ~github'[j].open => j \in earned'
      BY <3>1, <3>3, OnlyClosedRepairedToDone, StageChangeEarned DEF TypeInv, TypeOK, LabelTypeOK
    <3> QED
      BY <3>2, <3>4 DEF EarnedInv, DoneIsEarned
  <2>3. CASE ~(current # i /\ SyncRepair(i) # NoTransition)
    BY <2>1, <2>3, EarnedKept DEF Sync
  <2> QED
    BY <2>2, <2>3
<1>34. CASE DirectMerge
  <2>1. direct \in Issue /\ earned \subseteq earned' /\ UNCHANGED <<pc, task>>
    BY <1>34 DEF DirectMerge, MergeSucceeds, MergeFails, TypeInv, TypeOK, OrchTypeOK
  <2>2. CASE MergeSucceeds(direct) /\ ChangeStageOn(ClosedByMerge(direct), cache, direct, Done)
    <3>1. direct \in earned'
      BY <2>2 DEF MergeSucceeds
    <3>2. ClosedByMerge(direct) \in [Issue -> View]
      BY <2>1 DEF ClosedByMerge, TypeInv, TypeOK, LabelTypeOK, View
    <3>3. \A j \in Issue :
            ClosedByMerge(direct)[j].label = Done \/ ~ClosedByMerge(direct)[j].open => j \in earned'
      BY <2>1, <3>1 DEF ClosedByMerge, EarnedInv, DoneIsEarned, TypeInv, TypeOK, LabelTypeOK, View
    <3>4. \A j \in Issue : github'[j].label = Done \/ ~github'[j].open => j \in earned'
      BY <2>1, <2>2, <3>1, <3>2, <3>3, StageChangeEarned
    <3> QED
      BY <2>1, <3>4 DEF EarnedInv, DoneIsEarned
  <2>3. CASE ChangeStage(direct, Failed)
    BY <2>1, <2>3, EarnedRelabelled DEF Failed, Done
  <2> QED
    BY <1>34, <2>2, <2>3 DEF DirectMerge
<1>35. CASE ToggleOp
  BY <1>35, EarnedKept DEF ToggleOp
<1>36. CASE YoloOp
  BY <1>36, EarnedKept DEF YoloOp
<1>37. CASE Shutdown
  BY <1>37, EarnedKept DEF Shutdown
<1>38. CASE Crash
  BY <1>38, EarnedKept DEF Crash
<1>39. CASE Restart
  BY <1>39, EarnedKept DEF Restart
<1>40. CASE UNCHANGED vars
  BY <1>40, EarnedKept DEF vars
<1> QED
  BY <1>1, <1>2, <1>3, <1>4, <1>5, <1>6, <1>7, <1>8, <1>9, <1>10, <1>11,
     <1>12, <1>13, <1>14, <1>15, <1>16, <1>17, <1>18, <1>19, <1>20, <1>21,
     <1>22, <1>23, <1>24, <1>25, <1>26, <1>27, <1>28, <1>29, <1>30, <1>31,
     <1>32, <1>33, <1>34, <1>35, <1>36, <1>37, <1>38, <1>39, <1>40
  DEF Next, Orchestrator, Worker, User, Redo, Queue, Judge

\* No issue is labelled done that was not merged, found already done or closed
\* by a user: not by the worker, the handlers, the synchronisation, a direct
\* merge beside the worker, a failing call or a crash at any point.
THEOREM DoneAlwaysEarned == Spec => []DoneIsEarned
<1>1. Init => EarnedInv
  <2> SUFFICES ASSUME Init PROVE EarnedInv
    OBVIOUS
  <2>1. github = [i \in Issue |-> [label |-> NoStage, open |-> TRUE]] /\ pc = "search"
    BY DEF Init
  <2> QED
    BY <2>1 DEF EarnedInv, DoneIsEarned, NoStage, Done
<1>2. EarnedInv => DoneIsEarned
  BY DEF EarnedInv
<1> QED
  BY <1>1, <1>2, EarnedStep, TypeInvInit, TypeInvStep, PTL DEF Spec

-----------------------------------------------------------------------------
(* No approval without CI.  From the passed check on, the worker stays in a *)
(* part of Process that leads back to the wait for approval and out of it   *)
(* only by merging or giving up; and no stored step lets a resumed ticket   *)
(* start there, because the CI check itself is never recorded.              *)

PastCI == {"ciPassed", "await", "waiting", "approved", "merge", "declined", "declineNoted",
           "fixDecline", "pushDeclineFix", "declineFixed", "declineReview",
           "reRejected", "fixReReview", "pushReReviewFix", "declineReviewed"}

Unrecorded == {"check-pipeline", "awaiting-approval", "merge"}

CheckedInv ==
    /\ pc \in PastCI => ci[task] # "unchecked"
    /\ \A i \in Issue : last[i] \notin Unrecorded

\* Only the unrecorded steps would make Process start past the CI check.
LEMMA StartsBeforeApproval ==
    \A name : name \notin Unrecorded => StartAt(ResumeFrom(name)) \notin PastCI
<1> SUFFICES ASSUME NEW name, name \notin Unrecorded
             PROVE  StartAt(ResumeFrom(name)) \notin PastCI
  OBVIOUS
<1>1. ResumeFrom(name) \in 0..4
  <2>1. CASE name \in StepNames
    <3>1. \E n \in DOMAIN stepOrder : stepOrder[n] = name
      BY <2>1 DEF StepNames
    <3>2. ResumeFrom(name) \in DOMAIN stepOrder /\ stepOrder[ResumeFrom(name)] = name
      BY <2>1, <3>1, Zenon DEF ResumeFrom
    <3>3. ResumeFrom(name) \in 1..7 /\ ResumeFrom(name) \notin {5, 6, 7}
      BY <3>2 DEF stepOrder, Unrecorded
    <3> QED
      BY <3>3
  <2>2. CASE name \notin StepNames
    BY <2>2 DEF ResumeFrom
  <2> QED
    BY <2>1, <2>2
<1>2. \A n : n = 0 \/ n = 1 \/ n = 2 \/ n = 3 \/ n = 4 => StartAt(n) \in
        {"planning", "implement", "codeReview", "createPR", "checkPipeline"}
  BY Zenon DEF StartAt
<1>3. 0..4 = {0, 1, 2, 3, 4}
  OBVIOUS
<1> QED
  BY <1>1, <1>2, <1>3 DEF PastCI

\* Steps that complete no row and leave ci alone.
LEMMA CheckedKept ==
    ASSUME CheckedInv, UNCHANGED <<last, ci>>,
           pc' \in PastCI => pc \in PastCI /\ task' = task
    PROVE  CheckedInv'
BY DEF CheckedInv

\* What the step table's rows, and the changes of other goroutines, do to
\* `last`.
LEMMA RecordedKept ==
    ASSUME TypeInv, CheckedInv, NEW i \in Issue, NEW name, name \notin Unrecorded,
           FinishRow(i, name) \/ RecordStep(i) \/ StepRecorded(i) \/ DeleteSteps(i)
              \/ StepsDeleted(i) \/ DeleteStepsFrom(i)
    PROVE  \A j \in Issue : last'[j] \notin Unrecorded
<1>1. Mark(name) \notin Unrecorded /\ kept[i] \notin Unrecorded
  BY DEF Mark, Unrecorded, TypeInv, TypeOK, StepTypeOK, KeptMarks
<1>2. last \in [Issue -> StepMarks] /\ \A j \in Issue : last[j] \notin Unrecorded
  BY DEF TypeInv, TypeOK, StepTypeOK, CheckedInv
<1> QED
  BY <1>1, <1>2 DEF FinishRow, RecordStep, StepRecorded, DeleteSteps, StepsDeleted, DeleteStepsFrom, Unrecorded

LEMMA CheckedRecorded ==
    ASSUME TypeInv, CheckedInv, NEW i \in Issue, NEW name, name \notin Unrecorded,
           FinishRow(i, name) \/ RecordStep(i) \/ StepRecorded(i) \/ DeleteSteps(i)
              \/ StepsDeleted(i) \/ DeleteStepsFrom(i),
           UNCHANGED ci, pc' \in PastCI => pc \in PastCI /\ task' = task
    PROVE  CheckedInv'
BY RecordedKept DEF CheckedInv

LEMMA CheckedStep == TypeInv /\ CheckedInv /\ [Next]_vars => CheckedInv'
<1> SUFFICES ASSUME TypeInv, CheckedInv, [Next]_vars PROVE CheckedInv'
  OBVIOUS
<1> USE DEF workerVars, orchVars, stepVars, ghostVars
<1>0. pc \notin {"search", "pick", "down"} => task \in Issue
  BY DEF TypeInv, TypeOK, WorkerTypeOK
<1>1. CASE Search
  BY <1>1, CheckedKept DEF Search, PastCI
<1>2. CASE Pick
  BY <1>2, CheckedKept DEF Pick, PastCI
<1>3. CASE Begin
  <2>1. StartAt(ResumeFrom(last[task])) \notin PastCI
    BY <1>3, <1>0, StartsBeforeApproval DEF Begin, CheckedInv
  <2>2. pc' \notin PastCI /\ UNCHANGED last
    BY <1>3, <2>1 DEF Begin, PastCI
  <2> QED
    BY <2>2 DEF CheckedInv
<1>4. CASE Return
  <2>1. "no name" \notin Unrecorded
    BY DEF Unrecorded
  <2> QED
    BY <1>4, <1>0, <2>1, CheckedRecorded DEF Return, PastCI
<1>5. CASE Settle
  BY <1>5, CheckedKept DEF Settle, PastCI
<1>6. CASE StartStep
  BY <1>6, CheckedKept DEF StartStep
<1>7. CASE FailStep
  BY <1>7, CheckedKept DEF FailStep, PastCI
<1>8. CASE FinishPlanning
  <2>1. task \in Issue /\ FinishRow(task, StepAt[pc]) /\ StepAt[pc] \notin Unrecorded
    BY <1>8, <1>0 DEF FinishPlanning, StepAt, Unrecorded
  <2>2. UNCHANGED ci /\ (pc' \in PastCI => pc \in PastCI /\ task' = task)
    BY <1>8 DEF FinishPlanning, PastCI
  <2> QED
    BY <2>1, <2>2, CheckedRecorded
<1>9. CASE FinishCoding
  <2>1. task \in Issue /\ FinishRow(task, StepAt[pc]) /\ StepAt[pc] \notin Unrecorded
    BY <1>9, <1>0 DEF FinishCoding, StepAt, Unrecorded, CodingNext
  <2>2. UNCHANGED ci /\ (pc' \in PastCI => pc \in PastCI /\ task' = task)
    BY <1>9 DEF FinishCoding, PastCI, CodingNext
  <2> QED
    BY <2>1, <2>2, CheckedRecorded
<1>10. CASE FinishFix
  <2>1. task \in Issue /\ FinishRow(task, StepAt[pc]) /\ StepAt[pc] \notin Unrecorded
    BY <1>10, <1>0 DEF FinishFix, StepAt, Unrecorded, FixNext
  <2>2. UNCHANGED ci /\ (pc' \in PastCI => pc \in PastCI /\ task' = task)
    BY <1>10 DEF FinishFix, PastCI, FixNext
  <2> QED
    BY <2>1, <2>2, CheckedRecorded
<1>11. CASE FinishReview
  <2>1. task \in Issue /\ FinishRow(task, StepAt[pc]) /\ StepAt[pc] \notin Unrecorded
    BY <1>11, <1>0 DEF FinishReview, StepAt, Unrecorded, ReviewNext
  <2>2. UNCHANGED ci /\ (pc' \in PastCI => pc \in PastCI /\ task' = task)
    BY <1>11 DEF FinishReview, PastCI, ReviewNext
  <2> QED
    BY <2>1, <2>2, CheckedRecorded
<1>12. CASE PushFixes
  <2>1. task \in Issue /\ task' = task /\ UNCHANGED last
    BY <1>12, <1>0, PushDomain DEF PushFixes
  <2>2. pc' \in PastCI => ci'[task] # "unchecked"
    BY <1>12, <2>1, PushDomain DEF PushFixes, PushNext, PastCI, TypeInv, TypeOK, GhostTypeOK
  <2> QED
    BY <2>1, <2>2 DEF CheckedInv
<1>13. CASE StartCreatePR
  BY <1>13, CheckedKept DEF StartCreatePR, PastCI
<1>14. CASE FinishCreatePR
  <2>1. pc' \notin PastCI /\ task \in Issue /\ "create-pr" \notin Unrecorded
    BY <1>14, <1>0 DEF FinishCreatePR, PastCI, Unrecorded
  <2> QED
    BY <1>14, <2>1, CheckedKept, CheckedRecorded DEF FinishCreatePR
<1>15. CASE CheckCI
  BY <1>15, <1>0 DEF CheckCI, FailedCheck, CheckedInv, PastCI, TypeInv, TypeOK, GhostTypeOK
<1>16. CASE Report
  <2>1. UNCHANGED <<task, ci>> /\ task \in Issue /\ "no name" \notin Unrecorded
    BY <1>16, <1>0, ReportDomain DEF Report, Unrecorded
  <2>2. pc' \in PastCI => pc \in PastCI
    BY <1>16, ReportDomain DEF Report, ReportAt, Event, PastCI
  <2> QED
    BY <1>16, <2>1, <2>2, CheckedKept, CheckedRecorded DEF Report
<1>17. CASE AskApproval \/ Decide
  BY <1>17, CheckedKept DEF AskApproval, Decide, PastCI
<1>18. CASE MergePR
  BY <1>18, CheckedKept DEF MergePR, PastCI
<1>19. CASE Finish
  BY <1>19, CheckedKept DEF Finish, PastCI
<1>20. CASE GiveUp
  BY <1>20, CheckedKept DEF GiveUp, PastCI
<1>21. CASE \E i \in Issue : ApproveOp(i)
  BY <1>21, CheckedKept DEF ApproveOp
<1>22. CASE \E i \in Issue : RejectOp(i)
  BY <1>22, CheckedKept DEF RejectOp
<1>23. CASE \E i \in Issue : BlockOp(i)
  BY <1>23, CheckedKept DEF BlockOp
<1>24. CASE \E i \in Issue : UnblockOp(i)
  BY <1>24, CheckedKept DEF UnblockOp
<1>25. CASE \E i \in Issue : ProcessOp(i)
  BY <1>25, CheckedKept DEF ProcessOp
<1>26. CASE \E i \in Issue : CloseOp(i)
  BY <1>26, CheckedKept DEF CloseOp
<1>27. CASE \E i \in Issue : ReopenOp(i)
  BY <1>27, CheckedKept DEF ReopenOp
<1>28. CASE \E i \in Issue : Sync(i)
  BY <1>28, CheckedKept DEF Sync
<1>29. CASE \E i \in Issue : RetryOp(i)
  <2>1. "no name" \notin Unrecorded
    BY DEF Unrecorded
  <2> QED
    BY <1>29, <2>1, CheckedKept, CheckedRecorded DEF RetryOp
<1>30. CASE \E i \in Issue : RestartFullOp(i)
  <2>1. "no name" \notin Unrecorded
    BY DEF Unrecorded
  <2> QED
    BY <1>30, <2>1, CheckedKept, CheckedRecorded DEF RestartFullOp
<1>31. CASE \E i \in Issue : RestartStageOp(i)
  <2>1. "no name" \notin Unrecorded
    BY DEF Unrecorded
  <2> QED
    BY <1>31, <2>1, CheckedKept, CheckedRecorded DEF RestartStageOp
<1>32. CASE \E i \in Issue : DeclineOp(i)
  <2>1. "no name" \notin Unrecorded
    BY DEF Unrecorded
  <2> QED
    BY <1>32, <2>1, CheckedKept, CheckedRecorded DEF DeclineOp
<1>33. CASE \E i \in Issue : ApproveMergeOp(i)
  <2>1. "no name" \notin Unrecorded
    BY DEF Unrecorded
  <2> QED
    BY <1>33, <2>1, CheckedKept, CheckedRecorded DEF ApproveMergeOp
<1>34. CASE DirectMerge
  BY <1>34, CheckedKept DEF DirectMerge
<1>35. CASE ToggleOp
  BY <1>35, CheckedKept DEF ToggleOp
<1>36. CASE YoloOp
  BY <1>36, CheckedKept DEF YoloOp
<1>37. CASE Shutdown
  BY <1>37, CheckedKept DEF Shutdown
<1>38. CASE Crash
  BY <1>38, CheckedKept DEF Crash, PastCI
<1>39. CASE Restart
  BY <1>39, CheckedKept DEF Restart, PastCI
<1>40. CASE UNCHANGED vars
  BY <1>40, CheckedKept DEF vars
<1> QED
  BY <1>1, <1>2, <1>3, <1>4, <1>5, <1>6, <1>7, <1>8, <1>9, <1>10, <1>11,
     <1>12, <1>13, <1>14, <1>15, <1>16, <1>17, <1>18, <1>19, <1>20, <1>21,
     <1>22, <1>23, <1>24, <1>25, <1>26, <1>27, <1>28, <1>29, <1>30, <1>31,
     <1>32, <1>33, <1>34, <1>35, <1>36, <1>37, <1>38, <1>39, <1>40
  DEF Next, Orchestrator, Worker, User, Redo, Queue, Judge

\* Whatever is resumed, restarted, declined or retried, no ticket waits for an
\* approval or is merged in a run of Process in which CI did not pass and no
\* user declined.
THEOREM NoApprovalWithoutCI == Spec => []CICheckedOrDeclined
<1>1. Init => CheckedInv
  BY DEF Init, CheckedInv, PastCI, Unrecorded
<1>2. CheckedInv => CICheckedOrDeclined
  BY DEF CheckedInv, CICheckedOrDeclined, PastCI
<1> QED
  BY <1>1, <1>2, CheckedStep, TypeInvInit, TypeInvStep, PTL DEF Spec

-----------------------------------------------------------------------------
(* What the steps of each party leave alone.                               *)

\* The worker's steps are about the ticket it holds.
LEMMA WorkerFrame ==
    ASSUME TypeInv, Worker
    PROVE  /\ task \in Issue /\ UNCHANGED <<task, candidates, direct, crashes>>
           /\ UNCHANGED misses \/ Missed
           /\ pc \notin {"search", "pick", "begin", "returned", "settle", "down"}
           /\ pc' \notin {"search", "pick", "begin", "settle", "down"}
           /\ \A j \in Issue : j # task =>
                 /\ github'[j].label = github[j].label
                 /\ last'[j] = last[j] /\ local'[j] = local[j]
<1> DEFINE Holds == /\ task \in Issue /\ UNCHANGED <<task, candidates, direct, crashes>>
                    /\ UNCHANGED misses \/ Missed
                    /\ pc \notin {"search", "pick", "begin", "returned", "settle", "down"}
                    /\ pc' \notin {"search", "pick", "begin", "settle", "down"}
<1> DEFINE Others == \A j \in Issue : j # task =>
                        /\ github'[j].label = github[j].label
                        /\ last'[j] = last[j] /\ local'[j] = local[j]
<1>0. /\ pc \notin {"search", "pick", "down"} => task \in Issue
      /\ github \in [Issue -> View] /\ last \in [Issue -> StepMarks]
      /\ local \in [Issue -> BranchState]
  BY DEF TypeInv, TypeOK, WorkerTypeOK, LabelTypeOK, StepTypeOK, GitTypeOK
<1> USE DEF orchVars, labelVars, stepVars, gitVars, boundVars
<1>1. CASE StartStep \/ FailStep
  BY <1>0, <1>1, StepDomain DEF StartStep, OpenRow, FailStep
<1>2. CASE FinishPlanning
  BY <1>0, <1>2 DEF FinishPlanning, FinishRow
<1>3. CASE FinishCoding
  <2>1. Holds
    BY <1>0, <1>3 DEF FinishCoding, CodingNext, FinishRow
  <2>2. Others
    BY <1>0, <1>3 DEF FinishCoding, FinishRow, Commit
  <2> QED
    BY <2>1, <2>2
<1>4. CASE FinishFix
  <2>1. Holds
    BY <1>0, <1>4 DEF FinishFix, FixNext, FinishRow
  <2>2. Others
    BY <1>0, <1>4 DEF FinishFix, FinishRow, Commit
  <2> QED
    BY <2>1, <2>2
<1>5. CASE FinishReview
  <2>1. Holds
    BY <1>0, <1>5 DEF FinishReview, ReviewNext, FinishRow
  <2>2. Others
    BY <1>0, <1>5 DEF FinishReview, FinishRow
  <2> QED
    BY <2>1, <2>2
<1>6. CASE PushFixes
  BY <1>0, <1>6, PushDomain DEF PushFixes, PushNext
<1>7. CASE StartCreatePR
  BY <1>0, <1>7 DEF StartCreatePR, OpenRow
<1>8. CASE FinishCreatePR
  BY <1>0, <1>8 DEF FinishCreatePR, FinishRow
<1>9. CASE CheckCI
  BY <1>0, <1>9 DEF CheckCI, FailedCheck
<1>10. CASE Report
  <2>1. Holds
    BY <1>0, <1>10, ReportDomain DEF Report, ReportAt, Event, DeleteStepsFrom
  <2>2. Others
    BY <1>0, <1>10 DEF Report, ChangeStage, ChangeStageOn, DeleteStepsFrom
  <2> QED
    BY <2>1, <2>2
<1>11. CASE AskApproval \/ Decide
  BY <1>0, <1>11 DEF AskApproval, Decide
<1>12. CASE MergePR
  BY <1>0, <1>12 DEF MergePR, ClosedByMerge
<1>13. CASE Finish
  BY <1>0, <1>13 DEF Finish
<1>14. CASE GiveUp
  BY <1>0, <1>14 DEF GiveUp, RemoveBranch
<1> QED
  BY <1>1, <1>2, <1>3, <1>4, <1>5, <1>6, <1>7, <1>8, <1>9, <1>10, <1>11, <1>12, <1>13, <1>14
  DEF Worker

\* A user's request, but for a direct merge under way.
Request == \/ \E i \in Issue : Redo(i) \/ Queue(i) \/ Judge(i) \/ CloseOp(i) \/ ReopenOp(i)
           \/ ToggleOp \/ YoloOp \/ Shutdown

\* What a deletion or an added row does to the step records.
LEMMA RowsForgotten ==
    ASSUME TypeInv, NEW i \in Issue
    PROVE  /\ RecordStep(i) \/ DeleteSteps(i) \/ StepRecorded(i) \/ StepsDeleted(i) =>
                row' = row \/ (row # "none" /\ row' # "none")
           /\ RecordStep(i) \/ DeleteSteps(i) \/ DeleteStepsFrom(i) => UNCHANGED misses \/ Missed
           /\ RecordStep(i) \/ DeleteSteps(i) \/ DeleteStepsFrom(i)
                \/ StepRecorded(i) \/ StepsDeleted(i) =>
                \A j \in Issue : last'[j] = last[j] \/ last'[j] \in KeptMarks
<1>0. last \in [Issue -> StepMarks] /\ kept[i] \in KeptMarks
  BY DEF TypeInv, TypeOK, StepTypeOK
<1>1. StepRecorded(i) \/ StepsDeleted(i) => row' = row \/ (row # "none" /\ row' # "none")
  BY DEF StepRecorded, StepsDeleted
<1>2. ASSUME NEW mark \in KeptMarks, last' = [last EXCEPT ![i] = mark], NEW j \in Issue
      PROVE  last'[j] = last[j] \/ last'[j] \in KeptMarks
  BY <1>0, <1>2
<1>3. StepRecorded(i) \/ StepsDeleted(i) => \E mark \in KeptMarks : last' = [last EXCEPT ![i] = mark]
  BY DEF StepRecorded, StepsDeleted, KeptMarks
<1>4. DeleteStepsFrom(i) => UNCHANGED last \/ \E mark \in KeptMarks : last' = [last EXCEPT ![i] = mark]
  BY <1>0 DEF DeleteStepsFrom
<1>5. /\ RecordStep(i) => StepRecorded(i) \/ UNCHANGED <<last, row>>
      /\ DeleteSteps(i) => StepsDeleted(i) \/ UNCHANGED <<last, row>>
  BY DEF RecordStep, DeleteSteps
<1>6. RecordStep(i) \/ DeleteSteps(i) \/ DeleteStepsFrom(i) => UNCHANGED misses \/ Missed
  BY DEF RecordStep, DeleteSteps, DeleteStepsFrom
<1> QED
  BY <1>1, <1>2, <1>3, <1>4, <1>5, <1>6

\* Requests are counted, leave the worker where it is, forget or overwrite
\* steps, and remove branches.
LEMMA RequestFrame ==
    ASSUME TypeInv, Request
    PROVE  /\ ops' > ops /\ UNCHANGED crashes
           /\ UNCHANGED misses \/ Missed
           /\ UNCHANGED <<pc, task, candidates, attempt, result, verdict, produced>>
           /\ row' = row \/ (row # "none" /\ row' # "none")
           /\ \A j \in Issue : last'[j] = last[j] \/ last'[j] \in KeptMarks
           /\ \A j \in Issue : local'[j] = local[j] \/ local'[j] = "absent"
<1> DEFINE Still == UNCHANGED <<pc, task, candidates, attempt, result, verdict, produced>>
<1> DEFINE Counted == ops' > ops /\ UNCHANGED crashes
<1> DEFINE Written == UNCHANGED misses \/ Missed
<1> DEFINE RowKept == row' = row \/ (row # "none" /\ row' # "none")
<1> DEFINE LastKept == \A j \in Issue : last'[j] = last[j] \/ last'[j] \in KeptMarks
<1> DEFINE Branches == \A j \in Issue : local'[j] = local[j] \/ local'[j] = "absent"
<1>0. ops \in Nat /\ local \in [Issue -> BranchState]
  BY ConstantsAssumption DEF TypeInv, TypeOK, BoundTypeOK, GitTypeOK
<1>1. \A op : Operation(op) => ops' > ops
  BY <1>0 DEF Operation
<1>2. \A i \in Issue : RecordStep(i) \/ DeleteSteps(i) \/ StepRecorded(i) \/ StepsDeleted(i) =>
        RowKept /\ LastKept
  BY RowsForgotten
<1>3. \A i \in Issue : DeleteStepsFrom(i) => LastKept /\ Written
  BY RowsForgotten
<1>4. \A i \in Issue : RecordStep(i) \/ DeleteSteps(i) => Written
  BY RowsForgotten
<1>5. /\ UNCHANGED row => RowKept
      /\ UNCHANGED last => LastKept
      /\ UNCHANGED misses \/ Missed => Written
  OBVIOUS
<1>6. UNCHANGED gitVars => Branches
  BY DEF gitVars
<1>7. \A i \in Issue : DropBranchAndPR(i) => Branches
  BY <1>0 DEF DropBranchAndPR, RemoveBranch
<1> HIDE DEF RowKept, LastKept, Branches, Written
<1> USE DEF workerVars, stepVars, ghostVars
<1>8. ASSUME NEW i \in Issue, ApproveOp(i) \/ RejectOp(i) \/ BlockOp(i) \/ UnblockOp(i)
                              \/ ProcessOp(i) \/ CloseOp(i) \/ ReopenOp(i)
      PROVE  Counted /\ Still /\ RowKept /\ LastKept /\ Branches /\ Written
  BY <1>1, <1>5, <1>6, <1>8
  DEF ApproveOp, RejectOp, BlockOp, UnblockOp, ProcessOp, CloseOp, ReopenOp
<1>9. ASSUME NEW i \in Issue, RetryOp(i)
      PROVE  Counted /\ Still /\ RowKept /\ LastKept /\ Branches /\ Written
  BY <1>1, <1>2, <1>4, <1>7, <1>9 DEF RetryOp
<1>10. ASSUME NEW i \in Issue, RestartFullOp(i)
       PROVE  Counted /\ Still /\ RowKept /\ LastKept /\ Branches /\ Written
  BY <1>1, <1>2, <1>5, <1>7, <1>10 DEF RestartFullOp
<1>11. ASSUME NEW i \in Issue, RestartStageOp(i)
       PROVE  Counted /\ Still /\ RowKept /\ LastKept /\ Branches /\ Written
  BY <1>1, <1>3, <1>5, <1>6, <1>11 DEF RestartStageOp
<1>12. ASSUME NEW i \in Issue, DeclineOp(i)
       PROVE  Counted /\ Still /\ RowKept /\ LastKept /\ Branches /\ Written
  BY <1>1, <1>2, <1>4, <1>5, <1>6, <1>12 DEF DeclineOp
<1>13. ASSUME NEW i \in Issue, ApproveMergeOp(i)
       PROVE  Counted /\ Still /\ RowKept /\ LastKept /\ Branches /\ Written
  BY <1>1, <1>2, <1>4, <1>6, <1>13 DEF ApproveMergeOp
<1>14. ToggleOp => Counted /\ Still /\ RowKept /\ LastKept /\ Branches /\ Written
  BY <1>1, <1>5, <1>6 DEF ToggleOp
<1>15. YoloOp => Counted /\ Still /\ RowKept /\ LastKept /\ Branches /\ Written
  BY <1>1, <1>5, <1>6 DEF YoloOp
<1>16. Shutdown => Counted /\ Still /\ RowKept /\ LastKept /\ Branches /\ Written
  BY <1>1, <1>5, <1>6 DEF Shutdown
<1> HIDE DEF Counted, Still
<1>17. Counted /\ Still /\ RowKept /\ LastKept /\ Branches /\ Written
  BY <1>8, <1>9, <1>10, <1>11, <1>12, <1>13, <1>14, <1>15, <1>16
  DEF Request, Redo, Queue, Judge
<1> QED
  BY <1>17 DEF Counted, Still, RowKept, LastKept, Branches, Written

\* Every step is one of these.
LEMMA Parties ==
    ASSUME [Next]_vars
    PROVE  \/ Search \/ Pick \/ Begin \/ Return \/ Settle
           \/ Worker \/ Request \/ DirectMerge \/ (\E i \in Issue : Sync(i))
           \/ Crash \/ Restart \/ UNCHANGED vars
BY DEF Next, Orchestrator, User, Request

\* An undisturbed state was reached without a disturbance.
LEMMA UndisturbedBefore ==
    ASSUME TypeInv, [Next]_vars, Undisturbed'
    PROVE  Undisturbed /\ ~Missed
<1>0. misses \in Nat /\ crashes \in Nat
  BY ConstantsAssumption DEF TypeInv, TypeOK, StepTypeOK, BoundTypeOK
<1>1. ~Missed
  BY <1>0 DEF Missed, Undisturbed
<1>2. (UNCHANGED misses \/ Missed) /\ UNCHANGED crashes
  <2> USE DEF stepVars, boundVars
  <2>1. ~Crash
    BY <1>0 DEF Crash, Undisturbed
  <2>2. Search \/ Pick \/ Begin \/ Return \/ Settle => UNCHANGED misses \/ Missed
    BY DEF Search, Pick, Begin, Return, RecordStep, Settle
  <2>3. Search \/ Pick \/ Begin \/ Return \/ Settle => UNCHANGED crashes
    BY DEF Search, Pick, Begin, Return, Settle
  <2>4. DirectMerge \/ Restart \/ UNCHANGED vars => UNCHANGED <<misses, crashes>>
    BY DEF DirectMerge, Restart, vars
  <2>5. (\E i \in Issue : Sync(i)) => UNCHANGED <<misses, crashes>>
    BY DEF Sync
  <2> QED
    BY <2>1, <2>2, <2>3, <2>4, <2>5, WorkerFrame, RequestFrame, Parties
<1> QED
  BY <1>1, <1>2 DEF Undisturbed

-----------------------------------------------------------------------------
(* A blocked ticket is left alone.                                         *)

\* What BlockedIsLeftAlone says of an issue.
LeftAlone(i) ==
    /\ cache[i].label = Blocked => i \notin candidates' \cup {task'}
    /\ (github[i].label = Blocked /\ github'[i].label # Blocked)
           => ops' > ops \/ ~github[i].open \/ pr[i] = "merged"

\* No other issue is relabelled.
LEMMA OthersKeepLabels ==
    ASSUME NEW hub \in [Issue -> View], NEW store, NEW i \in Issue, NEW stage,
           ChangeStageOn(hub, store, i, stage), NEW j \in Issue, j # i
    PROVE  github'[j] = hub[j]
BY DEF ChangeStageOn

LEMMA BlockedStep ==
    ASSUME TypeInv, [Next]_vars, NEW i \in Issue, i \notin candidates \cup {task, direct}
    PROVE  LeftAlone(i)
<1>0. /\ github \in [Issue -> View] /\ None \notin Issue /\ candidates \subseteq Issue
      /\ pc \notin {"search", "pick", "down"} => task \in Issue
  BY ConstantsAssumption DEF TypeInv, TypeOK, LabelTypeOK, WorkerTypeOK
<1>1. ASSUME UNCHANGED <<task, candidates>> PROVE i \notin candidates' \cup {task'}
  BY <1>1
<1>2. CASE Search
  <2>1. github' = github
    BY <1>2 DEF Search, labelVars
  <2>2. cache[i].label = Blocked => i \notin Resumable \cup PickedUpFrom
    BY DEF Resumable, PickedUpFrom, WorkerStages, CandidateStages, Blocked, Plan, Code, Review,
       CreatePR, CheckPipeline, Approve, NoStage, Backlog
  <2>3. /\ task' = task \/ task' \in Resumable
        /\ candidates' = candidates \/ candidates' \subseteq PickedUpFrom
    BY <1>2 DEF Search
  <2> QED
    BY <2>1, <2>2, <2>3 DEF LeftAlone
<1>3. CASE Pick
  <2>1. PICK j \in candidates : task' = j /\ ChangeStage(j, Plan)
    BY <1>3 DEF Pick
  <2>2. github'[i] = github[i]
    BY <1>0, <2>1, OthersKeepLabels DEF ChangeStage
  <2> QED
    BY <1>3, <2>1, <2>2 DEF Pick, LeftAlone
<1>4. CASE Begin \/ Return
  BY <1>1, <1>4 DEF Begin, Return, labelVars, LeftAlone
<1>5. CASE Settle
  <2>1. github'[i] = github[i]
    BY <1>0, <1>5, OthersKeepLabels DEF Settle, ChangeStage, labelVars
  <2>2. task' = None /\ candidates' = candidates
    BY <1>5 DEF Settle
  <2> QED
    BY <1>0, <2>1, <2>2 DEF LeftAlone
<1>6. CASE Worker
  BY <1>1, <1>6, WorkerFrame DEF LeftAlone
<1>7. CASE Request
  BY <1>1, <1>7, RequestFrame DEF LeftAlone
<1>8. CASE DirectMerge
  <2>1. direct \in Issue /\ UNCHANGED <<task, candidates>>
    BY <1>8 DEF DirectMerge, workerVars, TypeInv, TypeOK, OrchTypeOK
  <2>2. ClosedByMerge(direct) \in [Issue -> View] /\ ClosedByMerge(direct)[i] = github[i]
    BY <1>0, <2>1 DEF ClosedByMerge, View
  <2>3. github'[i] = github[i]
    BY <1>0, <1>8, <2>1, <2>2, OthersKeepLabels DEF DirectMerge, ChangeStage
  <2> QED
    BY <1>1, <2>1, <2>3 DEF LeftAlone
<1>9. CASE \E j \in Issue : Sync(j)
  <2>1. PICK j \in Issue : Sync(j)
    BY <1>9
  <2>2. UNCHANGED <<task, candidates>>
    BY <2>1 DEF Sync, workerVars
  <2>3. CASE j # i
    <3>1. github'[i] = github[i]
      BY <1>0, <2>1, <2>3, OthersKeepLabels DEF Sync
    <3> QED
      BY <1>1, <2>2, <3>1 DEF LeftAlone
  <2>4. CASE j = i
    <3>1. github' = github \/ SyncRepair(i) # NoTransition
      BY <2>1, <2>4 DEF Sync
    <3>2. SyncRepair(i) # NoTransition => ~github[i].open \/ pr[i] = "merged"
      BY Zenon DEF SyncRepair
    <3> QED
      BY <1>1, <2>2, <3>1, <3>2 DEF LeftAlone
  <2> QED
    BY <2>3, <2>4
<1>10. CASE Crash
  BY <1>0, <1>10 DEF Crash, labelVars, LeftAlone
<1>11. CASE Restart
  BY <1>1, <1>11 DEF Restart, LeftAlone
<1>12. CASE UNCHANGED vars
  BY <1>1, <1>12 DEF vars, workerVars, labelVars, LeftAlone
<1> QED
  BY <1>2, <1>3, <1>4, <1>5, <1>6, <1>7, <1>8, <1>9, <1>10, <1>11, <1>12, Parties

\* For any sprint and any number of requests, faults and crashes: the search
\* does not take up a blocked ticket, and none but a user, the worker or the
\* direct merge that had it already takes it out of Blocked, unless it is
\* merged or closed.  (isWorkerStage, pickNextTask, HandleSyncEvent)
THEOREM BlockedTicketsAreLeftAlone == Spec => BlockedIsLeftAlone
<1>1. TypeInv /\ [Next]_vars =>
        [\A i \in Issue \ (candidates \cup {task, direct}) : LeftAlone(i)]_vars
  BY BlockedStep
<1>2. Spec => [][\A i \in Issue \ (candidates \cup {task, direct}) : LeftAlone(i)]_vars
  BY <1>1, TypeInvInit, TypeInvStep, PTL DEF Spec
<1> QED
  BY <1>2 DEF BlockedIsLeftAlone, LeftAlone

-----------------------------------------------------------------------------
(* Without crashes and missed rows, a ticket the worker does not hold has   *)
(* no recorded step that would let a run of Process skip the implementation: *)
(* Run adds a row of its own after every Process, the handlers delete rows  *)
(* or add one.                                                              *)

StepsForgotten ==
    Undisturbed => \A i \in Issue :
        (i # task \/ pc \in {"begin", "settle"}) => last[i] \in KeptMarks

\* From such rows Process starts at the planning or at the implementation.
LEMMA StartsAfresh ==
    \A name \in KeptMarks : StartAt(ResumeFrom(name)) \in {"planning", "implement"}
<1> SUFFICES ASSUME NEW name \in KeptMarks
             PROVE  StartAt(ResumeFrom(name)) \in {"planning", "implement"}
  OBVIOUS
<1>1. ResumeFrom(name) = 0 \/ ResumeFrom(name) = 1
  <2>1. CASE name \in StepNames
    <3>1. \E n \in DOMAIN stepOrder : stepOrder[n] = name
      BY <2>1 DEF StepNames
    <3>2. ResumeFrom(name) \in DOMAIN stepOrder /\ stepOrder[ResumeFrom(name)] = name
      BY <2>1, <3>1, Zenon DEF ResumeFrom
    <3>3. ResumeFrom(name) \in 1..7 /\ ResumeFrom(name) \notin {2, 3, 4, 5, 6, 7}
      BY <3>2 DEF stepOrder, KeptMarks
    <3> QED
      BY <3>3
  <2>2. CASE name \notin StepNames
    BY <2>2 DEF ResumeFrom
  <2> QED
    BY <2>1, <2>2
<1>2. StartAt(0) = "planning" /\ StartAt(1) = "implement"
  BY DEF StartAt
<1> QED
  BY <1>1, <1>2

\* What leaves the orchestrator's place and the step records alone.
LEMMA ForgottenKept ==
    ASSUME StepsForgotten, Undisturbed, UNCHANGED <<pc, task>>,
           \A j \in Issue : last'[j] = last[j] \/ last'[j] \in KeptMarks
    PROVE  StepsForgotten'
BY DEF StepsForgotten

LEMMA ForgottenStep == TypeInv /\ StepsForgotten /\ [Next]_vars => StepsForgotten'
<1> SUFFICES ASSUME TypeInv, StepsForgotten, [Next]_vars, Undisturbed' PROVE StepsForgotten'
  BY DEF StepsForgotten
<1>0. /\ pc \in {"search", "pick", "down"} => task = None
      /\ None \notin Issue /\ last \in [Issue -> StepMarks]
      /\ Undisturbed /\ ~Missed
  BY ConstantsAssumption, UndisturbedBefore DEF TypeInv, TypeOK, WorkerTypeOK, StepTypeOK
<1> USE DEF workerVars, stepVars, boundVars
<1>1. CASE Search
  <2>1. UNCHANGED last /\ task = None
    BY <1>0, <1>1 DEF Search
  <2> QED
    BY <1>0, <2>1 DEF StepsForgotten
<1>2. CASE Pick
  <2>1. UNCHANGED last /\ task = None
    BY <1>0, <1>2 DEF Pick
  <2> QED
    BY <1>0, <2>1 DEF StepsForgotten
<1>3. CASE Begin
  BY <1>0, <1>3 DEF Begin, StepsForgotten
<1>4. CASE Return
  BY <1>0, <1>4 DEF Return, RecordStep, StepRecorded, StepsForgotten, KeptMarks
<1>5. CASE Settle
  BY <1>0, <1>5 DEF Settle, StepsForgotten
<1>6. CASE Worker
  BY <1>0, <1>6, WorkerFrame DEF StepsForgotten
<1>7. CASE Request
  BY <1>0, <1>7, RequestFrame, ForgottenKept
<1>8. CASE DirectMerge
  BY <1>0, <1>8, ForgottenKept DEF DirectMerge
<1>9. CASE \E i \in Issue : Sync(i)
  BY <1>0, <1>9, ForgottenKept DEF Sync
<1>10. CASE Crash
  BY <1>10, ConstantsAssumption DEF Crash, Undisturbed, TypeInv, TypeOK, BoundTypeOK
<1>11. CASE Restart
  BY <1>0, <1>11 DEF Restart, StepsForgotten
<1>12. CASE UNCHANGED vars
  BY <1>0, <1>12, ForgottenKept DEF vars
<1> QED
  BY <1>1, <1>2, <1>3, <1>4, <1>5, <1>6, <1>7, <1>8, <1>9, <1>10, <1>11, <1>12, Parties

LEMMA ForgottenInit == Init => StepsForgotten
BY DEF Init, StepsForgotten, KeptMarks

\* For any sprint, requests and failing calls, until the process first crashes
\* or a row is not written: no ticket the worker has let go of would be resumed
\* after its lost implementation.  (recordStep, DeleteSteps, DeleteStepsFrom,
\* Process)
THEOREM NothingLostIsSkipped == Spec => []SettledStartsOver
<1>1. StepsForgotten => SettledStartsOver
  BY DEF StepsForgotten, SettledStartsOver, KeptMarks
<1> QED
  BY <1>1, ForgottenInit, ForgottenStep, TypeInvInit, TypeInvStep, PTL DEF Spec

-----------------------------------------------------------------------------
(* A PR is opened only for reviewed code.                                   *)

Reviewed == {"reviewed", "createPR", "prCreated"}

ReviewedInv == Undisturbed => (pc \in Reviewed => verdict[task] = "approved")

\* The worker comes to these places through an approving review alone.
LEMMA ReviewedByWorker ==
    ASSUME TypeInv, Worker, pc' \in Reviewed
    PROVE  \/ pc \in Reviewed /\ verdict' = verdict
           \/ verdict'[task] = "approved"
<1>0. task \in Issue /\ verdict \in [Issue -> {"none", "approved", "rejected"}]
  BY WorkerFrame DEF TypeInv, TypeOK, GhostTypeOK
<1> USE DEF Reviewed, ghostVars
<1>1. CASE StartStep \/ FailStep
  BY <1>1 DEF StartStep, FailStep
<1>2. CASE FinishPlanning \/ FinishCoding \/ FinishFix
  BY <1>2 DEF FinishPlanning, FinishCoding, CodingNext, FinishFix, FixNext
<1>3. CASE FinishReview
  <2>1. PICK v \in {"approved", "rejected"} :
          pc' = ReviewNext[pc][v] /\ verdict' = [verdict EXCEPT ![task] = v]
    BY <1>3 DEF FinishReview
  <2>2. v = "approved"
    BY <1>3, <2>1 DEF FinishReview, ReviewNext
  <2> QED
    BY <1>0, <2>1, <2>2
<1>4. CASE PushFixes
  BY <1>4 DEF PushFixes, PushNext
<1>5. CASE StartCreatePR \/ FinishCreatePR
  BY <1>5 DEF StartCreatePR, FinishCreatePR
<1>6. CASE CheckCI
  BY <1>6 DEF CheckCI, FailedCheck
<1>7. CASE Report
  BY <1>7, ReportDomain DEF Report, ReportAt, Event
<1>8. CASE AskApproval \/ Decide \/ MergePR \/ Finish \/ GiveUp
  BY <1>8 DEF AskApproval, Decide, MergePR, Finish, GiveUp
<1> QED
  BY <1>1, <1>2, <1>3, <1>4, <1>5, <1>6, <1>7, <1>8 DEF Worker

LEMMA ReviewedStep ==
    TypeInv /\ StepsForgotten /\ ReviewedInv /\ [Next]_vars => ReviewedInv'
<1> SUFFICES ASSUME TypeInv, StepsForgotten, ReviewedInv, [Next]_vars, Undisturbed'
             PROVE  ReviewedInv'
  BY DEF ReviewedInv
<1>0. (pc \notin {"search", "pick", "down"} => task \in Issue) /\ Undisturbed
  BY UndisturbedBefore DEF TypeInv, TypeOK, WorkerTypeOK
<1>1. ASSUME pc' \notin Reviewed PROVE ReviewedInv'
  BY <1>1 DEF ReviewedInv
<1>2. ASSUME UNCHANGED <<pc, task, verdict>> PROVE ReviewedInv'
  BY <1>0, <1>2 DEF ReviewedInv
<1> USE DEF workerVars, ghostVars, boundVars
<1>3. CASE Search \/ Pick \/ Return \/ Settle
  BY <1>1, <1>3 DEF Search, Pick, Return, Settle, Reviewed
<1>4. CASE Begin
  <2>1. StartAt(ResumeFrom(last[task])) \in {"planning", "implement"}
    BY <1>0, <1>4, StartsAfresh DEF Begin, StepsForgotten
  <2> QED
    BY <1>1, <1>4, <2>1 DEF Begin, Reviewed
<1>5. CASE Worker
  BY <1>0, <1>5, WorkerFrame, ReviewedByWorker DEF ReviewedInv
<1>6. CASE Request
  BY <1>2, <1>6, RequestFrame
<1>7. CASE DirectMerge
  BY <1>2, <1>7 DEF DirectMerge
<1>8. CASE \E i \in Issue : Sync(i)
  BY <1>2, <1>8 DEF Sync
<1>9. CASE Crash \/ Restart
  BY <1>1, <1>9 DEF Crash, Restart, Reviewed
<1>10. CASE UNCHANGED vars
  BY <1>2, <1>10 DEF vars
<1> QED
  BY <1>3, <1>4, <1>5, <1>6, <1>7, <1>8, <1>9, <1>10, Parties

\* Until the first crash or unwritten row no PR is opened for code the last AI
\* review did not approve, across fixes, failed CI checks, declines and what
\* users do meanwhile.  (Process, codeReview, createPR)
THEOREM NoPRWithoutReview == Spec => []ReviewedBeforePR
<1>1. Init => ReviewedInv
  BY DEF Init, ReviewedInv, Reviewed
<1>2. ReviewedInv => ReviewedBeforePR
  BY DEF ReviewedInv, ReviewedBeforePR, Reviewed
<1> QED
  BY <1>1, <1>2, ReviewedStep, ForgottenInit, ForgottenStep, TypeInvInit, TypeInvStep, PTL DEF Spec

-----------------------------------------------------------------------------
(* "Already implemented" means that there is no code on the branch.  What   *)
(* createPR compares is the branch and the commit it was made from, so code *)
(* committed on the branch in this run of Process is seen, whatever is      *)
(* merged, checked out or deleted beside the worker.                        *)

Coded == {"implemented", "codeReview", "rejected", "fixReview", "pushReviewFix", "reReview",
          "reviewed", "createPR"}

CodeIsThere ==
    Undisturbed => (pc \in Coded /\ produced[task] = "branch" => local[task] # "empty")

NoCommitsLeft ==
    result = "no-commits" => /\ pc \in {"fail", "returned", "settle"}
                             /\ Undisturbed => produced[task] # "branch"

BranchInv == CodeIsThere /\ NoCommitsLeft

\* What the worker does to the code: an implementation that committed on the
\* branch is there, and what follows keeps it there.
LEMMA WorkerCode ==
    ASSUME TypeInv, Worker, pc' \in Coded, produced'[task] = "branch"
    PROVE  \/ pc \in Coded /\ produced[task] = "branch" /\ local'[task] = local[task]
           \/ local'[task] # "empty"
<1>0. /\ task \in Issue /\ local \in [Issue -> BranchState]
      /\ produced \in [Issue -> {"nothing", "branch", "astray"}]
  BY WorkerFrame DEF TypeInv, TypeOK, GitTypeOK, GhostTypeOK
<1> USE DEF Coded, gitVars, ghostVars
<1>1. CASE StartStep \/ FailStep \/ FinishPlanning
  <2>1. UNCHANGED <<local, produced>> /\ pc' \in {pc, "fail", "planned"}
    BY <1>1 DEF StartStep, FailStep, FinishPlanning
  <2> QED
    BY <2>1
<1>2. CASE FinishCoding
  <2>1. head = task /\ Commit("work")
    BY <1>0, <1>2 DEF FinishCoding
  <2> QED
    BY <1>0, <2>1 DEF Commit
<1>3. CASE FinishFix
  <2>1. pc = "fixReview" /\ produced' = produced /\ (Commit("fix") \/ UNCHANGED local)
    BY <1>3 DEF FinishFix, FixNext
  <2> QED
    BY <1>0, <2>1 DEF Commit
<1>4. CASE FinishReview
  BY <1>4 DEF FinishReview, ReviewNext
<1>5. CASE PushFixes
  BY <1>5 DEF PushFixes, PushNext
<1>6. CASE StartCreatePR \/ FinishCreatePR
  BY <1>6 DEF StartCreatePR, FinishCreatePR
<1>7. CASE CheckCI
  BY <1>7 DEF CheckCI, FailedCheck
<1>8. CASE Report
  BY <1>8, ReportDomain DEF Report, ReportAt, Event
<1>9. CASE AskApproval \/ Decide \/ MergePR \/ Finish \/ GiveUp
  BY <1>9 DEF AskApproval, Decide, MergePR, Finish, GiveUp
<1> QED
  BY <1>1, <1>2, <1>3, <1>4, <1>5, <1>6, <1>7, <1>8, <1>9 DEF Worker

\* It says "no commits" at createPR, when the branch has none, and then gives up.
LEMMA WorkerSaysNoCommits ==
    ASSUME TypeInv, Worker, result' = "no-commits"
    PROVE  \/ pc = "createPR" /\ pc' = "fail" /\ produced' = produced /\ local[task] = "empty"
           \/ result = "no-commits" /\ pc # "fail"
           \/ result = "no-commits" /\ pc' = "returned" /\ produced' = produced
<1> USE DEF ghostVars
<1>1. CASE StartStep \/ FailStep
  BY <1>1, StepDomain DEF StartStep, FailStep
<1>2. CASE FinishPlanning \/ FinishCoding \/ FinishFix
  BY <1>2 DEF FinishPlanning, FinishCoding, CodingNext, FinishFix, FixNext
<1>3. CASE FinishReview
  BY <1>3 DEF FinishReview, ReviewNext
<1>4. CASE PushFixes
  BY <1>4, PushDomain DEF PushFixes
<1>5. CASE StartCreatePR \/ FinishCreatePR
  BY <1>5 DEF StartCreatePR, FinishCreatePR, HasCommits
<1>6. CASE CheckCI
  BY <1>6 DEF CheckCI, FailedCheck
<1>7. CASE Report
  BY <1>7, ReportDomain DEF Report
<1>8. CASE AskApproval \/ Decide \/ MergePR \/ Finish \/ GiveUp
  BY <1>8 DEF AskApproval, Decide, MergePR, Finish, GiveUp
<1> QED
  BY <1>1, <1>2, <1>3, <1>4, <1>5, <1>6, <1>7, <1>8 DEF Worker

LEMMA BranchWorker ==
    ASSUME TypeInv, BranchInv, [Next]_vars, Worker
    PROVE  BranchInv'
<1>0. /\ task \in Issue /\ UNCHANGED task /\ pc \notin {"returned", "settle"}
      /\ Undisturbed' => Undisturbed
  BY WorkerFrame, UndisturbedBefore
<1>1. CodeIsThere'
  BY <1>0, WorkerCode DEF BranchInv, CodeIsThere
<1>2. NoCommitsLeft'
  <2>1. ASSUME result' = "no-commits"
        PROVE  /\ pc' \in {"fail", "returned", "settle"}
               /\ Undisturbed' => produced'[task'] # "branch"
    <3>1. CASE /\ pc = "createPR" /\ pc' = "fail" /\ produced' = produced
               /\ local[task] = "empty"
      BY <1>0, <3>1 DEF BranchInv, CodeIsThere, Coded
    <3>2. CASE result = "no-commits"
      BY <1>0, <2>1, <3>2, WorkerSaysNoCommits DEF BranchInv, NoCommitsLeft
    <3> QED
      BY <2>1, <3>1, <3>2, WorkerSaysNoCommits
  <2> QED
    BY <2>1 DEF NoCommitsLeft
<1> QED
  BY <1>1, <1>2 DEF BranchInv

LEMMA BranchStep == TypeInv /\ StepsForgotten /\ BranchInv /\ [Next]_vars => BranchInv'
<1> SUFFICES ASSUME TypeInv, StepsForgotten, BranchInv, [Next]_vars PROVE BranchInv'
  OBVIOUS
<1>0. /\ pc \notin {"search", "pick", "down"} => task \in Issue
      /\ Undisturbed' => Undisturbed
  BY UndisturbedBefore DEF TypeInv, TypeOK, WorkerTypeOK
<1>1. ASSUME UNCHANGED <<pc, task, result, produced>>,
             local'[task] = local[task] \/ local'[task] = "absent" \/ pc \notin Coded
      PROVE  BranchInv'
  BY <1>0, <1>1 DEF BranchInv, CodeIsThere, NoCommitsLeft
<1>2. ASSUME pc' \notin Coded, result' # "no-commits"
      PROVE  BranchInv'
  BY <1>2 DEF BranchInv, CodeIsThere, NoCommitsLeft
<1> USE DEF workerVars, gitVars, ghostVars
<1>3. CASE Search \/ Pick \/ Restart
  <2>1. pc \notin {"fail", "returned", "settle"} /\ UNCHANGED result
    BY <1>3 DEF Search, Pick, Restart
  <2>2. pc' \notin Coded
    BY <1>3 DEF Search, Pick, Restart, Coded
  <2> QED
    BY <1>2, <2>1, <2>2 DEF BranchInv, NoCommitsLeft
<1>4. CASE Begin
  <2>1. result' # "no-commits"
    BY <1>4 DEF Begin, BranchInv, NoCommitsLeft
  <2>2. Undisturbed' => pc' \notin Coded
    <3>1. Undisturbed' => StartAt(ResumeFrom(last[task])) \in {"planning", "implement"}
      BY <1>0, <1>4, StartsAfresh DEF Begin, StepsForgotten
    <3> QED
      BY <1>4, <3>1 DEF Begin, Coded
  <2> QED
    BY <2>1, <2>2 DEF BranchInv, CodeIsThere, NoCommitsLeft
<1>5. CASE Return
  <2>1. /\ UNCHANGED <<produced, result, task>> /\ pc = "returned" /\ pc' = "settle"
    BY <1>5 DEF Return
  <2> QED
    BY <1>0, <2>1 DEF BranchInv, CodeIsThere, Coded, NoCommitsLeft
<1>6. CASE Settle
  BY <1>2, <1>6 DEF Settle, Coded
<1>7. CASE Worker
  BY <1>7, BranchWorker
<1>8. CASE Request
  <2>1. pc \in Coded => task \in Issue
    BY <1>0 DEF Coded
  <2> QED
    BY <1>1, <1>8, <2>1, RequestFrame
<1>9. CASE DirectMerge
  BY <1>1, <1>9 DEF DirectMerge
<1>10. CASE \E i \in Issue : Sync(i)
  BY <1>1, <1>10 DEF Sync
<1>11. CASE Crash
  BY <1>2, <1>11 DEF Crash, Coded
<1>12. CASE UNCHANGED vars
  BY <1>1, <1>12 DEF vars
<1> QED
  BY <1>3, <1>4, <1>5, <1>6, <1>7, <1>8, <1>9, <1>10, <1>11, <1>12, Parties

\* Until the first crash or unwritten row, createPR calls a ticket already
\* implemented, which closes it, only if its last implementation left nothing on
\* the ticket's branch, whatever branches users delete and whatever is merged
\* beside the worker.  Code committed while the default branch was checked out is
\* not on it, and this says nothing about that.
\* (createPR, HasCommitsDifferentFromMaster, ensureCommit, handleRetry)
THEOREM NoCodeOfTheBranchIsDropped == Spec => []AlreadyDoneHasNoWork
<1>1. Init => BranchInv
  BY DEF Init, BranchInv, CodeIsThere, NoCommitsLeft, Coded
<1>2. BranchInv => AlreadyDoneHasNoWork
  BY DEF BranchInv, NoCommitsLeft, AlreadyDoneHasNoWork
<1> QED
  BY <1>1, <1>2, BranchStep, ForgottenInit, ForgottenStep, TypeInvInit, TypeInvStep, PTL DEF Spec

-----------------------------------------------------------------------------
(* The worker cannot go round for ever.  Each place is given a number that   *)
(* falls along every path of Process but the two loops: a failed CI check,   *)
(* which uses up an attempt, and a decline, which takes a user.              *)

PlaceRank ==
    [begin           |-> 41, planning        |-> 40, planned         |-> 39,
     implement       |-> 38, implemented     |-> 37, codeReview      |-> 36,
     rejected        |-> 35, fixReview       |-> 34, pushReviewFix   |-> 33,
     reReview        |-> 32, reviewed        |-> 31, createPR        |-> 30,
     prCreated       |-> 29,
     ciRetry         |-> 32, ciCoding        |-> 31, fixPipeline     |-> 30,
     pushPipelineFix |-> 29, checkPipeline   |-> 28, ciPassed        |-> 27,
     declined        |-> 26, declineNoted    |-> 25, fixDecline      |-> 24,
     pushDeclineFix  |-> 23, declineFixed    |-> 22, declineReview   |-> 21,
     reRejected      |-> 20, fixReReview     |-> 19, pushReReviewFix |-> 18,
     declineReviewed |-> 17, await           |-> 16, waiting         |-> 15,
     approved        |-> 14, merge           |-> 13, merged          |-> 12,
     finished        |-> 11, ciExhausted     |-> 5,  fail            |-> 4,
     returned        |-> 3,  settle          |-> 2]

\* What is left to do: attempts, then places, then opening the step's row.
Rank == 100 * (MaxRetries - attempt) + 2 * PlaceRank[pc] + (IF row = "none" THEN 1 ELSE 0)

AttemptsFresh == pc \in {"search", "pick", "begin", "down"} => attempt = 0

Advances ==
    (task # None /\ pc # "waiting") =>
        /\ Orchestrator \/ Worker => task' = None \/ Rank' < Rank
        /\ task' = None \/ Rank' < Rank \/ Rank' = Rank

LEMMA RanksAreSmall ==
    /\ \A p \in DOMAIN PlaceRank : PlaceRank[p] \in 2..41
    /\ Places \ {"search", "pick", "down"} = DOMAIN PlaceRank
BY PlacesMembers DEF PlaceRank

LEMMA RankBounded ==
    ASSUME TypeInv, task # None
    PROVE  Rank \in 0..(100 * MaxRetries + 83)
<1>1. pc \in DOMAIN PlaceRank /\ MaxRetries \in Nat /\ attempt \in 0..MaxRetries
  BY RanksAreSmall, ConstantsAssumption DEF TypeInv, TypeOK, WorkerTypeOK
<1> DEFINE p == PlaceRank[pc]
<1>2. p \in 2..41
  BY <1>1, RanksAreSmall
<1>3. Rank = 100 * (MaxRetries - attempt) + 2 * p + (IF row = "none" THEN 1 ELSE 0)
  BY DEF Rank
<1> HIDE DEF p
<1> QED
  BY <1>1, <1>2, <1>3

\* From one place to a lower one, whatever becomes of the row.
LEMMA LowerPlace ==
    ASSUME TypeInv, pc \in DOMAIN PlaceRank, pc' \in DOMAIN PlaceRank, UNCHANGED attempt,
           PlaceRank[pc'] < PlaceRank[pc]
    PROVE  Rank' < Rank
<1>1. MaxRetries \in Nat /\ attempt \in Nat
  BY ConstantsAssumption DEF TypeInv, TypeOK, WorkerTypeOK
<1> DEFINE p == PlaceRank[pc]
<1> DEFINE q == PlaceRank[pc']
<1>2. p \in Nat /\ q \in Nat /\ q < p
  BY RanksAreSmall
<1>3. /\ Rank = 100 * (MaxRetries - attempt) + 2 * p + (IF row = "none" THEN 1 ELSE 0)
      /\ Rank' = 100 * (MaxRetries - attempt) + 2 * q + (IF row' = "none" THEN 1 ELSE 0)
  BY DEF Rank
<1> HIDE DEF p, q
<1> QED
  BY <1>1, <1>2, <1>3

LEMMA ReportLowers ==
    \A p \in DOMAIN ReportAt : /\ p \in DOMAIN PlaceRank /\ ReportAt[p].next \in DOMAIN PlaceRank
                               /\ PlaceRank[ReportAt[p].next] < PlaceRank[p]
<1> USE DEF ReportAt, Event, PlaceRank
<1>1. \A p \in {"planned", "implemented", "rejected", "reviewed", "prCreated"} :
        /\ p \in DOMAIN PlaceRank /\ ReportAt[p].next \in DOMAIN PlaceRank
        /\ PlaceRank[ReportAt[p].next] < PlaceRank[p]
  OBVIOUS
<1>2. \A p \in {"ciRetry", "ciCoding", "ciExhausted", "ciPassed", "approved", "merged"} :
        /\ p \in DOMAIN PlaceRank /\ ReportAt[p].next \in DOMAIN PlaceRank
        /\ PlaceRank[ReportAt[p].next] < PlaceRank[p]
  OBVIOUS
<1>3. \A p \in {"declined", "declineNoted", "declineFixed", "reRejected", "declineReviewed"} :
        /\ p \in DOMAIN PlaceRank /\ ReportAt[p].next \in DOMAIN PlaceRank
        /\ PlaceRank[ReportAt[p].next] < PlaceRank[p]
  OBVIOUS
<1> QED
  BY <1>1, <1>2, <1>3, ReportDomain

\* Every step of the worker brings it nearer to its end.
LEMMA WorkerLowers ==
    ASSUME TypeInv, Worker, pc # "waiting"
    PROVE  Rank' < Rank
<1> DEFINE Lower == /\ pc \in DOMAIN PlaceRank /\ pc' \in DOMAIN PlaceRank /\ UNCHANGED attempt
                    /\ PlaceRank[pc'] < PlaceRank[pc]
<1>0. MaxRetries \in Nat /\ attempt \in Nat
  BY ConstantsAssumption DEF TypeInv, TypeOK, WorkerTypeOK
<1>1. CASE StartStep
  <2>1. UNCHANGED <<attempt, pc>> /\ row = "none" /\ row' # "none" /\ PlaceRank[pc] \in Nat
    BY <1>1, StepDomain, RanksAreSmall DEF StartStep, OpenRow, PlaceRank
  <2>2. /\ Rank = 100 * (MaxRetries - attempt) + 2 * PlaceRank[pc] + 1
        /\ Rank' = 100 * (MaxRetries - attempt) + 2 * PlaceRank[pc] + 0
    BY <2>1 DEF Rank
  <2> QED
    BY <1>0, <2>1, <2>2
<1>2. CASE CheckCI /\ attempt' # attempt
  <2>1. /\ attempt' = attempt + 1 /\ UNCHANGED row
        /\ pc = "checkPipeline" /\ pc' \in {"ciRetry", "ciExhausted"}
    BY <1>2 DEF CheckCI, FailedCheck
  <2>2. PlaceRank[pc] = 28 /\ PlaceRank[pc'] \in {32, 5}
    BY <2>1 DEF PlaceRank
  <2>3. /\ Rank = 100 * (MaxRetries - attempt) + 56 + (IF row = "none" THEN 1 ELSE 0)
        /\ \E r \in {32, 5} :
             Rank' = 100 * (MaxRetries - (attempt + 1)) + 2 * r + (IF row = "none" THEN 1 ELSE 0)
    BY <2>1, <2>2 DEF Rank
  <2> QED
    BY <1>0, <2>3
<1>3. FailStep => Lower
  BY StepDomain DEF FailStep, PlaceRank
<1>4. FinishPlanning => Lower
  BY DEF FinishPlanning, PlaceRank
<1>5. FinishCoding => Lower
  BY DEF FinishCoding, CodingNext, PlaceRank
<1>6. FinishFix => Lower
  BY DEF FinishFix, FixNext, PlaceRank
<1>7. FinishReview => Lower
  BY DEF FinishReview, ReviewNext, PlaceRank
<1>8. PushFixes => Lower
  <2>1. PushFixes => UNCHANGED attempt /\ pc \in DOMAIN PushNext /\ pc' \in {PushNext[pc], "fail"}
    BY DEF PushFixes
  <2> QED
    BY <2>1 DEF PushNext, PlaceRank
<1>9. StartCreatePR /\ pc' # pc => Lower
  BY DEF StartCreatePR, PlaceRank
<1>10. CASE StartCreatePR /\ pc' = pc
  <2>1. UNCHANGED <<attempt, pc>> /\ row = "none" /\ row' # "none" /\ PlaceRank[pc] = 30
    BY <1>10 DEF StartCreatePR, OpenRow, PlaceRank
  <2>2. /\ Rank = 100 * (MaxRetries - attempt) + 60 + 1
        /\ Rank' = 100 * (MaxRetries - attempt) + 60 + 0
    BY <2>1 DEF Rank
  <2> QED
    BY <1>0, <2>2
<1>11. FinishCreatePR => Lower
  BY DEF FinishCreatePR, PlaceRank
<1>12. CheckCI /\ attempt' = attempt => Lower
  BY <1>0 DEF CheckCI, FailedCheck, PlaceRank
<1>13. Report => Lower
  BY ReportLowers DEF Report
<1>14. AskApproval \/ MergePR \/ Finish => Lower
  BY DEF AskApproval, MergePR, Finish, PlaceRank
<1>15. GiveUp => Lower
  BY DEF GiveUp, PlaceRank
<1>16. ~Decide
  BY DEF Decide
<1>17. Lower => Rank' < Rank
  BY LowerPlace
<1> HIDE DEF Lower
<1> QED
  BY <1>1, <1>2, <1>3, <1>4, <1>5, <1>6, <1>7, <1>8, <1>9, <1>10, <1>11, <1>12, <1>13, <1>14,
     <1>15, <1>16, <1>17
  DEF Worker

LEMMA AdvancesStep ==
    ASSUME TypeInv, AttemptsFresh, [Next]_vars
    PROVE  Advances
<1> SUFFICES ASSUME task # None, pc # "waiting"
             PROVE  /\ Orchestrator \/ Worker => task' = None \/ Rank' < Rank
                    /\ task' = None \/ Rank' < Rank \/ Rank' = Rank
  BY DEF Advances
<1>0. /\ pc \in DOMAIN PlaceRank /\ pc \notin {"search", "pick", "down"}
      /\ MaxRetries \in Nat /\ attempt \in Nat
  BY RanksAreSmall, ConstantsAssumption DEF TypeInv, TypeOK, WorkerTypeOK
<1>1. ASSUME task' = None \/ Rank' < Rank
      PROVE  /\ Orchestrator \/ Worker => task' = None \/ Rank' < Rank
             /\ task' = None \/ Rank' < Rank \/ Rank' = Rank
  BY <1>1
<1>2. ~Search /\ ~Pick /\ ~Restart
  BY <1>0 DEF Search, Pick, Restart
<1>3. CASE Begin
  <2>1. attempt = 0 /\ attempt' = 0 /\ pc = "begin"
    BY <1>3 DEF Begin, AttemptsFresh
  <2>2. pc' \in {"planning", "implement", "codeReview", "createPR", "checkPipeline", "await",
                 "returned"}
    BY <1>3, StartPlaces, ResumeFromNat DEF Begin
  <2>3. PlaceRank[pc'] < PlaceRank[pc] /\ pc' \in DOMAIN PlaceRank
    BY <2>1, <2>2 DEF PlaceRank
  <2> QED
    BY <1>0, <1>1, <2>1, <2>3, LowerPlace
<1>4. CASE Return
  <2>1. pc = "returned" /\ pc' = "settle" /\ UNCHANGED attempt
    BY <1>4 DEF Return
  <2>2. PlaceRank[pc'] < PlaceRank[pc] /\ pc' \in DOMAIN PlaceRank
    BY <2>1 DEF PlaceRank
  <2> QED
    BY <1>0, <1>1, <2>1, <2>2, LowerPlace
<1>5. CASE Settle \/ Crash
  BY <1>1, <1>5 DEF Settle, Crash
<1>6. CASE Worker
  BY <1>1, <1>6, WorkerLowers
<1>7. ASSUME UNCHANGED <<pc, attempt>>, row' = row \/ (row # "none" /\ row' # "none")
      PROVE  Rank' = Rank
  BY <1>7 DEF Rank
<1>8. CASE ~(Orchestrator \/ Worker)
  <2>1. CASE Request
    BY <1>7, <1>8, <2>1, RequestFrame
  <2>2. CASE DirectMerge
    BY <1>7, <1>8, <2>2 DEF DirectMerge, workerVars
  <2>3. CASE \E i \in Issue : Sync(i)
    BY <1>7, <1>8, <2>3 DEF Sync, workerVars
  <2>4. CASE UNCHANGED vars
    BY <1>7, <1>8, <2>4 DEF vars, workerVars
  <2> QED
    BY <1>2, <1>5, <1>8, <2>1, <2>2, <2>3, <2>4, Parties DEF Orchestrator
<1> QED
  BY <1>2, <1>3, <1>4, <1>5, <1>6, <1>8 DEF Orchestrator

LEMMA FreshStep == TypeInv /\ AttemptsFresh /\ [Next]_vars => AttemptsFresh'
<1> SUFFICES ASSUME TypeInv, AttemptsFresh, [Next]_vars PROVE AttemptsFresh'
  OBVIOUS
<1> USE DEF workerVars
<1>1. ASSUME UNCHANGED <<pc, attempt>> PROVE AttemptsFresh'
  BY <1>1 DEF AttemptsFresh
<1>2. CASE Search \/ Pick \/ Restart
  BY <1>2 DEF Search, Pick, Restart, AttemptsFresh
<1>3. CASE Begin \/ Return \/ Settle \/ Crash
  BY <1>3 DEF Begin, Return, Settle, Crash, AttemptsFresh
<1>4. CASE Worker
  BY <1>4, WorkerFrame DEF AttemptsFresh
<1>5. CASE Request
  BY <1>1, <1>5, RequestFrame
<1>6. CASE DirectMerge
  BY <1>1, <1>6 DEF DirectMerge
<1>7. CASE \E i \in Issue : Sync(i)
  BY <1>1, <1>7 DEF Sync
<1>8. CASE UNCHANGED vars
  BY <1>1, <1>8 DEF vars
<1> QED
  BY <1>2, <1>3, <1>4, <1>5, <1>6, <1>7, <1>8, Parties

\* For any number of retries: while the worker holds a ticket and does not wait
\* for a user, each of its steps lowers a number that no request,
\* synchronisation or failing call raises, so it makes at most 100 * MaxRetries
\* + 83 steps before it lets go of the ticket or waits (the safety half of
\* WorkerFreed; that it takes these steps is the scheduling).  (Process)
THEOREM WorkerAdvances ==
    Spec => [](task # None => Rank \in 0..(100 * MaxRetries + 83)) /\ [][Advances]_vars
<1>1. Init => AttemptsFresh
  BY DEF Init, AttemptsFresh
<1>2. TypeInv => (task # None => Rank \in 0..(100 * MaxRetries + 83))
  BY RankBounded
<1>3. TypeInv /\ AttemptsFresh /\ [Next]_vars => [Advances]_vars
  BY AdvancesStep
<1> QED
  BY <1>1, <1>2, <1>3, FreshStep, TypeInvInit, TypeInvStep, PTL DEF Spec
=============================================================================
