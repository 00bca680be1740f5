--------------------------- MODULE ServicesProofs ---------------------------
(***************************************************************************)
(* What is proved of a service holds in Services, which looks at one of      *)
(* several: a step of Services is a step of the service, or leaves its       *)
(* variables alone.  The services are instantiated here once more, with      *)
(* their proofs; their definitions are those that Services uses.             *)
(***************************************************************************)
EXTENDS Services, Sequences, WellFoundedInduction, TLAPS

WebP   == INSTANCE WebServerProofs
CleanP == INSTANCE CleanupProofs
WizP   == INSTANCE WizardProofs

LEMMA Components ==
    ASSUME [Next]_vars
    PROVE  /\ Web!Next \/ UNCHANGED webVars
           /\ Wiz!Next \/ UNCHANGED wizardVars
           /\ Clean!Next \/ UNCHANGED cleanupVars
           /\ Log!Next \/ UNCHANGED logVars
           /\ Close!Next \/ UNCHANGED closeVars
  BY DEF Next, vars, WebRuns, LogRuns, SetRuns, RateRuns, WizRuns, CloseRuns, CleanRuns

-----------------------------------------------------------------------------

(* The supervisor.                                                          *)

LEMMA WebInit == Init => WebP!Init
  BY DEF Init, Web!Init, WebP!Init

LEMMA WebNext == Web!Next => WebP!Next
<1>1. Web!Start => WebP!Start
  BY DEF Web!Start, Web!startProcess, Web!startFails, Web!Started, Web!Fail, WebP!Start,
      WebP!startProcess, WebP!startFails, WebP!Started, WebP!Fail
<1>2. Web!BeginStop => WebP!BeginStop
  BY DEF Web!BeginStop, Web!Lock, WebP!BeginStop, WebP!Lock
<1>3. Web!MainStep => WebP!MainStep
  BY DEF Web!MainStep, Web!StopTheProcess, Web!EndStop, Web!stopProcess, Web!Unlock,
      WebP!MainStep, WebP!StopTheProcess, WebP!EndStop, WebP!stopProcess, WebP!Unlock
<1>4. Web!StopSeen => WebP!StopSeen
  BY DEF Web!StopSeen, Web!Stopping, WebP!StopSeen, WebP!Stopping
<1>5. Web!MonitorStep => WebP!MonitorStep
  BY DEF Web!MonitorStep, Web!Tick, Web!CheckHealth, Web!EndSleep, Web!StopBeforeRestart,
      Web!Restart, Web!EndRestart, Web!Healthy, Web!Lock, Web!Stopping, Web!StopOld,
      Web!startProcess, Web!startFails, Web!Unlock, Web!isProcessRunning, Web!Serving,
      Web!stopProcess, Web!Started, Web!Fail, WebP!MonitorStep, WebP!Tick, WebP!CheckHealth,
      WebP!EndSleep, WebP!StopBeforeRestart, WebP!Restart, WebP!EndRestart, WebP!Healthy,
      WebP!Lock, WebP!Stopping, WebP!StopOld, WebP!startProcess, WebP!startFails,
      WebP!Unlock, WebP!isProcessRunning, WebP!Serving, WebP!stopProcess, WebP!Started,
      WebP!Fail
<1>6. Web!ProcessFails => WebP!ProcessFails
  BY DEF Web!ProcessFails, Web!Fail, WebP!ProcessFails, WebP!Fail
<1> QED
  BY <1>1, <1>2, <1>3, <1>4, <1>5, <1>6 DEF Web!Next, WebP!Next

LEMMA WebStep == [Next]_vars => [WebP!Next]_(WebP!vars)
  BY Components, WebNext DEF webVars, WebP!vars

\* The one process that may still be there is the one the supervisor knows,
\* and none once Stop has returned, for any number of starts, hangs and
\* exits.
THEOREM NoneIsLeftBehind == ASSUME MaxStarts \in Nat PROVE Spec => []NoneLeftBehind
<1>1. WebP!Spec => []WebP!NoneLeftBehind
  BY WebP!NoProcessLeftBehind
<1>2. WebP!NoneLeftBehind <=> NoneLeftBehind
  BY DEF NoneLeftBehind, Web!NoneLeftBehind, Web!Started, WebP!NoneLeftBehind, WebP!Started
<1> QED
  BY <1>1, <1>2, WebInit, WebStep, PTL DEF Spec, WebP!Spec

-----------------------------------------------------------------------------
(* The clean-up after a sprint.                                             *)

LEMMA CleanInit == Init => CleanP!Init
  BY DEF Init, Clean!Init, Clean!Zeros, Clean!Nobody, Clean!None, CleanP!Init, CleanP!Zeros,
      CleanP!Nobody, CleanP!None

LEMMA CleanNext == Clean!Next => CleanP!Next
<1>1. Clean!Begin => CleanP!Begin
  BY DEF Clean!Begin, Clean!Nobody, Clean!work, Clean!None, CleanP!Begin, CleanP!Nobody,
      CleanP!work, CleanP!None
<1>2. Clean!Confirm => CleanP!Confirm
  BY DEF Clean!Confirm, Clean!Deletable, Clean!work, Clean!bounds, CleanP!Confirm,
      CleanP!Deletable, CleanP!work, CleanP!bounds
<1>3. Clean!DryRun => CleanP!DryRun
  BY DEF Clean!DryRun, Clean!work, Clean!bounds, CleanP!DryRun, CleanP!work, CleanP!bounds
<1>4. Clean!End => CleanP!End
  BY DEF Clean!End, Clean!work, Clean!bounds, CleanP!End, CleanP!work, CleanP!bounds
<1>5. ASSUME NEW t \in Merged, Clean!CreateBranch(t) PROVE CleanP!CreateBranch(t)
  BY <1>5 DEF Clean!CreateBranch, Clean!None, Clean!bounds, CleanP!CreateBranch, CleanP!None,
      CleanP!bounds
<1>6. ASSUME NEW t \in Merged, Clean!Commit(t) PROVE CleanP!Commit(t)
  BY <1>6 DEF Clean!Commit, Clean!bounds, CleanP!Commit, CleanP!bounds
<1>7. ASSUME NEW t \in Merged, Clean!Push(t) PROVE CleanP!Push(t)
  BY <1>7 DEF Clean!Push, Clean!bounds, CleanP!Push, CleanP!bounds
<1>8. ASSUME NEW t \in Merged, Clean!MergePR(t) PROVE CleanP!MergePR(t)
  BY <1>8 DEF Clean!MergePR, Clean!bounds, CleanP!MergePR, CleanP!bounds
<1>9. ASSUME NEW t \in Merged, Clean!Pull(t) PROVE CleanP!Pull(t)
  BY <1>9 DEF Clean!Pull, Clean!bounds, CleanP!Pull, CleanP!bounds
<1>10. ASSUME NEW t \in Merged, Clean!NoBranch(t) PROVE CleanP!NoBranch(t)
  BY <1>10 DEF Clean!NoBranch, Clean!work, Clean!bounds, CleanP!NoBranch, CleanP!work, CleanP!bounds
<1>11. ASSUME NEW t \in Merged, Clean!HasUnmerged(t) PROVE CleanP!HasUnmerged(t)
  BY <1>11 DEF Clean!HasUnmerged, Clean!None, Clean!Unmerged, Clean!UnmergedIfUnknown, Clean!Fault,
      Clean!work, CleanP!HasUnmerged, CleanP!None, CleanP!Unmerged,
      CleanP!UnmergedIfUnknown, CleanP!Fault, CleanP!work
<1>12. ASSUME NEW t \in Merged, Clean!HasOpenPR(t) PROVE CleanP!HasOpenPR(t)
  BY <1>12 DEF Clean!HasOpenPR, Clean!None, Clean!Fault, Clean!work, CleanP!HasOpenPR, CleanP!None,
      CleanP!Fault, CleanP!work
<1>13. ASSUME NEW t \in Merged, Clean!RemoveBranch(t) PROVE CleanP!RemoveBranch(t)
  BY <1>13 DEF Clean!RemoveBranch, Clean!Loses, Clean!work, Clean!bounds, CleanP!RemoveBranch,
      CleanP!Loses, CleanP!work, CleanP!bounds
<1>14. ASSUME NEW t \in Merged, Clean!DeleteRemoteBranch(t) PROVE CleanP!DeleteRemoteBranch(t)
  BY <1>14 DEF Clean!DeleteRemoteBranch, Clean!work, Clean!bounds, CleanP!DeleteRemoteBranch,
      CleanP!work, CleanP!bounds
<1>15. ASSUME NEW t \in Merged, Clean!BranchFails(t) PROVE CleanP!BranchFails(t)
  BY <1>15 DEF Clean!BranchFails, Clean!Fault, Clean!work, CleanP!BranchFails, CleanP!Fault,
      CleanP!work
<1> QED
  BY <1>1, <1>2, <1>3, <1>4, <1>5, <1>6, <1>7, <1>8, <1>9, <1>10, <1>11, <1>12, <1>13, <1>14, <1>15 DEF Clean!Next, CleanP!Next

LEMMA CleanStep == [Next]_vars => [CleanP!Next]_(CleanP!vars)
  BY Components, CleanNext DEF cleanupVars, CleanP!vars, CleanP!work, CleanP!bounds

\* Commits the command found on a branch are in the default branch by the
\* time it deletes the branch, whatever failed and whatever the program did
\* meanwhile.
THEOREM SeenWorkStays == Spec => []SeenWorkSurvives
<1>1. CleanP!Spec => []CleanP!SeenWorkSurvives
  BY CleanP!SeenWorkIsKept
<1>2. CleanP!SeenWorkSurvives <=> SeenWorkSurvives
  BY DEF SeenWorkSurvives, Clean!SeenWorkSurvives, CleanP!SeenWorkSurvives
<1> QED
  BY <1>1, <1>2, CleanInit, CleanStep, PTL DEF Spec, CleanP!Spec

-----------------------------------------------------------------------------
(* The wizard.                                                              *)

LEMMA WizInit == Init => WizP!Init
  BY DEF Init, Wiz!Init, Wiz!Session, WizP!Init, WizP!Session

LEMMA WizNext == Wiz!Next => WizP!Next
<1>1. Wiz!Create => WizP!Create
  BY DEF Wiz!Create, Wiz!Room, Wiz!Cardinality, Wiz!requestVars, Wiz!watched, Wiz!boundVars, WizP!Create,
      WizP!Room, WizP!Cardinality, WizP!requestVars, WizP!watched, WizP!boundVars
<1>2. Wiz!CleanupOldSessions => WizP!CleanupOldSessions
  BY DEF Wiz!CleanupOldSessions, Wiz!requestVars, Wiz!watched, Wiz!boundVars,
      WizP!CleanupOldSessions, WizP!requestVars, WizP!watched, WizP!boundVars
<1>3. ASSUME NEW s, Wiz!Cancel(s) PROVE WizP!Cancel(s)
  BY <1>3 DEF Wiz!Cancel, Wiz!requestVars, Wiz!watched, Wiz!boundVars, WizP!Cancel,
      WizP!requestVars, WizP!watched, WizP!boundVars
<1>4. ASSUME NEW s, Wiz!Age(s) PROVE WizP!Age(s)
  BY <1>4 DEF Wiz!Age, Wiz!Held, Wiz!requestVars, Wiz!watched, Wiz!boundVars, WizP!Age,
      WizP!Held, WizP!requestVars, WizP!watched, WizP!boundVars
<1>5. ASSUME NEW r, NEW s, Wiz!Refine(r, s) PROVE WizP!Refine(r, s)
  BY <1>5 DEF Wiz!Refine, Wiz!Take, Wiz!boundVars, Wiz!Held, WizP!Refine, WizP!Take, WizP!boundVars,
      WizP!Held
<1>6. ASSUME NEW r, Wiz!RefineFails(r) PROVE WizP!RefineFails(r)
  BY <1>6 DEF Wiz!RefineFails, Wiz!Fault, Wiz!Return, Wiz!sessionVars, Wiz!watched,
      WizP!RefineFails, WizP!Fault, WizP!Return, WizP!sessionVars, WizP!watched
<1>7. ASSUME NEW r, Wiz!LLMAnswers(r) PROVE WizP!LLMAnswers(r)
  BY <1>7 DEF Wiz!LLMAnswers, Wiz!sessionVars, Wiz!watched, WizP!LLMAnswers, WizP!sessionVars,
      WizP!watched
<1>8. ASSUME NEW r, Wiz!SetPlanning(r) PROVE WizP!SetPlanning(r)
  BY <1>8 DEF Wiz!SetPlanning, Wiz!watched, Wiz!boundVars, WizP!SetPlanning, WizP!watched,
      WizP!boundVars
<1>9. ASSUME NEW r, Wiz!SetTitle(r) PROVE WizP!SetTitle(r)
  BY <1>9 DEF Wiz!SetTitle, Wiz!Return, Wiz!NewTitle, Wiz!boundVars, WizP!SetTitle, WizP!Return,
      WizP!NewTitle, WizP!boundVars
<1>10. ASSUME NEW r, NEW s, Wiz!CreateFromSession(r, s) PROVE WizP!CreateFromSession(r, s)
  BY <1>10 DEF Wiz!CreateFromSession, Wiz!Take, Wiz!GetFinalTitle, Wiz!boundVars, Wiz!Held,
      WizP!CreateFromSession, WizP!Take, WizP!GetFinalTitle, WizP!boundVars, WizP!Held
<1>11. ASSUME NEW r, Wiz!CreateIssue(r) PROVE WizP!CreateIssue(r)
  BY <1>11 DEF Wiz!CreateIssue, Wiz!NewIssue, Wiz!GetFinalTitle, Wiz!sessionVars, Wiz!watched,
      Wiz!boundVars, WizP!CreateIssue, WizP!NewIssue, WizP!GetFinalTitle, WizP!sessionVars,
      WizP!watched, WizP!boundVars
<1>12. ASSUME NEW r, Wiz!CreateIssueLost(r) PROVE WizP!CreateIssueLost(r)
  BY <1>12 DEF Wiz!CreateIssueLost, Wiz!NewIssue, Wiz!GetFinalTitle, Wiz!Fault, Wiz!Return,
      Wiz!sessionVars, WizP!CreateIssueLost, WizP!NewIssue, WizP!GetFinalTitle, WizP!Fault,
      WizP!Return, WizP!sessionVars
<1>13. ASSUME NEW r, Wiz!CreateIssueFails(r) PROVE WizP!CreateIssueFails(r)
  BY <1>13 DEF Wiz!CreateIssueFails, Wiz!Fault, Wiz!Return, Wiz!sessionVars, Wiz!watched,
      WizP!CreateIssueFails, WizP!Fault, WizP!Return, WizP!sessionVars, WizP!watched
<1>14. ASSUME NEW r, Wiz!AssignAndDelete(r) PROVE WizP!AssignAndDelete(r)
  BY <1>14 DEF Wiz!AssignAndDelete, Wiz!Return, Wiz!Fault, Wiz!EndsSession, Wiz!watched,
      WizP!AssignAndDelete, WizP!Return, WizP!Fault, WizP!EndsSession, WizP!watched
<1> QED
  BY <1>1, <1>2, <1>3, <1>4, <1>5, <1>6, <1>7, <1>8, <1>9, <1>10, <1>11, <1>12, <1>13, <1>14
  DEF Wiz!Next, Wiz!RefineRequest, Wiz!CreateRequest, Wiz!Session, WizP!Next,
      WizP!RefineRequest, WizP!CreateRequest, WizP!Session

LEMMA WizStep == [Next]_vars => [WizP!Next]_(WizP!vars)
  BY Components, WizNext DEF wizardVars, WizP!vars, WizP!sessionVars, WizP!requestVars,
      WizP!watched, WizP!boundVars

\* However often creating is tried, and whatever fails, expires or is cancelled
\* meanwhile, a session held by one request at a time becomes at most one issue
\* more than its requests did not hear of.  (handleWizardCreateSingle)
THEOREM OneIssueOfASession == ASSUME MaxIds \in Nat PROVE Spec => []OneIssue
<1>1. WizP!Spec => []WizP!OneIssue
  BY WizP!SessionBecomesOneIssue
<1>2. WizP!OneIssue <=> OneIssue
  BY DEF OneIssue, Wiz!OneIssue, Wiz!Session, WizP!OneIssue, WizP!Session
<1> QED
  BY <1>1, <1>2, WizInit, WizStep, PTL DEF Spec, WizP!Spec

\* Title and text of an issue come from one refinement, unless two requests held
\* the session at a time, or it was refined again after a title had been given.
\* (handleWizardRefine, GetFinalTitle)
THEOREM TitlesFitTexts == ASSUME MaxIds \in Nat PROVE Spec => []TitleFitsText
<1>1. WizP!Spec => []WizP!TitleFitsText
  BY WizP!IssueIsOfOneText
<1>2. WizP!TitleFitsText <=> TitleFitsText
  BY DEF TitleFitsText, Wiz!TitleFitsText, Wiz!Session, WizP!TitleFitsText, WizP!Session
<1> QED
  BY <1>1, <1>2, WizInit, WizStep, PTL DEF Spec, WizP!Spec

-----------------------------------------------------------------------------
(* The log stream.                                                          *)

\* Outside of a monitoring there is no goroutine that could read.
SilentInv == logOrchestrator = "idle" => logMonitor \in {"none", "ended"}

LEMMA SilentStep == SilentInv /\ [Next]_vars => SilentInv'
<1> SUFFICES ASSUME SilentInv, [Next]_vars PROVE SilentInv'
  OBVIOUS
<1>1. CASE UNCHANGED logVars
  BY <1>1 DEF SilentInv, logVars
<1>2. ASSUME NEW t, Log!StartMonitoring(t) PROVE SilentInv'
  BY <1>2 DEF SilentInv, Log!StartMonitoring
<1>3. CASE Log!BeginStop \/ Log!EndStop
  BY <1>3 DEF SilentInv, Log!BeginStop, Log!EndStop, Log!MonitorGone, Log!monitorVars
<1>4. CASE Log!Worker
  BY <1>4 DEF SilentInv, Log!Worker, Log!OpenLog, Log!Logf, Log!EndLog, Log!CloseLog,
     Log!managerVars, Log!monitorVars
<1>5. CASE Log!Monitor
  BY <1>5 DEF SilentInv, Log!Monitor, Log!Poll, Log!StatFile, Log!ReadFile, Log!Remember,
     Log!EndPoll, Log!MonitorEnds, Log!managerVars
<1> QED
  BY <1>1, <1>2, <1>3, <1>4, <1>5, Components DEF Log!Next

\* Nothing is broadcast once StopMonitoring has returned, wherever in its poll
\* the goroutine was when the orchestrator stopped it.  (StopMonitoring)
THEOREM NothingAfterStop == Spec => StopIsFinal
<1>1. Init => SilentInv
  BY DEF Init, Log!Init, SilentInv
<1>2. SilentInv /\ [Next]_vars => [Log!SilentWhenIdle]_vars
  <2> SUFFICES ASSUME SilentInv, [Next]_vars, logOrchestrator = "idle"
               PROVE  UNCHANGED Log!sentVars \/ logOrchestrator' = "processing"
    BY DEF Log!SilentWhenIdle
  <2>1. CASE UNCHANGED logVars
    BY <2>1 DEF logVars, Log!sentVars
  <2>2. ASSUME NEW t, Log!StartMonitoring(t) PROVE logOrchestrator' = "processing"
    BY <2>2 DEF Log!StartMonitoring
  <2>3. CASE Log!BeginStop \/ Log!EndStop \/ Log!Worker
    BY <2>3 DEF Log!BeginStop, Log!EndStop, Log!Worker, Log!OpenLog, Log!Logf, Log!EndLog,
       Log!CloseLog
  <2>4. CASE Log!Monitor
    BY <2>4 DEF SilentInv, Log!Monitor, Log!Poll, Log!StatFile, Log!ReadFile, Log!Remember,
       Log!EndPoll, Log!MonitorEnds
  <2> QED
    BY <2>1, <2>2, <2>3, <2>4, Components DEF Log!Next
<1> QED
  BY <1>1, <1>2, SilentStep, PTL DEF Spec, StopIsFinal

-----------------------------------------------------------------------------
(* The rate limits.                                                         *)

Numbers == [known : BOOLEAN, used : [Rate!Kind -> Nat]]

\* GetWorstLimit chooses one of the three, and none is used more.
LEMMA WorstIsWorst ==
  ASSUME NEW s \in Numbers
  PROVE  /\ Rate!GetWorstLimit(s) \in Rate!Kind
         /\ \A j \in Rate!Kind : s.used[j] <= s.used[Rate!GetWorstLimit(s)]
<1> DEFINE Worst(k) == \A j \in Rate!Kind : \/ s.used[j] < s.used[k]
                                            \/ s.used[j] = s.used[k] /\ Rate!Order[k] <= Rate!Order[j]
<1>1. s.used["core"] \in Nat /\ s.used["graphql"] \in Nat /\ s.used["search"] \in Nat
  BY DEF Numbers, Rate!Kind
<1>2. \E k \in Rate!Kind : Worst(k)
  BY <1>1 DEF Rate!Kind, Rate!Order
<1>3. /\ Rate!GetWorstLimit(s) \in Rate!Kind
      /\ Worst(Rate!GetWorstLimit(s))
  <2> HIDE DEF Worst
  <2>1. Rate!GetWorstLimit(s) = CHOOSE k \in Rate!Kind : Worst(k)
    BY DEF Rate!GetWorstLimit, Worst
  <2> QED
    BY <1>2, <2>1
<1> QED
  BY <1>1, <1>3 DEF Rate!Kind

\* For any numbers of GitHub and any limit the board is green exactly if no
\* limit is used by more than half.  (GetWorstLimit, GetColorByPercentage)
THEOREM GreenMeansNoneHalfUsed ==
  ASSUME Limit \in Nat, summary.limits \in Numbers
  PROVE  Rate!Board.color = "green" <=> \A k \in Rate!Kind : 2 * summary.limits.used[k] <= Limit
<1> DEFINE used == summary.limits.used
<1> DEFINE worst == Rate!GetWorstLimit(summary.limits)
<1> DEFINE top == used[worst]
<1>1. /\ worst \in Rate!Kind /\ used \in [Rate!Kind -> Nat]
      /\ \A j \in Rate!Kind : used[j] <= top
  BY WorstIsWorst DEF Numbers
<1>2. top \in Nat /\ \A k \in Rate!Kind : used[k] \in Nat
  BY <1>1
<1>3. Rate!Board.color = Rate!GetColorByPercentage(top)
  BY DEF Rate!Board
<1> HIDE DEF top, used, worst
<1>4. Rate!GetColorByPercentage(top) = "green" <=> 2 * top <= Limit
  <2>1. CASE top * 100 > 80 * Limit
    BY <1>2, <2>1 DEF Rate!GetColorByPercentage
  <2>2. CASE ~(top * 100 > 80 * Limit) /\ top * 100 > 50 * Limit
    BY <1>2, <2>2 DEF Rate!GetColorByPercentage
  <2>3. CASE ~(top * 100 > 50 * Limit)
    BY <1>2, <2>3 DEF Rate!GetColorByPercentage
  <2> QED
    BY <2>1, <2>2, <2>3
<1>5. (\A k \in Rate!Kind : 2 * used[k] <= Limit) <=> 2 * top <= Limit
  BY <1>1, <1>2 DEF top
<1> QED
  BY <1>3, <1>4, <1>5 DEF used

-----------------------------------------------------------------------------
(* What the monitor broadcasts.                                            *)

Piece == {"line", "part", "end", "long"}

Log1 == [state : {"closed", "open", "ended"}, text : Seq(Piece), modTime : Nat]

Reading(f, places) == logMonitor \in places /\ f = Log!First(todo)

\* Of a file without a line that is too long, what was broadcast is what was read:
\* up to the offset; until it is remembered, up to reached; or up to the end
\* marker.  And what is not broadcast has another time than the one remembered.
FileInv(f) ==
    /\ fileState[f].complete \in BOOLEAN
    /\ fileState[f] = [offset |-> fileState[f].offset, complete |-> fileState[f].complete,
                       modTime |-> fileState[f].modTime]
    /\ fileState[f].offset \in 0..Len(logFile[f].text) /\ sent[f] \in 0..Len(logFile[f].text)
    /\ f \notin disordered
    /\ fileState[f].complete => \E k \in 1..sent[f] : logFile[f].text[k] = "end"
    /\ Reading(f, {"read"}) => ~fileState[f].complete
    /\ Reading(f, {"remember"}) =>
         /\ reached \in 0..Len(logFile[f].text)
         /\ fileState[f].complete \/ sent[f] = reached
    /\ ~Reading(f, {"remember"}) => fileState[f].complete \/ sent[f] = fileState[f].offset
    /\ Log!Unsent(f) /\ f \notin unseen => logFile[f].modTime \notin Log!Remembered(f)

LogInv ==
    /\ logFile \in [Log!File -> Log1]
    /\ DOMAIN fileState = Log!File /\ DOMAIN sent = Log!File
    /\ \A f \in Log!File :
         /\ logFile[f].text # <<>> => logFile[f].modTime > 0
         /\ ~Log!HasLong(f) => FileInv(f)

LEMMA LogInit == Init => LogInv
<1> SUFFICES ASSUME Init PROVE LogInv
  OBVIOUS
<1>1. <<>> \in Seq(Piece) /\ Len(<<>>) = 0 /\ DOMAIN <<>> = {}
  OBVIOUS
<1>2. logFile \in [Log!File -> Log1] /\ \A f \in Log!File : logFile[f].text = <<>>
  BY <1>1 DEF Init, Log!Init, Log1
<1>3. ASSUME NEW f \in Log!File PROVE FileInv(f)
  <2>1. /\ fileState[f].complete = FALSE /\ fileState[f].offset = 0 /\ sent[f] = 0
        /\ fileState[f] = [offset |-> fileState[f].offset, complete |-> fileState[f].complete,
                           modTime |-> fileState[f].modTime]
        /\ disordered = {}
    BY DEF Init, Log!Init, Log!Unread
  <2>2. ~Reading(f, {"read"}) /\ ~Reading(f, {"remember"})
    BY DEF Init, Log!Init, Reading
  <2>3. ~Log!Unsent(f)
    BY <1>1, <1>2 DEF Log!Unsent
  <2>4. 0 \in 0..Len(logFile[f].text)
    BY <1>1, <1>2
  <2> QED
    BY <2>1, <2>2, <2>3, <2>4 DEF FileInv
<1> QED
  BY <1>2, <1>3 DEF Init, Log!Init, LogInv

\* What a written piece leaves true.
LEMMA PieceWritten ==
    ASSUME LogInv, UNCHANGED <<fileState, sent, disordered, logMonitor, todo, stat, reached>>,
           NEW f \in Log!File, NEW piece \in Piece, NEW state \in {"open", "ended"},
           Log!Add(f, piece, state)
    PROVE  LogInv'
<1>1. PICK t \in {logFile[f].modTime, logFile[f].modTime + 1} :
        /\ t > 0
        /\ logFile' = [logFile EXCEPT ![f] = [state |-> state,
                      text |-> Append(logFile[f].text, piece), modTime |-> t]]
        /\ unseen' = IF t \in Log!Remembered(f) THEN unseen \cup {f} ELSE unseen \ {f}
  BY DEF Log!Add
<1> DEFINE old_ == logFile[f].text
<1> DEFINE new == Append(old_, piece)
<1>2. old_ \in Seq(Piece) /\ t \in Nat
  BY <1>1 DEF LogInv, Log1
<1>3. /\ new \in Seq(Piece)
      /\ Len(new) = Len(old_) + 1 /\ Len(old_) \in Nat
      /\ DOMAIN new = 1..Len(new) /\ DOMAIN old_ = 1..Len(old_)
      /\ \A n \in 1..Len(old_) : new[n] = old_[n]
  BY <1>2
<1>4. logFile' \in [Log!File -> Log1]
  BY <1>1, <1>2, <1>3 DEF LogInv, Log1
<1>5. /\ logFile'[f].text = new /\ logFile'[f].modTime = t
      /\ \A g \in Log!File : g # f => logFile'[g] = logFile[g]
  BY <1>1 DEF LogInv
<1>6. Log!Remembered(f)' = Log!Remembered(f)
  BY DEF Log!Remembered, Log!First
<1> HIDE DEF old_, new
<1>7. ASSUME ~Log!HasLong(f)' PROVE FileInv(f)'
  <2>1. FileInv(f)
    <3>1. ~Log!HasLong(f)
      BY <1>3, <1>5, <1>7 DEF Log!HasLong, old_
    <3> QED
      BY <3>1 DEF LogInv
  <2>2. Len(logFile[f].text) <= Len(logFile'[f].text) /\ Len(logFile[f].text) \in Nat
        /\ Len(logFile'[f].text) \in Nat
    BY <1>3, <1>5 DEF old_
  <2>3. fileState'[f].complete => \E k \in 1..sent'[f] : logFile'[f].text[k] = "end"
    <3> SUFFICES ASSUME fileState[f].complete
                 PROVE  \E k \in 1..sent[f] : logFile'[f].text[k] = "end"
      OBVIOUS
    <3>1. PICK k \in 1..sent[f] : logFile[f].text[k] = "end"
      BY <2>1 DEF FileInv
    <3>2. k \in 1..Len(old_)
      BY <2>1, <2>2 DEF FileInv, old_
    <3> QED
      BY <1>3, <1>5, <3>1, <3>2 DEF old_
  <2>4. f \notin unseen' => logFile'[f].modTime \notin Log!Remembered(f)'
    BY <1>1, <1>5, <1>6
  <2>5. /\ fileState'[f].offset \in 0..Len(logFile'[f].text)
        /\ sent'[f] \in 0..Len(logFile'[f].text)
        /\ reached \in 0..Len(logFile[f].text) => reached' \in 0..Len(logFile'[f].text)
    <3>1. \A n \in 0..Len(logFile[f].text) : n \in 0..Len(logFile'[f].text)
      BY <2>2
    <3>2. fileState[f].offset \in 0..Len(logFile[f].text) /\ sent[f] \in 0..Len(logFile[f].text)
      BY <2>1 DEF FileInv
    <3> QED
      BY <3>1, <3>2
  <2>6. \A ps : Reading(f, ps)' <=> Reading(f, ps)
    BY DEF Reading, Log!First
  <2> QED
    BY <2>1, <2>3, <2>4, <2>5, <2>6 DEF FileInv
<1>8. ASSUME NEW g \in Log!File, g # f, ~Log!HasLong(g)' PROVE FileInv(g)'
  <2>1. logFile'[g] = logFile[g] /\ (g \in unseen' <=> g \in unseen)
    BY <1>1, <1>5, <1>8
  <2>2. FileInv(g)
    BY <1>8, <2>1 DEF LogInv, Log!HasLong
  <2>3. (\A ps : Reading(g, ps)' <=> Reading(g, ps)) /\ Log!Remembered(g)' = Log!Remembered(g)
    BY DEF Reading, Log!Remembered, Log!First
  <2>4. Log!Unsent(g)' <=> Log!Unsent(g)
    BY <2>1 DEF Log!Unsent
  <2> QED
    BY <2>1, <2>2, <2>3, <2>4 DEF FileInv
<1>9. \A g \in Log!File : logFile'[g].text # <<>> => logFile'[g].modTime > 0
  BY <1>1, <1>5 DEF LogInv
<1> QED
  BY <1>4, <1>7, <1>8, <1>9 DEF LogInv

\* A step that leaves a file and what is remembered of it alone.
LEMMA FileKept ==
    ASSUME NEW f \in Log!File, FileInv(f),
           logFile'[f].text = logFile[f].text, logFile'[f].modTime = logFile[f].modTime,
           fileState'[f] = fileState[f], sent'[f] = sent[f],
           f \notin disordered', f \in unseen => f \in unseen',
           ~Reading(f, {"remember"}), ~Reading(f, {"remember"})',
           Reading(f, {"read"})' => ~fileState[f].complete
    PROVE  FileInv(f)'
<1>1. Log!Remembered(f)' = Log!Remembered(f)
  BY DEF Log!Remembered, Reading
<1>2. Log!Unsent(f)' <=> Log!Unsent(f)
  BY DEF Log!Unsent
<1> QED
  BY <1>1, <1>2 DEF FileInv

LEMMA WorkerStep == LogInv /\ Log!Worker => LogInv'
<1> SUFFICES ASSUME LogInv, NEW f \in Log!File,
                    \/ Log!OpenLog(f) \/ Log!EndLog(f) \/ Log!CloseLog(f)
                    \/ \E p \in {"line", "part", "long"} : Log!Logf(f, p)
             PROVE  LogInv'
  BY DEF Log!Worker
<1>1. UNCHANGED <<fileState, sent, disordered, logMonitor, todo, stat, reached>>
  BY DEF Log!OpenLog, Log!Logf, Log!EndLog, Log!CloseLog, Log!sentVars, Log!monitorVars
<1>2. CASE Log!OpenLog(f) \/ Log!EndLog(f) \/ \E p \in {"line", "part", "long"} : Log!Logf(f, p)
  <2>1. PICK p \in Piece, z \in {"open", "ended"} : Log!Add(f, p, z)
    BY <1>2 DEF Log!OpenLog, Log!EndLog, Log!Logf, Piece
  <2> QED
    BY <1>1, <2>1, PieceWritten
<1>3. CASE Log!CloseLog(f)
  <2>1. logFile' = [logFile EXCEPT ![f].state = "closed"] /\ unseen' = unseen
    BY <1>3 DEF Log!CloseLog
  <2>2. logFile' \in [Log!File -> Log1]
    BY <2>1 DEF LogInv, Log1
  <2>3. \A g \in Log!File : logFile'[g].text = logFile[g].text /\ logFile'[g].modTime = logFile[g].modTime
    BY <2>1 DEF LogInv, Log1
  <2>4. ASSUME NEW g \in Log!File, ~Log!HasLong(g)' PROVE FileInv(g)'
    <3>1. FileInv(g)
      BY <2>3, <2>4 DEF LogInv, Log!HasLong
    <3>2. (\A ps : Reading(g, ps)' <=> Reading(g, ps)) /\ Log!Remembered(g)' = Log!Remembered(g)
      BY <1>1 DEF Reading, Log!Remembered, Log!First
    <3>3. Log!Unsent(g)' <=> Log!Unsent(g)
      BY <1>1, <2>3 DEF Log!Unsent
    <3> QED
      BY <1>1, <2>1, <2>3, <3>1, <3>2, <3>3 DEF FileInv
  <2> QED
    BY <1>1, <2>2, <2>3, <2>4 DEF LogInv
<1> QED
  BY <1>2, <1>3

\* Numbers have a least.
LEMMA LeastIsThere ==
    ASSUME NEW S, S \subseteq Nat, S # {}
    PROVE  \E n \in S : \A k \in S : n <= k
<1> DEFINE less == {p \in Nat \X Nat : p[1] < p[2]}
<1>1. IsWellFoundedOn(less, Nat)
  BY NatLessThanWellFounded DEF OpToRel
<1>2. PICK n \in S : \A k \in S : ~ (<<k, n>> \in less)
  <2> HIDE DEF less
  <2> QED
    BY <1>1, WFMin, Zenon
<1>3. ASSUME NEW k \in S PROVE n <= k
  <2>1. k \in Nat /\ n \in Nat /\ ~ (<<k, n>> \in less)
    BY <1>2
  <2>2. <<k, n>> \in less <=> k < n
    BY <2>1
  <2> QED
    BY <2>1, <2>2
<1> QED
  BY <1>3

\* Without a line that is too long, a scan ends at the end of the file, or at the
\* end marker.
LEMMA ScanEnds ==
    ASSUME NEW f \in Log!File, logFile[f].text \in Seq(Piece), ~Log!HasLong(f),
           fileState[f].offset \in 0..Len(logFile[f].text)
    PROVE  /\ ~Log!TooLong(f) /\ Log!Scanned(f) \in 0..Len(logFile[f].text)
           /\ IF Log!Ended(f) THEN Log!Scanned(f) > 0 /\ logFile[f].text[Log!Scanned(f)] = "end"
                              ELSE Log!Scanned(f) = Len(logFile[f].text)
<1> DEFINE text == logFile[f].text
<1> DEFINE stops_ == Log!Stops(f)
<1>1. Len(text) \in Nat /\ DOMAIN text = 1..Len(text)
  OBVIOUS
<1>2. CASE stops_ = {}
  BY <1>1, <1>2 DEF Log!TooLong, Log!Ended, Log!Scanned
<1>3. CASE stops_ # {}
  <2>1. \A n \in stops_ : n \in 1..Len(text) /\ text[n] = "end"
    BY <1>1 DEF Log!Stops, Log!Rest, Log!HasLong
  <2>2. stops_ \in SUBSET Nat
    BY <1>1, <2>1
  <2> HIDE DEF stops_
  <2>3. \E n \in stops_ : \A k \in stops_ : n <= k
    BY <1>3, <2>2, LeastIsThere
  <2>4. Log!Least(stops_) \in stops_
    BY <2>3 DEF Log!Least
  <2>5. Log!Ended(f) /\ ~Log!TooLong(f) /\ Log!Scanned(f) = Log!Least(stops_)
    BY <1>3, <2>1, <2>4 DEF Log!Ended, Log!TooLong, Log!Scanned, stops_
  <2> QED
    BY <1>1, <2>1, <2>4, <2>5
<1> QED
  BY <1>2, <1>3

LEMMA ReadKeepsLog == LogInv /\ Log!ReadFile => LogInv'
<1> SUFFICES ASSUME LogInv, Log!ReadFile PROVE LogInv'
  OBVIOUS
<1> DEFINE f == Log!First(todo)
<1>1. /\ logFile' = logFile /\ unseen' = unseen \ {f} /\ logMonitor = "read" /\ stat' = stat
      /\ sent' = [sent EXCEPT ![f] = Log!Scanned(f)]
      /\ disordered' = IF sent[f] = fileState[f].offset THEN disordered ELSE disordered \cup {f}
      /\ fileState' = [fileState EXCEPT ![f].complete = fileState[f].complete \/ Log!Ended(f)]
      /\ \/ Log!TooLong(f) /\ logMonitor' = "files"
         \/ /\ ~Log!TooLong(f) /\ logMonitor' = "remember" /\ todo' = todo
            /\ reached' \in Log!Scanned(f) .. Len(logFile[f].text)
  BY DEF Log!ReadFile
<1>2. f' = f \/ logMonitor' = "files"
  BY <1>1 DEF Log!First
<1>3. ASSUME NEW g \in Log!File, g # f, ~Log!HasLong(g)' PROVE FileInv(g)'
  <2>1. FileInv(g) /\ fileState'[g] = fileState[g] /\ sent'[g] = sent[g]
    BY <1>1, <1>3 DEF LogInv, Log!HasLong
  <2>2. g \notin disordered' /\ (g \in unseen => g \in unseen')
    BY <1>1, <1>3, <2>1 DEF FileInv
  <2>3. ~Reading(g, {"remember"}) /\ ~Reading(g, {"remember"})' /\ ~Reading(g, {"read"})'
    BY <1>1, <1>2, <1>3 DEF Reading
  <2> QED
    BY <1>1, <2>1, <2>2, <2>3, FileKept
<1>4. ASSUME f \in Log!File, ~Log!HasLong(f) PROVE FileInv(f)' /\ f' = f
  <2>1. /\ FileInv(f) /\ Reading(f, {"read"}) /\ ~Reading(f, {"remember"})
        /\ logFile[f].text \in Seq(Piece) /\ Len(logFile[f].text) \in Nat
    BY <1>1, <1>4 DEF LogInv, Log1, Reading
  <2>2. /\ ~Log!TooLong(f) /\ Log!Scanned(f) \in 0..Len(logFile[f].text)
        /\ IF Log!Ended(f) THEN Log!Scanned(f) > 0 /\ logFile[f].text[Log!Scanned(f)] = "end"
                           ELSE Log!Scanned(f) = Len(logFile[f].text)
    BY <1>4, <2>1, ScanEnds DEF FileInv
  <2>3. f' = f /\ logMonitor' = "remember" /\ reached' \in Log!Scanned(f) .. Len(logFile[f].text)
    BY <1>1, <1>2, <2>2
  <2>4. ~fileState[f].complete /\ sent[f] = fileState[f].offset /\ f \notin disordered
    BY <2>1 DEF FileInv
  <2>5. /\ sent'[f] = Log!Scanned(f) /\ disordered' = disordered
        /\ fileState'[f].offset = fileState[f].offset /\ fileState'[f].modTime = fileState[f].modTime
        /\ fileState'[f].complete = Log!Ended(f)
        /\ fileState'[f] = [offset |-> fileState[f].offset, complete |-> fileState'[f].complete,
                            modTime |-> fileState[f].modTime]
    <3>1. sent'[f] = Log!Scanned(f) /\ disordered' = disordered
      BY <1>1, <1>4, <2>4 DEF LogInv
    <3>2. fileState'[f] = [fileState[f] EXCEPT !.complete = fileState[f].complete \/ Log!Ended(f)]
      BY <1>1, <1>4 DEF LogInv
    <3>3. Log!Ended(f) \in BOOLEAN
      BY DEF Log!Ended
    <3>4. fileState[f] = [offset |-> fileState[f].offset, complete |-> fileState[f].complete,
                          modTime |-> fileState[f].modTime]
      BY <2>1 DEF FileInv
    <3>5. (fileState[f].complete \/ Log!Ended(f)) = Log!Ended(f)
      BY <2>4, <3>3
    <3> HIDE DEF f
    <3>6. fileState'[f] = [offset |-> fileState[f].offset, complete |-> Log!Ended(f),
                           modTime |-> fileState[f].modTime]
      BY <3>2, <3>4, <3>5
    <3> QED
      BY <3>1, <3>6
  <2>6. ~Log!Unsent(f)'
    <3>1. Log!Unsent(f)' => \E n \in 1..Len(logFile[f].text) :
              n > sent'[f] /\ \A k \in 1 .. n - 1 : logFile[f].text[k] # "end"
      BY <1>1, <2>1, <2>3 DEF Log!Unsent
    <3> QED
      BY <2>2, <2>5, <3>1
  <2>7. fileState'[f].complete => \E k \in 1..sent'[f] : logFile'[f].text[k] = "end"
    BY <1>1, <2>2, <2>5
  <2>8. fileState'[f].complete \/ sent'[f] = reached'
    BY <2>1, <2>2, <2>3, <2>5
  <2>9. reached' \in 0..Len(logFile[f].text)
    BY <2>1, <2>2, <2>3
  <2>10. Log!Ended(f) \in BOOLEAN
    BY DEF Log!Ended
  <2>11. ~Reading(f, {"read"})' /\ Reading(f, {"remember"})'
    BY <2>3 DEF Reading
  <2>12. fileState'[f].offset \in 0..Len(logFile'[f].text)
    BY <1>1, <2>1, <2>5 DEF FileInv
  <2>13. f \notin disordered' /\ sent'[f] \in 0..Len(logFile'[f].text)
    BY <1>1, <2>2, <2>4, <2>5
  <2> HIDE DEF f
  <2>14. FileInv(f)'
    BY <1>1, <2>3, <2>5, <2>6, <2>7, <2>8, <2>9, <2>10, <2>11, <2>12, <2>13 DEF FileInv
  <2> QED
    BY <2>3, <2>14
<1>5. DOMAIN fileState' = Log!File /\ DOMAIN sent' = Log!File
  BY <1>1 DEF LogInv
<1>6. ASSUME NEW g \in Log!File, ~Log!HasLong(g)' PROVE FileInv(g)'
  <2>1. CASE g # f
    BY <1>3, <1>6, <2>1
  <2>2. CASE g = f
    <3>1. ~Log!HasLong(f) /\ f \in Log!File
      BY <1>1, <1>6, <2>2 DEF Log!HasLong
    <3>2. FileInv(f)' /\ f' = g
      BY <1>4, <2>2, <3>1
    <3> QED
      BY <3>2
  <2> QED
    BY <2>1, <2>2
<1> QED
  BY <1>1, <1>5, <1>6 DEF LogInv

LEMMA RememberKeepsLog == LogInv /\ Log!Remember => LogInv'
<1> SUFFICES ASSUME LogInv, Log!Remember PROVE LogInv'
  OBVIOUS
<1> DEFINE f == Log!First(todo)
<1>1. /\ UNCHANGED <<logFile, unseen, stat, sent, disordered>>
      /\ logMonitor = "remember" /\ logMonitor' = "files"
      /\ fileState' = [fileState EXCEPT ![f] = [fileState[f] EXCEPT !.offset = reached, !.modTime = stat]]
  BY DEF Log!Remember, Log!Time, Log!fileVars, Log!sentVars
<1>3. ASSUME NEW g \in Log!File, ~Log!HasLong(g)' PROVE FileInv(g)'
  <2>1. FileInv(g)
    BY <1>1, <1>3 DEF LogInv, Log!HasLong
  <2>2. ~Reading(g, {"read"})' /\ ~Reading(g, {"remember"})'
    BY <1>1 DEF Reading
  <2>3. CASE g # f
    <3>1. fileState'[g] = fileState[g] /\ ~Reading(g, {"remember"})
      BY <1>1, <2>3 DEF LogInv, Reading
    <3>2. g \notin disordered'
      BY <1>1, <2>1 DEF FileInv
    <3> QED
      BY <1>1, <2>1, <2>2, <3>1, <3>2, FileKept
  <2>4. CASE g = f
    <3>1. Reading(g, {"remember"})
      BY <1>1, <2>4 DEF Reading
    <3>2. fileState'[g] = [offset |-> reached, complete |-> fileState[g].complete, modTime |-> stat]
      <4>1. fileState'[g] = [fileState[g] EXCEPT !.offset = reached, !.modTime = stat]
        BY <1>1, <2>4 DEF LogInv
      <4>2. fileState[g] = [offset |-> fileState[g].offset, complete |-> fileState[g].complete,
                            modTime |-> fileState[g].modTime]
        BY <2>1 DEF FileInv
      <4> QED
        BY <4>1, <4>2
    <3>3. Log!Unsent(g)' <=> Log!Unsent(g)
      BY <1>1 DEF Log!Unsent
    <3>4. stat \in Log!Remembered(g) /\ Log!Remembered(g)' = {stat}
      BY <1>1, <2>4, <3>2 DEF Log!Remembered
    <3> QED
      BY <1>1, <2>1, <2>2, <3>1, <3>2, <3>3, <3>4 DEF FileInv
  <2> QED
    BY <2>3, <2>4
<1> QED
  BY <1>1, <1>3 DEF LogInv

LEMMA LogStep == LogInv /\ [Next]_vars => LogInv'
<1> SUFFICES ASSUME LogInv, [Next]_vars PROVE LogInv'
  OBVIOUS
<1>1. ASSUME UNCHANGED <<logFile, fileState, sent, disordered, unseen>>,
             logMonitor # "remember", logMonitor' # "remember",
             \A f \in Log!File : Reading(f, {"read"})' /\ ~Log!HasLong(f) => ~fileState[f].complete
      PROVE  LogInv'
  <2>1. ASSUME NEW f \in Log!File, ~Log!HasLong(f)' PROVE FileInv(f)'
    <3>1. FileInv(f) /\ ~Log!HasLong(f)
      BY <1>1, <2>1 DEF LogInv, Log!HasLong
    <3>2. ~Reading(f, {"remember"}) /\ ~Reading(f, {"remember"})' /\ f \notin disordered'
      BY <1>1, <3>1 DEF Reading, FileInv
    <3> QED
      BY <1>1, <3>1, <3>2, FileKept
  <2> QED
    BY <1>1, <2>1 DEF LogInv
<1>2. ASSUME UNCHANGED <<logFile, fileState, sent, disordered, unseen, logMonitor, todo, stat, reached>>
      PROVE  LogInv'
  <2>1. ASSUME NEW f \in Log!File
        PROVE  (Log!HasLong(f)' <=> Log!HasLong(f)) /\ (FileInv(f)' <=> FileInv(f))
    <3>1. \A ps : Reading(f, ps)' <=> Reading(f, ps)
      BY <1>2 DEF Reading, Log!First
    <3>2. (Log!Unsent(f)' <=> Log!Unsent(f)) /\ Log!Remembered(f)' = Log!Remembered(f)
      BY <1>2 DEF Log!Unsent, Log!Remembered, Log!First
    <3>3. Log!HasLong(f)' <=> Log!HasLong(f)
      BY <1>2 DEF Log!HasLong
    <3> QED
      BY <1>2, <3>1, <3>2, <3>3 DEF FileInv
  <2> QED
    BY <1>2, <2>1 DEF LogInv
<1>3. CASE UNCHANGED logVars
  BY <1>2, <1>3 DEF logVars
<1>4. ASSUME NEW t, Log!StartMonitoring(t) PROVE LogInv'
  <2>1. /\ logFile' = logFile /\ fileState' = [g \in Log!File |-> Log!Unread]
        /\ sent' = [g \in Log!File |-> 0] /\ disordered' = {} /\ logMonitor' = "select"
    BY <1>4 DEF Log!StartMonitoring
  <2>2. ASSUME NEW g \in Log!File PROVE FileInv(g)'
    <3>1. /\ Len(logFile[g].text) \in Nat /\ DOMAIN logFile[g].text = 1..Len(logFile[g].text)
          /\ logFile[g].text # <<>> => logFile[g].modTime > 0
      BY DEF LogInv, Log1
    <3>2. /\ fileState'[g] = Log!Unread /\ sent'[g] = 0 /\ g \notin disordered'
          /\ logFile'[g] = logFile[g] /\ (\A ps : "select" \notin ps => ~Reading(g, ps)')
      BY <2>1 DEF Reading
    <3>3. Log!Remembered(g)' = {0}
      BY <2>1, <3>2 DEF Log!Remembered, Log!Unread
    <3>4. Log!Unsent(g)' => logFile'[g].text # <<>>
      BY <3>1, <3>2 DEF Log!Unsent
    <3>5. Log!Unsent(g)' => logFile'[g].modTime \notin Log!Remembered(g)'
      BY <3>1, <3>2, <3>3, <3>4
    <3>6. /\ ~Reading(g, {"read"})' /\ ~Reading(g, {"remember"})'
          /\ fileState'[g].offset = 0 /\ fileState'[g].complete = FALSE
          /\ fileState'[g] = [offset |-> fileState'[g].offset, complete |-> fileState'[g].complete,
                              modTime |-> fileState'[g].modTime]
      BY <3>2 DEF Log!Unread
    <3>7. 0 \in 0..Len(logFile'[g].text)
      BY <3>1, <3>2
    <3> QED
      BY <3>2, <3>5, <3>6, <3>7 DEF FileInv
  <2> QED
    BY <2>1, <2>2 DEF LogInv
<1>5. CASE Log!BeginStop \/ Log!EndStop
  BY <1>2, <1>5 DEF Log!BeginStop, Log!EndStop, Log!fileVars, Log!sentVars, Log!monitorVars
<1>6. CASE Log!Worker
  BY <1>6, WorkerStep
<1>7. CASE Log!ReadFile \/ Log!Remember
  BY <1>7, ReadKeepsLog, RememberKeepsLog
<1>8. CASE Log!Poll \/ Log!EndPoll \/ Log!MonitorEnds
  <2>1. /\ UNCHANGED <<logFile, fileState, sent, disordered, unseen>>
        /\ logMonitor \in {"select", "files"} /\ logMonitor' \in {"files", "select", "ended"}
    BY <1>8 DEF Log!Poll, Log!EndPoll, Log!MonitorEnds, Log!fileVars, Log!sentVars
  <2> QED
    BY <1>1, <2>1 DEF Reading
<1>9. CASE Log!StatFile
  <2>1. /\ UNCHANGED <<logFile, fileState, sent, disordered, unseen>>
        /\ logMonitor = "files" /\ logMonitor' \in {"files", "read"}
        /\ logMonitor' = "read" => ~fileState[Log!First(todo)].complete /\ todo' = todo
    BY <1>9 DEF Log!StatFile, Log!fileVars, Log!sentVars
  <2>2. \A f : Reading(f, {"read"})' => ~fileState[f].complete
    BY <2>1 DEF Reading, Log!First
  <2> QED
    BY <1>1, <2>1, <2>2
<1> QED
  BY <1>3, <1>4, <1>5, <1>6, <1>7, <1>8, <1>9, Components DEF Log!Next, Log!Monitor

\* For any tickets, files and writes, line by line or in parts: what a step
\* writes up to its end marker is broadcast once and in order, and none of it is
\* passed over by the polls that follow, unless a line is too long for the
\* scanner or the last write came within the tick that is remembered.
\* (processFile)
THEOREM NoTextIsPassedOver == Spec => []TextOnce
<1>1. LogInv => TextOnce
  <2> SUFFICES ASSUME LogInv, NEW f \in Log!File, ~Log!HasLong(f)
               PROVE  /\ f \notin disordered
                      /\ Log!Unsent(f) /\ f \notin unseen =>
                             ~fileState[f].complete /\ fileState[f].modTime # logFile[f].modTime
    BY DEF TextOnce, Log!TextOnce
  <2>1. FileInv(f) /\ Len(logFile[f].text) \in Nat /\ DOMAIN logFile[f].text = 1..Len(logFile[f].text)
    BY DEF LogInv, Log1
  <2>2. Log!Unsent(f) => ~fileState[f].complete
    <3> SUFFICES ASSUME Log!Unsent(f), fileState[f].complete PROVE FALSE
      OBVIOUS
    <3>1. PICK n \in 1..Len(logFile[f].text) :
              n > sent[f] /\ \A k \in 1 .. n - 1 : logFile[f].text[k] # "end"
      BY <2>1 DEF Log!Unsent
    <3>2. PICK k \in 1..sent[f] : logFile[f].text[k] = "end"
      BY <2>1 DEF FileInv
    <3> QED
      BY <2>1, <3>1, <3>2 DEF FileInv
  <2>3. fileState[f].modTime \in Log!Remembered(f)
    BY DEF Log!Remembered
  <2> QED
    BY <2>1, <2>2, <2>3 DEF FileInv
<1> QED
  BY <1>1, LogInit, LogStep, PTL DEF Spec

-----------------------------------------------------------------------------
(* Closing a sprint.                                                        *)

\* A request that is about to close a sprint with a release has made its tag.
CloseInv ==
    /\ DOMAIN milestone = Close!Sprint
    /\ DOMAIN closer = Closer /\ DOMAIN closing = Closer
    /\ \A r \in Closer : closer[r] = "close" => \E t \in tags : t.sprint = closing[r]
    /\ Close!ReleasedSprintHasTag
    /\ Close!ASprintIsOpen

LEMMA CloseInit == Init => CloseInv
  BY DEF Init, Close!Init, Close!Idle, CloseInv, Close!ReleasedSprintHasTag, Close!ASprintIsOpen

LEMMA CreatesOpens ==
    ASSUME DOMAIN milestone = Close!Sprint, Close!Creates
    PROVE  DOMAIN milestone' = Close!Sprint /\ Close!Open' # {}
  BY DEF Close!Creates, Close!Unused, Close!Open

\* A step that opens and closes no sprint and begins to close or create none.
LEMMA CloseKept ==
    ASSUME CloseInv, UNCHANGED <<milestone, tagged, closing>>, tags \subseteq tags',
           up' => up, broken => broken' \/ ~up', DOMAIN closer' = Closer,
           \A r \in Closer : /\ closer'[r] = "close" => closer[r] = "close"
                             /\ closer[r] = "create" => closer'[r] = "create" \/ ~up'
    PROVE  CloseInv'
<1>1. Close!Open' = Close!Open
  BY DEF Close!Open
<1>2. Close!ASprintIsOpen'
  BY <1>1 DEF CloseInv, Close!ASprintIsOpen
<1>3. Close!ReleasedSprintHasTag'
  BY DEF CloseInv, Close!ReleasedSprintHasTag
<1> QED
  BY <1>2, <1>3 DEF CloseInv

LEMMA ProceedsKeepsClose ==
    ASSUME CloseInv, NEW r \in Closer, Close!Proceeds(r)
    PROVE  CloseInv'
<1> USE DEF Close!At, Close!Goes, Close!Around, Close!program, Close!Local, Close!github
<1>1. CASE Close!TagExists(r)
  BY <1>1, CloseKept DEF Close!TagExists, CloseInv
<1>2. CASE Close!CreateTag(r)
  <2>1. CASE closer' = [closer EXCEPT ![r] = "close"]
    <3>1. Close!MakesTag(r)
      BY <1>2, <2>1 DEF Close!CreateTag, CloseInv
    <3>2. tags \subseteq tags' /\ \E t \in tags' : t.sprint = closing'[r]
      <4> DEFINE tag == [version |-> version[r], sprint |-> closing[r]]
      <4>1. tags' = tags \cup {tag} /\ closing' = closing
        BY <1>2, <3>1 DEF Close!CreateTag, Close!MakesTag
      <4>2. tag \in tags' /\ tag.sprint = closing'[r]
        BY <4>1
      <4> QED
        BY <4>1, <4>2
    <3>3. UNCHANGED <<milestone, tagged, closing, up, broken>> /\ closer[r] = "tag"
      BY <1>2 DEF Close!CreateTag
    <3>4. Close!ASprintIsOpen'
      BY <2>1, <3>3 DEF CloseInv, Close!ASprintIsOpen, Close!Open
    <3>5. Close!ReleasedSprintHasTag'
      BY <3>2, <3>3 DEF CloseInv, Close!ReleasedSprintHasTag
    <3>6. \A q \in Closer : closer'[q] = "close" => \E t \in tags' : t.sprint = closing'[q]
      BY <2>1, <3>2, <3>3 DEF CloseInv
    <3>7. /\ DOMAIN milestone' = Close!Sprint
          /\ DOMAIN closer' = Closer /\ DOMAIN closing' = Closer
      BY <2>1, <3>3 DEF CloseInv
    <3> QED
      BY <3>4, <3>5, <3>6, <3>7 DEF CloseInv
  <2>2. CASE closer' = [closer EXCEPT ![r] = "idle"]
    BY <1>2, <2>2, CloseKept DEF Close!CreateTag, Close!MakesTag, CloseInv
  <2> QED
    BY <1>2, <2>1, <2>2 DEF Close!CreateTag
<1>3. CASE Close!CloseMilestone(r)
  <2>1. /\ UNCHANGED <<tags, closing, up>>
        /\ milestone' = [milestone EXCEPT ![closing[r]] = "closed"]
        /\ \/ tagged' = tagged
           \/ closer[r] = "close" /\ tagged' = tagged \cup {closing[r]}
        /\ \/ closer' = [closer EXCEPT ![r] = "create"]
           \/ closer' = [closer EXCEPT ![r] = "idle"] /\ broken'
    BY <1>3 DEF Close!CloseMilestone
  <2>2. Close!ASprintIsOpen'
    BY <2>1 DEF CloseInv, Close!ASprintIsOpen
  <2>3. Close!ReleasedSprintHasTag'
    BY <2>1 DEF CloseInv, Close!ReleasedSprintHasTag
  <2>4. /\ DOMAIN milestone' = Close!Sprint
        /\ DOMAIN closer' = Closer /\ DOMAIN closing' = Closer
    BY <2>1 DEF CloseInv
  <2>5. \A q \in Closer : closer'[q] = "close" => \E t \in tags' : t.sprint = closing'[q]
    BY <2>1 DEF CloseInv
  <2> QED
    BY <2>2, <2>3, <2>4, <2>5 DEF CloseInv
<1>4. CASE Close!CloseFails(r)
  BY <1>4, CloseKept DEF Close!CloseFails, CloseInv
<1>5. CASE Close!CreateNextSprint(r)
  <2>1. /\ UNCHANGED <<tags, tagged, closing>>
        /\ \/ Close!Creates /\ closer' = [closer EXCEPT ![r] = "reload"]
           \/ /\ closer' = [closer EXCEPT ![r] = "idle"] /\ broken'
              /\ Close!Creates \/ milestone' = milestone
    BY <1>5 DEF Close!CreateNextSprint
  <2>2. DOMAIN milestone' = Close!Sprint /\ (Close!Open' # {} \/ broken')
    BY <2>1, CreatesOpens DEF CloseInv
  <2>3. Close!ASprintIsOpen'
    BY <2>2 DEF Close!ASprintIsOpen
  <2>4. Close!ReleasedSprintHasTag'
    BY <2>1 DEF CloseInv, Close!ReleasedSprintHasTag
  <2> QED
    BY <2>1, <2>2, <2>3, <2>4 DEF CloseInv
<1>6. CASE Close!Reload(r)
  BY <1>6, CloseKept DEF Close!Reload, CloseInv
<1>7. CASE Close!SetActive(r)
  BY <1>7, CloseKept DEF Close!SetActive, CloseInv
<1>8. CASE Close!SetSync(r)
  BY <1>8, CloseKept DEF Close!SetSync, CloseInv
<1>9. CASE Close!SyncReads(r)
  BY <1>9, CloseKept DEF Close!SyncReads, CloseInv
<1>10. CASE Close!SyncSets(r)
  BY <1>10, CloseKept DEF Close!SyncSets, CloseInv
<1> QED
  BY <1>1, <1>2, <1>3, <1>4, <1>5, <1>6, <1>7, <1>8, <1>9, <1>10 DEF Close!Proceeds

LEMMA CloseStep == CloseInv /\ [Next]_vars => CloseInv'
<1> SUFFICES ASSUME CloseInv, [Next]_vars PROVE CloseInv'
  OBVIOUS
<1>1. CASE UNCHANGED closeVars
  BY <1>1, CloseKept DEF closeVars, CloseInv
<1>2. CASE Close!Boot
  <2>1. /\ UNCHANGED <<tags, tagged, closer, closing>>
        /\ IF Close!Open = {} THEN Close!Creates ELSE UNCHANGED milestone
    BY <1>2 DEF Close!Boot, Close!request
  <2>2. DOMAIN milestone' = Close!Sprint /\ Close!Open' # {}
    BY <2>1, CreatesOpens DEF CloseInv, Close!Open
  <2> QED
    BY <2>1, <2>2 DEF CloseInv, Close!ASprintIsOpen, Close!ReleasedSprintHasTag
<1>3. CASE Close!Stop
  BY <1>3, CloseKept DEF Close!Stop, Close!github, Close!Idle
<1>4. CASE Close!Process \/ Close!TickStep \/ Close!OpenPage
  BY <1>4, CloseKept DEF Close!Process, Close!TickStep, Close!TickReads, Close!TickSets,
     Close!OpenPage, Close!github, Close!request, CloseInv
<1>5. ASSUME NEW r \in Closer, Close!Begins(r) PROVE CloseInv'
  <2>1. PICK b \in {"closeLegacy", "exists"} :
          /\ closer[r] = "idle" /\ closer' = [closer EXCEPT ![r] = b]
          /\ closing' = [closing EXCEPT ![r] = active]
          /\ UNCHANGED <<milestone, tags, up, broken, tagged>>
    BY <1>5 DEF Close!Begins, Close!BeginLegacy, Close!BeginForm, Close!BeginV2, Close!Accepted,
       Close!At, Close!Goes, Close!github, Close!Around, Close!program
  <2>2. Close!ASprintIsOpen'
    BY <2>1 DEF CloseInv, Close!ASprintIsOpen, Close!Open
  <2>3. Close!ReleasedSprintHasTag'
    BY <2>1 DEF CloseInv, Close!ReleasedSprintHasTag
  <2> QED
    BY <2>1, <2>2, <2>3 DEF CloseInv
<1>6. ASSUME NEW r \in Closer, Close!Proceeds(r) PROVE CloseInv'
  BY <1>6, ProceedsKeepsClose
<1> QED
  BY <1>1, <1>2, <1>3, <1>4, <1>5, <1>6, Components DEF Close!Next

\* While the program runs there is a sprint to plan for, unless a request is
\* creating it or failed to, for any number of requests, sprints and stops.
\* (handleSprintCloseConfirm, CreateNextSprint, main)
THEOREM SprintStaysOpen == Spec => []ASprintIsOpen
<1>1. CloseInv => ASprintIsOpen
  BY DEF CloseInv, ASprintIsOpen
<1> QED
  BY <1>1, CloseInit, CloseStep, PTL DEF Spec

\* A sprint closed with a release has its tag, however many requests close it
\* or ask for one version, and whichever answer is lost.  (CreateTag)
THEOREM ReleasesAreTagged == Spec => []ReleasedSprintHasTag
<1>1. CloseInv => ReleasedSprintHasTag
  BY DEF CloseInv, ReleasedSprintHasTag
<1> QED
  BY <1>1, CloseInit, CloseStep, PTL DEF Spec
=============================================================================
