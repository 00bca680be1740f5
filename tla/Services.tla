------------------------------ MODULE Services ------------------------------
(***************************************************************************)
(* The components that run beside the pipeline and share no state in the     *)
(* model: the supervisor of the web interface, the log stream, the settings, *)
(* the rate limits, the wizard, closing a sprint, and the clean-up after it. *)
(* A behaviour is one of one of them, chosen at the start.                   *)
(***************************************************************************)
EXTENDS Naturals

CONSTANTS
    Component,     \* the components looked at
    MaxRestarts, MaxStarts, MaxFailures,
    Ticket, MaxFiles, MaxPieces, MaxTickets,
    Handler, Deliveries, MaxWrites,
    Refresher, Limit, MaxUses,
    Request, MaxSessions, MaxIds, MaxRefines, MaxFaults,
    Closer, Bump, MaxSprints, MaxCloses, MaxCallFaults, MaxStops,
    Merged, MaxCommits, MaxGitFaults, MaxCleanups

VARIABLES
    component,
    mu, process, cmd, restartCount, main, monitor, failures,
    logFile, logDir, fileState, stopped, logOrchestrator, logMonitor, polled, todo, stat, reached, sent, disordered, unseen, worked,
    file, modTime, unread, lastMod, current, watcher, settingsMain, handler, loaded, delivery, carried, orchestrator, router, worker, yoloOverride, excused, writes,
    github, data, summary, polling, fetch, answer, uses,
    store, made, step, planning, title, custom, old, request, of, generated, issues, sprint, unheard, overlapped, retitled, refines, faults,
    milestone, tags, up, active, syncActive, ticker, page, processing, closer, closing, version, next, broken, tagged, closes, callFaults, stops,
    local, remote, commits, pushed, inMain, pr, head, command, remaining, plan, dryRun, seen, lost, gitFaults, cleanups

Web == INSTANCE WebServer
Log == INSTANCE LogStream WITH monitor <- logMonitor, orchestrator <- logOrchestrator, file <- logFile
Set == INSTANCE Settings WITH main <- settingsMain
Rate == INSTANCE RateLimit
Wiz == INSTANCE Wizard
Close == INSTANCE SprintClose
Clean == INSTANCE SprintCleanup

webVars == <<mu, process, cmd, restartCount, main, monitor, failures>>
logVars == <<logFile, logDir, fileState, stopped, logOrchestrator, logMonitor, polled,
             todo, stat, reached, sent, disordered, unseen, worked>>
settingsVars == <<file, modTime, unread, lastMod, current, watcher, settingsMain, handler, loaded,
                  delivery, carried, orchestrator, router, worker, yoloOverride, excused,
                  writes>>
rateVars == <<github, data, summary, polling, fetch, answer, uses>>
wizardVars == <<store, made, step, planning, title, custom, old, request, of, generated,
                issues, sprint, unheard, overlapped, retitled, refines, faults>>
closeVars == <<milestone, tags, up, active, syncActive, ticker, page, processing, closer,
               closing, version, next, broken, tagged, closes, callFaults, stops>>
cleanupVars == <<local, remote, commits, pushed, inMain, pr, head, command, remaining,
                 plan, dryRun, seen, lost, gitFaults, cleanups>>
vars == <<component, webVars, logVars, settingsVars, rateVars, wizardVars, closeVars, cleanupVars>>

Init ==
    /\ component \in Component
    /\ Web!Init
    /\ Log!Init
    /\ Set!Init
    /\ Rate!Init
    /\ Wiz!Init
    /\ Close!Init
    /\ Clean!Init

WebRuns == component = "web" /\ UNCHANGED <<component, logVars, settingsVars, rateVars, wizardVars, closeVars, cleanupVars>>
LogRuns == component = "log" /\ UNCHANGED <<component, webVars, settingsVars, rateVars, wizardVars, closeVars, cleanupVars>>
SetRuns == component = "settings" /\ UNCHANGED <<component, webVars, logVars, rateVars, wizardVars, closeVars, cleanupVars>>
RateRuns == component = "rate" /\ UNCHANGED <<component, webVars, logVars, settingsVars, wizardVars, closeVars, cleanupVars>>
WizRuns == component = "wizard" /\ UNCHANGED <<component, webVars, logVars, settingsVars, rateVars, closeVars, cleanupVars>>
CloseRuns == component = "close" /\ UNCHANGED <<component, webVars, logVars, settingsVars, rateVars, wizardVars, cleanupVars>>
CleanRuns == component = "cleanup" /\ UNCHANGED <<component, webVars, logVars, settingsVars, rateVars, wizardVars, closeVars>>

Next ==
    \/ WebRuns /\ Web!Next
    \/ LogRuns /\ Log!Next
    \/ SetRuns /\ Set!Next
    \/ RateRuns /\ Rate!Next
    \/ WizRuns /\ Wiz!Next
    \/ CloseRuns /\ Close!Next
    \/ CleanRuns /\ Clean!Next

Spec == Init /\ [][Next]_vars

\* Goroutines, and requests in progress, are scheduled.
FairSpec ==
    /\ Spec
    /\ WF_webVars(component = "web" /\ Web!MainStep)
    /\ WF_webVars(component = "web" /\ Web!MonitorStep)
    /\ WF_webVars(component = "web" /\ Web!StopSeen)
    /\ WF_settingsVars(component = "settings" /\ Set!WatcherStep)
    /\ \A d \in 1..Deliveries : WF_settingsVars(component = "settings" /\ Set!DeliveryStep(d))
    /\ \A h \in Handler : WF_settingsVars(component = "settings" /\ Set!RequestStep(h))
    /\ WF_rateVars(component = "rate" /\ Rate!Poll)
    /\ \A f \in Rate!Fetcher : WF_rateVars(component = "rate" /\ Rate!FetchStep(f))
    /\ WF_closeVars(component = "close" /\ Close!TickStep)
    /\ \A r \in Closer : WF_closeVars(component = "close" /\ Close!Proceeds(r))

-----------------------------------------------------------------------------
(* The components' properties.                                             *)

\* WebServer: no process is left behind.  (checkAndRestartIfNeeded, Stop)
NoneLeftBehind == Web!NoneLeftBehind

\* WebServer: a process that exited or hangs is replaced.  (monitor)
IsReplaced == Web!IsReplaced

\* LogStream: what a step writes is broadcast once, in order, and not passed over.
\* (processFile)
TextOnce == Log!TextOnce

\* LogStream: nothing is broadcast after StopMonitoring.
StopIsFinal == [][Log!SilentWhenIdle]_vars

\* Settings: everyone ends with what the file says.  (reload, Propagate)
Settles == Set!Settles

\* RateLimit: both forms end with GitHub's numbers.  (poll, fetch)
NumbersSettle == Rate!NumbersSettle

\* Wizard: a session becomes one issue.  (handleWizardCreateSingle)
OneIssue == Wiz!OneIssue

\* Wizard: an issue's title and text belong together.  (handleWizardRefine)
TitleFitsText == Wiz!TitleFitsText

\* SprintClose: there is a sprint to work on.  (handleSprintCloseConfirm, main)
ASprintIsOpen == Close!ASprintIsOpen

\* SprintClose: a sprint closed with a release has its tag.  (CreateTag)
ReleasedSprintHasTag == Close!ReleasedSprintHasTag

\* SprintClose: the synchronisation settles on the oldest open sprint.  (doSync)
SyncFollows == Close!SyncFollows

\* SprintCleanup: commits that were seen are never lost.  (DetectArtifacts)
SeenWorkSurvives == Clean!SeenWorkSurvives
=============================================================================
