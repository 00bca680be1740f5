---------------------------- MODULE StageChange ----------------------------
(***************************************************************************)
(* ChangeStage call by call, with the synchronisation that runs beside it.  *)
(* A change reads the cache, reads the issue from GitHub, takes its stage    *)
(* labels off, puts the new one on, closes the issue if that is Done, saves  *)
(* the cached copy it has built itself and adds a row to the ledger; the     *)
(* synchronisation reads a list of issues, saves each unless the cached copy *)
(* is newer, and changes stages itself.  Any two of them may overlap.        *)
(*                                                                          *)
(* An issue is its stage labels, its state, whether a merged PR has closed   *)
(* it, and its update time.  One clock is assumed, counting seconds: GitHub   *)
(* gives whole ones, 2 * t, the copy a change saves is of a moment in the     *)
(* second, 2 * t + 1.  Calls of gh have no time limit; they are assumed to    *)
(* return.                                                                   *)
(***************************************************************************)
EXTENDS Stages, FiniteSets

CONSTANTS
    Issue,
    Handler,      \* goroutines that call ChangeStage: handlers and the worker
    Syncer,       \* synchronisations that may run at the same time
    Targets,      \* stages the handlers change to
    None,
    MaxChanges,   \* bound: changes by handlers
    MaxEdits,     \* bound: changes of issues by other people
    MaxClock,     \* bound: seconds
    MaxFaults,    \* bound: failing calls
    MaxCrashes    \* bound: ends of the process

Actor == Handler \cup Syncer

VARIABLES
    github,     \* the issues on GitHub
    cache,      \* issue_cache
    ledger,     \* the last row of the ledger about each issue
    clock,
    pc,         \* the call each goroutine makes next
    issue, to,  \* of its ChangeStage
    from,       \* the stage ChangeStage read from the cache
    got,        \* the issue SetStageLabel read
    list, todo, \* a synchronisation's list, and what it has not handled of it
    current,    \* the issue the worker is on
    active,     \* whether the synchronisation has an active milestone
    sprint,     \* whether GitHub has an open milestone
    announced,  \* the board was told that the sprint can be closed
    shown,      \* observation: the stage of the last change saved, until an edit
    raced,      \* observation: issues edited by two at a time, or whose labels
                \* could not be removed
    hidden,     \* observation: issues whose last edit looks older than the
                \* cached copy
    changes, edits, faults, crashes   \* bounds

dataVars  == <<github, cache, ledger, clock>>
localVars == <<pc, issue, to, from, got, list, todo>>
worldVars == <<current, active, sprint, announced>>
ghostVars == <<shown, raced, hidden>>
boundVars == <<changes, edits, faults, crashes>>
vars == <<dataVars, localVars, worldVars, ghostVars, boundVars>>

Fresh == [labels |-> {Code}, state |-> "OPEN", merged |-> FALSE, updated |-> 0]

Init ==
    /\ github = [i \in Issue |-> Fresh] /\ cache = github
    /\ ledger = [i \in Issue |-> <<NoStage, NoStage>>] /\ clock = 0
    /\ pc = [a \in Actor |-> "idle"]
    /\ issue = [a \in Actor |-> None] /\ to = [a \in Actor |-> None]
    /\ from = [a \in Actor |-> NoStage] /\ got = [a \in Actor |-> Fresh]
    /\ list = [s \in Syncer |-> github] /\ todo = [s \in Syncer |-> {}]
    /\ current \in Issue \cup {None} /\ active = TRUE /\ sprint = TRUE
    /\ announced = FALSE
    /\ shown = [i \in Issue |-> NoStage] /\ raced = {} /\ hidden = {}
    /\ changes = 0 /\ edits = 0 /\ faults = 0 /\ crashes = 0

-----------------------------------------------------------------------------
(* GitHub and the cache.                                                   *)

\* The calls between which SetStageLabel believes what it read, up to the save.
Changing == {"remove", "add", "close", "save"}

\* Somebody else edits the issue while a change of it is under way.
Disturbs(a, i) == \E b \in Actor \ {a} : issue[b] = i /\ pc[b] \in Changing

\* In the same second as whatever was before, or later.
Edit(a, i, new) ==
    /\ clock' \in {clock, clock + 1} \cap 0..MaxClock
    /\ github' = [github EXCEPT ![i] = [new EXCEPT !.updated = 2 * clock']]
    /\ shown' = [shown EXCEPT ![i] = NoStage]
    /\ raced' = IF Disturbs(a, i) THEN raced \cup {i} ELSE raced
    /\ hidden' = IF 2 * clock' < cache[i].updated THEN hidden \cup {i} ELSE hidden \ {i}

\* A call fails.
Fault ==
    /\ faults < MaxFaults /\ faults' = faults + 1

\* Faulty: the time of caching is compared, which is always later.
LocalIsNewerByCachedAt(i, r) == TRUE

\* SaveIssueCache without force skips what is older than the cached copy.
LocalIsNewer(i, r) == cache[i].updated > r.updated

\* The stage of an issue with one label; of several, some one.
StageOf(r) == IF r.labels = {} THEN NoStage ELSE CHOOSE l \in r.labels : TRUE

-----------------------------------------------------------------------------
(* ChangeStage, on behalf of goroutine a.                                  *)

\* A handler's ChangeStage is over; a synchronisation goes on with its list.
After(a) == IF a \in Syncer THEN "loop" ELSE "idle"

GoTo(a, place) == pc' = [pc EXCEPT ![a] = place]

Return(a) ==
    /\ GoTo(a, After(a))
    /\ issue' = [issue EXCEPT ![a] = None] /\ to' = [to EXCEPT ![a] = None]
    /\ from' = [from EXCEPT ![a] = NoStage] /\ got' = [got EXCEPT ![a] = Fresh]

\* A handler calls ChangeStage.
Request(h, i, l) ==
    /\ pc[h] = "idle" /\ changes < MaxChanges
    /\ changes' = changes + 1
    /\ GoTo(h, "from")
    /\ issue' = [issue EXCEPT ![h] = i] /\ to' = [to EXCEPT ![h] = l]
    /\ UNCHANGED <<dataVars, from, got, list, todo, worldVars, ghostVars, edits, faults, crashes>>

ReadCache(a) ==
    /\ pc[a] = "from"
    /\ from' = [from EXCEPT ![a] = StageOf(cache[issue[a]])]
    /\ GoTo(a, "get")
    /\ UNCHANGED <<dataVars, issue, to, got, list, todo, worldVars, ghostVars, boundVars>>

\* Without stage labels there is nothing to remove.
GetIssue(a) ==
    /\ pc[a] = "get"
    /\ got' = [got EXCEPT ![a] = github[issue[a]]]
    /\ GoTo(a, IF github[issue[a]].labels = {} THEN "add" ELSE "remove")
    /\ UNCHANGED <<dataVars, issue, to, from, list, todo, worldVars, ghostVars, boundVars>>

\* Faulty: the labels of the stage before stay on.
LabelsToRemoveNone(a) == {}

LabelsToRemove(a) == got[a].labels

RemoveLabels(a) ==
    /\ pc[a] = "remove"
    /\ LET r == github[issue[a]]
       IN  Edit(a, issue[a], [r EXCEPT !.labels = @ \ LabelsToRemove(a)])
    /\ GoTo(a, "add")
    /\ UNCHANGED <<cache, ledger, issue, to, from, got, list, todo, worldVars, boundVars>>

\* Its error is ignored.
RemoveFails(a) ==
    /\ pc[a] = "remove" /\ Fault
    /\ raced' = raced \cup {issue[a]}
    /\ GoTo(a, "add")
    /\ UNCHANGED <<dataVars, issue, to, from, got, list, todo, worldVars, shown, hidden, changes, edits, crashes>>

AddLabel(a) ==
    /\ pc[a] = "add"
    /\ LET r == github[issue[a]]
       IN  Edit(a, issue[a], [r EXCEPT !.labels = @ \cup {to[a]}])
    /\ GoTo(a, IF to[a] = Done THEN "close" ELSE "save")
    /\ UNCHANGED <<cache, ledger, issue, to, from, got, list, todo, worldVars, boundVars>>

CloseIssue(a) ==
    /\ pc[a] = "close"
    /\ LET r == github[issue[a]] IN Edit(a, issue[a], [r EXCEPT !.state = "CLOSED"])
    /\ GoTo(a, "save")
    /\ UNCHANGED <<cache, ledger, issue, to, from, got, list, todo, worldVars, boundVars>>

\* Reading, labelling or closing fails: ChangeStage returns the error, and
\* what was done on GitHub stays.
CallFails(a) ==
    /\ pc[a] \in {"get", "add", "close"} /\ Fault
    /\ Return(a)
    /\ UNCHANGED <<dataVars, list, todo, worldVars, ghostVars, changes, edits, crashes>>

\* Faulty: the copy keeps the update time GitHub gave, which is before the change.
SavedTimeOfIssue(a) == got[a].updated

SavedTime(a) == 2 * clock + 1

\* The copy is built from the issue as it was read.
Rebuilt(a) ==
    [labels |-> {to[a]}, state |-> IF to[a] = Done THEN "CLOSED" ELSE got[a].state,
     merged |-> FALSE, updated |-> SavedTime(a)]

AfterSave(a) == IF to[a] \in {Done, Failed} THEN "check" ELSE "ledger"

SaveCache(a) ==
    /\ pc[a] = "save"
    /\ cache' = [cache EXCEPT ![issue[a]] = Rebuilt(a)]
    /\ shown' = [shown EXCEPT ![issue[a]] = to[a]]
    /\ hidden' = hidden \ {issue[a]}
    /\ GoTo(a, AfterSave(a))
    /\ UNCHANGED <<github, ledger, clock, issue, to, from, got, list, todo, worldVars, raced, boundVars>>

\* Its error is logged.
SaveFails(a) ==
    /\ pc[a] = "save" /\ Fault
    /\ GoTo(a, AfterSave(a))
    /\ UNCHANGED <<dataVars, issue, to, from, got, list, todo, worldVars, ghostVars, changes, edits, crashes>>

\* inferColumnForClosableCheck, for an open issue: only a failed one is in a
\* terminal column.
Terminal(r) == Failed \in r.labels \/ r.state = "CLOSED"

\* checkAndBroadcastSprintClosable looks at the open issues, if there are any.
CheckClosable(a) ==
    /\ pc[a] = "check"
    /\ LET open == {i \in Issue : cache[i].state = "OPEN"}
       IN  announced' = (announced \/ (sprint /\ open # {} /\ \A i \in open : Terminal(cache[i])))
    /\ GoTo(a, "ledger")
    /\ UNCHANGED <<dataVars, issue, to, from, got, list, todo, current, active, sprint, ghostVars, boundVars>>

\* Its error, too, is logged.
AddToLedger(a) ==
    /\ pc[a] = "ledger"
    /\ \/ ledger' = [ledger EXCEPT ![issue[a]] = <<from[a], to[a]>>] /\ UNCHANGED faults
       \/ Fault /\ UNCHANGED ledger
    /\ Return(a)
    /\ UNCHANGED <<github, cache, clock, list, todo, worldVars, ghostVars, changes, edits, crashes>>

ChangeStep(a) ==
    \/ ReadCache(a) \/ GetIssue(a) \/ RemoveLabels(a) \/ RemoveFails(a) \/ AddLabel(a)
    \/ CloseIssue(a) \/ CallFails(a) \/ SaveCache(a) \/ SaveFails(a) \/ CheckClosable(a)
    \/ AddToLedger(a)

-----------------------------------------------------------------------------
(* The synchronisation: doSync, HandleSyncEvent.                           *)

Tick(s) ==
    /\ pc[s] = "idle" /\ GoTo(s, "milestone")
    /\ UNCHANGED <<dataVars, issue, to, from, got, list, todo, worldVars, ghostVars, boundVars>>

\* A failing check leaves the active milestone as it is.
CheckMilestone(s) ==
    /\ pc[s] = "milestone"
    /\ \/ active' = sprint /\ UNCHANGED faults
       \/ Fault /\ UNCHANGED active
    /\ GoTo(s, IF active' THEN "list" ELSE "idle")
    /\ UNCHANGED <<dataVars, issue, to, from, got, list, todo, current, sprint, announced, ghostVars,
                   changes, edits, crashes>>

ListIssues(s) ==
    /\ pc[s] = "list"
    /\ list' = [list EXCEPT ![s] = github] /\ todo' = [todo EXCEPT ![s] = Issue]
    /\ GoTo(s, "loop")
    /\ UNCHANGED <<dataVars, issue, to, from, got, worldVars, ghostVars, boundVars>>

ListFails(s) ==
    /\ pc[s] = "list" /\ Fault
    /\ GoTo(s, "idle")
    /\ UNCHANGED <<dataVars, issue, to, from, got, list, todo, worldVars, ghostVars, changes, edits, crashes>>

\* The next issue of the list.  An open one without a stage label should get
\* stage:backlog; but the list says "OPEN" where the code asks for "open", and
\* AddLabel refuses stage labels: nothing is added.
SaveListed(s, i) ==
    /\ pc[s] = "loop" /\ i \in todo[s]
    /\ todo' = [todo EXCEPT ![s] = @ \ {i}]
    /\ cache' = IF LocalIsNewer(i, list[s][i]) THEN cache ELSE [cache EXCEPT ![i] = list[s][i]]
    /\ issue' = [issue EXCEPT ![s] = i]
    /\ GoTo(s, "event")
    /\ UNCHANGED <<github, ledger, clock, to, from, got, list, worldVars, ghostVars, boundVars>>

\* The newer copy cannot be read: any error counts as no copy.
SaveListedUnread(s, i) ==
    /\ pc[s] = "loop" /\ i \in todo[s] /\ LocalIsNewer(i, list[s][i]) /\ Fault
    /\ todo' = [todo EXCEPT ![s] = @ \ {i}]
    /\ cache' = [cache EXCEPT ![i] = list[s][i]]
    /\ shown' = [shown EXCEPT ![i] = NoStage] /\ hidden' = hidden \ {i}
    /\ issue' = [issue EXCEPT ![s] = i]
    /\ GoTo(s, "event")
    /\ UNCHANGED <<github, ledger, clock, to, from, got, list, worldVars, raced, changes, edits, crashes>>

\* An issue that cannot be saved is passed over.
SaveListedFails(s, i) ==
    /\ pc[s] = "loop" /\ i \in todo[s] /\ Fault
    /\ todo' = [todo EXCEPT ![s] = @ \ {i}]
    /\ UNCHANGED <<dataVars, pc, issue, to, from, got, list, worldVars, ghostVars, changes, edits, crashes>>

\* Faulty: only merged PRs are looked at.
RepairMergedOnly(r) ==
    IF r.state = "OPEN" /\ r.merged /\ Merge \notin r.labels THEN Merge ELSE None

\* HandleSyncEvent: the stage a listed issue should have.
Repair(r) ==
    CASE r.state = "CLOSED" -> IF Done \in r.labels THEN None ELSE Done
      [] r.state = "OPEN" /\ r.merged /\ Merge \notin r.labels -> Merge
      [] OTHER -> None

HandleSyncEvent(s) ==
    /\ pc[s] = "event"
    /\ LET repair == IF current = issue[s] THEN None ELSE Repair(list[s][issue[s]])
       IN  IF repair = None
           THEN GoTo(s, "loop") /\ issue' = [issue EXCEPT ![s] = None] /\ UNCHANGED to
           ELSE GoTo(s, "from") /\ to' = [to EXCEPT ![s] = repair] /\ UNCHANGED issue
    /\ UNCHANGED <<dataVars, from, got, list, todo, worldVars, ghostVars, boundVars>>

EndSync(s) ==
    /\ pc[s] = "loop" /\ todo[s] = {}
    /\ GoTo(s, "idle") /\ list' = [list EXCEPT ![s] = [i \in Issue |-> Fresh]]
    /\ UNCHANGED <<dataVars, issue, to, from, got, todo, worldVars, ghostVars, boundVars>>

SyncStep(s) ==
    \/ Tick(s) \/ CheckMilestone(s) \/ ListIssues(s) \/ ListFails(s)
    \/ \E i \in Issue : SaveListed(s, i) \/ SaveListedUnread(s, i) \/ SaveListedFails(s, i)
    \/ HandleSyncEvent(s) \/ EndSync(s)

-----------------------------------------------------------------------------
(* Others: people on GitHub, the worker, the end of the process.           *)

\* Somebody closes, reopens or relabels an issue, or a merged PR closes it.
Elsewhere(i) ==
    /\ edits < MaxEdits /\ edits' = edits + 1
    /\ LET r == github[i]
       IN  \/ r.state = "OPEN" /\ Edit(None, i, [r EXCEPT !.state = "CLOSED"])
           \/ r.state = "OPEN" /\ Edit(None, i, [r EXCEPT !.state = "CLOSED", !.merged = TRUE])
           \/ r.state = "CLOSED" /\ Edit(None, i, [r EXCEPT !.state = "OPEN"])
           \/ \E l \in Targets \ r.labels : Edit(None, i, [r EXCEPT !.labels = @ \cup {l}])
    /\ UNCHANGED <<cache, ledger, localVars, worldVars, changes, faults, crashes>>

CloseSprint ==
    /\ sprint /\ edits < MaxEdits /\ edits' = edits + 1
    /\ sprint' = FALSE
    /\ UNCHANGED <<dataVars, localVars, current, active, announced, ghostVars, changes, faults, crashes>>

\* The worker comes to the end of its ticket.
WorkerDone ==
    /\ current # None /\ current' = None
    /\ UNCHANGED <<dataVars, localVars, active, sprint, announced, ghostVars, boundVars>>

\* The process ends and starts again: GitHub, cache and ledger are left.
Crash ==
    /\ crashes < MaxCrashes /\ crashes' = crashes + 1
    /\ pc' = [a \in Actor |-> "idle"]
    /\ issue' = [a \in Actor |-> None] /\ to' = [a \in Actor |-> None]
    /\ from' = [a \in Actor |-> NoStage] /\ got' = [a \in Actor |-> Fresh]
    /\ list' = [s \in Syncer |-> [i \in Issue |-> Fresh]] /\ todo' = [s \in Syncer |-> {}]
    /\ current' = None /\ active' = sprint
    /\ UNCHANGED <<dataVars, sprint, announced, ghostVars, changes, edits, faults>>

Next ==
    \/ \E h \in Handler, i \in Issue, l \in Targets : Request(h, i, l)
    \/ \E a \in Actor : ChangeStep(a)
    \/ \E s \in Syncer : SyncStep(s)
    \/ \E i \in Issue : Elsewhere(i)
    \/ CloseSprint \/ WorkerDone \/ Crash

Spec == Init /\ [][Next]_vars

\* Goroutines run and the ticker ticks; the worker may be on its ticket for
\* ever, waiting for a decision.
Fairness ==
    /\ \A a \in Actor : WF_vars(ChangeStep(a))
    /\ \A s \in Syncer : WF_vars(SyncStep(s))

FairSpec == Spec /\ Fairness

-----------------------------------------------------------------------------
(* Properties.                                                             *)

\* A stage the board shows after a change stays until somebody edits the
\* issue or the cached copy cannot be read: a list read before the change
\* does not undo it.  (SaveIssueCache)
ShownStays ==
    \A i \in Issue : shown[i] # NoStage => cache[i].labels = {shown[i]}

\* An issue has one stage label at most, unless it was edited by two at a
\* time, relabelled by hand, or the removal of its labels failed.  (SetStageLabel)
OneStage ==
    \A i \in Issue : i \notin raced /\ edits = 0 => Cardinality(github[i].labels) <= 1

\* Whatever fails and whenever the process ends, the cache ends up with the
\* labels and the state GitHub has, unless two edited the issue at a time,
\* its labels could not be removed, or it was edited last in the second in
\* which a change had saved its copy.  (ChangeStage, doSync)
CacheSettles ==
    \A i \in Issue :
        <>[](\/ i \in raced \cup hidden \/ ~sprint
             \/ cache[i].labels = github[i].labels /\ cache[i].state = github[i].state)

\* A closed issue of the sprint gets its stage:done, unless the worker is on
\* it.  (HandleSyncEvent)
ClosedBecomesDone ==
    \A i \in Issue :
        github[i].state = "CLOSED" /\ current # i
            ~> (Done \in github[i].labels \/ github[i].state = "OPEN" \/ ~sprint)
=============================================================================
