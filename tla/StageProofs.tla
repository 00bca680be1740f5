---------------------------- MODULE StageProofs ----------------------------
(***************************************************************************)
(* A change of stage is not undone by the synchronisation, and leaves one   *)
(* stage label, for any issues, goroutines, failing calls, edits by others  *)
(* and ends of the process.                                                 *)
(***************************************************************************)
EXTENDS StageChange, FiniteSetTheorems, TLAPS

Labels == {Code, Merge, Done} \cup Targets

Copies == [labels : SUBSET Labels, state : {"OPEN", "CLOSED"}, merged : BOOLEAN, updated : Nat]

(* Places of ChangeStage, and those of doSync about one issue.              *)
InChange == {"from", "get", "remove", "add", "close", "save", "check", "ledger"}

Typed ==
    /\ clock \in Nat
    /\ github \in [Issue -> Copies]
    /\ cache \in [Issue -> Copies]
    /\ got \in [Actor -> Copies]
    /\ list \in [Syncer -> [Issue -> Copies]]
    /\ todo \in [Syncer -> SUBSET Issue]
    /\ pc \in [Actor -> InChange \cup {"idle", "milestone", "list", "loop", "event"}]
    /\ DOMAIN issue = Actor
    /\ DOMAIN to = Actor
    /\ \A a \in Actor : pc[a] \in InChange \cup {"event"} => issue[a] \in Issue
    /\ \A a \in Actor : pc[a] \in InChange => to[a] \in Labels
    /\ DOMAIN shown = Issue
    /\ raced \subseteq Issue
    /\ edits \in Nat

LEMMA FreshIsCopy == Fresh \in Copies
  BY DEF Fresh, Copies, Labels

LEMMA TypedInit == Init => Typed
<1> SUFFICES ASSUME Init PROVE Typed
  OBVIOUS
<1>1. github \in [Issue -> Copies] /\ cache \in [Issue -> Copies] /\ got \in [Actor -> Copies]
  BY FreshIsCopy DEF Init
<1>2. list \in [Syncer -> [Issue -> Copies]]
  BY <1>1 DEF Init
<1>3. clock \in Nat /\ edits \in Nat /\ todo \in [Syncer -> SUBSET Issue]
  BY DEF Init
<1>4. DOMAIN issue = Actor /\ DOMAIN to = Actor /\ DOMAIN shown = Issue /\ raced \subseteq Issue
  BY DEF Init
<1>5. pc = [a \in Actor |-> "idle"]
  BY DEF Init
<1> QED
  BY <1>1, <1>2, <1>3, <1>4, <1>5 DEF Typed, InChange

LEMMA EditTyped ==
    ASSUME Typed, NEW a, NEW i \in Issue, NEW r \in Copies, Edit(a, i, r)
    PROVE  /\ clock' \in Nat /\ github' \in [Issue -> Copies]
           /\ DOMAIN shown' = Issue /\ raced' \subseteq Issue
  <1>1. clock' \in Nat /\ 2 * clock' \in Nat
    BY DEF Typed, Edit
  <1>2. [r EXCEPT !.updated = 2 * clock'] \in Copies
    <2>1. \A n \in Nat : [r EXCEPT !.updated = n] \in Copies
      BY DEF Copies
    <2> QED
      BY <1>1, <2>1
  <1> QED
    BY <1>1, <1>2 DEF Typed, Edit

LEMMA ReturnTyped ==
    ASSUME Typed, NEW a \in Actor, Return(a)
    PROVE  /\ got' \in [Actor -> Copies]
           /\ pc' \in [Actor -> InChange \cup {"idle", "milestone", "list", "loop", "event"}]
           /\ DOMAIN issue' = Actor /\ DOMAIN to' = Actor
           /\ \A b \in Actor : pc'[b] \in InChange \cup {"event"} => issue'[b] \in Issue
           /\ \A b \in Actor : pc'[b] \in InChange => to'[b] \in Labels
  BY FreshIsCopy DEF Typed, Return, GoTo, After, InChange

(* Each step of ChangeStage keeps the types.                                *)
LEMMA ChangeTyped ==
    ASSUME Typed, NEW a \in Actor, ChangeStep(a)
    PROVE  Typed'
  <1>1. CASE ReadCache(a)
    BY <1>1 DEF Typed, ReadCache, GoTo, InChange, dataVars, worldVars, ghostVars, boundVars
  <1>2. CASE GetIssue(a)
    BY <1>2 DEF Typed, GetIssue, GoTo, InChange, dataVars, worldVars, ghostVars, boundVars
  <1>3. CASE RemoveLabels(a)
    <2>1. issue[a] \in Issue /\ github[issue[a]] \in Copies
      BY <1>3 DEF Typed, RemoveLabels, InChange
    <2>2. [github[issue[a]] EXCEPT !.labels = @ \ LabelsToRemove(a)] \in Copies
      BY <2>1 DEF Copies
    <2> QED
      BY <1>3, <2>1, <2>2, EditTyped
      DEF Typed, RemoveLabels, GoTo, InChange, worldVars, boundVars
  <1>4. CASE RemoveFails(a)
    BY <1>4 DEF Typed, RemoveFails, GoTo, InChange, dataVars, worldVars
  <1>5. CASE AddLabel(a)
    <2>1. issue[a] \in Issue /\ github[issue[a]] \in Copies /\ to[a] \in Labels
      BY <1>5 DEF Typed, AddLabel, InChange
    <2>2. [github[issue[a]] EXCEPT !.labels = @ \cup {to[a]}] \in Copies
      BY <2>1 DEF Copies
    <2> QED
      BY <1>5, <2>1, <2>2, EditTyped
      DEF Typed, AddLabel, GoTo, InChange, worldVars, boundVars
  <1>6. CASE CloseIssue(a)
    <2>1. issue[a] \in Issue /\ github[issue[a]] \in Copies
      BY <1>6 DEF Typed, CloseIssue, InChange
    <2>2. [github[issue[a]] EXCEPT !.state = "CLOSED"] \in Copies
      BY <2>1 DEF Copies
    <2> QED
      BY <1>6, <2>1, <2>2, EditTyped
      DEF Typed, CloseIssue, GoTo, InChange, worldVars, boundVars
  <1>7. CASE CallFails(a)
    BY <1>7, ReturnTyped DEF Typed, CallFails, dataVars, worldVars, ghostVars
  <1>8. CASE SaveCache(a)
    <2>1. issue[a] \in Issue /\ to[a] \in Labels /\ got[a] \in Copies
      BY <1>8 DEF Typed, SaveCache, InChange
    <2>2. Rebuilt(a) \in Copies
      <3>1. 2 * clock + 1 \in Nat
        BY DEF Typed
      <3> QED
        BY <2>1, <3>1 DEF Rebuilt, SavedTime, Copies
    <2> QED
      BY <1>8, <2>1, <2>2
      DEF Typed, SaveCache, AfterSave, GoTo, InChange, worldVars, boundVars
  <1>9. CASE SaveFails(a)
    BY <1>9 DEF Typed, SaveFails, AfterSave, GoTo, InChange, dataVars, worldVars, ghostVars
  <1>10. CASE CheckClosable(a)
    BY <1>10 DEF Typed, CheckClosable, GoTo, InChange, dataVars, ghostVars, boundVars
  <1>11. CASE AddToLedger(a)
    BY <1>11, ReturnTyped DEF Typed, AddToLedger, worldVars, ghostVars
  <1> QED
    BY <1>1, <1>2, <1>3, <1>4, <1>5, <1>6, <1>7, <1>8, <1>9, <1>10, <1>11 DEF ChangeStep

(* Each step of a synchronisation does.                                     *)
LEMMA SyncTyped ==
    ASSUME Typed, NEW s \in Syncer, SyncStep(s)
    PROVE  Typed'
  <1>0. s \in Actor
    BY DEF Actor
  <1>1. CASE Tick(s)
    BY <1>0, <1>1 DEF Typed, Tick, GoTo, InChange, dataVars, worldVars, ghostVars, boundVars
  <1>2. CASE CheckMilestone(s)
    BY <1>0, <1>2 DEF Typed, CheckMilestone, GoTo, InChange, dataVars, ghostVars
  <1>3. CASE ListIssues(s)
    BY <1>0, <1>3 DEF Typed, ListIssues, GoTo, InChange, dataVars, worldVars, ghostVars, boundVars
  <1>4. CASE ListFails(s)
    BY <1>0, <1>4 DEF Typed, ListFails, GoTo, InChange, dataVars, worldVars, ghostVars
  <1>5. ASSUME NEW i \in Issue, SaveListed(s, i) PROVE Typed'
    BY <1>0, <1>5 DEF Typed, SaveListed, GoTo, InChange, worldVars, ghostVars, boundVars
  <1>9. ASSUME NEW i \in Issue, SaveListedUnread(s, i) PROVE Typed'
    BY <1>0, <1>9 DEF Typed, SaveListedUnread, GoTo, InChange, worldVars
  <1>6. ASSUME NEW i \in Issue, SaveListedFails(s, i) PROVE Typed'
    BY <1>0, <1>6 DEF Typed, SaveListedFails, InChange, dataVars, worldVars, ghostVars
  <1>7. CASE HandleSyncEvent(s)
    <2>1. issue[s] \in Issue
      BY <1>0, <1>7 DEF Typed, HandleSyncEvent
    <2>2. \A r : Repair(r) \in {None, Merge, Done}
      BY DEF Repair
    <2> DEFINE repair == IF current = issue[s] THEN None ELSE Repair(list[s][issue[s]])
    <2>3. repair \in {None, Merge, Done}
      BY <2>2
    <2>4. repair # None => repair \in Labels
      BY <2>3 DEF Labels
    <2>5. CASE repair = None
      BY <1>0, <1>7, <2>1, <2>5
      DEF Typed, HandleSyncEvent, GoTo, InChange, dataVars, worldVars, ghostVars, boundVars
    <2>6. CASE repair # None
      <3> HIDE DEF repair
      <3>1. pc' = [pc EXCEPT ![s] = "from"] /\ to' = [to EXCEPT ![s] = repair] /\ UNCHANGED issue
        BY <1>7, <2>6 DEF HandleSyncEvent, GoTo, repair
      <3>2. UNCHANGED <<dataVars, from, got, list, todo, worldVars, ghostVars, boundVars>>
        BY <1>7 DEF HandleSyncEvent
      <3> QED
        BY <1>0, <2>1, <2>4, <2>6, <3>1, <3>2
        DEF Typed, InChange, dataVars, worldVars, ghostVars, boundVars
    <2> QED
      BY <2>5, <2>6
  <1>8. CASE EndSync(s)
    <2>1. [i \in Issue |-> Fresh] \in [Issue -> Copies]
      BY FreshIsCopy
    <2> QED
      BY <1>0, <1>8, <2>1
      DEF Typed, EndSync, GoTo, InChange, dataVars, worldVars, ghostVars, boundVars
  <1> QED
    BY <1>1, <1>2, <1>3, <1>4, <1>5, <1>6, <1>7, <1>8, <1>9 DEF SyncStep

LEMMA ElsewhereEdits ==
    ASSUME Typed, NEW i \in Issue, Elsewhere(i)
    PROVE  \E r \in Copies : Edit(None, i, r)
  <1>1. github[i] \in Copies
    BY DEF Typed
  <1>2. /\ [github[i] EXCEPT !.state = "CLOSED"] \in Copies
        /\ [github[i] EXCEPT !.state = "CLOSED", !.merged = TRUE] \in Copies
        /\ [github[i] EXCEPT !.state = "OPEN"] \in Copies
        /\ \A l \in Targets : [github[i] EXCEPT !.labels = @ \cup {l}] \in Copies
    BY <1>1 DEF Copies, Labels
  <1> QED
    BY <1>2 DEF Elsewhere

LEMMA ElsewhereTyped ==
    ASSUME Typed, NEW i \in Issue, Elsewhere(i)
    PROVE  Typed'
  <1>1. edits' \in Nat
    BY DEF Typed, Elsewhere
  <1> QED
    BY <1>1, ElsewhereEdits, EditTyped DEF Typed, Elsewhere, localVars

LEMMA RequestTyped ==
    ASSUME Typed, NEW h \in Handler, NEW i \in Issue, NEW l \in Targets, Request(h, i, l)
    PROVE  Typed'
  <1>1. h \in Actor /\ l \in Labels
    BY DEF Actor, Labels
  <1> QED
    BY <1>1 DEF Typed, Request, GoTo, InChange, dataVars, worldVars, ghostVars

LEMMA TypedStep == Typed /\ [Next]_vars => Typed'
<1> SUFFICES ASSUME Typed, [Next]_vars PROVE Typed'
  OBVIOUS
<1>1. CASE CloseSprint
  BY <1>1 DEF Typed, CloseSprint, dataVars, localVars, ghostVars
<1>2. CASE WorkerDone
  BY <1>2 DEF Typed, WorkerDone, dataVars, localVars, ghostVars, boundVars
<1>3. CASE Crash
  <2>1. [i \in Issue |-> Fresh] \in [Issue -> Copies] /\ [a \in Actor |-> Fresh] \in [Actor -> Copies]
    BY FreshIsCopy
  <2> QED
    BY <1>3, <2>1 DEF Typed, Crash, InChange, dataVars, ghostVars
<1>4. CASE UNCHANGED vars
  BY <1>4 DEF Typed, vars, dataVars, localVars, worldVars, ghostVars, boundVars
<1> QED
  BY <1>1, <1>2, <1>3, <1>4, ChangeTyped, SyncTyped, ElsewhereTyped, RequestTyped DEF Next

-----------------------------------------------------------------------------
(* A copy that shows a change is newer than GitHub's issue and than every   *)
(* list a synchronisation still holds.                                      *)
NothingFromAhead ==
    /\ \A i \in Issue : github[i].updated <= 2 * clock
    /\ \A s \in Syncer, i \in Issue : list[s][i].updated <= 2 * clock

ShownIsNewer ==
    \A i \in Issue : shown[i] # NoStage =>
        /\ cache[i].labels = {shown[i]}
        /\ cache[i].updated > github[i].updated
        /\ \A s \in Syncer : cache[i].updated > list[s][i].updated

ShownInv == NothingFromAhead /\ ShownIsNewer

LEMMA ShownInit == Init => ShownInv
<1> SUFFICES ASSUME Init PROVE ShownInv
  OBVIOUS
<1>1. \A i \in Issue : github[i].updated = 0 /\ shown[i] = NoStage
  BY DEF Init, Fresh
<1>2. \A s \in Syncer, i \in Issue : list[s][i].updated = 0
  BY DEF Init, Fresh
<1> QED
  BY <1>1, <1>2 DEF Init, ShownInv, NothingFromAhead, ShownIsNewer

LEMMA EditKeepsShown ==
    ASSUME Typed, ShownInv, NEW a, NEW i \in Issue, NEW r \in Copies, Edit(a, i, r),
           UNCHANGED <<cache, list>>
    PROVE  ShownInv'
  <1>1. clock \in Nat /\ clock' \in {clock, clock + 1}
    BY DEF Typed, Edit
  <1>2. /\ \A j \in Issue : j # i => github'[j] = github[j] /\ shown'[j] = shown[j]
        /\ github'[i].updated = 2 * clock' /\ shown'[i] = NoStage
    BY DEF Typed, Edit, Copies
  <1>3. /\ \A j \in Issue : github[j].updated \in Nat
        /\ \A s \in Syncer, j \in Issue : list[s][j].updated \in Nat
    BY DEF Typed, Copies
  <1>4. NothingFromAhead'
    BY <1>1, <1>2, <1>3 DEF ShownInv, NothingFromAhead
  <1>5. ShownIsNewer'
    BY <1>2 DEF ShownInv, ShownIsNewer
  <1> QED
    BY <1>4, <1>5 DEF ShownInv

LEMMA UnchangedKeepsShown ==
    ASSUME ShownInv, UNCHANGED <<github, cache, clock, list, shown>>
    PROVE  ShownInv'
  BY DEF ShownInv, NothingFromAhead, ShownIsNewer

LEMMA SaveKeepsShown ==
    ASSUME Typed, ShownInv, NEW a \in Actor, SaveCache(a)
    PROVE  ShownInv'
  <1>1. issue[a] \in Issue /\ clock \in Nat /\ clock' = clock /\ UNCHANGED <<github, list>>
    BY DEF Typed, SaveCache, InChange
  <1>2. /\ \A j \in Issue : j # issue[a] => cache'[j] = cache[j] /\ shown'[j] = shown[j]
        /\ cache'[issue[a]] = Rebuilt(a) /\ shown'[issue[a]] = to[a]
    BY <1>1 DEF Typed, SaveCache
  <1>3. Rebuilt(a).labels = {to[a]} /\ Rebuilt(a).updated = 2 * clock + 1
    BY DEF Rebuilt, SavedTime
  <1>4. /\ \A j \in Issue : github[j].updated \in Nat
        /\ \A s \in Syncer, j \in Issue : list[s][j].updated \in Nat
    BY DEF Typed, Copies
  <1>5. NothingFromAhead'
    BY <1>1, <1>4 DEF ShownInv, NothingFromAhead
  <1>6. ShownIsNewer'
    BY <1>1, <1>2, <1>3, <1>4 DEF ShownInv, NothingFromAhead, ShownIsNewer
  <1> QED
    BY <1>5, <1>6 DEF ShownInv

LEMMA ChangeKeepsShown ==
    ASSUME Typed, ShownInv, NEW a \in Actor, ChangeStep(a)
    PROVE  ShownInv'
  <1>1. CASE RemoveLabels(a) \/ AddLabel(a) \/ CloseIssue(a)
    <2>1. issue[a] \in Issue /\ github[issue[a]] \in Copies
      BY <1>1 DEF Typed, RemoveLabels, AddLabel, CloseIssue, InChange
    <2>2. AddLabel(a) => to[a] \in Labels
      BY DEF Typed, AddLabel, InChange
    <2>3. /\ [github[issue[a]] EXCEPT !.labels = @ \ LabelsToRemove(a)] \in Copies
          /\ AddLabel(a) => [github[issue[a]] EXCEPT !.labels = @ \cup {to[a]}] \in Copies
          /\ [github[issue[a]] EXCEPT !.state = "CLOSED"] \in Copies
      BY <2>1, <2>2 DEF Copies
    <2>4. PICK r \in Copies : Edit(a, issue[a], r)
      BY <1>1, <2>3 DEF RemoveLabels, AddLabel, CloseIssue
    <2> QED
      BY <1>1, <2>1, <2>4, EditKeepsShown DEF RemoveLabels, AddLabel, CloseIssue
  <1>2. CASE SaveCache(a)
    BY <1>2, SaveKeepsShown
  <1>3. CASE \/ ReadCache(a) \/ GetIssue(a) \/ RemoveFails(a) \/ CallFails(a) \/ SaveFails(a)
             \/ CheckClosable(a) \/ AddToLedger(a)
    BY <1>3, UnchangedKeepsShown
    DEF ReadCache, GetIssue, RemoveFails, CallFails, SaveFails, CheckClosable, AddToLedger,
        dataVars, ghostVars
  <1> QED
    BY <1>1, <1>2, <1>3 DEF ChangeStep

(* What a list holds is saved only over a copy that shows no change.        *)
LEMMA ListedKeepsShown ==
    ASSUME Typed, ShownInv, NEW s \in Syncer, NEW i \in Issue, SaveListed(s, i)
    PROVE  ShownInv'
  <1>1. UNCHANGED <<github, clock, list, shown>>
    BY DEF SaveListed, ghostVars
  <1>2. NothingFromAhead'
    BY <1>1 DEF ShownInv, NothingFromAhead
  <1>3. CASE LocalIsNewer(i, list[s][i])
    BY <1>1, <1>3, UnchangedKeepsShown DEF SaveListed
  <1>4. CASE ~LocalIsNewer(i, list[s][i])
    <2>1. shown[i] = NoStage
      BY <1>4 DEF LocalIsNewer, ShownInv, ShownIsNewer
    <2>2. \A j \in Issue : j # i => cache'[j] = cache[j]
      BY <1>4 DEF Typed, SaveListed
    <2> QED
      BY <1>1, <1>2, <2>1, <2>2 DEF ShownInv, ShownIsNewer
  <1> QED
    BY <1>3, <1>4

(* Over a copy that could not be read whatever is listed is saved.          *)
LEMMA UnreadKeepsShown ==
    ASSUME Typed, ShownInv, NEW s \in Syncer, NEW i \in Issue, SaveListedUnread(s, i)
    PROVE  ShownInv'
  <1>1. UNCHANGED <<github, clock, list>>
    BY DEF SaveListedUnread
  <1>2. /\ shown'[i] = NoStage
        /\ \A j \in Issue : j # i => cache'[j] = cache[j] /\ shown'[j] = shown[j]
    BY DEF Typed, SaveListedUnread
  <1> QED
    BY <1>1, <1>2 DEF ShownInv, NothingFromAhead, ShownIsNewer

(* A new list is not ahead of GitHub, and an empty one is behind.           *)
LEMMA ListKeepsShown ==
    ASSUME Typed, ShownInv, NEW s \in Syncer, ListIssues(s)
    PROVE  ShownInv'
  <1>1. UNCHANGED <<github, cache, clock, shown>>
    BY DEF ListIssues, dataVars, ghostVars
  <1>2. \A t \in Syncer : list'[t] = list[t] \/ list'[t] = github
    BY DEF Typed, ListIssues
  <1> QED
    BY <1>1, <1>2 DEF ShownInv, NothingFromAhead, ShownIsNewer

LEMMA ForgottenKeepsShown ==
    ASSUME Typed, ShownInv, UNCHANGED <<github, cache, clock, shown>>,
           \A t \in Syncer : list'[t] = list[t] \/ list'[t] = [i \in Issue |-> Fresh]
    PROVE  ShownInv'
  <1>1. \A i \in Issue : github[i].updated \in Nat /\ cache[i].updated \in Nat
    BY DEF Typed, Copies
  <1>2. \A t \in Syncer, i \in Issue : list'[t][i] = list[t][i] \/ list'[t][i].updated = 0
    BY DEF Fresh
  <1>3. NothingFromAhead'
    BY <1>1, <1>2 DEF Typed, ShownInv, NothingFromAhead
  <1>4. ShownIsNewer'
    BY <1>1, <1>2 DEF ShownInv, ShownIsNewer
  <1> QED
    BY <1>3, <1>4 DEF ShownInv

LEMMA SyncKeepsShown ==
    ASSUME Typed, ShownInv, NEW s \in Syncer, SyncStep(s)
    PROVE  ShownInv'
  <1>1. CASE \/ Tick(s) \/ CheckMilestone(s) \/ ListFails(s) \/ HandleSyncEvent(s)
             \/ \E i \in Issue : SaveListedFails(s, i)
    BY <1>1, UnchangedKeepsShown
    DEF Tick, CheckMilestone, ListFails, HandleSyncEvent, SaveListedFails, dataVars, ghostVars
  <1>2. CASE EndSync(s)
    BY <1>2, ForgottenKeepsShown DEF Typed, EndSync, dataVars, ghostVars
  <1> QED
    BY <1>1, <1>2, ListKeepsShown, ListedKeepsShown, UnreadKeepsShown DEF SyncStep

LEMMA ShownStep == Typed /\ ShownInv /\ [Next]_vars => ShownInv'
<1> SUFFICES ASSUME Typed, ShownInv, [Next]_vars PROVE ShownInv'
  OBVIOUS
<1>1. ASSUME NEW h \in Handler, NEW i \in Issue, NEW l \in Targets, Request(h, i, l)
      PROVE  ShownInv'
  BY <1>1, UnchangedKeepsShown DEF Request, dataVars, ghostVars
<1>2. ASSUME NEW i \in Issue, Elsewhere(i) PROVE ShownInv'
  BY <1>2, ElsewhereEdits, EditKeepsShown DEF Elsewhere, localVars
<1>3. CASE CloseSprint \/ WorkerDone \/ UNCHANGED vars
  BY <1>3, UnchangedKeepsShown
  DEF CloseSprint, WorkerDone, vars, dataVars, localVars, ghostVars
<1>4. CASE Crash
  BY <1>4, ForgottenKeepsShown DEF Crash, dataVars, ghostVars
<1> QED
  BY <1>1, <1>2, <1>3, <1>4, ChangeKeepsShown, SyncKeepsShown DEF Next

\* A stage the board shows after a change stays until the issue is edited on
\* GitHub or its cached copy cannot be read, however many synchronisations
\* hold lists from before it.
THEOREM ShownChangesStay == Spec => []ShownStays
<1>1. ShownInv => ShownStays
  BY DEF ShownInv, ShownIsNewer, ShownStays
<1> QED
  BY <1>1, TypedInit, TypedStep, ShownInit, ShownStep, PTL DEF Spec

-----------------------------------------------------------------------------
(* An issue no two have edited at a time has one stage label or none; one    *)
(* that somebody changes has at most the labels they read, and none once     *)
(* they have taken those off.                                               *)
Alone(i) ==
    /\ github[i].labels = {} \/ \E l \in Labels : github[i].labels = {l}
    /\ \A a \in Actor : issue[a] = i =>
           /\ pc[a] = "remove" => github[i].labels \subseteq got[a].labels
           /\ pc[a] = "add" => github[i].labels = {}

OneInv == \A i \in Issue : i \notin raced /\ edits = 0 => Alone(i)

LEMMA OneInit == Init => OneInv
<1> SUFFICES ASSUME Init PROVE OneInv
  OBVIOUS
<1>1. \A i \in Issue : github[i].labels = {Code}
  BY DEF Init, Fresh
<1>2. \A a \in Actor : pc[a] = "idle"
  BY DEF Init
<1> QED
  BY <1>1, <1>2 DEF OneInv, Alone, Labels

(* Steps that leave GitHub alone and put no goroutine in the middle of a     *)
(* change.                                                                  *)
LEMMA QuietKeepsOne ==
    ASSUME OneInv, UNCHANGED github, raced \subseteq raced', edits' = edits,
           \A a \in Actor : pc'[a] \in {"remove", "add"} =>
               pc'[a] = pc[a] /\ issue'[a] = issue[a] /\ got'[a] = got[a]
    PROVE  OneInv'
  BY DEF OneInv, Alone

LEMMA EditKeepsOne ==
    ASSUME Typed, OneInv, NEW a \in Actor, NEW r \in Copies, Edit(a, issue[a], r),
           pc[a] \in Changing, UNCHANGED <<issue, got, edits>>,
           NEW p, GoTo(a, p), p # "remove",
           r.labels = {} \/ \E l \in Labels : r.labels = {l},
           p = "add" => r.labels = {}
    PROVE  OneInv'
  <1> DEFINE i == issue[a]
  <1>1. i \in Issue /\ pc[a] # "idle"
    BY DEF Typed, Changing, InChange
  <1>2. /\ \A j \in Issue : j # i => github'[j] = github[j]
        /\ github'[i].labels = r.labels /\ raced \subseteq raced'
    BY <1>1 DEF Typed, Edit, Copies
  <1>3. /\ \A b \in Actor : b # a => pc'[b] = pc[b]
        /\ pc'[a] = p
    BY DEF Typed, GoTo
  <1>4. ASSUME NEW j \in Issue, j # i, j \notin raced', edits' = 0 PROVE Alone(j)'
    BY <1>2, <1>3, <1>4 DEF OneInv, Alone
  <1>5. ASSUME i \notin raced', edits' = 0 PROVE Alone(i)'
    <2>1. \A b \in Actor : b # a /\ issue[b] = i => pc[b] \notin Changing
      BY <1>1, <1>5 DEF Edit, Disturbs
    <2>2. \A b \in Actor : b # a /\ issue'[b] = i => pc'[b] \notin {"remove", "add"}
      BY <2>1, <1>3 DEF Changing
    <2> QED
      BY <2>2, <1>2, <1>3 DEF Alone
  <1> QED
    BY <1>4, <1>5 DEF OneInv

LEMMA RemoveKeepsOne ==
    ASSUME Typed, OneInv, NEW a \in Actor, RemoveLabels(a)
    PROVE  OneInv'
  <1> DEFINE i == issue[a]
             r == [github[i] EXCEPT !.labels = @ \ got[a].labels]
  <1>1. i \in Issue /\ github[i] \in Copies
    BY DEF Typed, RemoveLabels, InChange
  <1>2. r \in Copies /\ r.labels = github[i].labels \ got[a].labels
    BY <1>1 DEF Copies
  <1>3. Edit(a, i, r) /\ GoTo(a, "add") /\ UNCHANGED <<issue, got, edits>> /\ pc[a] = "remove"
    BY DEF RemoveLabels, LabelsToRemove, boundVars
  <1>4. CASE r.labels = {}
    BY <1>2, <1>3, <1>4, EditKeepsOne DEF Changing
  <1>5. CASE r.labels # {}
    <2>1. i \in raced \/ edits # 0
      BY <1>1, <1>2, <1>3, <1>5 DEF OneInv, Alone
    <2>2. /\ \A j \in Issue : j # i => github'[j] = github[j]
          /\ raced \subseteq raced' /\ edits' = edits
          /\ \A b \in Actor : b # a => pc'[b] = pc[b]
          /\ UNCHANGED <<issue, got>>
      BY <1>1, <1>3 DEF Typed, Edit, GoTo
    <2>3. ASSUME NEW j \in Issue, j \notin raced', edits' = 0 PROVE Alone(j)'
      <3>1. j # i /\ Alone(j)
        BY <2>1, <2>2, <2>3 DEF OneInv
      <3> QED
        BY <2>2, <3>1 DEF Alone
    <2> QED
      BY <2>3 DEF OneInv
  <1> QED
    BY <1>4, <1>5

LEMMA AddKeepsOne ==
    ASSUME Typed, OneInv, NEW a \in Actor, AddLabel(a)
    PROVE  OneInv'
  <1> DEFINE i == issue[a]
             r == [github[i] EXCEPT !.labels = @ \cup {to[a]}]
             p == IF to[a] = Done THEN "close" ELSE "save"
  <1>1. i \in Issue /\ github[i] \in Copies /\ to[a] \in Labels
    BY DEF Typed, AddLabel, InChange
  <1>2. r \in Copies /\ r.labels = github[i].labels \cup {to[a]}
    BY <1>1 DEF Copies
  <1>3. Edit(a, i, r) /\ GoTo(a, p) /\ UNCHANGED <<issue, got, edits>> /\ pc[a] = "add"
    BY DEF AddLabel, boundVars
  <1>4. p # "remove" /\ p # "add"
    OBVIOUS
  <1> HIDE DEF p
  <1>5. CASE github[i].labels = {}
    <2>1. r.labels = {to[a]}
      BY <1>2, <1>5
    <2> QED
      BY <1>1, <1>2, <1>3, <1>4, <2>1, EditKeepsOne DEF Changing
  <1>6. CASE github[i].labels # {}
    <2>1. i \in raced \/ edits # 0
      BY <1>1, <1>3, <1>6 DEF OneInv, Alone
    <2>2. /\ \A j \in Issue : j # i => github'[j] = github[j]
          /\ raced \subseteq raced' /\ edits' = edits
          /\ \A b \in Actor : b # a => pc'[b] = pc[b]
          /\ UNCHANGED <<issue, got>>
      BY <1>1, <1>3 DEF Typed, Edit, GoTo
    <2>3. ASSUME NEW j \in Issue, j \notin raced', edits' = 0 PROVE Alone(j)'
      <3>1. j # i /\ Alone(j)
        BY <2>1, <2>2, <2>3 DEF OneInv
      <3> QED
        BY <2>2, <3>1 DEF Alone
    <2> QED
      BY <2>3 DEF OneInv
  <1> QED
    BY <1>5, <1>6

LEMMA CloseKeepsOne ==
    ASSUME Typed, OneInv, NEW a \in Actor, CloseIssue(a)
    PROVE  OneInv'
  <1> DEFINE i == issue[a]
             r == [github[i] EXCEPT !.state = "CLOSED"]
  <1>1. i \in Issue /\ github[i] \in Copies
    BY DEF Typed, CloseIssue, InChange
  <1>2. r \in Copies /\ r.labels = github[i].labels
    BY <1>1 DEF Copies
  <1>3. /\ Edit(a, i, r) /\ pc[a] = "close" /\ UNCHANGED <<issue, got, edits>>
        /\ \A b \in Actor : pc'[b] \in {"remove", "add"} => pc'[b] = pc[b]
    BY DEF Typed, CloseIssue, GoTo, boundVars
  <1>4. /\ \A j \in Issue : github'[j].labels = github[j].labels
        /\ raced \subseteq raced'
    BY <1>1, <1>2, <1>3 DEF Typed, Edit, Copies
  <1> QED
    BY <1>3, <1>4 DEF OneInv, Alone

LEMMA ChangeKeepsOne ==
    ASSUME Typed, OneInv, NEW a \in Actor, ChangeStep(a)
    PROVE  OneInv'
  <1>1. CASE GetIssue(a)
    <2>1. /\ UNCHANGED <<github, raced, edits, issue>> /\ got'[a] = github[issue[a]]
          /\ pc'[a] = IF github[issue[a]].labels = {} THEN "add" ELSE "remove"
          /\ \A b \in Actor : b # a => pc'[b] = pc[b] /\ got'[b] = got[b]
      BY <1>1 DEF Typed, GetIssue, GoTo, dataVars, ghostVars, boundVars
    <2> QED
      BY <2>1 DEF OneInv, Alone
  <1>2. CASE RemoveFails(a)
    <2>1. /\ UNCHANGED <<github, edits, issue, got>> /\ raced' = raced \cup {issue[a]}
          /\ \A b \in Actor : b # a => pc'[b] = pc[b]
      BY <1>2 DEF Typed, RemoveFails, GoTo, dataVars
    <2> QED
      BY <2>1 DEF OneInv, Alone
  <1>3. CASE ReadCache(a) \/ SaveCache(a) \/ SaveFails(a) \/ CheckClosable(a)
    <2>1. PICK p : GoTo(a, p) /\ p \notin {"remove", "add"}
      BY <1>3 DEF ReadCache, SaveCache, SaveFails, CheckClosable, AfterSave
    <2> QED
      BY <1>3, <2>1, QuietKeepsOne
      DEF Typed, ReadCache, SaveCache, SaveFails, CheckClosable, GoTo, dataVars, ghostVars, boundVars
  <1>4. CASE CallFails(a) \/ AddToLedger(a)
    BY <1>4, QuietKeepsOne
    DEF Typed, CallFails, AddToLedger, Return, GoTo, After, dataVars, ghostVars, boundVars
  <1> QED
    BY <1>1, <1>2, <1>3, <1>4, RemoveKeepsOne, AddKeepsOne, CloseKeepsOne DEF ChangeStep

LEMMA SyncKeepsOne ==
    ASSUME Typed, OneInv, NEW s \in Syncer, SyncStep(s)
    PROVE  OneInv'
  <1>0. s \in Actor
    BY DEF Actor
  <1>1. CASE Tick(s) \/ CheckMilestone(s) \/ ListIssues(s) \/ ListFails(s) \/ EndSync(s)
    BY <1>0, <1>1, QuietKeepsOne
    DEF Typed, Tick, CheckMilestone, ListIssues, ListFails, EndSync, GoTo, dataVars, ghostVars, boundVars
  <1>2. ASSUME NEW i \in Issue, SaveListed(s, i) \/ SaveListedUnread(s, i) \/ SaveListedFails(s, i)
        PROVE  OneInv'
    BY <1>0, <1>2, QuietKeepsOne
    DEF Typed, SaveListed, SaveListedUnread, SaveListedFails, GoTo, dataVars, ghostVars, boundVars
  <1>3. CASE HandleSyncEvent(s)
    <2>1. PICK p \in {"loop", "from"} : GoTo(s, p)
      BY <1>3 DEF HandleSyncEvent
    <2>2. \A b \in Actor : b # s => issue'[b] = issue[b]
      BY <1>0, <1>3 DEF Typed, HandleSyncEvent
    <2> QED
      BY <1>0, <1>3, <2>1, <2>2, QuietKeepsOne
      DEF Typed, HandleSyncEvent, GoTo, dataVars, ghostVars, boundVars
  <1> QED
    BY <1>1, <1>2, <1>3 DEF SyncStep

LEMMA OneStep == Typed /\ OneInv /\ [Next]_vars => OneInv'
<1> SUFFICES ASSUME Typed, OneInv, [Next]_vars PROVE OneInv'
  OBVIOUS
<1>1. ASSUME NEW h \in Handler, NEW i \in Issue, NEW l \in Targets, Request(h, i, l)
      PROVE  OneInv'
  BY <1>1, QuietKeepsOne DEF Typed, Request, GoTo, Actor, dataVars, ghostVars
<1>2. CASE CloseSprint \/ \E i \in Issue : Elsewhere(i)
  <2>1. edits' = edits + 1
    BY <1>2 DEF CloseSprint, Elsewhere
  <2>2. edits' # 0
    BY <2>1 DEF Typed
  <2> QED
    BY <2>2 DEF OneInv
<1>3. CASE WorkerDone \/ UNCHANGED vars
  BY <1>3, QuietKeepsOne DEF WorkerDone, vars, dataVars, localVars, ghostVars, boundVars
<1>4. CASE Crash
  BY <1>4, QuietKeepsOne DEF Crash, dataVars, ghostVars
<1> QED
  BY <1>1, <1>2, <1>3, <1>4, ChangeKeepsOne, SyncKeepsOne DEF Next

\* Changes of stage that do not overlap leave one stage label, whatever fails
\* after the labels were removed and whenever the process ends.
THEOREM OneStageAtATime == Spec => []OneStage
<1>1. OneInv => OneStage
  <2> SUFFICES ASSUME OneInv, NEW i \in Issue, i \notin raced, edits = 0
               PROVE  Cardinality(github[i].labels) <= 1
    BY DEF OneStage
  <2>1. github[i].labels = {} \/ \E l \in Labels : github[i].labels = {l}
    BY DEF OneInv, Alone
  <2>2. CASE github[i].labels = {}
    <3>1. Cardinality({}) = 0
      BY FS_EmptySet
    <3> QED
      BY <2>2, <3>1
  <2>3. ASSUME NEW l \in Labels, github[i].labels = {l} PROVE Cardinality(github[i].labels) <= 1
    <3>1. Cardinality({l}) = 1
      BY FS_Singleton
    <3> QED
      BY <2>3, <3>1
  <2> QED
    BY <2>1, <2>2, <2>3
<1> QED
  BY <1>1, TypedInit, TypedStep, OneInit, OneStep, PTL DEF Spec
=============================================================================
