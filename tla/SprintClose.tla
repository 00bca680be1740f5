----------------------------- MODULE SprintClose -----------------------------
(***************************************************************************)
(* Closing a sprint: a sequence of calls to GitHub made by a request, which   *)
(* may fail or lose its answer at each of them, while other requests do the   *)
(* same, the synchronisation looks for the oldest open sprint, the            *)
(* orchestrator takes tickets, and the program may stop and start again.     *)
(*                                                                          *)
(* A sprint (milestone) is its number, in order of creation; 0 is none.      *)
(* A release that cannot be created is only logged and nothing reads it      *)
(* afterwards, so releases and their notes are left out.                     *)
(***************************************************************************)
EXTENDS Naturals, FiniteSets

CONSTANTS
    Closer,        \* requests that may run at the same time
    Bump,          \* the bump types asked for
    MaxSprints,    \* bound: sprints
    MaxCloses,     \* bound: requests to close one
    MaxCallFaults, \* bound: calls that fail
    MaxStops       \* bound: stops of the program

Sprint == 1..MaxSprints
Kind   == {"legacy", "form", "v2"}

VARIABLES
    milestone,     \* GitHub's: "none", "open" or "closed"
    tags,          \* GitHub's: versions, each with the sprint it was made for
    up,            \* the program runs
    active,        \* Client.ActiveMilestone
    syncActive,    \* SyncService.activeMilestone
    ticker,        \* what the periodic synchronisation has read
    page,          \* the version in the open close page
    processing,    \* Orchestrator.processing
    closer,        \* where each request is
    closing, version, next,   \* its sprint, new version, and the sprint it has read
    broken,        \* observation: creating the next sprint did not get done
    tagged,        \* observation: sprints a request with a release has closed
    closes, callFaults, stops   \* bounds

github  == <<milestone, tags>>
program == <<up, active, syncActive, ticker, page, processing>>
request == <<closer, closing, version, next>>
bounds  == <<closes, callFaults, stops>>
vars == <<github, program, request, broken, tagged, bounds>>

NotReading == MaxSprints + 1
Zero == <<0, 0, 0>>

Idle == [r \in Closer |-> "idle"]

Init ==
    /\ milestone = [s \in Sprint |-> "none"] /\ tags = {}
    /\ up = FALSE /\ active = 0 /\ syncActive = 0 /\ ticker = NotReading
    /\ page = Zero /\ processing = FALSE
    /\ closer = Idle
    /\ closing = [r \in Closer |-> 0] /\ version = [r \in Closer |-> Zero]
    /\ next = [r \in Closer |-> 0]
    /\ broken = FALSE /\ tagged = {} /\ closes = 0 /\ callFaults = 0 /\ stops = 0

Open == {s \in Sprint : milestone[s] = "open"}

OldestOpen == IF Open = {} THEN 0 ELSE CHOOSE s \in Open : \A o \in Open : s <= o

Unused == {s \in Sprint : milestone[s] = "none"}

\* CreateNextSprint, EnsureMilestone: the new sprint is the youngest.
Creates == \E s \in Unused :
               /\ \A u \in Unused : s <= u
               /\ milestone' = [milestone EXCEPT ![s] = "open"]

Fault == callFaults < MaxCallFaults /\ callFaults' = callFaults + 1

-----------------------------------------------------------------------------
(* Versions.                                                               *)

Lower(a, b) == \/ a[1] < b[1]
               \/ a[1] = b[1] /\ a[2] < b[2]
               \/ a[1] = b[1] /\ a[2] = b[2] /\ a[3] < b[3]

Versions == {t.version : t \in tags}

LatestTag == IF tags = {} THEN Zero
             ELSE CHOOSE v \in Versions : \A w \in Versions : ~Lower(v, w)

\* The handlers go on with 0.0.0 when the tags cannot be read.
ReadsLatest(v) == \/ v = LatestTag /\ UNCHANGED callFaults
                  \/ v = Zero /\ Fault

Bumped(v, bump) == CASE bump = "major" -> <<v[1] + 1, 0, 0>>
                     [] bump = "minor" -> <<v[1], v[2] + 1, 0>>
                     [] bump = "patch" -> <<v[1], v[2], v[3] + 1>>

-----------------------------------------------------------------------------
(* The program starts and stops; the orchestrator; the synchronisation.    *)

\* Faulty: EnsureMilestone is left out.
BootUnensured ==
    /\ ~up /\ up' = TRUE
    /\ active' = OldestOpen /\ syncActive' = OldestOpen
    /\ broken' = FALSE
    /\ UNCHANGED <<milestone, tags, ticker, page, processing, request, tagged, bounds>>

Boot ==
    /\ ~up /\ up' = TRUE
    /\ IF Open = {} THEN Creates ELSE UNCHANGED milestone
    /\ active' = OldestOpen' /\ syncActive' = OldestOpen'
    /\ broken' = FALSE
    /\ UNCHANGED <<tags, ticker, page, processing, request, tagged, bounds>>

Stop ==
    /\ up /\ stops < MaxStops /\ stops' = stops + 1
    /\ up' = FALSE /\ active' = 0 /\ syncActive' = 0 /\ ticker' = NotReading
    /\ processing' = FALSE /\ closer' = Idle
    /\ UNCHANGED <<github, page, closing, version, next, broken, tagged, closes, callFaults>>

\* The orchestrator picks the next ticket, or is done with one.
Process ==
    /\ up /\ processing' = ~processing
    /\ UNCHANGED <<github, up, active, syncActive, ticker, page, request, broken, tagged, bounds>>

TickReads ==
    /\ up /\ ticker = NotReading /\ ticker' = OldestOpen
    /\ UNCHANGED <<github, up, active, syncActive, page, processing, request, broken, tagged, bounds>>

\* Faulty: only a first sprint is noticed.
FollowOnce(read) == syncActive' = IF syncActive = 0 THEN read ELSE syncActive

Follow(read) == syncActive' = read

TickSets ==
    /\ ticker # NotReading /\ ticker' = NotReading
    /\ Follow(ticker)
    /\ UNCHANGED <<github, up, active, page, processing, request, broken, tagged, bounds>>

-----------------------------------------------------------------------------
(* A request.                                                              *)

At(r, where) == up /\ closer[r] = where
Goes(r, where) == closer' = [closer EXCEPT ![r] = where]
Local == <<closing, version, next>>
Around == <<program, broken, tagged>>

\* handleSprintClosePage: the page holds the version it was rendered with.
OpenPage ==
    /\ up /\ ~processing /\ active # 0
    /\ \E v \in {LatestTag, Zero} : ReadsLatest(v) /\ page' = v
    /\ UNCHANGED <<github, up, active, syncActive, ticker, processing, request, broken, tagged,
                   closes, stops>>

\* The checks that refuse a request come first.
Accepted(r) ==
    /\ At(r, "idle") /\ ~processing /\ active # 0
    /\ closes < MaxCloses /\ closes' = closes + 1
    /\ closing' = [closing EXCEPT ![r] = active]

\* handleSprintCloseLegacy closes without a release.
BeginLegacy(r) ==
    /\ Accepted(r) /\ Goes(r, "closeLegacy")
    /\ UNCHANGED <<github, Around, version, next, callFaults, stops>>

\* handleSprintCloseConfirm bumps the version its form carries.
BeginForm(r, bump) ==
    /\ Accepted(r) /\ Goes(r, "exists")
    /\ version' = [version EXCEPT ![r] = Bumped(page, bump)]
    /\ UNCHANGED <<github, Around, next, callFaults, stops>>

\* handleSprintCloseConfirmV2 bumps the latest tag.
BeginV2(r, bump) ==
    /\ Accepted(r) /\ Goes(r, "exists")
    /\ \E v \in {LatestTag, Zero} :
           ReadsLatest(v) /\ version' = [version EXCEPT ![r] = Bumped(v, bump)]
    /\ UNCHANGED <<github, Around, next, stops>>

TagExists(r) ==
    /\ At(r, "exists")
    /\ \/ version[r] \in Versions /\ Goes(r, "idle") /\ UNCHANGED callFaults
       \/ version[r] \notin Versions /\ Goes(r, "tag") /\ UNCHANGED callFaults
       \/ Fault /\ Goes(r, "idle")
    /\ UNCHANGED <<github, Around, Local, closes, stops>>

MakesTag(r) == tags' = tags \cup {[version |-> version[r], sprint |-> closing[r]]}

\* Faulty: a tag that cannot be made is only logged.
CreateTagLogged(r) ==
    /\ At(r, "tag") /\ Goes(r, "close")
    /\ IF version[r] \in Versions THEN UNCHANGED <<tags, callFaults>>
       ELSE (MakesTag(r) /\ UNCHANGED callFaults) \/ (Fault /\ UNCHANGED tags)
    /\ UNCHANGED <<milestone, Around, Local, closes, stops>>

\* GitHub refuses a reference that exists; an answer may also be lost.
CreateTag(r) ==
    /\ At(r, "tag")
    /\ IF version[r] \in Versions
       THEN Goes(r, "idle") /\ UNCHANGED <<tags, callFaults>>
       ELSE \/ MakesTag(r) /\ Goes(r, "close") /\ UNCHANGED callFaults
            \/ Fault /\ Goes(r, "idle") /\ (MakesTag(r) \/ UNCHANGED tags)
    /\ UNCHANGED <<milestone, Around, Local, closes, stops>>

CloseMilestone(r) ==
    /\ closer[r] \in {"close", "closeLegacy"} /\ up
    /\ milestone' = [milestone EXCEPT ![closing[r]] = "closed"]
    /\ tagged' = IF closer[r] = "close" THEN tagged \cup {closing[r]} ELSE tagged
    /\ \/ Goes(r, "create") /\ UNCHANGED <<broken, callFaults>>
       \/ Fault /\ Goes(r, "idle") /\ broken' = TRUE      \* the answer is lost
    /\ UNCHANGED <<tags, program, Local, closes, stops>>

CloseFails(r) ==
    /\ closer[r] \in {"close", "closeLegacy"} /\ up
    /\ Fault /\ Goes(r, "idle")
    /\ UNCHANGED <<github, Around, Local, closes, stops>>

CreateNextSprint(r) ==
    /\ At(r, "create")
    /\ \/ Creates /\ Goes(r, "reload") /\ UNCHANGED <<broken, callFaults>>
       \/ Fault /\ Goes(r, "idle") /\ broken' = TRUE /\ (Creates \/ UNCHANGED milestone)
    /\ UNCHANGED <<tags, program, tagged, Local, closes, stops>>

\* GetOldestOpenMilestone; no sprint, or no answer, ends the request.
Reload(r) ==
    /\ At(r, "reload")
    /\ \/ OldestOpen # 0 /\ Goes(r, "setActive") /\ next' = [next EXCEPT ![r] = OldestOpen]
          /\ UNCHANGED callFaults
       \/ OldestOpen = 0 /\ Goes(r, "idle") /\ UNCHANGED <<next, callFaults>>
       \/ Fault /\ Goes(r, "idle") /\ UNCHANGED next
    /\ UNCHANGED <<github, Around, closing, version, closes, stops>>

SetActive(r) ==
    /\ At(r, "setActive") /\ active' = next[r] /\ Goes(r, "setSync")
    /\ UNCHANGED <<github, up, syncActive, ticker, page, processing, broken, tagged, Local, bounds>>

\* SyncNow starts a goroutine for one synchronisation.
SetSync(r) ==
    /\ At(r, "setSync") /\ syncActive' = next[r] /\ Goes(r, "syncReads")
    /\ UNCHANGED <<github, up, active, ticker, page, processing, broken, tagged, Local, bounds>>

SyncReads(r) ==
    /\ At(r, "syncReads") /\ Goes(r, "syncSets")
    /\ next' = [next EXCEPT ![r] = OldestOpen]
    /\ UNCHANGED <<github, Around, closing, version, bounds>>

SyncSets(r) ==
    /\ At(r, "syncSets") /\ Goes(r, "idle") /\ Follow(next[r])
    /\ UNCHANGED <<github, up, active, ticker, page, processing, broken, tagged, Local, bounds>>

Proceeds(r) ==
    \/ TagExists(r) \/ CreateTag(r) \/ CloseMilestone(r) \/ CloseFails(r) \/ CreateNextSprint(r)
    \/ Reload(r) \/ SetActive(r) \/ SetSync(r) \/ SyncReads(r) \/ SyncSets(r)

Begins(r) == BeginLegacy(r) \/ \E bump \in Bump : BeginForm(r, bump) \/ BeginV2(r, bump)

TickStep == TickReads \/ TickSets

Next ==
    \/ Boot \/ Stop \/ Process \/ TickStep \/ OpenPage
    \/ \E r \in Closer : Begins(r) \/ Proceeds(r)

Spec == Init /\ [][Next]_vars

-----------------------------------------------------------------------------
(* A sprint is open for new work whenever no request is about to create one, *)
(* however requests overlap and wherever the program stopped, unless the     *)
(* creation itself failed; a start makes up for that.                        *)
ASprintIsOpen ==
    up /\ ~broken /\ (\A r \in Closer : closer[r] # "create") => Open # {}

(* A sprint that was closed with a release has a tag of its own, also when   *)
(* two requests close it, or ask for the same version.                       *)
ReleasedSprintHasTag == \A s \in tagged : \E t \in tags : t.sprint = s

(* The synchronisation settles on the oldest open sprint, whatever an        *)
(* overtaken request has set.                                               *)
SyncFollows == <>[](up => syncActive = OldestOpen)
=============================================================================
