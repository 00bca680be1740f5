------------------------------- MODULE Wizard -------------------------------
(***************************************************************************)
(* The wizard: sessions in memory, and the requests that make one, have an   *)
(* idea refined by the LLM, create the issue from it, cancel it, and the      *)
(* clean-up of old sessions.  A request holds on to its session while the     *)
(* LLM or GitHub answers; the store may drop the session meanwhile.          *)
(*                                                                          *)
(* What the LLM generates is the number of the refinement; 0 is nothing.     *)
(* A request that creates gives the title its page shows, or none; what the   *)
(* user types instead counts as the one shown.  A request gives up on the    *)
(* LLM long before a session counts as old.                                  *)
(***************************************************************************)
EXTENDS Naturals, Sequences, FiniteSets

CONSTANTS
    Request,        \* requests that may run at the same time
    MaxSessions,    \* MaxSessions: 1000
    MaxIds,         \* bound: sessions ever made
    MaxRefines,     \* bound: answers of the LLM
    MaxFaults       \* bound: calls that fail

Session == 1..MaxIds

VARIABLES
    store,         \* the sessions that can be found
    made,          \* how many there were
    step,          \* CurrentStep
    planning,      \* TechnicalPlanning
    title,         \* GeneratedTitle, with priority and complexity
    custom,        \* CustomTitle, used if there is one
    old,           \* sessions not updated for SessionMaxAge
    request,       \* where each request is
    of,            \* its session
    generated,     \* what the LLM answered it
    issues,        \* the issues made from each session, as planning and title
    sprint,        \* the issues of each session that were put in the sprint
    unheard,       \* observation: those of them the request took for failed
    overlapped,    \* observation: sessions two requests held at a time
    retitled,      \* observation: sessions refined after a title was given
    refines, faults   \* bounds

sessionVars == <<store, made, step, planning, title, custom, old>>
requestVars == <<request, of, generated>>
boundVars   == <<refines, faults>>
watched     == <<unheard, overlapped, retitled>>
vars == <<sessionVars, requestVars, issues, sprint, watched, boundVars>>

Init ==
    /\ store = {} /\ made = 0
    /\ step = [s \in Session |-> "new"]
    /\ planning = [s \in Session |-> 0] /\ title = [s \in Session |-> 0]
    /\ custom = [s \in Session |-> 0] /\ old = {}
    /\ request = [r \in Request |-> "idle"] /\ of = [r \in Request |-> 0]
    /\ generated = [r \in Request |-> 0]
    /\ issues = [s \in Session |-> <<>>] /\ sprint = [s \in Session |-> 0]
    /\ unheard = [s \in Session |-> 0] /\ overlapped = {} /\ retitled = {} /\ refines = 0 /\ faults = 0

Held(s) == \E r \in Request : of[r] = s

Fault == faults < MaxFaults /\ faults' = faults + 1

-----------------------------------------------------------------------------
(* The store: Create, Delete, CleanupOldSessions.                          *)

Room == Cardinality(store) < MaxSessions

\* A page with a valid type and no session, or a POST, makes a session.
Create ==
    /\ made < MaxIds /\ Room
    /\ made' = made + 1 /\ store' = store \cup {made + 1}
    /\ UNCHANGED <<step, planning, title, custom, old, requestVars, issues, sprint, watched, boundVars>>

Cancel(s) ==
    /\ s \in store /\ store' = store \ {s}
    /\ UNCHANGED <<made, step, planning, title, custom, old, requestVars, issues, sprint, watched, boundVars>>

Age(s) ==
    /\ s \in store \ old /\ ~Held(s) /\ old' = old \cup {s}
    /\ UNCHANGED <<store, made, step, planning, title, custom, requestVars, issues, sprint, watched, boundVars>>

CleanupOldSessions ==
    /\ old \cap store # {} /\ store' = store \ old
    /\ UNCHANGED <<made, step, planning, title, custom, old, requestVars, issues, sprint, watched, boundVars>>

\* A request finds a session, and changes it.
Take(r, s, place) ==
    /\ request[r] = "idle" /\ s \in store
    /\ request' = [request EXCEPT ![r] = place] /\ of' = [of EXCEPT ![r] = s]
    /\ old' = old \ {s}
    /\ overlapped' = IF Held(s) THEN overlapped \cup {s} ELSE overlapped

Return(r) ==
    /\ request' = [request EXCEPT ![r] = "idle"] /\ of' = [of EXCEPT ![r] = 0]
    /\ generated' = [generated EXCEPT ![r] = 0]

-----------------------------------------------------------------------------
(* handleWizardRefine and its V2.                                          *)

Refine(r, s) ==
    /\ Take(r, s, "llm") /\ step' = [step EXCEPT ![s] = "refine"]
    /\ UNCHANGED <<store, made, planning, title, custom, generated, issues, sprint, unheard, retitled, boundVars>>

\* The session of the LLM cannot be made, the LLM fails or takes too long, or
\* its description is empty: the session keeps what it had.
RefineFails(r) ==
    /\ request[r] = "llm" /\ Fault /\ Return(r)
    /\ UNCHANGED <<sessionVars, issues, sprint, watched, refines>>

LLMAnswers(r) ==
    /\ request[r] = "llm" /\ refines < MaxRefines /\ refines' = refines + 1
    /\ generated' = [generated EXCEPT ![r] = refines + 1]
    /\ request' = [request EXCEPT ![r] = "planning"]
    /\ UNCHANGED <<sessionVars, of, issues, sprint, watched, faults>>

\* SetTechnicalPlanning, and then the setters of title, priority and complexity.
SetPlanning(r) ==
    /\ request[r] = "planning" /\ request' = [request EXCEPT ![r] = "title"]
    /\ planning' = [planning EXCEPT ![of[r]] = generated[r]]
    /\ UNCHANGED <<store, made, step, title, custom, old, of, generated, issues, sprint, watched, boundVars>>

\* Faulty: a title that is there is kept.
NewTitleKept(r) == IF title[of[r]] = 0 THEN generated[r] ELSE title[of[r]]

NewTitle(r) == generated[r]

SetTitle(r) ==
    /\ request[r] = "title" /\ Return(r)
    /\ title' = [title EXCEPT ![of[r]] = NewTitle(r)]
    /\ retitled' = IF custom[of[r]] = 0 THEN retitled ELSE retitled \cup {of[r]}
    /\ UNCHANGED <<store, made, step, planning, custom, old, issues, sprint, unheard, overlapped, boundVars>>

-----------------------------------------------------------------------------
(* handleWizardCreate, handleWizardCreateSingle and their V2.              *)

\* GetFinalTitle: what the page shows, and what the issue gets.
GetFinalTitle(s) == IF custom[s] # 0 THEN custom[s] ELSE title[s]

\* The form posts the title its page shows; it may be empty.  A title that is
\* given stays with the session.
CreateFromSession(r, s) ==
    /\ Take(r, s, "create") /\ step' = [step EXCEPT ![s] = "create"]
    /\ custom' \in {custom, [custom EXCEPT ![s] = GetFinalTitle(s)]}
    /\ UNCHANGED <<store, made, planning, title, generated, issues, sprint, unheard, retitled, boundVars>>

\* GitHub's issue has planning and title as they are when the request comes to it.
NewIssue(r) == issues' = [issues EXCEPT ![of[r]] = Append(@, <<planning[of[r]], GetFinalTitle(of[r])>>)]

CreateIssue(r) ==
    /\ request[r] = "create" /\ request' = [request EXCEPT ![r] = "created"]
    /\ NewIssue(r)
    /\ UNCHANGED <<sessionVars, of, generated, sprint, watched, boundVars>>

\* GitHub has made it, but its answer is lost or says no number.
CreateIssueLost(r) ==
    /\ request[r] = "create" /\ Fault /\ Return(r)
    /\ NewIssue(r) /\ unheard' = [unheard EXCEPT ![of[r]] = @ + 1]
    /\ UNCHANGED <<sessionVars, sprint, overlapped, retitled, refines>>

CreateIssueFails(r) ==
    /\ request[r] = "create" /\ Fault /\ Return(r)
    /\ UNCHANGED <<sessionVars, issues, sprint, watched, refines>>

\* Faulty: without the milestone the session is left.
EndsSessionIfAssigned(assigned) == assigned

EndsSession(assigned) == TRUE

\* SetMilestone, if it is asked for and there is a sprint; its error is logged.
\* The session goes.
AssignAndDelete(r) ==
    /\ request[r] = "created" /\ Return(r)
    /\ \E assigned \in BOOLEAN :
        /\ UNCHANGED faults \/ (~assigned /\ Fault)
        /\ sprint' = IF assigned THEN [sprint EXCEPT ![of[r]] = @ + 1] ELSE sprint
        /\ store' = IF EndsSession(assigned) THEN store \ {of[r]} ELSE store
    /\ UNCHANGED <<made, step, planning, title, custom, old, issues, watched, refines>>

\* A request of each kind, from its session to its answer.
RefineRequest(r) ==
    \/ \E s \in Session : Refine(r, s)
    \/ RefineFails(r) \/ LLMAnswers(r) \/ SetPlanning(r) \/ SetTitle(r)

CreateRequest(r) ==
    \/ \E s \in Session : CreateFromSession(r, s)
    \/ CreateIssue(r) \/ CreateIssueLost(r) \/ CreateIssueFails(r) \/ AssignAndDelete(r)

Next ==
    \/ Create \/ CleanupOldSessions
    \/ \E s \in Session : Cancel(s) \/ Age(s)
    \/ \E r \in Request : RefineRequest(r) \/ CreateRequest(r)

Spec == Init /\ [][Next]_vars

-----------------------------------------------------------------------------
(* Properties.                                                             *)

\* However often creating is tried, and whatever fails, a session becomes one
\* issue, and one more for each that GitHub made and the request did not hear of,
\* unless two requests held it at a time.  (handleWizardCreateSingle,
\* handleWizardCreateIssueV2)
OneIssue == \A s \in Session : s \notin overlapped => Len(issues[s]) <= 1 + unheard[s]

\* The title and the text of an issue come from one refinement, unless two
\* requests held the session at a time, or it was refined again after a title
\* had been given, which stays.  (handleWizardRefine, GetFinalTitle)
TitleFitsText ==
    \A s \in Session : \A n \in DOMAIN issues[s] :
        issues[s][n][1] # issues[s][n][2] => s \in overlapped \cup retitled

=============================================================================
