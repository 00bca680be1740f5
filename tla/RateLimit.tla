------------------------------ MODULE RateLimit ------------------------------
(***************************************************************************)
(* The rate limit service: a goroutine that asks GitHub every 30 seconds and *)
(* requests that ask it to refresh at once; each fetch replaces the numbers   *)
(* or, when it fails, only marks them.  What the board shows is worked out of *)
(* a copy: the limit that is used most, and its colour.                      *)
(***************************************************************************)
EXTENDS Naturals

CONSTANTS
    Refresher,    \* requests that refresh, each in a goroutine of its own
    Limit,        \* of each kind, in requests
    MaxUses       \* bound: changes of what is used

Kind == {"core", "graphql", "search"}

Order == [core |-> 1, graphql |-> 2, search |-> 3]

Fetcher == Refresher \cup {"poll"}

NoAnswer == [known |-> FALSE, used |-> [k \in Kind |-> 0]]

Answers(used) == [known |-> TRUE, used |-> used]

VARIABLES
    github,     \* what GitHub counts as used
    data,       \* the older form: core only
    summary,    \* all kinds
    polling,    \* where the service is
    fetch,      \* where each fetch is
    answer,     \* what GitHub answered it
    uses        \* bound

vars == <<github, data, summary, polling, fetch, answer, uses>>

Init ==
    /\ github = [k \in Kind |-> 0]
    /\ data = [known |-> FALSE, used |-> 0, error |-> TRUE]
    /\ summary = [limits |-> NoAnswer, error |-> TRUE]
    /\ polling = "new"
    /\ fetch = [f \in Fetcher |-> "none"] /\ answer = [f \in Fetcher |-> NoAnswer]
    /\ uses = 0

-----------------------------------------------------------------------------
(* Start, poll, Refresh and Stop.                                          *)

\* Faulty: the ticker does not.
FetchesOnce == polling = "new"

\* Start fetches before it starts the goroutine; a tick fetches again.
Fetches == polling \in {"new", "on"}

Poll ==
    /\ Fetches /\ fetch["poll"] = "none"
    /\ polling' = "on"
    /\ fetch' = [fetch EXCEPT !["poll"] = "asked"]
    /\ UNCHANGED <<github, data, summary, answer, uses>>

\* Also after Stop: the server goes on for a while.
Refresh(r) ==
    /\ fetch[r] = "none" /\ polling # "new"
    /\ fetch' = [fetch EXCEPT ![r] = "asked"]
    /\ UNCHANGED <<github, data, summary, polling, answer, uses>>

Stop ==
    /\ polling = "on" /\ polling' = "stopped"
    /\ UNCHANGED <<github, data, summary, fetch, answer, uses>>

-----------------------------------------------------------------------------
(* fetch, updateWithError.                                                 *)

\* GitHub answers, with what it counts at the time.
Answered(f) ==
    /\ fetch[f] = "asked"
    /\ fetch' = [fetch EXCEPT ![f] = "answered"] /\ answer' = [answer EXCEPT ![f] = Answers(github)]
    /\ UNCHANGED <<github, data, summary, polling, uses>>

Replace(f) ==
    /\ fetch[f] = "answered" /\ fetch' = [fetch EXCEPT ![f] = "none"]
    /\ data' = [known |-> TRUE, used |-> answer[f].used["core"], error |-> FALSE]
    /\ summary' = [limits |-> answer[f], error |-> FALSE]
    /\ answer' = [answer EXCEPT ![f] = NoAnswer]
    /\ UNCHANGED <<github, polling, uses>>

\* The last known values are kept.
Marked(s) == [s EXCEPT !.error = TRUE]

\* The request, the status or the body is bad.
updateWithError(f) ==
    /\ fetch[f] \in {"asked", "answered"} /\ fetch' = [fetch EXCEPT ![f] = "none"]
    /\ data' = [data EXCEPT !.error = TRUE] /\ summary' = Marked(summary)
    /\ answer' = [answer EXCEPT ![f] = NoAnswer]
    /\ UNCHANGED <<github, polling, uses>>

\* Other requests use up a limit, or its hour is over.
Use ==
    /\ uses < MaxUses /\ uses' = uses + 1
    /\ \E k \in Kind, n \in 0..Limit : github' = [github EXCEPT ![k] = n]
    /\ UNCHANGED <<data, summary, polling, fetch, answer>>

FetchStep(f) == Answered(f) \/ Replace(f) \/ updateWithError(f)

Next ==
    \/ Poll \/ Stop \/ Use
    \/ \E r \in Refresher : Refresh(r)
    \/ \E f \in Fetcher : FetchStep(f)

Spec == Init /\ [][Next]_vars

-----------------------------------------------------------------------------
(* What the board shows.                                                   *)

\* All limits are the same here, so the most used is the highest percentage;
\* of equals the first.
GetWorstLimit(s) ==
    CHOOSE k \in Kind :
        \A j \in Kind : \/ s.used[j] < s.used[k]
                        \/ s.used[j] = s.used[k] /\ Order[k] <= Order[j]

GetColorByPercentage(used) ==
    CASE used * 100 > 80 * Limit -> "red"
      [] used * 100 > 50 * Limit /\ used * 100 <= 80 * Limit -> "yellow"
      [] OTHER -> "green"

\* handleRateLimit: the worst limit, its colour, and a warning if the numbers
\* are old.
Board ==
    LET used == summary.limits.used[GetWorstLimit(summary.limits)]
    IN [known |-> summary.limits.known, used |-> used, color |-> GetColorByPercentage(used),
        warning |-> summary.error /\ summary.limits.known]

-----------------------------------------------------------------------------
(* Properties.                                                             *)

\* The numbers are GitHub's, in both forms, and the board is green if no more
\* than half of each limit is used.
Current ==
    /\ summary.limits = Answers(github)
    /\ data = [known |-> TRUE, used |-> github["core"], error |-> FALSE]
    /\ Board.color = "green" <=> \A k \in Kind : 2 * github[k] <= Limit

\* However fetches overlap, and whichever answer is stored last, the service
\* ends with GitHub's numbers once they do not change any more, unless it is
\* stopped; while fetches fail it says so.  (poll, fetch, updateWithError)
NumbersSettle == <>[](polling = "on" => Current \/ (summary.error /\ data.error))

=============================================================================
