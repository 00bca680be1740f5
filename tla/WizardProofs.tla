---------------------------- MODULE WizardProofs ----------------------------
(***************************************************************************)
(* A session becomes at most one issue more than requests did not hear of,   *)
(* and title and text of each come from one refinement, with the exceptions   *)
(* the properties name: for any requests, sessions, failures, cancellations   *)
(* and clean-ups.                                                           *)
(***************************************************************************)
EXTENDS Wizard, SequenceTheorems, TLAPS

Texts == Nat \X Nat

(* Every place of a request but "idle" has a session that was made.         *)
WizardTyped ==
    /\ made \in 0..MaxIds /\ store \subseteq 1..made
    /\ request \in [Request -> {"idle", "llm", "planning", "title", "create", "created"}]
    /\ of \in [Request -> 0..made]
    /\ \A r \in Request : request[r] = "idle" <=> of[r] = 0
    /\ refines \in Nat /\ generated \in [Request -> Nat]
    /\ planning \in [Session -> Nat] /\ title \in [Session -> Nat] /\ custom \in [Session -> Nat]
    /\ unheard \in [Session -> Nat]
    /\ issues \in [Session -> Seq(Texts)]

HeldOnce(s) == \A r, q \in Request : of[r] = s /\ of[q] = s => r = q

(* The one issue a request heard of is there from the moment GitHub has it,   *)
(* and from then on its request holds the session until no one can find it.  *)
IssuedOnce(s) ==
    \/ Len(issues[s]) = unheard[s]
    \/ /\ Len(issues[s]) = unheard[s] + 1
       /\ s \in store => \E r \in Request : of[r] = s /\ request[r] = "created"

CreatesFirst(s) ==
    \A r \in Request : of[r] = s /\ request[r] = "create" => Len(issues[s]) = unheard[s]

(* Text and title differ only between the setters of one request.           *)
TextAndTitle(s) ==
    /\ \A r \in Request : of[r] = s /\ request[r] = "title" => planning[s] = generated[r]
    /\ planning[s] = title[s] \/ \E r \in Request : of[r] = s /\ request[r] = "title"

Fits(s) == \A n \in DOMAIN issues[s] : issues[s][n][1] = issues[s][n][2]

SessionInv(s) == HeldOnce(s) /\ IssuedOnce(s) /\ CreatesFirst(s) /\ TextAndTitle(s)

(* A title that was given is that of the last refinement.                   *)
TitleInv(s) == custom[s] \in {0, title[s]} /\ Fits(s)

WizardInv ==
    /\ WizardTyped
    /\ \A s \in Session : s > made => Len(issues[s]) = unheard[s]
    /\ \A s \in Session : s \notin overlapped => SessionInv(s)
    /\ \A s \in Session : s \notin overlapped \cup retitled => TitleInv(s)

-----------------------------------------------------------------------------

LEMMA WizardStarts == ASSUME MaxIds \in Nat PROVE Init => WizardInv
<1> SUFFICES ASSUME Init PROVE WizardInv
  OBVIOUS
<1>1. WizardTyped
  BY DEF Init, WizardTyped, Session, Texts
<1>2. \A s \in Session : issues[s] = <<>> /\ Len(issues[s]) = unheard[s]
  BY DEF Init
<1>3. \A s \in Session : SessionInv(s)
  BY <1>2 DEF Init, SessionInv, HeldOnce, IssuedOnce, CreatesFirst, TextAndTitle, Session
<1>4. \A s \in Session : TitleInv(s)
  BY DEF Init, TitleInv, Fits
<1> QED
  BY <1>1, <1>2, <1>3, <1>4 DEF WizardInv

(* Only a title that is given changes custom, and only SetTitle the titles.   *)
LEMMA TitlesKept ==
    ASSUME WizardInv, UNCHANGED <<title, custom, issues>>,
           overlapped \subseteq overlapped', retitled \subseteq retitled'
    PROVE  \A s \in Session : s \notin (overlapped \cup retitled)' => TitleInv(s)'
  BY DEF WizardInv, TitleInv, Fits

(* The store alone: sessions come and go, no request moves.                 *)
LEMMA StoreKeeps ==
    ASSUME MaxIds \in Nat, WizardInv,
           Create \/ CleanupOldSessions \/ \E s \in Session : Cancel(s) \/ Age(s)
    PROVE  WizardInv'
<1>1. UNCHANGED <<planning, title, custom, requestVars, issues, watched, refines>>
  BY DEF Create, CleanupOldSessions, Cancel, Age, boundVars
<1>2. /\ made' \in 0..MaxIds /\ made' >= made /\ store' \subseteq 1..made'
      /\ \A s \in store' : s \in store \/ s > made
  <2>1. made \in 0..MaxIds /\ store \subseteq 1..made
    BY DEF WizardInv, WizardTyped
  <2>2. CASE Create
    BY <2>1, <2>2 DEF Create
  <2>3. CASE CleanupOldSessions \/ \E s \in Session : Cancel(s) \/ Age(s)
    <3>1. made' = made /\ store' \subseteq store
      BY <2>3 DEF CleanupOldSessions, Cancel, Age
    <3> QED
      BY <2>1, <3>1
  <2> QED
    BY <2>2, <2>3
<1>3. WizardTyped'
  BY <1>1, <1>2 DEF WizardInv, WizardTyped, requestVars, watched
<1>4. ASSUME NEW s \in Session, s \notin overlapped PROVE SessionInv(s)'
  <2>1. SessionInv(s) /\ s \in Nat /\ (s > made => Len(issues[s]) = unheard[s])
    BY <1>4 DEF WizardInv, Session
  <2>2. IssuedOnce(s)'
    BY <1>1, <1>2, <2>1, <1>4 DEF SessionInv, IssuedOnce, requestVars, watched
  <2> QED
    BY <1>1, <2>1, <2>2
    DEF SessionInv, HeldOnce, CreatesFirst, TextAndTitle, requestVars, watched
<1>5. \A s \in Session : s > made' => Len(issues'[s]) = unheard'[s]
  <2>1. made \in Nat /\ made' \in Nat
    BY <1>2 DEF WizardInv, WizardTyped
  <2> QED
    BY <1>1, <1>2, <2>1 DEF WizardInv, Session, watched
<1>6. \A s \in Session : s \notin (overlapped \cup retitled)' => TitleInv(s)'
  BY <1>1, TitlesKept DEF watched
<1> QED
  BY <1>1, <1>3, <1>4, <1>5, <1>6 DEF WizardInv, watched

(* A request takes a session, to refine it or to make its issue.            *)
LEMMA TakeKeeps ==
    ASSUME MaxIds \in Nat, WizardInv, NEW r \in Request, NEW t \in Session,
           Refine(r, t) \/ CreateFromSession(r, t)
    PROVE  WizardInv'
<1>1. PICK place \in {"llm", "create"} : Take(r, t, place)
  BY DEF Refine, CreateFromSession
<1>2. /\ UNCHANGED <<store, made, planning, title, generated, issues, unheard, retitled, refines>>
      /\ custom' \in {custom, [custom EXCEPT ![t] = GetFinalTitle(t)]}
  BY DEF Refine, CreateFromSession, boundVars
<1>3. /\ of' = [of EXCEPT ![r] = t] /\ request' = [request EXCEPT ![r] = place]
      /\ request[r] = "idle" /\ of[r] = 0 /\ t \in store /\ t \in 1..made /\ t # 0
      /\ overlapped \subseteq overlapped' /\ (Held(t) => t \in overlapped')
  BY <1>1 DEF Take, WizardInv, WizardTyped, Session
<1>4. WizardTyped'
  <2>1. custom' \in [Session -> Nat]
    BY <1>2 DEF WizardInv, WizardTyped, GetFinalTitle
  <2> QED
    BY <1>2, <1>3, <2>1 DEF WizardInv, WizardTyped
<1>5. ASSUME NEW s \in Session, s \notin overlapped' PROVE SessionInv(s)'
  <2>1. SessionInv(s) /\ s # 0
    BY <1>3, <1>5 DEF WizardInv, Session
  <2>2. HeldOnce(s)'
    BY <1>3, <1>4, <1>5, <2>1 DEF SessionInv, HeldOnce, Held, WizardInv, WizardTyped
  <2>3. ~Held(s) \/ s # t
    BY <1>3, <1>5
  <2>4. IssuedOnce(s)'
    BY <1>2, <1>3, <2>1, <2>3 DEF SessionInv, IssuedOnce, WizardInv, WizardTyped
  <2>5. s = t => Len(issues[s]) = unheard[s]
    BY <1>3, <2>1, <2>3 DEF SessionInv, IssuedOnce, Held
  <2>6. CreatesFirst(s)'
    BY <1>2, <1>3, <2>1, <2>5 DEF SessionInv, CreatesFirst, WizardInv, WizardTyped
  <2>7. TextAndTitle(s)'
    BY <1>2, <1>3, <2>1 DEF SessionInv, TextAndTitle, WizardInv, WizardTyped
  <2> QED
    BY <2>2, <2>4, <2>6, <2>7 DEF SessionInv
<1>6. ASSUME NEW s \in Session, s \notin (overlapped \cup retitled)' PROVE TitleInv(s)'
  <2>1. TitleInv(s)
    BY <1>2, <1>3, <1>6 DEF WizardInv
  <2> QED
    BY <1>2, <2>1 DEF TitleInv, Fits, GetFinalTitle, WizardInv, WizardTyped
<1> QED
  BY <1>2, <1>4, <1>5, <1>6 DEF WizardInv

(* A request gives its session up, or goes on, without another issue.       *)
LEMMA RefineKeeps ==
    ASSUME MaxIds \in Nat, WizardInv, NEW r \in Request,
           RefineFails(r) \/ LLMAnswers(r) \/ SetPlanning(r) \/ SetTitle(r) \/ CreateIssueFails(r)
    PROVE  WizardInv'
<1> DEFINE t == of[r]
<1>1. UNCHANGED <<store, made, custom, issues, unheard, overlapped>> /\ retitled \subseteq retitled'
  <2>1. CASE SetTitle(r)
    BY <2>1 DEF SetTitle
  <2>2. CASE ~SetTitle(r)
    BY <2>2 DEF RefineFails, LLMAnswers, SetPlanning, CreateIssueFails, sessionVars, watched
  <2> QED
    BY <2>1, <2>2
<1>2. t \in Session /\ request[r] \in {"llm", "planning", "title", "create"}
  <2>1. request[r] \in {"llm", "planning", "title", "create"}
    BY DEF RefineFails, LLMAnswers, SetPlanning, SetTitle, CreateIssueFails
  <2> QED
    BY <2>1 DEF WizardInv, WizardTyped, Session
<1>3. WizardTyped'
  <2>1. CASE RefineFails(r) \/ CreateIssueFails(r)
    <3>1. /\ request' = [request EXCEPT ![r] = "idle"] /\ of' = [of EXCEPT ![r] = 0]
          /\ generated' = [generated EXCEPT ![r] = 0]
          /\ UNCHANGED <<store, made, planning, title, custom, issues, unheard, refines>>
      BY <2>1 DEF RefineFails, CreateIssueFails, Return, sessionVars, watched
    <3>2. \A q \in Request : request'[q] = "idle" <=> of'[q] = 0
      BY <3>1 DEF WizardInv, WizardTyped
    <3>3. of' \in [Request -> 0..made']
      BY <3>1 DEF WizardInv, WizardTyped
    <3> QED
      BY <3>1, <3>2, <3>3 DEF WizardInv, WizardTyped
  <2>2. CASE LLMAnswers(r)
    BY <2>2, <1>1, <1>2 DEF WizardInv, WizardTyped, LLMAnswers, sessionVars
  <2>3. CASE SetPlanning(r)
    BY <2>3, <1>1, <1>2 DEF WizardInv, WizardTyped, SetPlanning, boundVars
  <2>4. CASE SetTitle(r)
    BY <2>4, <1>1, <1>2 DEF WizardInv, WizardTyped, SetTitle, Return, NewTitle, boundVars
  <2> QED
    BY <2>1, <2>2, <2>3, <2>4
<1>4. /\ \A q \in Request \ {r} : of'[q] = of[q] /\ request'[q] = request[q] /\ generated'[q] = generated[q]
      /\ of'[r] \in {0, t} /\ request'[r] \notin {"create", "created"}
      /\ request[r] # "created"
  BY <1>2 DEF WizardInv, WizardTyped, RefineFails, LLMAnswers, SetPlanning, SetTitle, CreateIssueFails, Return
<1>5. \A s \in Session \ {t} : planning'[s] = planning[s] /\ title'[s] = title[s]
  BY <1>2 DEF WizardInv, WizardTyped, RefineFails, LLMAnswers, SetPlanning, SetTitle, CreateIssueFails,
     NewTitle, sessionVars
<1>6. ASSUME NEW s \in Session, s \notin overlapped PROVE SessionInv(s)'
  <2>1. SessionInv(s) /\ s # 0
    BY <1>6 DEF WizardInv, Session
  <2>2. HeldOnce(s)'
    BY <1>4, <2>1 DEF SessionInv, HeldOnce
  <2>3. IssuedOnce(s)'
    <3>1. ASSUME NEW q \in Request, of[q] = s, request[q] = "created"
          PROVE  of'[q] = s /\ request'[q] = "created"
      BY <1>4, <3>1
    <3> QED
      BY <1>1, <2>1, <3>1 DEF SessionInv, IssuedOnce
  <2>4. CreatesFirst(s)'
    BY <1>1, <1>4, <2>1 DEF SessionInv, CreatesFirst
  <2>5. TextAndTitle(s)'
    <3>1. CASE s # t
      BY <3>1, <1>4, <1>5, <2>1 DEF SessionInv, TextAndTitle
    <3>2. CASE s = t
      <4>1. \A q \in Request : of[q] = s => q = r
        BY <3>2, <2>1 DEF SessionInv, HeldOnce
      <4>2. /\ request[r] = "title" => planning[s] = generated[r]
            /\ planning[s] = title[s] \/ request[r] = "title"
        BY <3>2, <4>1, <2>1 DEF SessionInv, TextAndTitle
      <4>3. \A q \in Request : of'[q] = s => q = r
        BY <4>1, <1>4
      <4>4. CASE RefineFails(r) \/ CreateIssueFails(r) \/ LLMAnswers(r)
        <5>1. planning'[s] = title'[s] /\ request'[r] # "title"
          BY <4>2, <4>4, <1>2 DEF RefineFails, CreateIssueFails, LLMAnswers, Return, sessionVars,
             WizardInv, WizardTyped
        <5> QED
          BY <4>3, <5>1 DEF TextAndTitle
      <4>5. CASE SetPlanning(r)
        <5>1. /\ of'[r] = s /\ request'[r] = "title" /\ planning'[s] = generated'[r]
          BY <3>2, <4>5, <1>2 DEF SetPlanning, WizardInv, WizardTyped
        <5> QED
          BY <4>3, <5>1 DEF TextAndTitle
      <4>6. CASE SetTitle(r)
        <5>1. planning'[s] = title'[s] /\ request'[r] # "title"
          BY <3>2, <4>2, <4>6, <1>2 DEF SetTitle, NewTitle, Return, WizardInv, WizardTyped
        <5> QED
          BY <4>3, <5>1 DEF TextAndTitle
      <4> QED
        BY <4>4, <4>5, <4>6
    <3> QED
      BY <3>1, <3>2
  <2> QED
    BY <2>2, <2>3, <2>4, <2>5 DEF SessionInv
<1>7. ASSUME NEW s \in Session, s \notin (overlapped \cup retitled)' PROVE TitleInv(s)'
  <2>1. TitleInv(s)
    BY <1>1, <1>7 DEF WizardInv
  <2>2. title'[s] = title[s] \/ custom[s] = 0
    BY <1>2, <1>5, <1>7 DEF RefineFails, LLMAnswers, SetPlanning, SetTitle, CreateIssueFails, sessionVars
  <2> QED
    BY <1>1, <2>1, <2>2 DEF TitleInv, Fits
<1> QED
  BY <1>1, <1>3, <1>6, <1>7 DEF WizardInv

(* What GitHub is asked to make is of one text.                             *)
LEMMA NewIssueFits ==
    ASSUME MaxIds \in Nat, WizardInv, NEW r \in Request, NewIssue(r), request[r] = "create",
           UNCHANGED <<title, custom>>, UNCHANGED <<overlapped, retitled>>
    PROVE  /\ of[r] \in Session /\ of[r] \in 1..made
           /\ issues' \in [Session -> Seq(Texts)]
           /\ \A s \in Session : IF s = of[r] THEN Len(issues'[s]) = Len(issues[s]) + 1 ELSE issues'[s] = issues[s]
           /\ \A s \in Session : s \notin (overlapped \cup retitled)' => TitleInv(s)'
<1> DEFINE t == of[r]
<1> DEFINE new == <<planning[t], GetFinalTitle(t)>>
<1>1. t \in Session /\ t \in 1..made /\ new \in Texts /\ issues[t] \in Seq(Texts)
  <2>1. t \in Session /\ t \in 1..made
    BY DEF WizardInv, WizardTyped, Session
  <2>2. planning[t] \in Nat /\ GetFinalTitle(t) \in Nat /\ issues[t] \in Seq(Texts)
    BY <2>1 DEF WizardInv, WizardTyped, GetFinalTitle
  <2> QED
    BY <2>1, <2>2 DEF Texts
<1>2. issues' = [issues EXCEPT ![t] = Append(issues[t], new)]
  BY DEF NewIssue
<1> HIDE DEF new
<1>3. /\ Append(issues[t], new) \in Seq(Texts)
      /\ Len(Append(issues[t], new)) = Len(issues[t]) + 1
      /\ \A n \in 1..Len(issues[t]) : Append(issues[t], new)[n] = issues[t][n]
      /\ Append(issues[t], new)[Len(issues[t]) + 1] = new
  BY <1>1, AppendProperties
<1>4. issues' \in [Session -> Seq(Texts)]
  BY <1>1, <1>2, <1>3 DEF WizardInv, WizardTyped
<1>5. \A s \in Session : issues'[s] = IF s = t THEN Append(issues[t], new) ELSE issues[s]
  BY <1>2 DEF WizardInv, WizardTyped
<1>6. \A s \in Session : Len(issues[s]) \in Nat
  BY DEF WizardInv, WizardTyped
<1>7. \A s \in Session : IF s = t THEN Len(issues'[s]) = Len(issues[s]) + 1 ELSE issues'[s] = issues[s]
  BY <1>3, <1>5, <1>6
<1>8. /\ \A s \in Session : DOMAIN issues[s] = 1..Len(issues[s])
      /\ DOMAIN Append(issues[t], new) = 1..Len(Append(issues[t], new))
  BY <1>3 DEF WizardInv, WizardTyped
<1>9. ASSUME NEW s \in Session, s \notin (overlapped \cup retitled)' PROVE TitleInv(s)'
  <2>1. TitleInv(s) /\ SessionInv(s)
    BY <1>9 DEF WizardInv
  <2>2. CASE s # t
    BY <1>5, <2>1, <2>2 DEF TitleInv, Fits
  <2>3. CASE s = t
    <3>1. planning[s] = title[s]
      BY <2>1, <2>3 DEF SessionInv, HeldOnce, TextAndTitle
    <3>2. new[1] = new[2]
      BY <2>1, <2>3, <3>1 DEF new, GetFinalTitle, TitleInv
    <3>3. \A n \in 1..Len(issues[s]) : issues[s][n][1] = issues[s][n][2]
      BY <1>6, <1>8, <2>1 DEF TitleInv, Fits
    <3>4. DOMAIN issues'[s] = 1..(Len(issues[s]) + 1)
      BY <1>1, <1>3, <1>5, <1>8, <2>3
    <3>5. ASSUME NEW n \in DOMAIN issues'[s] PROVE issues'[s][n][1] = issues'[s][n][2]
      <4>1. n \in 1..Len(issues[s]) \/ n = Len(issues[s]) + 1
        BY <1>6, <3>4
      <4>2. issues'[s] = Append(issues[t], new)
        BY <1>5, <2>3
      <4> QED
        BY <1>3, <2>3, <3>2, <3>3, <4>1, <4>2
    <3> QED
      BY <2>1, <3>5 DEF TitleInv, Fits
  <2> QED
    BY <2>2, <2>3
<1> QED
  BY <1>1, <1>4, <1>7, <1>9

LEMMA CreateIssueKeeps ==
    ASSUME MaxIds \in Nat, WizardInv, NEW r \in Request, CreateIssue(r)
    PROVE  WizardInv'
<1> DEFINE t == of[r]
<1>1. /\ UNCHANGED <<store, made, planning, title, custom, of, generated, unheard, overlapped, retitled, refines>>
      /\ request[r] = "create" /\ request' = [request EXCEPT ![r] = "created"] /\ NewIssue(r)
  BY DEF CreateIssue, sessionVars, boundVars, watched
<1>2. /\ t \in Session /\ t \in 1..made /\ issues' \in [Session -> Seq(Texts)]
      /\ \A s \in Session : IF s = t THEN Len(issues'[s]) = Len(issues[s]) + 1 ELSE issues'[s] = issues[s]
      /\ \A s \in Session : s \notin (overlapped \cup retitled)' => TitleInv(s)'
  BY <1>1, NewIssueFits
<1>3. \A s \in Session : Len(issues[s]) \in Nat /\ unheard[s] \in Nat
  BY DEF WizardInv, WizardTyped
<1>4. WizardTyped'
  BY <1>1, <1>2 DEF WizardInv, WizardTyped
<1>5. ASSUME NEW s \in Session, s \notin overlapped PROVE SessionInv(s)'
  <2>1. SessionInv(s)
    BY <1>5 DEF WizardInv
  <2>2. HeldOnce(s)' /\ TextAndTitle(s)'
    BY <1>1, <2>1 DEF SessionInv, HeldOnce, TextAndTitle, WizardInv, WizardTyped
  <2>3. CASE s # t
    <3>1. Len(issues'[s]) = Len(issues[s])
      BY <1>2, <1>3, <2>3
    <3>2. \A q \in Request : of[q] = s => q # r /\ request'[q] = request[q]
      BY <1>1, <2>3 DEF WizardInv, WizardTyped
    <3> QED
      BY <1>1, <2>1, <2>2, <3>1, <3>2 DEF SessionInv, IssuedOnce, CreatesFirst
  <2>4. CASE s = t
    <3>1. Len(issues[s]) = unheard[s] /\ (\A q \in Request : of[q] = s => q = r)
      BY <1>1, <2>1, <2>4 DEF SessionInv, CreatesFirst, HeldOnce
    <3>2. Len(issues'[s]) = unheard'[s] + 1
      BY <1>1, <1>2, <1>3, <2>4, <3>1
    <3>3. request'[r] = "created" /\ of'[r] = s
      BY <1>1, <2>4 DEF WizardInv, WizardTyped
    <3>4. IssuedOnce(s)'
      BY <3>2, <3>3 DEF IssuedOnce
    <3>5. CreatesFirst(s)'
      BY <1>1, <3>1, <3>3 DEF CreatesFirst
    <3> QED
      BY <2>2, <3>4, <3>5 DEF SessionInv
  <2> QED
    BY <2>3, <2>4
<1>6. \A s \in Session : s > made => Len(issues'[s]) = unheard'[s]
  <2>1. \A s \in Session : s > made => s # t
    BY <1>2 DEF WizardInv, WizardTyped, Session
  <2> QED
    BY <1>1, <1>2, <1>3, <2>1 DEF WizardInv
<1> QED
  BY <1>1, <1>2, <1>4, <1>5, <1>6 DEF WizardInv

(* With the answer lost the session stays, and one issue is unheard of.      *)
LEMMA LostKeeps ==
    ASSUME MaxIds \in Nat, WizardInv, NEW r \in Request, CreateIssueLost(r)
    PROVE  WizardInv'
<1> DEFINE t == of[r]
<1>1. /\ UNCHANGED <<store, made, planning, title, custom, overlapped, retitled, refines>>
      /\ request[r] = "create" /\ NewIssue(r) /\ unheard' = [unheard EXCEPT ![t] = @ + 1]
      /\ request' = [request EXCEPT ![r] = "idle"] /\ of' = [of EXCEPT ![r] = 0]
      /\ generated' = [generated EXCEPT ![r] = 0]
  BY DEF CreateIssueLost, Return, sessionVars
<1>2. /\ t \in Session /\ t \in 1..made /\ issues' \in [Session -> Seq(Texts)]
      /\ \A s \in Session : IF s = t THEN Len(issues'[s]) = Len(issues[s]) + 1 ELSE issues'[s] = issues[s]
      /\ \A s \in Session : s \notin (overlapped \cup retitled)' => TitleInv(s)'
  BY <1>1, NewIssueFits
<1>3. /\ \A s \in Session : Len(issues[s]) \in Nat /\ unheard[s] \in Nat
      /\ \A s \in Session : IF s = t THEN unheard'[s] = unheard[s] + 1 ELSE unheard'[s] = unheard[s]
  BY <1>1 DEF WizardInv, WizardTyped
<1>4. WizardTyped'
  <2>1. /\ request' \in [Request -> {"idle", "llm", "planning", "title", "create", "created"}]
        /\ of' \in [Request -> 0..made'] /\ generated' \in [Request -> Nat]
    BY <1>1 DEF WizardInv, WizardTyped
  <2>2. \A q \in Request : request'[q] = "idle" <=> of'[q] = 0
    BY <1>1 DEF WizardInv, WizardTyped
  <2>3. unheard' \in [Session -> Nat]
    BY <1>1, <1>2, <1>3 DEF WizardInv, WizardTyped
  <2> QED
    BY <1>1, <1>2, <2>1, <2>2, <2>3 DEF WizardInv, WizardTyped
<1>5. ASSUME NEW s \in Session
      PROVE  /\ Len(issues[s]) = unheard[s] => Len(issues'[s]) = unheard'[s]
             /\ Len(issues[s]) = unheard[s] + 1 => Len(issues'[s]) = unheard'[s] + 1
  BY <1>2, <1>3
<1>6. ASSUME NEW s \in Session, s \notin overlapped PROVE SessionInv(s)'
  <2>1. SessionInv(s) /\ s # 0
    BY <1>6 DEF WizardInv, Session
  <2>2. \A q \in Request : IF q = r THEN of'[q] = 0 /\ request'[q] = "idle"
                           ELSE of'[q] = of[q] /\ request'[q] = request[q] /\ generated'[q] = generated[q]
    BY <1>1 DEF WizardInv, WizardTyped
  <2>3. IssuedOnce(s)'
    BY <1>1, <1>5, <2>1, <2>2 DEF SessionInv, IssuedOnce
  <2>4. HeldOnce(s)' /\ CreatesFirst(s)'
    BY <1>5, <2>1, <2>2 DEF SessionInv, HeldOnce, CreatesFirst
  <2>5. TextAndTitle(s)'
    BY <1>1, <2>1, <2>2 DEF SessionInv, TextAndTitle
  <2> QED
    BY <2>3, <2>4, <2>5 DEF SessionInv
<1>7. \A s \in Session : s > made => Len(issues'[s]) = unheard'[s]
  BY <1>5 DEF WizardInv
<1> QED
  BY <1>1, <1>2, <1>4, <1>6, <1>7 DEF WizardInv

(* With its issue made the session goes, assigned to a sprint or not.       *)
LEMMA AssignKeeps ==
    ASSUME MaxIds \in Nat, WizardInv, NEW r \in Request, AssignAndDelete(r)
    PROVE  WizardInv'
<1> DEFINE t == of[r]
<1>1. /\ UNCHANGED <<made, planning, title, custom, issues, unheard, overlapped, retitled, refines>>
      /\ request[r] = "created" /\ store' = store \ {t}
      /\ request' = [request EXCEPT ![r] = "idle"] /\ of' = [of EXCEPT ![r] = 0]
      /\ generated' = [generated EXCEPT ![r] = 0]
  BY DEF AssignAndDelete, EndsSession, Return, watched
<1>2. t \in Session
  BY <1>1 DEF WizardInv, WizardTyped, Session
<1>3. WizardTyped'
  <2>1. /\ request' \in [Request -> {"idle", "llm", "planning", "title", "create", "created"}]
        /\ of' \in [Request -> 0..made'] /\ generated' \in [Request -> Nat]
    BY <1>1 DEF WizardInv, WizardTyped
  <2>2. \A q \in Request : request'[q] = "idle" <=> of'[q] = 0
    BY <1>1 DEF WizardInv, WizardTyped
  <2> QED
    BY <1>1, <2>1, <2>2 DEF WizardInv, WizardTyped
<1>4. ASSUME NEW s \in Session, s \notin overlapped PROVE SessionInv(s)'
  <2>1. SessionInv(s) /\ s # 0
    BY <1>4 DEF WizardInv, Session
  <2>2. \A q \in Request : IF q = r THEN of'[q] = 0 /\ request'[q] = "idle"
                           ELSE of'[q] = of[q] /\ request'[q] = request[q] /\ generated'[q] = generated[q]
    BY <1>1 DEF WizardInv, WizardTyped
  <2>3. IssuedOnce(s)'
    BY <1>1, <2>1, <2>2 DEF SessionInv, IssuedOnce
  <2>4. HeldOnce(s)' /\ CreatesFirst(s)'
    BY <1>1, <2>1, <2>2 DEF SessionInv, HeldOnce, CreatesFirst
  <2>5. TextAndTitle(s)'
    BY <1>1, <2>1, <2>2 DEF SessionInv, TextAndTitle
  <2> QED
    BY <2>3, <2>4, <2>5 DEF SessionInv
<1>5. \A s \in Session : s \notin (overlapped \cup retitled)' => TitleInv(s)'
  BY <1>1, TitlesKept
<1> QED
  BY <1>1, <1>3, <1>4, <1>5 DEF WizardInv

LEMMA WizardStep == ASSUME MaxIds \in Nat PROVE WizardInv /\ [Next]_vars => WizardInv'
<1> SUFFICES ASSUME WizardInv, [Next]_vars PROVE WizardInv'
  OBVIOUS
<1>1. CASE UNCHANGED vars
  <2>1. /\ UNCHANGED <<store, made, planning, title, custom, request, of, generated, issues>>
        /\ UNCHANGED <<unheard, overlapped, retitled, refines>>
    BY <1>1 DEF vars, sessionVars, requestVars, boundVars, watched
  <2>2. WizardTyped'
    BY <2>1 DEF WizardInv, WizardTyped
  <2>3. \A s \in Session : (SessionInv(s) => SessionInv(s)') /\ (TitleInv(s) => TitleInv(s)')
    BY <2>1 DEF SessionInv, HeldOnce, IssuedOnce, CreatesFirst, TextAndTitle, TitleInv, Fits
  <2> QED
    BY <2>1, <2>2, <2>3 DEF WizardInv
<1>2. CASE Next
  BY <1>2, StoreKeeps, TakeKeeps, RefineKeeps, CreateIssueKeeps, LostKeeps, AssignKeeps
  DEF Next, RefineRequest, CreateRequest
<1> QED
  BY <1>1, <1>2

\* However often creating is tried, and whatever fails, expires or is cancelled
\* meanwhile, a session held by one request at a time becomes at most one issue
\* more than its requests did not hear of.
THEOREM SessionBecomesOneIssue == ASSUME MaxIds \in Nat PROVE Spec => []OneIssue
<1>1. ASSUME WizardInv, NEW s \in Session, s \notin overlapped PROVE Len(issues[s]) <= 1 + unheard[s]
  <2>1. Len(issues[s]) \in Nat /\ unheard[s] \in Nat
    BY <1>1 DEF WizardInv, WizardTyped
  <2>2. Len(issues[s]) = unheard[s] \/ Len(issues[s]) = unheard[s] + 1
    BY <1>1 DEF WizardInv, SessionInv, IssuedOnce
  <2> QED
    BY <2>1, <2>2
<1>2. WizardInv => OneIssue
  BY <1>1 DEF OneIssue
<1> QED
  BY <1>2, WizardStarts, WizardStep, PTL DEF Spec

\* Title and text of an issue come from one refinement, unless two requests held
\* the session at a time, or it was refined again after a title had been given.
THEOREM IssueIsOfOneText == ASSUME MaxIds \in Nat PROVE Spec => []TitleFitsText
<1>1. WizardInv => TitleFitsText
  BY DEF WizardInv, TitleFitsText, TitleInv, Fits
<1> QED
  BY <1>1, WizardStarts, WizardStep, PTL DEF Spec
=============================================================================
