--------------------------- MODULE CleanupProofs ---------------------------
(***************************************************************************)
(* The clean-up after a sprint removes no branch with commits it saw and    *)
(* that are nowhere else, for any tickets, commits and failing commands.    *)
(***************************************************************************)
EXTENDS SprintCleanup, TLAPS

(* A branch the command goes on with was found merged, and the default      *)
(* branch only grows; what it removes, it goes on with.                     *)
CleanupInv ==
    /\ commits \in [Merged -> Nat] /\ pushed \in [Merged -> Nat]
    /\ inMain \in [Merged -> Nat] /\ seen \in [Merged -> Nat]
    /\ DOMAIN plan = Merged
    /\ \A t \in Merged : plan[t] \in {"merged", "delete", "remote"} => seen[t] <= inMain[t]
    /\ command \in {"local", "remote"} =>
           \A t \in remaining : t \in Merged /\ plan[t] \in {"delete", "remote"}
    /\ lost = {}

LEMMA CleanupInit == Init => CleanupInv
  BY DEF Init, CleanupInv, Zeros, Nobody, None

LEMMA WorkKeeps ==
    ASSUME CleanupInv, NEW t \in Merged,
           CreateBranch(t) \/ Commit(t) \/ Push(t) \/ MergePR(t) \/ Pull(t)
    PROVE  CleanupInv'
  <1>1. commits' \in [Merged -> Nat] /\ pushed' \in [Merged -> Nat]
    BY DEF CleanupInv, CreateBranch, Commit, Push, MergePR, Pull
  <1>2. inMain' \in [Merged -> Nat] /\ \A u \in Merged : inMain'[u] >= inMain[u]
    BY DEF CleanupInv, CreateBranch, Commit, Push, MergePR, Pull
  <1>3. UNCHANGED <<command, remaining, plan, seen, lost>>
    BY DEF CreateBranch, Commit, Push, MergePR, Pull
  <1> QED
    BY <1>1, <1>2, <1>3 DEF CleanupInv

LEMMA DetectKeeps ==
    ASSUME CleanupInv, NEW t \in Merged, NoBranch(t) \/ HasUnmerged(t) \/ HasOpenPR(t)
    PROVE  CleanupInv'
  <1>1. CASE NoBranch(t)
    BY <1>1 DEF CleanupInv, NoBranch, work
  <1>2. CASE HasUnmerged(t)
    <2>1. /\ seen' = [seen EXCEPT ![t] = commits[t]] /\ UNCHANGED <<work, command, remaining, lost>>
          /\ command = "detect" /\ plan[t] = None
      BY <1>2 DEF HasUnmerged
    <2>2. PICK unmerged \in BOOLEAN :
             /\ unmerged = Unmerged(t) \/ unmerged = TRUE
             /\ plan' = [plan EXCEPT ![t] = IF unmerged THEN "keep" ELSE "merged"]
      BY <1>2 DEF HasUnmerged, UnmergedIfUnknown
    <2>3. plan'[t] \in {"merged", "delete", "remote"} => commits[t] <= inMain[t]
      BY <2>2 DEF CleanupInv, Unmerged
    <2> QED
      BY <2>1, <2>2, <2>3 DEF CleanupInv, work
  <1>3. CASE HasOpenPR(t)
    <2>1. PICK p \in {"delete", "keep"} :
             plan' = [plan EXCEPT ![t] = p] /\ (p = "delete" => plan[t] = "merged")
      BY <1>3 DEF CleanupInv, HasOpenPR
    <2>2. UNCHANGED <<work, command, seen, lost>> /\ command = "detect"
      BY <1>3 DEF HasOpenPR
    <2> QED
      BY <2>1, <2>2 DEF CleanupInv, work
  <1> QED
    BY <1>1, <1>2, <1>3

LEMMA ExecuteKeeps ==
    ASSUME CleanupInv, NEW t \in Merged, RemoveBranch(t) \/ DeleteRemoteBranch(t) \/ BranchFails(t)
    PROVE  CleanupInv'
  <1>1. CASE RemoveBranch(t)
    <2>1. seen[t] <= inMain[t] /\ seen[t] \in Nat /\ inMain[t] \in Nat
      BY <1>1 DEF CleanupInv, RemoveBranch
    <2>2. lost' = lost
      BY <1>1, <2>1 DEF RemoveBranch, Loses
    <2> QED
      BY <1>1, <2>1, <2>2 DEF CleanupInv, RemoveBranch, work
  <1>2. CASE DeleteRemoteBranch(t)
    BY <1>2 DEF CleanupInv, DeleteRemoteBranch, work
  <1>3. CASE BranchFails(t)
    BY <1>3 DEF CleanupInv, BranchFails, work
  <1> QED
    BY <1>1, <1>2, <1>3

LEMMA CleanupStep == CleanupInv /\ [Next]_vars => CleanupInv'
<1> SUFFICES ASSUME CleanupInv, [Next]_vars PROVE CleanupInv'
  OBVIOUS
<1>1. CASE Begin
  BY <1>1 DEF CleanupInv, Begin, Nobody, None, work
<1>2. CASE Confirm
  BY <1>2 DEF CleanupInv, Confirm, Deletable, work
<1>3. CASE DryRun \/ End
  BY <1>3 DEF CleanupInv, DryRun, End, work
<1>4. CASE UNCHANGED vars
  BY <1>4 DEF CleanupInv, vars, work
<1> QED
  BY <1>1, <1>2, <1>3, <1>4, WorkKeeps, DetectKeeps, ExecuteKeeps DEF Next

\* Commits the command found on a branch are in the default branch by the time
\* it deletes the branch, whatever failed and whatever the program did meanwhile.
THEOREM SeenWorkIsKept == Spec => []SeenWorkSurvives
<1>1. CleanupInv => SeenWorkSurvives
  BY DEF CleanupInv, SeenWorkSurvives
<1> QED
  BY <1>1, CleanupInit, CleanupStep, PTL DEF Spec
=============================================================================
