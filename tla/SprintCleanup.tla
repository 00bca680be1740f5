---------------------------- MODULE SprintCleanup ----------------------------
(***************************************************************************)
(* oda sprint cleanup: a command of its own that looks for the branches of   *)
(* a sprint's merged tickets, asks the user, and removes them, in the       *)
(* repository the program works in.                                         *)
(*                                                                          *)
(* A branch is the number of its commits; those up to inMain are in the      *)
(* local default branch too.  Worktrees and temporary files are removed     *)
(* without a condition after the branches, and hold nothing tracked here.    *)
(***************************************************************************)
EXTENDS Naturals

CONSTANTS
    Merged,        \* tickets with a branch oda-<n>-...
    MaxCommits,    \* bound: commits on a branch
    MaxGitFaults,  \* bound: commands that fail
    MaxCleanups    \* bound: runs of the command

None == "none"

VARIABLES
    local,         \* tickets whose branch exists in the repository
    remote,        \* tickets whose branch exists at origin
    commits,       \* commits on each branch
    pushed,        \* those of them in its pull request
    inMain,        \* those of them in the local default branch
    pr,            \* "none", "open" or "merged"
    head,          \* the branch checked out
    command,       \* where the command is
    remaining,     \* tickets it has not dealt with in this phase
    plan,          \* what it knows of each branch
    dryRun,
    seen,          \* observation: commits the command saw on a branch
    lost,          \* observation: commits seen, and on no branch now
    gitFaults, cleanups   \* bounds

work    == <<commits, pushed, inMain, pr>>
bounds  == <<gitFaults, cleanups>>
vars == <<local, remote, work, head, command, remaining, plan, dryRun, seen, lost, bounds>>

Nobody == [t \in Merged |-> None]
Zeros  == [t \in Merged |-> 0]

Init ==
    /\ local = {} /\ remote = {} /\ commits = Zeros /\ pushed = Zeros /\ inMain = Zeros
    /\ pr = Nobody /\ head = "main"
    /\ command = "idle" /\ remaining = {} /\ plan = Nobody /\ dryRun = FALSE
    /\ seen = Zeros /\ lost = {} /\ gitFaults = 0 /\ cleanups = 0

Fault == gitFaults < MaxGitFaults /\ gitFaults' = gitFaults + 1

-----------------------------------------------------------------------------
(* The program works on branches meanwhile.                                *)

\* A branch that has been removed starts again from the default branch.
CreateBranch(t) ==
    /\ local' = local \cup {t} /\ head' = t
    /\ commits' = IF t \in local THEN commits ELSE [commits EXCEPT ![t] = inMain[t]]
    /\ pr' = IF pr[t] = "merged" THEN pr ELSE [pr EXCEPT ![t] = None]
    /\ UNCHANGED <<remote, pushed, inMain, command, remaining, plan, dryRun, seen, lost, bounds>>

Commit(t) ==
    /\ head = t /\ commits[t] < MaxCommits
    /\ commits' = [commits EXCEPT ![t] = @ + 1]
    /\ UNCHANGED <<local, remote, pushed, inMain, pr, head, command, remaining, plan, dryRun, seen, lost, bounds>>

Push(t) ==
    /\ head = t /\ commits[t] > inMain[t]
    /\ remote' = remote \cup {t} /\ pushed' = [pushed EXCEPT ![t] = commits[t]]
    /\ pr' = [pr EXCEPT ![t] = "open"]
    /\ UNCHANGED <<local, commits, inMain, head, command, remaining, plan, dryRun, seen, lost, bounds>>

\* pr merge --merge --delete-branch, then CheckoutDefault.
MergePR(t) ==
    /\ pr[t] = "open"
    /\ pr' = [pr EXCEPT ![t] = "merged"] /\ remote' = remote \ {t} /\ head' = "main"
    /\ UNCHANGED <<local, commits, pushed, inMain, command, remaining, plan, dryRun, seen, lost, bounds>>

\* Somebody brings the local default branch up to date.
Pull(t) ==
    /\ pr[t] = "merged" /\ inMain[t] < pushed[t]
    /\ inMain' = [inMain EXCEPT ![t] = pushed[t]]
    /\ UNCHANGED <<local, remote, commits, pushed, pr, head, command, remaining, plan, dryRun, seen, lost, bounds>>

-----------------------------------------------------------------------------
(* DetectArtifacts.                                                        *)

Begin ==
    /\ command = "idle" /\ cleanups < MaxCleanups /\ cleanups' = cleanups + 1
    /\ \E dry \in BOOLEAN : dryRun' = dry
    /\ command' = "detect" /\ plan' = Nobody
    /\ remaining' = {t \in Merged : pr[t] = "merged"}
    /\ UNCHANGED <<local, remote, work, head, seen, lost, gitFaults>>

NoBranch(t) ==
    /\ command = "detect" /\ t \in remaining /\ t \notin local
    /\ remaining' = remaining \ {t}
    /\ UNCHANGED <<local, remote, work, head, command, plan, dryRun, seen, lost, bounds>>

Unmerged(t) == commits[t] > inMain[t]

\* Faulty: it counts as merged.
UnmergedOnlyIfShown == FALSE

\* hasUnmergedChanges: a command that fails counts as unmerged.
UnmergedIfUnknown == TRUE

HasUnmerged(t) ==
    /\ command = "detect" /\ t \in remaining /\ t \in local /\ plan[t] = None
    /\ seen' = [seen EXCEPT ![t] = commits[t]]
    /\ \E unmerged \in BOOLEAN :
           /\ \/ unmerged = Unmerged(t) /\ UNCHANGED gitFaults
              \/ unmerged = UnmergedIfUnknown /\ Fault
           /\ plan' = [plan EXCEPT ![t] = IF unmerged THEN "keep" ELSE "merged"]
    /\ UNCHANGED <<local, remote, work, head, command, remaining, dryRun, lost, cleanups>>

\* hasOpenPR: a command that fails counts as no pull request.
HasOpenPR(t) ==
    /\ command = "detect" /\ t \in remaining /\ plan[t] # None
    /\ remaining' = remaining \ {t}
    /\ \E openPR \in BOOLEAN :
           /\ \/ openPR = (pr[t] = "open") /\ UNCHANGED gitFaults
              \/ ~openPR /\ Fault
           /\ plan' = [plan EXCEPT ![t] = IF @ = "merged" /\ ~openPR THEN "delete" ELSE "keep"]
    /\ UNCHANGED <<local, remote, work, head, command, dryRun, seen, lost, cleanups>>

Deletable == {t \in Merged : plan[t] = "delete"}

\* confirmCleanup asks first; --force and --dry-run do not.
Confirm ==
    /\ command = "detect" /\ remaining = {}
    /\ \/ command' = "local" /\ remaining' = Deletable
       \/ command' = "idle" /\ remaining' = {}
    /\ UNCHANGED <<local, remote, work, head, plan, dryRun, seen, lost, bounds>>

-----------------------------------------------------------------------------
(* Execute.                                                                *)

\* A dry run counts the branches and leaves them.
DryRun ==
    /\ command = "local" /\ dryRun /\ command' = "idle" /\ remaining' = {}
    /\ UNCHANGED <<local, remote, work, head, plan, dryRun, seen, lost, bounds>>

Loses(t) == seen[t] > inMain[t]

\* RemoveBranch, of a branch that need not be there any more: it switches to
\* the default branch and deletes with force.
RemoveBranch(t) ==
    /\ command = "local" /\ ~dryRun /\ t \in remaining
    /\ local' = local \ {t}
    /\ head' = IF t \in local THEN "main" ELSE head
    /\ lost' = IF t \in local /\ Loses(t) THEN lost \cup {t} ELSE lost
    /\ command' = "remote" /\ plan' = [plan EXCEPT ![t] = "remote"]
    /\ UNCHANGED <<remote, work, remaining, dryRun, seen, bounds>>

\* The remote branch of a merged pull request is mostly gone already, which
\* fails; the next branch is dealt with all the same.
DeleteRemoteBranch(t) ==
    /\ command = "remote" /\ plan[t] = "remote"
    /\ remote' = remote \ {t}
    /\ command' = "local" /\ remaining' = remaining \ {t} /\ plan' = [plan EXCEPT ![t] = "done"]
    /\ UNCHANGED <<local, work, head, dryRun, seen, lost, bounds>>

\* The checkout fails, or the deletion after it, or the push.
BranchFails(t) ==
    /\ \/ command = "local" /\ ~dryRun /\ t \in remaining
          /\ head' \in {head} \cup (IF t \in local THEN {"main"} ELSE {})
       \/ command = "remote" /\ plan[t] = "remote" /\ head' = head
    /\ Fault /\ command' = "local" /\ remaining' = remaining \ {t} /\ plan' = [plan EXCEPT ![t] = "done"]
    /\ UNCHANGED <<local, remote, work, dryRun, seen, lost, cleanups>>

End ==
    /\ command = "local" /\ remaining = {} /\ command' = "idle"
    /\ UNCHANGED <<local, remote, work, head, remaining, plan, dryRun, seen, lost, bounds>>

Next ==
    \/ Begin \/ Confirm \/ DryRun \/ End
    \/ \E t \in Merged :
        \/ CreateBranch(t) \/ Commit(t) \/ Push(t) \/ MergePR(t) \/ Pull(t)
        \/ NoBranch(t) \/ HasUnmerged(t) \/ HasOpenPR(t)
        \/ RemoveBranch(t) \/ DeleteRemoteBranch(t) \/ BranchFails(t)

Spec == Init /\ [][Next]_vars

-----------------------------------------------------------------------------
(* Commits the command found on a branch are never lost with it: they are in *)
(* the default branch by then, whatever failed and whatever happened between *)
(* the look and the deletion.                                               *)
SeenWorkSurvives == lost = {}
=============================================================================
