-------------------------- MODULE WebServerProofs --------------------------
(***************************************************************************)
(* The supervisor leaves no process of the web interface behind, whatever   *)
(* the number of restarts and failures.                                     *)
(***************************************************************************)
EXTENDS WebServer, TLAPS

AllGone == \A p \in Started : process[p] = "gone"

(* Who is in the middle of something holds the mutex, so that Stop and a     *)
(* restart exclude each other; a restart starts a process only once the old  *)
(* one is gone, and nobody starts one after Stop has ended the last.         *)
WebInv ==
    /\ process \in [1..MaxStarts -> {"new", "serving", "exited", "gone"}]
    /\ cmd \in 0..MaxStarts
    /\ main = "new" => Started = {} /\ monitor = "none"
    /\ main \in {"stopping", "waiting"} => mu = "main"
    /\ monitor \in {"stop", "start", "unlock"} => mu = "monitor"
    /\ main = "stopped" => monitor \in {"none", "ended"}
    /\ monitor = "start" => AllGone
    /\ main \in {"waiting", "stopped"} => AllGone
    /\ \A p \in Started : process[p] # "gone" => cmd = p

LEMMA WebInit == ASSUME MaxStarts \in Nat PROVE Init => WebInv
  BY DEF Init, WebInv, Started, AllGone

(* Stopping the known process leaves none.                                  *)
LEMMA StopLeavesNone ==
    ASSUME MaxStarts \in Nat, WebInv, IF cmd = 0 THEN UNCHANGED <<process, cmd>> ELSE stopProcess
    PROVE  /\ process' \in [1..MaxStarts -> {"new", "serving", "exited", "gone"}]
           /\ cmd' \in 0..MaxStarts /\ AllGone'
  <1>1. CASE cmd = 0
    BY <1>1 DEF WebInv, Started, AllGone
  <1>2. CASE cmd # 0
    BY <1>2 DEF WebInv, stopProcess, Started, AllGone
  <1> QED
    BY <1>1, <1>2

(* A process started when all others are gone is the one that is known.     *)
LEMMA StartsOne ==
    ASSUME MaxStarts \in Nat, WebInv, AllGone, startProcess
    PROVE  /\ process' \in [1..MaxStarts -> {"new", "serving", "exited", "gone"}]
           /\ cmd' \in 0..MaxStarts /\ \A p \in Started' : process'[p] # "gone" => cmd' = p
  BY DEF WebInv, startProcess, Started, AllGone

LEMMA WebStep == ASSUME MaxStarts \in Nat PROVE WebInv /\ [Next]_vars => WebInv'
<1> SUFFICES ASSUME WebInv, [Next]_vars PROVE WebInv'
  OBVIOUS
<1>1. CASE Start
  <2>1. AllGone
    BY <1>1 DEF WebInv, Start, AllGone
  <2>2. CASE startProcess
    BY <1>1, <2>1, <2>2, StartsOne DEF WebInv, Start
  <2>3. CASE startFails
    BY <1>1, <2>1, <2>3 DEF WebInv, Start, startFails, Started, AllGone
  <2> QED
    BY <1>1, <2>2, <2>3 DEF Start
<1>2. CASE BeginStop
  BY <1>2 DEF WebInv, BeginStop, Lock, Started, AllGone
<1>3. CASE StopTheProcess
  BY <1>3, StopLeavesNone DEF WebInv, StopTheProcess, AllGone
<1>4. CASE EndStop
  BY <1>4 DEF WebInv, EndStop, Unlock, Started, AllGone
<1>5. CASE StopSeen \/ Tick \/ CheckHealth
  BY <1>5 DEF WebInv, StopSeen, Tick, CheckHealth, Stopping, Started, AllGone
<1>6. CASE EndSleep
  BY <1>6 DEF WebInv, EndSleep, Lock, Stopping, Started, AllGone
<1>7. CASE StopBeforeRestart
  BY <1>7, StopLeavesNone DEF WebInv, StopBeforeRestart, StopOld, AllGone
<1>8. CASE Restart
  <2>1. AllGone /\ monitor = "start" /\ mu = "monitor" /\ monitor' = "unlock"
    BY <1>8 DEF WebInv, Restart
  <2>2. CASE startProcess
    BY <1>8, <2>1, <2>2, StartsOne DEF WebInv, Restart
  <2>3. CASE startFails
    BY <1>8, <2>1, <2>3 DEF WebInv, Restart, startFails, Started, AllGone
  <2> QED
    BY <1>8, <2>2, <2>3 DEF Restart
<1>9. CASE EndRestart
  BY <1>9 DEF WebInv, EndRestart, Unlock, Started, AllGone
<1>10. CASE ProcessFails
  BY <1>10 DEF WebInv, ProcessFails, Started, AllGone
<1>11. CASE UNCHANGED vars
  BY <1>11 DEF WebInv, vars, Started, AllGone
<1> QED
  BY <1>1, <1>2, <1>3, <1>4, <1>5, <1>6, <1>7, <1>8, <1>9, <1>10, <1>11
  DEF Next, MainStep, MonitorStep

\* The one process that may still be there is the one the supervisor knows, and
\* none once Stop has returned, for any number of starts, hangs and exits.
THEOREM NoProcessLeftBehind == ASSUME MaxStarts \in Nat PROVE Spec => []NoneLeftBehind
<1>1. WebInv => NoneLeftBehind
  BY DEF WebInv, NoneLeftBehind, AllGone
<1>2. Init => WebInv
  BY WebInit
<1>3. WebInv /\ [Next]_vars => WebInv'
  BY WebStep
<1> QED
  BY <1>1, <1>2, <1>3, PTL DEF Spec
=============================================================================
