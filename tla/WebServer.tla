------------------------------ MODULE WebServer ------------------------------
(***************************************************************************)
(* The supervisor of the opencode web interface: Start and Stop, called by  *)
(* main, and the monitor that checks the process and replaces it, with the   *)
(* mutex between them.                                                      *)
(*                                                                          *)
(* A process nobody has waited for still answers signal 0, so one that has   *)
(* exited ("exited") counts as running until stopProcess reaps it ("gone").  *)
(***************************************************************************)
EXTENDS Naturals

CONSTANTS
    MaxRestarts,   \* maxRestartAttempts: 5
    MaxStarts,     \* bound: processes started
    MaxFailures    \* bound: processes that hang or exit, or do not start

VARIABLES
    mu,            \* who holds the mutex
    process,       \* what has become of each process
    cmd,           \* the process w.cmd stands for; 0 is none
    restartCount,
    main,          \* where main is: Start, serving, Stop
    monitor,       \* where the monitor goroutine is
    failures       \* bound

vars == <<mu, process, cmd, restartCount, main, monitor, failures>>

Started == {p \in 1..MaxStarts : process[p] # "new"}

Init ==
    /\ mu = "free" /\ process = [p \in 1..MaxStarts |-> "new"] /\ cmd = 0
    /\ restartCount = 0 /\ main = "new" /\ monitor = "none" /\ failures = 0

Lock(who)   == mu = "free" /\ mu' = who
Unlock(who) == mu = who /\ mu' = "free"

Fail == failures < MaxFailures /\ failures' = failures + 1

-----------------------------------------------------------------------------
(* startProcess, stopProcess, Check.                                       *)

\* The process starts, whatever becomes of it.
startProcess ==
    \E p \in 1..MaxStarts :
        /\ p \notin Started /\ \A q \in 1..MaxStarts : q < p => q \in Started
        /\ process' = [process EXCEPT ![p] = "serving"] /\ cmd' = p

\* The command is not found, or fork fails: cmd has no Process.
startFails == cmd' = 0 /\ Fail /\ UNCHANGED process

\* SIGTERM, then after five seconds SIGKILL; Wait reaps it.  One that exits just
\* before the kill makes Kill fail, and cmd is kept.
stopProcess ==
    /\ cmd # 0 /\ process' = [process EXCEPT ![cmd] = "gone"]
    /\ cmd' \in {0, cmd}

isProcessRunning == cmd # 0 /\ process[cmd] # "gone"

Serving == cmd # 0 /\ process[cmd] = "serving"

\* Faulty: a process that runs is taken to be well.
HealthyIfRunning == isProcessRunning

\* Check asks over HTTP.
Healthy == isProcessRunning /\ Serving

-----------------------------------------------------------------------------
(* main: Start and, after a signal, Stop, whether Start succeeded or not.  *)

Start ==
    /\ main = "new" /\ mu = "free" /\ main' = "serving"
    /\ \/ startProcess /\ monitor' = "select" /\ UNCHANGED failures
       \/ startFails /\ UNCHANGED monitor
    /\ UNCHANGED <<mu, restartCount>>

\* Stop takes the mutex and closes stopCh ...
BeginStop ==
    /\ main = "serving" /\ Lock("main") /\ main' = "stopping"
    /\ UNCHANGED <<process, cmd, restartCount, monitor, failures>>

\* ... stops the process ...
StopTheProcess ==
    /\ main = "stopping" /\ main' = "waiting"
    /\ IF cmd = 0 THEN UNCHANGED <<process, cmd>> ELSE stopProcess
    /\ UNCHANGED <<mu, restartCount, monitor, failures>>

\* ... and waits for the monitor, still holding the mutex.
EndStop ==
    /\ main = "waiting" /\ monitor \in {"none", "ended"}
    /\ Unlock("main") /\ main' = "stopped"
    /\ UNCHANGED <<process, cmd, restartCount, monitor, failures>>

Stopping == main \in {"stopping", "waiting", "stopped"}

-----------------------------------------------------------------------------
(* monitor, checkAndRestartIfNeeded.                                       *)

StopSeen ==
    /\ monitor = "select" /\ Stopping /\ monitor' = "ended"
    /\ UNCHANGED <<mu, process, cmd, restartCount, main, failures>>

\* A tick; select may take it when stopCh is closed as well.
Tick ==
    /\ monitor = "select" /\ monitor' = "lock"
    /\ UNCHANGED <<mu, process, cmd, restartCount, main, failures>>

\* The check, under the mutex.
CheckHealth ==
    /\ monitor = "lock" /\ mu = "free"
    /\ \/ Healthy /\ restartCount' = 0 /\ monitor' = "select"
       \/ ~Healthy /\ restartCount >= MaxRestarts /\ monitor' = "select" /\ UNCHANGED restartCount
       \/ ~Healthy /\ restartCount < MaxRestarts /\ monitor' = "sleep" /\ restartCount' = restartCount + 1
    /\ UNCHANGED <<mu, process, cmd, main, failures>>

\* The delay is over: it takes the mutex again, gives up if Stop was called, and
\* otherwise stops the old process first.
EndSleep ==
    /\ monitor = "sleep" /\ Lock("monitor")
    /\ IF Stopping THEN monitor' = "unlock" ELSE monitor' = "stop"
    /\ UNCHANGED <<process, cmd, restartCount, main, failures>>

\* Faulty: the old process is left alone.
StopOldForgotten == UNCHANGED <<process, cmd>>

StopOld == IF cmd = 0 THEN UNCHANGED <<process, cmd>> ELSE stopProcess

StopBeforeRestart ==
    /\ monitor = "stop" /\ StopOld /\ monitor' = "start"
    /\ UNCHANGED <<mu, restartCount, main, failures>>

Restart ==
    /\ monitor = "start" /\ monitor' = "unlock"
    /\ \/ startProcess /\ UNCHANGED failures
       \/ startFails
    /\ UNCHANGED <<mu, restartCount, main>>

EndRestart ==
    /\ monitor = "unlock" /\ Unlock("monitor") /\ monitor' = "select"
    /\ UNCHANGED <<process, cmd, restartCount, main, failures>>

\* A process hangs or exits.
ProcessFails ==
    /\ cmd # 0 /\ process[cmd] = "serving" /\ Fail
    /\ process' = [process EXCEPT ![cmd] = "exited"]
    /\ UNCHANGED <<mu, cmd, restartCount, main, monitor>>

MainStep    == StopTheProcess \/ EndStop
MonitorStep == Tick \/ CheckHealth \/ EndSleep \/ StopBeforeRestart \/ Restart \/ EndRestart

Next == Start \/ BeginStop \/ MainStep \/ StopSeen \/ MonitorStep \/ ProcessFails

Spec == Init /\ [][Next]_vars

\* Goroutines are scheduled, and a closed channel is seen.
FairSpec == Spec /\ WF_vars(MainStep) /\ WF_vars(MonitorStep) /\ WF_vars(StopSeen)

-----------------------------------------------------------------------------
(* Properties.                                                             *)

\* No process is left behind: the one process that may still be there is the
\* one the supervisor knows, and none once Stop has returned.
\* (checkAndRestartIfNeeded, Stop)
NoneLeftBehind ==
    \A p \in Started : process[p] # "gone" => cmd = p /\ main # "stopped"

\* A process that has exited or hangs is replaced, unless main stops the server
\* or all attempts are used up.  (monitor, checkAndRestartIfNeeded)
IsReplaced ==
    (main = "serving" /\ monitor # "none" /\ ~Serving)
        ~> (Serving \/ main # "serving" \/ restartCount = MaxRestarts)

\* Stop returns.  (webserver.go, Stop: "Stop gracefully stops the web server
\* and health monitoring.")
StopReturns == main = "stopping" ~> main = "stopped"
=============================================================================
