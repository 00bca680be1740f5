------------------------------ MODULE LogStream ------------------------------
(***************************************************************************)
(* The log stream manager: the orchestrator starts and stops the monitoring *)
(* of the ticket it works on, the worker's step loggers write files, and the *)
(* monitor goroutine polls them and broadcasts what is new.                 *)
(*                                                                          *)
(* A file is its text and its modification time, which need not move between *)
(* two writes.  The text is pieces, each what one write adds: a "line", a     *)
(* "part" of one (what the LLM streams ends no line), the "end" line (STEP    *)
(* END:), which lines may follow, or "long", more than the scanner's buffer   *)
(* holds.  A file name tells its ticket apart.                               *)
(***************************************************************************)
EXTENDS Naturals, Sequences

CONSTANTS
    Ticket,
    MaxFiles,   \* bound: log files of a ticket
    MaxPieces,  \* bound: pieces of a file
    MaxTickets  \* bound: times a ticket is worked on

File == Ticket \X (1..MaxFiles)

Unread == [offset |-> 0, complete |-> FALSE, modTime |-> 0]

VARIABLES
    file,         \* each file: closed, open or at its end; its text and its time
    logDir,       \* the monitored ticket; 0 is none
    fileState,    \* fileStates
    stopped,      \* stopCh is closed
    orchestrator, \* where the orchestrator is
    monitor,      \* where the monitor goroutine is
    polled, todo, \* the ticket it polls, the files left
    stat,         \* the time Stat gave for the file it reads
    reached,      \* how far it has read that file
    sent,         \* how many pieces of each file were broadcast in this monitoring
    disordered,   \* the files of which a piece came again, or out of order
    unseen,       \* files written to last within the tick that is remembered of
                  \* them, and not read since
    worked        \* bound

vars == <<file, logDir, fileState, stopped, orchestrator, monitor, polled, todo, stat, reached,
          sent, disordered, unseen, worked>>

fileVars    == <<file, unseen, worked>>
managerVars == <<logDir, stopped, orchestrator>>
monitorVars == <<monitor, polled, todo, stat, reached>>
sentVars    == <<sent, disordered>>

Init ==
    /\ file = [f \in File |-> [state |-> "closed", text |-> <<>>, modTime |-> 0]]
    /\ logDir = 0 /\ fileState = [f \in File |-> Unread] /\ stopped = FALSE
    /\ orchestrator = "idle"
    /\ monitor = "none" /\ polled = 0 /\ todo = {} /\ stat = 0 /\ reached = 0
    /\ sent = [f \in File |-> 0] /\ disordered = {} /\ unseen = {} /\ worked = 0

-----------------------------------------------------------------------------
(* The orchestrator: StartMonitoring, Process, StopMonitoring.             *)

StartMonitoring(t) ==
    /\ orchestrator = "idle" /\ worked < MaxTickets /\ worked' = worked + 1
    /\ orchestrator' = "processing" /\ logDir' = t /\ stopped' = FALSE
    /\ fileState' = [f \in File |-> Unread]
    /\ sent' = [f \in File |-> 0] /\ disordered' = {} /\ unseen' = {}
    /\ monitor' = "select"
    /\ UNCHANGED <<file, polled, todo, stat, reached>>

\* StopMonitoring closes stopCh ...
BeginStop ==
    /\ orchestrator = "processing" /\ \A f \in File : file[f].state = "closed"
    /\ orchestrator' = "stopping" /\ logDir' = 0 /\ stopped' = TRUE
    /\ UNCHANGED <<fileVars, fileState, monitorVars, sentVars>>

\* Faulty: it does not wait.
MonitorLeft == TRUE

MonitorGone == monitor = "ended"

\* ... and waits for the monitor.
EndStop ==
    /\ orchestrator = "stopping" /\ MonitorGone
    /\ orchestrator' = "idle"
    /\ UNCHANGED <<fileVars, logDir, fileState, stopped, monitorVars, sentVars>>

-----------------------------------------------------------------------------
(* The worker's step loggers, one at a time: Start, Logf, Write, End, Close. *)

Exists(f) == file[f].text # <<>>

\* The file whose time the monitor has, but has not remembered yet.
First(fs) == CHOOSE f \in fs : \A g \in fs : f[2] <= g[2]

Remembered(f) ==
    {fileState[f].modTime} \cup (IF monitor = "remember" /\ f = First(todo) THEN {stat} ELSE {})

\* One write.  Several may come within one tick of the file system's clock.
Add(f, piece, state) ==
    \E t \in {file[f].modTime, file[f].modTime + 1} :
        /\ t > 0 /\ Len(file[f].text) < MaxPieces
        /\ file' = [file EXCEPT ![f] = [state |-> state, text |-> Append(@.text, piece), modTime |-> t]]
        /\ unseen' = IF t \in Remembered(f) THEN unseen \cup {f} ELSE unseen \ {f}

OpenLog(f) ==
    /\ orchestrator = "processing" /\ f[1] = logDir /\ ~Exists(f)
    /\ \A g \in File : file[g].state = "closed"
    /\ \A n \in 1..MaxFiles : n < f[2] => Exists(<<f[1], n>>)
    /\ Add(f, "line", "open")
    /\ UNCHANGED <<worked, managerVars, fileState, monitorVars, sentVars>>

\* A line, or what the LLM streams.
Logf(f, piece) ==
    /\ file[f].state = "open" /\ Add(f, piece, "open")
    /\ UNCHANGED <<worked, managerVars, fileState, monitorVars, sentVars>>

\* The end marker; status, duration and output follow it.
EndLog(f) ==
    /\ \/ file[f].state = "open" /\ Add(f, "end", "ended")
       \/ file[f].state = "ended" /\ Add(f, "line", "ended")
    /\ UNCHANGED <<worked, managerVars, fileState, monitorVars, sentVars>>

\* A step that gives up early only closes.
CloseLog(f) ==
    /\ file[f].state # "closed"
    /\ file' = [file EXCEPT ![f].state = "closed"]
    /\ UNCHANGED <<unseen, worked, managerVars, fileState, monitorVars, sentVars>>

-----------------------------------------------------------------------------
(* The monitor goroutine: monitor, poll, processFile.                      *)

\* A tick: the ticket to poll is copied, its files are listed.
Poll ==
    /\ monitor = "select"
    /\ polled' = logDir /\ todo' = {f \in File : f[1] = logDir /\ Exists(f)}
    /\ monitor' = "files"
    /\ UNCHANGED <<fileVars, managerVars, fileState, stat, reached, sentVars>>

Unchanged(f) == file[f].modTime = fileState[f].modTime /\ fileState[f].offset > 0

\* The next file, unless the context was cancelled; one that is complete or has
\* the time it had is passed over.
StatFile ==
    /\ monitor = "files" /\ todo # {} /\ ~stopped
    /\ LET f == First(todo)
       IN  IF fileState[f].complete \/ Unchanged(f)
           THEN todo' = todo \ {f} /\ UNCHANGED <<monitor, stat>>
           ELSE stat' = file[f].modTime /\ monitor' = "read" /\ UNCHANGED todo
    /\ UNCHANGED <<fileVars, managerVars, fileState, polled, reached, sentVars>>

\* The pieces the scanner has not read, and those at which it stops: the end
\* marker, and a line that is too long.
Rest(f) == fileState[f].offset + 1 .. Len(file[f].text)

Stops(f) == {n \in Rest(f) : file[f].text[n] \in {"end", "long"}}

Least(ns) == CHOOSE n \in ns : \A k \in ns : n <= k

TooLong(f) == Stops(f) # {} /\ file[f].text[Least(Stops(f))] = "long"

Ended(f) == Stops(f) # {} /\ file[f].text[Least(Stops(f))] = "end"

\* What is broadcast: up to the end marker, up to the line that is too long, or
\* all, a line nobody has finished yet included.
Scanned(f) ==
    IF Stops(f) = {} THEN Len(file[f].text)
    ELSE IF Ended(f) THEN Least(Stops(f))
    ELSE CHOOSE n \in fileState[f].offset .. Least(Stops(f)) - 1 :
             /\ n = fileState[f].offset \/ file[f].text[n] = "line"
             /\ \A k \in n + 1 .. Least(Stops(f)) - 1 : file[f].text[k] = "part"

\* The lines are broadcast.  After a scanner error nothing is remembered; at
\* the end marker the buffer may hold more than was broadcast.
ReadFile ==
    /\ monitor = "read"
    /\ LET f == First(todo)
       IN  /\ sent' = [sent EXCEPT ![f] = Scanned(f)]
           /\ disordered' = IF sent[f] = fileState[f].offset THEN disordered ELSE disordered \cup {f}
           /\ unseen' = unseen \ {f}
           /\ fileState' = [fileState EXCEPT ![f].complete = @ \/ Ended(f)]
           /\ IF TooLong(f)
              THEN monitor' = "files" /\ todo' = todo \ {f} /\ UNCHANGED reached
              ELSE /\ monitor' = "remember" /\ UNCHANGED todo
                   /\ reached' \in Scanned(f) .. Len(file[f].text)
    /\ UNCHANGED <<file, worked, managerVars, polled, stat>>

\* Faulty: the time the file has now.
TimeNow == file[First(todo)].modTime

\* The time the file had before it was read.
Time == stat

Remember ==
    /\ monitor = "remember"
    /\ fileState' = [fileState EXCEPT ![First(todo)] = [@ EXCEPT !.offset = reached, !.modTime = Time]]
    /\ monitor' = "files" /\ todo' = todo \ {First(todo)} /\ reached' = 0
    /\ UNCHANGED <<fileVars, managerVars, polled, stat, sentVars>>

EndPoll ==
    /\ monitor = "files" /\ (todo = {} \/ stopped)
    /\ monitor' = "select" /\ todo' = {} /\ stat' = 0
    /\ UNCHANGED <<fileVars, managerVars, fileState, polled, reached, sentVars>>

MonitorEnds ==
    /\ monitor = "select" /\ stopped /\ monitor' = "ended"
    /\ UNCHANGED <<fileVars, managerVars, fileState, polled, todo, stat, reached, sentVars>>

Monitor == Poll \/ StatFile \/ ReadFile \/ Remember \/ EndPoll \/ MonitorEnds

Worker ==
    \E f \in File :
        OpenLog(f) \/ (\E p \in {"line", "part", "long"} : Logf(f, p)) \/ EndLog(f) \/ CloseLog(f)

Next == (\E t \in Ticket : StartMonitoring(t)) \/ BeginStop \/ EndStop \/ Worker \/ Monitor

Spec == Init /\ [][Next]_vars

-----------------------------------------------------------------------------
(* Properties.                                                             *)

HasLong(f) == \E n \in DOMAIN file[f].text : file[f].text[n] = "long"

\* Something is written that was not broadcast, the end marker or before it.
Unsent(f) ==
    \E n \in DOMAIN file[f].text :
        n > sent[f] /\ \A k \in 1 .. n - 1 : file[f].text[k] # "end"

\* What a step writes up to its end marker is broadcast piece by piece, once
\* and in order, though lines may come in two; and what is not broadcast yet
\* the next poll will read, whatever was written while the file was read,
\* unless the last write came within the tick that is remembered of the file.
\* A file with a line that is too long is an exception.  (processFile)
TextOnce ==
    \A f \in File : ~HasLong(f) =>
        /\ f \notin disordered
        /\ Unsent(f) /\ f \notin unseen =>
               ~fileState[f].complete /\ fileState[f].modTime # file[f].modTime

\* Nothing is broadcast once StopMonitoring has returned.  (StopMonitoring)
SilentWhenIdle == orchestrator = "idle" => UNCHANGED sentVars \/ orchestrator' = "processing"
StopIsFinal == [][SilentWhenIdle]_vars
=============================================================================
