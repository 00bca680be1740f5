------------------------------ MODULE Settings ------------------------------
(***************************************************************************)
(* The configuration: the file, the watcher that reloads it, the handlers   *)
(* that save it or toggle YOLO mode, and the goroutines that carry a new      *)
(* configuration to the orchestrator, the router and the worker.            *)
(*                                                                          *)
(* A configuration is its YOLO mode and whether the settings the page does   *)
(* not show (tokens, ports, tools) are there.  A file being written is empty  *)
(* for a while, which parses as the default; somebody may break it by hand.  *)
(***************************************************************************)
EXTENDS Naturals

CONSTANTS
    Handler,        \* requests that may run at the same time
    Deliveries,     \* bound: propagations under way at the same time
    MaxWrites       \* bound: changes of the file, by hand and by handlers

Config(yolo) == [yolo |-> yolo, rest |-> TRUE, parses |-> TRUE]
Default == [yolo |-> FALSE, rest |-> FALSE, parses |-> TRUE]
Broken  == [yolo |-> FALSE, rest |-> FALSE, parses |-> FALSE]
First   == Config(FALSE)

Delivery == 1..Deliveries

VARIABLES
    file,           \* a configuration, or Broken
    modTime,        \* need not move between two writes
    unread,         \* observation: written last in the tick the watcher remembers,
                    \* and not read since
    lastMod,        \* the watcher's
    current,        \* the reload manager's
    watcher,        \* where the watcher goroutine is
    main,           \* how far main has set things up
    handler,        \* where each request is
    loaded,         \* what it has loaded and changed
    delivery,       \* where each propagation is
    carried,        \* what it carries
    orchestrator, router, worker,   \* their configurations
    yoloOverride,   \* the mode the board was switched to, if it was
    excused,        \* observation: see Settles
    writes          \* bound

copies   == <<orchestrator, router, worker>>
fileVars == <<file, modTime, unread>>
rmVars   == <<lastMod, current, watcher>>
reqVars  == <<handler, loaded, yoloOverride>>
delVars  == <<delivery, carried>>
vars     == <<fileVars, rmVars, main, reqVars, delVars, copies, excused, writes>>

Init ==
    /\ file = First /\ modTime = 1 /\ lastMod = 0 /\ unread = FALSE
    /\ current = First /\ watcher = "off" /\ main = "loaded"
    /\ handler = [h \in Handler |-> "idle"] /\ loaded = [h \in Handler |-> Broken]
    /\ delivery = [d \in Delivery |-> "none"] /\ carried = [d \in Delivery |-> Broken]
    /\ orchestrator = First /\ router = First /\ worker = First
    /\ yoloOverride = {} /\ excused = FALSE /\ writes = 0

-----------------------------------------------------------------------------
(* Load and the file.                                                      *)

Load == file

Parses == file.parses

Write(new) ==
    /\ file' = new /\ modTime' \in {modTime, modTime + 1}
    /\ unread' = (modTime' = lastMod)

\* Somebody edits the file; with an error in it Load fails.
EditByHand ==
    /\ writes < MaxWrites /\ writes' = writes + 1
    /\ \E new \in {Config(TRUE), Config(FALSE), Broken} : Write(new)
    /\ excused' = (excused \/ main # "ready" \/ watcher = "first")
    /\ UNCHANGED <<rmVars, main, reqVars, delVars, copies>>

-----------------------------------------------------------------------------
(* main: the watcher is started, the listener registered only later.       *)

StartWatcher ==
    /\ main = "loaded" /\ main' = "watching" /\ watcher' = "first"
    /\ UNCHANGED <<fileVars, lastMod, current, reqVars, delVars, copies, excused, writes>>

Register ==
    /\ main = "watching" /\ main' = "ready"
    /\ UNCHANGED <<fileVars, rmVars, reqVars, delVars, copies, excused, writes>>

-----------------------------------------------------------------------------
(* Propagations: a goroutine per listener, a goroutine per worker.         *)

Idle(d) == delivery[d] = "none"

Spawn(cfg) ==
    \E d \in Delivery :
        /\ Idle(d) /\ \A e \in 1..d-1 : ~Idle(e)
        /\ delivery' = [delivery EXCEPT ![d] = "orchestrator"] /\ carried' = [carried EXCEPT ![d] = cfg]

Overlaps == \E d \in Delivery : ~Idle(d)

\* Orchestrator.UpdateConfig, step by step.
UpdateOrchestrator(d) ==
    /\ delivery[d] = "orchestrator" /\ delivery' = [delivery EXCEPT ![d] = "router"]
    /\ orchestrator' = carried[d]
    /\ UNCHANGED <<fileVars, rmVars, main, reqVars, carried, router, worker, excused, writes>>

\* Faulty: the router keeps its configuration.
RouterAfterKept(d) == router

RouterAfter(d) == carried[d]

UpdateRouter(d) ==
    /\ delivery[d] = "router" /\ delivery' = [delivery EXCEPT ![d] = "worker"]
    /\ router' = RouterAfter(d)
    /\ UNCHANGED <<fileVars, rmVars, main, reqVars, carried, orchestrator, worker, excused, writes>>

UpdateWorker(d) ==
    /\ delivery[d] = "worker" /\ delivery' = [delivery EXCEPT ![d] = "none"]
    /\ worker' = carried[d] /\ carried' = [carried EXCEPT ![d] = Broken]
    /\ UNCHANGED <<fileVars, rmVars, main, reqVars, orchestrator, router, excused, writes>>

-----------------------------------------------------------------------------
(* The watcher: Start, check, reload.                                      *)

FirstLook ==
    /\ watcher = "first" /\ watcher' = "select" /\ lastMod' = modTime
    /\ UNCHANGED <<fileVars, current, main, reqVars, delVars, copies, excused, writes>>

\* Stat, and the time is remembered before the file is read.
Check ==
    /\ watcher = "select" /\ modTime > lastMod
    /\ watcher' = "load" /\ lastMod' = modTime
    /\ UNCHANGED <<fileVars, current, main, reqVars, delVars, copies, excused, writes>>

\* Load; a file with an error changes nothing, and is not read again.
ReadFile ==
    /\ watcher = "load"
    /\ IF Parses THEN current' = Load /\ watcher' = "loaded" ELSE watcher' = "select" /\ UNCHANGED current
    /\ unread' = FALSE
    /\ UNCHANGED <<file, modTime, lastMod, main, reqVars, delVars, copies, excused, writes>>

\* The listeners are told, if there are any.
Notify ==
    /\ watcher = "loaded" /\ watcher' = "select"
    /\ IF main = "ready" THEN Spawn(current) ELSE UNCHANGED delVars
    /\ excused' = (excused \/ main # "ready" \/ Overlaps)
    /\ UNCHANGED <<fileVars, lastMod, current, main, reqVars, copies, writes>>

-----------------------------------------------------------------------------
(* Handlers: handleSaveSettings and its V2, handleYoloToggle and its V2.   *)

\* Load, the default when that fails, with the form's values.
LoadForSave(h) ==
    /\ main = "ready" /\ handler[h] = "idle" /\ writes < MaxWrites /\ writes' = writes + 1
    /\ handler' = [handler EXCEPT ![h] = "truncate"]
    /\ \E y \in BOOLEAN :
        loaded' = [loaded EXCEPT ![h] = [IF Parses THEN Load ELSE Default EXCEPT !.yolo = y]]
    /\ UNCHANGED <<fileVars, rmVars, main, delVars, copies, yoloOverride, excused>>

\* os.WriteFile truncates the file and then writes it.
Truncate(h) ==
    /\ handler[h] = "truncate" /\ handler' = [handler EXCEPT ![h] = "write"]
    /\ Write(Default)
    /\ UNCHANGED <<rmVars, main, loaded, delVars, copies, yoloOverride, excused, writes>>

WriteFile(h) ==
    /\ handler[h] = "write" /\ handler' = [handler EXCEPT ![h] = "propagate"]
    /\ Write(loaded[h])
    /\ UNCHANGED <<rmVars, main, loaded, delVars, copies, yoloOverride, excused, writes>>

Propagate(h) ==
    /\ handler[h] = "propagate" /\ handler' = [handler EXCEPT ![h] = "idle"]
    /\ loaded' = [loaded EXCEPT ![h] = Broken]
    /\ Spawn(loaded[h])
    /\ excused' = (excused \/ Overlaps \/ loaded[h] # file)
    /\ UNCHANGED <<fileVars, rmVars, main, copies, yoloOverride, writes>>

\* The toggle turns what the board shows, and is told to the workers only.
BoardYolo == IF yoloOverride = {} THEN Load.yolo ELSE TRUE \in yoloOverride

ToggleYolo(h) ==
    /\ main = "ready" /\ handler[h] = "idle" /\ Parses /\ writes < MaxWrites /\ writes' = writes + 1
    /\ yoloOverride' = {~BoardYolo}
    /\ Spawn([Load EXCEPT !.yolo = ~BoardYolo])
    /\ excused' = TRUE
    /\ UNCHANGED <<fileVars, rmVars, main, handler, loaded, copies>>

DeliveryStep(d) == UpdateOrchestrator(d) \/ UpdateRouter(d) \/ UpdateWorker(d)
WatcherStep     == FirstLook \/ Check \/ ReadFile \/ Notify
RequestStep(h)  == Truncate(h) \/ WriteFile(h) \/ Propagate(h)

Next ==
    \/ EditByHand \/ StartWatcher \/ Register \/ WatcherStep
    \/ \E d \in Delivery : DeliveryStep(d)
    \/ \E h \in Handler : LoadForSave(h) \/ RequestStep(h) \/ ToggleYolo(h)

Spec == Init /\ [][Next]_vars

-----------------------------------------------------------------------------
(* Properties.                                                             *)

\* Whatever changes the file, and when, the orchestrator, the router and the
\* worker end with what it says, unless YOLO mode was toggled, two propagations
\* were under way at a time, a request propagated what the file no longer said,
\* the file changed before the watcher had looked first and the listener was
\* registered, or its last write came in the tick in which the watcher had read
\* it, for the watcher wants a later time; a file with an error changes nothing.
\* (reload, check, Propagate)
Settles ==
    <>[](Parses /\ main = "ready" /\ ~excused /\ ~unread =>
            \A c \in {orchestrator, router, worker} : c = file)
=============================================================================
