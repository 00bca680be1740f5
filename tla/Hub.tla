-------------------------------- MODULE Hub --------------------------------
(***************************************************************************)
(* The WebSocket hub of the dashboard: the goroutine Run that owns the set  *)
(* of clients, the handlers that register a connection each, the two pumps  *)
(* of every connection, the callers of Broadcast, and Stop.  The register,  *)
(* unregister and broadcast channels have no buffer, so that a value passes *)
(* only while Run is at its select; a client's send channel has Buffer      *)
(* places.  Messages are counted, their content is left out.                *)
(***************************************************************************)
EXTENDS Naturals, FiniteSets

CONSTANTS
    Client,         \* connections
    Limit,          \* maxClients
    Buffer,         \* capacity of a client's send channel
    Stops,          \* whether this instance shuts the hub down
    MaxBroadcasts,  \* bound: broadcasts
    MaxPings        \* bound: ping messages sent by the peers

ASSUME HubAssumption ==
    /\ IsFiniteSet(Client)
    /\ Limit \in Nat \ {0} /\ Buffer \in Nat \ {0}
    /\ Stops \in BOOLEAN
    /\ MaxBroadcasts \in Nat /\ MaxPings \in Nat

VARIABLES
    run,         \* where Run is: at its select, in its send loop, or sending
                 \* to its own unregister channel
    todo,        \* clients of the send loop's snapshot not yet sent to
    clients,     \* h.clients
    closed,      \* h.closed
    open,        \* clients whose send channel is open
    queued,      \* messages in each send channel
    conn,        \* the connections: a stalled peer is sent to in vain
    handler,     \* ServeWs of each connection
    writer,      \* its writePump
    reader,      \* its readPump
    panic,       \* what ended the process: a send on, or a close of, a closed channel
    broadcasts, pings   \* bounds

runVars  == <<run, todo>>
hubVars  == <<clients, closed>>
chanVars == <<open, queued>>
peerVars == <<conn, handler, writer, reader>>
vars == <<runVars, hubVars, chanVars, peerVars, panic, broadcasts, pings>>

TypeOK ==
    /\ run \in {"select", "sending", "unregistering"}
    /\ todo \subseteq Client /\ clients \subseteq Client /\ open \subseteq Client
    /\ closed \in BOOLEAN
    /\ queued \in [Client -> 0..Buffer]
    /\ conn \in [Client -> {"none", "open", "stalled", "closed"}]
    /\ handler \in [Client -> {"none", "registering", "done"}]
    /\ writer \in [Client -> {"none", "running", "leaving", "gone"}]
    /\ reader \in [Client -> {"none", "running", "replying", "leaving", "gone"}]
    /\ panic \in {"none", "send", "close"}
    /\ broadcasts \in 0..MaxBroadcasts /\ pings \in 0..MaxPings

Init ==
    /\ run = "select" /\ todo = {} /\ clients = {} /\ closed = FALSE
    /\ open = {} /\ queued = [c \in Client |-> 0]
    /\ conn = [c \in Client |-> "none"] /\ handler = [c \in Client |-> "none"]
    /\ writer = [c \in Client |-> "none"] /\ reader = [c \in Client |-> "none"]
    /\ panic = "none" /\ broadcasts = 0 /\ pings = 0

-----------------------------------------------------------------------------
\* A panic ends the process.
Alive == panic = "none"

\* Faulty: the channel is made with one place too many.
FullOneMore(c) == queued[c] = Buffer + 1

Full(c) == queued[c] = Buffer

(* Closing channels: a second close panics.                                *)
CloseChannels(C) ==
    /\ open' = open \ C
    /\ panic' = IF C \subseteq open THEN panic ELSE "close"

(* The goroutine Run.                                                      *)

\* Faulty: clients are still taken after Stop.
AdmitsWhenStopped(c) == Cardinality(clients) < Limit

\* Faulty: one client too many.
AdmitsOneMore(c) == ~closed /\ Cardinality(clients) <= Limit

Admits(c) == ~closed /\ Cardinality(clients) < Limit

\* A handler passes its client in: it is admitted, or its channel is closed
\* (and, at the limit, its connection); either way the handler goes on to
\* start both pumps.
Register(c) ==
    /\ Alive
    /\ run = "select" /\ handler[c] = "registering"
    /\ handler' = [handler EXCEPT ![c] = "done"]
    /\ writer' = [writer EXCEPT ![c] = "running"]
    /\ reader' = [reader EXCEPT ![c] = "running"]
    /\ IF Admits(c)
       THEN clients' = clients \cup {c} /\ UNCHANGED <<open, panic, conn>>
       ELSE /\ CloseChannels({c})
            /\ conn' = IF closed THEN conn ELSE [conn EXCEPT ![c] = "closed"]
            /\ UNCHANGED clients
    /\ UNCHANGED <<runVars, closed, queued, broadcasts, pings>>

\* Faulty: the client is closed whether or not it is still registered.
DropUnchecked(c) == clients' = clients \ {c} /\ CloseChannels({c})

\* Faulty: the client's channel is closed, but it stays registered.
DropKept(c) ==
    IF c \in clients
    THEN CloseChannels({c}) /\ UNCHANGED clients
    ELSE UNCHANGED <<clients, open, panic>>

\* Faulty: nothing happens to a client that unregisters.
DropNothing(c) == UNCHANGED <<clients, open, panic>>

Drop(c) ==
    IF c \in clients
    THEN clients' = clients \ {c} /\ CloseChannels({c})
    ELSE UNCHANGED <<clients, open, panic>>

\* A pump that ends passes its client to unregister and then closes the
\* connection.
UnregisterFromWriter(c) ==
    /\ Alive
    /\ run = "select" /\ writer[c] = "leaving"
    /\ writer' = [writer EXCEPT ![c] = "gone"]
    /\ Drop(c)
    /\ conn' = [conn EXCEPT ![c] = "closed"]
    /\ UNCHANGED <<runVars, closed, queued, handler, reader, broadcasts, pings>>

UnregisterFromReader(c) ==
    /\ Alive
    /\ run = "select" /\ reader[c] = "leaving"
    /\ reader' = [reader EXCEPT ![c] = "gone"]
    /\ Drop(c)
    /\ conn' = [conn EXCEPT ![c] = "closed"]
    /\ UNCHANGED <<runVars, closed, queued, handler, writer, broadcasts, pings>>

\* Broadcast passes its message to a waiting Run, which takes a snapshot of
\* the clients.  (A message that finds Run busy is dropped.)
TakeBroadcast ==
    /\ Alive
    /\ run = "select" /\ broadcasts < MaxBroadcasts
    /\ broadcasts' = broadcasts + 1
    /\ todo' = clients
    /\ run' = IF clients = {} THEN "select" ELSE "sending"
    /\ UNCHANGED <<hubVars, chanVars, peerVars, panic, pings>>

\* A send to a client: on a full channel Run turns to its own unregister
\* channel, from which nobody but itself receives.
SendTo(c) ==
    /\ Alive
    /\ run = "sending" /\ c \in todo
    /\ todo' = todo \ {c}
    /\ \/ /\ c \notin open
          /\ panic' = "send"
          /\ UNCHANGED <<run, queued>>
       \/ /\ c \in open /\ ~Full(c)
          /\ queued' = [queued EXCEPT ![c] = @ + 1]
          /\ run' = IF todo = {c} THEN "select" ELSE "sending"
          /\ UNCHANGED panic
       \/ /\ c \in open /\ Full(c)
          /\ run' = "unregistering"
          /\ UNCHANGED <<panic, queued>>
    /\ UNCHANGED <<hubVars, open, peerVars, broadcasts, pings>>

\* Stop, on the goroutine that shuts the server down.
Stop ==
    /\ Alive
    /\ Stops /\ ~closed
    /\ closed' = TRUE
    /\ clients' = {}
    /\ CloseChannels(clients)
    /\ conn' = [c \in Client |-> IF c \in clients THEN "closed" ELSE conn[c]]
    /\ UNCHANGED <<runVars, queued, handler, writer, reader, broadcasts, pings>>

-----------------------------------------------------------------------------
(* A connection: ServeWs up to the register channel, and the two pumps.     *)

Connect(c) ==
    /\ Alive
    /\ handler[c] = "none"
    /\ handler' = [handler EXCEPT ![c] = "registering"]
    /\ conn' = [conn EXCEPT ![c] = "open"]
    /\ open' = open \cup {c}
    /\ UNCHANGED <<runVars, hubVars, queued, writer, reader, panic, broadcasts, pings>>

\* writePump writes a message, ignoring errors; sees the channel closed once
\* it is empty; or fails to write its own ping.
Write(c) ==
    /\ Alive
    /\ writer[c] = "running"
    /\ \/ /\ queued[c] > 0
          /\ queued' = [queued EXCEPT ![c] = @ - 1]
          /\ UNCHANGED writer
       \/ /\ \/ queued[c] = 0 /\ c \notin open
             \/ conn[c] # "open"
          /\ writer' = [writer EXCEPT ![c] = "leaving"]
          /\ UNCHANGED queued
    /\ UNCHANGED <<runVars, hubVars, open, conn, handler, reader, panic, broadcasts, pings>>

\* readPump reads a ping ...
ReadPing(c) ==
    /\ Alive
    /\ reader[c] = "running" /\ conn[c] # "closed" /\ pings < MaxPings
    /\ pings' = pings + 1
    /\ reader' = [reader EXCEPT ![c] = "replying"]
    /\ UNCHANGED <<runVars, hubVars, chanVars, conn, handler, writer, panic, broadcasts>>

\* ... and answers through the client's send channel, unless it is full ...
Reply(c) ==
    /\ Alive
    /\ reader[c] = "replying"
    /\ reader' = [reader EXCEPT ![c] = "running"]
    /\ panic' = IF c \in open THEN panic ELSE "send"
    /\ queued' = IF c \in open /\ ~Full(c)
                 THEN [queued EXCEPT ![c] = @ + 1] ELSE queued
    /\ UNCHANGED <<runVars, hubVars, open, conn, handler, writer, broadcasts, pings>>

\* ... or fails: the connection is closed, or no pong came in time.
ReadFails(c) ==
    /\ Alive
    /\ reader[c] = "running" /\ conn[c] # "open"
    /\ reader' = [reader EXCEPT ![c] = "leaving"]
    /\ UNCHANGED <<runVars, hubVars, chanVars, conn, handler, writer, panic, broadcasts, pings>>

\* The peer stops reading, or goes away.
PeerFails(c) ==
    /\ Alive
    /\ conn[c] \in {"open", "stalled"}
    /\ \E state \in {"stalled", "closed"} \ {conn[c]} : conn' = [conn EXCEPT ![c] = state]
    /\ UNCHANGED <<runVars, hubVars, chanVars, handler, writer, reader, panic, broadcasts, pings>>

Pumps(c) == Write(c) \/ Reply(c) \/ ReadFails(c)

Run ==
    \/ \E c \in Client : \/ Register(c) \/ UnregisterFromWriter(c)
                         \/ UnregisterFromReader(c) \/ SendTo(c)
    \/ TakeBroadcast

Next ==
    \/ Run
    \/ Stop
    \/ \E c \in Client : \/ Connect(c) \/ Pumps(c) \/ ReadPing(c) \/ PeerFails(c)

Spec == Init /\ [][Next]_vars

(* Every goroutine that can go on does; a value offered on a channel is     *)
(* received in the end by a Run that keeps coming back to its select (Go's  *)
(* select is fair between ready cases).  Peers and callers owe nothing.     *)
Fairness ==
    \A c \in Client :
        /\ SF_vars(Register(c))
        /\ SF_vars(UnregisterFromWriter(c)) /\ SF_vars(UnregisterFromReader(c))
        /\ WF_vars(SendTo(c)) /\ WF_vars(Write(c)) /\ WF_vars(Reply(c))
        /\ SF_vars(ReadFails(c))

FairSpec == Spec /\ Fairness

-----------------------------------------------------------------------------
(* Safety.                                                                 *)

\* No send channel is closed twice: the limit, both ends of a connection and
\* Stop can each want to close a client, in any order, and the second close
\* would end the process (Run's membership check and Stop share h.mu).
ClosedOnce == panic # "close"

\* After Stop no client is registered again, not even one whose handler was
\* already waiting at the register channel.
StoppedIsEmpty == closed => clients = {}

\* The connection limit holds whatever order clients come and go in.
WithinLimit == Cardinality(clients) <= Limit

\* Every broadcast reaches open channels only, although Run sends without
\* the lock: clients are dropped by Run itself.  What can close a channel
\* under a sender is Stop, and what can send beside Run is the answer to a ping.
OnlyStopOrPingPanics == panic = "send" => closed \/ pings > 0

-----------------------------------------------------------------------------
(* Liveness.                                                               *)

\* A connection that is over is forgotten: both of its pumps end and Run
\* drops it, as long as the process lives and Run does not wait for itself.
GoneIsForgotten ==
    \A c \in Client :
        (conn[c] = "closed") ~>
            \/ c \notin clients /\ writer[c] = "gone" /\ reader[c] = "gone"
            \/ run = "unregistering" \/ panic # "none"

-----------------------------------------------------------------------------
(* What comments of the code say, and the code does not do.  Each of these  *)
(* is refuted by a run of its own.                                         *)

\* websocket.go: a client whose send buffer is full is closed.  But Run
\* waits for itself and never comes back to its select.
SlowClientIsClosed == (run = "unregistering") ~> (run = "select")
=============================================================================
