----------------------------- MODULE HubProofs -----------------------------
(***************************************************************************)
(* Safety of the WebSocket hub, for every set of connections, limit, buffer *)
(* and number of messages: no channel is closed twice, the limit holds, and *)
(* nothing is registered once the hub has stopped.                          *)
(***************************************************************************)
EXTENDS Hub, FiniteSetTheorems, TLAPS

(* Only open channels are registered, and a handler that still waits at the *)
(* register channel holds an open channel of its own: whoever closes a      *)
(* channel is the first to.                                                 *)
RegisteredIsOpen ==
    /\ clients \subseteq open
    /\ \A c \in Client : handler[c] = "registering" => c \in open
    /\ \A c \in clients : handler[c] = "done"

HubInv == TypeOK /\ RegisteredIsOpen /\ ClosedOnce /\ StoppedIsEmpty /\ WithinLimit

(* Run drops clients only at its select, where no send loop is under way:   *)
(* until Stop, the clients still to be sent to are registered.  Only a ping *)
(* makes a reader reply.                                                    *)
SnapshotIsRegistered ==
    /\ run = "select" => todo = {}
    /\ ~closed => todo \subseteq clients
    /\ \A c \in Client : reader[c] = "replying" => pings > 0

SendInv == SnapshotIsRegistered /\ OnlyStopOrPingPanics

-----------------------------------------------------------------------------
(* Closing some clients' channels, all of them open, does not panic.        *)
LEMMA ClosingOpen ==
    ASSUME NEW C, C \subseteq open, panic = "none", CloseChannels(C)
    PROVE  panic' = "none" /\ open' = open \ C
  BY DEF CloseChannels

(* Dropping a client: it is no longer registered, and only its channel may  *)
(* have been closed, without a panic.                                       *)
LEMMA Dropping ==
    ASSUME HubInv, Alive, NEW c \in Client, Drop(c)
    PROVE  /\ panic' = "none" /\ clients' = clients \ {c}
           /\ open' = IF c \in clients THEN open \ {c} ELSE open
  <1>1. CASE c \in clients
    <2>1. {c} \subseteq open
      BY <1>1 DEF HubInv, RegisteredIsOpen
    <2>2. CloseChannels({c})
      BY <1>1 DEF Drop
    <2> QED
      BY <1>1, <2>1, <2>2, ClosingOpen DEF Drop, Alive
  <1>2. CASE c \notin clients
    BY <1>2 DEF Drop, Alive
  <1> QED
    BY <1>1, <1>2

(* Fewer clients stay within the limit.                                     *)
LEMMA FewerWithinLimit ==
    ASSUME HubInv, clients' \subseteq clients
    PROVE  WithinLimit'
  <1>1. IsFiniteSet(clients)
    BY HubAssumption, FS_Subset DEF HubInv, TypeOK, HubAssumption
  <1>2. /\ IsFiniteSet(clients') /\ Cardinality(clients') <= Cardinality(clients)
        /\ Cardinality(clients) \in Nat /\ Cardinality(clients') \in Nat
    BY <1>1, FS_Subset, FS_CardinalityType
  <1> QED
    BY <1>2, HubAssumption DEF HubInv, WithinLimit, HubAssumption

-----------------------------------------------------------------------------
LEMMA InitHubInv == Init => HubInv
  <1> SUFFICES ASSUME Init PROVE HubInv
    OBVIOUS
  <1>1. TypeOK
    <2>1. 0 \in 0..Buffer /\ 0 \in 0..MaxBroadcasts /\ 0 \in 0..MaxPings
      BY HubAssumption DEF HubAssumption
    <2>2. queued \in [Client -> 0..Buffer]
      BY <2>1 DEF Init
    <2> QED
      BY <2>1, <2>2 DEF Init, TypeOK
  <1>2. RegisteredIsOpen /\ ClosedOnce /\ StoppedIsEmpty
    BY DEF Init, RegisteredIsOpen, ClosedOnce, StoppedIsEmpty
  <1>3. WithinLimit
    BY FS_EmptySet, HubAssumption DEF Init, WithinLimit, HubAssumption
  <1> QED
    BY <1>1, <1>2, <1>3 DEF HubInv

(* Register: the client is admitted below the limit, or its own channel,    *)
(* open until then, is closed.                                              *)
LEMMA RegisterHubInv ==
    ASSUME HubInv, NEW c \in Client, Register(c)
    PROVE  HubInv'
  <1> USE DEF HubInv
  <1>1. c \in open /\ c \notin clients /\ panic = "none"
    BY DEF Register, RegisteredIsOpen, TypeOK, Alive
  <1>2. CASE Admits(c)
    <2>1. /\ clients' = clients \cup {c} /\ open' = open /\ panic' = panic
          /\ conn' = conn /\ closed' = closed /\ ~closed
      BY <1>2 DEF Register, Admits, hubVars
    <2>2. TypeOK'
      BY <2>1 DEF TypeOK, Register, runVars
    <2>3. RegisteredIsOpen'
      BY <1>1, <2>1 DEF RegisteredIsOpen, Register, TypeOK
    <2>4. IsFiniteSet(clients)
      BY HubAssumption, FS_Subset DEF TypeOK, HubAssumption
    <2>5. Cardinality(clients') = Cardinality(clients) + 1 /\ Cardinality(clients) \in Nat
      BY <1>1, <2>1, <2>4, FS_AddElement, FS_CardinalityType
    <2>6. WithinLimit'
      BY <1>2, <2>5, HubAssumption DEF WithinLimit, Admits, HubAssumption
    <2> QED
      BY <1>1, <2>1, <2>2, <2>3, <2>6 DEF ClosedOnce, StoppedIsEmpty
  <1>3. CASE ~Admits(c)
    <2>1. CloseChannels({c}) /\ clients' = clients /\ closed' = closed
      BY <1>3 DEF Register
    <2>2. panic' = "none" /\ open' = open \ {c}
      BY <1>1, <2>1, ClosingOpen
    <2>3. conn' = conn \/ conn' = [conn EXCEPT ![c] = "closed"]
      BY <1>3 DEF Register
    <2>4. TypeOK'
      BY <2>1, <2>2, <2>3 DEF TypeOK, Register, runVars
    <2>5. RegisteredIsOpen'
      BY <1>1, <2>1, <2>2 DEF RegisteredIsOpen, Register, TypeOK
    <2> QED
      BY <2>1, <2>2, <2>4, <2>5, FewerWithinLimit DEF ClosedOnce, StoppedIsEmpty
  <1> QED
    BY <1>2, <1>3

(* Either pump's unregistration.                                            *)
LEMMA UnregisterHubInv ==
    ASSUME HubInv, NEW c \in Client,
           UnregisterFromWriter(c) \/ UnregisterFromReader(c)
    PROVE  HubInv'
  <1> USE DEF HubInv
  <1>1. Alive /\ Drop(c) /\ handler' = handler /\ closed' = closed
    BY DEF UnregisterFromWriter, UnregisterFromReader
  <1>2. /\ panic' = "none" /\ clients' = clients \ {c}
        /\ open' = IF c \in clients THEN open \ {c} ELSE open
    BY <1>1, Dropping
  <1>3. TypeOK'
    <2>1. CASE UnregisterFromWriter(c)
      BY <2>1, <1>2 DEF TypeOK, UnregisterFromWriter, runVars
    <2>2. CASE UnregisterFromReader(c)
      BY <2>2, <1>2 DEF TypeOK, UnregisterFromReader, runVars
    <2> QED
      BY <2>1, <2>2
  <1>4. RegisteredIsOpen'
    BY <1>1, <1>2 DEF RegisteredIsOpen, TypeOK
  <1> QED
    BY <1>1, <1>2, <1>3, <1>4, FewerWithinLimit DEF ClosedOnce, StoppedIsEmpty

(* Stop closes the channels of the registered clients, all of them open;    *)
(* those of handlers still waiting stay open.                               *)
LEMMA StopHubInv ==
    ASSUME HubInv, Stop
    PROVE  HubInv'
  <1> USE DEF HubInv
  <1>1. panic' = "none" /\ open' = open \ clients /\ clients' = {}
    BY ClosingOpen DEF Stop, Alive, RegisteredIsOpen
  <1>2. TypeOK'
    BY <1>1 DEF TypeOK, Stop, runVars
  <1>3. RegisteredIsOpen'
    BY <1>1 DEF RegisteredIsOpen, Stop, TypeOK
  <1> QED
    BY <1>1, <1>2, <1>3, FewerWithinLimit DEF ClosedOnce, StoppedIsEmpty

(* Connect: a new connection has an open channel and is not registered.     *)
LEMMA ConnectHubInv ==
    ASSUME HubInv, NEW c \in Client, Connect(c)
    PROVE  HubInv'
  <1> USE DEF HubInv
  <1>1. clients' = clients /\ closed' = closed /\ panic' = panic /\ open' = open \cup {c}
    BY DEF Connect, hubVars
  <1>2. TypeOK'
    BY <1>1 DEF TypeOK, Connect, runVars
  <1>3. RegisteredIsOpen'
    BY <1>1 DEF RegisteredIsOpen, Connect, TypeOK
  <1> QED
    BY <1>1, <1>2, <1>3, FewerWithinLimit DEF ClosedOnce, StoppedIsEmpty

(* A step that leaves the registration alone and closes no channel.         *)
LEMMA BystanderHubInv ==
    ASSUME HubInv, TypeOK', panic' # "close",
           UNCHANGED <<clients, closed, open, handler>>
    PROVE  HubInv'
  BY FewerWithinLimit DEF HubInv, RegisteredIsOpen, ClosedOnce, StoppedIsEmpty

(* The sends of Run and of the pumps.                                       *)
LEMMA SendingHubInv ==
    ASSUME HubInv, NEW c \in Client, SendTo(c) \/ Reply(c) \/ Write(c)
    PROVE  HubInv'
  <1>1. panic' # "close" /\ UNCHANGED <<clients, closed, open, handler>>
    BY DEF HubInv, ClosedOnce, SendTo, Reply, Write, hubVars, peerVars
  <1>2. TypeOK'
    <2>1. CASE SendTo(c)
      BY <2>1, HubAssumption DEF HubInv, TypeOK, SendTo, Full, hubVars, peerVars, HubAssumption
    <2>2. CASE Reply(c)
      BY <2>2, HubAssumption DEF HubInv, TypeOK, Reply, Full, hubVars, runVars, HubAssumption
    <2>3. CASE Write(c)
      BY <2>3, HubAssumption DEF HubInv, TypeOK, Write, hubVars, runVars, HubAssumption
    <2> QED
      BY <2>1, <2>2, <2>3
  <1> QED
    BY <1>1, <1>2, BystanderHubInv

(* The rest: a broadcast's snapshot, reads and peers.                       *)
LEMMA ReadingHubInv ==
    ASSUME HubInv,
           \/ TakeBroadcast
           \/ \E c \in Client : ReadPing(c) \/ ReadFails(c) \/ PeerFails(c)
           \/ UNCHANGED vars
    PROVE  HubInv'
  <1> USE DEF HubInv, hubVars, chanVars, peerVars, runVars
  <1>1. panic' # "close" /\ UNCHANGED <<clients, closed, open, handler>>
    BY DEF ClosedOnce, TakeBroadcast, ReadPing, ReadFails, PeerFails, vars
  <1>2. TypeOK'
    <2>1. CASE TakeBroadcast
      BY <2>1, HubAssumption DEF TypeOK, TakeBroadcast, HubAssumption
    <2>2. ASSUME NEW c \in Client, ReadPing(c) \/ ReadFails(c)
          PROVE  TypeOK'
      BY <2>2, HubAssumption DEF TypeOK, ReadPing, ReadFails, HubAssumption
    <2>3. ASSUME NEW c \in Client, PeerFails(c)
          PROVE  TypeOK'
      BY <2>3 DEF TypeOK, PeerFails
    <2>4. CASE UNCHANGED vars
      BY <2>4 DEF TypeOK, vars
    <2> QED
      BY <2>1, <2>2, <2>3, <2>4
  <1> QED
    BY <1>1, <1>2, BystanderHubInv

LEMMA NextHubInv == HubInv /\ [Next]_vars => HubInv'
  <1> SUFFICES ASSUME HubInv, [Next]_vars PROVE HubInv'
    OBVIOUS
  <1>1. CASE Run
    BY <1>1, RegisterHubInv, UnregisterHubInv, SendingHubInv, ReadingHubInv DEF Run
  <1>2. CASE Stop
    BY <1>2, StopHubInv
  <1>3. ASSUME NEW c \in Client, Connect(c) \/ Pumps(c) \/ ReadPing(c) \/ PeerFails(c)
        PROVE  HubInv'
    BY <1>3, ConnectHubInv, SendingHubInv, ReadingHubInv DEF Pumps
  <1>4. CASE UNCHANGED vars
    BY <1>4, ReadingHubInv
  <1> QED
    BY <1>1, <1>2, <1>3, <1>4 DEF Next

(* The inductive invariant holds in every reachable state.                  *)
LEMMA HubInvariant == Spec => []HubInv
  BY InitHubInv, NextHubInv, PTL DEF Spec

(* Every reachable state is well typed; no send channel holds more than its *)
(* buffer.                                                                  *)
THEOREM HubTypeCorrect == Spec => []TypeOK
  <1>1. HubInv => TypeOK
    BY DEF HubInv
  <1> QED
    BY <1>1, HubInvariant, PTL

(* No send channel is closed twice, by whichever of the limit, the two      *)
(* pumps and Stop (websocket.go, Run and Stop).                             *)
THEOREM NeverClosedTwice == Spec => []ClosedOnce
  <1>1. HubInv => ClosedOnce
    BY DEF HubInv
  <1> QED
    BY <1>1, HubInvariant, PTL

(* A stopped hub stays empty (websocket.go, the register case of Run).      *)
THEOREM EmptyOnceStopped == Spec => []StoppedIsEmpty
  <1>1. HubInv => StoppedIsEmpty
    BY DEF HubInv
  <1> QED
    BY <1>1, HubInvariant, PTL

(* At most maxClients connections are registered (websocket.go, Run).       *)
THEOREM LimitHolds == Spec => []WithinLimit
  <1>1. HubInv => WithinLimit
    BY DEF HubInv
  <1> QED
    BY <1>1, HubInvariant, PTL

-----------------------------------------------------------------------------
(* Sends on closed channels.                                               *)

(* A step that is not a send, and neither closes a snapshot's channel nor   *)
(* makes a reader reply.                                                    *)
LEMMA QuietSendInv ==
    ASSUME SendInv, panic = "none", panic' # "send",
           todo' = todo, run' = run, pings' = pings,
           ~closed' => ~closed /\ (run = "select" \/ clients' = clients),
           \A c \in Client : reader'[c] = "replying" => reader[c] = "replying"
    PROVE  SendInv'
  BY DEF SendInv, SnapshotIsRegistered, OnlyStopOrPingPanics

LEMMA InitSendInv == Init => SendInv
  BY DEF Init, SendInv, SnapshotIsRegistered, OnlyStopOrPingPanics

(* Run's own send: until Stop, every client of the snapshot is open.        *)
LEMMA SendToSendInv ==
    ASSUME HubInv, SendInv, NEW c \in Client, SendTo(c)
    PROVE  SendInv'
  <1>1. /\ panic = "none" /\ c \in todo /\ todo' = todo \ {c} /\ closed' = closed
        /\ clients' = clients /\ pings' = pings /\ reader' = reader
    BY DEF SendTo, Alive, hubVars, peerVars
  <1>2. ~closed => c \in open
    BY <1>1 DEF HubInv, RegisteredIsOpen, SendInv, SnapshotIsRegistered
  <1>3. panic' = "send" => closed
    BY <1>1, <1>2 DEF SendTo
  <1>4. run' = "select" => todo' = {}
    BY <1>1 DEF SendTo
  <1> QED
    BY <1>1, <1>3, <1>4 DEF SendInv, SnapshotIsRegistered, OnlyStopOrPingPanics

LEMMA NextSendInv == HubInv /\ SendInv /\ [Next]_vars => SendInv'
  <1> SUFFICES ASSUME HubInv, SendInv, [Next]_vars PROVE SendInv'
    OBVIOUS
  <1> USE DEF runVars, hubVars, chanVars, peerVars
  <1>1. ASSUME NEW c \in Client, Register(c)
        PROVE  SendInv'
    <2>1. panic = "none" /\ run = "select" /\ reader' = [reader EXCEPT ![c] = "running"]
      BY <1>1 DEF Register, Alive
    <2>2. panic' # "send"
      BY <1>1, <2>1 DEF Register, CloseChannels
    <2>3. todo' = todo /\ run' = run /\ pings' = pings /\ closed' = closed
      BY <1>1 DEF Register
    <2>4. \A d \in Client : reader'[d] = "replying" => reader[d] = "replying"
      BY <2>1 DEF HubInv, TypeOK
    <2> QED
      BY <2>1, <2>2, <2>3, <2>4, QuietSendInv
  <1>2. ASSUME NEW c \in Client, UnregisterFromWriter(c) \/ UnregisterFromReader(c)
        PROVE  SendInv'
    <2>1. panic = "none" /\ run = "select" /\ Drop(c)
      BY <1>2 DEF UnregisterFromWriter, UnregisterFromReader, Alive
    <2>2. panic' # "send"
      BY <2>1 DEF Drop, CloseChannels
    <2>3. todo' = todo /\ run' = run /\ pings' = pings /\ closed' = closed
      BY <1>2 DEF UnregisterFromWriter, UnregisterFromReader
    <2>4. \A d \in Client : reader'[d] = "replying" => reader[d] = "replying"
      BY <1>2 DEF UnregisterFromWriter, UnregisterFromReader, HubInv, TypeOK
    <2> QED
      BY <2>1, <2>2, <2>3, <2>4, QuietSendInv
  <1>3. ASSUME NEW c \in Client, SendTo(c)
        PROVE  SendInv'
    BY <1>3, SendToSendInv
  <1>4. CASE TakeBroadcast
    <2>1. /\ panic' = "none" /\ todo' = clients /\ clients' = clients
          /\ reader' = reader /\ pings' = pings /\ closed' = closed
      BY <1>4 DEF TakeBroadcast, Alive
    <2>2. run' = "select" => clients = {}
      BY <1>4 DEF TakeBroadcast
    <2> QED
      BY <2>1, <2>2 DEF SendInv, SnapshotIsRegistered, OnlyStopOrPingPanics
  <1>5. CASE Stop
    BY <1>5, QuietSendInv DEF Stop, Alive, CloseChannels
  <1>6. ASSUME NEW c \in Client, Connect(c) \/ PeerFails(c) \/ Write(c)
        PROVE  SendInv'
    BY <1>6, QuietSendInv DEF Connect, PeerFails, Write, Alive, SendInv
  <1>7. ASSUME NEW c \in Client, ReadPing(c)
        PROVE  SendInv'
    <2>1. /\ pings' > 0 /\ panic' = "none"
          /\ UNCHANGED <<run, todo, clients, closed>>
      BY <1>7 DEF ReadPing, Alive, HubInv, TypeOK
    <2> QED
      BY <2>1 DEF SendInv, SnapshotIsRegistered, OnlyStopOrPingPanics
  <1>8. ASSUME NEW c \in Client, Reply(c)
        PROVE  SendInv'
    <2>1. /\ pings > 0 /\ pings' = pings /\ UNCHANGED <<run, todo, clients, closed>>
      BY <1>8 DEF Reply, SendInv, SnapshotIsRegistered
    <2> QED
      BY <2>1 DEF SendInv, SnapshotIsRegistered, OnlyStopOrPingPanics
  <1>9. ASSUME NEW c \in Client, ReadFails(c)
        PROVE  SendInv'
    <2>1. \A d \in Client : reader'[d] = "replying" => reader[d] = "replying"
      BY <1>9 DEF ReadFails, HubInv, TypeOK
    <2> QED
      BY <1>9, <2>1, QuietSendInv DEF ReadFails, Alive
  <1>10. CASE UNCHANGED vars
    BY <1>10 DEF vars, SendInv, SnapshotIsRegistered, OnlyStopOrPingPanics
  <1> QED
    BY <1>1, <1>2, <1>3, <1>4, <1>5, <1>6, <1>7, <1>8, <1>9, <1>10 DEF Next, Run, Pumps

(* No broadcast reaches a closed channel unless the hub was stopped; beside  *)
(* that, only the answer to a ping can (websocket.go, Run and readPump).     *)
THEOREM BroadcastsAreSafe == Spec => []OnlyStopOrPingPanics
  <1>1. SendInv => OnlyStopOrPingPanics
    BY DEF SendInv
  <1> QED
    BY <1>1, HubInvariant, InitSendInv, NextSendInv, PTL DEF Spec
=============================================================================
