------------------------------- MODULE Server -------------------------------
(***************************************************************************)
(* server/server_main.cpp: the relay server.                               *)
(*                                                                         *)
(* One thread runs a loop of three phases: it handles ENet events until    *)
(* enet_host_service reports none for 10 ms ("events"), drops the players  *)
(* that have been silent too long ("timeouts"), and sends the world        *)
(* snapshots that are due ("broadcast").  Remote hosts, the network and    *)
(* the clock are the environment; ENet itself only runs inside             *)
(* enet_host_service, so its state changes in the first phase only.        *)
(*                                                                         *)
(* Time is kept as the age of each player's last heartbeat: "elapsed" is   *)
(* GetTime() - lastHeartbeat, in ticks, and stops counting one tick after  *)
(* the timeout because no later age is told apart.                         *)
(***************************************************************************)
EXTENDS Protocol

CONSTANTS
  MaxEntityId,  \* bound: ids handed out, i.e. connections accepted
  MaxQueue,     \* bound: fires are only received while event queues are shorter
  MaxInFlight   \* bound: world snapshots under way to one client; more are lost

ASSUME ServerBoundsAssumption ==
  MaxEntityId \in Nat /\ MaxQueue \in Nat /\ MaxInFlight \in Nat
ASSUME CellsAssumption == Cells \subseteq Nat \ {0}

VARIABLES
  players,      \* g_players, a partial function from Peers to PlayerInfo
  nextEntityId, \* g_nextEntityId
  peer,         \* ENetPeer.state of each slot, as far as the program sees it
  acks,         \* CHANNEL_SYSTEM messages queued or under way to each slot
  events,       \* CHANNEL_GAME_EVENTS messages queued or under way, in order
  world,        \* CHANNEL_UNRELIABLE datagrams under way, in no order
  phase         \* where the main loop is

appVars  == <<players, nextEntityId, phase>>
enetVars == <<peer, acks, events, world>>
serverVars == <<players, nextEntityId, peer, acks, events, world, phase>>

\* "zombie": the connection is over, its DISCONNECT event not yet handled;
\* "disconnecting": enet_peer_disconnect was called, the answer is outstanding.
PeerState == {"disconnected", "connected", "disconnecting", "zombie"}

Phases == {"events", "timeouts", "broadcast"}

PlayerInfo ==
  [id : EntityId, elapsed : 0 .. HEARTBEAT_TIMEOUT + 1,
   hasSnapshot : BOOLEAN, lastSequence : SnapshotSeqs \cup {0},
   cell : Cells \cup {0}]

Connected == DOMAIN players

LiveIds == {players[p].id : p \in Connected}

TypeOK ==
  /\ Connected \subseteq Peers
  /\ players \in [Connected -> PlayerInfo]
  /\ nextEntityId \in EntityId
  /\ peer \in [Peers -> PeerState]
  /\ acks \in [Peers -> Seq(AckMessage)]
  /\ events \in [Peers -> Seq(EventMessage)]
  /\ world \in [Peers -> SUBSET WorldMessage]
  /\ phase \in Phases

ServerInit ==
  /\ players = <<>>
  /\ nextEntityId = 1
  /\ peer = [p \in Peers |-> "disconnected"]
  /\ acks = [p \in Peers |-> <<>>]
  /\ events = [p \in Peers |-> <<>>]
  /\ world = [p \in Peers |-> {}]
  /\ phase = "events"

---------------------------------------------------------------------------
(***************************************************************************)
(* ENet calls.  enet_peer_send refuses a packet unless the peer is         *)
(* connected; enet_peer_disconnect acts on a connected peer only, and      *)
(* discards what is queued for it before it queues the DISCONNECT command. *)
(***************************************************************************)

Enqueue(m, to) ==
  [q \in Peers |-> IF q \in to /\ peer[q] = "connected"
                   THEN Append(events[q], m) ELSE events[q]]

WithoutQueue(queues, p, empty) ==
  IF peer[p] = "connected" THEN [queues EXCEPT ![p] = empty] ELSE queues

EnetPeerDisconnect(p, eventQueues) ==
  /\ peer' = IF peer[p] = "connected"
             THEN [peer EXCEPT ![p] = "disconnecting"] ELSE peer
  /\ acks' = WithoutQueue(acks, p, <<>>)
  /\ events' = WithoutQueue(eventQueues, p, <<>>)
  /\ world' = WithoutQueue(world, p, {})

Others(p) == Connected \ {p}

BroadcastPlayerConnect(id, exclude) ==
  Enqueue(PlayerConnect(id), Others(exclude))

BroadcastPlayerDisconnect(id, exclude) ==
  Enqueue(PlayerDisconnect(id), Others(exclude))

Erase(p) == [q \in Others(p) |-> players[q]]

---------------------------------------------------------------------------
(***************************************************************************)
(* Phase "events": one iteration of the inner loop of main each.           *)
(***************************************************************************)

NewPlayer(id) == [id |-> id, elapsed |-> 0, hasSnapshot |-> FALSE,
                  lastSequence |-> 0, cell |-> 0]

\* A connection accepted with the id, the counter and the acknowledgement given.
Accept(p, id, nextId, ackId) ==
  /\ phase = "events"
  /\ peer[p] = "disconnected"
  /\ nextEntityId <= MaxEntityId
  /\ players' = [q \in Connected \cup {p} |->
                   IF q = p THEN NewPlayer(id) ELSE players[q]]
  /\ nextEntityId' = nextId
  /\ peer' = [peer EXCEPT ![p] = "connected"]
  /\ acks' = [acks EXCEPT ![p] = Append(@, ConnectAck(ackId))]
  /\ events' = BroadcastPlayerConnect(id, p)
  /\ UNCHANGED <<world, phase>>

\* Fault: the acknowledgement reads the counter once more.
OnConnectAckTooLate(p) == Accept(p, nextEntityId, nextEntityId + 1, nextEntityId + 1)

\* ENET_EVENT_TYPE_CONNECT.  operator[] of the map would replace an entry the
\* slot still had.
OnConnect(p) ==
  /\ phase = "events"
  /\ peer[p] = "disconnected"
  /\ nextEntityId <= MaxEntityId
  /\ players' = [q \in Connected \cup {p} |->
                   IF q = p THEN NewPlayer(nextEntityId) ELSE players[q]]
  /\ nextEntityId' = nextEntityId + 1
  /\ peer' = [peer EXCEPT ![p] = "connected"]
  /\ acks' = [acks EXCEPT ![p] = Append(@, ConnectAck(nextEntityId))]
  /\ events' = BroadcastPlayerConnect(nextEntityId, p)
  /\ UNCHANGED <<world, phase>>

\* Faults: the player stays in the map, or nobody is told.
OnDisconnectKeepsPlayer(p) ==
  /\ phase = "events"
  /\ peer[p] \in {"zombie", "disconnecting"}
  /\ peer' = [peer EXCEPT ![p] = "disconnected"]
  /\ events' = IF p \in Connected
               THEN BroadcastPlayerDisconnect(players[p].id, p) ELSE events
  /\ UNCHANGED <<players, nextEntityId, acks, world, phase>>

OnDisconnectSilent(p) ==
  /\ phase = "events"
  /\ peer[p] \in {"zombie", "disconnecting"}
  /\ peer' = [peer EXCEPT ![p] = "disconnected"]
  /\ players' = Erase(p)
  /\ UNCHANGED <<events, nextEntityId, acks, world, phase>>

\* ENET_EVENT_TYPE_DISCONNECT: of a lost connection, or the late answer to the
\* server's own enet_peer_disconnect, whose player is gone from the map already.
OnDisconnect(p) ==
  /\ phase = "events"
  /\ peer[p] \in {"zombie", "disconnecting"}
  /\ peer' = [peer EXCEPT ![p] = "disconnected"]
  /\ IF p \in Connected
     THEN /\ events' = BroadcastPlayerDisconnect(players[p].id, p)
          /\ players' = Erase(p)
     ELSE UNCHANGED <<events, players>>
  /\ UNCHANGED <<nextEntityId, acks, world, phase>>

\* case MSG_HEARTBEAT
OnHeartbeat(p, m) ==
  /\ m.type = "Heartbeat"
  /\ players' = [players EXCEPT ![p].elapsed = 0]
  /\ UNCHANGED <<nextEntityId, phase, enetVars>>

\* Faults: the connection, or the player, is left.
OnDisconnectMessageKeepsPeer(p, m) ==
  /\ m.type = "Disconnect"
  /\ players' = Erase(p)
  /\ events' = BroadcastPlayerDisconnect(players[p].id, p)
  /\ UNCHANGED <<nextEntityId, phase, peer, acks, world>>

OnDisconnectMessageKeepsPlayer(p, m) ==
  /\ m.type = "Disconnect"
  /\ events' = BroadcastPlayerDisconnect(players[p].id, p)
  /\ UNCHANGED <<players, nextEntityId, phase, peer, acks, world>>

\* case MSG_DISCONNECT
OnDisconnectMessage(p, m) ==
  /\ m.type = "Disconnect"
  /\ players' = Erase(p)
  /\ EnetPeerDisconnect(p, BroadcastPlayerDisconnect(players[p].id, p))
  /\ UNCHANGED <<nextEntityId, phase>>

\* case MSG_PLAYER_SNAPSHOT: the sequence number is stored, not compared.
OnPlayerSnapshot(p, m) ==
  /\ m.type = "PlayerSnapshot"
  /\ m.id = players[p].id
  /\ players' = [players EXCEPT ![p].hasSnapshot = TRUE,
                                ![p].lastSequence = m.sequence,
                                ![p].cell = m.cell]
  /\ UNCHANGED <<nextEntityId, phase, enetVars>>

\* Fault: the fire is relayed for whoever the message names.
OnPlayerFireOfAnyone(p, m) ==
  /\ m.type = "PlayerFire"
  /\ events' = Enqueue(RemoteFire(m.id), Others(p))
  /\ UNCHANGED <<appVars, peer, acks, world>>

\* case MSG_PLAYER_FIRE
OnPlayerFire(p, m) ==
  /\ m.type = "PlayerFire"
  /\ m.id = players[p].id
  /\ events' = Enqueue(RemoteFire(m.id), Others(p))
  /\ UNCHANGED <<appVars, peer, acks, world>>

\* The early exits of HandleReceive: no player on this peer, or a message that
\* carries another player's id.
OnIgnored(p, m) ==
  /\ \/ p \notin Connected
     \/ m.type \in {"PlayerSnapshot", "PlayerFire"} /\ m.id # players[p].id
  /\ UNCHANGED serverVars

\* ENET_EVENT_TYPE_RECEIVE, which ENet raises for a connected peer only.
HandleReceive(p, m) ==
  /\ phase = "events"
  /\ peer[p] = "connected"
  /\ \/ /\ p \in Connected
        /\ \/ OnHeartbeat(p, m)
           \/ OnDisconnectMessage(p, m)
           \/ OnPlayerSnapshot(p, m)
           \/ OnPlayerFire(p, m)
     \/ OnIgnored(p, m)

\* The inner loop ends: 10 ms passed without an event.
EndEvents ==
  /\ phase = "events"
  /\ \A p \in Peers : peer[p] # "zombie"
  /\ phase' = "timeouts"
  /\ UNCHANGED <<players, nextEntityId, enetVars>>

---------------------------------------------------------------------------
(***************************************************************************)
(* Phase "timeouts": CheckTimeouts, one dropped player at a time.          *)
(***************************************************************************)

Expired == {p \in Connected : players[p].elapsed > HEARTBEAT_TIMEOUT}

\* Fault: nobody is told.
ExpireSilent(p) ==
  /\ phase = "timeouts"
  /\ p \in Expired
  /\ \A q \in Expired : p <= q
  /\ EnetPeerDisconnect(p, events)
  /\ players' = Erase(p)
  /\ UNCHANGED <<nextEntityId, phase>>

\* The map is iterated in slot order: those dropped earlier in the pass are no
\* longer told of those dropped later.
Expire(p) ==
  /\ phase = "timeouts"
  /\ p \in Expired
  /\ \A q \in Expired : p <= q
  /\ EnetPeerDisconnect(p, BroadcastPlayerDisconnect(players[p].id, p))
  /\ players' = Erase(p)
  /\ UNCHANGED <<nextEntityId, phase>>

\* Fault: the pass stops before the end of the map.
EndTimeoutsEarly ==
  /\ phase = "timeouts"
  /\ phase' = "broadcast"
  /\ UNCHANGED <<players, nextEntityId, enetVars>>

EndTimeouts ==
  /\ phase = "timeouts"
  /\ Expired = {}
  /\ phase' = "broadcast"
  /\ UNCHANGED <<players, nextEntityId, enetVars>>

---------------------------------------------------------------------------
(***************************************************************************)
(* Phase "broadcast": g_broadcastAccum decides how many snapshots are due; *)
(* several in one pass are identical, so none or one stands for all.       *)
(***************************************************************************)

\* Faults: the recipient's own state is packed too; the test of hasSnapshot is
\* inverted.
SnapshotForWithOwn(q) ==
  {EntityState(players[o].id, players[o].cell) :
     o \in {p \in Connected : players[p].hasSnapshot}}

SnapshotForInverted(q) ==
  {EntityState(players[o].id, players[o].cell) :
     o \in {p \in Others(q) : ~players[p].hasSnapshot}}

\* The EntityStates packed for the player on slot q.
SnapshotFor(q) ==
  {EntityState(players[o].id, players[o].cell) :
     o \in {p \in Others(q) : players[p].hasSnapshot}}

\* Recipients of BroadcastWorldSnapshots whose packet enet_peer_send accepts.
Recipients ==
  {q \in Connected : /\ peer[q] = "connected"
                     /\ SnapshotFor(q) # {}
                     /\ Cardinality(world[q]) < MaxInFlight}

BroadcastWorldSnapshots ==
  /\ phase = "broadcast"
  /\ phase' = "events"
  /\ world' = [q \in Peers |-> IF q \in Recipients
                               THEN world[q] \cup {WorldSnapshot(SnapshotFor(q))}
                               ELSE world[q]]
  /\ UNCHANGED <<players, nextEntityId, peer, acks, events>>

NoBroadcastDue ==
  /\ phase = "broadcast"
  /\ phase' = "events"
  /\ UNCHANGED <<players, nextEntityId, enetVars>>

---------------------------------------------------------------------------
(***************************************************************************)
(* The environment.                                                        *)
(***************************************************************************)

\* Time passes while the loop waits in enet_host_service.
Tick ==
  /\ phase = "events"
  /\ players' = [p \in Connected |->
                   [players[p] EXCEPT !.elapsed =
                      IF @ > HEARTBEAT_TIMEOUT THEN @ ELSE @ + 1]]
  /\ UNCHANGED <<nextEntityId, phase, enetVars>>

\* The remote host closes the connection, or ENet's own timeout gives it up:
\* both discard the queues and leave a DISCONNECT event to be dispatched.
ConnectionLost(p) ==
  /\ phase = "events"
  /\ peer[p] = "connected"
  /\ peer' = [peer EXCEPT ![p] = "zombie"]
  /\ acks' = [acks EXCEPT ![p] = <<>>]
  /\ events' = [events EXCEPT ![p] = <<>>]
  /\ world' = [world EXCEPT ![p] = {}]
  /\ UNCHANGED appVars

\* A reliable channel delivers in order; an unsequenced datagram arrives at any
\* time, or never.
DeliverAck(p) ==
  /\ acks[p] # <<>>
  /\ acks' = [acks EXCEPT ![p] = Tail(@)]
  /\ UNCHANGED <<appVars, peer, events, world>>

DeliverEvent(p) ==
  /\ events[p] # <<>>
  /\ events' = [events EXCEPT ![p] = Tail(@)]
  /\ UNCHANGED <<appVars, peer, acks, world>>

LeaveNetwork(p, w) ==
  /\ w \in world[p]
  /\ world' = [world EXCEPT ![p] = @ \ {w}]
  /\ UNCHANGED <<appVars, peer, acks, events>>

\* What a client may send: anything the message types allow, an id that is not
\* its own included.
ClientMessages ==
  {Heartbeat, Disconnect}
  \cup {PlayerSnapshot(id, s, c) :
          id \in 1 .. MaxEntityId, s \in SnapshotSeqs, c \in Cells}
  \cup {PlayerFire(id) : id \in {i \in 1 .. MaxEntityId :
                                  \A q \in Peers : Len(events[q]) < MaxQueue}}

---------------------------------------------------------------------------
\* The loop of main: what the server does by itself.
MainLoop ==
  \/ EndEvents
  \/ \E p \in Peers : OnDisconnect(p) \/ Expire(p)
  \/ EndTimeouts
  \/ BroadcastWorldSnapshots
  \/ NoBroadcastDue

Next ==
  \/ MainLoop
  \/ Tick
  \/ \E p \in Peers :
       \/ OnConnect(p)
       \/ \E m \in ClientMessages : HandleReceive(p, m)
       \/ ConnectionLost(p)
       \/ DeliverAck(p)
       \/ DeliverEvent(p)
       \/ \E w \in world[p] : LeaveNetwork(p, w)

Spec == ServerInit /\ [][Next]_serverVars

\* The loop keeps turning, which needs pauses of 10 ms in the traffic, and its
\* clock makes a broadcast due again and again.  A datagram is not under way
\* for ever.
Fairness ==
  /\ WF_serverVars(MainLoop)
  /\ WF_serverVars(EndEvents)
  /\ \A p \in Peers : WF_serverVars(Expire(p))
  /\ SF_serverVars(BroadcastWorldSnapshots)
  /\ \A p \in Peers : WF_serverVars(\E w \in world[p] : LeaveNetwork(p, w))

FairSpec == Spec /\ Fairness
---------------------------------------------------------------------------
(***************************************************************************)
(* Safety.                                                                 *)
(***************************************************************************)

\* Every player's peer is one ENet still has a connection or a DISCONNECT event
\* for, and every connected peer has a player.  So a slot ENet reuses is free
\* in g_players as well, and the CONNECT handler never replaces an entry whose
\* departure nobody was told of.
PlayersMatchPeers ==
  \A p \in Peers :
    /\ p \in Connected => peer[p] \in {"connected", "zombie"}
    /\ peer[p] = "connected" => p \in Connected

\* Two players never share a NetEntityId, and the counter is past them all.
IdsUnique ==
  \A p \in Connected :
    /\ players[p].id < nextEntityId
    /\ \A q \in Connected : players[p].id = players[q].id => p = q

\* The id a client is told by MSG_CONNECT_ACK is the one the server compares
\* its snapshots and fire events with.
AckMatchesPlayer ==
  \A p \in Peers : \A i \in 1 .. Len(acks[p]) :
    p \in Connected /\ acks[p][i].id = players[p].id

\* On the reliable event channel PLAYER_DISCONNECT is the last word on an id: no
\* fire, connect or second disconnect of it follows, and it has left the map.
DisconnectIsFinal ==
  \A p \in Peers : \A i \in 1 .. Len(events[p]) :
    events[p][i].type = "PlayerDisconnect" =>
      /\ events[p][i].id \notin LiveIds
      /\ \A j \in i + 1 .. Len(events[p]) : events[p][j].id # events[p][i].id

\* No client is ever sent an event or a state of its own player, whatever slots
\* were reused: the receiving side has no filter and would spawn an avatar of
\* the local player.
NeverAboutRecipient ==
  \A p \in Connected :
    /\ \A i \in 1 .. Len(events[p]) : events[p][i].id # players[p].id
    /\ \A w \in world[p] : \A s \in w.states : s.id # players[p].id

\* The ids of a queue were handed out, and a slot without a connection has
\* nothing queued for it.
QueuesIssued ==
  \A p \in Peers :
    /\ \A i \in 1 .. Len(events[p]) : events[p][i].id < nextEntityId
    /\ \A w \in world[p] : \A s \in w.states : s.id < nextEntityId
    /\ peer[p] # "connected" => /\ acks[p] = <<>>
                               /\ events[p] = <<>>
                               /\ world[p] = {}

\* What is stored of a player that has sent a snapshot is a snapshot's.
StoredCells ==
  \A p \in Connected : players[p].hasSnapshot => players[p].cell \in Cells

\* The inductive invariant.
IInv ==
  /\ TypeOK
  /\ PlayersMatchPeers
  /\ IdsUnique
  /\ QueuesIssued
  /\ StoredCells
  /\ AckMatchesPlayer
  /\ DisconnectIsFinal
  /\ NeverAboutRecipient

---------------------------------------------------------------------------
(***************************************************************************)
(* What a step may never do.                                               *)
(***************************************************************************)

\* A player that leaves the map, by whichever of the three paths, is announced
\* in that very step to every player that stays and still has a connection.
Announced(id, q) ==
  /\ Len(events'[q]) = Len(events[q]) + 1
  /\ events'[q][Len(events'[q])] = PlayerDisconnect(id)

DeparturesAnnounced ==
  [][\A p \in Connected \ Connected' : \A q \in Connected' :
       peer[q] = "connected" => Announced(players[p].id, q)]_serverVars

\* A NetEntityId whose player has left is never given to another player.
IdsNeverReturn ==
  [][\A p \in Connected' :
       players'[p].id < nextEntityId => players'[p].id \in LiveIds]_serverVars

---------------------------------------------------------------------------
(***************************************************************************)
(* What the server implements.                                             *)
(***************************************************************************)
Promise == INSTANCE Roster WITH
  roster    <- [p \in Connected |-> players[p].id],
  next      <- nextEntityId,
  listening <- {p \in Peers : peer[p] = "connected"},
  feed      <- events

\* To its players the server is no more than a roster: whatever the order of
\* timeouts, lost connections, goodbyes, reused slots and late ENet events, each
\* departure is one Leave, each fire the sender's own, and nothing else is told.
RosterSpec == Promise!Spec

---------------------------------------------------------------------------
(***************************************************************************)
(* Liveness.                                                               *)
(***************************************************************************)

\* A player whose heartbeats stop is dropped, unless one arrives after all.
SilentPlayersLeave ==
  \A p \in Peers :
    (p \in Connected /\ players[p].elapsed > HEARTBEAT_TIMEOUT)
      ~> (p \notin Connected \/ players[p].elapsed = 0)

\* While both stay connected, a player's stored snapshot is put on its way to
\* every other player.
Relayed(p, q) ==
  \E w \in world[q] : \E s \in w.states : s.id = players[p].id

SnapshotsRelayed ==
  \A p, q \in Peers :
    (p # q /\ {p, q} \subseteq Connected /\ players[p].hasSnapshot)
      ~> (~({p, q} \subseteq Connected) \/ Relayed(p, q)
          \/ peer[q] # "connected")
=============================================================================
