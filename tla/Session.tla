------------------------------- MODULE Session -------------------------------
(***************************************************************************)
(* The server and one of its clients, joined by the network: the slot Me   *)
(* of the server's host is the peer of the client modelled in Client, the  *)
(* other slots belong to players of whom only the messages are modelled.   *)
(*                                                                         *)
(* The two reliable channels deliver in order each, but not in order with  *)
(* one another or with the datagrams of the third, which may overtake,     *)
(* fall behind or get lost.  Either end may give the connection up without *)
(* the other.  The client connects once, as the plug-in does, and its slot *)
(* is not used by others.                                                  *)
(***************************************************************************)
EXTENDS Server, Client

CONSTANT Me  \* the client's slot

ASSUME MeAssumption == Me \in Peers

VARIABLES
  myId,  \* history: the id OnConnect gave to the client, 0 before
  told   \* history: ids whose PLAYER_DISCONNECT the client has polled

historyVars == <<myId, told>>
vars == <<serverVars, clientVars, historyVars>>

SessionInit ==
  /\ ServerInit
  /\ ClientInit
  /\ myId = 0
  /\ told = {}

---------------------------------------------------------------------------
\* The server's CONNECT event, raised when the client has answered its handshake.
Join ==
  /\ myId = 0
  /\ link = "connected"
  /\ OnConnect(Me)
  /\ myId' = nextEntityId
  /\ UNCHANGED <<clientVars, told>>

\* What the server does by itself, for any player.
ServerStep ==
  /\ MainLoop \/ Tick
  /\ UNCHANGED <<clientVars, historyVars>>

\* Another player's connection and messages.
OtherPlayers ==
  /\ \E p \in Peers \ {Me} :
       \/ OnConnect(p)
       \/ \E m \in ClientMessages : HandleReceive(p, m)
       \/ ConnectionLost(p)
  /\ UNCHANGED <<clientVars, historyVars>>

\* What the other players are sent is not looked at.
ServeOthers ==
  /\ \E p \in Peers \ {Me} :
       DeliverAck(p) \/ DeliverEvent(p) \/ \E w \in world[p] : LeaveNetwork(p, w)
  /\ UNCHANGED <<clientVars, historyVars>>

OthersServed ==
  \A p \in Peers \ {Me} : acks[p] = <<>> /\ events[p] = <<>> /\ world[p] = {}

\* Server to client, on its three channels.
ReceiveAck ==
  /\ acks[Me] # <<>>
  /\ Network(Arrive(Head(acks[Me])))
  /\ DeliverAck(Me)
  /\ UNCHANGED historyVars

ReceiveEvent ==
  /\ events[Me] # <<>>
  /\ Network(Arrive(Head(events[Me])))
  /\ DeliverEvent(Me)
  /\ UNCHANGED historyVars

ReceiveSnapshot ==
  /\ \E w \in world[Me] : Network(Arrive(w)) /\ LeaveNetwork(Me, w)
  /\ UNCHANGED historyVars

\* A datagram is lost, in either direction.
LoseSnapshot ==
  /\ \E w \in world[Me] : LeaveNetwork(Me, w)
  /\ UNCHANGED <<clientVars, historyVars>>

LosePlayerSnapshot ==
  /\ \E m \in upSnapshots : TakeSnapshot(m)
  /\ UNCHANGED <<serverVars, managerVars, frame, historyVars>>

\* Client to server.
ServerReceives ==
  /\ \/ upSystem # <<>> /\ HandleReceive(Me, Head(upSystem)) /\ TakeSystem
     \/ upEvents # <<>> /\ HandleReceive(Me, Head(upEvents)) /\ TakeEvent
     \/ \E m \in upSnapshots : HandleReceive(Me, m) /\ TakeSnapshot(m)
  /\ UNCHANGED <<managerVars, frame, historyVars>>

\* Each end gives the connection up by itself: it was told that the other end
\* closed it, or has waited for ENet's timeout.
ServerLosesClient ==
  /\ ConnectionLost(Me)
  /\ UNCHANGED <<clientVars, historyVars>>

ClientLink ==
  /\ Network(LinkEstablished) \/ Network(LinkLost)
  /\ UNCHANGED <<serverVars, historyVars>>

\* A step of the plug-in, of which told remembers the disconnects it has read.
ClientStep ==
  /\ PluginStep \/ Engine
  /\ told' = IF /\ frame = "poll" /\ inbox' # inbox
                /\ Head(inbox).type = "PlayerDisconnect"
             THEN told \cup {Head(inbox).id} ELSE told
  /\ UNCHANGED <<serverVars, myId>>

\* Two reductions, of steps that commute with all others: what is sent to the
\* other players is taken away first, and the frame that follows a Poll, which
\* only touches the client's own state, runs through.
SessionNext ==
  \/ ServeOthers
  \/ OthersServed /\ ClientStep
  \/ /\ OthersServed
     /\ frame \in {"idle", "poll", "leaving", "exited"}
     /\ \/ Join \/ ServerStep \/ OtherPlayers \/ ServerLosesClient \/ ServerReceives
        \/ ReceiveAck \/ ReceiveEvent \/ ReceiveSnapshot
        \/ LoseSnapshot \/ LosePlayerSnapshot
        \/ ClientLink

SessionSpec == SessionInit /\ [][SessionNext]_vars

---------------------------------------------------------------------------
SessionTypeOK == TypeOK /\ ClientTypeOK /\ myId \in Nat /\ told \subseteq EntityId

\* The states the client holds or that are on their way to it.
StatesForClient ==
  worldEntities
  \cup (UNION {w.states : w \in world[Me]})
  \cup (UNION {inbox[i].states : i \in {j \in DOMAIN inbox : inbox[j].type = "WorldSnapshot"}})

\* The ids whose departure is still on its way to the client.
Departing ==
  {events[Me][i].id : i \in {j \in DOMAIN events[Me] : events[Me][j].type = "PlayerDisconnect"}}
  \cup {inbox[i].id : i \in {j \in DOMAIN inbox : inbox[j].type = "PlayerDisconnect"}}

\* The client never shows its own player as an avatar, and never a player that
\* does not exist, however acknowledgement, snapshots and events overtake each
\* other: neither the snapshots nor the events carry a filter of their own.
NoSelfAvatar ==
  /\ \A id \in Known \cup interp : id # myId /\ id < nextEntityId
  /\ \A s \in StatesForClient : s.id # myId

\* Client and server mean the same player: what the client sends is never ignored
\* as another player's.
IdentityAgreed ==
  /\ netEntityId \in {0, myId}
  /\ Me \in Connected => players[Me].id = myId
  /\ \A m \in upSnapshots : m.id = myId
  /\ \A i \in DOMAIN upEvents : upEvents[i].id = myId

\* While both ends have the connection, every avatar is of a player the server
\* still has, or its departure is on its way to the client or was read by it: no
\* path on which a player leaves forgets a client that may show it.
AvatarsAccounted ==
  (peer[Me] = "connected" /\ link = "connected" /\ myId # 0) =>
    Known \subseteq LiveIds \cup Departing \cup told

\* Once the client was told that a player left, no fire of that player reaches it.
NoFireAfterDeparture ==
  \A i \in DOMAIN inbox :
    inbox[i].type = "RemoteFire" =>
      /\ inbox[i].id \notin told
      /\ \A j \in 1 .. i - 1 : inbox[j] # PlayerDisconnect(inbox[i].id)

\* "On `PlayerDisconnect` event (or timeout): despawn (disable + mark for delete) the
\* remote NPC" (milestones.md): between frames a player in the game sees no avatar of a
\* player whose departure the client has read.
DepartedAreDespawned ==
  frame = "idle" /\ thePlayer => Known \cap told = {}
=============================================================================
