----------------------------- MODULE NetClient -----------------------------
(***************************************************************************)
(* net/net_client.cpp: the client's end of the connection.                 *)
(*                                                                         *)
(* "inbox" is the queue ENet dispatches RECEIVE events from: the messages  *)
(* of all channels in the order they arrived.  What the client sends goes  *)
(* to one queue per reliable channel and a set for the unsequenced one.    *)
(* Whether a heartbeat interval is over is left open here.                 *)
(***************************************************************************)
EXTENDS Protocol

CONSTANTS
  MaxInbox,   \* bound: messages and fire events that wait to be handled
  MaxUplink   \* bound: messages under way to the server

ASSUME NetClientBoundsAssumption == MaxInbox \in Nat /\ MaxUplink \in Nat

VARIABLES
  link,            \* m_peer and its ENet state
  connected,       \* m_connected
  netEntityId,     \* m_netEntityId
  hasNewSnapshot,  \* m_hasNewWorldSnapshot
  worldEntities,   \* m_worldEntities
  disconnectedEntities, \* m_disconnectedEntities
  fireEvents,      \* m_fireEvents
  snapshotSeq,     \* m_snapshotSeq
  inbox,           \* dispatched, unread messages of the ENet peer
  upSystem,        \* CHANNEL_SYSTEM messages on their way to the server
  upEvents,        \* CHANNEL_GAME_EVENTS messages on their way
  upSnapshots      \* CHANNEL_UNRELIABLE datagrams on their way

sessionVars == <<connected, netEntityId, hasNewSnapshot, worldEntities,
                 disconnectedEntities, fireEvents>>
upVars  == <<upSystem, upEvents, upSnapshots, snapshotSeq>>
netVars == <<link, connected, netEntityId, hasNewSnapshot, worldEntities,
             disconnectedEntities, fireEvents, snapshotSeq, inbox, upSystem,
             upEvents, upSnapshots>>

\* "none": m_peer is null; "zombie": the connection ended, its DISCONNECT event
\* is pending; "closing": enet_peer_disconnect was called.
LinkState == {"none", "connecting", "connected", "zombie", "closing"}

ServerMessage == EventMessage \cup AckMessage \cup WorldMessage \cup {Disconnect}

SnapshotMessages == [type : {"PlayerSnapshot"}, id : EntityId,
                     sequence : SnapshotSeqs, cell : Cells]

NetTypeOK ==
  /\ link \in LinkState
  /\ connected \in BOOLEAN
  /\ netEntityId \in Nat
  /\ hasNewSnapshot \in BOOLEAN
  /\ worldEntities \subseteq EntityStates
  /\ disconnectedEntities \subseteq EntityId
  /\ fireEvents \in Seq(EntityId)
  /\ snapshotSeq \in SnapshotSeqs
  /\ inbox \in Seq(ServerMessage)
  /\ upSystem \in Seq({Heartbeat, Disconnect})
  /\ upEvents \in Seq([type : {"PlayerFire"}, id : EntityId])
  /\ upSnapshots \subseteq SnapshotMessages

\* After Connect: enet_host_connect has queued the CONNECT command, or failed.
NetInit ==
  /\ link \in {"none", "connecting"}
  /\ connected = FALSE
  /\ netEntityId = 0
  /\ hasNewSnapshot = FALSE
  /\ worldEntities = {}
  /\ disconnectedEntities = {}
  /\ fireEvents = <<>>
  /\ snapshotSeq = 0
  /\ inbox = <<>>
  /\ upSystem = <<>>
  /\ upEvents = <<>>
  /\ upSnapshots = {}

---------------------------------------------------------------------------
UplinkFull == Len(upSystem) + Len(upEvents) + Cardinality(upSnapshots) >= MaxUplink

\* SendHeartbeat.  Send does nothing without m_peer, and enet_peer_send refuses
\* the packet unless the peer is connected.
SendHeartbeat ==
  /\ ~UplinkFull
  /\ upSystem' = IF link = "connected" THEN Append(upSystem, Heartbeat) ELSE upSystem

\* case MSG_CONNECT_ACK: the first heartbeat goes out at once.
OnConnectAck(m) ==
  /\ m.type = "ConnectAck"
  /\ netEntityId' = m.id
  /\ connected' = TRUE
  /\ SendHeartbeat
  /\ UNCHANGED <<hasNewSnapshot, worldEntities, disconnectedEntities, fireEvents,
                 snapshotSeq, upEvents, upSnapshots>>

\* case MSG_DISCONNECT
OnServerDisconnect(m) ==
  /\ m.type = "Disconnect"
  /\ connected' = FALSE
  /\ netEntityId' = 0
  /\ UNCHANGED <<hasNewSnapshot, worldEntities, disconnectedEntities, fireEvents, upVars>>

\* case MSG_WORLD_SNAPSHOT: the latest one replaces what was not used yet.
OnWorldSnapshot(m) ==
  /\ m.type = "WorldSnapshot"
  /\ worldEntities' = m.states
  /\ hasNewSnapshot' = TRUE
  /\ UNCHANGED <<connected, netEntityId, disconnectedEntities, fireEvents, upVars>>

\* case MSG_PLAYER_CONNECT: only logged.
OnPlayerConnect(m) ==
  /\ m.type = "PlayerConnect"
  /\ UNCHANGED <<sessionVars, upVars>>

\* case MSG_PLAYER_DISCONNECT
OnPlayerDisconnect(m) ==
  /\ m.type = "PlayerDisconnect"
  /\ disconnectedEntities' = disconnectedEntities \cup {m.id}
  /\ UNCHANGED <<connected, netEntityId, hasNewSnapshot, worldEntities, fireEvents, upVars>>

\* case MSG_REMOTE_FIRE
OnRemoteFire(m) ==
  /\ m.type = "RemoteFire"
  /\ fireEvents' = Append(fireEvents, m.id)
  /\ UNCHANGED <<connected, netEntityId, hasNewSnapshot, worldEntities,
                 disconnectedEntities, upVars>>

\* One RECEIVE event of the loop in Poll.
PollReceive ==
  /\ link = "connected"
  /\ inbox # <<>>
  /\ inbox' = Tail(inbox)
  /\ LET m == Head(inbox)
     IN  \/ OnConnectAck(m)
         \/ OnServerDisconnect(m)
         \/ OnWorldSnapshot(m)
         \/ OnPlayerConnect(m)
         \/ OnPlayerDisconnect(m)
         \/ OnRemoteFire(m)
  /\ UNCHANGED link

\* Fault: the session is kept.
PollDisconnectKeepsSession ==
  /\ link = "zombie"
  /\ link' = "none"
  /\ UNCHANGED <<sessionVars, inbox, upVars>>

\* The DISCONNECT event of the loop in Poll: queued events and the last snapshot
\* stay for the frame, the avatars are left to themselves.
PollDisconnect ==
  /\ link = "zombie"
  /\ link' = "none"
  /\ connected' = FALSE
  /\ netEntityId' = 0
  /\ UNCHANGED <<hasNewSnapshot, worldEntities, disconnectedEntities, fireEvents,
                 inbox, upVars>>

\* The loop finds no further event; a heartbeat follows when it is due.
PollEnd(heartbeatDue) ==
  /\ inbox = <<>>
  /\ link # "zombie"
  /\ IF connected /\ heartbeatDue
     THEN SendHeartbeat
     ELSE UNCHANGED upSystem
  /\ UNCHANGED <<link, sessionVars, snapshotSeq, inbox, upEvents, upSnapshots>>

\* SendFireEvent(GetNetEntityId())
SendFireEvent ==
  /\ connected
  /\ ~UplinkFull
  /\ upEvents' = IF link = "connected"
                 THEN Append(upEvents, PlayerFire(netEntityId)) ELSE upEvents
  /\ UNCHANGED <<link, sessionVars, snapshotSeq, inbox, upSystem, upSnapshots>>

\* The rolling number is a uint16_t: it wraps after the last of SnapshotSeqs.
NextSeq == IF snapshotSeq + 1 \in SnapshotSeqs THEN snapshotSeq + 1 ELSE 0

\* A datagram over the bound is one that is lost.
SendPlayerSnapshot(cell) ==
  /\ connected
  /\ snapshotSeq' = NextSeq
  /\ upSnapshots' = IF link = "connected" /\ ~UplinkFull
                    THEN upSnapshots \cup
                           {PlayerSnapshot(netEntityId, snapshotSeq, cell)}
                    ELSE upSnapshots
  /\ UNCHANGED <<link, sessionVars, inbox, upSystem, upEvents>>

\* Disconnect(), up to the wait: MSG_DISCONNECT is queued, and
\* enet_peer_disconnect discards all queues before it queues its own command.
\* Without an acknowledged connection the peer is reset at once.
BeginDisconnect ==
  /\ link' = IF connected /\ link = "connected" THEN "closing" ELSE "none"
  /\ inbox' = <<>>
  /\ upSystem' = <<>>
  /\ upEvents' = <<>>
  /\ upSnapshots' = {}
  /\ UNCHANGED <<sessionVars, snapshotSeq>>

\* Disconnect(), from the end of the wait: answered or not after 1 s, the host is
\* destroyed and the members are cleared.
EndDisconnect ==
  /\ link' = "none"
  /\ connected' = FALSE
  /\ netEntityId' = 0
  /\ hasNewSnapshot' = FALSE
  /\ worldEntities' = {}
  /\ disconnectedEntities' = {}
  /\ fireEvents' = <<>>
  /\ snapshotSeq' = 0
  /\ UNCHANGED <<inbox, upSystem, upEvents, upSnapshots>>

---------------------------------------------------------------------------
\* The environment: ENet completes the connection, hands over a message, takes
\* one away, or gives the connection up.  Its queues go with the connection.
LinkEstablished ==
  /\ link = "connecting"
  /\ link' = "connected"
  /\ UNCHANGED <<sessionVars, inbox, upVars>>

LinkLost ==
  /\ link \in {"connecting", "connected"}
  /\ link' = "zombie"
  /\ inbox' = <<>>
  /\ upSystem' = <<>>
  /\ upEvents' = <<>>
  /\ upSnapshots' = {}
  /\ UNCHANGED <<sessionVars, snapshotSeq>>

Arrive(m) ==
  /\ link = "connected"
  /\ Len(inbox) + Len(fireEvents) < MaxInbox
  /\ inbox' = Append(inbox, m)
  /\ UNCHANGED <<link, sessionVars, upVars>>

TakeSystem ==
  /\ upSystem # <<>>
  /\ upSystem' = Tail(upSystem)
  /\ UNCHANGED <<link, sessionVars, snapshotSeq, inbox, upEvents, upSnapshots>>

TakeEvent ==
  /\ upEvents # <<>>
  /\ upEvents' = Tail(upEvents)
  /\ UNCHANGED <<link, sessionVars, snapshotSeq, inbox, upSystem, upSnapshots>>

TakeSnapshot(m) ==
  /\ m \in upSnapshots
  /\ upSnapshots' = upSnapshots \ {m}
  /\ UNCHANGED <<link, sessionVars, snapshotSeq, inbox, upSystem, upEvents>>
=============================================================================
