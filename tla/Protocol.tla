------------------------------ MODULE Protocol ------------------------------
(***************************************************************************)
(* The message set of shared/protocol.h, exchanged by server.exe and the   *)
(* client plug-in fnvmp.dll over one ENet host each.                       *)
(*                                                                         *)
(* A message is a record with a "type" and the fields some property tells  *)
(* apart.  Of the pose fields of MsgPlayerSnapshot and EntityState         *)
(* (position, rotation, movement, weapon, action) only the cell decides    *)
(* what client and server do; the pose travels with it unchanged and is    *)
(* the subject of Interpolation.                                           *)
(***************************************************************************)
EXTENDS Naturals, FiniteSets, Sequences

CONSTANTS
  MAX_PLAYERS,        \* peers of the server's ENet host (8 in the code)
  HEARTBEAT_TIMEOUT,  \* in clock ticks (10 s in the code)
  Cells,              \* refIDs of the game cells players can be in
  SnapshotSeqs        \* values of MsgPlayerSnapshot.sequence considered

ASSUME MaxPlayersAssumption == MAX_PLAYERS \in Nat \ {0}
ASSUME HeartbeatTimeoutAssumption == HEARTBEAT_TIMEOUT \in Nat
ASSUME SnapshotSeqsAssumption == SnapshotSeqs \subseteq Nat /\ 0 \in SnapshotSeqs

\* ENetPeer* handed out by the server's host: the slots of one array, so the
\* pointer order std::map iterates in is the order of the slot numbers.
Peers == 1 .. MAX_PLAYERS

\* NetEntityId; 0 is the id a client holds while it has none.
EntityId == Nat \ {0}

---------------------------------------------------------------------------
\* server -> client, CHANNEL_SYSTEM
ConnectAck(id) == [type |-> "ConnectAck", id |-> id]

\* server -> client, CHANNEL_GAME_EVENTS
PlayerConnect(id)    == [type |-> "PlayerConnect", id |-> id]
PlayerDisconnect(id) == [type |-> "PlayerDisconnect", id |-> id]
RemoteFire(id)       == [type |-> "RemoteFire", id |-> id]

\* server -> client, CHANNEL_UNRELIABLE: one EntityState for every other player
EntityState(id, cell)  == [id |-> id, cell |-> cell]
WorldSnapshot(states)  == [type |-> "WorldSnapshot", states |-> states]

\* client -> server, in the order of CHANNEL_SYSTEM, CHANNEL_UNRELIABLE and
\* CHANNEL_GAME_EVENTS
Heartbeat  == [type |-> "Heartbeat"]
Disconnect == [type |-> "Disconnect"]
PlayerSnapshot(id, seq, cell) ==
  [type |-> "PlayerSnapshot", id |-> id, sequence |-> seq, cell |-> cell]
PlayerFire(id) == [type |-> "PlayerFire", id |-> id]

EventMessage ==
  [type : {"PlayerConnect", "PlayerDisconnect", "RemoteFire"}, id : EntityId]

AckMessage == [type : {"ConnectAck"}, id : EntityId]

EntityStates == [id : EntityId, cell : Cells]

WorldMessage == [type : {"WorldSnapshot"}, states : SUBSET EntityStates]
=============================================================================
