------------------------------- MODULE Client -------------------------------
(***************************************************************************)
(* main.cpp: the plug-in inside one player's game.                         *)
(*                                                                         *)
(* The game engine calls MessageHandler once per frame on its main thread, *)
(* and everything the plug-in does happens in that call: "frame" is the    *)
(* step of the handler that comes next, "idle" between two calls.  ENet    *)
(* only runs inside Poll and Disconnect.  The server, the network and the  *)
(* engine are the environment.                                             *)
(***************************************************************************)
EXTENDS NetClient, EntityManager

VARIABLE frame

clientVars == <<netVars, managerVars, frame>>

Frames == {"idle", "poll", "disconnects", "fires", "snapshot", "tick",
           "attack", "send", "leaving", "exited"}

ClientTypeOK ==
  /\ NetTypeOK
  /\ ManagerTypeOK
  /\ frame \in Frames

\* After DeferredInit.
ClientInit ==
  /\ NetInit
  /\ ManagerInit
  /\ frame = "idle"

---------------------------------------------------------------------------
(***************************************************************************)
(* The steps of kMessage_MainGameLoop.                                     *)
(***************************************************************************)

BeginFrame ==
  /\ frame = "idle"
  /\ frame' = "poll"
  /\ UNCHANGED <<netVars, managerVars>>

\* Poll reads events until there is none.
Poll ==
  /\ frame = "poll"
  /\ \/ (PollReceive \/ PollDisconnect) /\ UNCHANGED frame
     \/ (\E heartbeatDue \in BOOLEAN : PollEnd(heartbeatDue)) /\ frame' = "disconnects"
  /\ UNCHANGED managerVars

ProcessDisconnects ==
  /\ frame = "disconnects"
  /\ frame' = "fires"
  /\ disconnectedEntities' = {}
  /\ EntityManager_RemoveEntities(disconnectedEntities)
  /\ UNCHANGED <<link, connected, netEntityId, hasNewSnapshot, worldEntities,
                 fireEvents, inbox, upVars>>

\* EntityManager_ApplyFireEvent only plays an animation.
ProcessFires ==
  /\ frame = "fires"
  /\ frame' = "snapshot"
  /\ fireEvents' = <<>>
  /\ UNCHANGED <<link, connected, netEntityId, hasNewSnapshot, worldEntities,
                 disconnectedEntities, inbox, upVars, managerVars>>

ProcessSnapshot ==
  /\ frame = "snapshot"
  /\ frame' = "tick"
  /\ hasNewSnapshot' = FALSE
  /\ IF hasNewSnapshot
     THEN EntityManager_UpdateFromWorldSnapshot(worldEntities)
     ELSE UNCHANGED managerVars
  /\ UNCHANGED <<link, connected, netEntityId, worldEntities,
                 disconnectedEntities, fireEvents, inbox, upVars>>

\* Fault: nothing is done while no savegame is loaded.
TickEntitiesInGameOnly ==
  /\ frame = "tick"
  /\ frame' = "attack"
  /\ IF GetLocalPlayerCellID = 0
     THEN UNCHANGED managerVars
     ELSE \E placed \in SUBSET ToSpawn : EntityManager_Tick(placed)
  /\ UNCHANGED netVars

TickEntities ==
  /\ frame = "tick"
  /\ frame' = "attack"
  /\ \E placed \in SUBSET ToSpawn : EntityManager_Tick(placed)
  /\ UNCHANGED netVars

\* The player's animation may just have become an attack.
DetectAttack ==
  /\ frame = "attack"
  /\ frame' = "send"
  /\ \/ thePlayer /\ SendFireEvent
     \/ UNCHANGED netVars
  /\ UNCHANGED managerVars

\* g_snapshotAccum may have reached SNAPSHOT_SEND_INTERVAL.
SendSnapshot ==
  /\ frame = "send"
  /\ frame' = "idle"
  /\ \/ GetLocalPlayerCellID # 0 /\ SendPlayerSnapshot(localCell)
     \/ UNCHANGED netVars
  /\ UNCHANGED managerVars

---------------------------------------------------------------------------
\* Fault: only the connection is closed.
ExitGameKeepsAvatars ==
  /\ frame = "idle"
  /\ frame' = "leaving"
  /\ BeginDisconnect
  /\ UNCHANGED managerVars

\* kMessage_ExitGame: the avatars go first, then the connection, which may keep
\* the game waiting for the server's answer.
ExitGame ==
  /\ frame = "idle"
  /\ frame' = "leaving"
  /\ EntityManager_Shutdown
  /\ BeginDisconnect

FinishExit ==
  /\ frame = "leaving"
  /\ frame' = "exited"
  /\ EndDisconnect
  /\ UNCHANGED managerVars

---------------------------------------------------------------------------
(***************************************************************************)
(* The environment.  Messages arrive and connections break while ENet      *)
(* runs, the engine acts between two frames.                               *)
(***************************************************************************)

Network(step) ==
  /\ frame = "poll"
  /\ step
  /\ UNCHANGED <<managerVars, frame>>

Engine ==
  /\ frame = "idle"
  /\ Travel \/ LoadSavegame
  /\ UNCHANGED <<netVars, frame>>

\* The plug-in's own steps.
PluginStep ==
  \/ BeginFrame \/ Poll \/ ProcessDisconnects \/ ProcessFires \/ ProcessSnapshot
  \/ TickEntities \/ DetectAttack \/ SendSnapshot
  \/ ExitGame \/ FinishExit

\* A queue of the client loses its head to the network at any time.
Uplink ==
  /\ TakeSystem \/ TakeEvent \/ \E m \in upSnapshots : TakeSnapshot(m)
  /\ UNCHANGED <<managerVars, frame>>

ClientNext(messages) ==
  \/ PluginStep
  \/ Network(LinkEstablished)
  \/ Network(LinkLost)
  \/ \E m \in messages : Network(Arrive(m))
  \/ Engine
  \/ Uplink

ClientSpec(messages) == ClientInit /\ [][ClientNext(messages)]_clientVars

---------------------------------------------------------------------------
\* No two avatars share an NPC, and no placed NPC is without its avatar: none is
\* left behind in the game when spawns, disconnects and snapshots of the same
\* player cross in one frame, or fall in frames that could not process them.
NoOrphans ==
  /\ npcs \subseteq {entities[id] : id \in Spawned}
  /\ \A i, j \in Spawned : entities[i] = entities[j] => i = j
  /\ \A id \in Spawned : entities[id] < nextRef

\* An avatar that has no NPC yet is still queued for one, a queued spawn or
\* despawn is for an avatar that exists, and an avatar that is not about to go
\* has the samples that position it.
AvatarsComplete ==
  /\ Known \ Spawned \subseteq pendingSpawns
  /\ pendingDespawns \cup pendingSpawns \subseteq Known
  /\ Known \ pendingDespawns \subseteq interp

\* With a player in the game no frame ends with an operation still pending.
FramesComplete ==
  frame \in {"attack", "send"} /\ thePlayer =>
    pendingSpawns = {} /\ pendingDespawns = {} /\ Known = Spawned

\* IsConnected() is only true of a session that has an id, over a connection that
\* was acknowledged and whose end was not noticed yet, so no message is sent with
\* id 0.
SessionConsistent ==
  /\ connected => netEntityId # 0 /\ link \in {"connected", "zombie", "closing"}
  /\ \A m \in upSnapshots : m.id # 0
  /\ netEntityId # 0 <=> connected

\* Once the game is left nothing of it remains: no NPC, no avatar, no message
\* that a later frame could use.
ExitIsClean ==
  frame = "exited" =>
    /\ npcs = {} /\ Known = {} /\ interp = {}
    /\ pendingSpawns \cup pendingDespawns = {}
    /\ ~connected /\ link = "none" /\ disconnectedEntities = {} /\ fireEvents = <<>>
=============================================================================
