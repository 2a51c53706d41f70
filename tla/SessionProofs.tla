---------------------------- MODULE SessionProofs ----------------------------
(***************************************************************************)
(* Proofs about Client and about Session.                                  *)
(*                                                                         *)
(* Client, for every server: whatever messages arrive, in whatever order,  *)
(* whatever the engine does in between.  All that is assumed of a message  *)
(* is its form, and that the ids in it do not exceed some number;          *)
(* NetEntityId is a uint32_t.                                              *)
(*                                                                         *)
(* Session, from the invariants of its two ends: what the server           *)
(* guarantees of the queues of slot Me and what the plug-in makes of any   *)
(* messages meet in the client's inbox.                                    *)
(***************************************************************************)
EXTENDS Session, ServerProofs, FiniteSetTheorems, TLAPS

---------------------------------------------------------------------------
(***************************************************************************)
(* The client's invariant.                                                 *)
(***************************************************************************)

\* The ids in the states of a snapshot.
StatesUpTo(states, maxId) == \A s \in states : s.id <= maxId

MessageUpTo(m, maxId) ==
  m.type = "WorldSnapshot" => StatesUpTo(m.states, maxId)

\* What may arrive.
Messages(maxId) == {m \in ServerMessage : MessageUpTo(m, maxId)}

\* The network client, by itself.
NetInv(maxId) ==
  /\ NetTypeOK
  /\ SessionConsistent
  /\ StatesUpTo(worldEntities, maxId)
  /\ inbox \in Seq(Messages(maxId))

\* The avatars and their NPCs, by themselves.
ManagerInv(maxId) ==
  /\ ManagerTypeOK
  /\ NoOrphans
  /\ AvatarsComplete
  /\ \A id \in Known : id <= maxId

\* A broken connection is noticed in the Poll it breaks in.
LinkInFrame ==
  /\ frame # "poll" => link # "zombie"
  /\ frame \notin {"leaving", "exited"} => link # "closing"

\* The avatars are gone before the wait for the server's answer begins.
AvatarsGone ==
  frame \in {"leaving", "exited"} =>
    /\ npcs = {} /\ Known = {} /\ interp = {}
    /\ pendingSpawns \cup pendingDespawns = {}

\* The two, and where in the frame they are.
ClientIInv(maxId) ==
  /\ frame \in Frames
  /\ NetInv(maxId)
  /\ ManagerInv(maxId)
  /\ LinkInFrame
  /\ AvatarsGone
  /\ FramesComplete
  /\ ExitIsClean

---------------------------------------------------------------------------
(***************************************************************************)
(* The network client.                                                     *)
(***************************************************************************)

\* A message says by its type what it is.
LEMMA MessageKinds ==
  ASSUME NEW m \in ServerMessage
  PROVE  /\ m.type \in {"ConnectAck", "PlayerDisconnect", "PlayerConnect", "RemoteFire"}
              => m.id \in EntityId
         /\ m.type = "WorldSnapshot" => m.states \subseteq EntityStates
<1>1. CASE m \in EventMessage BY <1>1 DEF EventMessage
<1>2. CASE m \in AckMessage BY <1>2 DEF AckMessage
<1>3. CASE m \in WorldMessage BY <1>3 DEF WorldMessage
<1>4. CASE m = Disconnect BY <1>4 DEF Disconnect
<1> QED BY <1>1, <1>2, <1>3, <1>4 DEF ServerMessage

\* The first of a queue, and the rest of it.
LEMMA HeadAndTail ==
  ASSUME NEW S, NEW s \in Seq(S), s # <<>>
  PROVE  Head(s) \in S /\ Tail(s) \in Seq(S)
  OBVIOUS

LEMMA AppendType ==
  ASSUME NEW S, NEW s \in Seq(S), NEW m \in S
  PROVE  Append(s, m) \in Seq(S)
  OBVIOUS

LEMMA HeartbeatKeeps ==
  ASSUME NetTypeOK, SendHeartbeat
  PROVE  upSystem' \in Seq({Heartbeat, Disconnect})
  BY AppendType DEF NetTypeOK, SendHeartbeat

LEMMA ReceiveKeeps ==
  ASSUME NEW maxId \in Nat, NetInv(maxId), PollReceive
  PROVE  NetInv(maxId)'
<1> DEFINE m == Head(inbox)
<1> USE DEF NetInv
<1>1. m \in Messages(maxId) /\ inbox' \in Seq(Messages(maxId))
  BY HeadAndTail DEF PollReceive
<1>2. m \in ServerMessage /\ MessageUpTo(m, maxId) BY <1>1 DEF Messages
<1>3. inbox \in Seq(ServerMessage) /\ inbox # <<>> BY DEF NetTypeOK, PollReceive
<1>4. inbox' \in Seq(ServerMessage) BY <1>3, HeadAndTail DEF PollReceive
<1>5. link = "connected" /\ link' = link BY DEF PollReceive
<1> HIDE DEF m
<1>6. CASE OnConnectAck(m)
  <2>1. netEntityId' \in EntityId /\ connected' = TRUE
    BY <1>2, <1>6, MessageKinds DEF OnConnectAck
  <2>2. upSystem' \in Seq({Heartbeat, Disconnect})
    BY <1>6, HeartbeatKeeps DEF OnConnectAck
  <2>3. UNCHANGED <<hasNewSnapshot, worldEntities, disconnectedEntities, fireEvents,
                    snapshotSeq, upEvents, upSnapshots>>
    BY <1>6 DEF OnConnectAck
  <2>   QED BY <2>1, <2>2, <2>3, <1>1, <1>4, <1>5
            DEF NetTypeOK, SessionConsistent, EntityId, StatesUpTo
<1>7. CASE OnServerDisconnect(m)
  BY <1>1, <1>4, <1>5, <1>7
  DEF NetTypeOK, SessionConsistent, StatesUpTo, OnServerDisconnect, upVars
<1>8. CASE OnWorldSnapshot(m)
  <2>1. worldEntities' \subseteq EntityStates /\ StatesUpTo(worldEntities', maxId)
    BY <1>2, <1>8, MessageKinds DEF OnWorldSnapshot, MessageUpTo
  <2>   QED BY <2>1, <1>1, <1>4, <1>5, <1>8
            DEF NetTypeOK, SessionConsistent, StatesUpTo, OnWorldSnapshot, upVars
<1>9. CASE OnPlayerConnect(m)
  BY <1>1, <1>4, <1>5, <1>9
  DEF NetTypeOK, SessionConsistent, StatesUpTo, OnPlayerConnect, sessionVars, upVars
<1>10. CASE OnPlayerDisconnect(m)
  <2>1. m.id \in EntityId BY <1>2, <1>10, MessageKinds DEF OnPlayerDisconnect
  <2>   QED BY <2>1, <1>1, <1>4, <1>5, <1>10
            DEF NetTypeOK, SessionConsistent, StatesUpTo, OnPlayerDisconnect, upVars
<1>11. CASE OnRemoteFire(m)
  <2>1. m.id \in EntityId BY <1>2, <1>11, MessageKinds DEF OnRemoteFire
  <2>2. fireEvents' \in Seq(EntityId)
    BY <2>1, <1>11, AppendType DEF NetTypeOK, OnRemoteFire
  <2>   QED BY <2>2, <1>1, <1>4, <1>5, <1>11
            DEF NetTypeOK, SessionConsistent, StatesUpTo, OnRemoteFire, upVars
<1> QED BY <1>6, <1>7, <1>8, <1>9, <1>10, <1>11 DEF PollReceive, m

LEMMA PollKeeps ==
  ASSUME NEW maxId \in Nat, NetInv(maxId),
         \/ PollReceive \/ PollDisconnect
         \/ \E heartbeatDue \in BOOLEAN : PollEnd(heartbeatDue)
  PROVE  NetInv(maxId)'
<1>1. CASE PollReceive BY <1>1, ReceiveKeeps
<1>2. CASE PollDisconnect
  BY <1>2 DEF NetInv, NetTypeOK, SessionConsistent, StatesUpTo, PollDisconnect, upVars,
     LinkState
<1>3. ASSUME NEW heartbeatDue \in BOOLEAN, PollEnd(heartbeatDue)
      PROVE  NetInv(maxId)'
  <2>1. upSystem' \in Seq({Heartbeat, Disconnect})
    BY <1>3, HeartbeatKeeps DEF PollEnd, NetInv, NetTypeOK
  <2>   QED BY <1>3, <2>1
            DEF NetInv, NetTypeOK, SessionConsistent, StatesUpTo, PollEnd, sessionVars
<1> QED BY <1>1, <1>2, <1>3

\* What is sent carries the id of the session.
LEMMA SendKeeps ==
  ASSUME NEW maxId \in Nat, NetInv(maxId),
         SendFireEvent \/ \E cell \in Cells : SendPlayerSnapshot(cell)
  PROVE  NetInv(maxId)'
<1> USE DEF NetInv
<1>1. connected BY DEF SendFireEvent, SendPlayerSnapshot
<1>2. netEntityId \in EntityId BY <1>1 DEF NetTypeOK, SessionConsistent, EntityId
<1>3. CASE SendFireEvent
  <2>1. PlayerFire(netEntityId) \in [type : {"PlayerFire"}, id : EntityId]
    BY <1>2 DEF PlayerFire
  <2>2. upEvents' \in Seq([type : {"PlayerFire"}, id : EntityId])
    BY <1>3, <2>1, AppendType DEF NetTypeOK, SendFireEvent
  <2>   QED BY <1>3, <2>2
            DEF NetTypeOK, SessionConsistent, StatesUpTo, SendFireEvent, sessionVars
<1>4. ASSUME NEW cell \in Cells, SendPlayerSnapshot(cell)
      PROVE  NetInv(maxId)'
  <2>1. PlayerSnapshot(netEntityId, snapshotSeq, cell) \in SnapshotMessages
    BY <1>2 DEF PlayerSnapshot, SnapshotMessages, NetTypeOK
  <2>2. snapshotSeq' \in SnapshotSeqs
    BY <1>4, SnapshotSeqsAssumption DEF SendPlayerSnapshot, NextSeq
  <2>3. /\ upSnapshots' \subseteq SnapshotMessages
        /\ \A m \in upSnapshots' : m.id # 0
    <3>1. PlayerSnapshot(netEntityId, snapshotSeq, cell).id # 0
      BY <1>2 DEF PlayerSnapshot, EntityId
    <3>2. upSnapshots' \subseteq
            upSnapshots \cup {PlayerSnapshot(netEntityId, snapshotSeq, cell)}
      BY <1>4 DEF SendPlayerSnapshot
    <3>   QED BY <2>1, <3>1, <3>2 DEF NetTypeOK, SessionConsistent
  <2>   QED BY <1>4, <2>2, <2>3
            DEF NetTypeOK, SessionConsistent, StatesUpTo, SendPlayerSnapshot, sessionVars
<1> QED BY <1>3, <1>4

LEMMA NetworkKeeps ==
  ASSUME NEW maxId \in Nat, NetInv(maxId),
         LinkEstablished \/ LinkLost \/ \E m \in Messages(maxId) : Arrive(m)
  PROVE  NetInv(maxId)'
<1> USE DEF NetInv, NetTypeOK, SessionConsistent, StatesUpTo, LinkState
<1>1. CASE LinkEstablished BY <1>1 DEF LinkEstablished, sessionVars, upVars
<1>2. CASE LinkLost BY <1>2 DEF LinkLost, sessionVars
<1>3. ASSUME NEW m \in Messages(maxId), Arrive(m)
      PROVE  NetInv(maxId)'
  <2>1. m \in ServerMessage BY DEF Messages
  <2>2. inbox' \in Seq(ServerMessage) /\ inbox' \in Seq(Messages(maxId))
    BY <1>3, <2>1, AppendType DEF Arrive
  <2>   QED BY <1>3, <2>2 DEF Arrive, sessionVars, upVars
<1> QED BY <1>1, <1>2, <1>3

LEMMA UplinkKeeps ==
  ASSUME NEW maxId \in Nat, NetInv(maxId), Uplink
  PROVE  NetInv(maxId)' /\ link' = link
<1> USE DEF NetInv, NetTypeOK, SessionConsistent, StatesUpTo, sessionVars
<1>1. CASE TakeSystem
  <2>1. upSystem' \in Seq({Heartbeat, Disconnect}) BY <1>1, HeadAndTail DEF TakeSystem
  <2>   QED BY <1>1, <2>1 DEF TakeSystem
<1>2. CASE TakeEvent
  <2>1. upEvents' \in Seq([type : {"PlayerFire"}, id : EntityId])
    BY <1>2, HeadAndTail DEF TakeEvent
  <2>   QED BY <1>2, <2>1 DEF TakeEvent
<1>3. CASE \E m \in upSnapshots : TakeSnapshot(m) BY <1>3 DEF TakeSnapshot
<1> QED BY <1>1, <1>2, <1>3 DEF Uplink

LEMMA NetStutter ==
  ASSUME NEW maxId \in Nat, NetInv(maxId), UNCHANGED netVars
  PROVE  NetInv(maxId)'
  BY DEF NetInv, NetTypeOK, SessionConsistent, StatesUpTo, netVars

---------------------------------------------------------------------------
(***************************************************************************)
(* The avatars and their NPCs.                                             *)
(***************************************************************************)

\* There are finitely many avatars, and so finitely many to spawn.
LEMMA SpawnsFinite ==
  ASSUME NEW maxId \in Nat, ManagerInv(maxId), NEW placed \in SUBSET ToSpawn
  PROVE  IsFiniteSet(placed) /\ Cardinality(placed) \in Nat
         /\ placed \in SUBSET Nat
<1>1. ToSpawn \subseteq Known BY DEF ToSpawn
<1>2. Known \in SUBSET Nat /\ \A id \in Known : id <= maxId
  BY DEF ManagerInv, ManagerTypeOK, EntityId
<1>3. IsFiniteSet(Known) BY <1>2, FS_BoundedSetOfNaturals
<1>4. placed \in SUBSET Known BY <1>1
<1>5. IsFiniteSet(placed) BY <1>3, <1>4, FS_Subset
<1> QED BY <1>2, <1>4, <1>5, FS_CardinalityType

\* The engine's references for one frame: new ones, and one for each spawn.
LEMMA PlacedRefs ==
  ASSUME NEW maxId \in Nat, ManagerInv(maxId), NEW placed \in SUBSET ToSpawn
  PROVE  /\ \A id \in placed :
              PlacedRef(placed, id) \in nextRef .. nextRef + Cardinality(placed) - 1
         /\ \A i, j \in placed : PlacedRef(placed, i) = PlacedRef(placed, j) => i = j
<1> DEFINE before(id) == {o \in placed : o < id}
<1>1. IsFiniteSet(placed) /\ Cardinality(placed) \in Nat /\ placed \in SUBSET Nat
  BY SpawnsFinite
<1>2. ASSUME NEW id \in placed, NEW S \in SUBSET placed,
             before(id) \subseteq S, id \in S
      PROVE  Cardinality(before(id)) \in Nat /\ Cardinality(before(id)) < Cardinality(S)
  <2>1. S \in SUBSET placed /\ before(id) \in SUBSET placed OBVIOUS
  <2>2. IsFiniteSet(S) /\ IsFiniteSet(before(id)) BY <1>1, <2>1, FS_Subset
  <2>3. Cardinality(S) \in Nat /\ Cardinality(before(id)) \in Nat
    BY <2>2, FS_CardinalityType
  <2>4. id \notin before(id) BY <1>1
  <2>5. before(id) \in SUBSET S BY <1>2
  <2>6. /\ Cardinality(before(id)) <= Cardinality(S)
        /\ Cardinality(S) = Cardinality(before(id)) => S = before(id)
    BY <2>2, <2>5, FS_Subset
  <2>   QED BY <1>2, <2>3, <2>4, <2>6
<1>3. nextRef \in Nat BY DEF ManagerInv, ManagerTypeOK
<1>4. ASSUME NEW id \in placed
      PROVE  PlacedRef(placed, id) \in nextRef .. nextRef + Cardinality(placed) - 1
  <2>1. before(id) \subseteq placed OBVIOUS
  <2>2. Cardinality(before(id)) \in Nat /\ Cardinality(before(id)) < Cardinality(placed)
    BY <1>2, <2>1
  <2>   QED BY <1>1, <1>3, <2>2 DEF PlacedRef
<1>5. ASSUME NEW i \in placed, NEW j \in placed, i < j
      PROVE  PlacedRef(placed, i) # PlacedRef(placed, j)
  <2>1. before(i) \subseteq before(j) /\ i \in before(j)
    <3>1. i \in Nat /\ j \in Nat /\ \A o \in placed : o \in Nat BY <1>1
    <3>2. \A o \in placed : o < i => o < j BY <1>5, <3>1
    <3>   QED BY <1>5, <3>2
  <2>2. before(j) \in SUBSET placed OBVIOUS
  <2>3. Cardinality(before(i)) \in Nat /\ Cardinality(before(i)) < Cardinality(before(j))
    BY <1>2, <2>1, <2>2
  <2>4. Cardinality(before(j)) \in Nat
    BY <1>1, <2>2, FS_Subset, FS_CardinalityType
  <2>   QED BY <1>3, <2>3, <2>4 DEF PlacedRef
<1> QED BY <1>1, <1>4, <1>5

LEMMA ManagerTypes ==
  ASSUME NEW maxId, ManagerInv(maxId)
  PROVE  /\ ManagerTypeOK /\ NoOrphans /\ AvatarsComplete
         /\ \A id \in Known : id \in EntityId /\ entities[id] \in Nat /\ id <= maxId
  BY DEF ManagerInv, ManagerTypeOK

\* A snapshot adds avatars without NPC, each with a spawn queued and a sample.
LEMMA UpdateKeeps ==
  ASSUME NEW maxId \in Nat, ManagerInv(maxId),
         NEW states \in SUBSET EntityStates, StatesUpTo(states, maxId),
         EntityManager_UpdateFromWorldSnapshot(states)
  PROVE  ManagerInv(maxId)'
<1> DEFINE taken == {s.id : s \in {t \in states : \/ t.id \in Known
                                                  \/ t.cell = GetLocalPlayerCellID}}
           new   == taken \ Known
<1>0. CASE UNCHANGED managerVars
  BY <1>0 DEF ManagerInv, ManagerTypeOK, NoOrphans, AvatarsComplete, Known, Spawned,
     managerVars
<1>1. CASE ~UNCHANGED managerVars
  <2>1. /\ entities' = [id \in Known \cup new |-> IF id \in new THEN 0 ELSE entities[id]]
        /\ pendingSpawns' = pendingSpawns \cup new
        /\ interp' = interp \cup taken
        /\ UNCHANGED <<pendingDespawns, engineVars>>
    BY <1>1 DEF EntityManager_UpdateFromWorldSnapshot
  <2>2. taken \subseteq EntityId /\ \A id \in taken : id <= maxId
    BY DEF EntityStates, StatesUpTo
  <2>3. Known' = Known \cup new /\ Spawned' = Spawned
        /\ \A id \in Spawned : entities'[id] = entities[id]
    BY <2>1 DEF Known, Spawned
  <2>   HIDE DEF taken, new
  <2>4. new \subseteq taken BY DEF new
  <2>5. ManagerTypeOK'
    BY <2>1, <2>2, <2>3, <2>4, ManagerTypes DEF ManagerTypeOK, engineVars
  <2>6. NoOrphans'
    <3>1. NoOrphans /\ npcs' = npcs /\ nextRef' = nextRef BY <2>1, ManagerTypes DEF engineVars
    <3>2. {entities'[id] : id \in Spawned'} = {entities[id] : id \in Spawned} BY <2>3
    <3>   QED BY <2>3, <3>1, <3>2 DEF NoOrphans
  <2>7. AvatarsComplete'
    BY <2>1, <2>3, <2>4, ManagerTypes DEF AvatarsComplete
  <2>8. \A id \in Known' : id <= maxId BY <2>2, <2>3, <2>4, ManagerTypes
  <2>   QED BY <2>5, <2>6, <2>7, <2>8 DEF ManagerInv
<1> QED BY <1>0, <1>1

LEMMA RemoveKeeps ==
  ASSUME NEW maxId \in Nat, ManagerInv(maxId), NEW ids, EntityManager_RemoveEntities(ids)
  PROVE  ManagerInv(maxId)'
<1>1. /\ pendingDespawns' = pendingDespawns \cup (ids \cap Known)
      /\ interp' = interp \ (ids \cap Known)
      /\ UNCHANGED <<entities, pendingSpawns, engineVars>>
  BY DEF EntityManager_RemoveEntities
<1>2. Known' = Known /\ Spawned' = Spawned BY <1>1 DEF Known, Spawned
<1> QED BY <1>1, <1>2
        DEF ManagerInv, ManagerTypeOK, NoOrphans, AvatarsComplete, engineVars

\* Tick: despawned avatars take their NPCs with them, spawned ones get one each, and
\* what the engine refuses is forgotten.
LEMMA TickKeeps ==
  ASSUME NEW maxId \in Nat, ManagerInv(maxId), NEW placed \in SUBSET ToSpawn,
         EntityManager_Tick(placed)
  PROVE  /\ ManagerInv(maxId)'
         /\ thePlayer' = thePlayer
         /\ thePlayer => pendingSpawns' = {} /\ pendingDespawns' = {} /\ Known' = Spawned'
<1>0. CASE ~thePlayer
  BY <1>0 DEF EntityManager_Tick, ManagerInv, ManagerTypeOK, NoOrphans, AvatarsComplete,
     Known, Spawned, managerVars
<1>1. CASE thePlayer
  <2> DEFINE gone   == pendingDespawns \cap Known
             failed == ToSpawn \ placed
             kept   == Known \ (gone \cup failed)
             ref(id) == PlacedRef(placed, id)
  <2>1. /\ entities' = [id \in kept |-> IF id \in placed THEN ref(id) ELSE entities[id]]
        /\ npcs' = (npcs \ {entities[id] : id \in gone}) \cup {ref(id) : id \in placed}
        /\ nextRef' = nextRef + Cardinality(placed)
        /\ pendingSpawns' = {} /\ pendingDespawns' = {}
        /\ UNCHANGED <<interp, thePlayer, localCell>>
    BY <1>1 DEF EntityManager_Tick
  <2>2. /\ nextRef \in Nat \ {0} /\ Cardinality(placed) \in Nat
        /\ \A id \in placed : /\ ref(id) \in nextRef .. nextRef + Cardinality(placed) - 1
                              /\ ref(id) \in Nat \ {0}
        /\ \A i, j \in placed : ref(i) = ref(j) => i = j
    BY PlacedRefs, SpawnsFinite, ManagerTypes DEF ManagerTypeOK
  <2>3. /\ placed \subseteq Known \ (gone \cup Spawned)
        /\ placed \cap failed = {} /\ failed \cap Spawned = {}
    BY DEF ToSpawn
  <2>4. kept \ placed \subseteq Spawned
    <3>1. SUFFICES ASSUME NEW id \in Known, id \notin gone, id \notin Spawned
                   PROVE  id \in ToSpawn
      OBVIOUS
    <3>2. id \in pendingSpawns BY <3>1, ManagerTypes DEF AvatarsComplete
    <3>   QED BY <3>1, <3>2 DEF ToSpawn
  <2>5. placed \subseteq kept /\ Spawned \ gone \subseteq kept /\ kept \subseteq Known
    BY <2>3 DEF Spawned
  <2>   HIDE DEF gone, failed, kept, ref
  <2>6. /\ Known' = kept
        /\ \A id \in placed : entities'[id] = ref(id)
        /\ \A id \in kept \ placed : entities'[id] = entities[id]
    BY <2>1, <2>5 DEF Known
  <2>7. Spawned' = kept
    <3>1. \A id \in kept : entities'[id] # 0
      BY <2>2, <2>4, <2>6 DEF Spawned
    <3>   QED BY <2>6, <3>1 DEF Spawned
  <2>8. ManagerTypeOK'
    <3>1. \A id \in kept : entities'[id] \in Nat
      BY <2>2, <2>5, <2>6, ManagerTypes
    <3>2. entities' \in [Known' -> Nat] BY <2>1, <2>6, <3>1
    <3>3. npcs' \subseteq Nat \ {0} BY <2>1, <2>2, ManagerTypes DEF ManagerTypeOK
    <3>4. Known' \subseteq EntityId BY <2>5, <2>6, ManagerTypes
    <3>   QED BY <2>1, <2>2, <3>2, <3>3, <3>4, ManagerTypes DEF ManagerTypeOK
  <2>9. NoOrphans'
    <3>1. npcs' \subseteq {entities'[id] : id \in Spawned'}
      <4>1. ASSUME NEW r \in npcs, r \notin {entities[id] : id \in gone}
            PROVE  r \in {entities'[id] : id \in kept}
        <5>1. PICK id \in Spawned : r = entities[id] BY ManagerTypes DEF NoOrphans
        <5>2. id \notin gone BY <4>1, <5>1
        <5>3. id \in kept /\ id \notin placed BY <2>3, <2>5, <5>2
        <5>   QED BY <2>6, <5>1, <5>3
      <4>2. \A id \in placed : ref(id) \in {entities'[o] : o \in kept}
        BY <2>5, <2>6
      <4>   QED BY <2>1, <2>7, <4>1, <4>2
    <3>2. \A id \in kept \ placed : entities[id] < nextRef /\ entities[id] \in Nat
      BY <2>4, <2>5, ManagerTypes DEF NoOrphans
    <3>3. \A i, j \in kept : entities'[i] = entities'[j] => i = j
      <4>1. SUFFICES ASSUME NEW i \in kept, NEW j \in kept, entities'[i] = entities'[j]
                     PROVE  i = j
        OBVIOUS
      <4>2. CASE i \in placed /\ j \in placed BY <2>2, <2>6, <4>1, <4>2
      <4>3. CASE i \notin placed /\ j \notin placed
        BY <2>4, <2>6, <4>1, <4>3, ManagerTypes DEF NoOrphans
      <4>4. CASE i \in placed /\ j \notin placed
        BY <2>2, <2>6, <3>2, <4>1, <4>4
      <4>5. CASE i \notin placed /\ j \in placed
        BY <2>2, <2>6, <3>2, <4>1, <4>5
      <4>   QED BY <4>2, <4>3, <4>4, <4>5
    <3>4. \A id \in kept : entities'[id] < nextRef'
      BY <2>1, <2>2, <2>6, <3>2
    <3>   QED BY <2>7, <3>1, <3>3, <3>4 DEF NoOrphans
  <2>10. AvatarsComplete'
    <3>1. kept \subseteq interp
      BY <2>5, ManagerTypes DEF AvatarsComplete, kept, gone
    <3>   QED BY <2>1, <2>6, <2>7, <3>1 DEF AvatarsComplete
  <2>11. \A id \in Known' : id <= maxId BY <2>5, <2>6, ManagerTypes
  <2>   QED BY <1>1, <2>1, <2>6, <2>7, <2>8, <2>9, <2>10, <2>11 DEF ManagerInv
<1> QED BY <1>0, <1>1

\* Leaving the game removes every NPC, as none is without its avatar.
LEMMA ShutdownKeeps ==
  ASSUME NEW maxId \in Nat, ManagerInv(maxId), EntityManager_Shutdown
  PROVE  /\ ManagerInv(maxId)'
         /\ npcs' = {} /\ Known' = {} /\ interp' = {}
         /\ pendingSpawns' \cup pendingDespawns' = {}
<1>1. /\ npcs' = npcs \ {entities[id] : id \in Known}
      /\ entities' = <<>> /\ pendingSpawns' = {} /\ pendingDespawns' = {} /\ interp' = {}
      /\ UNCHANGED <<thePlayer, localCell, nextRef>>
  BY DEF EntityManager_Shutdown
<1>2. npcs' = {} BY <1>1, ManagerTypes DEF NoOrphans, Spawned
<1>3. Known' = {} /\ Spawned' = {} BY <1>1 DEF Known, Spawned
<1>4. entities' \in [Known' -> Nat] BY <1>1, <1>3
<1> QED BY <1>1, <1>2, <1>3, <1>4
        DEF ManagerInv, ManagerTypeOK, NoOrphans, AvatarsComplete

LEMMA EngineKeeps ==
  ASSUME NEW maxId \in Nat, ManagerInv(maxId), Travel \/ LoadSavegame
  PROVE  ManagerInv(maxId)'
  BY DEF ManagerInv, ManagerTypeOK, NoOrphans, AvatarsComplete, Travel, LoadSavegame,
     entityVars, Known, Spawned

LEMMA ManagerStutter ==
  ASSUME NEW maxId \in Nat, ManagerInv(maxId), UNCHANGED managerVars
  PROVE  ManagerInv(maxId)' /\ Known' = Known /\ Spawned' = Spawned
  BY DEF ManagerInv, ManagerTypeOK, NoOrphans, AvatarsComplete, managerVars, Known, Spawned

---------------------------------------------------------------------------
(***************************************************************************)
(* The frame.                                                              *)
(***************************************************************************)

LEMMA InitEstablishes ==
  ASSUME NEW maxId \in Nat, ClientInit
  PROVE  ClientIInv(maxId)
<1> USE DEF ClientInit
<1>1. NetInv(maxId)
  <2> USE DEF NetInit
  <2>1. /\ inbox \in Seq(ServerMessage) /\ inbox \in Seq(Messages(maxId))
        /\ fireEvents \in Seq(EntityId)
        /\ upSystem \in Seq({Heartbeat, Disconnect})
        /\ upEvents \in Seq([type : {"PlayerFire"}, id : EntityId])
    OBVIOUS
  <2>2. NetTypeOK BY <2>1, SnapshotSeqsAssumption DEF NetTypeOK, LinkState
  <2>   QED BY <2>1, <2>2 DEF NetInv, SessionConsistent, StatesUpTo
<1>2. Known = {} /\ Spawned = {} BY DEF ManagerInit, Known, Spawned
<1>3. entities \in [Known -> Nat] BY <1>2 DEF ManagerInit
<1>4. ManagerInv(maxId)
  <2>1. /\ pendingSpawns = {} /\ pendingDespawns = {} /\ interp = {}
        /\ thePlayer = FALSE /\ localCell = 0 /\ npcs = {} /\ nextRef = 1
    BY DEF ManagerInit
  <2>2. thePlayer \in BOOLEAN BY <2>1, Zenon
  <2>3. localCell \in Cells \cup {0} /\ nextRef \in Nat \ {0} BY <2>1
  <2>4. /\ Known \subseteq EntityId /\ pendingSpawns \subseteq EntityId
        /\ pendingDespawns \subseteq EntityId /\ interp \subseteq EntityId
        /\ npcs \subseteq Nat \ {0}
    BY <1>2, <2>1
  <2>5. ManagerTypeOK BY <1>3, <2>2, <2>3, <2>4 DEF ManagerTypeOK
  <2>6. NoOrphans /\ AvatarsComplete BY <1>2 DEF ManagerInit, NoOrphans, AvatarsComplete
  <2>   QED BY <1>2, <2>5, <2>6 DEF ManagerInv
<1> QED BY <1>1, <1>4
        DEF ClientIInv, Frames, LinkInFrame, AvatarsGone, FramesComplete, ExitIsClean, NetInit

\* The steps that leave the avatars alone.
LEMMA NetStepKeeps ==
  ASSUME NEW maxId \in Nat, ClientIInv(maxId),
         BeginFrame \/ Poll \/ ProcessFires \/ DetectAttack \/ SendSnapshot
  PROVE  ClientIInv(maxId)'
<1> USE DEF ClientIInv
<1>0. UNCHANGED managerVars
  BY DEF BeginFrame, Poll, ProcessFires, DetectAttack, SendSnapshot
<1>1. ManagerInv(maxId)' /\ Known' = Known /\ Spawned' = Spawned BY <1>0, ManagerStutter
<1>2. NetInv(maxId)'
  <2>1. CASE BeginFrame BY <2>1, NetStutter DEF BeginFrame
  <2>2. CASE Poll BY <2>2, PollKeeps DEF Poll
  <2>3. CASE ProcessFires
    <3>1. fireEvents' \in Seq(EntityId) BY <2>3 DEF ProcessFires
    <3>   QED BY <2>3, <3>1
              DEF ProcessFires, NetInv, NetTypeOK, SessionConsistent, StatesUpTo, upVars
  <2>4. CASE DetectAttack BY <2>4, SendKeeps, NetStutter DEF DetectAttack
  <2>5. CASE SendSnapshot
    <3>1. GetLocalPlayerCellID # 0 => localCell \in Cells
      BY DEF GetLocalPlayerCellID, ManagerInv, ManagerTypeOK
    <3>   QED BY <2>5, <3>1, SendKeeps, NetStutter DEF SendSnapshot
  <2>   QED BY <2>1, <2>2, <2>3, <2>4, <2>5
<1>3. LinkInFrame' /\ frame' \in Frames /\ frame' \notin {"leaving", "exited"}
  <2>1. CASE BeginFrame BY <2>1 DEF BeginFrame, LinkInFrame, Frames, netVars
  <2>2. CASE Poll
    BY <2>2 DEF Poll, PollReceive, PollDisconnect, PollEnd, LinkInFrame, Frames
  <2>3. CASE ProcessFires BY <2>3 DEF ProcessFires, LinkInFrame, Frames
  <2>4. CASE DetectAttack
    BY <2>4 DEF DetectAttack, SendFireEvent, LinkInFrame, Frames, netVars
  <2>5. CASE SendSnapshot
    BY <2>5 DEF SendSnapshot, SendPlayerSnapshot, LinkInFrame, Frames, netVars
  <2>   QED BY <2>1, <2>2, <2>3, <2>4, <2>5
<1>4. FramesComplete'
  BY <1>0, <1>1
  DEF FramesComplete, BeginFrame, Poll, ProcessFires, DetectAttack, SendSnapshot, managerVars
<1> QED BY <1>1, <1>2, <1>3, <1>4 DEF AvatarsGone, ExitIsClean

\* The steps that change the avatars.
LEMMA ManagerStepKeeps ==
  ASSUME NEW maxId \in Nat, ClientIInv(maxId),
         ProcessDisconnects \/ ProcessSnapshot \/ TickEntities
  PROVE  ClientIInv(maxId)'
<1> USE DEF ClientIInv
<1>1. NetInv(maxId)'
  <2>1. CASE ProcessDisconnects
    BY <2>1
    DEF ProcessDisconnects, NetInv, NetTypeOK, SessionConsistent, StatesUpTo, upVars
  <2>2. CASE ProcessSnapshot
    BY <2>2 DEF ProcessSnapshot, NetInv, NetTypeOK, SessionConsistent, StatesUpTo, upVars
  <2>3. CASE TickEntities BY <2>3, NetStutter DEF TickEntities
  <2>   QED BY <2>1, <2>2, <2>3
<1>2. LinkInFrame' /\ frame' \in {"fires", "tick", "attack"}
  BY DEF LinkInFrame, ProcessDisconnects, ProcessSnapshot, TickEntities, netVars
<1>3. ManagerInv(maxId)' /\ FramesComplete'
  <2>1. CASE ProcessDisconnects
    BY <2>1, RemoveKeeps DEF ProcessDisconnects, FramesComplete
  <2>2. CASE ProcessSnapshot
    <3>1. worldEntities \in SUBSET EntityStates /\ StatesUpTo(worldEntities, maxId)
      BY DEF NetInv, NetTypeOK
    <3>2. ManagerInv(maxId)'
      BY <2>2, <3>1, UpdateKeeps, ManagerStutter DEF ProcessSnapshot
    <3>   QED BY <2>2, <3>2 DEF ProcessSnapshot, FramesComplete
  <2>3. CASE TickEntities
    <3>1. PICK placed \in SUBSET ToSpawn : EntityManager_Tick(placed)
      BY <2>3 DEF TickEntities
    <3>   QED BY <3>1, TickKeeps DEF FramesComplete
  <2>   QED BY <2>1, <2>2, <2>3
<1> QED BY <1>1, <1>2, <1>3 DEF AvatarsGone, ExitIsClean, Frames

\* The exit.
LEMMA ExitKeeps ==
  ASSUME NEW maxId \in Nat, ClientIInv(maxId), ExitGame \/ FinishExit
  PROVE  ClientIInv(maxId)'
<1> USE DEF ClientIInv
<1>1. CASE ExitGame
  <2>1. frame = "idle" /\ frame' = "leaving" BY <1>1 DEF ExitGame
  <2>2. /\ ManagerInv(maxId)'
        /\ npcs' = {} /\ Known' = {} /\ interp' = {}
        /\ pendingSpawns' \cup pendingDespawns' = {}
    BY <1>1, ShutdownKeeps DEF ExitGame
  <2>3. NetInv(maxId)'
    <3>1. /\ link' = IF connected /\ link = "connected" THEN "closing" ELSE "none"
          /\ connected => link = "connected"
      BY <1>1, <2>1
      DEF ExitGame, BeginDisconnect, LinkInFrame, NetInv, NetTypeOK, SessionConsistent
    <3>   QED BY <1>1, <3>1
              DEF ExitGame, BeginDisconnect, NetInv, NetTypeOK, SessionConsistent,
                  StatesUpTo, LinkState, sessionVars
  <2>4. link' # "zombie" BY <1>1 DEF ExitGame, BeginDisconnect
  <2>5. LinkInFrame' /\ AvatarsGone' BY <2>1, <2>2, <2>4 DEF LinkInFrame, AvatarsGone
  <2>6. FramesComplete' /\ ExitIsClean' /\ frame' \in Frames
    BY <2>1 DEF FramesComplete, ExitIsClean, Frames
  <2>   QED BY <2>2, <2>3, <2>5, <2>6
<1>2. CASE FinishExit
  <2>1. frame = "leaving" /\ frame' = "exited" /\ UNCHANGED managerVars
    BY <1>2 DEF FinishExit
  <2>2. ManagerInv(maxId)' /\ Known' = Known BY <2>1, ManagerStutter
  <2>3. NetInv(maxId)'
    <3>1. EndDisconnect BY <1>2 DEF FinishExit
    <3>2. fireEvents' \in Seq(EntityId) BY <3>1 DEF EndDisconnect
    <3>3. NetTypeOK'
      BY <3>1, <3>2, SnapshotSeqsAssumption
      DEF EndDisconnect, NetInv, NetTypeOK, LinkState
    <3>4. SessionConsistent' BY <3>1 DEF EndDisconnect, NetInv, SessionConsistent
    <3>   QED BY <3>1, <3>3, <3>4 DEF EndDisconnect, NetInv, StatesUpTo
  <2>4. /\ link' = "none" /\ ~connected' /\ disconnectedEntities' = {}
        /\ fireEvents' = <<>>
    BY <1>2 DEF FinishExit, EndDisconnect
  <2>5. AvatarsGone' BY <2>1, <2>2 DEF AvatarsGone, managerVars
  <2>   QED BY <2>1, <2>2, <2>3, <2>4, <2>5
            DEF LinkInFrame, AvatarsGone, FramesComplete, ExitIsClean, Frames
<1> QED BY <1>1, <1>2

\* What happens to the plug-in.
LEMMA EnvironmentKeeps ==
  ASSUME NEW maxId \in Nat, ClientIInv(maxId),
         \/ Network(LinkEstablished) \/ Network(LinkLost)
         \/ \E m \in Messages(maxId) : Network(Arrive(m))
         \/ Engine \/ Uplink
  PROVE  ClientIInv(maxId)'
<1> USE DEF ClientIInv
<1>1. CASE \/ Network(LinkEstablished) \/ Network(LinkLost)
           \/ \E m \in Messages(maxId) : Network(Arrive(m))
  <2>1. /\ frame = "poll" /\ frame' = "poll" /\ UNCHANGED managerVars
        /\ LinkEstablished \/ LinkLost \/ \E m \in Messages(maxId) : Arrive(m)
    BY <1>1 DEF Network
  <2>2. NetInv(maxId)' BY <2>1, NetworkKeeps
  <2>3. ManagerInv(maxId)' BY <2>1, ManagerStutter
  <2>4. link' # "closing"
    BY <2>1 DEF LinkInFrame, LinkEstablished, LinkLost, Arrive
  <2>   QED BY <2>1, <2>2, <2>3, <2>4
            DEF LinkInFrame, AvatarsGone, FramesComplete, ExitIsClean
<1>2. CASE Engine
  <2>1. frame = "idle" /\ frame' = "idle" /\ UNCHANGED netVars BY <1>2 DEF Engine
  <2>2. ManagerInv(maxId)' BY <1>2, EngineKeeps DEF Engine
  <2>3. NetInv(maxId)' BY <2>1, NetStutter
  <2>4. LinkInFrame' BY <2>1 DEF LinkInFrame, netVars
  <2>   QED BY <2>1, <2>2, <2>3, <2>4 DEF AvatarsGone, FramesComplete, ExitIsClean
<1>3. CASE Uplink
  <2>1. UNCHANGED managerVars /\ frame' = frame BY <1>3 DEF Uplink
  <2>2. NetInv(maxId)' /\ link' = link BY <1>3, UplinkKeeps
  <2>3. ManagerInv(maxId)' /\ Known' = Known /\ Spawned' = Spawned
    BY <2>1, ManagerStutter
  <2>4. UNCHANGED <<connected, disconnectedEntities, fireEvents>>
    BY <1>3 DEF Uplink, TakeSystem, TakeEvent, TakeSnapshot, sessionVars
  <2>   QED BY <2>1, <2>2, <2>3, <2>4
            DEF LinkInFrame, AvatarsGone, FramesComplete, ExitIsClean, managerVars
<1> QED BY <1>1, <1>2, <1>3

LEMMA NextKeeps ==
  ASSUME NEW maxId \in Nat, NEW messages \in SUBSET Messages(maxId)
  PROVE  ClientIInv(maxId) /\ [ClientNext(messages)]_clientVars => ClientIInv(maxId)'
<1> SUFFICES ASSUME ClientIInv(maxId), [ClientNext(messages)]_clientVars
             PROVE  ClientIInv(maxId)'
  OBVIOUS
<1>1. CASE UNCHANGED clientVars
  <2>1. UNCHANGED netVars /\ UNCHANGED managerVars /\ frame' = frame
    BY <1>1 DEF clientVars
  <2>2. NetInv(maxId)' /\ ManagerInv(maxId)' /\ Known' = Known /\ Spawned' = Spawned
    BY <2>1, NetStutter, ManagerStutter DEF ClientIInv
  <2>   QED BY <2>1, <2>2
            DEF ClientIInv, LinkInFrame, AvatarsGone, FramesComplete, ExitIsClean,
                netVars, managerVars
<1>2. CASE PluginStep
  BY <1>2, NetStepKeeps, ManagerStepKeeps, ExitKeeps DEF PluginStep
<1>3. CASE ClientNext(messages) /\ ~PluginStep
  BY <1>3, EnvironmentKeeps DEF ClientNext
<1> QED BY <1>1, <1>2, <1>3

---------------------------------------------------------------------------
(***************************************************************************)
(* The theorems of the client.                                             *)
(***************************************************************************)

\* The invariant holds against every server and network, in every frame.
THEOREM ClientInductive ==
  ASSUME NEW CONSTANT maxId \in Nat, NEW CONSTANT messages \in SUBSET Messages(maxId)
  PROVE  ClientSpec(messages) => []ClientIInv(maxId)
<1>1. ClientInit => ClientIInv(maxId) BY InitEstablishes
<1>2. ClientIInv(maxId) /\ [ClientNext(messages)]_clientVars => ClientIInv(maxId)'
  BY NextKeeps
<1> QED BY <1>1, <1>2, PTL DEF ClientSpec

\* Type correctness.
THEOREM ClientTypeCorrect ==
  ASSUME NEW CONSTANT maxId \in Nat, NEW CONSTANT messages \in SUBSET Messages(maxId)
  PROVE  ClientSpec(messages) => []ClientTypeOK
<1>1. ClientIInv(maxId) => ClientTypeOK
  BY DEF ClientIInv, NetInv, ManagerInv, ClientTypeOK
<1> QED BY <1>1, ClientInductive, PTL

\* Whatever spawns, disconnects, snapshots and loaded savegames cross, an NPC belongs
\* to exactly one avatar and is removed with it.
THEOREM ClientNoOrphans ==
  ASSUME NEW CONSTANT maxId \in Nat, NEW CONSTANT messages \in SUBSET Messages(maxId)
  PROVE  ClientSpec(messages) => []NoOrphans
<1>1. ClientIInv(maxId) => NoOrphans
  BY DEF ClientIInv, ManagerInv
<1> QED BY <1>1, ClientInductive, PTL

\* An avatar without NPC is queued for one, and positioned as soon as it has it.
THEOREM ClientAvatarsComplete ==
  ASSUME NEW CONSTANT maxId \in Nat, NEW CONSTANT messages \in SUBSET Messages(maxId)
  PROVE  ClientSpec(messages) => []AvatarsComplete
<1>1. ClientIInv(maxId) => AvatarsComplete
  BY DEF ClientIInv, ManagerInv
<1> QED BY <1>1, ClientInductive, PTL

\* No frame with a player ends with half an operation.
THEOREM ClientFramesComplete ==
  ASSUME NEW CONSTANT maxId \in Nat, NEW CONSTANT messages \in SUBSET Messages(maxId)
  PROVE  ClientSpec(messages) => []FramesComplete
<1>1. ClientIInv(maxId) => FramesComplete
  BY DEF ClientIInv
<1> QED BY <1>1, ClientInductive, PTL

\* The session has an id exactly while it is connected, and nothing is sent as 0.
THEOREM ClientSessionConsistent ==
  ASSUME NEW CONSTANT maxId \in Nat, NEW CONSTANT messages \in SUBSET Messages(maxId)
  PROVE  ClientSpec(messages) => []SessionConsistent
<1>1. ClientIInv(maxId) => SessionConsistent
  BY DEF ClientIInv, NetInv
<1> QED BY <1>1, ClientInductive, PTL

\* The exit leaves nothing behind, however the connection stands when it begins.
THEOREM ClientExitIsClean ==
  ASSUME NEW CONSTANT maxId \in Nat, NEW CONSTANT messages \in SUBSET Messages(maxId)
  PROVE  ClientSpec(messages) => []ExitIsClean
<1>1. ClientIInv(maxId) => ExitIsClean
  BY DEF ClientIInv
<1> QED BY <1>1, ClientInductive, PTL

---------------------------------------------------------------------------
(***************************************************************************)
(* The session's invariant.                                                *)
(***************************************************************************)

\* Ids are handed out once, the client's own among them; before the server has
\* accepted the client, it has heard nothing.
Joined ==
  /\ myId \in Nat /\ myId < nextEntityId /\ nextEntityId <= MaxEntityId + 1
  /\ Me \in Connected => players[Me].id = myId
  /\ myId = 0 => inbox = <<>> /\ worldEntities = {} /\ Known = {} /\ interp = {}
  /\ link = "connecting" => myId = 0

\* Whatever carries the client's id carries the one it was given.
MyMessages ==
  /\ netEntityId \in {0, myId}
  /\ \A m \in upSnapshots : m.id = myId
  /\ \A i \in 1 .. Len(upEvents) : upEvents[i].id = myId
  /\ \A i \in 1 .. Len(inbox) : inbox[i].type = "ConnectAck" => inbox[i].id = myId

\* An id of another player that there is or was.
Foreign(id) == id # myId /\ id < nextEntityId

AboutOthers ==
  /\ \A id \in Known \cup interp : Foreign(id)
  /\ \A s \in worldEntities : Foreign(s.id)
  /\ \A i \in 1 .. Len(inbox) :
       inbox[i].type = "WorldSnapshot" => \A s \in inbox[i].states : Foreign(s.id)

\* The departure of id is with the client, read or not.
Heard(id) ==
  \/ id \in told
  \/ \E i \in 1 .. Len(inbox) : inbox[i].type = "PlayerDisconnect" /\ inbox[i].id = id

\* What the client has heard is the last word.
HeardIsFinal ==
  /\ told \subseteq EntityId
  /\ \A id \in EntityId : Heard(id) =>
       /\ id < nextEntityId /\ id \notin LiveIds
       /\ \A k \in 1 .. Len(events[Me]) : events[Me][k].id # id
  /\ \A j \in 1 .. Len(inbox) : inbox[j].type = "RemoteFire" =>
       /\ inbox[j].id \notin told
       /\ \A i \in 1 .. j - 1 :
            inbox[i].type = "PlayerDisconnect" => inbox[i].id # inbox[j].id

\* The departure of id is queued for the client.
Queued(id) ==
  \E k \in 1 .. Len(events[Me]) :
    events[Me][k].type = "PlayerDisconnect" /\ events[Me][k].id = id

Accounted(id) == id \in LiveIds \/ Queued(id) \/ Heard(id)

\* What the client shows or may come to show is accounted for.
AllAccounted ==
  (peer[Me] = "connected" /\ link = "connected" /\ myId # 0) =>
    /\ \A id \in Known : Accounted(id)
    /\ \A s \in worldEntities : Accounted(s.id)
    /\ \A w \in world[Me] : \A s \in w.states : Accounted(s.id)
    /\ \A i \in 1 .. Len(inbox) :
         inbox[i].type = "WorldSnapshot" => \A s \in inbox[i].states : Accounted(s.id)

Agreement == Joined /\ MyMessages /\ AboutOthers /\ HeardIsFinal /\ AllAccounted

SessionIInv == IInv /\ ClientIInv(MaxEntityId) /\ Agreement

---------------------------------------------------------------------------
(***************************************************************************)
(* What the server does, as far as slot Me can tell.                       *)
(***************************************************************************)

\* Nothing is sent to Me and no player comes or goes.
NothingSent ==
  /\ PlayersKept
  /\ nextEntityId' = nextEntityId
  /\ peer'[Me] = "connected" => peer[Me] = "connected" /\ events'[Me] = events[Me]
  /\ events'[Me] \in {events[Me], <<>>}
  /\ world'[Me] \subseteq world[Me]

FireSent ==
  /\ PlayersKept
  /\ nextEntityId' = nextEntityId
  /\ \E p \in Connected : events' = Enqueue(RemoteFire(players[p].id), Others(p))
  /\ UNCHANGED <<peer, world>>

StatesSent ==
  /\ PlayersKept
  /\ nextEntityId' = nextEntityId
  /\ UNCHANGED <<peer, events>>
  /\ world'[Me] \subseteq world[Me] \cup {WorldSnapshot(SnapshotFor(Me))}

ServerKinds ==
  \/ NothingSent \/ FireSent \/ StatesSent
  \/ \E p \in Peers : OnConnect(p)
  \/ \E p \in Connected : Departs(p)

LEMMA PeersFacts ==
  ASSUME IInv
  PROVE  /\ Me \in Peers /\ events[Me] \in Seq(EventMessage)
         /\ players \in [Connected -> PlayerInfo] /\ Connected \subseteq Peers
         /\ phase \in Phases /\ peer \in [Peers -> PeerState]
  BY MeAssumption DEF IInv, TypeOK

\* A received message sends nothing, a fire, or makes its player depart.
LEMMA ReceiveKinds ==
  ASSUME IInv, NEW p \in Peers, NEW m, HandleReceive(p, m)
  PROVE  ServerKinds
<1>1. CASE OnHeartbeat(p, m) \/ OnPlayerSnapshot(p, m) \/ OnIgnored(p, m)
  <2>1. UNCHANGED <<nextEntityId, peer, events, world>>
    BY <1>1 DEF OnHeartbeat, OnPlayerSnapshot, OnIgnored, enetVars, serverVars
  <2>2. p \in Connected BY DEF HandleReceive, IInv, PlayersMatchPeers
  <2>3. PlayersKept
    <3>1. \/ players' = [players EXCEPT ![p].elapsed = 0]
          \/ players' = [players EXCEPT ![p].hasSnapshot = TRUE,
                                       ![p].lastSequence = m.sequence,
                                       ![p].cell = m.cell]
          \/ players' = players
      BY <1>1 DEF OnHeartbeat, OnPlayerSnapshot, OnIgnored, serverVars
    <3>2. Connected' = Connected BY <3>1, PeersFacts DEF Connected
    <3>3. CASE players' = players BY <3>2, <3>3 DEF PlayersKept
    <3>4. CASE players' # players
      <4>1. \A q \in Connected : players'[q].id = players[q].id
        BY <2>2, <3>1, <3>4, PeersFacts DEF PlayerInfo
      <4>   QED BY <3>2, <4>1 DEF PlayersKept
    <3>   QED BY <3>3, <3>4
  <2>   QED BY <2>1, <2>3 DEF NothingSent, ServerKinds
<1>2. CASE OnDisconnectMessage(p, m) /\ p \in Connected
  <2>1. Departs(p) BY <1>2, ExpelDeparts, PeersFacts DEF OnDisconnectMessage
  <2>   QED BY <1>2, <2>1 DEF ServerKinds
<1>3. CASE OnPlayerFire(p, m) /\ p \in Connected
  <2>1. /\ UNCHANGED <<players, nextEntityId, peer, world>>
        /\ events' = Enqueue(RemoteFire(players[p].id), Others(p))
    BY <1>3 DEF OnPlayerFire, appVars
  <2>   QED BY <1>3, <2>1 DEF FireSent, PlayersKept, Connected, ServerKinds
<1> QED BY <1>1, <1>2, <1>3 DEF HandleReceive

LEMMA LoopKinds ==
  ASSUME IInv, MainLoop \/ Tick
  PROVE  ServerKinds
<1>1. CASE EndEvents \/ EndTimeouts \/ NoBroadcastDue
  <2>1. UNCHANGED <<players, nextEntityId, peer, events, world>>
    BY <1>1 DEF EndEvents, EndTimeouts, NoBroadcastDue, enetVars
  <2>   QED BY <2>1 DEF NothingSent, PlayersKept, Connected, ServerKinds
<1>2. ASSUME NEW p \in Peers, OnDisconnect(p)
      PROVE  ServerKinds
  <2>1. CASE p \in Connected BY <1>2, <2>1, OnDisconnectDeparts DEF ServerKinds
  <2>2. CASE p \notin Connected
    <3>1. /\ UNCHANGED <<players, nextEntityId, events, world>>
          /\ peer' = [peer EXCEPT ![p] = "disconnected"]
      BY <1>2, <2>2 DEF OnDisconnect
    <3>2. peer'[Me] = "connected" => peer[Me] = "connected"
      BY <3>1, PeersFacts
    <3>   QED BY <3>1, <3>2 DEF NothingSent, PlayersKept, Connected, ServerKinds
  <2>   QED BY <2>1, <2>2
<1>3. ASSUME NEW p \in Peers, Expire(p)
      PROVE  ServerKinds
  <2>1. p \in Connected /\ phase' \in Phases BY <1>3 DEF Expire, Expired, Phases
  <2>2. Departs(p) BY <1>3, <2>1, ExpelDeparts DEF Expire
  <2>   QED BY <2>1, <2>2 DEF ServerKinds
<1>4. CASE BroadcastWorldSnapshots
  <2>1. UNCHANGED <<players, nextEntityId, peer, events>>
    BY <1>4 DEF BroadcastWorldSnapshots
  <2>2. world'[Me] \subseteq world[Me] \cup {WorldSnapshot(SnapshotFor(Me))}
    BY <1>4, MeAssumption DEF BroadcastWorldSnapshots
  <2>   QED BY <2>1, <2>2 DEF StatesSent, PlayersKept, Connected, ServerKinds
<1>5. CASE Tick
  <2> DEFINE e(q) == IF players[q].elapsed > HEARTBEAT_TIMEOUT
                     THEN players[q].elapsed ELSE players[q].elapsed + 1
  <2>1. /\ players' = [q \in Connected |-> [players[q] EXCEPT !.elapsed = e(q)]]
        /\ UNCHANGED <<nextEntityId, peer, events, world>>
    BY <1>5 DEF Tick, enetVars
  <2>2. Connected' = Connected BY <2>1 DEF Connected
  <2>3. \A q \in Connected : players'[q].id = players[q].id
    <3> HIDE DEF e
    <3> QED BY <2>1, PeersFacts DEF PlayerInfo
  <2>   QED BY <2>1, <2>2, <2>3 DEF NothingSent, PlayersKept, ServerKinds
<1> QED BY <1>1, <1>2, <1>3, <1>4, <1>5 DEF MainLoop

LEMMA LostKinds ==
  ASSUME IInv, NEW p \in Peers, ConnectionLost(p)
  PROVE  ServerKinds
<1>1. /\ UNCHANGED <<players, nextEntityId>>
      /\ peer' = [peer EXCEPT ![p] = "zombie"]
      /\ events' = [events EXCEPT ![p] = <<>>]
      /\ world' = [world EXCEPT ![p] = {}]
  BY DEF ConnectionLost, appVars
<1>2. /\ peer'[Me] = "connected" => peer[Me] = "connected" /\ events'[Me] = events[Me]
      /\ events'[Me] \in {events[Me], <<>>}
      /\ world'[Me] \subseteq world[Me]
  BY <1>1, MeAssumption DEF IInv, TypeOK
<1> QED BY <1>1, <1>2 DEF NothingSent, PlayersKept, Connected, ServerKinds

---------------------------------------------------------------------------
(***************************************************************************)
(* A step of the server while the client is not looking.                   *)
(***************************************************************************)

\* What the client holds stays; messages to the server may leave.
ClientKept ==
  /\ UNCHANGED <<link, inbox, worldEntities, entities, interp, netEntityId, told, myId>>
  /\ upSnapshots' \subseteq upSnapshots
  /\ \A i \in 1 .. Len(upEvents') : \E k \in 1 .. Len(upEvents) : upEvents'[i] = upEvents[k]

LEMMA KeptMeans ==
  ASSUME ClientKept
  PROVE  /\ Known' = Known /\ (\A id : Heard(id)' <=> Heard(id))
         /\ MyMessages => MyMessages'
  BY DEF ClientKept, Known, Heard, MyMessages

LEMMA LiveIdsKept == PlayersKept => LiveIds' = LiveIds
  BY DEF PlayersKept, LiveIds

\* If the ids and the queue of Me are as before ...
LEMMA NothingKeeps ==
  ASSUME IInv, Agreement, ClientKept, NothingSent
  PROVE  Agreement'
<1> USE DEF Agreement
<1>1. /\ Known' = Known /\ LiveIds' = LiveIds /\ MyMessages'
      /\ \A id : Heard(id)' <=> Heard(id)
  BY KeptMeans, LiveIdsKept DEF NothingSent
<1>2. Joined' BY <1>1 DEF Joined, ClientKept, NothingSent, PlayersKept
<1>3. AboutOthers' BY <1>1 DEF AboutOthers, Foreign, ClientKept, NothingSent
<1>4. HeardIsFinal'
  BY <1>1 DEF HeardIsFinal, ClientKept, NothingSent
<1>5. AllAccounted'
  <2>1. SUFFICES ASSUME peer'[Me] = "connected", link' = "connected", myId' # 0
                 PROVE  AllAccounted'
    BY DEF AllAccounted
  <2>2. peer[Me] = "connected" /\ events'[Me] = events[Me] BY <2>1 DEF NothingSent
  <2>3. \A id : Accounted(id)' <=> Accounted(id) BY <1>1, <2>2 DEF Accounted, Queued
  <2>   QED BY <1>1, <2>1, <2>2, <2>3 DEF AllAccounted, ClientKept, NothingSent
<1> QED BY <1>1, <1>2, <1>3, <1>4, <1>5

\* ... if a state of living players is added to the datagrams ...
LEMMA StatesKeep ==
  ASSUME IInv, Agreement, ClientKept, StatesSent
  PROVE  Agreement'
<1> USE DEF Agreement
<1>1. /\ Known' = Known /\ LiveIds' = LiveIds /\ MyMessages'
      /\ \A id : Heard(id)' <=> Heard(id)
  BY KeptMeans, LiveIdsKept DEF StatesSent
<1>2. Joined' BY <1>1 DEF Joined, ClientKept, StatesSent, PlayersKept
<1>3. AboutOthers' BY <1>1 DEF AboutOthers, Foreign, ClientKept, StatesSent
<1>4. HeardIsFinal' BY <1>1 DEF HeardIsFinal, ClientKept, StatesSent
<1>5. \A id : Accounted(id)' <=> Accounted(id)
  BY <1>1 DEF Accounted, Queued, StatesSent
<1>6. \A s \in SnapshotFor(Me) : s.id \in LiveIds
  BY DEF SnapshotFor, EntityState, LiveIds, Others
<1>7. \A w \in world'[Me] : w \in world[Me] \/ \A s \in w.states : Accounted(s.id)
  BY <1>6 DEF StatesSent, WorldSnapshot, Accounted
<1>8. AllAccounted'
  BY <1>1, <1>5, <1>7 DEF AllAccounted, ClientKept, StatesSent
<1> QED BY <1>1, <1>2, <1>3, <1>4, <1>8

\* ... or if a message about an id that the client has not heard the last of is
\* appended to its queue.
LEMMA QueueGrows ==
  ASSUME IInv, HeardIsFinal, NEW m \in EventMessage, NEW to,
         events'[Me] = Enqueue(m, to)[Me],
         ~Heard(m.id)
  PROVE  /\ \A id \in EntityId : Heard(id) =>
              \A k \in 1 .. Len(events'[Me]) : events'[Me][k].id # id
         /\ \A id : Queued(id) => Queued(id)'
         /\ m.type = "PlayerDisconnect" /\ Me \in to /\ peer[Me] = "connected"
              => Queued(m.id)'
<1>1. TypeOK /\ Me \in Peers /\ events[Me] \in Seq(EventMessage)
  BY PeersFacts DEF IInv
<1>2. CASE events'[Me] = events[Me] /\ ~(Me \in to /\ peer[Me] = "connected")
  BY <1>2 DEF HeardIsFinal, Queued
<1>3. CASE Me \in to /\ peer[Me] = "connected"
  <2>1. events'[Me] = Append(events[Me], m)
    BY <1>1, <1>3 DEF Enqueue
  <2>2. /\ Len(events'[Me]) = Len(events[Me]) + 1 /\ Len(events[Me]) \in Nat
        /\ events'[Me][Len(events[Me]) + 1] = m
        /\ \A k \in 1 .. Len(events[Me]) : events'[Me][k] = events[Me][k]
    BY <1>1, <2>1, AppendIndex
  <2>3. ASSUME NEW id \in EntityId, Heard(id), NEW k \in 1 .. Len(events'[Me])
        PROVE  events'[Me][k].id # id
    BY <2>2, <2>3 DEF HeardIsFinal
  <2>4. ASSUME NEW id, Queued(id) PROVE Queued(id)'
    BY <2>2, <2>4 DEF Queued
  <2>5. m.type = "PlayerDisconnect" => Queued(m.id)'
    BY <2>2 DEF Queued
  <2>   QED BY <2>3, <2>4, <2>5
<1>4. CASE ~(Me \in to /\ peer[Me] = "connected")
  <2>1. events'[Me] = events[Me] BY <1>1, <1>4 DEF Enqueue
  <2>   QED BY <1>2, <1>4, <2>1
<1> QED BY <1>3, <1>4

LEMMA FireKeeps ==
  ASSUME IInv, Agreement, ClientKept, FireSent
  PROVE  Agreement'
<1> USE DEF Agreement
<1>1. /\ Known' = Known /\ LiveIds' = LiveIds /\ MyMessages'
      /\ \A id : Heard(id)' <=> Heard(id)
  BY KeptMeans, LiveIdsKept DEF FireSent
<1>2. PICK p \in Connected : events' = Enqueue(RemoteFire(players[p].id), Others(p))
  BY DEF FireSent
<1> DEFINE m == RemoteFire(players[p].id)
<1>3. /\ players[p].id \in EntityId /\ players[p].id \in LiveIds
      /\ m \in EventMessage /\ m.id = players[p].id
  BY PeersFacts, MessageTypes DEF PlayerInfo, LiveIds, RemoteFire
<1>4. ~Heard(m.id) BY <1>3 DEF HeardIsFinal
<1> HIDE DEF m
<1>5. events'[Me] = Enqueue(m, Others(p))[Me] BY <1>2 DEF m
<1>6. /\ \A id \in EntityId : Heard(id) =>
           \A k \in 1 .. Len(events'[Me]) : events'[Me][k].id # id
      /\ \A id : Queued(id) => Queued(id)'
  BY <1>3, <1>4, <1>5, QueueGrows
<1>7. Joined' BY <1>1 DEF Joined, ClientKept, FireSent, PlayersKept
<1>8. AboutOthers' BY <1>1 DEF AboutOthers, Foreign, ClientKept, FireSent
<1>9. HeardIsFinal' BY <1>1, <1>6 DEF HeardIsFinal, ClientKept, FireSent
<1>10. \A id : Accounted(id) => Accounted(id)' BY <1>1, <1>6 DEF Accounted
<1>11. AllAccounted' BY <1>1, <1>10 DEF AllAccounted, ClientKept, FireSent
<1> QED BY <1>1, <1>7, <1>8, <1>9, <1>11

LEMMA ElementIn ==
  ASSUME NEW S, NEW s \in Seq(S), NEW i \in 1 .. Len(s)
  PROVE  s[i] \in S
  OBVIOUS

\* What the client holds names players by ids.
LEMMA ClientIds ==
  ASSUME ClientIInv(MaxEntityId)
  PROVE  /\ Known \cup interp \subseteq EntityId
         /\ \A s \in worldEntities : s.id \in EntityId
         /\ \A i \in 1 .. Len(inbox) : inbox[i].type = "WorldSnapshot" =>
              \A s \in inbox[i].states : s.id \in EntityId
<1>1. /\ Known \cup interp \subseteq EntityId
      /\ worldEntities \subseteq EntityStates /\ inbox \in Seq(ServerMessage)
  BY DEF ClientIInv, NetInv, NetTypeOK, ManagerInv, ManagerTypeOK
<1>2. \A s \in EntityStates : s.id \in EntityId BY DEF EntityStates
<1>3. ASSUME NEW i \in 1 .. Len(inbox), inbox[i].type = "WorldSnapshot"
      PROVE  \A s \in inbox[i].states : s.id \in EntityId
  <2>1. inbox[i] \in ServerMessage BY <1>1
  <2>   QED BY <1>2, <1>3, <2>1, MessageKinds
<1> QED BY <1>1, <1>2, <1>3

\* Another player gets an id that nobody had.
LEMMA OtherConnects ==
  ASSUME IInv, ClientIInv(MaxEntityId), Agreement, ClientKept,
         NEW p \in Peers, p # Me, OnConnect(p)
  PROVE  Agreement'
<1> USE DEF Agreement
<1>0. PICK id \in EntityId : id = nextEntityId BY DEF IInv, TypeOK
<1> DEFINE m == PlayerConnect(id)
<1>1. /\ Known' = Known /\ MyMessages' /\ \A i : Heard(i)' <=> Heard(i)
  BY KeptMeans
<1>2. /\ id \in Nat \ {0} /\ id <= MaxEntityId
      /\ players' = [q \in Connected \cup {p} |->
                       IF q = p THEN NewPlayer(id) ELSE players[q]]
      /\ nextEntityId' = id + 1
      /\ peer' = [peer EXCEPT ![p] = "connected"]
      /\ events' = Enqueue(m, Others(p))
      /\ world' = world
  BY <1>0 DEF OnConnect, BroadcastPlayerConnect, EntityId
<1>3. Connected' = Connected \cup {p} /\ peer'[Me] = peer[Me] /\ p \notin Connected
  <2>1. Connected' = Connected \cup {p} BY <1>2 DEF Connected
  <2>   QED BY <2>1, <1>2, PeersFacts DEF OnConnect, IInv, PlayersMatchPeers
<1>4. LiveIds' = LiveIds \cup {id}
  <2>1. players'[p].id = id /\ \A q \in Connected : players'[q].id = players[q].id
    BY <1>2, <1>3 DEF NewPlayer
  <2>   QED BY <1>3, <2>1 DEF LiveIds
<1>5. m \in EventMessage /\ m.id = id BY <1>2, MessageTypes DEF PlayerConnect
<1>6. ~Heard(id) BY <1>0, <1>2 DEF HeardIsFinal
<1>7. events'[Me] = Enqueue(m, Others(p))[Me] BY <1>2
<1> HIDE DEF m
<1>8. /\ \A i \in EntityId : Heard(i) =>
           \A k \in 1 .. Len(events'[Me]) : events'[Me][k].id # i
      /\ \A i : Queued(i) => Queued(i)'
  BY <1>5, <1>6, <1>7, QueueGrows
<1>9. Joined'
  <2>1. Me \in Connected' => players'[Me].id = myId
    BY <1>2, <1>3 DEF Joined
  <2>2. nextEntityId \in Nat /\ myId < nextEntityId' /\ nextEntityId' <= MaxEntityId + 1
    BY <1>0, <1>2, ServerBoundsAssumption DEF Joined
  <2>   QED BY <1>1, <2>1, <2>2 DEF Joined, ClientKept
<1>10. \A i : Foreign(i) /\ i \in EntityId => Foreign(i)'
  BY <1>0, <1>2 DEF Foreign, ClientKept, EntityId
<1>11. AboutOthers'
  <2>1. /\ Known \cup interp \subseteq EntityId
        /\ \A s \in worldEntities : s.id \in EntityId
        /\ \A i \in 1 .. Len(inbox) : inbox[i].type = "WorldSnapshot" =>
             \A s \in inbox[i].states : s.id \in EntityId
    BY ClientIds
  <2>   QED BY <1>1, <1>10, <2>1 DEF AboutOthers, ClientKept
<1>12. HeardIsFinal'
  <2>1. ASSUME NEW i \in EntityId, Heard(i)
        PROVE  i < nextEntityId' /\ i \notin LiveIds'
    BY <1>0, <1>2, <1>4, <2>1 DEF HeardIsFinal, EntityId
  <2>   QED BY <1>1, <1>8, <2>1 DEF HeardIsFinal, ClientKept
<1>13. \A i : Accounted(i) => Accounted(i)' BY <1>1, <1>4, <1>8 DEF Accounted
<1>14. AllAccounted' BY <1>1, <1>2, <1>3, <1>13 DEF AllAccounted, ClientKept
<1> QED BY <1>1, <1>9, <1>11, <1>12, <1>14

\* A player that departs leaves its last word in the queue of Me, if that has a
\* connection.
LEMMA DepartureKeeps ==
  ASSUME IInv, Agreement, ClientKept, NEW p \in Connected, Departs(p)
  PROVE  Agreement'
<1> USE DEF Agreement
<1>0. PICK id \in EntityId : id = players[p].id BY PeersFacts DEF PlayerInfo
<1> DEFINE m == PlayerDisconnect(id)
<1>1. /\ Known' = Known /\ MyMessages' /\ \A i : Heard(i)' <=> Heard(i)
  BY KeptMeans
<1>2. p \in Peers /\ id \in LiveIds
  BY <1>0, PeersFacts DEF LiveIds
<1>3. /\ Connected' = Others(p) /\ nextEntityId' = nextEntityId
      /\ \A q \in Connected' : players'[q] = players[q]
  BY DEF Departs, Erase, Connected
<1>4. LiveIds' \subseteq LiveIds /\ \A i \in LiveIds : i # id => i \in LiveIds'
  BY <1>0, <1>3 DEF LiveIds, Others
<1>5. id \notin LiveIds'
  BY <1>0, <1>3 DEF LiveIds, Others, IInv, IdsUnique
<1>6. Joined' BY <1>1, <1>3 DEF Joined, ClientKept, Others
<1>7. AboutOthers' BY <1>1, <1>3 DEF AboutOthers, Foreign, ClientKept
<1>8. m \in EventMessage /\ m.id = id /\ m.type = "PlayerDisconnect"
  BY <1>2, MessageTypes DEF PlayerDisconnect
<1>9. ~Heard(id) BY <1>2 DEF HeardIsFinal
<1>10. CASE p = Me
  <2>1. peer'[Me] # "connected" /\ events'[Me] = <<>> BY <1>10 DEF Departs
  <2>2. HeardIsFinal' BY <1>1, <1>3, <1>4, <2>1 DEF HeardIsFinal, ClientKept
  <2>   QED BY <1>1, <1>6, <1>7, <2>1, <2>2 DEF AllAccounted
<1>11. CASE p # Me
  <2>1. /\ events'[Me] = Enqueue(m, Others(p))[Me]
        /\ peer'[Me] = peer[Me] /\ world'[Me] = world[Me]
    BY <1>0, <1>11, PeersFacts DEF Departs
  <2>   HIDE DEF m
  <2>2. /\ \A i \in EntityId : Heard(i) =>
             \A k \in 1 .. Len(events'[Me]) : events'[Me][k].id # i
        /\ \A i : Queued(i) => Queued(i)'
        /\ Me \in Others(p) /\ peer[Me] = "connected" => Queued(id)'
    BY <1>8, <1>9, <2>1, QueueGrows
  <2>3. HeardIsFinal' BY <1>1, <1>3, <1>4, <2>2 DEF HeardIsFinal, ClientKept
  <2>4. peer[Me] = "connected" => Me \in Others(p)
    BY <1>11, PeersFacts DEF Others, IInv, PlayersMatchPeers
  <2>5. peer[Me] = "connected" => \A i : Accounted(i) => Accounted(i)'
    BY <1>1, <1>4, <2>2, <2>4 DEF Accounted
  <2>6. AllAccounted' BY <1>1, <2>1, <2>5 DEF AllAccounted, ClientKept
  <2>   QED BY <1>1, <1>6, <1>7, <2>3, <2>6
<1> QED BY <1>10, <1>11

\* So nothing the server does without the client breaks the agreement.
LEMMA ServerKindsKeep ==
  ASSUME IInv, ClientIInv(MaxEntityId), Agreement, ClientKept, ServerKinds, ~OnConnect(Me)
  PROVE  Agreement'
  BY NothingKeeps, FireKeeps, StatesKeep, OtherConnects, DepartureKeeps DEF ServerKinds

\* The client's own player comes into the map, with the id its acknowledgement
\* carries.
LEMMA JoinKeeps ==
  ASSUME IInv, ClientIInv(MaxEntityId), Agreement, Join
  PROVE  Agreement'
<1> USE DEF Agreement
<1>1. /\ myId = 0 /\ myId' = nextEntityId
      /\ UNCHANGED <<link, inbox, worldEntities, entities, interp, netEntityId, told,
                     upSnapshots, upEvents>>
  BY DEF Join, clientVars, netVars, managerVars
<1>2. /\ nextEntityId \in Nat \ {0} /\ nextEntityId <= MaxEntityId
      /\ peer[Me] = "disconnected"
      /\ players' = [q \in Connected \cup {Me} |->
                       IF q = Me THEN NewPlayer(nextEntityId) ELSE players[q]]
      /\ nextEntityId' = nextEntityId + 1
      /\ events' = Enqueue(PlayerConnect(nextEntityId), Others(Me))
      /\ world' = world
  BY DEF Join, OnConnect, BroadcastPlayerConnect, IInv, TypeOK, EntityId
<1>3. Connected' = Connected \cup {Me} /\ Me \notin Connected
  <2>1. Connected' = Connected \cup {Me} BY <1>2 DEF Connected
  <2>   QED BY <2>1, <1>2, PeersFacts DEF IInv, PlayersMatchPeers
<1>4. players'[Me].id = nextEntityId /\ LiveIds' = LiveIds \cup {nextEntityId}
  <2>1. /\ players'[Me].id = nextEntityId
        /\ \A q \in Connected : players'[q].id = players[q].id
    BY <1>2, <1>3 DEF NewPlayer
  <2>   QED BY <1>3, <2>1 DEF LiveIds
<1>5. /\ inbox = <<>> /\ worldEntities = {} /\ Known = {} /\ interp = {}
      /\ Known' = Known
  BY <1>1 DEF Joined, Known
<1>6. events'[Me] = <<>> /\ world'[Me] = {}
  <2>1. events'[Me] = events[Me] BY <1>2, MeAssumption DEF Enqueue
  <2>   QED BY <1>2, <2>1, MeAssumption DEF IInv, QueuesIssued
<1>7. Joined'
  <2>1. nextEntityId < nextEntityId' /\ nextEntityId' <= MaxEntityId + 1
    BY <1>2, ServerBoundsAssumption
  <2>2. myId' \in Nat /\ myId' # 0 /\ link' # "connecting"
    BY <1>1, <1>2 DEF Join
  <2>   QED BY <1>1, <1>4, <2>1, <2>2 DEF Joined
<1>8. MyMessages'
  <2>1. netEntityId = 0 BY <1>1 DEF MyMessages
  <2>2. upSnapshots = {}
    BY <1>1 DEF MyMessages, ClientIInv, NetInv, SessionConsistent
  <2>3. \A i \in 1 .. Len(upEvents) : FALSE
    <3>1. upEvents \in Seq([type : {"PlayerFire"}, id : EntityId])
      BY DEF ClientIInv, NetInv, NetTypeOK
    <3>2. ASSUME NEW i \in 1 .. Len(upEvents) PROVE FALSE
      <4>1. upEvents[i] \in [type : {"PlayerFire"}, id : EntityId] BY <3>1, ElementIn
      <4>   QED BY <1>1, <4>1 DEF MyMessages, EntityId
    <3>   QED BY <3>2
  <2>   QED BY <1>1, <1>5, <2>1, <2>2, <2>3 DEF MyMessages
<1>9. AboutOthers' BY <1>1, <1>5 DEF AboutOthers
<1>10. HeardIsFinal'
  <2>1. \A id : Heard(id)' <=> Heard(id) BY <1>1 DEF Heard
  <2>2. \A id \in EntityId : Heard(id) => id < nextEntityId' /\ id \notin LiveIds'
    BY <1>2, <1>4 DEF HeardIsFinal, EntityId
  <2>   QED BY <1>1, <1>5, <1>6, <2>1, <2>2 DEF HeardIsFinal
<1>11. AllAccounted' BY <1>1, <1>5, <1>6 DEF AllAccounted
<1> QED BY <1>7, <1>8, <1>9, <1>10, <1>11

---------------------------------------------------------------------------
(***************************************************************************)
(* A step of the client that hears nothing.                                *)
(***************************************************************************)

\* It may lose the connection and what came by it, take up what the last snapshot
\* named, and send messages with its id.
Calm ==
  /\ UNCHANGED <<serverVars, myId, told>>
  /\ inbox' = inbox \/ (inbox' = <<>> /\ link' # "connected")
  /\ link' = "connected" => link \in {"connecting", "connected"}
  /\ link' = "connecting" => link = "connecting"
  /\ worldEntities' \in {worldEntities, {}}
  /\ netEntityId' \in {netEntityId, 0}
  /\ Known' \cup interp' \subseteq Known \cup interp \cup {s.id : s \in worldEntities}
  /\ Known' \subseteq Known \cup {s.id : s \in worldEntities}
  /\ \A m \in upSnapshots' : m \in upSnapshots \/ (m.id = netEntityId /\ connected)
  /\ \/ upEvents' \in {upEvents, <<>>}
     \/ connected /\ upEvents' = Append(upEvents, PlayerFire(netEntityId))

LEMMA FireEventsSent ==
  ASSUME ClientIInv(MaxEntityId), Calm
  PROVE  \A i \in 1 .. Len(upEvents') :
           \/ \E k \in 1 .. Len(upEvents) : upEvents'[i] = upEvents[k]
           \/ upEvents'[i].id = netEntityId /\ connected
<1>1. upEvents \in Seq([type : {"PlayerFire"}, id : EntityId])
  BY DEF ClientIInv, NetInv, NetTypeOK
<1>2. CASE upEvents' = upEvents BY <1>2
<1>3. CASE upEvents' = <<>> BY <1>3
<1>4. CASE upEvents' = Append(upEvents, PlayerFire(netEntityId)) /\ connected
  <2>1. /\ Len(upEvents') = Len(upEvents) + 1 /\ Len(upEvents) \in Nat
        /\ upEvents'[Len(upEvents) + 1] = PlayerFire(netEntityId)
        /\ \A k \in 1 .. Len(upEvents) : upEvents'[k] = upEvents[k]
    BY <1>1, <1>4
  <2>   QED BY <1>4, <2>1 DEF PlayerFire
<1> QED BY <1>2, <1>3, <1>4 DEF Calm

LEMMA CalmKeeps ==
  ASSUME IInv, ClientIInv(MaxEntityId), Agreement, Calm
  PROVE  Agreement'
<1> USE DEF Agreement
<1>1. /\ UNCHANGED <<players, nextEntityId, peer, events, world, myId, told>>
      /\ Connected' = Connected /\ LiveIds' = LiveIds
  BY DEF Calm, serverVars, Connected, LiveIds
<1>2. /\ \A i \in 1 .. Len(inbox') : i \in 1 .. Len(inbox) /\ inbox'[i] = inbox[i]
      /\ link' = "connected" => inbox' = inbox
  BY DEF Calm
<1>3. Joined' BY <1>1 DEF Joined, Calm
<1>4. MyMessages'
  <2>1. connected => netEntityId = myId
    BY DEF MyMessages, ClientIInv, NetInv, SessionConsistent
  <2>2. \A i \in 1 .. Len(upEvents') : upEvents'[i].id = myId
    BY <2>1, FireEventsSent DEF MyMessages
  <2>   QED BY <1>1, <1>2, <2>1, <2>2 DEF MyMessages, Calm
<1>5. AboutOthers' BY <1>1, <1>2 DEF AboutOthers, Foreign, Calm
<1>6. HeardIsFinal'
  <2>1. \A id : Heard(id)' => Heard(id) BY <1>1, <1>2 DEF Heard
  <2>   QED BY <1>1, <1>2, <2>1 DEF HeardIsFinal
<1>7. AllAccounted'
  <2>1. SUFFICES ASSUME peer'[Me] = "connected", link' = "connected", myId' # 0
                 PROVE  AllAccounted'
    BY DEF AllAccounted
  <2>2. link = "connected" BY <1>1, <2>1 DEF Calm, Joined
  <2>3. \A id : Accounted(id) => Accounted(id)'
    BY <1>1, <1>2, <2>1 DEF Accounted, Queued, Heard
  <2>   QED BY <1>1, <1>2, <2>1, <2>2, <2>3 DEF AllAccounted, Calm
<1> QED BY <1>3, <1>4, <1>5, <1>6, <1>7

\* What is taken up from a snapshot was in it or known before.
LEMMA UpdateTakes ==
  ASSUME NEW states, EntityManager_UpdateFromWorldSnapshot(states)
  PROVE  /\ Known' \subseteq Known \cup {s.id : s \in states}
         /\ interp' \subseteq interp \cup {s.id : s \in states}
<1> DEFINE taken == {s.id : s \in {t \in states : \/ t.id \in Known
                                                  \/ t.cell = GetLocalPlayerCellID}}
<1>1. CASE UNCHANGED managerVars BY <1>1 DEF managerVars, Known
<1>2. CASE ~UNCHANGED managerVars
  <2>1. /\ entities' = [id \in Known \cup (taken \ Known) |->
                         IF id \in taken \ Known THEN 0 ELSE entities[id]]
        /\ interp' = interp \cup taken
    BY <1>2 DEF EntityManager_UpdateFromWorldSnapshot
  <2>2. taken \subseteq {s.id : s \in states} OBVIOUS
  <2>   HIDE DEF taken
  <2>3. Known' = Known \cup (taken \ Known) BY <2>1 DEF Known
  <2>   QED BY <2>1, <2>2, <2>3
<1> QED BY <1>1, <1>2

\* All of the plug-in's steps but the reading of a message are calm.
LEMMA StepIsCalm ==
  ASSUME IInv, ClientIInv(MaxEntityId), ClientStep, ~PollReceive
  PROVE  Calm
<1> USE DEF netVars, managerVars, sessionVars, upVars
<1>0. UNCHANGED <<serverVars, myId>> /\ NetTypeOK
  BY DEF ClientStep, ClientIInv, NetInv
<1>1. CASE frame = "poll"
  <2>1. /\ PollDisconnect \/ \E heartbeatDue \in BOOLEAN : PollEnd(heartbeatDue)
        /\ UNCHANGED managerVars
    BY <1>1
    DEF ClientStep, PluginStep, Engine, BeginFrame, Poll, ProcessDisconnects, ProcessFires,
        ProcessSnapshot, TickEntities, DetectAttack, SendSnapshot, ExitGame, FinishExit
  <2>2. /\ UNCHANGED <<inbox, worldEntities, upEvents, upSnapshots>>
        /\ link' \in {link, "none"} /\ netEntityId' \in {netEntityId, 0}
    BY <2>1 DEF PollDisconnect, PollEnd
  <2>3. told' = told BY <2>2 DEF ClientStep
  <2>   QED BY <1>0, <2>1, <2>2, <2>3 DEF Calm, Known
<1>2. CASE frame # "poll"
  <2>1. told' = told /\ ~Poll BY <1>2 DEF ClientStep, Poll
  <2>2. CASE BeginFrame \/ ProcessFires
    BY <1>0, <2>1, <2>2 DEF BeginFrame, ProcessFires, Calm, Known
  <2>3. CASE ProcessDisconnects
    <3>1. /\ UNCHANGED <<entities, link, netEntityId, worldEntities, inbox,
                         upEvents, upSnapshots>>
          /\ interp' \subseteq interp
      BY <2>3 DEF ProcessDisconnects, EntityManager_RemoveEntities
    <3>   QED BY <1>0, <2>1, <3>1 DEF Calm, Known
  <2>4. CASE ProcessSnapshot
    <3>1. UNCHANGED <<link, netEntityId, worldEntities, inbox, upEvents, upSnapshots>>
      BY <2>4 DEF ProcessSnapshot
    <3>2. /\ Known' \subseteq Known \cup {s.id : s \in worldEntities}
          /\ interp' \subseteq interp \cup {s.id : s \in worldEntities}
      BY <2>4, UpdateTakes DEF ProcessSnapshot, Known
    <3>   QED BY <1>0, <2>1, <3>1, <3>2 DEF Calm
  <2>5. CASE TickEntities
    <3>1. PICK placed \in SUBSET ToSpawn : EntityManager_Tick(placed)
      BY <2>5 DEF TickEntities
    <3>2. UNCHANGED netVars /\ interp' = interp /\ Known' \subseteq Known
      BY <2>5, <3>1 DEF TickEntities, EntityManager_Tick, Known
    <3>   QED BY <1>0, <2>1, <3>2 DEF Calm
  <2>6. CASE DetectAttack \/ SendSnapshot
    <3>1. UNCHANGED managerVars BY <2>6 DEF DetectAttack, SendSnapshot
    <3>2. CASE UNCHANGED netVars BY <1>0, <2>1, <3>1, <3>2 DEF Calm, Known
    <3>3. CASE SendFireEvent BY <1>0, <2>1, <3>1, <3>3 DEF SendFireEvent, Calm, Known
    <3>4. CASE \E cell \in Cells : SendPlayerSnapshot(cell)
      BY <1>0, <2>1, <3>1, <3>4 DEF SendPlayerSnapshot, PlayerSnapshot, Calm, Known
    <3>5. GetLocalPlayerCellID # 0 => localCell \in Cells
      BY DEF GetLocalPlayerCellID, ClientIInv, ManagerInv, ManagerTypeOK
    <3>   QED BY <2>6, <3>2, <3>3, <3>4, <3>5 DEF DetectAttack, SendSnapshot
  <2>7. CASE ExitGame
    <3>1. /\ UNCHANGED <<netEntityId, worldEntities>>
          /\ inbox' = <<>> /\ upEvents' = <<>> /\ upSnapshots' = {}
          /\ link' \in {"closing", "none"} /\ interp' = {} /\ Known' = {}
      BY <2>7 DEF ExitGame, BeginDisconnect, EntityManager_Shutdown, Known
    <3>   QED BY <1>0, <2>1, <3>1 DEF Calm
  <2>8. CASE FinishExit
    <3>1. /\ UNCHANGED <<inbox, upEvents, upSnapshots, entities, interp>>
          /\ link' = "none" /\ worldEntities' = {} /\ netEntityId' = 0
      BY <2>8 DEF FinishExit, EndDisconnect
    <3>   QED BY <1>0, <2>1, <3>1 DEF Calm, Known
  <2>9. CASE Engine
    <3>1. UNCHANGED netVars /\ UNCHANGED entityVars
      BY <2>9 DEF Engine, Travel, LoadSavegame
    <3>   QED BY <1>0, <2>1, <3>1 DEF Calm, Known, entityVars
  <2>   QED BY <2>1, <2>2, <2>3, <2>4, <2>5, <2>6, <2>7, <2>8, <2>9
            DEF ClientStep, PluginStep
<1> QED BY <1>1, <1>2

\* So are the steps of its connection, and the loss of a datagram.
LEMMA LinkIsCalm ==
  ASSUME ClientLink \/ LosePlayerSnapshot
  PROVE  Calm
<1> USE DEF netVars, managerVars, historyVars, sessionVars, upVars
<1>1. CASE ClientLink
  <2>1. UNCHANGED <<serverVars, historyVars, managerVars>> /\ (LinkEstablished \/ LinkLost)
    BY <1>1 DEF ClientLink, Network
  <2>2. CASE LinkEstablished BY <2>1, <2>2 DEF LinkEstablished, Calm, Known
  <2>3. CASE LinkLost BY <2>1, <2>3 DEF LinkLost, Calm, Known
  <2>   QED BY <2>1, <2>2, <2>3
<1>2. CASE LosePlayerSnapshot
  BY <1>2 DEF LosePlayerSnapshot, TakeSnapshot, Calm, Known
<1> QED BY <1>1, <1>2

---------------------------------------------------------------------------
(***************************************************************************)
(* A step by which the client hears something.                             *)
(***************************************************************************)

\* A message that is read was the first in the inbox.
LEMMA ReadingKeeps ==
  ASSUME IInv, ClientIInv(MaxEntityId), Agreement, ClientStep, PollReceive
  PROVE  Agreement'
<1> DEFINE m == Head(inbox)
<1> USE DEF Agreement
<1>1. /\ frame = "poll" /\ UNCHANGED <<serverVars, managerVars, myId>>
      /\ link = "connected" /\ link' = link /\ inbox # <<>> /\ inbox' = Tail(inbox)
  <2>1. link = "connected" /\ link' = link /\ inbox # <<>> /\ inbox' = Tail(inbox)
    BY DEF PollReceive
  <2>2. inbox \in Seq(ServerMessage) BY DEF ClientIInv, NetInv, NetTypeOK
  <2>3. inbox' # inbox BY <2>1, <2>2
  <2>4. Poll
    BY <2>1, <2>3
    DEF ClientStep, PluginStep, Engine, BeginFrame, ProcessDisconnects, ProcessFires,
        ProcessSnapshot, TickEntities, DetectAttack, SendSnapshot, ExitGame, FinishExit,
        netVars, SendFireEvent, SendPlayerSnapshot, BeginDisconnect, EndDisconnect
  <2>   QED BY <2>1, <2>4 DEF ClientStep, Poll
<1>2. /\ UNCHANGED <<players, nextEntityId, peer, events, world>>
      /\ Connected' = Connected /\ LiveIds' = LiveIds
      /\ UNCHANGED <<entities, interp>> /\ Known' = Known
  BY <1>1 DEF serverVars, managerVars, Connected, LiveIds, Known
<1>3. /\ Len(inbox) \in Nat /\ 1 \in 1 .. Len(inbox) /\ inbox[1] = m
      /\ Len(inbox') = Len(inbox) - 1
      /\ \A i \in 1 .. Len(inbox') : i + 1 \in 1 .. Len(inbox) /\ inbox'[i] = inbox[i + 1]
      /\ \A i \in 1 .. Len(inbox) : i = 1 \/ i - 1 \in 1 .. Len(inbox')
      /\ inbox' # inbox
  <2>1. inbox \in Seq(ServerMessage) BY DEF ClientIInv, NetInv, NetTypeOK
  <2>   QED BY <1>1, <2>1
<1>4. told' = IF m.type = "PlayerDisconnect" THEN told \cup {m.id} ELSE told
  BY <1>1, <1>3 DEF ClientStep
<1>5. /\ UNCHANGED <<upEvents, upSnapshots>>
      /\ worldEntities' = worldEntities
         \/ (m.type = "WorldSnapshot" /\ worldEntities' = m.states)
      /\ netEntityId' \in {netEntityId, 0}
         \/ (m.type = "ConnectAck" /\ netEntityId' = m.id)
  BY DEF PollReceive, OnConnectAck, OnServerDisconnect, OnWorldSnapshot, OnPlayerConnect,
     OnPlayerDisconnect, OnRemoteFire, sessionVars, upVars
<1> HIDE DEF m
<1>6. \A id : Heard(id)' <=> Heard(id)
  <2>1. ASSUME NEW id, Heard(id) PROVE Heard(id)'
    <3>1. CASE id \in told BY <1>4, <3>1 DEF Heard
    <3>2. ASSUME NEW i \in 1 .. Len(inbox),
                 inbox[i].type = "PlayerDisconnect", inbox[i].id = id
          PROVE  Heard(id)'
      <4>1. CASE i = 1 BY <1>3, <1>4, <3>2, <4>1 DEF Heard
      <4>2. CASE i # 1
        <5>1. i - 1 \in 1 .. Len(inbox') /\ inbox'[i - 1] = inbox[i]
          BY <1>3, <4>2
        <5>   QED BY <3>2, <5>1 DEF Heard
      <4>   QED BY <4>1, <4>2
    <3>   QED BY <2>1, <3>1, <3>2 DEF Heard
  <2>2. ASSUME NEW id, Heard(id)' PROVE Heard(id)
    BY <1>3, <1>4, <2>2 DEF Heard
  <2>   QED BY <2>1, <2>2
<1>7. Joined'
  BY <1>1, <1>2, <1>3 DEF Joined
<1>8. MyMessages' BY <1>1, <1>3, <1>5 DEF MyMessages
<1>9. AboutOthers' BY <1>1, <1>2, <1>3, <1>5 DEF AboutOthers, Foreign
<1>10. HeardIsFinal'
  <2>1. told' \subseteq EntityId
    <3>1. m \in ServerMessage
      BY <1>1, HeadAndTail DEF ClientIInv, NetInv, NetTypeOK, m
    <3>   QED BY <1>4, <3>1, MessageKinds DEF HeardIsFinal
  <2>2. ASSUME NEW j \in 1 .. Len(inbox'), inbox'[j].type = "RemoteFire"
        PROVE  /\ inbox'[j].id \notin told'
               /\ \A i \in 1 .. j - 1 :
                    inbox'[i].type = "PlayerDisconnect" => inbox'[i].id # inbox'[j].id
    <3>1. /\ j + 1 \in 1 .. Len(inbox) /\ inbox'[j] = inbox[j + 1]
          /\ 1 \in 1 .. (j + 1) - 1
          /\ \A i \in 1 .. j - 1 : /\ inbox'[i] = inbox[i + 1]
                                   /\ i + 1 \in 1 .. (j + 1) - 1
      BY <1>3
    <3>2. /\ inbox[j + 1].id \notin told
          /\ \A i \in 1 .. (j + 1) - 1 :
               inbox[i].type = "PlayerDisconnect" => inbox[i].id # inbox[j + 1].id
      BY <2>2, <3>1 DEF HeardIsFinal
    <3>   QED BY <1>3, <1>4, <3>1, <3>2
  <2>   QED BY <1>2, <1>6, <2>1, <2>2 DEF HeardIsFinal
<1>11. AllAccounted'
  <2>1. \A id : Accounted(id)' <=> Accounted(id) BY <1>2, <1>6 DEF Accounted, Queued
  <2>   QED BY <1>1, <1>2, <1>3, <1>5, <2>1 DEF AllAccounted
<1> QED BY <1>7, <1>8, <1>9, <1>10, <1>11

LEMMA HeadFirst ==
  ASSUME NEW S, NEW s \in Seq(S), s # <<>>
  PROVE  Tail(s) # s /\ 1 \in 1 .. Len(s) /\ Head(s) = s[1] /\ Head(s) \in S
<1>1. Len(Tail(s)) # Len(s) OBVIOUS
<1> QED BY <1>1

\* A message that arrives is the client's acknowledgement, an event or a state of
\* another player.
LEMMA ArrivalKeeps ==
  ASSUME IInv, ClientIInv(MaxEntityId), Agreement,
         NEW m, Network(Arrive(m)),
         UNCHANGED <<players, nextEntityId, peer, myId, told>>,
         world'[Me] \subseteq world[Me],
         peer[Me] = "connected",
         m.type = "ConnectAck" => m.id = myId,
         m.type = "WorldSnapshot" =>
           \A s \in m.states : Foreign(s.id) /\ Accounted(s.id),
         \* What leaves the event queue is m.
         \/ events'[Me] = events[Me] /\ m.type \notin {"PlayerDisconnect", "RemoteFire"}
         \/ /\ events[Me] # <<>> /\ events'[Me] = Tail(events[Me])
            /\ m = Head(events[Me])
  PROVE  Agreement'
<1> USE DEF Agreement
<1>1. /\ UNCHANGED <<link, worldEntities, netEntityId, upEvents, upSnapshots,
                     entities, interp>>
      /\ inbox' = Append(inbox, m) /\ link = "connected"
  BY DEF Network, Arrive, sessionVars, upVars, managerVars
<1>2. /\ Connected' = Connected /\ LiveIds' = LiveIds /\ Known' = Known
      /\ nextEntityId' = nextEntityId /\ peer' = peer /\ myId' = myId /\ told' = told
  BY <1>1 DEF Connected, LiveIds, Known
<1>3. /\ Len(inbox) \in Nat /\ Len(inbox') = Len(inbox) + 1
      /\ inbox'[Len(inbox) + 1] = m
      /\ \A i \in 1 .. Len(inbox) : i \in 1 .. Len(inbox') /\ inbox'[i] = inbox[i]
      /\ \A i \in 1 .. Len(inbox') : i = Len(inbox) + 1 \/ i \in 1 .. Len(inbox)
      /\ Len(inbox) + 1 \in 1 .. Len(inbox')
  <2>1. inbox \in Seq(ServerMessage) BY DEF ClientIInv, NetInv, NetTypeOK
  <2>   QED BY <1>1, <2>1
<1>4. myId # 0
  <2>1. Me \in Connected /\ players[Me].id \in EntityId
    BY PeersFacts DEF IInv, PlayersMatchPeers, PlayerInfo
  <2>   QED BY <2>1 DEF Joined, EntityId
<1>5. \A id : Heard(id)' <=> Heard(id) \/ (m.type = "PlayerDisconnect" /\ m.id = id)
  BY <1>2, <1>3 DEF Heard
<1>6. Joined' BY <1>1, <1>2, <1>4 DEF Joined
<1>7. MyMessages' BY <1>1, <1>2, <1>3 DEF MyMessages
<1>8. AboutOthers' BY <1>1, <1>2, <1>3 DEF AboutOthers, Foreign
\* The rest of the queue says no more of a player than it did, and nothing of one
\* whose departure has arrived.
<1>9. \A k \in 1 .. Len(events'[Me]) : \E l \in 1 .. Len(events[Me]) :
        /\ events'[Me][k] = events[Me][l]
        /\ events'[Me] # events[Me] => l > 1
  <2>1. CASE events'[Me] = events[Me] BY <2>1
  <2>2. CASE events[Me] # <<>> /\ events'[Me] = Tail(events[Me])
    <3>1. \A k \in 1 .. Len(events'[Me]) :
            /\ k + 1 \in 1 .. Len(events[Me]) /\ k + 1 > 1
            /\ events'[Me][k] = events[Me][k + 1]
      BY <2>2, PeersFacts, TailIndex
    <3>   QED BY <3>1
  <2>   QED BY <2>1, <2>2
<1>10. m.type \in {"PlayerDisconnect", "RemoteFire"} =>
         /\ events'[Me] # events[Me] /\ 1 \in 1 .. Len(events[Me]) /\ m = events[Me][1]
         /\ m \in EventMessage
  <2>1. ASSUME events[Me] # <<>>, events'[Me] = Tail(events[Me]), m = Head(events[Me])
        PROVE  /\ events'[Me] # events[Me] /\ 1 \in 1 .. Len(events[Me])
               /\ m = events[Me][1] /\ m \in EventMessage
    BY <2>1, PeersFacts, HeadFirst
  <2>   QED BY <2>1
<1>11. HeardIsFinal'
  <2>1. ASSUME NEW id \in EntityId, Heard(id)'
        PROVE  /\ id < nextEntityId' /\ id \notin LiveIds'
               /\ \A k \in 1 .. Len(events'[Me]) : events'[Me][k].id # id
    <3>1. CASE Heard(id) BY <1>2, <1>9, <3>1 DEF HeardIsFinal
    <3>2. CASE m.type = "PlayerDisconnect" /\ m.id = id
      <4>1. /\ 1 \in 1 .. Len(events[Me]) /\ events[Me][1].type = "PlayerDisconnect"
            /\ events[Me][1].id = id /\ events'[Me] # events[Me]
        BY <1>10, <3>2
      <4>2. /\ id \notin LiveIds /\ id < nextEntityId
            /\ \A l \in 1 + 1 .. Len(events[Me]) : events[Me][l].id # id
        BY <4>1, MeAssumption DEF IInv, DisconnectIsFinal, QueuesIssued
      <4>   QED BY <1>2, <1>9, <4>1, <4>2
    <3>   QED BY <1>5, <2>1, <3>1, <3>2
  <2>2. m.type = "RemoteFire" => ~Heard(m.id)
    BY <1>10 DEF HeardIsFinal, EventMessage
  <2>3. ASSUME NEW j \in 1 .. Len(inbox'), inbox'[j].type = "RemoteFire"
        PROVE  /\ inbox'[j].id \notin told'
               /\ \A i \in 1 .. j - 1 :
                    inbox'[i].type = "PlayerDisconnect" => inbox'[i].id # inbox'[j].id
    <3>1. CASE j \in 1 .. Len(inbox)
      <4>1. inbox'[j] = inbox[j] /\ \A i \in 1 .. j - 1 : inbox'[i] = inbox[i]
        BY <1>3, <3>1
      <4>   QED BY <1>2, <2>3, <3>1, <4>1 DEF HeardIsFinal
    <3>2. CASE j = Len(inbox) + 1
      <4>1. inbox'[j] = m /\ \A i \in 1 .. j - 1 : i \in 1 .. Len(inbox) /\ inbox'[i] = inbox[i]
        BY <1>3, <3>2
      <4>   QED BY <1>2, <2>2, <2>3, <4>1 DEF Heard
    <3>   QED BY <1>3, <3>1, <3>2
  <2>   QED BY <1>2, <2>1, <2>3 DEF HeardIsFinal
<1>12. \A id : Accounted(id) => Accounted(id)'
  <2>1. ASSUME NEW id, Queued(id) PROVE Queued(id)' \/ Heard(id)'
    <3>1. PICK k \in 1 .. Len(events[Me]) :
            events[Me][k].type = "PlayerDisconnect" /\ events[Me][k].id = id
      BY <2>1 DEF Queued
    <3>2. CASE events'[Me] = events[Me] BY <3>1, <3>2 DEF Queued
    <3>3. CASE /\ events[Me] # <<>> /\ events'[Me] = Tail(events[Me])
               /\ m = Head(events[Me])
      <4>1. CASE k = 1
        <5>1. m = events[Me][1] BY <3>3, PeersFacts
        <5>   QED BY <1>5, <3>1, <4>1, <5>1
      <4>2. CASE k # 1
        <5>1. k - 1 \in 1 .. Len(events'[Me]) /\ events'[Me][k - 1] = events[Me][k]
          BY <3>3, <4>2, PeersFacts, TailIndex
        <5>   QED BY <3>1, <5>1 DEF Queued
      <4>   QED BY <4>1, <4>2
    <3>   QED BY <3>2, <3>3
  <2>   QED BY <1>2, <1>5, <2>1 DEF Accounted
<1>13. AllAccounted'
  BY <1>1, <1>2, <1>3, <1>12 DEF AllAccounted
<1> QED BY <1>6, <1>7, <1>8, <1>11, <1>13

\* Each channel delivers what the server's invariant promises of it.
LEMMA ReceiveKeepsAgreement ==
  ASSUME IInv, ClientIInv(MaxEntityId), Agreement,
         ReceiveAck \/ ReceiveEvent \/ ReceiveSnapshot
  PROVE  Agreement' /\ ClientIInv(MaxEntityId)'
<1> USE DEF Agreement
<1>0. /\ acks[Me] \in Seq(AckMessage) /\ events[Me] \in Seq(EventMessage)
      /\ world[Me] \subseteq WorldMessage
  BY MeAssumption DEF IInv, TypeOK
<1>1. CASE ReceiveAck
  <2> DEFINE m == Head(acks[Me])
  <2>1. /\ acks[Me] # <<>> /\ Network(Arrive(m))
        /\ UNCHANGED <<players, nextEntityId, peer, events, world, myId, told>>
    BY <1>1 DEF ReceiveAck, DeliverAck, appVars, historyVars
  <2>2. m \in AckMessage /\ m = acks[Me][1] /\ 1 \in 1 .. Len(acks[Me])
    BY <1>0, <2>1, HeadFirst
  <2>3. m.type = "ConnectAck" /\ m.id = myId
    BY <2>2, MeAssumption DEF AckMessage, IInv, AckMatchesPlayer, Joined
  <2>4. peer[Me] = "connected" BY <2>1, MeAssumption DEF IInv, QueuesIssued
  <2>5. m \in Messages(MaxEntityId)
    BY <2>2, <2>3 DEF Messages, ServerMessage, MessageUpTo
  <2>   HIDE DEF m
  <2>6. Agreement' BY <2>1, <2>3, <2>4, ArrivalKeeps
  <2>   QED BY <2>1, <2>5, <2>6, EnvironmentKeeps, ServerBoundsAssumption
<1>2. CASE ReceiveEvent
  <2> DEFINE m == Head(events[Me])
  <2>1. /\ events[Me] # <<>> /\ Network(Arrive(m)) /\ events'[Me] = Tail(events[Me])
        /\ UNCHANGED <<players, nextEntityId, peer, world, myId, told>>
    BY <1>2, MeAssumption
    DEF ReceiveEvent, DeliverEvent, appVars, historyVars, IInv, TypeOK
  <2>2. m \in EventMessage BY <1>0, <2>1, HeadFirst
  <2>3. m.type \notin {"ConnectAck", "WorldSnapshot"} BY <2>2 DEF EventMessage
  <2>4. peer[Me] = "connected" BY <2>1, MeAssumption DEF IInv, QueuesIssued
  <2>5. m \in Messages(MaxEntityId)
    BY <2>2, <2>3 DEF Messages, ServerMessage, MessageUpTo
  <2>6. m = Head(events[Me]) OBVIOUS
  <2>   HIDE DEF m
  <2>7. Agreement' BY <2>1, <2>3, <2>4, <2>6, ArrivalKeeps
  <2>   QED BY <2>1, <2>5, <2>7, EnvironmentKeeps, ServerBoundsAssumption
<1>3. CASE ReceiveSnapshot
  <2>1. PICK m \in world[Me] : Network(Arrive(m)) /\ LeaveNetwork(Me, m)
    BY <1>3 DEF ReceiveSnapshot
  <2>2. /\ UNCHANGED <<players, nextEntityId, peer, events, myId, told>>
        /\ world'[Me] \subseteq world[Me]
    BY <1>3, <2>1, MeAssumption
    DEF ReceiveSnapshot, LeaveNetwork, appVars, historyVars, IInv, TypeOK
  <2>3. m \in WorldMessage /\ m.type = "WorldSnapshot" /\ m.states \subseteq EntityStates
    BY <1>0 DEF WorldMessage
  <2>4. peer[Me] = "connected" /\ Me \in Connected
    BY <2>1, MeAssumption DEF IInv, QueuesIssued, PlayersMatchPeers
  <2>5. myId # 0 /\ link = "connected"
    BY <2>1, <2>4, PeersFacts DEF Joined, PlayerInfo, EntityId, Network, Arrive
  <2>6. \A s \in m.states : Foreign(s.id) /\ Accounted(s.id)
    BY <2>4, <2>5, MeAssumption
    DEF IInv, NeverAboutRecipient, QueuesIssued, Joined, Foreign, AllAccounted
  <2>7. \A s \in m.states : s.id <= MaxEntityId
    <3>1. \A s \in m.states : s.id \in Nat BY <2>3 DEF EntityStates, EntityId
    <3>2. nextEntityId \in Nat /\ nextEntityId <= MaxEntityId + 1
      BY DEF Joined, IInv, TypeOK, EntityId
    <3>   QED BY <2>6, <3>1, <3>2, ServerBoundsAssumption DEF Foreign
  <2>8. m \in Messages(MaxEntityId)
    BY <2>3, <2>7 DEF Messages, ServerMessage, MessageUpTo, StatesUpTo
  <2>9. Agreement' BY <2>1, <2>2, <2>3, <2>4, <2>6, ArrivalKeeps
  <2>   QED BY <2>1, <2>8, <2>9, EnvironmentKeeps, ServerBoundsAssumption
<1> QED BY <1>1, <1>2, <1>3

---------------------------------------------------------------------------
(***************************************************************************)
(* The steps of the session.                                               *)
(***************************************************************************)

\* Only a connection advances the counter.
LEMMA CounterKept ==
  ASSUME NEW p, NEW m, HandleReceive(p, m)
  PROVE  nextEntityId' = nextEntityId
  BY DEF HandleReceive, OnHeartbeat, OnDisconnectMessage, OnPlayerSnapshot, OnPlayerFire,
     OnIgnored, serverVars, appVars

LEMMA ConnectCounts ==
  ASSUME IInv, nextEntityId' = nextEntityId
  PROVE  ~OnConnect(Me)
  BY DEF OnConnect, IInv, TypeOK, EntityId

\* The server and the other players, while the client does nothing.
LEMMA OtherSideKeeps ==
  ASSUME SessionIInv, ServeOthers \/ ServerStep \/ OtherPlayers \/ ServerLosesClient
                      \/ LoseSnapshot
  PROVE  SessionIInv'
<1> USE DEF SessionIInv
<1>1. UNCHANGED clientVars /\ UNCHANGED historyVars
  BY DEF ServeOthers, ServerStep, OtherPlayers, ServerLosesClient, LoseSnapshot
<1>2. ClientKept
  BY <1>1 DEF ClientKept, clientVars, netVars, managerVars, historyVars
<1>3. ClientIInv(MaxEntityId)'
  <2>1. [ClientNext({})]_clientVars BY <1>1
  <2>   QED BY <2>1, NextKeeps, ServerBoundsAssumption
<1>4. ServeOthers \/ LoseSnapshot => NothingSent /\ Next
  <2>1. ASSUME NEW p \in Peers, p # Me, DeliverAck(p) \/ DeliverEvent(p)
        PROVE  NothingSent
    BY <2>1, MeAssumption
    DEF DeliverAck, DeliverEvent, NothingSent, PlayersKept, Connected, appVars, IInv, TypeOK
  <2>2. ASSUME NEW p \in Peers, NEW w \in world[p], LeaveNetwork(p, w)
        PROVE  NothingSent
    BY <2>2, MeAssumption
    DEF LeaveNetwork, NothingSent, PlayersKept, Connected, appVars, IInv, TypeOK
  <2>3. ServeOthers \/ LoseSnapshot => NothingSent
    BY <2>1, <2>2, MeAssumption DEF ServeOthers, LoseSnapshot
  <2>4. ServeOthers \/ LoseSnapshot => Next
    BY MeAssumption DEF ServeOthers, LoseSnapshot, Next
  <2>   QED BY <2>3, <2>4
<1>5. CASE ServeOthers \/ LoseSnapshot
  BY <1>2, <1>3, <1>4, <1>5, NothingKeeps, NextKeepsIInv
<1>6. CASE ServerStep
  <2>1. ServerKinds /\ Next BY <1>6, LoopKinds DEF ServerStep, Next
  <2>2. ~OnConnect(Me)
    BY <1>6, MeAssumption
    DEF ServerStep, MainLoop, Tick, OnConnect, EndEvents, OnDisconnect, Expire,
        EndTimeouts, BroadcastWorldSnapshots, NoBroadcastDue, IInv, TypeOK, EntityId
  <2>   QED BY <1>2, <1>3, <2>1, <2>2, ServerKindsKeep, NextKeepsIInv
<1>7. ASSUME NEW p \in Peers \ {Me},
             \/ OnConnect(p)
             \/ \E m \in ClientMessages : HandleReceive(p, m)
             \/ ConnectionLost(p)
      PROVE  SessionIInv'
  <2>1. Next BY <1>7 DEF Next
  <2>2. IInv' BY <2>1, NextKeepsIInv
  <2>3. CASE OnConnect(p) BY <1>2, <1>3, <2>2, <2>3, OtherConnects
  <2>4. CASE ~OnConnect(p)
    <3>1. ServerKinds BY <1>7, <2>4, ReceiveKinds, LostKinds
    <3>2. Agreement' \/ OnConnect(Me)
      BY <1>2, <3>1, ServerKindsKeep
    <3>3. ~OnConnect(Me) BY <1>7, <2>4, CounterKept, ConnectCounts DEF ConnectionLost, appVars
    <3>   QED BY <1>3, <2>2, <3>2, <3>3
  <2>   QED BY <2>3, <2>4
<1>8. CASE ServerLosesClient
  <2>1. ConnectionLost(Me) /\ Next
    BY <1>8, MeAssumption DEF ServerLosesClient, Next
  <2>2. ~OnConnect(Me) BY <2>1 DEF ConnectionLost, OnConnect
  <2>   QED BY <1>2, <1>3, <2>1, <2>2, MeAssumption, LostKinds, ServerKindsKeep, NextKeepsIInv
<1> QED BY <1>5, <1>6, <1>7, <1>8 DEF OtherPlayers

\* The server reads what the client has sent.
LEMMA ServerReceivesKeeps ==
  ASSUME SessionIInv, ServerReceives
  PROVE  SessionIInv'
<1> USE DEF SessionIInv
<1>0. /\ UNCHANGED <<managerVars, frame, historyVars>>
      /\ upSystem \in Seq({Heartbeat, Disconnect})
      /\ upEvents \in Seq([type : {"PlayerFire"}, id : EntityId])
      /\ upSnapshots \subseteq SnapshotMessages
  BY DEF ServerReceives, ClientIInv, NetInv, NetTypeOK
<1>1. Uplink BY DEF ServerReceives, Uplink
<1>2. ClientIInv(MaxEntityId)' BY <1>1, EnvironmentKeeps, ServerBoundsAssumption
<1>3. PICK m : WellFormed(m) /\ HandleReceive(Me, m)
  <2>1. CASE upSystem # <<>> /\ HandleReceive(Me, Head(upSystem))
    <3>1. Head(upSystem) \in {Heartbeat, Disconnect} BY <1>0, <2>1, HeadFirst
    <3>2. WellFormed(Head(upSystem)) BY <3>1 DEF WellFormed, Heartbeat, Disconnect
    <3>   QED BY <2>1, <3>2
  <2>2. CASE upEvents # <<>> /\ HandleReceive(Me, Head(upEvents))
    <3>1. Head(upEvents) \in [type : {"PlayerFire"}, id : EntityId]
      BY <1>0, <2>2, HeadFirst
    <3>2. WellFormed(Head(upEvents)) BY <3>1 DEF WellFormed
    <3>   QED BY <2>2, <3>2
  <2>3. ASSUME NEW n \in upSnapshots, HandleReceive(Me, n)
        PROVE  \E m : WellFormed(m) /\ HandleReceive(Me, m)
    <3>1. WellFormed(n) BY <1>0 DEF WellFormed, SnapshotMessages
    <3>   QED BY <2>3, <3>1
  <2>   QED BY <2>1, <2>2, <2>3 DEF ServerReceives
<1>4. IInv' /\ ServerKinds /\ ~OnConnect(Me)
  BY <1>3, MeAssumption, ReceiveKeepsIInv, ReceiveKinds, CounterKept, ConnectCounts
<1>5. ClientKept
  <2>1. /\ UNCHANGED <<link, inbox, worldEntities, netEntityId>>
        /\ upSnapshots' \subseteq upSnapshots
        /\ upEvents' = upEvents \/ (upEvents # <<>> /\ upEvents' = Tail(upEvents))
    BY <1>1 DEF Uplink, TakeSystem, TakeEvent, TakeSnapshot, sessionVars
  <2>2. \A i \in 1 .. Len(upEvents') : \E k \in 1 .. Len(upEvents) : upEvents'[i] = upEvents[k]
    <3>1. CASE upEvents' = upEvents BY <3>1
    <3>2. CASE upEvents # <<>> /\ upEvents' = Tail(upEvents)
      <4>1. \A i \in 1 .. Len(upEvents') :
              i + 1 \in 1 .. Len(upEvents) /\ upEvents'[i] = upEvents[i + 1]
        BY <1>0, <3>2, TailIndex
      <4>   QED BY <4>1
    <3>   QED BY <2>1, <3>1, <3>2
  <2>   QED BY <1>0, <2>1, <2>2 DEF ClientKept, managerVars, historyVars
<1> QED BY <1>2, <1>4, <1>5, ServerKindsKeep

\* The client's own steps, and those of its connection.
LEMMA ClientSideKeeps ==
  ASSUME SessionIInv, ClientStep \/ ClientLink \/ LosePlayerSnapshot
  PROVE  SessionIInv'
<1> USE DEF SessionIInv
<1>1. UNCHANGED serverVars
  BY DEF ClientStep, ClientLink, LosePlayerSnapshot
<1>2. IInv' BY <1>1, NextKeepsIInv
<1>3. ClientNext({})
  BY DEF ClientStep, ClientLink, LosePlayerSnapshot, ClientNext, Uplink
<1>4. ClientIInv(MaxEntityId)' BY <1>3, NextKeeps, ServerBoundsAssumption
<1>5. Agreement'
  BY ReadingKeeps, StepIsCalm, LinkIsCalm, CalmKeeps
<1> QED BY <1>2, <1>4, <1>5

LEMMA SessionNextKeeps == SessionIInv /\ [SessionNext]_vars => SessionIInv'
<1> SUFFICES ASSUME SessionIInv, [SessionNext]_vars
             PROVE  SessionIInv'
  OBVIOUS
<1> USE DEF SessionIInv
<1>1. CASE UNCHANGED vars
  <2>1. UNCHANGED serverVars /\ UNCHANGED clientVars /\ UNCHANGED historyVars
    BY <1>1 DEF vars
  <2>2. IInv' BY <2>1, NextKeepsIInv
  <2>3. ClientIInv(MaxEntityId)'
    <3>1. [ClientNext({})]_clientVars BY <2>1
    <3>   QED BY <3>1, NextKeeps, ServerBoundsAssumption
  <2>4. Calm
    BY <2>1 DEF Calm, clientVars, netVars, managerVars, historyVars, Known
  <2>   QED BY <2>2, <2>3, <2>4, CalmKeeps
<1>2. CASE ServeOthers \/ ServerStep \/ OtherPlayers \/ ServerLosesClient \/ LoseSnapshot
  BY <1>2, OtherSideKeeps
<1>3. CASE ClientStep \/ ClientLink \/ LosePlayerSnapshot BY <1>3, ClientSideKeeps
<1>4. CASE ServerReceives BY <1>4, ServerReceivesKeeps
<1>5. CASE ReceiveAck \/ ReceiveEvent \/ ReceiveSnapshot
  <2>1. IInv'
    <3>1. DeliverAck(Me) \/ DeliverEvent(Me) \/ \E w \in world[Me] : LeaveNetwork(Me, w)
      BY <1>5 DEF ReceiveAck, ReceiveEvent, ReceiveSnapshot
    <3>2. Next BY <3>1, MeAssumption DEF Next
    <3>   QED BY <3>2, NextKeepsIInv
  <2>   QED BY <1>5, <2>1, ReceiveKeepsAgreement
<1>6. CASE Join
  <2>1. OnConnect(Me) /\ UNCHANGED clientVars BY <1>6 DEF Join
  <2>2. IInv'
    <3>1. Next BY <2>1, MeAssumption DEF Next
    <3>   QED BY <3>1, NextKeepsIInv
  <2>3. ClientIInv(MaxEntityId)'
    <3>1. [ClientNext({})]_clientVars BY <2>1
    <3>   QED BY <3>1, NextKeeps, ServerBoundsAssumption
  <2>   QED BY <1>6, <2>2, <2>3, JoinKeeps
<1> QED BY <1>1, <1>2, <1>3, <1>4, <1>5, <1>6 DEF SessionNext

LEMMA SessionInitEstablishes == SessionInit => SessionIInv
<1> SUFFICES ASSUME SessionInit PROVE SessionIInv
  OBVIOUS
<1>1. IInv /\ ClientIInv(MaxEntityId)
  BY InitIInv, InitEstablishes, ServerBoundsAssumption DEF SessionInit
<1>2. /\ nextEntityId = 1 /\ Connected = {} /\ LiveIds = {} /\ events[Me] = <<>>
      /\ myId = 0 /\ told = {} /\ peer[Me] # "connected"
      /\ inbox = <<>> /\ worldEntities = {} /\ Known = {} /\ interp = {}
      /\ netEntityId = 0 /\ upSnapshots = {} /\ upEvents = <<>>
  BY MeAssumption
  DEF SessionInit, ServerInit, ClientInit, NetInit, ManagerInit, Connected, LiveIds, Known
<1>3. Agreement
  BY <1>2, ServerBoundsAssumption
  DEF Agreement, Joined, MyMessages, AboutOthers, HeardIsFinal, Heard, AllAccounted
<1> QED BY <1>1, <1>3 DEF SessionIInv

---------------------------------------------------------------------------
(***************************************************************************)
(* The theorems.                                                           *)
(***************************************************************************)

\* The invariant holds of the server, the client and the network between them.
THEOREM SessionInductive == SessionSpec => []SessionIInv
  BY SessionInitEstablishes, SessionNextKeeps, PTL DEF SessionSpec

\* Type correctness.
THEOREM SessionTypeCorrect == SessionSpec => []SessionTypeOK
<1>1. SessionIInv => SessionTypeOK
  BY DEF SessionIInv, IInv, ClientIInv, NetInv, ManagerInv, ClientTypeOK, SessionTypeOK,
     Agreement, Joined, HeardIsFinal
<1> QED BY <1>1, SessionInductive, PTL

\* However acknowledgement, snapshots and events overtake each other, the client shows
\* no avatar of its own player and none of a player that never was.
THEOREM SessionNoSelfAvatar == SessionSpec => []NoSelfAvatar
<1>1. SessionIInv => NoSelfAvatar
  <2> SUFFICES ASSUME SessionIInv PROVE NoSelfAvatar
    OBVIOUS
  <2> USE DEF SessionIInv, Agreement
  <2>1. \A id \in Known \cup interp : id # myId /\ id < nextEntityId
    BY DEF AboutOthers, Foreign
  <2>2. \A s \in worldEntities : s.id # myId BY DEF AboutOthers, Foreign
  <2>3. ASSUME NEW w \in world[Me], NEW s \in w.states PROVE s.id # myId
    <3>1. Me \in Connected BY MeAssumption DEF IInv, QueuesIssued, PlayersMatchPeers
    <3>   QED BY <3>1 DEF IInv, NeverAboutRecipient, Joined
  <2>4. ASSUME NEW i \in DOMAIN inbox, inbox[i].type = "WorldSnapshot",
               NEW s \in inbox[i].states
        PROVE  s.id # myId
    <3>1. i \in 1 .. Len(inbox)
      BY DEF ClientIInv, NetInv, NetTypeOK
    <3>   QED BY <2>4, <3>1 DEF AboutOthers, Foreign
  <2>5. ASSUME NEW s, s \in StatesForClient PROVE s.id # myId
    <3>1. CASE s \in worldEntities BY <2>2, <3>1
    <3>2. CASE s \in UNION {w.states : w \in world[Me]} BY <2>3, <3>2
    <3>3. CASE s \in UNION {inbox[i].states :
                             i \in {j \in DOMAIN inbox : inbox[j].type = "WorldSnapshot"}}
      <4>1. PICK i \in {j \in DOMAIN inbox : inbox[j].type = "WorldSnapshot"} :
              s \in inbox[i].states
        BY <3>3
      <4>   QED BY <2>4, <4>1
    <3> DEFINE sent == UNION {w.states : w \in world[Me]}
               read == UNION {inbox[i].states :
                              i \in {j \in DOMAIN inbox : inbox[j].type = "WorldSnapshot"}}
    <3>4. StatesForClient = worldEntities \cup sent \cup read BY DEF StatesForClient
    <3>5. s \in sent => s.id # myId BY <3>2
    <3>6. s \in read => s.id # myId BY <3>3
    <3> HIDE DEF sent, read
    <3>   QED BY <2>5, <3>1, <3>4, <3>5, <3>6
  <2>   QED BY <2>1, <2>5 DEF NoSelfAvatar
<1> QED BY <1>1, SessionInductive, PTL

\* Client and server mean the same player by the client's id.
THEOREM SessionIdentityAgreed == SessionSpec => []IdentityAgreed
<1>1. SessionIInv => IdentityAgreed
  <2> SUFFICES ASSUME SessionIInv PROVE IdentityAgreed
    OBVIOUS
  <2>1. upEvents \in Seq([type : {"PlayerFire"}, id : EntityId])
    BY DEF SessionIInv, ClientIInv, NetInv, NetTypeOK
  <2>2. DOMAIN upEvents = 1 .. Len(upEvents) BY <2>1
  <2>   QED BY <2>2 DEF IdentityAgreed, SessionIInv, Agreement, Joined, MyMessages
<1> QED BY <1>1, SessionInductive, PTL

\* The departure of a player that the client may show is never forgotten while both
\* ends have the connection.
THEOREM SessionAvatarsAccounted == SessionSpec => []AvatarsAccounted
<1>1. SessionIInv => AvatarsAccounted
  <2> SUFFICES ASSUME SessionIInv, peer[Me] = "connected", link = "connected", myId # 0
               PROVE  Known \subseteq LiveIds \cup Departing \cup told
    BY DEF AvatarsAccounted
  <2>1. DOMAIN inbox = 1 .. Len(inbox) /\ DOMAIN events[Me] = 1 .. Len(events[Me])
    <3>1. inbox \in Seq(ServerMessage) /\ events[Me] \in Seq(EventMessage)
      BY PeersFacts DEF SessionIInv, ClientIInv, NetInv, NetTypeOK
    <3>   QED BY <3>1
  <2>2. \A id : Queued(id) \/ Heard(id) => id \in Departing \cup told
    BY <2>1 DEF Queued, Heard, Departing
  <2>3. \A id \in Known : Accounted(id) BY DEF SessionIInv, Agreement, AllAccounted
  <2>   QED BY <2>2, <2>3 DEF Accounted
<1> QED BY <1>1, SessionInductive, PTL

\* No fire of a player reaches the client after the departure of that player.
THEOREM SessionNoFireAfterDeparture == SessionSpec => []NoFireAfterDeparture
<1>1. SessionIInv => NoFireAfterDeparture
  <2> SUFFICES ASSUME SessionIInv, NEW j \in DOMAIN inbox, inbox[j].type = "RemoteFire"
               PROVE  /\ inbox[j].id \notin told
                      /\ \A i \in 1 .. j - 1 : inbox[i] # PlayerDisconnect(inbox[j].id)
    BY DEF NoFireAfterDeparture
  <2>1. j \in 1 .. Len(inbox) BY DEF SessionIInv, ClientIInv, NetInv, NetTypeOK
  <2>2. ASSUME NEW i \in 1 .. j - 1, inbox[i] = PlayerDisconnect(inbox[j].id)
        PROVE  FALSE
    <3>1. inbox[i].type = "PlayerDisconnect" /\ inbox[i].id = inbox[j].id
      BY <2>2 DEF PlayerDisconnect
    <3>   QED BY <2>1, <3>1 DEF SessionIInv, Agreement, HeardIsFinal
  <2>   QED BY <2>1, <2>2 DEF SessionIInv, Agreement, HeardIsFinal
<1> QED BY <1>1, SessionInductive, PTL
=============================================================================
