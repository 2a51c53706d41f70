---------------------------- MODULE ServerProofs ----------------------------
(***************************************************************************)
(* Proofs about Server, for every number of peers, timeout, set of cells   *)
(* and bound.                                                              *)
(***************************************************************************)
EXTENDS Server, TLAPS

USE DEF EntityId

---------------------------------------------------------------------------
(***************************************************************************)
(* What the ENet calls do to the queues.                                   *)
(***************************************************************************)

\* The messages the program builds are messages of their channel.
LEMMA MessageTypes ==
  ASSUME NEW id \in EntityId
  PROVE  /\ PlayerConnect(id) \in EventMessage
         /\ PlayerDisconnect(id) \in EventMessage
         /\ RemoteFire(id) \in EventMessage
         /\ ConnectAck(id) \in AckMessage
BY DEF PlayerConnect, PlayerDisconnect, RemoteFire, ConnectAck,
       EventMessage, AckMessage

\* enet_peer_send appends to the queues of connected recipients and leaves
\* every other queue alone.
LEMMA EnqueueAppends ==
  ASSUME TypeOK, NEW m \in EventMessage, NEW to
  PROVE  /\ Enqueue(m, to) \in [Peers -> Seq(EventMessage)]
         /\ \A q \in Peers :
              \/ Enqueue(m, to)[q] = events[q]
              \/ /\ q \in to
                 /\ peer[q] = "connected"
                 /\ Enqueue(m, to)[q] = Append(events[q], m)
BY DEF TypeOK, Enqueue

\* Where a message of an appended queue comes from.
LEMMA AppendIndex ==
  ASSUME NEW S, NEW s \in Seq(S), NEW m \in S
  PROVE  /\ Append(s, m) \in Seq(S)
         /\ Len(Append(s, m)) = Len(s) + 1
         /\ Append(s, m)[Len(s) + 1] = m
         /\ \A i \in 1 .. Len(s) : Append(s, m)[i] = s[i]
OBVIOUS

\* The tail of a queue holds its later messages, one place earlier.
LEMMA TailIndex ==
  ASSUME NEW S, NEW s \in Seq(S), s # <<>>
  PROVE  /\ Tail(s) \in Seq(S)
         /\ Len(Tail(s)) = Len(s) - 1
         /\ \A i \in 1 .. Len(Tail(s)) : Tail(s)[i] = s[i + 1]
OBVIOUS

---------------------------------------------------------------------------
(***************************************************************************)
(* The invariant holds initially.                                          *)
(***************************************************************************)

LEMMA InitIInv == ServerInit => IInv
<1> SUFFICES ASSUME ServerInit PROVE IInv
  OBVIOUS
<1> USE DEF ServerInit
<1>1. Connected = {}
  BY DEF Connected
<1>2. TypeOK
  BY <1>1 DEF TypeOK, PeerState, Phases
<1>3. QED
  BY <1>1, <1>2 DEF IInv, PlayersMatchPeers, IdsUnique, QueuesIssued, StoredCells,
     AckMatchesPlayer, DisconnectIsFinal, NeverAboutRecipient

---------------------------------------------------------------------------
(***************************************************************************)
(* Every step keeps it: one lemma per action, or per kind of action.       *)
(***************************************************************************)

\* Appending m to some queues leaves disconnects final when no queue has a
\* disconnect of m's id yet.
LEMMA EnqueueKeepsFinal ==
  ASSUME TypeOK, DisconnectIsFinal,
         NEW m \in EventMessage, NEW to,
         \A q \in Peers : \A k \in 1 .. Len(events[q]) :
           events[q][k].type = "PlayerDisconnect" => events[q][k].id # m.id,
         NEW p \in Peers,
         NEW i \in 1 .. Len(Enqueue(m, to)[p]),
         NEW j \in i + 1 .. Len(Enqueue(m, to)[p]),
         Enqueue(m, to)[p][i].type = "PlayerDisconnect"
  PROVE  Enqueue(m, to)[p][j].id # Enqueue(m, to)[p][i].id
<1> DEFINE new == Enqueue(m, to)[p]
<1>1. events[p] \in Seq(EventMessage)
  BY DEF TypeOK
<1>2. CASE new = events[p]
  BY <1>2 DEF DisconnectIsFinal
<1>3. CASE new = Append(events[p], m)
  <2>1. i <= Len(events[p])
    BY <1>1, <1>3, AppendIndex
  <2>2. /\ new[i] = events[p][i]
        /\ events[p][i].type = "PlayerDisconnect"
    BY <1>1, <1>3, <2>1, AppendIndex
  <2>3. CASE j <= Len(events[p])
    BY <1>1, <1>3, <2>1, <2>2, <2>3, AppendIndex DEF DisconnectIsFinal
  <2>4. CASE j = Len(events[p]) + 1
    <3>1. new[j] = m
      BY <1>1, <1>3, <2>4, AppendIndex
    <3>2. events[p][i].id # m.id
      BY <2>1, <2>2, <1>1
    <3>3. QED
      BY <2>2, <3>1, <3>2
  <2>5. QED
    BY <1>1, <1>3, <2>3, <2>4, AppendIndex
<1>4. new = events[p] \/ new = Append(events[p], m)
  BY EnqueueAppends
<1>5. QED
  BY <1>2, <1>3, <1>4

\* The elements of an appended queue are the old ones and perhaps m.
LEMMA EnqueueElements ==
  ASSUME TypeOK, NEW m \in EventMessage, NEW to, NEW p \in Peers,
         NEW i \in 1 .. Len(Enqueue(m, to)[p])
  PROVE  \/ i \in 1 .. Len(events[p]) /\ Enqueue(m, to)[p][i] = events[p][i]
         \/ p \in to /\ peer[p] = "connected" /\ Enqueue(m, to)[p][i] = m
<1>1. events[p] \in Seq(EventMessage)
  BY DEF TypeOK
<1>2. CASE Enqueue(m, to)[p] = events[p]
  BY <1>2
<1>3. CASE /\ p \in to
           /\ peer[p] = "connected"
           /\ Enqueue(m, to)[p] = Append(events[p], m)
  <2>1. i \in 1 .. Len(events[p]) \/ i = Len(events[p]) + 1
    BY <1>1, <1>3, AppendIndex
  <2>2. QED
    BY <1>1, <1>3, <2>1, AppendIndex
<1>4. QED
  BY <1>2, <1>3, EnqueueAppends

LEMMA ConnectKeepsIInv ==
  ASSUME IInv, NEW p \in Peers, OnConnect(p)
  PROVE  IInv'
<1> DEFINE id == nextEntityId
           m  == PlayerConnect(id)
<1> USE DEF IInv
<1>1. /\ p \notin Connected
      /\ events[p] = <<>> /\ acks[p] = <<>> /\ world[p] = {}
  BY DEF OnConnect, PlayersMatchPeers, QueuesIssued
<1>2. /\ Connected' = Connected \cup {p}
      /\ players'[p] = NewPlayer(id)
      /\ \A q \in Connected : players'[q] = players[q]
  BY <1>1 DEF OnConnect, Connected
<1>3. /\ id \in EntityId
      /\ m \in EventMessage
      /\ ConnectAck(id) \in AckMessage
      /\ nextEntityId' = id + 1
  BY MessageTypes DEF OnConnect, TypeOK
<1>4. events' = Enqueue(m, Others(p))
  BY DEF OnConnect, BroadcastPlayerConnect
<1>5. TypeOK'
  <2>1. NewPlayer(id) \in PlayerInfo
    BY <1>3, HeartbeatTimeoutAssumption DEF NewPlayer, PlayerInfo
  <2>2. players' \in [Connected' -> PlayerInfo]
    BY <2>1, <1>2 DEF TypeOK, OnConnect, Connected
  <2>3. acks' \in [Peers -> Seq(AckMessage)]
    BY <1>3 DEF TypeOK, OnConnect
  <2>4. events' \in [Peers -> Seq(EventMessage)]
    BY <1>3, <1>4, EnqueueAppends
  <2>5. QED
    BY <1>2, <1>3, <2>2, <2>3, <2>4 DEF TypeOK, OnConnect, PeerState
<1>6. PlayersMatchPeers'
  BY <1>2 DEF PlayersMatchPeers, OnConnect, TypeOK
<1>7. IdsUnique'
  BY <1>2, <1>3 DEF IdsUnique, NewPlayer, TypeOK, PlayerInfo
<1>8. StoredCells'
  BY <1>2 DEF StoredCells, NewPlayer
<1>9. AckMatchesPlayer'
  <2> SUFFICES ASSUME NEW q \in Peers, NEW i \in 1 .. Len(acks'[q])
               PROVE  q \in Connected' /\ acks'[q][i].id = players'[q].id
    BY DEF AckMatchesPlayer
  <2>1. CASE q = p
    <3>1. acks'[q] = <<ConnectAck(id)>>
      BY <2>1, <1>1 DEF OnConnect, TypeOK
    <3>2. QED
      BY <3>1, <2>1, <1>2 DEF ConnectAck, NewPlayer
  <2>2. CASE q # p
    BY <2>2, <1>2 DEF AckMatchesPlayer, OnConnect, TypeOK
  <2>3. QED
    BY <2>1, <2>2
<1>10. QueuesIssued'
  <2> SUFFICES ASSUME NEW q \in Peers
               PROVE  /\ \A i \in 1 .. Len(events'[q]) : events'[q][i].id < nextEntityId'
                      /\ \A w \in world'[q] : \A s \in w.states : s.id < nextEntityId'
                      /\ peer'[q] # "connected" => /\ acks'[q] = <<>>
                                                  /\ events'[q] = <<>>
                                                  /\ world'[q] = {}
    BY DEF QueuesIssued
  <2>1. ASSUME NEW i \in 1 .. Len(events'[q])
        PROVE  events'[q][i].id < nextEntityId'
    <3>1. CASE i \in 1 .. Len(events[q]) /\ events'[q][i] = events[q][i]
      <4>1. events[q][i] \in EventMessage
        BY <3>1 DEF TypeOK
      <4>2. QED
        BY <3>1, <4>1, <1>3 DEF QueuesIssued, EventMessage
    <3>2. CASE events'[q][i] = m
      BY <3>2, <1>3 DEF PlayerConnect
    <3>3. QED
      BY <3>1, <3>2, <1>3, <1>4, EnqueueElements
  <2>2. ASSUME NEW w \in world'[q], NEW s \in w.states
        PROVE  s.id < nextEntityId'
    <3>1. w \in world[q] /\ s.id \in Nat
      BY DEF OnConnect, TypeOK, WorldMessage, EntityStates
    <3>2. QED
      BY <3>1, <1>3 DEF QueuesIssued
  <2>3. ASSUME peer'[q] # "connected"
        PROVE  acks'[q] = <<>> /\ events'[q] = <<>> /\ world'[q] = {}
    BY <2>3, <1>3, <1>4, EnqueueAppends DEF QueuesIssued, OnConnect, TypeOK
  <2>4. QED
    BY <2>1, <2>2, <2>3
<1>11. NeverAboutRecipient'
  <2> SUFFICES ASSUME NEW q \in Connected'
               PROVE  /\ \A i \in 1 .. Len(events'[q]) : events'[q][i].id # players'[q].id
                      /\ \A w \in world'[q] : \A s \in w.states : s.id # players'[q].id
    BY DEF NeverAboutRecipient
  <2>0. q \in Peers
    BY <1>2 DEF TypeOK
  <2>1. CASE q = p
    <3>1. events'[q] = <<>> /\ world'[q] = {}
      BY <2>1, <2>0, <1>1, <1>3, <1>4, EnqueueAppends DEF Others, OnConnect
    <3>2. QED
      BY <3>1
  <2>2. CASE q # p
    <3>1. q \in Connected /\ players'[q] = players[q] /\ world'[q] = world[q]
      BY <2>2, <1>2 DEF OnConnect
    <3>2. players[q].id # id
      BY <3>1 DEF IdsUnique, TypeOK, PlayerInfo
    <3>3. ASSUME NEW i \in 1 .. Len(events'[q])
          PROVE  events'[q][i].id # players[q].id
      BY <3>1, <3>2, <2>0, <1>3, <1>4, EnqueueElements
         DEF NeverAboutRecipient, PlayerConnect
    <3>4. QED
      BY <3>1, <3>3 DEF NeverAboutRecipient
  <2>3. QED
    BY <2>1, <2>2
<1>12. DisconnectIsFinal'
  <2>1. \A q \in Peers : \A k \in 1 .. Len(events[q]) : events[q][k].id # id
    BY <1>3 DEF QueuesIssued, TypeOK, EventMessage
  <2>2. m.id = id /\ m.type = "PlayerConnect"
    BY DEF PlayerConnect
  <2> SUFFICES ASSUME NEW q \in Peers, NEW i \in 1 .. Len(events'[q]),
                      events'[q][i].type = "PlayerDisconnect"
               PROVE  /\ events'[q][i].id \notin LiveIds'
                      /\ \A j \in i + 1 .. Len(events'[q]) :
                           events'[q][j].id # events'[q][i].id
    BY DEF DisconnectIsFinal
  <2>3. i \in 1 .. Len(events[q]) /\ events'[q][i] = events[q][i]
    BY <1>3, <1>4, <2>2, EnqueueElements
  <2>4. events'[q][i].id \notin LiveIds /\ events'[q][i].id # id
    BY <2>1, <2>3 DEF DisconnectIsFinal
  <2>5. LiveIds' = LiveIds \cup {id}
    BY <1>1, <1>2 DEF LiveIds, NewPlayer
  <2>6. \A j \in i + 1 .. Len(events'[q]) : events'[q][j].id # events'[q][i].id
    BY <1>3, <1>4, <2>1, <2>2, EnqueueKeepsFinal
  <2>7. QED
    BY <2>4, <2>5, <2>6
<1>13. QED
  BY <1>5, <1>6, <1>7, <1>8, <1>9, <1>10, <1>11, <1>12

\* What the three paths by which player p leaves the map have in common: the
\* others are told, and nothing stays queued for its peer, which is no longer
\* connected.
Departs(p) ==
  /\ players' = Erase(p)
  /\ nextEntityId' = nextEntityId
  /\ phase' \in Phases
  /\ peer' \in [Peers -> PeerState]
  /\ peer'[p] # "connected"
  /\ \A q \in Peers : q # p => peer'[q] = peer[q]
  /\ events' \in [Peers -> Seq(EventMessage)]
  /\ events'[p] = <<>>
  /\ \A q \in Peers : q # p =>
       events'[q] = Enqueue(PlayerDisconnect(players[p].id), Others(p))[q]
  /\ acks' \in [Peers -> Seq(AckMessage)]
  /\ acks'[p] = <<>>
  /\ \A q \in Peers : q # p => acks'[q] = acks[q]
  /\ world' \in [Peers -> SUBSET WorldMessage]
  /\ world'[p] = {}
  /\ \A q \in Peers : q # p => world'[q] = world[q]

LEMMA DepartureKeepsIInv ==
  ASSUME IInv, NEW p \in Connected, Departs(p)
  PROVE  IInv'
<1> DEFINE id == players[p].id
           m  == PlayerDisconnect(id)
<1>a. /\ TypeOK /\ PlayersMatchPeers /\ IdsUnique /\ QueuesIssued
      /\ StoredCells /\ AckMatchesPlayer /\ DisconnectIsFinal
      /\ NeverAboutRecipient
  BY DEF IInv
<1>1. /\ p \in Peers
      /\ id \in EntityId
      /\ m \in EventMessage
      /\ m.id = id
      /\ id < nextEntityId
  BY <1>a, MessageTypes DEF TypeOK, PlayerInfo, PlayerDisconnect, IdsUnique
<1>2. /\ Connected' = Others(p)
      /\ \A q \in Connected' : /\ q \in Connected
                                /\ q \in Peers
                                /\ q # p
                                /\ players'[q] = players[q]
                                /\ players[q].id # id
  BY <1>a DEF Departs, Erase, Connected, Others, TypeOK, IdsUnique
<1>3. LiveIds' \subseteq LiveIds \ {id}
  BY <1>2 DEF LiveIds
<1>4. \A q \in Peers : q # p => /\ events'[q] = Enqueue(m, Others(p))[q]
                               /\ peer'[q] = peer[q]
                               /\ acks'[q] = acks[q]
                               /\ world'[q] = world[q]
  BY DEF Departs
<1>5. /\ events'[p] = <<>> /\ acks'[p] = <<>> /\ world'[p] = {}
      /\ peer'[p] # "connected"
      /\ nextEntityId' = nextEntityId
  BY DEF Departs
<1>6. TypeOK'
  <2>1. players' \in [Connected' -> PlayerInfo] /\ Connected' \subseteq Peers
    BY <1>a, <1>2 DEF TypeOK, Departs, Erase, Connected, Others
  <2>2. QED
    BY <1>a, <2>1 DEF TypeOK, Departs
<1>7. PlayersMatchPeers'
  BY <1>a, <1>2, <1>4, <1>5 DEF PlayersMatchPeers, Others
<1>8. IdsUnique' /\ StoredCells'
  BY <1>a, <1>2, <1>5 DEF IdsUnique, StoredCells
<1>9. AckMatchesPlayer'
  <2> SUFFICES ASSUME NEW q \in Peers, NEW i \in 1 .. Len(acks'[q])
               PROVE  q \in Connected' /\ acks'[q][i].id = players'[q].id
    BY DEF AckMatchesPlayer
  <2>1. q # p /\ acks'[q] = acks[q]
    BY <1>4, <1>5
  <2>2. QED
    BY <1>a, <1>2, <2>1 DEF AckMatchesPlayer, Others
<1>10. ASSUME NEW q \in Peers, NEW i \in 1 .. Len(events'[q])
       PROVE  /\ q # p
              /\ \/ i \in 1 .. Len(events[q]) /\ events'[q][i] = events[q][i]
                 \/ q \in Others(p) /\ events'[q][i] = m
  <2>1. q # p /\ events'[q] = Enqueue(m, Others(p))[q]
    BY <1>4, <1>5
  <2>2. QED
    BY <1>a, <1>1, <2>1, EnqueueElements
<1>11. QueuesIssued'
  <2>1. ASSUME NEW q \in Peers, NEW i \in 1 .. Len(events'[q])
        PROVE  events'[q][i].id < nextEntityId'
    BY <1>a, <1>1, <1>5, <1>10, <2>1 DEF QueuesIssued
  <2>2. ASSUME NEW q \in Peers, NEW w \in world'[q], NEW s \in w.states
        PROVE  s.id < nextEntityId'
    BY <1>a, <1>4, <1>5, <2>2 DEF QueuesIssued
  <2>3. ASSUME NEW q \in Peers, peer'[q] # "connected"
        PROVE  acks'[q] = <<>> /\ events'[q] = <<>> /\ world'[q] = {}
    <3>1. CASE q = p
      BY <1>5, <3>1
    <3>2. CASE q # p
      <4>1. peer[q] # "connected"
        BY <1>4, <2>3, <3>2
      <4>2. events'[q] = events[q]
        BY <1>a, <1>1, <1>4, <3>2, <4>1, EnqueueAppends
      <4>3. QED
        BY <1>a, <1>4, <3>2, <4>1, <4>2 DEF QueuesIssued
    <3>3. QED
      BY <3>1, <3>2
  <2>4. QED
    BY <2>1, <2>2, <2>3 DEF QueuesIssued
<1>12. NeverAboutRecipient'
  <2>1. ASSUME NEW q \in Connected', NEW i \in 1 .. Len(events'[q])
        PROVE  events'[q][i].id # players'[q].id
    <3>1. /\ q \in Peers /\ q \in Connected
          /\ players'[q] = players[q] /\ players[q].id # id
      BY <1>2, <2>1
    <3>2. \/ events'[q][i] = m
          \/ i \in 1 .. Len(events[q]) /\ events'[q][i] = events[q][i]
      BY <1>10, <2>1, <3>1
    <3>3. QED
      BY <1>a, <1>1, <3>1, <3>2 DEF NeverAboutRecipient
  <2>2. ASSUME NEW q \in Connected', NEW w \in world'[q], NEW s \in w.states
        PROVE  s.id # players'[q].id
    <3>1. /\ q \in Connected /\ players'[q] = players[q] /\ world'[q] = world[q]
      BY <1>2, <1>4, <2>2
    <3>2. QED
      BY <1>a, <2>2, <3>1 DEF NeverAboutRecipient
  <2>3. QED
    BY <2>1, <2>2 DEF NeverAboutRecipient
<1>13. DisconnectIsFinal'
  <2> SUFFICES ASSUME NEW q \in Peers, NEW i \in 1 .. Len(events'[q]),
                      events'[q][i].type = "PlayerDisconnect"
               PROVE  /\ events'[q][i].id \notin LiveIds'
                      /\ \A j \in i + 1 .. Len(events'[q]) :
                           events'[q][j].id # events'[q][i].id
    BY DEF DisconnectIsFinal
  <2>1. events'[q][i].id \notin LiveIds'
    BY <1>a, <1>1, <1>3, <1>10 DEF DisconnectIsFinal
  <2>2. q # p /\ events'[q] = Enqueue(m, Others(p))[q]
    BY <1>4, <1>10
  <2>3. \A r \in Peers : \A k \in 1 .. Len(events[r]) :
          events[r][k].type = "PlayerDisconnect" => events[r][k].id # m.id
    BY <1>a, <1>1 DEF DisconnectIsFinal, LiveIds
  <2>4. \A j \in i + 1 .. Len(events'[q]) : events'[q][j].id # events'[q][i].id
    BY <1>a, <1>1, <2>2, <2>3, EnqueueKeepsFinal
  <2>5. QED
    BY <2>1, <2>4
<1>14. QED
  BY <1>6, <1>7, <1>8, <1>9, <1>11, <1>12, <1>13 DEF IInv

\* A queue loses nothing, its head, or everything.
Shrinks(old, new) ==
  \/ new = old
  \/ new = <<>>
  \/ old # <<>> /\ new = Tail(old)

\* What is left of a queue was in it, in the same order.
LEMMA ShrinksIndex ==
  ASSUME NEW S, NEW old \in Seq(S), NEW new, Shrinks(old, new)
  PROVE  /\ new \in Seq(S)
         /\ \E d \in 0 .. 1 : \A i \in 1 .. Len(new) :
              i + d \in 1 .. Len(old) /\ new[i] = old[i + d]
<1>1. CASE new = old \/ new = <<>>
  <2>1. \A i \in 1 .. Len(new) : i + 0 \in 1 .. Len(old) /\ new[i] = old[i + 0]
    BY <1>1
  <2>2. new \in Seq(S)
    <3>1. CASE new = old
      BY <3>1
    <3>2. CASE new = <<>>
      BY <3>2
    <3>3. QED
      BY <1>1, <3>1, <3>2
  <2>3. 0 \in 0 .. 1
    OBVIOUS
  <2>4. QED
    BY <2>1, <2>2, <2>3
<1>2. CASE old # <<>> /\ new = Tail(old)
  <2>1. \A i \in 1 .. Len(new) : i + 1 \in 1 .. Len(old) /\ new[i] = old[i + 1]
    BY <1>2, TailIndex
  <2>2. new \in Seq(S)
    BY <1>2, TailIndex
  <2>3. 1 \in 0 .. 1
    OBVIOUS
  <2>4. QED
    BY <2>1, <2>2, <2>3
<1>3. QED
  BY <1>1, <1>2 DEF Shrinks

\* A step that sends nothing: the players stay, with their ids, and queues at
\* most lose messages.
Quiet ==
  /\ Connected' = Connected
  /\ players' \in [Connected -> PlayerInfo]
  /\ \A p \in Connected : players'[p].id = players[p].id
  /\ nextEntityId' = nextEntityId
  /\ phase' \in Phases
  /\ peer' \in [Peers -> PeerState]
  /\ acks' = [q \in Peers |-> acks'[q]]
  /\ events' = [q \in Peers |-> events'[q]]
  /\ world' = [q \in Peers |-> world'[q]]
  /\ \A q \in Peers :
       /\ Shrinks(acks[q], acks'[q])
       /\ Shrinks(events[q], events'[q])
       /\ world'[q] \subseteq world[q]
       /\ peer'[q] # "connected" =>
            acks'[q] = <<>> /\ events'[q] = <<>> /\ world'[q] = {}

LEMMA QuietStepKeepsIInv ==
  ASSUME IInv, Quiet, StoredCells', PlayersMatchPeers'
  PROVE  IInv'
<1>a. /\ TypeOK /\ IdsUnique /\ QueuesIssued /\ AckMatchesPlayer
      /\ DisconnectIsFinal /\ NeverAboutRecipient
  BY DEF IInv
<1>1. \A q \in Peers : /\ events[q] \in Seq(EventMessage)
                       /\ acks[q] \in Seq(AckMessage)
  BY <1>a DEF TypeOK
<1>2. /\ Connected' = Connected /\ nextEntityId' = nextEntityId
      /\ \A p \in Connected : players'[p].id = players[p].id
      /\ \A q \in Peers : world'[q] \subseteq world[q]
  BY DEF Quiet
<1>3. LiveIds' = LiveIds
  BY <1>2 DEF LiveIds
<1>4. ASSUME NEW q \in Peers
      PROVE  /\ events'[q] \in Seq(EventMessage)
             /\ \E d \in 0 .. 1 : \A i \in 1 .. Len(events'[q]) :
                  i + d \in 1 .. Len(events[q]) /\ events'[q][i] = events[q][i + d]
  <2>1. events[q] \in Seq(EventMessage) /\ Shrinks(events[q], events'[q])
    BY <1>1 DEF Quiet
  <2>2. QED
    BY <2>1, ShrinksIndex
<1>5. ASSUME NEW q \in Peers
      PROVE  /\ acks'[q] \in Seq(AckMessage)
             /\ \E d \in 0 .. 1 : \A i \in 1 .. Len(acks'[q]) :
                  i + d \in 1 .. Len(acks[q]) /\ acks'[q][i] = acks[q][i + d]
  <2>1. acks[q] \in Seq(AckMessage) /\ Shrinks(acks[q], acks'[q])
    BY <1>1 DEF Quiet
  <2>2. QED
    BY <2>1, ShrinksIndex
<1>6. TypeOK'
  <2>1. events' \in [Peers -> Seq(EventMessage)]
    BY <1>4 DEF Quiet
  <2>2. acks' \in [Peers -> Seq(AckMessage)]
    BY <1>5 DEF Quiet
  <2>3. world' \in [Peers -> SUBSET WorldMessage]
    BY <1>a DEF Quiet, TypeOK
  <2>4. QED
    BY <1>a, <1>2, <2>1, <2>2, <2>3 DEF Quiet, TypeOK
<1>7. IdsUnique'
  BY <1>a, <1>2 DEF IdsUnique
<1>8. AckMatchesPlayer'
  BY <1>a, <1>2, <1>5 DEF AckMatchesPlayer
<1>9. QueuesIssued'
  <2>1. ASSUME NEW q \in Peers, NEW i \in 1 .. Len(events'[q])
        PROVE  events'[q][i].id < nextEntityId'
    BY <1>a, <1>2, <1>4, <2>1 DEF QueuesIssued
  <2>2. ASSUME NEW q \in Peers, NEW w \in world'[q], NEW s \in w.states
        PROVE  s.id < nextEntityId'
    BY <1>a, <1>2, <2>2 DEF QueuesIssued
  <2>3. QED
    BY <2>1, <2>2 DEF QueuesIssued, Quiet
<1>10. NeverAboutRecipient'
  <2>1. ASSUME NEW q \in Connected', NEW i \in 1 .. Len(events'[q])
        PROVE  events'[q][i].id # players'[q].id
    <3>1. q \in Connected /\ q \in Peers
      BY <1>a, <1>2, <2>1 DEF TypeOK
    <3>2. QED
      BY <1>a, <1>2, <1>4, <2>1, <3>1 DEF NeverAboutRecipient
  <2>2. ASSUME NEW q \in Connected', NEW w \in world'[q], NEW s \in w.states
        PROVE  s.id # players'[q].id
    <3>1. q \in Connected /\ q \in Peers
      BY <1>a, <1>2, <2>2 DEF TypeOK
    <3>2. QED
      BY <1>a, <1>2, <2>2, <3>1 DEF NeverAboutRecipient
  <2>3. QED
    BY <2>1, <2>2 DEF NeverAboutRecipient
<1>11. DisconnectIsFinal'
  <2> SUFFICES ASSUME NEW q \in Peers, NEW i \in 1 .. Len(events'[q]),
                      events'[q][i].type = "PlayerDisconnect"
               PROVE  /\ events'[q][i].id \notin LiveIds'
                      /\ \A j \in i + 1 .. Len(events'[q]) :
                           events'[q][j].id # events'[q][i].id
    BY DEF DisconnectIsFinal
  <2>1. PICK d \in 0 .. 1 : \A k \in 1 .. Len(events'[q]) :
          k + d \in 1 .. Len(events[q]) /\ events'[q][k] = events[q][k + d]
    BY <1>4
  <2>2. events'[q][i].id \notin LiveIds'
    BY <1>a, <1>3, <2>1 DEF DisconnectIsFinal
  <2>3. ASSUME NEW j \in i + 1 .. Len(events'[q])
        PROVE  events'[q][j].id # events'[q][i].id
    <3>1. Len(events'[q]) \in Nat /\ Len(events[q]) \in Nat
      BY <1>1, <1>4
    <3>2. /\ j \in 1 .. Len(events'[q])
          /\ i + d \in 1 .. Len(events[q])
          /\ j + d \in (i + d) + 1 .. Len(events[q])
      BY <2>1, <3>1
    <3>3. /\ events'[q][i] = events[q][i + d]
          /\ events'[q][j] = events[q][j + d]
      BY <2>1, <3>2
    <3>4. QED
      BY <1>a, <3>2, <3>3 DEF DisconnectIsFinal
  <2>4. QED
    BY <2>2, <2>3
<1>12. QED
  BY <1>6, <1>7, <1>8, <1>9, <1>10, <1>11 DEF IInv

\* The remaining two actions that send something.
LEMMA FireKeepsIInv ==
  ASSUME IInv, NEW p \in Peers, NEW msg, p \in Connected, OnPlayerFire(p, msg)
  PROVE  IInv'
<1> DEFINE id == players[p].id
           m  == RemoteFire(id)
<1>a. /\ TypeOK /\ PlayersMatchPeers /\ IdsUnique /\ QueuesIssued
      /\ StoredCells /\ AckMatchesPlayer /\ DisconnectIsFinal
      /\ NeverAboutRecipient
  BY DEF IInv
<1>1. /\ m \in EventMessage
      /\ m.id = id
      /\ m.type = "RemoteFire"
      /\ id < nextEntityId
      /\ \A q \in Connected : q # p => players[q].id # id
  BY <1>a, MessageTypes DEF TypeOK, PlayerInfo, RemoteFire, IdsUnique
<1>2. /\ events' = Enqueue(m, Others(p))
      /\ UNCHANGED <<players, nextEntityId, phase, peer, acks, world>>
  BY DEF OnPlayerFire, appVars
<1>3. Connected' = Connected /\ LiveIds' = LiveIds
  BY <1>2 DEF Connected, LiveIds
<1>4. ASSUME NEW q \in Peers, NEW i \in 1 .. Len(events'[q])
      PROVE  \/ i \in 1 .. Len(events[q]) /\ events'[q][i] = events[q][i]
             \/ q \in Others(p) /\ peer[q] = "connected" /\ events'[q][i] = m
  BY <1>a, <1>1, <1>2, EnqueueElements
<1>5. TypeOK'
  BY <1>a, <1>1, <1>2, <1>3, EnqueueAppends DEF TypeOK
<1>6. PlayersMatchPeers' /\ IdsUnique' /\ StoredCells' /\ AckMatchesPlayer'
  BY <1>a, <1>2, <1>3
     DEF PlayersMatchPeers, IdsUnique, StoredCells, AckMatchesPlayer
<1>7. QueuesIssued'
  <2>1. ASSUME NEW q \in Peers, NEW i \in 1 .. Len(events'[q])
        PROVE  events'[q][i].id < nextEntityId'
    BY <1>a, <1>1, <1>2, <1>4, <2>1 DEF QueuesIssued
  <2>2. ASSUME NEW q \in Peers, peer'[q] # "connected"
        PROVE  events'[q] = <<>>
    BY <1>a, <1>1, <1>2, <2>2, EnqueueAppends DEF QueuesIssued
  <2>3. QED
    BY <1>a, <1>2, <2>1, <2>2 DEF QueuesIssued
<1>8. NeverAboutRecipient'
  <2>1. ASSUME NEW q \in Connected', NEW i \in 1 .. Len(events'[q])
        PROVE  events'[q][i].id # players'[q].id
    <3>1. q \in Connected /\ q \in Peers /\ players'[q] = players[q]
      BY <1>a, <1>2, <1>3, <2>1 DEF TypeOK
    <3>2. QED
      BY <1>a, <1>1, <1>4, <2>1, <3>1 DEF NeverAboutRecipient, Others
  <2>2. QED
    BY <1>a, <1>2, <1>3, <2>1 DEF NeverAboutRecipient
<1>9. DisconnectIsFinal'
  <2> SUFFICES ASSUME NEW q \in Peers, NEW i \in 1 .. Len(events'[q]),
                      events'[q][i].type = "PlayerDisconnect"
               PROVE  /\ events'[q][i].id \notin LiveIds'
                      /\ \A j \in i + 1 .. Len(events'[q]) :
                           events'[q][j].id # events'[q][i].id
    BY DEF DisconnectIsFinal
  <2>1. events'[q][i].id \notin LiveIds'
    BY <1>a, <1>1, <1>3, <1>4 DEF DisconnectIsFinal
  <2>2. \A r \in Peers : \A k \in 1 .. Len(events[r]) :
          events[r][k].type = "PlayerDisconnect" => events[r][k].id # m.id
    BY <1>a, <1>1 DEF DisconnectIsFinal, LiveIds
  <2>3. \A j \in i + 1 .. Len(events'[q]) : events'[q][j].id # events'[q][i].id
    BY <1>a, <1>1, <1>2, <2>2, EnqueueKeepsFinal
  <2>4. QED
    BY <2>1, <2>3
<1>10. QED
  BY <1>5, <1>6, <1>7, <1>8, <1>9 DEF IInv

LEMMA BroadcastKeepsIInv ==
  ASSUME IInv, BroadcastWorldSnapshots
  PROVE  IInv'
<1>a. /\ TypeOK /\ PlayersMatchPeers /\ IdsUnique /\ QueuesIssued
      /\ StoredCells /\ AckMatchesPlayer /\ DisconnectIsFinal
      /\ NeverAboutRecipient
  BY DEF IInv
<1>1. UNCHANGED <<players, nextEntityId, peer, acks, events>>
  BY DEF BroadcastWorldSnapshots
<1>2. Connected' = Connected /\ LiveIds' = LiveIds
  BY <1>1 DEF Connected, LiveIds
<1>3. \A q \in Connected : \A s \in SnapshotFor(q) :
        /\ s \in EntityStates
        /\ s.id < nextEntityId
        /\ s.id # players[q].id
  <2> SUFFICES ASSUME NEW q \in Connected, NEW s \in SnapshotFor(q)
               PROVE  /\ s \in EntityStates
                      /\ s.id < nextEntityId
                      /\ s.id # players[q].id
    OBVIOUS
  <2>1. PICK o \in Others(q) : /\ players[o].hasSnapshot
                               /\ s = EntityState(players[o].id, players[o].cell)
    BY DEF SnapshotFor
  <2>2. o \in Connected /\ o # q /\ players[o].id \in EntityId
    BY <1>a, <2>1 DEF Others, TypeOK, PlayerInfo
  <2>3. QED
    BY <1>a, <2>1, <2>2 DEF EntityState, EntityStates, StoredCells, IdsUnique
<1>4. ASSUME NEW q \in Peers, NEW w \in world'[q]
      PROVE  \/ w \in world[q]
             \/ /\ q \in Connected /\ peer[q] = "connected"
                /\ w = WorldSnapshot(SnapshotFor(q))
  BY <1>4 DEF BroadcastWorldSnapshots, Recipients
<1>5. TypeOK'
  <2>1. ASSUME NEW q \in Connected
        PROVE  WorldSnapshot(SnapshotFor(q)) \in WorldMessage
    BY <1>3, <2>1 DEF WorldSnapshot, WorldMessage
  <2>2. world' \in [Peers -> SUBSET WorldMessage]
    <3>1. ASSUME NEW q \in Peers
          PROVE  world'[q] \in SUBSET WorldMessage
      BY <1>a, <1>4, <2>1 DEF TypeOK
    <3>2. QED
      BY <3>1 DEF BroadcastWorldSnapshots
  <2>3. QED
    BY <1>a, <1>1, <1>2, <2>2 DEF TypeOK, BroadcastWorldSnapshots, Phases
<1>6. /\ PlayersMatchPeers' /\ IdsUnique' /\ StoredCells'
      /\ AckMatchesPlayer' /\ DisconnectIsFinal'
  BY <1>a, <1>1, <1>2
     DEF PlayersMatchPeers, IdsUnique, StoredCells, AckMatchesPlayer, DisconnectIsFinal
<1>7. QueuesIssued'
  <2>1. ASSUME NEW q \in Peers, NEW w \in world'[q], NEW s \in w.states
        PROVE  s.id < nextEntityId'
    BY <1>a, <1>1, <1>3, <1>4, <2>1 DEF QueuesIssued, WorldSnapshot
  <2>2. ASSUME NEW q \in Peers, peer'[q] # "connected"
        PROVE  world'[q] = {}
    BY <1>a, <1>1, <1>4, <2>2 DEF QueuesIssued
  <2>3. QED
    BY <1>a, <1>1, <2>1, <2>2 DEF QueuesIssued
<1>8. NeverAboutRecipient'
  <2>1. ASSUME NEW q \in Connected', NEW w \in world'[q], NEW s \in w.states
        PROVE  s.id # players'[q].id
    <3>1. q \in Connected /\ q \in Peers
      BY <1>a, <1>2, <2>1 DEF TypeOK
    <3>2. QED
      BY <1>a, <1>1, <1>3, <1>4, <2>1, <3>1 DEF NeverAboutRecipient, WorldSnapshot
  <2>2. QED
    BY <1>a, <1>1, <1>2, <2>1 DEF NeverAboutRecipient
<1>9. QED
  BY <1>5, <1>6, <1>7, <1>8 DEF IInv

---------------------------------------------------------------------------
(***************************************************************************)
(* The actions, as departures and quiet steps.                             *)
(***************************************************************************)

\* enet_peer_disconnect after the broadcast empties the leaver's own queues.
LEMMA ExpelDeparts ==
  ASSUME IInv, NEW p \in Connected, phase' \in Phases,
         EnetPeerDisconnect(p, BroadcastPlayerDisconnect(players[p].id, p)),
         players' = Erase(p), nextEntityId' = nextEntityId
  PROVE  Departs(p)
<1> DEFINE id == players[p].id
           m  == PlayerDisconnect(id)
<1>a. TypeOK /\ PlayersMatchPeers /\ QueuesIssued
  BY DEF IInv
<1>1. p \in Peers /\ id \in EntityId /\ m \in EventMessage
  BY <1>a, MessageTypes DEF TypeOK, PlayerInfo
<1>2. Enqueue(m, Others(p)) \in [Peers -> Seq(EventMessage)]
  BY <1>a, <1>1, EnqueueAppends
<1>3. Enqueue(m, Others(p))[p] = events[p]
  BY <1>a, <1>1, EnqueueAppends DEF Others
<1>4. CASE peer[p] = "connected"
  <2>1. /\ peer' = [peer EXCEPT ![p] = "disconnecting"]
        /\ acks' = [acks EXCEPT ![p] = <<>>]
        /\ events' = [Enqueue(m, Others(p)) EXCEPT ![p] = <<>>]
        /\ world' = [world EXCEPT ![p] = {}]
    BY <1>4 DEF EnetPeerDisconnect, WithoutQueue, BroadcastPlayerDisconnect
  <2>2. peer' \in [Peers -> PeerState] /\ peer'[p] # "connected"
    BY <1>a, <1>1, <2>1 DEF TypeOK, PeerState
  <2>3. events' \in [Peers -> Seq(EventMessage)] /\ events'[p] = <<>>
    BY <1>1, <1>2, <2>1
  <2>4. acks' \in [Peers -> Seq(AckMessage)] /\ acks'[p] = <<>>
    BY <1>a, <1>1, <2>1 DEF TypeOK
  <2>5. world' \in [Peers -> SUBSET WorldMessage] /\ world'[p] = {}
    BY <1>a, <1>1, <2>1 DEF TypeOK
  <2>6. \A q \in Peers : q # p => /\ peer'[q] = peer[q]
                                 /\ acks'[q] = acks[q]
                                 /\ world'[q] = world[q]
                                 /\ events'[q] = Enqueue(m, Others(p))[q]
    BY <1>a, <1>1, <1>2, <2>1 DEF TypeOK
  <2>7. QED
    BY <2>2, <2>3, <2>4, <2>5, <2>6 DEF Departs
<1>5. CASE peer[p] # "connected"
  <2>1. peer' = peer /\ acks' = acks /\ world' = world /\ events' = Enqueue(m, Others(p))
    BY <1>5 DEF EnetPeerDisconnect, WithoutQueue, BroadcastPlayerDisconnect
  <2>2. acks[p] = <<>> /\ events[p] = <<>> /\ world[p] = {}
    BY <1>a, <1>1, <1>5 DEF QueuesIssued
  <2>3. QED
    BY <1>a, <1>2, <1>3, <1>5, <2>1, <2>2 DEF Departs, TypeOK
<1>6. QED
  BY <1>4, <1>5

\* A DISCONNECT event of a player in the map: its queues are empty already.
LEMMA OnDisconnectDeparts ==
  ASSUME IInv, NEW p \in Connected, OnDisconnect(p)
  PROVE  Departs(p)
<1> DEFINE m == PlayerDisconnect(players[p].id)
<1>a. TypeOK /\ PlayersMatchPeers /\ QueuesIssued
  BY DEF IInv
<1>1. /\ p \in Peers
      /\ peer[p] # "connected"
      /\ peer' = [peer EXCEPT ![p] = "disconnected"]
      /\ UNCHANGED <<nextEntityId, acks, world, phase>>
  BY <1>a DEF OnDisconnect, TypeOK
<1>2. acks[p] = <<>> /\ events[p] = <<>> /\ world[p] = {}
  BY <1>a, <1>1 DEF QueuesIssued
<1>3. /\ events' = Enqueue(m, Others(p))
      /\ players' = Erase(p)
  BY DEF OnDisconnect, BroadcastPlayerDisconnect
<1>4. m \in EventMessage
  BY <1>a, MessageTypes DEF TypeOK, PlayerInfo
<1>5. events' \in [Peers -> Seq(EventMessage)] /\ events'[p] = <<>>
  BY <1>a, <1>1, <1>2, <1>3, <1>4, EnqueueAppends
<1>6. QED
  BY <1>a, <1>1, <1>2, <1>3, <1>5 DEF Departs, TypeOK, PeerState

LEMMA OnDisconnectKeepsIInv ==
  ASSUME IInv, NEW p \in Peers, OnDisconnect(p)
  PROVE  IInv'
<1>a. TypeOK /\ PlayersMatchPeers /\ QueuesIssued /\ StoredCells
  BY DEF IInv
<1>1. /\ peer[p] # "connected"
      /\ peer' = [peer EXCEPT ![p] = "disconnected"]
      /\ UNCHANGED <<nextEntityId, acks, world, phase>>
  BY DEF OnDisconnect
<1>2. CASE p \in Connected
  BY <1>2, OnDisconnectDeparts, DepartureKeepsIInv
<1>3. CASE p \notin Connected
  <2>1. UNCHANGED <<players, events>>
    BY <1>3 DEF OnDisconnect
  <2>2. Connected' = Connected
    BY <2>1 DEF Connected
  <2>3. Quiet
    BY <1>a, <1>1, <2>1, <2>2 DEF Quiet, Shrinks, TypeOK, PeerState, QueuesIssued
  <2>4. StoredCells' /\ PlayersMatchPeers'
    BY <1>a, <1>1, <1>3, <2>1, <2>2 DEF StoredCells, PlayersMatchPeers, TypeOK
  <2>5. QED
    BY <2>3, <2>4, QuietStepKeepsIInv
<1>4. QED
  BY <1>2, <1>3

\* A PlayerInfo stays one when its age is replaced.
LEMMA ElapsedUpdate ==
  ASSUME NEW r \in PlayerInfo, NEW e \in 0 .. HEARTBEAT_TIMEOUT + 1
  PROVE  /\ [r EXCEPT !.elapsed = e] \in PlayerInfo
         /\ [r EXCEPT !.elapsed = e].id = r.id
         /\ [r EXCEPT !.elapsed = e].hasSnapshot = r.hasSnapshot
         /\ [r EXCEPT !.elapsed = e].cell = r.cell
BY DEF PlayerInfo

\* All that is asked of a received message is the form of a snapshot.
WellFormed(m) ==
  m.type = "PlayerSnapshot" => m.sequence \in SnapshotSeqs /\ m.cell \in Cells

LEMMA ClientMessagesWellFormed == \A m \in ClientMessages : WellFormed(m)
BY DEF WellFormed, ClientMessages, PlayerSnapshot, PlayerFire, Heartbeat, Disconnect

LEMMA ReceiveKeepsIInv ==
  ASSUME IInv, NEW p \in Peers, NEW m, WellFormed(m), HandleReceive(p, m)
  PROVE  IInv'
<1>a. TypeOK /\ PlayersMatchPeers /\ QueuesIssued /\ StoredCells
  BY DEF IInv
<1>1. phase = "events" /\ phase \in Phases /\ peer[p] = "connected" /\ p \in Connected
  BY <1>a DEF HandleReceive, PlayersMatchPeers, Phases
<1>2. CASE OnHeartbeat(p, m)
  <2>1. /\ players' = [players EXCEPT ![p].elapsed = 0]
        /\ UNCHANGED <<nextEntityId, phase, peer, acks, events, world>>
    BY <1>2 DEF OnHeartbeat, enetVars
  <2>2. /\ Connected' = Connected
        /\ players' \in [Connected -> PlayerInfo]
        /\ \A q \in Connected : /\ players'[q].id = players[q].id
                                /\ players'[q].hasSnapshot = players[q].hasSnapshot
                                /\ players'[q].cell = players[q].cell
    <3> DEFINE new == [players[p] EXCEPT !.elapsed = 0]
    <3>1. players \in [Connected -> PlayerInfo]
      BY <1>a DEF TypeOK
    <3>2. players' = [q \in Connected |-> IF q = p THEN new ELSE players[q]]
      BY <1>1, <2>1, <3>1 DEF Connected
    <3>3. /\ new \in PlayerInfo /\ new.id = players[p].id
          /\ new.hasSnapshot = players[p].hasSnapshot /\ new.cell = players[p].cell
      <4>1. players[p] \in PlayerInfo
        BY <1>1, <3>1
      <4>2. 0 \in 0 .. HEARTBEAT_TIMEOUT + 1
        BY HeartbeatTimeoutAssumption
      <4>3. QED
        BY <4>1, <4>2, ElapsedUpdate
    <3>4. Connected' = Connected
      BY <3>2 DEF Connected
    <3> HIDE DEF new
    <3>5. QED
      BY <1>1, <3>1, <3>2, <3>3, <3>4
  <2>3. Quiet
    BY <1>a, <1>1, <2>1, <2>2 DEF Quiet, Shrinks, TypeOK, QueuesIssued
  <2>4. StoredCells' /\ PlayersMatchPeers'
    BY <1>a, <2>1, <2>2 DEF StoredCells, PlayersMatchPeers
  <2>5. QED
    BY <2>3, <2>4, QuietStepKeepsIInv
<1>3. CASE OnDisconnectMessage(p, m)
  BY <1>1, <1>3, ExpelDeparts, DepartureKeepsIInv DEF OnDisconnectMessage
<1>4. CASE OnPlayerSnapshot(p, m)
  <2>1. /\ players' = [players EXCEPT ![p].hasSnapshot = TRUE,
                                    ![p].lastSequence = m.sequence,
                                    ![p].cell = m.cell]
        /\ UNCHANGED <<nextEntityId, phase, peer, acks, events, world>>
    BY <1>4 DEF OnPlayerSnapshot, enetVars
  <2>2. m.sequence \in SnapshotSeqs /\ m.cell \in Cells
    BY <1>4 DEF OnPlayerSnapshot, WellFormed
  <2>3. /\ Connected' = Connected
        /\ players' \in [Connected -> PlayerInfo]
        /\ \A q \in Connected :
             /\ players'[q].id = players[q].id
             /\ q # p => players'[q] = players[q]
             /\ q = p => players'[q].cell \in Cells
    <3> DEFINE new == [players[p] EXCEPT !.hasSnapshot = TRUE,
                                         !.lastSequence = m.sequence, !.cell = m.cell]
    <3>1. players \in [Connected -> PlayerInfo]
      BY <1>a DEF TypeOK
    <3>2. players' = [q \in Connected |-> IF q = p THEN new ELSE players[q]]
      BY <1>1, <2>1, <3>1 DEF Connected
    <3>3. new \in PlayerInfo /\ new.id = players[p].id /\ new.cell = m.cell
      <4>1. players[p] \in PlayerInfo
        BY <1>1, <3>1
      <4>2. QED
        BY <2>2, <4>1 DEF PlayerInfo
    <3>4. Connected' = Connected
      BY <3>2 DEF Connected
    <3>5. QED
      BY <1>1, <2>2, <3>1, <3>2, <3>3, <3>4
  <2>4. Quiet
    BY <1>a, <1>1, <2>1, <2>3 DEF Quiet, Shrinks, TypeOK, QueuesIssued
  <2>5. StoredCells' /\ PlayersMatchPeers'
    BY <1>a, <2>1, <2>3 DEF StoredCells, PlayersMatchPeers
  <2>6. QED
    BY <2>4, <2>5, QuietStepKeepsIInv
<1>5. CASE OnPlayerFire(p, m)
  BY <1>1, <1>5, FireKeepsIInv
<1>6. CASE OnIgnored(p, m)
  BY <1>6 DEF OnIgnored, serverVars, IInv, TypeOK, PlayersMatchPeers, IdsUnique,
     QueuesIssued, StoredCells, AckMatchesPlayer, DisconnectIsFinal,
     NeverAboutRecipient, Connected, LiveIds
<1>7. QED
  BY <1>2, <1>3, <1>4, <1>5, <1>6 DEF HandleReceive

\* Steps that leave players' ids, the counter and all queues alone, but for
\* what is lost or delivered.
LEMMA EnvironmentKeepsIInv ==
  ASSUME IInv, NEW p \in Peers,
         \/ ConnectionLost(p) \/ DeliverAck(p) \/ DeliverEvent(p)
         \/ \E w \in world[p] : LeaveNetwork(p, w)
  PROVE  IInv'
<1>a. TypeOK /\ PlayersMatchPeers /\ QueuesIssued /\ StoredCells
  BY DEF IInv
<1>1. UNCHANGED <<players, nextEntityId, phase>>
  BY DEF ConnectionLost, DeliverAck, DeliverEvent, LeaveNetwork, appVars
<1>2. Connected' = Connected
  BY <1>1 DEF Connected
<1>3. StoredCells'
  BY <1>a, <1>1, <1>2 DEF StoredCells
<1>4. CASE ConnectionLost(p)
  <2>1. /\ peer' = [peer EXCEPT ![p] = "zombie"]
        /\ acks' = [acks EXCEPT ![p] = <<>>]
        /\ events' = [events EXCEPT ![p] = <<>>]
        /\ world' = [world EXCEPT ![p] = {}]
    BY <1>4 DEF ConnectionLost
  <2>2. PlayersMatchPeers'
    BY <1>a, <1>2, <2>1 DEF PlayersMatchPeers, TypeOK
  <2>3. Quiet
    BY <1>a, <1>1, <1>2, <2>1 DEF Quiet, Shrinks, TypeOK, PeerState, QueuesIssued
  <2>4. QED
    BY <1>3, <2>2, <2>3, QuietStepKeepsIInv
<1>5. CASE DeliverAck(p)
  <2>1. /\ acks[p] # <<>>
        /\ acks' = [acks EXCEPT ![p] = Tail(@)]
        /\ UNCHANGED <<peer, events, world>>
    BY <1>5 DEF DeliverAck
  <2>2. PlayersMatchPeers'
    BY <1>a, <1>2, <2>1 DEF PlayersMatchPeers
  <2>3. Quiet
    BY <1>a, <1>1, <1>2, <2>1 DEF Quiet, Shrinks, TypeOK, QueuesIssued
  <2>4. QED
    BY <1>3, <2>2, <2>3, QuietStepKeepsIInv
<1>6. CASE DeliverEvent(p)
  <2>1. /\ events[p] # <<>>
        /\ events' = [events EXCEPT ![p] = Tail(@)]
        /\ UNCHANGED <<peer, acks, world>>
    BY <1>6 DEF DeliverEvent
  <2>2. PlayersMatchPeers'
    BY <1>a, <1>2, <2>1 DEF PlayersMatchPeers
  <2>3. Quiet
    BY <1>a, <1>1, <1>2, <2>1 DEF Quiet, Shrinks, TypeOK, QueuesIssued
  <2>4. QED
    BY <1>3, <2>2, <2>3, QuietStepKeepsIInv
<1>7. CASE \E w \in world[p] : LeaveNetwork(p, w)
  <2>1. PICK w \in world[p] : /\ world' = [world EXCEPT ![p] = @ \ {w}]
                             /\ UNCHANGED <<peer, acks, events>>
    BY <1>7 DEF LeaveNetwork
  <2>2. PlayersMatchPeers'
    BY <1>a, <1>2, <2>1 DEF PlayersMatchPeers
  <2>3. Quiet
    BY <1>a, <1>1, <1>2, <2>1 DEF Quiet, Shrinks, TypeOK, QueuesIssued
  <2>4. QED
    BY <1>3, <2>2, <2>3, QuietStepKeepsIInv
<1>8. QED
  BY <1>4, <1>5, <1>6, <1>7

LEMMA LoopKeepsIInv ==
  ASSUME IInv, EndEvents \/ EndTimeouts \/ NoBroadcastDue
  PROVE  IInv'
<1>1. UNCHANGED <<players, nextEntityId, peer, acks, events, world>>
  BY DEF EndEvents, EndTimeouts, NoBroadcastDue, enetVars
<1>2. phase' \in Phases
  BY DEF EndEvents, EndTimeouts, NoBroadcastDue, Phases
<1>3. QED
  BY <1>1, <1>2 DEF IInv, TypeOK, PlayersMatchPeers, IdsUnique,
     QueuesIssued, StoredCells, AckMatchesPlayer, DisconnectIsFinal,
     NeverAboutRecipient, Connected, LiveIds

LEMMA TickKeepsIInv ==
  ASSUME IInv, Tick
  PROVE  IInv'
<1>a. TypeOK /\ PlayersMatchPeers /\ QueuesIssued /\ StoredCells
  BY DEF IInv
<1>1. UNCHANGED <<nextEntityId, phase, peer, acks, events, world>>
  BY DEF Tick, enetVars
<1>2. /\ Connected' = Connected
      /\ players' \in [Connected -> PlayerInfo]
      /\ \A q \in Connected : /\ players'[q].id = players[q].id
                              /\ players'[q].hasSnapshot = players[q].hasSnapshot
                              /\ players'[q].cell = players[q].cell
  <2> DEFINE e(q) == IF players[q].elapsed > HEARTBEAT_TIMEOUT
                     THEN players[q].elapsed ELSE players[q].elapsed + 1
  <2>1. players \in [Connected -> PlayerInfo]
    BY <1>a DEF TypeOK
  <2>2. players' = [q \in Connected |-> [players[q] EXCEPT !.elapsed = e(q)]]
    BY DEF Tick
  <2>3. \A q \in Connected : e(q) \in 0 .. HEARTBEAT_TIMEOUT + 1
    BY <2>1, HeartbeatTimeoutAssumption DEF PlayerInfo
  <2>4. Connected' = Connected
    BY <2>2 DEF Connected
  <2>5. \A q \in Connected :
          LET new == [players[q] EXCEPT !.elapsed = e(q)]
          IN  /\ new \in PlayerInfo
              /\ new.id = players[q].id
              /\ new.hasSnapshot = players[q].hasSnapshot
              /\ new.cell = players[q].cell
    <3> HIDE DEF e
    <3>1. QED
      BY <2>1, <2>3, ElapsedUpdate
  <2>6. QED
    BY <2>2, <2>4, <2>5
<1>3. Quiet
  BY <1>a, <1>1, <1>2 DEF Quiet, Shrinks, TypeOK, QueuesIssued
<1>4. StoredCells' /\ PlayersMatchPeers'
  BY <1>a, <1>1, <1>2 DEF StoredCells, PlayersMatchPeers
<1>5. QED
  BY <1>3, <1>4, QuietStepKeepsIInv

LEMMA NextKeepsIInv == IInv /\ [Next]_serverVars => IInv'
<1> SUFFICES ASSUME IInv, [Next]_serverVars PROVE IInv'
  OBVIOUS
<1>1. CASE UNCHANGED serverVars
  BY <1>1 DEF serverVars, IInv, TypeOK, PlayersMatchPeers, IdsUnique,
     QueuesIssued, StoredCells, AckMatchesPlayer, DisconnectIsFinal,
     NeverAboutRecipient, Connected, LiveIds
<1>2. CASE MainLoop
  <2>1. CASE EndEvents \/ EndTimeouts \/ NoBroadcastDue
    BY <2>1, LoopKeepsIInv
  <2>2. ASSUME NEW p \in Peers, OnDisconnect(p) PROVE IInv'
    BY <2>2, OnDisconnectKeepsIInv
  <2>3. ASSUME NEW p \in Peers, Expire(p) PROVE IInv'
    <3>1. p \in Connected /\ phase' \in Phases
      BY <2>3 DEF Expire, Expired, Phases
    <3>2. QED
      BY <2>3, <3>1, ExpelDeparts, DepartureKeepsIInv DEF Expire
  <2>4. CASE BroadcastWorldSnapshots
    BY <2>4, BroadcastKeepsIInv
  <2>5. QED
    BY <1>2, <2>1, <2>2, <2>3, <2>4 DEF MainLoop
<1>3. CASE Tick
  BY <1>3, TickKeepsIInv
<1>4. ASSUME NEW p \in Peers, OnConnect(p) PROVE IInv'
  BY <1>4, ConnectKeepsIInv
<1>5. ASSUME NEW p \in Peers, NEW m \in ClientMessages, HandleReceive(p, m)
      PROVE  IInv'
  BY <1>5, ClientMessagesWellFormed, ReceiveKeepsIInv
<1>6. ASSUME NEW p \in Peers,
             \/ ConnectionLost(p) \/ DeliverAck(p) \/ DeliverEvent(p)
             \/ \E w \in world[p] : LeaveNetwork(p, w)
      PROVE  IInv'
  BY <1>6, EnvironmentKeepsIInv
<1>7. QED
  BY <1>1, <1>2, <1>3, <1>4, <1>5, <1>6 DEF Next

---------------------------------------------------------------------------
(***************************************************************************)
(* What a step does to the map: it leaves the players and their ids alone, *)
(* adds one player, or is a departure.                                     *)
(***************************************************************************)

PlayersKept ==
  /\ Connected' = Connected
  /\ \A q \in Connected : players'[q].id = players[q].id

\* No other handler of received messages touches the domain of the map, or an id.
LEMMA MessageKeepsPlayers ==
  ASSUME IInv, NEW p \in Peers, NEW m, HandleReceive(p, m),
         \/ OnHeartbeat(p, m) \/ OnPlayerSnapshot(p, m)
         \/ OnPlayerFire(p, m) \/ OnIgnored(p, m)
  PROVE  PlayersKept
<1>1. players \in [Connected -> PlayerInfo]
  BY DEF IInv, TypeOK
<1>2. CASE OnHeartbeat(p, m) \/ OnPlayerSnapshot(p, m)
  <2>1. p \in Connected
    BY DEF HandleReceive, IInv, PlayersMatchPeers
  <2>2. \/ players' = [players EXCEPT ![p].elapsed = 0]
        \/ players' = [players EXCEPT ![p].hasSnapshot = TRUE,
                                     ![p].lastSequence = m.sequence,
                                     ![p].cell = m.cell]
    BY <1>2 DEF OnHeartbeat, OnPlayerSnapshot
  <2>3. Connected' = Connected
    BY <1>1, <2>2 DEF Connected
  <2>4. \A q \in Connected : players'[q].id = players[q].id
    BY <1>1, <2>1, <2>2 DEF PlayerInfo
  <2>5. QED
    BY <2>3, <2>4 DEF PlayersKept
<1>3. CASE OnPlayerFire(p, m) \/ OnIgnored(p, m)
  BY <1>3 DEF OnPlayerFire, OnIgnored, appVars, serverVars, PlayersKept, Connected
<1>4. QED
  BY <1>2, <1>3

\* MSG_DISCONNECT is a departure.
LEMMA ReceiveOnPlayers ==
  ASSUME IInv, NEW p \in Peers, NEW m, HandleReceive(p, m)
  PROVE  PlayersKept \/ \E q \in Connected : Departs(q)
<1>1. players \in [Connected -> PlayerInfo] /\ phase \in Phases
  BY DEF IInv, TypeOK
<1>2. CASE OnHeartbeat(p, m) \/ OnPlayerSnapshot(p, m) \/ OnPlayerFire(p, m) \/ OnIgnored(p, m)
  BY <1>2, MessageKeepsPlayers
<1>3. CASE OnDisconnectMessage(p, m) /\ p \in Connected
  BY <1>1, <1>3, ExpelDeparts DEF OnDisconnectMessage
<1>4. QED
  BY <1>2, <1>3 DEF HandleReceive

LEMMA TickKeepsPlayers ==
  ASSUME IInv, Tick
  PROVE  PlayersKept
<1>a. players \in [Connected -> PlayerInfo]
  BY DEF IInv, TypeOK
<1> DEFINE e(q) == IF players[q].elapsed > HEARTBEAT_TIMEOUT
                   THEN players[q].elapsed ELSE players[q].elapsed + 1
<1>1. players' = [q \in Connected |-> [players[q] EXCEPT !.elapsed = e(q)]]
  BY DEF Tick
<1>2. Connected' = Connected
  BY <1>1 DEF Connected
<1>3. \A q \in Connected : players'[q].id = players[q].id
  <2> HIDE DEF e
  <2>1. QED
    BY <1>a, <1>1 DEF PlayerInfo
<1>4. QED
  BY <1>2, <1>3 DEF PlayersKept

LEMMA NextOnPlayers ==
  ASSUME IInv, [Next]_serverVars
  PROVE  \/ PlayersKept
         \/ \E p \in Peers : OnConnect(p)
         \/ \E p \in Connected : Departs(p)
<1>1. players \in [Connected -> PlayerInfo]
  BY DEF IInv, TypeOK
<1>2. ASSUME UNCHANGED players PROVE PlayersKept
  BY <1>2 DEF PlayersKept, Connected
<1>3. CASE UNCHANGED serverVars
  BY <1>2, <1>3 DEF serverVars
<1>4. CASE MainLoop
  <2>1. CASE EndEvents \/ EndTimeouts \/ NoBroadcastDue \/ BroadcastWorldSnapshots
    BY <1>2, <2>1 DEF EndEvents, EndTimeouts, NoBroadcastDue, BroadcastWorldSnapshots
  <2>2. ASSUME NEW p \in Peers, OnDisconnect(p)
        PROVE  PlayersKept \/ (p \in Connected /\ Departs(p))
    <3>1. CASE p \in Connected
      BY <2>2, <3>1, OnDisconnectDeparts
    <3>2. CASE p \notin Connected
      BY <1>2, <2>2, <3>2 DEF OnDisconnect
    <3>3. QED
      BY <3>1, <3>2
  <2>3. ASSUME NEW p \in Peers, Expire(p)
        PROVE  p \in Connected /\ Departs(p)
    <3>1. p \in Connected /\ phase' \in Phases
      BY <2>3 DEF Expire, Expired, Phases
    <3>2. QED
      BY <2>3, <3>1, ExpelDeparts DEF Expire
  <2>4. QED
    BY <1>4, <2>1, <2>2, <2>3 DEF MainLoop
<1>5. CASE Tick
  BY <1>5, TickKeepsPlayers
<1>6. ASSUME NEW p \in Peers,
             \/ ConnectionLost(p) \/ DeliverAck(p) \/ DeliverEvent(p)
             \/ \E w \in world[p] : LeaveNetwork(p, w)
      PROVE  PlayersKept
  BY <1>2, <1>6 DEF ConnectionLost, DeliverAck, DeliverEvent, LeaveNetwork, appVars
<1>7. QED
  BY <1>3, <1>4, <1>5, <1>6, ReceiveOnPlayers DEF Next

\* The step properties, for one step from a state of the invariant.
LEMMA StepAnnounces ==
  ASSUME IInv, [Next]_serverVars,
         NEW p \in Connected \ Connected', NEW q \in Connected',
         peer[q] = "connected"
  PROVE  Announced(players[p].id, q)
<1>1. PICK r \in Connected : Departs(r)
  <2>1. ~PlayersKept
    BY DEF PlayersKept
  <2>2. ASSUME NEW s \in Peers, OnConnect(s) PROVE Connected \subseteq Connected'
    BY <2>2 DEF OnConnect, Connected
  <2>3. QED
    BY <2>1, <2>2, NextOnPlayers
<1>2. Connected' = Others(r)
  BY <1>1 DEF Departs, Erase, Connected
<1>3. /\ p = r /\ q # r /\ q \in Others(r)
      /\ q \in Peers /\ r \in Peers
  BY <1>2 DEF Others, IInv, TypeOK
<1> DEFINE m == PlayerDisconnect(players[r].id)
<1>4. m \in EventMessage /\ events[q] \in Seq(EventMessage)
  BY <1>3, MessageTypes DEF IInv, TypeOK, PlayerInfo
<1>5. events'[q] = Append(events[q], m)
  BY <1>1, <1>3 DEF Departs, Enqueue
<1>6. Len(events'[q]) = Len(events[q]) + 1 /\ events'[q][Len(events'[q])] = m
  BY <1>4, <1>5, AppendIndex
<1>7. QED
  BY <1>3, <1>6 DEF Announced

LEMMA StepKeepsIds ==
  ASSUME IInv, [Next]_serverVars, NEW p \in Connected', players'[p].id < nextEntityId
  PROVE  players'[p].id \in LiveIds
<1>1. p \in Connected /\ players'[p].id = players[p].id
  <2>1. CASE PlayersKept
    BY <2>1 DEF PlayersKept
  <2>2. ASSUME NEW r \in Peers, OnConnect(r)
        PROVE  p \in Connected /\ players'[p].id = players[p].id
    <3>1. nextEntityId \in Nat
      BY DEF IInv, TypeOK
    <3>2. p \in Connected \cup {r}
      BY <2>2 DEF OnConnect, Connected
    <3>3. p # r
      BY <2>2, <3>1, <3>2 DEF OnConnect, NewPlayer
    <3>4. QED
      BY <2>2, <3>2, <3>3 DEF OnConnect
  <2>3. ASSUME NEW r \in Connected, Departs(r)
        PROVE  p \in Connected /\ players'[p].id = players[p].id
    <3>1. p \in Others(r)
      BY <2>3 DEF Departs, Erase, Connected
    <3>2. QED
      BY <2>3, <3>1 DEF Departs, Erase, Others
  <2>4. QED
    BY <2>1, <2>2, <2>3, NextOnPlayers
<1>2. QED
  BY <1>1 DEF LiveIds

---------------------------------------------------------------------------
(***************************************************************************)
(* Every step is one of Roster, or a stutter of it.                        *)
(***************************************************************************)
Seats == [p \in Connected |-> players[p].id]
Listening == {p \in Peers : peer[p] = "connected"}

\* Both speak of the same peers and messages.
LEMMA SameProtocol ==
  /\ Promise!Peers = Peers
  /\ \A id : /\ Promise!PlayerConnect(id) = PlayerConnect(id)
             /\ Promise!PlayerDisconnect(id) = PlayerDisconnect(id)
             /\ Promise!RemoteFire(id) = RemoteFire(id)
BY DEF Promise!Peers, Peers, Promise!PlayerConnect, PlayerConnect, Promise!PlayerDisconnect,
       PlayerDisconnect, Promise!RemoteFire, RemoteFire

\* The players Roster tells are those enet_peer_send reaches.
LEMMA TellsAsRoster ==
  ASSUME NEW m, NEW p
  PROVE  Promise!TellOthers(m, p) = Enqueue(m, Others(p))
<1>1. Promise!Seated = Connected
  BY DEF Promise!Seated
<1>2. \A q \in Peers : q \in (Connected \cap Listening) \ {p}
                         <=> q \in Others(p) /\ peer[q] = "connected"
  BY DEF Listening, Others
<1>3. QED
  BY <1>1, <1>2, SameProtocol DEF Promise!TellOthers, Enqueue, Listening

\* A step that keeps the players, the connected peers and the events is none.
LEMMA QuietIsStutter ==
  ASSUME PlayersKept, Listening' = Listening, UNCHANGED <<nextEntityId, events>>
  PROVE  UNCHANGED Promise!rosterVars
<1>1. Seats' = Seats
  BY DEF Seats, PlayersKept
<1>2. QED
  BY <1>1 DEF Promise!rosterVars, Seats, Listening

LEMMA ConnectIsJoin ==
  ASSUME IInv, NEW p \in Peers, OnConnect(p)
  PROVE  Promise!Join(p)
<1>a. TypeOK /\ PlayersMatchPeers
  BY DEF IInv
<1>1. p \notin Connected /\ p \notin Listening
  BY <1>a DEF OnConnect, PlayersMatchPeers, Listening
<1>2. Connected' = Connected \cup {p}
  BY DEF OnConnect, Connected
<1>3. Seats' = [q \in Connected \cup {p} |-> IF q = p THEN nextEntityId ELSE Seats[q]]
  BY <1>2 DEF OnConnect, Seats, NewPlayer
<1>4. Listening' = Listening \cup {p}
  BY <1>a DEF OnConnect, Listening, TypeOK
<1>5. events' = Promise!TellOthers(PlayerConnect(nextEntityId), p)
  BY TellsAsRoster DEF OnConnect, BroadcastPlayerConnect
<1>6. Promise!Seated = Connected
  BY DEF Promise!Seated
<1>7. QED
  BY <1>1, <1>3, <1>4, <1>5, <1>6, SameProtocol DEF Promise!Join, OnConnect, Seats, Listening

LEMMA DepartureIsLeave ==
  ASSUME IInv, NEW p \in Connected, Departs(p)
  PROVE  Promise!Leave(p)
<1> DEFINE told == Enqueue(PlayerDisconnect(players[p].id), Others(p))
<1>1. p \in Peers
  BY DEF IInv, TypeOK
<1>2. Connected' = Connected \ {p}
  BY DEF Departs, Erase, Others, Connected
<1>3. Seats' = [q \in Connected \ {p} |-> Seats[q]]
  BY <1>2 DEF Departs, Erase, Others, Seats
<1>4. Listening' = Listening \ {p}
  BY DEF Departs, Listening
<1>5. events' = [told EXCEPT ![p] = <<>>]
  <2>1. told = [q \in Peers |-> told[q]] /\ events' = [q \in Peers |-> events'[q]]
    BY DEF Enqueue, Departs
  <2>2. \A q \in Peers : events'[q] = IF q = p THEN <<>> ELSE told[q]
    BY DEF Departs
  <2>3. QED
    BY <1>1, <2>1, <2>2
<1>6. told = Promise!TellOthers(PlayerDisconnect(Seats[p]), p)
  BY TellsAsRoster DEF Seats
<1>7. Promise!Seated = Connected
  BY DEF Promise!Seated
<1>8. QED
  BY <1>3, <1>4, <1>5, <1>6, <1>7, SameProtocol DEF Promise!Leave, Departs, Seats, Listening

LEMMA ReceiveIsRosterStep ==
  ASSUME IInv, NEW p \in Peers, NEW m, HandleReceive(p, m)
  PROVE  Promise!Next \/ UNCHANGED Promise!rosterVars
<1>1. p \in Connected /\ p \in Listening
  BY DEF HandleReceive, IInv, PlayersMatchPeers, Listening
<1>2. CASE OnHeartbeat(p, m) \/ OnPlayerSnapshot(p, m) \/ OnIgnored(p, m)
  <2>1. UNCHANGED <<nextEntityId, peer, events>>
    BY <1>2 DEF OnHeartbeat, OnPlayerSnapshot, OnIgnored, enetVars, serverVars
  <2>2. PlayersKept
    BY <1>2, MessageKeepsPlayers
  <2>3. QED
    BY <2>1, <2>2, QuietIsStutter DEF Listening
<1>3. CASE OnDisconnectMessage(p, m)
  <2>1. Departs(p)
    BY <1>1, <1>3, ExpelDeparts DEF OnDisconnectMessage, HandleReceive, IInv, TypeOK
  <2>2. QED
    BY <1>1, <2>1, DepartureIsLeave, SameProtocol DEF Promise!Next
<1>4. CASE OnPlayerFire(p, m)
  <2>1. m.id = Seats[p]
    BY <1>1, <1>4 DEF OnPlayerFire, Seats
  <2>2. events' = Promise!TellOthers(RemoteFire(Seats[p]), p)
    BY <1>4, <2>1, TellsAsRoster DEF OnPlayerFire
  <2>3. p \in Promise!Seated
    BY <1>1 DEF Promise!Seated
  <2>4. UNCHANGED <<Seats, nextEntityId, Listening>>
    BY <1>4 DEF OnPlayerFire, appVars, Seats, Listening, Connected
  <2>5. Promise!Fire(p)
    BY <1>1, <2>2, <2>3, <2>4, SameProtocol DEF Promise!Fire, Seats, Listening
  <2>6. QED
    BY <2>5, SameProtocol DEF Promise!Next
<1>5. QED
  BY <1>2, <1>3, <1>4 DEF HandleReceive

LEMMA EnvironmentIsRosterStep ==
  ASSUME IInv, NEW p \in Peers,
         \/ ConnectionLost(p) \/ DeliverAck(p) \/ DeliverEvent(p)
         \/ \E w \in world[p] : LeaveNetwork(p, w)
  PROVE  Promise!Next \/ UNCHANGED Promise!rosterVars
<1>1. UNCHANGED <<Seats, nextEntityId>> /\ PlayersKept
  BY DEF ConnectionLost, DeliverAck, DeliverEvent, LeaveNetwork, appVars, Seats,
     Connected, PlayersKept
<1>2. CASE ConnectionLost(p)
  <2>1. p \in Listening /\ Listening' = Listening \ {p}
    BY <1>2 DEF ConnectionLost, Listening, IInv, TypeOK
  <2>2. Promise!StopListening(p)
    BY <1>1, <1>2, <2>1 DEF Promise!StopListening, ConnectionLost, Seats, Listening
  <2>3. QED
    BY <2>2, SameProtocol DEF Promise!Next
<1>3. CASE DeliverEvent(p)
  <2>1. Promise!Hear(p)
    BY <1>1, <1>3 DEF Promise!Hear, DeliverEvent, Seats, Listening
  <2>2. QED
    BY <2>1, SameProtocol DEF Promise!Next
<1>4. CASE DeliverAck(p) \/ \E w \in world[p] : LeaveNetwork(p, w)
  BY <1>1, <1>4, QuietIsStutter DEF DeliverAck, LeaveNetwork, Listening
<1>5. QED
  BY <1>2, <1>3, <1>4

LEMMA StepIsRosterStep ==
  ASSUME IInv, [Next]_serverVars
  PROVE  [Promise!Next]_(Promise!rosterVars)
<1> SUFFICES Promise!Next \/ UNCHANGED Promise!rosterVars
  OBVIOUS
<1>1. CASE UNCHANGED serverVars
  BY <1>1, QuietIsStutter DEF serverVars, PlayersKept, Connected, Listening
<1>2. CASE EndEvents \/ EndTimeouts \/ NoBroadcastDue \/ BroadcastWorldSnapshots
  <2>1. UNCHANGED <<players, nextEntityId, peer, events>>
    BY <1>2 DEF EndEvents, EndTimeouts, NoBroadcastDue, BroadcastWorldSnapshots, enetVars
  <2>2. QED
    BY <2>1, QuietIsStutter DEF PlayersKept, Connected, Listening
<1>3. CASE Tick
  <2>1. UNCHANGED <<nextEntityId, peer, events>>
    BY <1>3 DEF Tick, enetVars
  <2>2. QED
    BY <1>3, <2>1, TickKeepsPlayers, QuietIsStutter DEF Listening
<1>4. ASSUME NEW p \in Peers, OnDisconnect(p)
      PROVE  Promise!Next \/ UNCHANGED Promise!rosterVars
  <2>1. CASE p \in Connected
    BY <1>4, <2>1, OnDisconnectDeparts, DepartureIsLeave, SameProtocol DEF Promise!Next
  <2>2. CASE p \notin Connected
    <3>1. UNCHANGED <<players, nextEntityId, events>>
      BY <1>4, <2>2 DEF OnDisconnect
    <3>2. Listening' = Listening
      BY <1>4 DEF OnDisconnect, Listening, IInv, TypeOK
    <3>3. QED
      BY <3>1, <3>2, QuietIsStutter DEF PlayersKept, Connected
  <2>3. QED
    BY <2>1, <2>2
<1>5. ASSUME NEW p \in Peers, Expire(p)
      PROVE  Promise!Next
  <2>1. p \in Connected /\ phase' \in Phases
    BY <1>5 DEF Expire, Expired, Phases
  <2>2. Departs(p)
    BY <1>5, <2>1, ExpelDeparts DEF Expire
  <2>3. QED
    BY <2>1, <2>2, DepartureIsLeave, SameProtocol DEF Promise!Next
<1>6. ASSUME NEW p \in Peers, OnConnect(p)
      PROVE  Promise!Next
  BY <1>6, ConnectIsJoin, SameProtocol DEF Promise!Next
<1>7. QED
  BY <1>1, <1>2, <1>3, <1>4, <1>5, <1>6, ReceiveIsRosterStep, EnvironmentIsRosterStep
     DEF Next, MainLoop

---------------------------------------------------------------------------
(***************************************************************************)
(* The theorems.                                                           *)
(***************************************************************************)

\* The invariant of the server holds in every reachable state.
THEOREM ServerInvariant == Spec => []IInv
<1>1. QED
  BY InitIInv, NextKeepsIInv, PTL DEF Spec

\* Type correctness.
THEOREM ServerTypeCorrect == Spec => []TypeOK
<1>1. IInv => TypeOK
  BY DEF IInv
<1>2. QED
  BY <1>1, ServerInvariant, PTL

\* g_players and ENet's peers never disagree, so reusing a slot never replaces
\* an entry of the map.
THEOREM ServerPlayersMatchPeers == Spec => []PlayersMatchPeers
<1>1. IInv => PlayersMatchPeers
  BY DEF IInv
<1>2. QED
  BY <1>1, ServerInvariant, PTL

\* On every reliable event channel PLAYER_DISCONNECT is the last word on an id.
THEOREM ServerDisconnectIsFinal == Spec => []DisconnectIsFinal
<1>1. IInv => DisconnectIsFinal
  BY DEF IInv
<1>2. QED
  BY <1>1, ServerInvariant, PTL

\* No client is ever sent an event or a state of its own player.
THEOREM ServerNeverAboutRecipient == Spec => []NeverAboutRecipient
<1>1. IInv => NeverAboutRecipient
  BY DEF IInv
<1>2. QED
  BY <1>1, ServerInvariant, PTL

\* Two players never share a NetEntityId, and the counter is past them all.
THEOREM ServerIdsUnique == Spec => []IdsUnique
<1>1. IInv => IdsUnique
  BY DEF IInv
<1>2. QED
  BY <1>1, ServerInvariant, PTL

\* A client is told the id its snapshots and fires will be compared with.
THEOREM ServerAckMatchesPlayer == Spec => []AckMatchesPlayer
<1>1. IInv => AckMatchesPlayer
  BY DEF IInv
<1>2. QED
  BY <1>1, ServerInvariant, PTL

\* Whichever of its three paths a player leaves by, that very step announces it
\* to every player that stays and still has a connection.
THEOREM ServerDeparturesAnnounced == Spec => DeparturesAnnounced
<1> DEFINE Told == \A p \in Connected \ Connected' : \A q \in Connected' :
                     peer[q] = "connected" => Announced(players[p].id, q)
<1>1. IInv /\ [Next]_serverVars => [Told]_serverVars
  BY StepAnnounces
<1>2. QED
  BY <1>1, ServerInvariant, PTL DEF Spec, DeparturesAnnounced

\* No connection is ever given the id of a player who has left.
THEOREM ServerIdsNeverReturn == Spec => IdsNeverReturn
<1> DEFINE Kept == \A p \in Connected' :
                     players'[p].id < nextEntityId => players'[p].id \in LiveIds
<1>1. IInv /\ [Next]_serverVars => [Kept]_serverVars
  BY StepKeepsIds
<1>2. QED
  BY <1>1, ServerInvariant, PTL DEF Spec, IdsNeverReturn

\* The server implements the roster it promises its players: every step of the
\* loop, of ENet and of the network is one of Roster's or leaves it alone.
THEOREM ServerImplementsRoster == Spec => RosterSpec
<1>1. ServerInit => Promise!Init
  <2>1. ASSUME ServerInit PROVE Connected = {} /\ Listening = {}
    BY <2>1 DEF ServerInit, Connected, Listening
  <2>2. ASSUME ServerInit PROVE Seats = <<>>
    BY <2>1, <2>2 DEF Seats
  <2>3. QED
    BY <2>1, <2>2, SameProtocol DEF ServerInit, Promise!Init, Seats, Listening
<1>2. IInv /\ [Next]_serverVars => [Promise!Next]_(Promise!rosterVars)
  BY StepIsRosterStep
<1>3. QED
  BY <1>1, <1>2, ServerInvariant, PTL DEF Spec, RosterSpec, Promise!Spec
=============================================================================
