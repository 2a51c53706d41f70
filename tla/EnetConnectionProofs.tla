------------------------ MODULE EnetConnectionProofs ------------------------
(***************************************************************************)
(* Proofs about EnetConnection, for every number of peers, session numbers *)
(* and connections, over a network that may do anything with a datagram    *)
(* but make one up.                                                        *)
(***************************************************************************)
EXTENDS EnetConnection, TLAPS

\* The connection a datagram belongs to.
LinkOf(d) == [connectID |-> d.connectID, slot |-> d.slot, session |-> d.session]

\* A client that is connected has seen so, and an acknowledgement of VERIFY_CONNECT is
\* only ever sent by a client that has.
AcksAreVerified ==
  /\ client.state = "CONNECTED" => ClientLink \in met
  /\ \A d \in net : d.type = "ACK_VERIFY" => LinkOf(d) \in met

\* The players of peers ENet does not count as connected any more, or not yet, are gone.
PlayersHavePeers ==
  \A p \in players : slots[p].state \in {"CONNECTED", "ACKNOWLEDGING_DISCONNECT", "ZOMBIE"}

\* A peer in use has a connection.
PeersInUse ==
  /\ client.state # "DISCONNECTED" => client.connectID \in Connections
  /\ \A p \in Slots : slots[p].state # "DISCONNECTED" => slots[p].connectID \in Connections

IInv == PeersGenuine /\ AcksAreVerified /\ PlayersHavePeers /\ PeersInUse

---------------------------------------------------------------------------
LEMMA SessionType ==
  ASSUME NEW n \in Nat
  PROVE  n % SESSIONS \in 0 .. SESSIONS - 1
<1>1. \A m \in Nat \ {0}, k \in Nat : k % m \in 0 .. m - 1 BY Z3
<1> QED BY <1>1, SessionsAssumption

LEMMA SlotTypes ==
  ASSUME TypeOK, NEW p \in Slots
  PROVE  /\ slots[p] \in ServerPeer /\ p \in Nat \ {0}
         /\ slots[p].state \in ENetPeerState
         /\ slots[p].connectID \in Connections \cup {0}
         /\ slots[p].uses \in 0 .. MaxUses
         /\ Session(p) \in 0 .. SESSIONS - 1
<1>1. slots[p] \in ServerPeer /\ p \in Nat \ {0}
  BY PlayersAssumption DEF TypeOK, Slots
<1>2. slots[p].uses \in 0 .. MaxUses /\ slots[p].uses \in Nat
  BY <1>1, ConnectionsAssumption DEF ServerPeer
<1> QED BY <1>1, <1>2, SessionType DEF ServerPeer, Session

LEMMA InitIInv == Init => IInv
<1> SUFFICES ASSUME Init PROVE IInv OBVIOUS
<1>1. TypeOK
  BY SessionsAssumption, ConnectionsAssumption, PlayersAssumption
  DEF Init, TypeOK, ClientPeer, ServerPeer, ENetPeerState
<1> QED BY <1>1 DEF Init, IInv, PeersGenuine, ConnectedIsVerified, OneSlotPerConnection,
                    AcksAreVerified, PlayersHavePeers, PeersInUse

---------------------------------------------------------------------------
(* The client.                                                             *)

\* A step of the client in which it neither sends an acknowledgement nor gets connected.
LEMMA ClientStep ==
  ASSUME IInv, UNCHANGED <<met, serverVars>>,
         client' \in ClientPeer, net' \subseteq Datagram,
         client'.state # "CONNECTED",
         client'.state # "DISCONNECTED" => client'.connectID \in Connections,
         \A d \in net' \ net : d.type # "ACK_VERIFY"
  PROVE  IInv'
<1>1. TypeOK' BY DEF IInv, PeersGenuine, TypeOK, serverVars
<1>2. AcksAreVerified' BY DEF IInv, AcksAreVerified, LinkOf
<1>3. ConnectedIsVerified' /\ OneSlotPerConnection' /\ PlayersHavePeers' /\ PeersInUse'
  BY DEF IInv, PeersGenuine, ConnectedIsVerified, OneSlotPerConnection, PlayersHavePeers,
         PeersInUse, SlotLink, Session, serverVars
<1> QED BY <1>1, <1>2, <1>3 DEF IInv, PeersGenuine

\* Only the state of the client changes.
LEMMA SetClientType ==
  ASSUME TypeOK, NEW s \in ENetPeerState, SetClient(s)
  PROVE  /\ client' \in ClientPeer /\ client'.state = s
         /\ client'.connectID = client.connectID
  BY DEF TypeOK, ClientPeer, SetClient

\* What a client with a peer at the server sends is a datagram.
LEMMA FromClientType ==
  ASSUME TypeOK, NEW type \in ToServer, client.connectID \in Connections
  PROVE  FromClient(type) \in Datagram /\ FromClient(type).type = type
  BY DEF TypeOK, ClientPeer, FromClient, Command, ClientLink, Datagram

LEMMA ConnectIInv == IInv /\ Connect => IInv'
<1> SUFFICES ASSUME IInv, Connect PROVE IInv' OBVIOUS
<1>0. TypeOK /\ client.connectID \in Connections \cup {0} BY DEF IInv, PeersGenuine, TypeOK, ClientPeer
<1>1. client.connectID + 1 \in Connections
  BY <1>0, ConnectionsAssumption DEF Connect, Connections
<1>2. /\ client' \in ClientPeer /\ client'.state # "CONNECTED"
      /\ client'.connectID \in Connections
  BY <1>1, SessionsAssumption DEF Connect, ClientPeer, ENetPeerState
<1>3. net' \subseteq Datagram /\ \A d \in net' \ net : d.type # "ACK_VERIFY"
  BY <1>0, <1>1, SessionsAssumption DEF Connect, TypeOK, Datagram, Command, ToServer
<1> QED BY <1>2, <1>3, ClientStep DEF Connect

\* A step of the client that only sets its state and may send a command that is no
\* acknowledgement of VERIFY_CONNECT.
LEMMA SetClientStep ==
  ASSUME IInv, UNCHANGED <<met, serverVars>>,
         NEW s \in ENetPeerState, SetClient(s), s # "CONNECTED",
         s = "DISCONNECTED" \/ client.state # "DISCONNECTED",
         NEW type \in ToServer \ {"ACK_VERIFY"},
         \/ net' = net
         \/ net' = net \cup {FromClient(type)} /\ client.state # "DISCONNECTED"
  PROVE  IInv'
<1>0. TypeOK /\ PeersInUse BY DEF IInv, PeersGenuine
<1>1. /\ client' \in ClientPeer /\ client'.state = s
      /\ client'.connectID = client.connectID
  BY <1>0, SetClientType
<1>2. net' \subseteq Datagram /\ \A d \in net' \ net : d.type # "ACK_VERIFY"
  <2>1. CASE net' = net BY <2>1, <1>0 DEF TypeOK
  <2>2. CASE net' = net \cup {FromClient(type)} /\ client.state # "DISCONNECTED"
    <3>1. FromClient(type) \in Datagram /\ FromClient(type).type = type
      BY <1>0, <2>2, FromClientType DEF PeersInUse
    <3>   QED BY <2>2, <3>1, <1>0 DEF TypeOK
  <2>   QED BY <2>1, <2>2
<1>3. client'.state # "DISCONNECTED" => client'.connectID \in Connections
  BY <1>0, <1>1 DEF PeersInUse
<1> QED BY <1>1, <1>2, <1>3, ClientStep

LEMMA DisconnectIInv == IInv /\ Disconnect => IInv'
  BY SetClientStep DEF Disconnect, ENetPeerState, ToServer

LEMMA ClientResetIInv == IInv /\ ClientReset => IInv'
<1> SUFFICES ASSUME IInv, ClientReset PROVE IInv' OBVIOUS
<1>1. "DISCONNECT" \in ToServer \ {"ACK_VERIFY"} BY DEF ToServer
<1> QED BY <1>1, SetClientStep DEF ClientReset, ENetPeerState

LEMMA ClientAcksDisconnectIInv == IInv /\ ClientAcksDisconnect => IInv'
  BY SetClientStep DEF ClientAcksDisconnect, ENetPeerState, ToServer

LEMMA ClientEventIInv == IInv /\ ClientEvent => IInv'
<1> SUFFICES ASSUME IInv, ClientEvent PROVE IInv' OBVIOUS
<1>1. "DISCONNECT" \in ToServer \ {"ACK_VERIFY"} BY DEF ToServer
<1> QED BY <1>1, SetClientStep DEF ClientEvent, ENetPeerState

LEMMA ClientTimesOutIInv == IInv /\ ClientTimesOut => IInv'
<1> SUFFICES ASSUME IInv, ClientTimesOut PROVE IInv' OBVIOUS
<1>1. "DISCONNECT" \in ToServer \ {"ACK_VERIFY"} BY DEF ToServer
<1> QED BY <1>1, SetClientStep DEF ClientTimesOut, ENetPeerState

LEMMA ClientReceivesDisconnectIInv ==
  ASSUME IInv, NEW d \in net, ClientReceivesDisconnect(d)
  PROVE  IInv'
<1>1. "DISCONNECT" \in ToServer \ {"ACK_VERIFY"} BY DEF ToServer
<1>2. client.state \in ENetPeerState BY DEF IInv, PeersGenuine, TypeOK, ClientPeer
<1>3. /\ AfterDisconnect(client.state) \in ENetPeerState \ {"CONNECTED"}
      /\ client.state # "DISCONNECTED"
  BY <1>2 DEF AfterDisconnect, ENetPeerState, ClientReceivesDisconnect, ReachesClient
<1> QED BY <1>1, <1>3, SetClientStep DEF ClientReceivesDisconnect

\* The client sees a connection established, or acknowledges again what it has seen.
LEMMA ClientReceivesVerifyIInv ==
  ASSUME IInv, NEW d \in net, ClientReceivesVerify(d)
  PROVE  IInv'
<1>0. TypeOK /\ PeersInUse /\ AcksAreVerified BY DEF IInv, PeersGenuine
<1>1. /\ d \in Datagram /\ d.type = "VERIFY_CONNECT" /\ d.to = "client"
      /\ client \in ClientPeer
  BY <1>0 DEF ClientReceivesVerify, ReachesClient, TypeOK
<1>2. /\ d.connectID \in Connections /\ d.slot \in Slots /\ d.session \in 0 .. SESSIONS - 1
      /\ d = [type |-> "VERIFY_CONNECT", to |-> "client", connectID |-> d.connectID,
              slot |-> d.slot, session |-> d.session]
  BY <1>1 DEF Datagram, ToServer
<1>3. LinkOf(d) \in Link BY <1>2 DEF LinkOf, Link
<1>4. UNCHANGED serverVars BY DEF ClientReceivesVerify
<1>5. /\ client' \in ClientPeer /\ client'.connectID \in Connections
      /\ client'.state = "CONNECTED"
      /\ met \subseteq met' /\ met' \subseteq Link /\ ClientLink' \in met'
      /\ \E ack \in Datagram : LinkOf(ack) \in met' /\ net' = net \cup {ack}
  <2>1. CASE client.state = "CONNECTING"
    <3> DEFINE ack == Command("ACK_VERIFY", "server", d)
    <3>1. /\ client' = [state |-> "CONNECTED", connectID |-> d.connectID,
                        slot |-> d.slot, session |-> d.session]
          /\ met' = met \cup {LinkOf(d)} /\ net' = net \cup {ack}
      BY <2>1 DEF ClientReceivesVerify, LinkOf
    <3>2. /\ client' \in ClientPeer /\ client'.connectID \in Connections
          /\ client'.state = "CONNECTED" /\ ClientLink' = LinkOf(d)
      BY <3>1, <1>2 DEF ClientPeer, ENetPeerState, ClientLink, LinkOf
    <3>3. ack \in Datagram /\ LinkOf(ack) = LinkOf(d)
      BY <1>2 DEF Datagram, ToServer, LinkOf, Command
    <3>   QED BY <3>1, <3>2, <3>3, <1>3, <1>0 DEF TypeOK
  <2>2. CASE client.state = "CONNECTED"
    <3> DEFINE ack == FromClient("ACK_VERIFY")
    <3>1. client' = client /\ met' = met /\ net' = net \cup {ack}
      BY <2>2 DEF ClientReceivesVerify
    <3>2. ClientLink \in met /\ client.connectID \in Connections
      BY <2>2, <1>0 DEF AcksAreVerified, PeersInUse
    <3>3. ack \in Datagram /\ LinkOf(ack) = ClientLink
      BY <1>0, <3>2, FromClientType DEF ToServer, LinkOf, FromClient, Command, ClientLink
    <3>   QED BY <3>1, <3>2, <3>3, <2>2, <1>0, <1>1 DEF TypeOK, ClientLink
  <2>   QED BY <2>1, <2>2 DEF ClientReceivesVerify
<1>6. TypeOK' BY <1>0, <1>4, <1>5 DEF TypeOK, serverVars
<1>7. AcksAreVerified' BY <1>0, <1>5 DEF AcksAreVerified
<1>8. /\ ConnectedIsVerified' /\ OneSlotPerConnection' /\ PlayersHavePeers'
      /\ PeersInUse'
  BY <1>4, <1>5 DEF IInv, PeersGenuine, ConnectedIsVerified, OneSlotPerConnection,
       PlayersHavePeers, PeersInUse, SlotLink, Session, serverVars
<1> QED BY <1>6, <1>7, <1>8 DEF IInv, PeersGenuine


---------------------------------------------------------------------------
(* The server.                                                             *)

PlayerStates == {"CONNECTED", "ACKNOWLEDGING_DISCONNECT", "ZOMBIE"}

\* A step of the server that gives peer p the record e.
LEMMA SlotStep ==
  ASSUME IInv, UNCHANGED clientVars, NEW p \in Slots, NEW e \in ServerPeer,
         slots' = [slots EXCEPT ![p] = e],
         \A q \in players' : q \in players \/ q = p,
         p \in players' => e.state \in PlayerStates,
         net' \subseteq Datagram,
         \A d \in net' \ net : d.type # "ACK_VERIFY",
         e.state # "DISCONNECTED" =>
           /\ e.connectID \in Connections
           /\ \A q \in Slots \ {p} :
                slots[q].state # "DISCONNECTED" => slots[q].connectID # e.connectID,
         e.state = "CONNECTED" =>
           [connectID |-> e.connectID, slot |-> p, session |-> e.uses % SESSIONS] \in met
  PROVE  IInv'
<1>0. TypeOK /\ PeersInUse /\ slots \in [Slots -> ServerPeer] BY DEF IInv, PeersGenuine, TypeOK
<1>1. slots'[p] = e /\ \A q \in Slots \ {p} : slots'[q] = slots[q] BY <1>0
<1>2. TypeOK'
  <2>1. players' \subseteq Slots BY <1>0 DEF TypeOK
  <2>   QED BY <1>0, <2>1 DEF TypeOK, clientVars
<1>3. AcksAreVerified'
  BY DEF IInv, AcksAreVerified, LinkOf, ClientLink, clientVars
<1>4. ConnectedIsVerified'
  <2> SUFFICES ASSUME NEW q \in Slots, slots'[q].state = "CONNECTED"
               PROVE  SlotLink(q)' \in met'
    BY DEF ConnectedIsVerified
  <2>1. CASE q = p BY <1>1, <2>1 DEF SlotLink, Session, clientVars
  <2>2. CASE q # p
    <3>1. slots'[q] = slots[q] /\ SlotLink(q) \in met
      BY <1>1, <2>2 DEF IInv, PeersGenuine, ConnectedIsVerified
    <3>   QED BY <3>1 DEF SlotLink, Session, clientVars
  <2>   QED BY <2>1, <2>2
<1>5. OneSlotPerConnection'
  BY <1>1 DEF IInv, PeersGenuine, OneSlotPerConnection
<1>6. PlayersHavePeers'
  <2> SUFFICES ASSUME NEW q \in players' PROVE slots'[q].state \in PlayerStates
    BY DEF PlayersHavePeers, PlayerStates
  <2>1. CASE q = p BY <1>1, <2>1
  <2>2. CASE q # p
    BY <1>0, <1>1, <2>2 DEF IInv, PlayersHavePeers, PlayerStates, TypeOK
  <2>   QED BY <2>1, <2>2
<1>7. PeersInUse' BY <1>0, <1>1 DEF PeersInUse, clientVars
<1> QED BY <1>2, <1>3, <1>4, <1>5, <1>6, <1>7 DEF IInv, PeersGenuine

\* A step of the server that sets the state of a peer in use to one that is not
\* connected, and may send the client a command.
LEMMA SetSlotStep ==
  ASSUME IInv, UNCHANGED clientVars, NEW p \in Slots,
         NEW s \in ENetPeerState, SetSlot(p, s), s # "CONNECTED",
         slots[p].state # "DISCONNECTED",
         players' \subseteq players,
         p \in players' => s \in PlayerStates,
         NEW type \in ToClient,
         net' = net \/ net' = net \cup {FromSlot(type, p)}
  PROVE  IInv'
<1>0. TypeOK /\ PeersInUse BY DEF IInv, PeersGenuine
<1> DEFINE e == [slots[p] EXCEPT !.state = s]
<1>1. slots[p] \in ServerPeer /\ slots[p].connectID \in Connections
  BY <1>0, SlotTypes DEF PeersInUse
<1>2. /\ e \in ServerPeer /\ e.state = s /\ e.connectID = slots[p].connectID
      /\ e.uses = slots[p].uses
  BY <1>1 DEF ServerPeer
<1>3. slots' = [slots EXCEPT ![p] = e] BY DEF SetSlot
<1>4. net' \subseteq Datagram /\ \A d \in net' \ net : d.type # "ACK_VERIFY"
  <2>1. FromSlot(type, p) \in Datagram /\ FromSlot(type, p).type = type
    BY <1>0, <1>1, SlotTypes DEF FromSlot, Command, SlotLink, Datagram
  <2>   QED BY <1>0, <2>1 DEF TypeOK, ToClient
<1>5. \A q \in Slots \ {p} :
        slots[q].state # "DISCONNECTED" => slots[q].connectID # slots[p].connectID
  BY DEF IInv, PeersGenuine, OneSlotPerConnection
<1> HIDE DEF e
<1>6. /\ e.state # "CONNECTED" /\ e.connectID \in Connections
      /\ \A q \in players' : q \in players \/ q = p
      /\ p \in players' => e.state \in PlayerStates
      /\ \A q \in Slots \ {p} :
           slots[q].state # "DISCONNECTED" => slots[q].connectID # e.connectID
  BY <1>1, <1>2, <1>5
<1> QED BY <1>2, <1>3, <1>4, <1>6, SlotStep

LEMMA SlotReceivesConnectIInv ==
  ASSUME IInv, NEW p \in Slots, NEW d \in net, SlotReceivesConnect(d, p)
  PROVE  IInv'
<1>0. TypeOK /\ d \in Datagram /\ d.type = "CONNECT"
  BY DEF IInv, PeersGenuine, TypeOK, SlotReceivesConnect
<1> DEFINE e == [state |-> "ACKNOWLEDGING_CONNECT", connectID |-> d.connectID,
                 uses |-> slots[p].uses + 1]
           c == Command("VERIFY_CONNECT", "client",
                  [connectID |-> d.connectID, slot |-> p,
                   session |-> (slots[p].uses + 1) % SESSIONS])
<1>1. d.connectID \in Connections BY <1>0 DEF Datagram, ToClient, ToServer
<1>2. slots[p].uses + 1 \in 0 .. MaxUses /\ slots[p].uses + 1 \in Nat
  BY <1>0, SlotTypes, ConnectionsAssumption DEF SlotReceivesConnect
<1>3. e \in ServerPeer BY <1>1, <1>2 DEF ServerPeer, ENetPeerState
<1>4. slots' = [slots EXCEPT ![p] = e] /\ net' = net \cup {c}
  BY DEF SlotReceivesConnect
<1>5. c \in Datagram /\ c.type # "ACK_VERIFY"
  BY <1>1, <1>2, SessionType DEF Command, Datagram, ToClient
<1>6. p \notin players
  BY DEF IInv, PlayersHavePeers, SlotReceivesConnect, Accept
<1>7. \A q \in Slots : slots[q].state # "DISCONNECTED" => slots[q].connectID # d.connectID
  BY DEF SlotReceivesConnect, Accept
<1>8. players' = players /\ UNCHANGED clientVars BY DEF SlotReceivesConnect
<1>9. e.state = "ACKNOWLEDGING_CONNECT" /\ e.connectID = d.connectID OBVIOUS
<1> HIDE DEF e, c
<1>10. net' \subseteq Datagram /\ \A b \in net' \ net : b.type # "ACK_VERIFY"
  BY <1>0, <1>4, <1>5 DEF TypeOK
<1>11. /\ \A q \in players' : q \in players \/ q = p
       /\ p \in players' => e.state \in PlayerStates
       /\ e.state # "DISCONNECTED" =>
           /\ e.connectID \in Connections
           /\ \A q \in Slots \ {p} :
                slots[q].state # "DISCONNECTED" => slots[q].connectID # e.connectID
       /\ e.state # "CONNECTED"
  BY <1>1, <1>6, <1>7, <1>8, <1>9
<1> QED BY <1>3, <1>4, <1>8, <1>10, <1>11, SlotStep

\* The acknowledgement names connection, peer and session: the client has seen this
\* very one established.
LEMMA SlotReceivesAckIInv ==
  ASSUME IInv, NEW p \in Slots, NEW d \in net, SlotReceivesAck(d, p)
  PROVE  IInv'
<1>0. TypeOK /\ PeersInUse /\ AcksAreVerified BY DEF IInv, PeersGenuine
<1>1. /\ d.type = "ACK_VERIFY" /\ d = Command("ACK_VERIFY", "server", SlotLink(p))
      /\ slots[p].state = "ACKNOWLEDGING_CONNECT"
      /\ SetSlot(p, "CONNECTED") /\ players' = players \cup {p}
      /\ UNCHANGED <<clientVars, net>>
  BY DEF SlotReceivesAck, ReachesSlot
<1> DEFINE e == [slots[p] EXCEPT !.state = "CONNECTED"]
<1>2. slots[p] \in ServerPeer /\ slots[p].connectID \in Connections
  BY <1>0, <1>1, SlotTypes DEF PeersInUse
<1>3. /\ e \in ServerPeer /\ e.state = "CONNECTED" /\ e.connectID = slots[p].connectID
      /\ e.uses = slots[p].uses
  BY <1>2 DEF ServerPeer, ENetPeerState
<1>4. slots' = [slots EXCEPT ![p] = e] BY <1>1 DEF SetSlot
<1>5. LinkOf(d) = SlotLink(p) BY <1>1 DEF LinkOf, Command, SlotLink
<1>6. SlotLink(p) \in met BY <1>0, <1>1, <1>5 DEF AcksAreVerified
<1>7. [connectID |-> e.connectID, slot |-> p, session |-> e.uses % SESSIONS] \in met
  BY <1>3, <1>6 DEF SlotLink, Session
<1>8. \A q \in Slots \ {p} :
        slots[q].state # "DISCONNECTED" => slots[q].connectID # e.connectID
  BY <1>1, <1>3 DEF IInv, PeersGenuine, OneSlotPerConnection
<1>9. net' \subseteq Datagram /\ net' = net BY <1>0, <1>1 DEF TypeOK
<1> HIDE DEF e
<1>10. /\ \A q \in players' : q \in players \/ q = p
       /\ e.state \in PlayerStates
  BY <1>1, <1>3 DEF PlayerStates
<1> QED BY <1>1, <1>2, <1>3, <1>4, <1>7, <1>8, <1>9, <1>10, SlotStep

LEMMA SlotReceivesDisconnectIInv ==
  ASSUME IInv, NEW p \in Slots, NEW d \in net, SlotReceivesDisconnect(d, p)
  PROVE  IInv'
<1>1. /\ slots[p].state \in ENetPeerState
      /\ slots[p].state \notin {"DISCONNECTED", "ZOMBIE"}
      /\ p \in players => slots[p].state \in PlayerStates
      /\ "DISCONNECT" \in ToClient
  BY SlotTypes DEF IInv, PeersGenuine, PlayersHavePeers, PlayerStates, ToClient,
                   SlotReceivesDisconnect, ReachesSlot
<1>2. /\ AfterDisconnect(slots[p].state) \in ENetPeerState \ {"CONNECTED"}
      /\ p \in players => AfterDisconnect(slots[p].state) \in PlayerStates
  BY <1>1 DEF AfterDisconnect, ENetPeerState, PlayerStates
<1> QED BY <1>1, <1>2, SetSlotStep DEF SlotReceivesDisconnect

LEMMA SlotAcksDisconnectIInv ==
  ASSUME IInv, NEW p \in Slots, SlotAcksDisconnect(p)
  PROVE  IInv'
  BY SetSlotStep DEF SlotAcksDisconnect, ENetPeerState, PlayerStates, ToClient

LEMMA SlotEventIInv ==
  ASSUME IInv, NEW p \in Slots, SlotEvent(p)
  PROVE  IInv'
<1>1. "DISCONNECT" \in ToClient BY DEF ToClient
<1> QED BY <1>1, SetSlotStep DEF SlotEvent, ENetPeerState

LEMMA SlotTimesOutIInv ==
  ASSUME IInv, NEW p \in Slots, SlotTimesOut(p)
  PROVE  IInv'
<1>1. "DISCONNECT" \in ToClient BY DEF ToClient
<1>2. players' \subseteq players /\ p \notin players'
  BY DEF SlotTimesOut, WithoutLost, IInv, PlayersHavePeers
<1> QED BY <1>1, <1>2, SetSlotStep DEF SlotTimesOut, ENetPeerState

LEMMA HeartbeatTimeoutIInv ==
  ASSUME IInv, NEW p \in Slots, HeartbeatTimeout(p)
  PROVE  IInv'
  BY SetSlotStep DEF HeartbeatTimeout, WithoutSilent, ENetPeerState, ToClient

LEMMA NextIInv == IInv /\ [Next]_vars => IInv'
<1> SUFFICES ASSUME IInv, [Next]_vars PROVE IInv' OBVIOUS
<1>1. CASE UNCHANGED vars
  BY <1>1 DEF IInv, PeersGenuine, TypeOK, ConnectedIsVerified, OneSlotPerConnection,
              AcksAreVerified, PlayersHavePeers, PeersInUse, SlotLink, Session, ClientLink,
              vars, clientVars, serverVars
<1>2. CASE Connect \/ Disconnect \/ ClientReset \/ ClientAcksDisconnect \/ ClientEvent
             \/ ClientTimesOut
  BY <1>2, ConnectIInv, DisconnectIInv, ClientResetIInv, ClientAcksDisconnectIInv,
     ClientEventIInv, ClientTimesOutIInv
<1>3. CASE ClientReceives
  BY <1>3, ClientReceivesVerifyIInv, ClientReceivesDisconnectIInv DEF ClientReceives
<1>4. ASSUME NEW p \in Slots, SlotReceives(p) PROVE IInv'
  BY <1>4, SlotReceivesConnectIInv, SlotReceivesAckIInv, SlotReceivesDisconnectIInv
  DEF SlotReceives
<1>5. ASSUME NEW p \in Slots,
             SlotAcksDisconnect(p) \/ SlotEvent(p) \/ SlotTimesOut(p) \/ HeartbeatTimeout(p)
      PROVE  IInv'
  BY <1>5, SlotAcksDisconnectIInv, SlotEventIInv, SlotTimesOutIInv, HeartbeatTimeoutIInv
<1> QED BY <1>1, <1>2, <1>3, <1>4, <1>5 DEF Next

\* The connections of the server's peers, the players that go with them and what is under
\* way agree in every reachable state (enet/protocol.c, enet/peer.c).
THEOREM EnetInductive == Spec => []IInv
<1> QED BY InitIInv, NextIInv, PTL DEF Spec

\* Whatever becomes of the datagrams, a peer of the server is only connected if the
\* client has seen this very connection established, and a connection never has two
\* peers (enet_protocol_handle_connect, enet_protocol_handle_acknowledge).
THEOREM EnetPeersGenuine == Spec => []PeersGenuine
<1>1. IInv => PeersGenuine BY DEF IInv
<1> QED BY <1>1, EnetInductive, PTL

---------------------------------------------------------------------------
(* The life of a peer as the program sees it.                              *)

LEMMA PeerViews ==
  ASSUME NEW state \in ENetPeerState
  PROVE  /\ PeerView(state) = "disconnected" <=> state \in {"DISCONNECTED", "ACKNOWLEDGING_CONNECT"}
         /\ PeerView(state) = "connected" <=> state = "CONNECTED"
         /\ PeerView(state) = "disconnecting" <=> state = "DISCONNECTING"
         /\ PeerView(state) = "zombie"
              <=> state \in {"CONNECTING", "ACKNOWLEDGING_DISCONNECT", "ZOMBIE"}
         /\ PeerView(state) \in {"disconnected", "connected", "disconnecting", "zombie"}
  BY DEF PeerView, ENetPeerState

\* A peer a step leaves alone.
LEMMA PeerStays ==
  ASSUME IInv, NEW p \in Slots, slots'[p] = slots[p],
         p \in players' <=> p \in players
  PROVE  PeerStep(p)
<1>1. /\ slots[p].state \in ENetPeerState
      /\ p \in players => slots[p].state \in PlayerStates
  BY SlotTypes DEF IInv, PeersGenuine, PlayersHavePeers, PlayerStates
<1> QED BY <1>1, PeerViews DEF PeerStep, PlayerStates

\* A peer that gets state s.
LEMMA PeerMoves ==
  ASSUME IInv, NEW p \in Slots, NEW s \in ENetPeerState, SetSlot(p, s)
  PROVE  /\ slots'[p].state = s
         /\ \A q \in Slots \ {p} : slots'[q] = slots[q]
         /\ slots[p].state \in ENetPeerState
         /\ p \in players => slots[p].state \in PlayerStates
  BY SlotTypes DEF IInv, PeersGenuine, PlayersHavePeers, PlayerStates, SetSlot, TypeOK,
                   ServerPeer

LEMMA SlotLifecycle ==
  ASSUME IInv, NEW p \in Slots,
         SlotReceives(p) \/ SlotAcksDisconnect(p) \/ SlotEvent(p) \/ SlotTimesOut(p)
           \/ HeartbeatTimeout(p)
  PROVE  \A q \in Slots : PeerStep(q)
<1> USE PeerViews DEF PeerStep, PlayerStates
<1>1. ASSUME NEW d \in net, SlotReceivesConnect(d, p) PROVE \A q \in Slots : PeerStep(q)
  <2>1. /\ slots'[p].state = "ACKNOWLEDGING_CONNECT" /\ slots[p].state = "DISCONNECTED"
        /\ \A q \in Slots \ {p} : slots'[q] = slots[q]
        /\ players' = players /\ p \notin players
    BY <1>1 DEF SlotReceivesConnect, Accept, IInv, PeersGenuine, PlayersHavePeers, TypeOK
  <2>2. PeerStep(p) BY <2>1 DEF ENetPeerState
  <2>   QED BY <2>1, <2>2, PeerStays
<1>2. ASSUME NEW d \in net, SlotReceivesAck(d, p) PROVE \A q \in Slots : PeerStep(q)
  <2>1. /\ SetSlot(p, "CONNECTED") /\ slots[p].state = "ACKNOWLEDGING_CONNECT"
        /\ players' = players \cup {p}
    BY <1>2 DEF SlotReceivesAck
  <2>2. PeerStep(p) BY <2>1, PeerMoves DEF ENetPeerState
  <2>   QED BY <2>1, <2>2, PeerMoves, PeerStays DEF ENetPeerState
<1>3. ASSUME NEW d \in net, SlotReceivesDisconnect(d, p)
      PROVE  \A q \in Slots : PeerStep(q)
  <2>1. /\ SetSlot(p, AfterDisconnect(slots[p].state)) /\ players' = players
        /\ slots[p].state \notin {"DISCONNECTED", "ZOMBIE"}
        /\ slots[p].state \in ENetPeerState
        /\ p \in players => slots[p].state \in PlayerStates
    BY <1>3, SlotTypes
    DEF SlotReceivesDisconnect, ReachesSlot, IInv, PeersGenuine, PlayersHavePeers
  <2>2. /\ AfterDisconnect(slots[p].state) \in ENetPeerState
        /\ slots[p].state \in {"CONNECTED", "ACKNOWLEDGING_DISCONNECT"}
             => AfterDisconnect(slots[p].state) = "ACKNOWLEDGING_DISCONNECT"
        /\ slots[p].state \in {"CONNECTING", "DISCONNECTING"}
             => AfterDisconnect(slots[p].state) = "ZOMBIE"
        /\ slots[p].state = "ACKNOWLEDGING_CONNECT"
             => AfterDisconnect(slots[p].state) = "DISCONNECTED"
    BY <2>1 DEF AfterDisconnect, ENetPeerState
  <2>3. PeerStep(p) BY <2>1, <2>2, PeerMoves DEF ENetPeerState
  <2>   QED BY <2>1, <2>2, <2>3, PeerMoves, PeerStays
<1>4. CASE SlotAcksDisconnect(p)
  <2>1. /\ SetSlot(p, "ZOMBIE") /\ slots[p].state = "ACKNOWLEDGING_DISCONNECT"
        /\ players' = players
    BY <1>4 DEF SlotAcksDisconnect
  <2>2. PeerStep(p) BY <2>1, PeerMoves DEF ENetPeerState
  <2>   QED BY <2>1, <2>2, PeerMoves, PeerStays DEF ENetPeerState
<1>5. CASE SlotEvent(p)
  <2>1. /\ SetSlot(p, "DISCONNECTED") /\ slots[p].state \in {"ZOMBIE", "DISCONNECTING"}
        /\ players' = players \ {p}
    BY <1>5 DEF SlotEvent
  <2>2. PeerStep(p) BY <2>1, PeerMoves DEF ENetPeerState
  <2>   QED BY <2>1, <2>2, PeerMoves, PeerStays DEF ENetPeerState
<1>6. CASE SlotTimesOut(p)
  <2>1. /\ SetSlot(p, "DISCONNECTED")
        /\ slots[p].state \in {"ACKNOWLEDGING_CONNECT", "CONNECTED", "DISCONNECTING"}
        /\ players' = players \ {p}
    BY <1>6 DEF SlotTimesOut, WithoutLost, IInv, PlayersHavePeers
  <2>2. PeerStep(p) BY <2>1, PeerMoves DEF ENetPeerState
  <2>   QED BY <2>1, <2>2, PeerMoves, PeerStays DEF ENetPeerState
<1>7. CASE HeartbeatTimeout(p)
  <2>1. /\ SetSlot(p, "DISCONNECTING") /\ slots[p].state = "CONNECTED"
        /\ players' = players \ {p}
    BY <1>7 DEF HeartbeatTimeout, WithoutSilent
  <2>2. PeerStep(p) BY <2>1, PeerMoves DEF ENetPeerState
  <2>   QED BY <2>1, <2>2, PeerMoves, PeerStays DEF ENetPeerState
<1> QED BY <1>1, <1>2, <1>3, <1>4, <1>5, <1>6, <1>7 DEF SlotReceives

LEMMA NextLifecycle == IInv /\ [Next]_vars => [\A p \in Slots : PeerStep(p)]_vars
<1> SUFFICES ASSUME IInv, Next PROVE \A p \in Slots : PeerStep(p) OBVIOUS
<1>1. ASSUME UNCHANGED serverVars PROVE \A p \in Slots : PeerStep(p)
  BY <1>1, PeerStays DEF serverVars
<1>2. CASE \E p \in Slots : SlotReceives(p) \/ SlotAcksDisconnect(p) \/ SlotEvent(p)
                              \/ SlotTimesOut(p) \/ HeartbeatTimeout(p)
  BY <1>2, SlotLifecycle
<1>3. CASE Connect \/ Disconnect \/ ClientReset \/ ClientReceives
             \/ ClientAcksDisconnect \/ ClientEvent \/ ClientTimesOut
  <2>1. UNCHANGED serverVars
    BY <1>3 DEF Connect, Disconnect, ClientReset, ClientReceives, ClientReceivesVerify,
         ClientReceivesDisconnect, ClientAcksDisconnect, ClientEvent, ClientTimesOut
  <2>   QED BY <2>1, <1>1
<1> QED BY <1>2, <1>3 DEF Next

\* What Server.tla takes for granted about a peer is what ENet does with it, for any
\* number of peers and however its datagrams are lost, repeated or reordered
\* (server_main.cpp:296-330 on top of enet/protocol.c).
THEOREM EnetPeerLifecycle == Spec => PeerLifecycle
<1> QED BY EnetInductive, NextLifecycle, PTL DEF Spec, PeerLifecycle
=============================================================================
