-------------------------- MODULE EnetConnection --------------------------
(***************************************************************************)
(* How a client's connection to the server begins and ends: the peer       *)
(* states of the vendored ENet (enet/protocol.c, enet/peer.c) on both      *)
(* sides, driven by NetClient::Connect and NetClient::Disconnect and by    *)
(* the event loop of the server.                                           *)
(*                                                                         *)
(* A client process that comes back makes a new host, with another address *)
(* and connectID; the numbers 1, 2, ... stand for both.  A datagram, once  *)
(* sent, can be received at any later time, again and again, or never.     *)
(* That covers loss, repetition and reordering, and the copies ENet sends  *)
(* until a command is acknowledged.                                        *)
(***************************************************************************)
EXTENDS Naturals, FiniteSets

CONSTANTS
  MAX_PLAYERS,  \* peers of the server's host
  SESSIONS,     \* session numbers (4: two bits of the header)
  MaxConnects,  \* bound: connections the client makes
  MaxUses       \* bound: connections a peer of the server is given to

ASSUME PlayersAssumption == MAX_PLAYERS \in Nat \ {0}
ASSUME SessionsAssumption == SESSIONS \in Nat \ {0}
ASSUME ConnectionsAssumption == MaxConnects \in Nat /\ MaxUses \in Nat

VARIABLES
  client,   \* the client's only peer
  slots,    \* the server's peers
  players,  \* the slots with a player in g_players
  net,      \* datagrams sent so far
  met       \* history: the connections the client has seen established

clientVars == <<client, met>>
serverVars == <<slots, players>>
vars == <<clientVars, serverVars, net>>

Slots == 1 .. MAX_PLAYERS
Connections == 1 .. MaxConnects

\* ENetPeerState.  CONNECTION_PENDING and CONNECTION_SUCCEEDED are skipped when the
\* host is serviced with an event to fill in, as it is here; DISCONNECT_LATER is
\* never asked for.
ENetPeerState ==
  {"DISCONNECTED", "CONNECTING", "ACKNOWLEDGING_CONNECT", "CONNECTED",
   "DISCONNECTING", "ACKNOWLEDGING_DISCONNECT", "ZOMBIE"}

\* "slot" is outgoingPeerID, 0 until the connection is verified.
ClientPeer ==
  [state : ENetPeerState, connectID : Connections \cup {0},
   slot : Slots \cup {0}, session : 0 .. SESSIONS - 1]

\* "uses" counts what the peer was given to; the session numbers follow it.
ServerPeer ==
  [state : ENetPeerState, connectID : Connections \cup {0}, uses : 0 .. MaxUses]

Session(p) == slots[p].uses % SESSIONS

\* A connection as one end names it to the other.
Link == [connectID : Connections, slot : Slots, session : 0 .. SESSIONS - 1]

ToServer == {"CONNECT", "ACK_VERIFY", "DISCONNECT", "ACK_DISCONNECT"}
ToClient == {"VERIFY_CONNECT", "DISCONNECT", "ACK_DISCONNECT"}

\* CONNECT is addressed to no peer of the server: its slot and session are 0.
Datagram ==
  [type : ToServer, to : {"server"}, connectID : Connections,
   slot : Slots \cup {0}, session : 0 .. SESSIONS - 1]
  \cup
  [type : ToClient, to : {"client"}, connectID : Connections,
   slot : Slots, session : 0 .. SESSIONS - 1]

TypeOK ==
  /\ client \in ClientPeer
  /\ slots \in [Slots -> ServerPeer]
  /\ players \subseteq Slots
  /\ net \subseteq Datagram
  /\ met \subseteq Link

Init ==
  /\ client = [state |-> "DISCONNECTED", connectID |-> 0, slot |-> 0, session |-> 0]
  /\ slots = [p \in Slots |-> [state |-> "DISCONNECTED", connectID |-> 0, uses |-> 0]]
  /\ players = {}
  /\ net = {}
  /\ met = {}

ClientLink ==
  [connectID |-> client.connectID, slot |-> client.slot, session |-> client.session]

SlotLink(p) == [connectID |-> slots[p].connectID, slot |-> p, session |-> Session(p)]

Command(type, to, link) ==
  [type |-> type, to |-> to, connectID |-> link.connectID,
   slot |-> link.slot, session |-> link.session]

FromClient(type) == Command(type, "server", ClientLink)

FromSlot(type, p) == Command(type, "client", SlotLink(p))

\* enet_protocol_handle_incoming_commands: a datagram reaches a peer with the
\* sender's address and its own session number.  A peer of the client knows no
\* session before it is verified.
ReachesClient(d) ==
  /\ d.to = "client" /\ d.connectID = client.connectID
  /\ client.state \notin {"DISCONNECTED", "ZOMBIE"}
  /\ client.slot # 0 => d.session = client.session

\* Fault: the session number is not compared.
ReachesAnySession(d, p) ==
  /\ d.to = "server" /\ d.type # "CONNECT"
  /\ d.slot = p /\ d.connectID = slots[p].connectID
  /\ slots[p].state \notin {"DISCONNECTED", "ZOMBIE"}

ReachesSlot(d, p) ==
  /\ d.to = "server" /\ d.type # "CONNECT"
  /\ d = Command(d.type, "server", SlotLink(p))
  /\ slots[p].state \notin {"DISCONNECTED", "ZOMBIE"}

SetClient(state) == client' = [client EXCEPT !.state = state]

SetSlot(p, state) == slots' = [slots EXCEPT ![p].state = state]

\* Fault: the peer is freed at once, without an event.
AfterDisconnectAtOnce(state) ==
  IF state = "DISCONNECTING" THEN "ZOMBIE" ELSE "DISCONNECTED"

\* enet_protocol_handle_disconnect
AfterDisconnect(state) ==
  CASE state = "ACKNOWLEDGING_DISCONNECT" -> state
    [] state = "CONNECTED" -> "ACKNOWLEDGING_DISCONNECT"
    [] state \in {"DISCONNECTING", "CONNECTING"} -> "ZOMBIE"
    [] OTHER -> "DISCONNECTED"

---------------------------------------------------------------------------
(* The client.                                                             *)

\* NetClient::Connect, in a new process if there was a connection before.
Connect ==
  /\ client.state = "DISCONNECTED" /\ client.connectID < MaxConnects
  /\ client' = [state |-> "CONNECTING", connectID |-> client.connectID + 1,
                slot |-> 0, session |-> 0]
  /\ net' = net \cup {Command("CONNECT", "server",
                        [connectID |-> client.connectID + 1, slot |-> 0, session |-> 0])}
  /\ UNCHANGED <<met, serverVars>>

\* NetClient::Disconnect.  MSG_DISCONNECT is queued, then enet_peer_disconnect resets
\* the queues: all that is sent is ENet's own command.
Disconnect ==
  /\ client.state = "CONNECTED"
  /\ SetClient("DISCONNECTING")
  /\ net' = net \cup {FromClient("DISCONNECT")}
  /\ UNCHANGED <<met, serverVars>>

\* enet_peer_reset: the second for the disconnect is over, there was no ConnectAck
\* yet, or the process ended.  The server is not told.
ClientReset ==
  /\ client.state # "DISCONNECTED"
  /\ SetClient("DISCONNECTED")
  /\ UNCHANGED <<met, serverVars, net>>

\* enet_protocol_handle_verify_connect.  A client that is connected acknowledges the
\* command again, to the peer it knows.
ClientReceivesVerify(d) ==
  /\ d.type = "VERIFY_CONNECT" /\ ReachesClient(d)
  /\ \/ /\ client.state = "CONNECTING"
        /\ client' = [state |-> "CONNECTED", connectID |-> d.connectID,
                      slot |-> d.slot, session |-> d.session]
        /\ met' = met \cup {[connectID |-> d.connectID, slot |-> d.slot,
                             session |-> d.session]}
        /\ net' = net \cup {Command("ACK_VERIFY", "server", d)}
     \/ /\ client.state = "CONNECTED"
        /\ net' = net \cup {FromClient("ACK_VERIFY")}
        /\ UNCHANGED <<client, met>>
  /\ UNCHANGED serverVars

ClientReceivesDisconnect(d) ==
  /\ d.type = "DISCONNECT" /\ ReachesClient(d)
  /\ SetClient(AfterDisconnect(client.state))
  /\ UNCHANGED <<met, serverVars, net>>

\* enet_protocol_send_acknowledgements
ClientAcksDisconnect ==
  /\ client.state = "ACKNOWLEDGING_DISCONNECT"
  /\ SetClient("ZOMBIE")
  /\ net' = net \cup {FromClient("ACK_DISCONNECT")}
  /\ UNCHANGED <<met, serverVars>>

\* The event DISCONNECT: a zombie is dispatched, or the answer to the client's own
\* DISCONNECT came (enet_protocol_handle_acknowledge).
ClientEvent ==
  /\ \/ client.state = "ZOMBIE"
     \/ /\ client.state = "DISCONNECTING"
        /\ \E d \in net : d.type = "ACK_DISCONNECT" /\ ReachesClient(d)
  /\ SetClient("DISCONNECTED")
  /\ UNCHANGED <<met, serverVars, net>>

\* Fault: nothing is sent in a quiet connection, so nothing is missed.
TimesOutUnlessConnected ==
  /\ client.state \in {"CONNECTING", "DISCONNECTING"}
  /\ SetClient("DISCONNECTED")
  /\ UNCHANGED <<met, serverVars, net>>

\* enet_protocol_check_timeouts: what the client sent is not acknowledged.
ClientTimesOut ==
  /\ client.state \in {"CONNECTING", "CONNECTED", "DISCONNECTING"}
  /\ SetClient("DISCONNECTED")
  /\ UNCHANGED <<met, serverVars, net>>

---------------------------------------------------------------------------
(* The server.                                                             *)

\* enet_protocol_handle_connect: the first free peer, unless some peer has the
\* connection already.
Accept(d, p) ==
  /\ slots[p].state = "DISCONNECTED"
  /\ \A q \in Slots :
       /\ slots[q].state # "DISCONNECTED" => slots[q].connectID # d.connectID
       /\ slots[q].state = "DISCONNECTED" => p <= q

SlotReceivesConnect(d, p) ==
  /\ d.type = "CONNECT" /\ Accept(d, p) /\ slots[p].uses < MaxUses
  /\ slots' = [slots EXCEPT ![p] = [state |-> "ACKNOWLEDGING_CONNECT",
                                    connectID |-> d.connectID, uses |-> @.uses + 1]]
  /\ net' = net \cup {Command("VERIFY_CONNECT", "client",
                        [connectID |-> d.connectID, slot |-> p,
                         session |-> (slots[p].uses + 1) % SESSIONS])}
  /\ UNCHANGED <<players, clientVars>>

\* The event CONNECT: VERIFY_CONNECT is acknowledged.  The program makes a player.
SlotReceivesAck(d, p) ==
  /\ d.type = "ACK_VERIFY" /\ ReachesSlot(d, p)
  /\ slots[p].state = "ACKNOWLEDGING_CONNECT"
  /\ SetSlot(p, "CONNECTED")
  /\ players' = players \cup {p}
  /\ UNCHANGED <<clientVars, net>>

SlotReceivesDisconnect(d, p) ==
  /\ d.type = "DISCONNECT" /\ ReachesSlot(d, p)
  /\ SetSlot(p, AfterDisconnect(slots[p].state))
  /\ UNCHANGED <<players, clientVars, net>>

SlotAcksDisconnect(p) ==
  /\ slots[p].state = "ACKNOWLEDGING_DISCONNECT"
  /\ SetSlot(p, "ZOMBIE")
  /\ net' = net \cup {FromSlot("ACK_DISCONNECT", p)}
  /\ UNCHANGED <<players, clientVars>>

\* The event DISCONNECT, as at the client; the program erases the player if it has
\* not done so.
SlotEvent(p) ==
  /\ \/ slots[p].state = "ZOMBIE"
     \/ /\ slots[p].state = "DISCONNECTING"
        /\ \E d \in net : d.type = "ACK_DISCONNECT" /\ ReachesSlot(d, p)
  /\ SetSlot(p, "DISCONNECTED")
  /\ players' = players \ {p}
  /\ UNCHANGED <<clientVars, net>>

\* Fault: the event of a lost connection is not handled.
ForgetNothing(p) == players

\* enet_protocol_notify_disconnect: no event for a connection that was never
\* acknowledged.
WithoutLost(p) ==
  IF slots[p].state = "ACKNOWLEDGING_CONNECT" THEN players ELSE players \ {p}

SlotTimesOut(p) ==
  /\ slots[p].state \in {"ACKNOWLEDGING_CONNECT", "CONNECTED", "DISCONNECTING"}
  /\ SetSlot(p, "DISCONNECTED")
  /\ players' = WithoutLost(p)
  /\ UNCHANGED <<clientVars, net>>

\* CheckTimeouts erases the player before it closes the connection.
WithoutSilent(p) == players \ {p}

\* CheckTimeouts: no heartbeat for HEARTBEAT_TIMEOUT.
HeartbeatTimeout(p) ==
  /\ p \in players /\ slots[p].state = "CONNECTED"
  /\ players' = WithoutSilent(p)
  /\ SetSlot(p, "DISCONNECTING")
  /\ net' = net \cup {FromSlot("DISCONNECT", p)}
  /\ UNCHANGED clientVars

---------------------------------------------------------------------------
ClientReceives == \E d \in net : ClientReceivesVerify(d) \/ ClientReceivesDisconnect(d)

SlotReceives(p) ==
  \E d \in net : \/ SlotReceivesConnect(d, p)
                 \/ SlotReceivesAck(d, p)
                 \/ SlotReceivesDisconnect(d, p)

Next ==
  \/ Connect \/ Disconnect \/ ClientReset
  \/ ClientReceives \/ ClientAcksDisconnect \/ ClientEvent \/ ClientTimesOut
  \/ \E p \in Slots :
       \/ SlotReceives(p) \/ SlotAcksDisconnect(p) \/ SlotEvent(p)
       \/ SlotTimesOut(p) \/ HeartbeatTimeout(p)

Spec == Init /\ [][Next]_vars

(* Fairness.  An end whose commands are not acknowledged times out; events are     *)
(* handled by the next call of enet_host_service; NetClient::Disconnect gives up   *)
(* after a second.  Nothing is assumed of the network or of the player.            *)

\* The client answers what peer p of the server sends.
Answered(p) ==
  /\ client.connectID = slots[p].connectID
  /\ client.state \in {"CONNECTING", "CONNECTED"}
  /\ client.slot # 0 => ClientLink = SlotLink(p)

\* The server answers what the client sends.
Served ==
  /\ client.slot # 0
  /\ SlotLink(client.slot) = ClientLink
  /\ slots[client.slot].state \in {"ACKNOWLEDGING_CONNECT", "CONNECTED"}

Fairness ==
  /\ WF_vars(ClientAcksDisconnect) /\ WF_vars(ClientEvent)
  /\ WF_vars(~Served /\ ClientTimesOut)
  /\ WF_vars(client.state = "DISCONNECTING" /\ ClientReset)
  /\ \A p \in Slots : /\ WF_vars(SlotAcksDisconnect(p)) /\ WF_vars(SlotEvent(p))
                      /\ WF_vars(~Answered(p) /\ SlotTimesOut(p))

FairSpec == Spec /\ Fairness

---------------------------------------------------------------------------
\* A peer of the server is only connected if the client has seen this very
\* connection established: delayed and repeated datagrams of an earlier connection
\* make no player (enet_protocol_handle_acknowledge, session numbers).
ConnectedIsVerified == \A p \in Slots : slots[p].state = "CONNECTED" => SlotLink(p) \in met

\* A connection has one peer of the server at most, however often CONNECT arrives
\* (enet_protocol_handle_connect).
OneSlotPerConnection ==
  \A p, q \in Slots :
    p # q /\ slots[p].state # "DISCONNECTED" /\ slots[q].state # "DISCONNECTED"
      => slots[p].connectID # slots[q].connectID

\* Delayed and repeated datagrams of an earlier connection make neither a player nor a
\* second peer.
PeersGenuine == TypeOK /\ ConnectedIsVerified /\ OneSlotPerConnection

\* A peer's state as far as the program can tell.
PeerView(state) ==
  CASE state \in {"DISCONNECTED", "ACKNOWLEDGING_CONNECT"} -> "disconnected"
    [] state = "CONNECTED" -> "connected"
    [] state = "DISCONNECTING" -> "disconnecting"
    [] OTHER -> "zombie"

PeerStep(p) ==
  LET old == PeerView(slots[p].state)
      new == PeerView(slots'[p].state)
  IN /\ old = "disconnected" => new \in {"disconnected", "connected"}
     /\ old = "connected" /\ new = "disconnecting" => p \notin players'
     /\ new = "disconnected" => p \notin players'
     /\ old = "zombie" => new \in {"zombie", "disconnected"}
     /\ new = "connected" /\ old # new => p \in players' \ players
     /\ p \in players' \ players => new = "connected" /\ old # new

\* What Server.tla assumes of ENet: as far as the program can tell, a peer goes from
\* disconnected to connected, and back by way of a DISCONNECT event.
PeerLifecycle == [][\A p \in Slots : PeerStep(p)]_vars

\* The player of a client that is gone, by whatever way, does not stay.
PlayersFreed == \A p \in Slots : (p \in players /\ ~Answered(p)) ~> p \notin players

\* A client neither believes itself connected for good to a server that has given it
\* up (the DISCONNECT may be lost; ENet's pings find out), nor attempts to connect for
\* ever, also when the server is full and does not answer.
ClientLearns ==
  /\ (client.state = "CONNECTED" /\ ~Served) ~> client.state # "CONNECTED"
  /\ client.state = "CONNECTING" ~> client.state # "CONNECTING"
=============================================================================
