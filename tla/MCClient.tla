------------------------------ MODULE MCClient ------------------------------
\* Client for TLC, against a server and a network that may deliver any message
\* about Remote players in any order: what holds here holds of every server.
EXTENDS Client

CONSTANT Remote  \* ids of the remote players

\* At most one state per player, as a server packs them.
Snapshots ==
  {states \in SUBSET [id : Remote, cell : Cells] :
     states # {} /\ \A s, t \in states : s.id = t.id => s = t}

Messages ==
  {ConnectAck(id) : id \in 1 .. 1} \cup {Disconnect}
  \cup {PlayerConnect(id) : id \in Remote} \cup {PlayerDisconnect(id) : id \in Remote}
  \cup {RemoteFire(id) : id \in Remote}
  \cup {WorldSnapshot(states) : states \in Snapshots}

Next == ClientNext(Messages)

Spec == ClientInit /\ [][Next]_clientVars
=============================================================================
