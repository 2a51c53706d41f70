------------------------------- MODULE Roster -------------------------------
(***************************************************************************)
(* What the relay server promises its players: who is in the session, and  *)
(* what each of them is told of the others' comings, goings and fires.     *)
(*                                                                         *)
(* There are no heartbeats, timeouts, snapshots, phases or connection      *)
(* states here.  A player may leave at any moment, and all the ways to     *)
(* leave look the same to those who stay.                                  *)
(***************************************************************************)
EXTENDS Protocol

VARIABLES
  roster,    \* the id of the player in each seat that is taken
  next,      \* the id of the next player to come
  listening, \* the seats that are told what happens
  feed       \* what each of them was told and has not heard yet, in order

rosterVars == <<roster, next, listening, feed>>

Seated == DOMAIN roster

Init ==
  /\ roster = <<>>
  /\ next = 1
  /\ listening = {}
  /\ feed = [p \in Peers |-> <<>>]

\* Everyone but p who is in the session and listens is told m.
TellOthers(m, p) ==
  [q \in Peers |-> IF q \in (Seated \cap listening) \ {p}
                   THEN Append(feed[q], m) ELSE feed[q]]

Join(p) ==
  /\ p \notin Seated \cup listening
  /\ roster' = [q \in Seated \cup {p} |-> IF q = p THEN next ELSE roster[q]]
  /\ next' = next + 1
  /\ listening' = listening \cup {p}
  /\ feed' = TellOthers(PlayerConnect(next), p)

Leave(p) ==
  /\ p \in Seated
  /\ roster' = [q \in Seated \ {p} |-> roster[q]]
  /\ listening' = listening \ {p}
  /\ feed' = [TellOthers(PlayerDisconnect(roster[p]), p) EXCEPT ![p] = <<>>]
  /\ UNCHANGED next

Fire(p) ==
  /\ p \in Seated \cap listening
  /\ feed' = TellOthers(RemoteFire(roster[p]), p)
  /\ UNCHANGED <<roster, next, listening>>

\* A player who is still in the session no longer hears of it.
StopListening(p) ==
  /\ p \in listening
  /\ listening' = listening \ {p}
  /\ feed' = [feed EXCEPT ![p] = <<>>]
  /\ UNCHANGED <<roster, next>>

Hear(p) ==
  /\ feed[p] # <<>>
  /\ feed' = [feed EXCEPT ![p] = Tail(@)]
  /\ UNCHANGED <<roster, next, listening>>

Next == \E p \in Peers : Join(p) \/ Leave(p) \/ Fire(p) \/ StopListening(p) \/ Hear(p)

Spec == Init /\ [][Next]_rosterVars
=============================================================================
