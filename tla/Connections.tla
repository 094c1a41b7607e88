---------------------------- MODULE Connections ----------------------------
(***************************************************************************)
(* What a pool of connections promises those who use them: a peer is       *)
(* connected MaxOpened times at most, registers only over a connection     *)
(* that is up, leaves the pool only when it has exited, and starts its     *)
(* next connection with nothing of the last one left.                      *)
(*                                                                         *)
(* PeerManager keeps this promise with a bounded pool and its automaton of *)
(* states; the connections of Download keep to it, too.                    *)
(***************************************************************************)
EXTENDS Integers

CONSTANTS
  Peers,
  MaxOpened

VARIABLES
  connection,  \* of each peer: "waiting" (no Peer object, but one may come),
               \* "up", "exited", or "closed" (none, and none to come)
  opened,      \* how many Peer objects the peer has had
  registered   \* the peers the PieceManager knows something of

connectionsVars == <<connection, opened, registered>>

ConnectionsInit ==
  /\ connection \in [Peers -> {"waiting", "up"}]
  /\ opened = [q \in Peers |-> IF connection[q] = "up" THEN 1 ELSE 0]
  /\ registered = {}

Register(q) ==
  /\ connection[q] = "up"
  /\ registered' = registered \cup {q}
  /\ UNCHANGED <<connection, opened>>

Exit(q) ==
  /\ connection[q] = "up"
  /\ connection' = [connection EXCEPT ![q] = "exited"]
  /\ UNCHANGED <<opened, registered>>

\* Peers that have exited are thrown out, and others, or the same ones, are
\* connected, in one turn.
Turn(out, new) ==
  /\ out \subseteq {q \in Peers : connection[q] = "exited"}
  /\ new \subseteq {q \in Peers : /\ q \in out \/ connection[q] = "waiting"
                                  /\ opened[q] < MaxOpened}
  /\ connection' = [q \in Peers |->
                      IF q \in new THEN "up"
                      ELSE IF q \notin out THEN connection[q]
                      ELSE IF opened[q] < MaxOpened THEN "waiting"
                      ELSE "closed"]
  /\ opened' = [q \in Peers |-> IF q \in new THEN opened[q] + 1 ELSE opened[q]]
  /\ registered' = registered \ out

ConnectionsNext ==
  \/ \E q \in Peers : Register(q) \/ Exit(q)
  \/ \E out, new \in SUBSET Peers : Turn(out, new)

ConnectionsSpec == ConnectionsInit /\ [][ConnectionsNext]_connectionsVars

=============================================================================
