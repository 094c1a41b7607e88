----------------------------- MODULE PeerManager -----------------------------
(***************************************************************************)
(* The class PeerManager: a bounded pool of Peer objects, the retry        *)
(* automaton of every peer the tracker named, and the coroutine that every *)
(* ten seconds throws out the peers that have exited, fills the pool again *)
(* and stops the client when nobody is left.                               *)
(*                                                                         *)
(* Of a Peer only what this class sees is kept: it may register a Bitfield *)
(* with the PieceManager, may complete the download, and may have exited.  *)
(***************************************************************************)
EXTENDS Integers, FiniteSets

CONSTANTS
  NumPeers,              \* peer_ips_.size()
  MaxNumConnectedPeers   \* MAX_NUM_CONNECTED_PEERS is 60

ASSUME PeerManagerAssumption ==
  /\ NumPeers \in Nat
  /\ MaxNumConnectedPeers \in Nat \ {0}

PeerIds == 0 .. NumPeers - 1

VARIABLES
  peersState,   \* peers_state_
  peers,        \* peers_: a record of the id and of the how-manieth Peer
                \* object for this id it is
  exited,       \* the members of peers whose has_exited() is true
  opened,       \* how many Peer objects each id has had (history)
  registered,   \* ids with an entry in a map of the PieceManager
  complete,     \* is_download_complete()
  stopDownload, \* stop_download_
  cleanup       \* where cleanup_and_open_connections is: in its first or its
                \* second sleep, or past its loop

vars == <<peersState, peers, exited, opened, registered, complete,
          stopDownload, cleanup>>

PeerState == {"NOT_CONNECTED", "CONNECTED_1", "CONNECTED_2",
              "DISCONNECTED_1", "DISCONNECTED_2"}

\* A faulty variant: the second connection to drop is retried as well.
NextPeerStateForever(state) ==
  CASE state = "NOT_CONNECTED" -> "CONNECTED_1"
    [] state = "CONNECTED_1" -> "DISCONNECTED_1"
    [] state = "DISCONNECTED_1" -> "CONNECTED_2"
    [] state = "CONNECTED_2" -> "DISCONNECTED_1"
    [] OTHER -> state

\* get_next_peer_state, which throws (and so assigns nothing) otherwise.
NextPeerState(state) ==
  CASE state = "NOT_CONNECTED" -> "CONNECTED_1"
    [] state = "CONNECTED_1" -> "DISCONNECTED_1"
    [] state = "DISCONNECTED_1" -> "CONNECTED_2"
    [] state = "CONNECTED_2" -> "DISCONNECTED_2"
    [] OTHER -> state

\* The constructor opens the pool for the first peers of the list.
Init ==
  LET first == {i \in PeerIds : i < MaxNumConnectedPeers}
  IN /\ peersState = [i \in PeerIds |->
                        IF i \in first THEN NextPeerState("NOT_CONNECTED")
                        ELSE "NOT_CONNECTED"]
     /\ peers = {[id |-> i, nth |-> 1] : i \in first}
     /\ opened = [i \in PeerIds |-> IF i \in first THEN 1 ELSE 0]
     /\ exited = {} /\ registered = {}
     /\ complete = FALSE /\ stopDownload = FALSE
     /\ cleanup = "waiting"

-----------------------------------------------------------------------------
\* While io_context_.run runs them, a Peer may do one of three things.
Running(p) == p \in peers \ exited /\ cleanup # "ended"

PeerRegisters(p) ==
  /\ Running(p)
  /\ registered' = registered \cup {p.id}
  /\ UNCHANGED <<peersState, peers, exited, opened, complete, stopDownload, cleanup>>

PeerCompletes(p) ==
  /\ Running(p)
  /\ complete' = TRUE
  /\ UNCHANGED <<peersState, peers, exited, opened, registered, stopDownload, cleanup>>

PeerExits(p) ==
  /\ Running(p)
  /\ exited' = exited \cup {p}
  /\ UNCHANGED <<peersState, peers, opened, registered, complete, stopDownload, cleanup>>

-----------------------------------------------------------------------------
\* Faulty variants: one of the two reasons to stop is forgotten.
ContinueUntilComplete == ~complete
ContinueUntilStopped == ~stopDownload

ContinueDownload == ~stopDownload /\ ~complete

Ids(pool) == {p.id : p \in pool}

\* A faulty variant: the state of a peer that has exited is not advanced.
StatesNotAdvanced(pool) == peersState

\* cleanup_connections, first half: the states of those thrown out.
StatesAfterCleanup(out) ==
  [i \in PeerIds |-> IF i \in Ids(out) THEN NextPeerState(peersState[i])
                     ELSE peersState[i]]

\* A faulty variant: the PieceManager is not told.
NobodyRemoved(out) == registered

\* ... and remove_peer for each of them.
RegisteredAfterCleanup(out) == registered \ Ids(out)

\* A faulty variant: nobody gets a second chance.
ConnectableOnce(state) == {i \in PeerIds : state[i] = "NOT_CONNECTED"}

Connectable(state) ==
  {i \in PeerIds : state[i] \in {"NOT_CONNECTED", "DISCONNECTED_1"}}

\* A faulty variant: off by one at the limit.
OpenedOverLimit(state, size) ==
  {i \in Connectable(state) :
     size + Cardinality({j \in Connectable(state) : j < i}) <= MaxNumConnectedPeers}

\* open_connections goes through the list until the pool is full.
OpenedBy(state, size) ==
  {i \in Connectable(state) :
     size + Cardinality({j \in Connectable(state) : j < i}) < MaxNumConnectedPeers}

\* One turn of the loop between its two sleeps: no other coroutine runs.
CleanupAndOpen ==
  LET kept == peers \ exited
      state == StatesAfterCleanup(exited)
      new == OpenedBy(state, Cardinality(kept))
  IN /\ peersState' = [i \in PeerIds |-> IF i \in new THEN NextPeerState(state[i])
                                         ELSE state[i]]
     /\ peers' = kept \cup {[id |-> i, nth |-> opened[i] + 1] : i \in new}
     /\ exited' = {}
     /\ opened' = [i \in PeerIds |-> IF i \in new THEN opened[i] + 1 ELSE opened[i]]
     /\ registered' = RegisteredAfterCleanup(exited)
     /\ stopDownload' = (stopDownload \/ peers' = {})
     /\ UNCHANGED complete

\* The first sleep is over.
CleanupWakes ==
  /\ cleanup = "waiting"
  /\ \/ /\ ContinueDownload
        /\ CleanupAndOpen
        /\ cleanup' = "pausing"
     \/ /\ ~ContinueDownload
        /\ cleanup' = "ended"
        /\ UNCHANGED <<peersState, peers, exited, opened, registered, complete,
                       stopDownload>>

\* The second sleep is over.  The loop's end stops the io_context.
LoopRepeats ==
  /\ cleanup = "pausing"
  /\ cleanup' = IF ContinueDownload THEN "waiting" ELSE "ended"
  /\ UNCHANGED <<peersState, peers, exited, opened, registered, complete,
                 stopDownload>>

Returned == cleanup = "ended" /\ UNCHANGED vars

Next ==
  \/ \E p \in peers : PeerRegisters(p) \/ PeerCompletes(p) \/ PeerExits(p)
  \/ CleanupWakes \/ LoopRepeats \/ Returned

\* The two timers fire.  What peers do is up to them.
Fairness == WF_vars(CleanupWakes) /\ WF_vars(LoopRepeats)

Spec == Init /\ [][Next]_vars
FairSpec == Spec /\ Fairness

-----------------------------------------------------------------------------
\* No id is ever connected to more than twice.
TypeOK ==
  /\ peersState \in [PeerIds -> PeerState]
  /\ opened \in [PeerIds -> 0 .. 2]
  /\ peers \subseteq [id : PeerIds, nth : 1 .. 2]
  /\ exited \subseteq peers
  /\ registered \subseteq PeerIds
  /\ complete \in BOOLEAN /\ stopDownload \in BOOLEAN
  /\ cleanup \in {"waiting", "pausing", "ended"}

(***************************************************************************)
(* The states and the pool agree: a peer is CONNECTED exactly when it has  *)
(* its one Peer object in the pool, and the state says how often it has    *)
(* been opened (once, and `we will attempt to reconnect once').  So        *)
(* get_next_peer_state never throws inside the cleanup coroutine, which    *)
(* would then never stop the client.                                       *)
(***************************************************************************)
PoolMatchesStates ==
  /\ \A p, r \in peers : p.id = r.id => p = r
  /\ \A p \in peers : p.nth = opened[p.id]
  /\ \A i \in PeerIds :
       /\ i \in Ids(peers) <=> peersState[i] \in {"CONNECTED_1", "CONNECTED_2"}
       /\ peersState[i] = "NOT_CONNECTED" => opened[i] = 0
       /\ peersState[i] \in {"CONNECTED_1", "DISCONNECTED_1"} => opened[i] = 1
       /\ peersState[i] \in {"CONNECTED_2", "DISCONNECTED_2"} => opened[i] = 2

(***************************************************************************)
(* The pool never outgrows its limit, whatever number of peers exits, is   *)
(* retried and is opened in one turn.                                      *)
(***************************************************************************)
PoolWithinLimit == Cardinality(peers) <= MaxNumConnectedPeers

(***************************************************************************)
(* Nothing of a peer that was thrown out stays with the PieceManager.      *)
(***************************************************************************)
RegisteredAreConnected == registered \subseteq Ids(peers)

\* The pool as those see it who use the connections.
ConnectionOf ==
  [i \in PeerIds |->
     IF i \in Ids(peers \ exited) THEN "up"
     ELSE IF i \in Ids(exited) THEN "exited"
     ELSE IF peersState[i] = "DISCONNECTED_2" THEN "closed"
     ELSE "waiting"]

Promised == INSTANCE Connections WITH Peers <- PeerIds, MaxOpened <- 2,
                                      connection <- ConnectionOf

(***************************************************************************)
(* Every step of the pool is one of Connections, or none: whatever number  *)
(* of peers leaves, waits and comes back in one turn, each is thrown out   *)
(* only after it exited, has its second connection only after its first,   *)
(* and starts it without the bitfield and the affinity of the first.       *)
(***************************************************************************)
KeepsConnections == Promised!ConnectionsSpec

(***************************************************************************)
(* The client gives up for lack of peers only after every peer of the list *)
(* has had both its connections: an empty pool is not enough, and a pool   *)
(* that is full at the wrong moment must not hide a peer for ever.         *)
(***************************************************************************)
GivesUpOnlyExhausted ==
  stopDownload => \A i \in PeerIds : peersState[i] = "DISCONNECTED_2"

(***************************************************************************)
(* If again and again every Peer in the pool has exited, the run ends.     *)
(***************************************************************************)
PeersRunOut == []<>(peers \subseteq exited) => <>(cleanup = "ended")

\* A complete download ends it too, whatever the peers do.
CompletionEndsRun == complete ~> (cleanup = "ended")

=============================================================================
