-------------------------- MODULE PeerManager_proofs --------------------------
(***************************************************************************)
(* The safety of the pool, for every number of peers and every limit.      *)
(***************************************************************************)
EXTENDS PeerManager, FiniteSetTheorems, TLAPS

-----------------------------------------------------------------------------
(***************************************************************************)
(* Going through a set of numbers in order: the rank of i is how many come *)
(* before it.                                                              *)
(***************************************************************************)
Rank(C) == [i \in C |-> Cardinality({j \in C : j < i})]

\* Different members have different ranks, and the ranks have no gap.
LEMMA RankNumbers ==
  ASSUME NEW C \in SUBSET Nat, IsFiniteSet(C)
  PROVE  /\ Rank(C) \in Injection(C, Nat)
         /\ C # {} => \E i \in C : Rank(C)[i] = 0
<1> DEFINE before(i) == {j \in C : j < i}
<1>1. \A i \in C : /\ IsFiniteSet(before(i))
                   /\ Cardinality(before(i)) \in Nat
  BY FS_Subset, FS_CardinalityType
<1>2. ASSUME NEW i \in C, NEW k \in C, i < k
      PROVE  Cardinality(before(i)) < Cardinality(before(k))
  <2>0. \A j \in C : j < i => j < k
    BY <1>2
  <2>1. before(i) \in SUBSET before(k)
    BY <2>0
  <2>2. i \in before(k) /\ i \notin before(i)
    BY <1>2
  <2>3. before(i) # before(k)
    BY <2>2
  <2> HIDE DEF before
  <2> QED
    BY <1>1, <2>1, <2>3, FS_Subset
<1>3. ASSUME NEW i \in C PROVE Cardinality(before(i)) < Cardinality(C)
  <2>1. before(i) \in SUBSET C /\ i \notin before(i)
    OBVIOUS
  <2>2. before(i) # C
    BY <2>1
  <2> HIDE DEF before
  <2> QED
    BY <1>1, <2>1, <2>2, FS_Subset, FS_CardinalityType
<1>4. \A i \in C : Rank(C)[i] = Cardinality(before(i))
  BY DEF Rank
<1> HIDE DEF before
<1>5. \A i, k \in C : i # k => Rank(C)[i] # Rank(C)[k]
  <2> SUFFICES ASSUME NEW i \in C, NEW k \in C, i # k
               PROVE  Rank(C)[i] # Rank(C)[k]
    OBVIOUS
  <2>1. i < k \/ k < i
    OBVIOUS
  <2> QED
    BY <1>1, <1>2, <1>4, <2>1
<1>6. Rank(C) \in Injection(C, Nat)
  BY <1>1, <1>4, <1>5 DEF Injection, IsInjective, Rank
<1>7. ASSUME C # {} PROVE \E i \in C : Rank(C)[i] = 0
  <2> DEFINE n == Cardinality(C)
  <2>1. n \in Nat /\ n > 0
    BY <1>7, FS_CardinalityType, FS_EmptySet
  <2>a. \A i \in C : Rank(C)[i] \in 0 .. n - 1
    BY <1>1, <1>3, <1>4, <2>1
  <2> HIDE DEF n
  <2>2. Rank(C) \in Injection(C, 0 .. n - 1)
    BY <1>5, <2>a DEF Injection, IsInjective, Rank
  <2>3. IsFiniteSet(0 .. n - 1) /\ Cardinality(0 .. n - 1) = n
    BY <2>1, FS_Interval, n - 1 \in Int
  <2>4. Rank(C) \in Surjection(C, 0 .. n - 1)
    BY <2>2, <2>3, FS_Injection DEF n
  <2> QED
    BY <2>1, <2>4, 0 \in 0 .. n - 1 DEF Surjection
<1> QED
  BY <1>6, <1>7

\* PeerIds and its subsets are finite sets of numbers.
LEMMA IdsAreFinite ==
  ASSUME NEW C \in SUBSET PeerIds
  PROVE  IsFiniteSet(C) /\ C \in SUBSET Nat
<1>1. IsFiniteSet(PeerIds)
  BY PeerManagerAssumption, FS_Interval DEF PeerIds
<1>2. PeerIds \in SUBSET Nat
  BY PeerManagerAssumption DEF PeerIds
<1> QED
  BY <1>1, <1>2, FS_Subset

\* The members that open_connections takes, by their ranks.
LEMMA OpenedByRank ==
  ASSUME NEW state, NEW size \in Nat
  PROVE  OpenedBy(state, size) =
           {i \in Connectable(state) :
              size + Rank(Connectable(state))[i] < MaxNumConnectedPeers}
BY DEF OpenedBy, Rank

\* It never takes more than there is room for ...
LEMMA OpenedFits ==
  ASSUME NEW state, NEW size \in Nat, size <= MaxNumConnectedPeers
  PROVE  /\ IsFiniteSet(OpenedBy(state, size))
         /\ size + Cardinality(OpenedBy(state, size)) <= MaxNumConnectedPeers
<1> DEFINE C == Connectable(state)
           new == OpenedBy(state, size)
           room == MaxNumConnectedPeers - size
<1>1. C \in SUBSET Nat /\ IsFiniteSet(C)
  BY IdsAreFinite DEF Connectable
<1>2. Rank(C) \in Injection(C, Nat)
  BY <1>1, RankNumbers
<1>3. room \in Nat /\ size = MaxNumConnectedPeers - room
  BY PeerManagerAssumption
<1>4. new = {i \in C : size + Rank(C)[i] < MaxNumConnectedPeers}
  BY OpenedByRank
<1> HIDE DEF C, new, room
<1> DEFINE f == [i \in new |-> Rank(C)[i]]
<1>5. f \in Injection(new, 0 .. room - 1)
  BY <1>2, <1>3, <1>4, PeerManagerAssumption DEF Injection, IsInjective
<1>6. IsFiniteSet(0 .. room - 1) /\ Cardinality(0 .. room - 1) = room
  <2>1. 0 \in Int /\ room - 1 \in Int
    BY <1>3
  <2>2. /\ IsFiniteSet(0 .. room - 1)
        /\ Cardinality(0 .. room - 1) = IF 0 > room - 1 THEN 0 ELSE room - 1 - 0 + 1
    BY <2>1, FS_Interval
  <2> QED
    BY <1>3, <2>2
<1>7. IsFiniteSet(new) /\ Cardinality(new) <= room
  BY <1>5, <1>6, FS_Injection
<1> QED
  BY <1>3, <1>7, FS_CardinalityType, PeerManagerAssumption DEF new

\* ... and, with room for one, takes somebody if it can.
LEMMA OpenedIfRoom ==
  ASSUME NEW state, NEW size \in Nat, size < MaxNumConnectedPeers,
         Connectable(state) # {}
  PROVE  OpenedBy(state, size) # {}
<1> DEFINE C == Connectable(state)
<1>1. C \in SUBSET Nat /\ IsFiniteSet(C)
  BY IdsAreFinite DEF Connectable
<1> HIDE DEF C
<1>2. C # {}
  BY DEF C
<1>3. PICK i \in C : Rank(C)[i] = 0
  BY <1>1, <1>2, RankNumbers
<1> QED
  BY <1>3, OpenedByRank DEF C

-----------------------------------------------------------------------------
\* The client stops only when the pool is empty.
StopMeansEmpty == stopDownload => peers = {}

\* All but PoolWithinLimit, which alone has to count.
PoolInv ==
  /\ TypeOK
  /\ PoolMatchesStates
  /\ RegisteredAreConnected
  /\ GivesUpOnlyExhausted
  /\ StopMeansEmpty

IInv == PoolInv /\ PoolWithinLimit

\* The pool is no larger than the set of its ids.
LEMMA PoolIsFinite ==
  ASSUME PoolInv
  PROVE  IsFiniteSet(peers)
<1> DEFINE idOf == [p \in peers |-> p.id]
<1>1. idOf \in Injection(peers, PeerIds)
  BY DEF PoolInv, TypeOK, PoolMatchesStates, Injection, IsInjective
<1>2. IsFiniteSet(PeerIds)
  BY IdsAreFinite
<1> QED
  BY <1>1, <1>2, FS_Injection

LEMMA NextStates ==
  /\ NextPeerState("NOT_CONNECTED") = "CONNECTED_1"
  /\ NextPeerState("CONNECTED_1") = "DISCONNECTED_1"
  /\ NextPeerState("DISCONNECTED_1") = "CONNECTED_2"
  /\ NextPeerState("CONNECTED_2") = "DISCONNECTED_2"
BY DEF NextPeerState

LEMMA InitEstablishesPool == Init => PoolInv
<1> SUFFICES ASSUME Init PROVE PoolInv
  OBVIOUS
<1> USE PeerManagerAssumption, NextStates DEF Init
<1>1. \A i \in PeerIds : i \in Nat
  BY DEF PeerIds
<1>2. TypeOK
  <2>1. peersState \in [PeerIds -> PeerState]
    BY DEF PeerState
  <2>2. peers \subseteq [id : PeerIds, nth : 1 .. 2]
    OBVIOUS
  <2>3. opened \in [PeerIds -> 0 .. 2]
    OBVIOUS
  <2> QED
    BY <2>1, <2>2, <2>3 DEF TypeOK
<1>3. PoolMatchesStates
  <2>1. \A i \in PeerIds : i \in Ids(peers) <=> i < MaxNumConnectedPeers
    <3>1. \A i \in PeerIds : i < MaxNumConnectedPeers => [id |-> i, nth |-> 1] \in peers
      OBVIOUS
    <3>2. \A p \in peers : p.id < MaxNumConnectedPeers
      OBVIOUS
    <3>3. \A i \in PeerIds : [id |-> i, nth |-> 1].id = i
      OBVIOUS
    <3> QED
      BY <3>1, <3>2, <3>3 DEF Ids
  <2>2. \A p \in peers : p.id \in PeerIds /\ p.id < MaxNumConnectedPeers /\ p.nth = 1
    OBVIOUS
  <2>3. \A p, r \in peers : p.id = r.id => p = r
    OBVIOUS
  <2> QED
    BY <2>1, <2>2, <2>3 DEF PoolMatchesStates
<1>4. RegisteredAreConnected
  BY DEF RegisteredAreConnected
<1>5. GivesUpOnlyExhausted
  BY DEF GivesUpOnlyExhausted
<1>6. StopMeansEmpty
  BY DEF StopMeansEmpty
<1> QED
  BY <1>2, <1>3, <1>4, <1>5, <1>6 DEF PoolInv

-----------------------------------------------------------------------------
(***************************************************************************)
(* The turn of the cleanup loop.  Kept and New are those that stay and     *)
(* those that are opened, After is what the exits make of the states.      *)
(***************************************************************************)
Kept == peers \ exited
After == StatesAfterCleanup(exited)
New == OpenedBy(After, Cardinality(Kept))
Fresh == {[id |-> i, nth |-> opened[i] + 1] : i \in New}

\* What a turn does to each id: who is opened has no connection and has had
\* one at most.
LEMMA CleanupChanges ==
  ASSUME TypeOK, PoolMatchesStates, CleanupAndOpen
  PROVE  /\ Ids(exited) \subseteq Ids(peers)
         /\ Ids(Kept) = Ids(peers) \ Ids(exited)
         /\ \A i \in PeerIds :
              /\ i \in Ids(Kept) => After[i] \in {"CONNECTED_1", "CONNECTED_2"}
              /\ i \notin Ids(Kept) =>
                   After[i] \in {"NOT_CONNECTED", "DISCONNECTED_1", "DISCONNECTED_2"}
              /\ After[i] = "NOT_CONNECTED" => opened[i] = 0
              /\ After[i] \in {"CONNECTED_1", "DISCONNECTED_1"} => opened[i] = 1
              /\ After[i] \in {"CONNECTED_2", "DISCONNECTED_2"} => opened[i] = 2
         /\ \A i \in New : /\ i \in PeerIds \ Ids(Kept)
                           /\ opened'[i] = opened[i] + 1
                           /\ \/ /\ After[i] = "NOT_CONNECTED"
                                 /\ peersState'[i] = "CONNECTED_1"
                                 /\ opened[i] = 0
                              \/ /\ After[i] = "DISCONNECTED_1"
                                 /\ peersState'[i] = "CONNECTED_2"
                                 /\ opened[i] = 1
         /\ \A i \in PeerIds \ New : peersState'[i] = After[i] /\ opened'[i] = opened[i]
         /\ \A p \in Fresh : p.id \in New /\ p.nth = opened[p.id] + 1
         /\ \A p, r \in Fresh : p.id = r.id => p = r
         /\ Ids(Fresh) = New
         /\ Ids(peers)' = Ids(Kept) \cup New
<1>1. /\ peersState' = [i \in PeerIds |-> IF i \in New THEN NextPeerState(After[i])
                                          ELSE After[i]]
      /\ peers' = Kept \cup Fresh
      /\ opened' = [i \in PeerIds |-> IF i \in New THEN opened[i] + 1 ELSE opened[i]]
  BY DEF CleanupAndOpen, Kept, After, New, Fresh
<1>2. \A i \in PeerIds :
        /\ i \in Ids(exited) => /\ peersState[i] = "CONNECTED_1" => After[i] = "DISCONNECTED_1"
                                /\ peersState[i] = "CONNECTED_2" => After[i] = "DISCONNECTED_2"
        /\ i \notin Ids(exited) => After[i] = peersState[i]
  BY NextStates DEF StatesAfterCleanup, After
<1>3. New \subseteq Connectable(After)
  BY DEF OpenedBy, New
<1>4. /\ Ids(exited) \subseteq Ids(peers)
      /\ Ids(Kept) = Ids(peers) \ Ids(exited)
  BY DEF TypeOK, PoolMatchesStates, Ids, Kept
<1>5. \A i \in PeerIds :
        /\ i \in Ids(Kept) => After[i] \in {"CONNECTED_1", "CONNECTED_2"}
        /\ i \notin Ids(Kept) =>
             After[i] \in {"NOT_CONNECTED", "DISCONNECTED_1", "DISCONNECTED_2"}
        /\ After[i] = "NOT_CONNECTED" => opened[i] = 0
        /\ After[i] \in {"CONNECTED_1", "DISCONNECTED_1"} => opened[i] = 1
        /\ After[i] \in {"CONNECTED_2", "DISCONNECTED_2"} => opened[i] = 2
  BY <1>2, <1>4 DEF TypeOK, PoolMatchesStates, PeerState
<1>6. \A i \in New : /\ i \in PeerIds \ Ids(Kept)
                     /\ \/ /\ After[i] = "NOT_CONNECTED"
                           /\ peersState'[i] = "CONNECTED_1"
                           /\ opened[i] = 0
                        \/ /\ After[i] = "DISCONNECTED_1"
                           /\ peersState'[i] = "CONNECTED_2"
                           /\ opened[i] = 1
  BY <1>1, <1>3, <1>5, NextStates DEF Connectable
<1>7. \A i \in PeerIds \ New : peersState'[i] = After[i] /\ opened'[i] = opened[i]
  BY <1>1
<1>8. \A i \in New : opened'[i] = opened[i] + 1
  BY <1>1, <1>6
<1>9. /\ \A p \in Fresh : p.id \in New /\ p.nth = opened[p.id] + 1
      /\ \A p, r \in Fresh : p.id = r.id => p = r
      /\ Ids(Fresh) = New
  <2>1. \A i \in New : [id |-> i, nth |-> opened[i] + 1].id = i
    OBVIOUS
  <2>2. \A i \in New : [id |-> i, nth |-> opened[i] + 1] \in Fresh
    BY DEF Fresh
  <2>3. \A p \in Fresh : p.id \in New /\ p.nth = opened[p.id] + 1
    BY DEF Fresh
  <2>4. \A p, r \in Fresh : p.id = r.id => p = r
    BY DEF Fresh
  <2>5. \A i \in New : \E p \in Fresh : p.id = i
    BY <2>1, <2>2
  <2>6. Ids(Fresh) = New
    BY <2>3, <2>5 DEF Ids
  <2> QED
    BY <2>3, <2>4, <2>6
<1>10. Ids(peers)' = Ids(Kept) \cup New
  BY <1>1, <1>9 DEF Ids
<1> QED
  BY <1>4, <1>5, <1>6, <1>7, <1>8, <1>9, <1>10

LEMMA CleanupKeepsPool ==
  ASSUME IInv, CleanupAndOpen, ContinueDownload, cleanup' = "pausing"
  PROVE  IInv'
<1>1. /\ peers' = Kept \cup Fresh
      /\ exited' = {}
      /\ peersState' = [i \in PeerIds |-> IF i \in New THEN NextPeerState(After[i])
                                          ELSE After[i]]
      /\ opened' = [i \in PeerIds |-> IF i \in New THEN opened[i] + 1 ELSE opened[i]]
      /\ registered' = registered \ Ids(exited)
      /\ stopDownload' = (stopDownload \/ peers' = {})
      /\ UNCHANGED complete
  BY DEF CleanupAndOpen, RegisteredAfterCleanup, Kept, After, New, Fresh
<1>2. /\ TypeOK /\ PoolMatchesStates /\ RegisteredAreConnected
      /\ PoolWithinLimit /\ ~stopDownload
  BY DEF IInv, PoolInv, ContinueDownload
<1>3. /\ Ids(exited) \subseteq Ids(peers)
      /\ Ids(Kept) = Ids(peers) \ Ids(exited)
      /\ Ids(peers)' = Ids(Kept) \cup New
  BY <1>2, CleanupChanges
<1>6. \A i \in PeerIds :
        /\ i \in Ids(Kept) => After[i] \in {"CONNECTED_1", "CONNECTED_2"}
        /\ i \notin Ids(Kept) =>
             After[i] \in {"NOT_CONNECTED", "DISCONNECTED_1", "DISCONNECTED_2"}
        /\ After[i] = "NOT_CONNECTED" => opened[i] = 0
        /\ After[i] \in {"CONNECTED_1", "DISCONNECTED_1"} => opened[i] = 1
        /\ After[i] \in {"CONNECTED_2", "DISCONNECTED_2"} => opened[i] = 2
  BY <1>2, CleanupChanges
<1>7. \A i \in New : /\ i \in PeerIds \ Ids(Kept)
                     /\ \/ /\ After[i] = "NOT_CONNECTED"
                           /\ peersState'[i] = "CONNECTED_1"
                           /\ opened[i] = 0
                        \/ /\ After[i] = "DISCONNECTED_1"
                           /\ peersState'[i] = "CONNECTED_2"
                           /\ opened[i] = 1
  BY <1>2, CleanupChanges
<1>8. \A i \in PeerIds \ New : peersState'[i] = After[i] /\ opened'[i] = opened[i]
  BY <1>2, CleanupChanges
<1>9. \A i \in New : opened'[i] = opened[i] + 1
  BY <1>2, CleanupChanges
<1>10. /\ \A p \in Fresh : p.id \in New /\ p.nth = opened[p.id] + 1
       /\ \A p, r \in Fresh : p.id = r.id => p = r
       /\ Ids(Fresh) = New
  BY <1>2, CleanupChanges
<1>12. Fresh \subseteq [id : PeerIds, nth : 1 .. 2]
  BY <1>7 DEF Fresh
<1>13. Kept \subseteq peers
  BY DEF Kept
<1>14. IsFiniteSet(Kept) /\ Cardinality(Kept) \in Nat /\ Cardinality(Kept) <= MaxNumConnectedPeers
  <2>1. IsFiniteSet(peers)
    BY PoolIsFinite DEF IInv
  <2>2. Kept \subseteq peers
    BY DEF Kept
  <2> QED
    BY <1>2, <2>1, <2>2, FS_Subset, FS_CardinalityType, PeerManagerAssumption DEF PoolWithinLimit
<1>15. /\ IsFiniteSet(New)
       /\ Cardinality(Kept) + Cardinality(New) <= MaxNumConnectedPeers
  BY <1>14, OpenedFits DEF New
<1>16. Cardinality(Kept) < MaxNumConnectedPeers /\ Connectable(After) # {} => New # {}
  BY <1>14, OpenedIfRoom DEF New
<1>17. IsFiniteSet(Fresh) /\ Cardinality(Fresh) <= Cardinality(New)
  <2> DEFINE idOf == [p \in Fresh |-> p.id]
  <2>1. idOf \in Injection(Fresh, New)
    BY <1>10 DEF Injection, IsInjective
  <2> QED
    BY <1>15, <2>1, FS_Injection
<1>18. TypeOK'
  <2>1. peersState' \in [PeerIds -> PeerState]
    BY <1>1, <1>6, <1>7, <1>8 DEF PeerState
  <2>2. opened' \in [PeerIds -> 0 .. 2]
    BY <1>1, <1>2, <1>7 DEF TypeOK
  <2>3. peers' \subseteq [id : PeerIds, nth : 1 .. 2]
    BY <1>1, <1>2, <1>12, <1>13 DEF TypeOK
  <2>4. exited' \subseteq peers' /\ registered' \subseteq PeerIds
    BY <1>1, <1>2 DEF TypeOK
  <2>5. complete' \in BOOLEAN /\ stopDownload' \in BOOLEAN
    BY <1>1, <1>2 DEF TypeOK
  <2> QED
    BY <2>1, <2>2, <2>3, <2>4, <2>5 DEF TypeOK
<1>19. PoolMatchesStates'
  <2>1. \A p \in Kept : p \in peers /\ p.id \in PeerIds /\ p.id \in Ids(Kept)
    BY <1>2, <1>13 DEF TypeOK, Ids
  <2>2. \A p, r \in Kept : p.id = r.id => p = r
    BY <1>2, <1>13 DEF PoolMatchesStates
  <2>3. \A p, r \in peers' : p.id = r.id => p = r
    BY <1>1, <1>7, <1>10, <2>1, <2>2
  <2>4. \A p \in Kept : p.nth = opened'[p.id]
    BY <1>2, <1>7, <1>8, <2>1 DEF PoolMatchesStates
  <2>5. \A p \in peers' : p.nth = opened'[p.id]
    BY <1>1, <1>9, <1>10, <2>4
  <2>6. \A i \in PeerIds :
          i \in Ids(peers)' <=> peersState'[i] \in {"CONNECTED_1", "CONNECTED_2"}
    BY <1>6, <1>7, <1>8, <1>3
  <2>7. \A i \in PeerIds :
          /\ peersState'[i] = "NOT_CONNECTED" => opened'[i] = 0
          /\ peersState'[i] \in {"CONNECTED_1", "DISCONNECTED_1"} => opened'[i] = 1
          /\ peersState'[i] \in {"CONNECTED_2", "DISCONNECTED_2"} => opened'[i] = 2
    BY <1>6, <1>7, <1>8, <1>9
  <2> QED
    BY <2>3, <2>5, <2>6, <2>7 DEF PoolMatchesStates
<1>20. RegisteredAreConnected'
  BY <1>1, <1>2, <1>3, <1>3 DEF RegisteredAreConnected
<1>21. StopMeansEmpty'
  BY <1>1, <1>2 DEF StopMeansEmpty
<1>22. GivesUpOnlyExhausted'
  <2> SUFFICES ASSUME stopDownload', NEW i \in PeerIds
               PROVE  peersState'[i] = "DISCONNECTED_2"
    BY DEF GivesUpOnlyExhausted
  <2>1. Kept = {} /\ Ids(Kept) = {} /\ New = {}
    BY <1>1, <1>2, <1>10 DEF Ids
  <2>2. Connectable(After) = {}
    BY <1>16, <2>1, FS_EmptySet, PeerManagerAssumption
  <2> QED
    BY <1>6, <1>8, <2>1, <2>2 DEF Connectable
<1>23. PoolWithinLimit'
  <2>1. /\ IsFiniteSet(Kept \cup Fresh)
        /\ Cardinality(Kept \cup Fresh) =
             Cardinality(Kept) + Cardinality(Fresh) - Cardinality(Kept \cap Fresh)
    BY <1>14, <1>17, FS_Union
  <2>2. Cardinality(Kept \cap Fresh) \in Nat
    BY <1>14, FS_Intersection, FS_CardinalityType
  <2>3. Cardinality(Fresh) \in Nat /\ Cardinality(New) \in Nat
    BY <1>15, <1>17, FS_CardinalityType
  <2> QED
    BY <1>1, <1>14, <1>15, <1>17, <2>1, <2>2, <2>3, PeerManagerAssumption
    DEF PoolWithinLimit
<1> QED
  BY <1>18, <1>19, <1>20, <1>21, <1>22, <1>23 DEF IInv, PoolInv

LEMMA InitEstablishes == Init => IInv
<1> SUFFICES ASSUME Init PROVE IInv
  OBVIOUS
<1>1. PoolInv
  BY InitEstablishesPool
<1> DEFINE idOf == [p \in peers |-> p.id]
<1>2. idOf \in Injection(peers, 0 .. MaxNumConnectedPeers - 1)
  BY PeerManagerAssumption DEF Init, Injection, IsInjective, PeerIds
<1>3. MaxNumConnectedPeers - 1 \in Int
  BY PeerManagerAssumption
<1>4. /\ IsFiniteSet(0 .. MaxNumConnectedPeers - 1)
      /\ Cardinality(0 .. MaxNumConnectedPeers - 1) = MaxNumConnectedPeers
  BY <1>3, FS_Interval, PeerManagerAssumption
<1>5. PoolWithinLimit
  BY <1>2, <1>4, FS_Injection DEF PoolWithinLimit
<1> QED
  BY <1>1, <1>5 DEF IInv

LEMMA NextPreserves == IInv /\ [Next]_vars => IInv'
<1> SUFFICES ASSUME IInv, [Next]_vars PROVE IInv'
  OBVIOUS
<1> USE DEF IInv, PoolInv, PoolMatchesStates, RegisteredAreConnected,
            GivesUpOnlyExhausted, StopMeansEmpty, PoolWithinLimit, Ids
<1>1. CASE \E p \in peers : PeerRegisters(p)
  BY <1>1 DEF PeerRegisters, Running, TypeOK
<1>2. CASE \E p \in peers : PeerCompletes(p)
  BY <1>2 DEF PeerCompletes, TypeOK
<1>3. CASE \E p \in peers : PeerExits(p)
  BY <1>3 DEF PeerExits, Running, TypeOK
<1>4. CASE CleanupWakes
  <2>1. CASE ContinueDownload /\ CleanupAndOpen /\ cleanup' = "pausing"
    BY <2>1, CleanupKeepsPool
  <2>2. CASE /\ cleanup' = "ended"
             /\ UNCHANGED <<peersState, peers, exited, opened, registered,
                            complete, stopDownload>>
    BY <2>2 DEF TypeOK
  <2> QED
    BY <1>4, <2>1, <2>2 DEF CleanupWakes
<1>5. CASE LoopRepeats
  BY <1>5 DEF LoopRepeats, TypeOK
<1>6. CASE UNCHANGED vars
  BY <1>6 DEF vars, TypeOK
<1> QED
  BY <1>1, <1>2, <1>3, <1>4, <1>5, <1>6 DEF Next, Returned

LEMMA PoolInductive == Spec => []IInv
  BY InitEstablishes, NextPreserves, PTL DEF Spec

-----------------------------------------------------------------------------
\* No id has more than two Peer objects.
THEOREM PoolTypeCorrect == Spec => []TypeOK
<1>1. IInv => TypeOK
  BY DEF IInv, PoolInv
<1> QED
  BY <1>1, PoolInductive, PTL

\* The states of peers_state_ and the Peer objects in peers_ always agree.
THEOREM PoolStaysConsistent == Spec => []PoolMatchesStates
<1>1. IInv => PoolMatchesStates
  BY DEF IInv, PoolInv
<1> QED
  BY <1>1, PoolInductive, PTL

\* However many peers leave and enter at once, the limit holds.
THEOREM PoolNeverTooLarge == Spec => []PoolWithinLimit
<1>1. IInv => PoolWithinLimit
  BY DEF IInv
<1> QED
  BY <1>1, PoolInductive, PTL

\* The client gives up only when every peer has had both its connections.
THEOREM GivingUpIsLast == Spec => []GivesUpOnlyExhausted
<1>1. IInv => GivesUpOnlyExhausted
  BY DEF IInv, PoolInv
<1> QED
  BY <1>1, PoolInductive, PTL

\* What a peer left behind is gone before its id is used again.
THEOREM NothingLeftBehind == Spec => []RegisteredAreConnected
<1>1. IInv => RegisteredAreConnected
  BY DEF IInv, PoolInv
<1> QED
  BY <1>1, PoolInductive, PTL

-----------------------------------------------------------------------------
\* The turn of the loop, as those see it who use the connections.
LEMMA CleanupIsTurn ==
  ASSUME TypeOK, PoolMatchesStates, CleanupAndOpen
  PROVE  Promised!Turn(Ids(exited), New)
<1>1. /\ registered' = registered \ Ids(exited)
      /\ exited' = {}
      /\ opened' = [i \in PeerIds |-> IF i \in New THEN opened[i] + 1 ELSE opened[i]]
  BY DEF CleanupAndOpen, RegisteredAfterCleanup, New, After, Kept
<1>2. Ids(exited) \subseteq {i \in PeerIds : ConnectionOf[i] = "exited"}
  <2>1. \A i \in Ids(exited) : i \in PeerIds /\ i \notin Ids(peers \ exited)
    <3>1. Ids(Kept) = Ids(peers) \ Ids(exited)
      BY CleanupChanges
    <3>2. Ids(exited) \subseteq PeerIds
      BY DEF TypeOK, Ids
    <3> QED
      BY <3>1, <3>2 DEF Kept
  <2> QED
    BY <2>1 DEF ConnectionOf
<1>3. New \subseteq {i \in PeerIds : /\ i \in Ids(exited) \/ ConnectionOf[i] = "waiting"
                                   /\ opened[i] < 2}
  <2> SUFFICES ASSUME NEW i \in New, i \notin Ids(exited)
               PROVE  ConnectionOf[i] = "waiting"
    BY CleanupChanges
  <2>1. /\ i \in PeerIds /\ i \notin Ids(Kept)
        /\ After[i] # "DISCONNECTED_2"
    BY CleanupChanges
  <2>2. After[i] = peersState[i]
    BY <2>1 DEF After, StatesAfterCleanup
  <2> QED
    BY <2>1, <2>2 DEF ConnectionOf, Kept
<1>4. ConnectionOf' = [i \in PeerIds |->
                         IF i \in New THEN "up"
                         ELSE IF i \notin Ids(exited) THEN ConnectionOf[i]
                         ELSE IF opened[i] < 2 THEN "waiting"
                         ELSE "closed"]
  <2>1. Ids(exited)' = {} /\ Ids(peers \ exited)' = Ids(Kept) \cup New
    BY <1>1, CleanupChanges DEF Ids
  <2>2. ConnectionOf' = [i \in PeerIds |->
                           IF i \in Ids(Kept) \cup New THEN "up"
                           ELSE IF peersState'[i] = "DISCONNECTED_2" THEN "closed"
                           ELSE "waiting"]
    BY <2>1 DEF ConnectionOf
  <2>3. ASSUME NEW i \in PeerIds, i \notin New, i \notin Ids(exited), i \notin Ids(Kept)
        PROVE  ConnectionOf[i] = IF peersState'[i] = "DISCONNECTED_2" THEN "closed"
                                 ELSE "waiting"
    <3>1. peersState'[i] = After[i]
      BY <2>3, CleanupChanges
    <3>2. After[i] = peersState[i]
      BY <2>3 DEF After, StatesAfterCleanup
    <3> QED
      BY <2>3, <3>1, <3>2 DEF ConnectionOf, Kept
  <2>4. ASSUME NEW i \in PeerIds, i \in Ids(exited), i \notin New
        PROVE  /\ i \notin Ids(Kept)
               /\ peersState'[i] = "DISCONNECTED_2" <=> ~(opened[i] < 2)
    <3>1. /\ peersState'[i] = After[i] /\ i \notin Ids(Kept)
      BY <2>4, CleanupChanges
    <3>2. /\ After[i] \in {"NOT_CONNECTED", "DISCONNECTED_1", "DISCONNECTED_2"}
          /\ After[i] = "NOT_CONNECTED" => opened[i] = 0
          /\ After[i] = "DISCONNECTED_1" => opened[i] = 1
          /\ After[i] = "DISCONNECTED_2" => opened[i] = 2
      BY <3>1, CleanupChanges
    <3> QED
      BY <3>1, <3>2
  <2>5. \A i \in PeerIds : i \in Ids(Kept) => i \notin Ids(exited) /\ ConnectionOf[i] = "up"
    BY CleanupChanges DEF ConnectionOf, Kept
  <2> QED
    BY <2>2, <2>3, <2>4, <2>5
<1> QED
  BY <1>1, <1>2, <1>3, <1>4 DEF Promised!Turn

LEMMA InitIsConnections == Init => Promised!ConnectionsInit
<1> SUFFICES ASSUME Init PROVE Promised!ConnectionsInit
  OBVIOUS
<1>1. TypeOK /\ PoolMatchesStates
  BY InitEstablishesPool DEF PoolInv
<1>2. Ids(exited) = {} /\ peers \ exited = peers
  BY DEF Init, Ids
<1>3. \A i \in PeerIds : peersState[i] # "DISCONNECTED_2" /\ opened[i] < 2
  BY DEF Init, NextPeerState
<1>4. ConnectionOf = [i \in PeerIds |-> IF i \in Ids(peers) THEN "up" ELSE "waiting"]
  BY <1>2, <1>3 DEF ConnectionOf
<1>5. opened = [i \in PeerIds |-> IF i \in Ids(peers) THEN 1 ELSE 0]
  <2>1. opened \in [PeerIds -> 0 .. 2]
    BY <1>1 DEF TypeOK
  <2>2. \A i \in PeerIds : opened[i] = IF i \in Ids(peers) THEN 1 ELSE 0
    <3> TAKE i \in PeerIds
    <3>1. peersState[i] \in {"NOT_CONNECTED", "CONNECTED_1"}
      BY NextStates DEF Init
    <3> QED
      BY <1>1, <3>1 DEF PoolMatchesStates
  <2> QED
    BY <2>1, <2>2
<1> QED
  BY <1>4, <1>5 DEF Promised!ConnectionsInit, Init

\* What each step of the pool is to the connections.
LEMMA NextIsConnections ==
  ASSUME TypeOK, PoolMatchesStates, [Next]_vars
  PROVE  [Promised!ConnectionsNext]_(Promised!connectionsVars)
<1>1. ASSUME NEW p \in peers, PeerRegisters(p) PROVE Promised!Register(p.id)
  <2>1. p.id \in Ids(peers \ exited) /\ p.id \in PeerIds
    BY <1>1 DEF PeerRegisters, Running, Ids, TypeOK
  <2>2. ConnectionOf[p.id] = "up"
    BY <2>1 DEF ConnectionOf
  <2>3. UNCHANGED <<ConnectionOf, opened>>
    BY <1>1 DEF PeerRegisters, ConnectionOf, Ids
  <2> QED
    BY <1>1, <2>2, <2>3 DEF PeerRegisters, Promised!Register
<1>2. ASSUME NEW p \in peers, PeerExits(p) PROVE Promised!Exit(p.id)
  <2>1. /\ p \notin exited /\ p \in peers /\ p.id \in PeerIds
        /\ exited' = exited \cup {p}
        /\ UNCHANGED <<peersState, peers, opened, registered>>
    BY <1>2 DEF PeerExits, Running, TypeOK
  <2>2. /\ Ids(peers \ exited) = Ids(peers' \ exited') \cup {p.id}
        /\ p.id \notin Ids(peers' \ exited')
        /\ Ids(exited') = Ids(exited) \cup {p.id}
    BY <2>1 DEF PoolMatchesStates, Ids
  <2>3. Ids(peers \ exited)' = Ids(peers' \ exited') /\ Ids(exited)' = Ids(exited')
    BY DEF Ids
  <2>4. ConnectionOf[p.id] = "up"
    BY <2>1, <2>2 DEF ConnectionOf
  <2>5. ConnectionOf' = [ConnectionOf EXCEPT ![p.id] = "exited"]
    BY <2>1, <2>2, <2>3 DEF ConnectionOf
  <2> QED
    BY <2>1, <2>4, <2>5 DEF Promised!Exit
<1>3. ASSUME CleanupAndOpen PROVE Promised!ConnectionsNext
  <2>1. Promised!Turn(Ids(exited), New)
    BY <1>3, CleanupIsTurn
  <2>2. Ids(exited) \in SUBSET PeerIds /\ New \in SUBSET PeerIds
    BY <1>3, CleanupChanges DEF TypeOK, Ids
  <2> QED
    BY <2>1, <2>2 DEF Promised!ConnectionsNext
<1>4. ASSUME UNCHANGED <<peersState, peers, exited, opened, registered>>
      PROVE  UNCHANGED Promised!connectionsVars
  BY <1>4 DEF Promised!connectionsVars, ConnectionOf, Ids
<1>5. ASSUME NEW p \in peers, PeerCompletes(p)
      PROVE  UNCHANGED <<peersState, peers, exited, opened, registered>>
  BY <1>5 DEF PeerCompletes
<1>6. CASE CleanupWakes
  BY <1>3, <1>4, <1>6 DEF CleanupWakes
<1>7. CASE LoopRepeats \/ Returned \/ UNCHANGED vars
  BY <1>4, <1>7 DEF LoopRepeats, Returned, vars
<1>8. CASE \E p \in peers : PeerRegisters(p) \/ PeerCompletes(p) \/ PeerExits(p)
  <2>1. PICK p \in peers : PeerRegisters(p) \/ PeerCompletes(p) \/ PeerExits(p)
    BY <1>8
  <2>2. p.id \in PeerIds
    BY DEF TypeOK
  <2> QED
    BY <1>1, <1>2, <1>4, <1>5, <2>1, <2>2 DEF Promised!ConnectionsNext
<1> QED
  BY <1>6, <1>7, <1>8 DEF Next

\* The pool, with its limit, its automaton and its turns, gives each peer what
\* Connections promises: up to two connections, one after the other, each
\* starting with nothing registered.
THEOREM PoolKeepsConnections == Spec => KeepsConnections
<1>1. IInv => TypeOK /\ PoolMatchesStates
  BY DEF IInv, PoolInv
<1>2. TypeOK /\ PoolMatchesStates /\ [Next]_vars
        => [Promised!ConnectionsNext]_(Promised!connectionsVars)
  BY NextIsConnections
<1> QED
  BY <1>1, <1>2, InitIsConnections, PoolInductive, PTL
  DEF Spec, KeepsConnections, Promised!ConnectionsSpec

=============================================================================
