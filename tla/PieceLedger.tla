---------------------------- MODULE PieceLedger ----------------------------
(***************************************************************************)
(* What the piece manager promises, without slots, requests or peers: each *)
(* piece is missing, being assembled from its blocks, or saved.  At most   *)
(* Capacity pieces are assembled at a time, a block once held is held      *)
(* until its piece is decided, a piece is decided by its last block alone, *)
(* a rejected piece starts again from nothing, and a saved piece stays     *)
(* saved.                                                                  *)
(***************************************************************************)
EXTENDS Integers, FiniteSets

CONSTANTS
  Pieces,    \* the pieces of the torrent
  BlocksOf,  \* the blocks of each piece
  Capacity   \* how many pieces may be assembled at a time

VARIABLES
  status,  \* missing, assembling or saved
  held     \* the blocks of each piece that are kept

ledgerVars == <<status, held>>

LedgerInit ==
  /\ status = [p \in Pieces |-> "missing"]
  /\ held = [p \in Pieces |-> {}]

Assembling == {p \in Pieces : status[p] = "assembling"}

Start(p) ==
  /\ status[p] = "missing"
  /\ Cardinality(Assembling) < Capacity
  /\ status' = [status EXCEPT ![p] = "assembling"]
  /\ UNCHANGED held

\* A block that is not held yet and is not the last one missing.
Receive(p, b) ==
  /\ status[p] = "assembling"
  /\ b \in BlocksOf[p] \ held[p]
  /\ held[p] \cup {b} # BlocksOf[p]
  /\ held' = [held EXCEPT ![p] = @ \cup {b}]
  /\ UNCHANGED status

LastBlockMissing(p) ==
  /\ status[p] = "assembling"
  /\ \E b \in BlocksOf[p] \ held[p] : held[p] \cup {b} = BlocksOf[p]

Save(p) ==
  /\ LastBlockMissing(p)
  /\ status' = [status EXCEPT ![p] = "saved"]
  /\ held' = [held EXCEPT ![p] = BlocksOf[p]]

Reject(p) ==
  /\ LastBlockMissing(p)
  /\ status' = [status EXCEPT ![p] = "missing"]
  /\ held' = [held EXCEPT ![p] = {}]

LedgerNext ==
  \E p \in Pieces :
    \/ Start(p)
    \/ \E b \in BlocksOf[p] : Receive(p, b)
    \/ Save(p)
    \/ Reject(p)

LedgerSpec == LedgerInit /\ [][LedgerNext]_ledgerVars

=============================================================================
