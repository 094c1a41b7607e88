---------------------------- MODULE PieceManager ----------------------------
(***************************************************************************)
(* The class PieceManager: which piece is in which phase of its download,  *)
(* which peer has which pieces, which piece a peer is bound to (its        *)
(* affinity), and the queue of verified pieces for the writer thread.      *)
(*                                                                         *)
(* Every public method is one action: all peers' coroutines run on one     *)
(* thread and no method suspends, so a call is atomic, but the calls of    *)
(* different peers interleave in every order.  A call that returns early   *)
(* changes nothing and is a stuttering step.                               *)
(***************************************************************************)
EXTENDS Buffer, Sequences

CONSTANTS
  Peers,            \* peer_num_id_ of every peer the tracker named
  RepeatBitfield    \* TRUE: a peer may send a second Bitfield message

ASSUME PieceManagerAssumption ==
  /\ \A p \in Pieces : NumBlocks[p] <= NumBlocks[0]   \* only the last is shorter
  /\ RepeatBitfield \in BOOLEAN

VARIABLES
  pieceState,         \* pieces_[p].state
  peersBitfield,      \* peers_bitfield_map_: pieces the peer has; {} when the
                      \* peer has no entry (an all-zero bitfield is refused)
  peerPieceAffinity,  \* peer_piece_affinity_map_: a piece, or NoPiece
  numPiecesCompleted, \* num_pieces_completed_
  writeQueue          \* what save_piece enqueued, in order

vars == <<buffer, pieceBufferMap, pieceState, peersBitfield,
          peerPieceAffinity, numPiecesCompleted, writeQueue>>

PieceState == {"NOT_STARTED", "ALL_REQUESTED", "BUFFERED", "COMPLETED"}
NoPiece == -1
NoBlock == -1

Init ==
  /\ BufferInit
  /\ pieceState = [p \in Pieces |-> "NOT_STARTED"]
  /\ peersBitfield = [q \in Peers |-> {}]
  /\ peerPieceAffinity = [q \in Peers |-> NoPiece]
  /\ numPiecesCompleted = 0
  /\ writeQueue = <<>>

-----------------------------------------------------------------------------
\* A faulty variant: the loop stops at the first peer it finds.
RemoveFirstAffinity(affinity, p) ==
  IF \E q \in Peers : affinity[q] = p
  THEN [affinity EXCEPT ![CHOOSE q \in Peers : affinity[q] = p] = NoPiece]
  ELSE affinity

\* remove_affinity: no peer stays bound to p.
RemoveAffinity(affinity, p) ==
  [q \in Peers |-> IF affinity[q] = p THEN NoPiece ELSE affinity[q]]

(***************************************************************************)
(* The tail of select_next_block: the chosen piece p lies in slot s with   *)
(* the given block states, and is in state st.  b is the block of the      *)
(* returned request, NoBlock when nullopt is returned.                     *)
(***************************************************************************)
RequestBlock(p, s, piece, st, affinity, b) ==
  LET unrequested == {i \in DOMAIN piece.blocks : piece.blocks[i] = "DONT_HAVE"}
      after == IF b = NoBlock THEN piece.blocks ELSE MarkRequested(piece.blocks, b)
      done == AllRequestedOrCompleted(after)
  IN /\ \/ unrequested = {} /\ b = NoBlock
        \/ IsBlockToRetrieve(b, piece.blocks)
     /\ buffer' = [buffer EXCEPT ![s] = [piece EXCEPT !.blocks = after]]
     /\ pieceState' = [pieceState EXCEPT ![p] = IF done THEN "ALL_REQUESTED" ELSE st]
     /\ peerPieceAffinity' = IF done THEN RemoveAffinity(affinity, p) ELSE affinity
     /\ UNCHANGED <<peersBitfield, numPiecesCompleted, writeQueue>>

\* select_next_block, step 1: the peer is bound to p already.
SelectAffinity(q, p, b) ==
  LET s == pieceBufferMap[p]
  IN /\ peersBitfield[q] # {}
     /\ peerPieceAffinity[q] = p
     /\ RequestBlock(p, s, buffer[s], pieceState[p], peerPieceAffinity, b)
     /\ UNCHANGED pieceBufferMap

\* A faulty variant: whatever is not in the buffer may be started.
StartableAgain(q) ==
  {p \in peersBitfield[q] : pieceState[p] \notin {"BUFFERED", "ALL_REQUESTED"}}

\* The pieces handle_buffer_not_full_case may start for peer q.
Startable(q) == {p \in peersBitfield[q] : pieceState[p] = "NOT_STARTED"}

\* Step 2: the peer is free and the buffer has room; the first piece it has
\* and nobody started goes to the first empty slot.
SelectNewPiece(q, p, b) ==
  /\ peersBitfield[q] # {}
  /\ peerPieceAffinity[q] = NoPiece
  /\ ~IsFull
  /\ FirstIn(p, Startable(q))
  /\ \E s \in Slots :
       /\ FirstIn(s, EmptySlots)
       /\ pieceBufferMap' = [pieceBufferMap EXCEPT ![p] = s]
       /\ RequestBlock(p, s, NewBufferPiece(p, buffer[s]), "BUFFERED",
                       [peerPieceAffinity EXCEPT ![q] = p], b)

\* Step 3: the buffer is full, or the peer has nothing to start.  A piece in
\* the buffer that the peer has is picked from a pseudorandom start in an
\* unordered map: any of them.  If all its blocks are requested, the
\* requests that have no answer yet are forgotten and made again.
SelectFromBuffer(q, p, b) ==
  LET s == pieceBufferMap[p]
      stale == pieceState[p] = "ALL_REQUESTED"
      piece == [buffer[s] EXCEPT !.blocks = IF stale THEN ClearAllRequested(@) ELSE @]
  IN /\ peersBitfield[q] # {}
     /\ peerPieceAffinity[q] = NoPiece
     /\ IsFull \/ Startable(q) = {}
     /\ p \in PiecesInBuffer \cap peersBitfield[q]
     /\ RequestBlock(p, s, piece, IF stale THEN "BUFFERED" ELSE pieceState[p],
                     [peerPieceAffinity EXCEPT ![q] = p], b)
     /\ UNCHANGED pieceBufferMap

SelectNextBlock(q, p, b) ==
  \/ SelectAffinity(q, p, b)
  \/ SelectNewPiece(q, p, b)
  \/ SelectFromBuffer(q, p, b)

-----------------------------------------------------------------------------
\* A faulty variant: the length of the data is not looked at.
IsValidOffset(p, first, last) ==
  /\ p \in Pieces
  /\ first \in Blocks(p)

\* is_valid_block_data: data of piece p that starts in block first and ends
\* in block last.
IsValidBlockData(p, first, last) ==
  /\ p \in Pieces
  /\ first \in Blocks(p)
  /\ last \in Blocks(p)

\* is_verified_piece: the hash matches when every block's bytes are right.
IsVerifiedPiece(p, good) == Blocks(p) \subseteq good

\* A faulty variant: a piece with a wrong hash stays marked as started.
FinishPieceKeepsState(p, piece) ==
  /\ IF IsVerifiedPiece(p, piece.good)
     THEN /\ writeQueue' = Append(writeQueue, p)
          /\ pieceState' = [pieceState EXCEPT ![p] = "COMPLETED"]
          /\ numPiecesCompleted' = numPiecesCompleted + 1
     ELSE UNCHANGED <<pieceState, numPiecesCompleted, writeQueue>>
  /\ peerPieceAffinity' = RemoveAffinity(peerPieceAffinity, p)
  /\ buffer' = [buffer EXCEPT ![pieceBufferMap[p]] = [piece EXCEPT !.empty = TRUE]]
  /\ pieceBufferMap' = [pieceBufferMap EXCEPT ![p] = NoSlot]

\* A faulty variant: the slot of a saved piece is not marked as empty.
FinishPieceKeepsSlot(p, piece) ==
  LET good == IsVerifiedPiece(p, piece.good)
  IN /\ writeQueue' = IF good THEN Append(writeQueue, p) ELSE writeQueue
     /\ pieceState' = [pieceState EXCEPT ![p] = IF good THEN "COMPLETED" ELSE "NOT_STARTED"]
     /\ numPiecesCompleted' = numPiecesCompleted + (IF good THEN 1 ELSE 0)
     /\ peerPieceAffinity' = RemoveAffinity(peerPieceAffinity, p)
     /\ buffer' = [buffer EXCEPT ![pieceBufferMap[p]] = [piece EXCEPT !.empty = ~good]]
     /\ pieceBufferMap' = [pieceBufferMap EXCEPT ![p] = NoSlot]

\* The end of add_block, for a piece whose last missing block has arrived:
\* it is saved or given up, and leaves the buffer in both cases.
FinishPiece(p, piece) ==
  /\ \/ /\ IsVerifiedPiece(p, piece.good)
        /\ writeQueue' = Append(writeQueue, p)
        /\ pieceState' = [pieceState EXCEPT ![p] = "COMPLETED"]
        /\ numPiecesCompleted' = numPiecesCompleted + 1
     \/ /\ ~IsVerifiedPiece(p, piece.good)
        /\ pieceState' = [pieceState EXCEPT ![p] = "NOT_STARTED"]
        /\ UNCHANGED <<numPiecesCompleted, writeQueue>>
  /\ peerPieceAffinity' = RemoveAffinity(peerPieceAffinity, p)
  /\ buffer' = [buffer EXCEPT ![pieceBufferMap[p]] = [piece EXCEPT !.empty = TRUE]]
  /\ pieceBufferMap' = [pieceBufferMap EXCEPT ![p] = NoSlot]

\* add_block never looks at which peer sent the data: neither does this.
AddBlock(p, first, last, good) ==
  LET s == pieceBufferMap[p]
      piece == WriteBlockToBuffer(buffer[s], first, last, good)
  IN /\ IsValidBlockData(p, first, last)
     /\ ShouldWriteBlock(first, p)
     /\ IF IsCompleted(piece.blocks)
        THEN FinishPiece(p, piece)
        ELSE /\ buffer' = [buffer EXCEPT ![s] = piece]
             /\ UNCHANGED <<pieceBufferMap, pieceState, peerPieceAffinity,
                            numPiecesCompleted, writeQueue>>
     /\ UNCHANGED peersBitfield

\* update_piece_frequencies, called for a Bitfield message with some piece.
UpdatePieceFrequencies(q, bitfield) ==
  /\ RepeatBitfield \/ peersBitfield[q] = {}
  /\ peersBitfield' = [peersBitfield EXCEPT ![q] = bitfield]
  /\ UNCHANGED <<buffer, pieceBufferMap, pieceState, peerPieceAffinity,
                 numPiecesCompleted, writeQueue>>

\* A faulty variant: the peer's binding outlives the peer.
RemovePeerKeepsAffinity(q) ==
  /\ peersBitfield' = [peersBitfield EXCEPT ![q] = {}]
  /\ UNCHANGED <<buffer, pieceBufferMap, pieceState, peerPieceAffinity,
                 numPiecesCompleted, writeQueue>>

\* remove_peer, called when the peer's connection is cleaned up.
RemovePeer(q) ==
  /\ peerPieceAffinity' = [peerPieceAffinity EXCEPT ![q] = NoPiece]
  /\ peersBitfield' = [peersBitfield EXCEPT ![q] = {}]
  /\ UNCHANGED <<buffer, pieceBufferMap, pieceState, numPiecesCompleted, writeQueue>>

-----------------------------------------------------------------------------
\* A Piece message's data: right, wrong, short or overlong.
BlockArrives ==
  \E p \in 0 .. NumPieces :
    \E first, last \in 0 .. NumBlocks[0] :
      \E good \in SUBSET (first .. last) :
        /\ first <= last
        /\ AddBlock(p, first, last, good)

Next ==
  \/ \E q \in Peers, p \in Pieces :
       \E b \in Blocks(p) \cup {NoBlock} : SelectNextBlock(q, p, b)
  \/ BlockArrives
  \/ \E q \in Peers : \E bitfield \in (SUBSET Pieces) \ {{}} :
       UpdatePieceFrequencies(q, bitfield)
  \/ \E q \in Peers : RemovePeer(q)

Spec == Init /\ [][Next]_vars

-----------------------------------------------------------------------------
Completed == {p \in Pieces : pieceState[p] = "COMPLETED"}

TypeOK ==
  /\ buffer \in [Slots -> BufferPieces]
  /\ pieceBufferMap \in [Pieces -> Slots \cup {NoSlot}]
  /\ \A p \in PiecesInBuffer : DOMAIN buffer[pieceBufferMap[p]].blocks = Blocks(p)
  /\ pieceState \in [Pieces -> PieceState]
  /\ peersBitfield \in [Peers -> SUBSET Pieces]
  /\ peerPieceAffinity \in [Peers -> Pieces \cup {NoPiece}]
  /\ numPiecesCompleted \in Nat
  /\ writeQueue \in Seq(Pieces)

(***************************************************************************)
(* The four records of `piece p is being assembled' agree: its state, its  *)
(* key in piece_buffer_map_, a slot no other piece has, and the slot's     *)
(* empty flag.  A slot that only one of them forgets is lost for ever or   *)
(* shared by two pieces.                                                   *)
(***************************************************************************)
BufferConsistent ==
  /\ \A p \in Pieces :
       p \in PiecesInBuffer <=> pieceState[p] \in {"BUFFERED", "ALL_REQUESTED"}
  /\ \A p, r \in PiecesInBuffer :
       pieceBufferMap[p] = pieceBufferMap[r] => p = r
  /\ \A s \in Slots :
       buffer[s].empty <=> \A p \in PiecesInBuffer : pieceBufferMap[p] # s

\* add_piece_to_buffer scans for an empty slot only because is_full, which
\* counts map entries, said no; it must find one, or it indexes with -1.
AddFindsSlot == IsFull \/ EmptySlots # {}

(***************************************************************************)
(* A peer is bound only to a piece that is in the buffer and is not marked *)
(* ALL_REQUESTED: else get_block_index_to_retrieve fails its assertion, or *)
(* the peer asks again and again for a piece it cannot help with.          *)
(***************************************************************************)
AffinityLive ==
  \A q \in Peers : peerPieceAffinity[q] # NoPiece =>
     pieceState[peerPieceAffinity[q]] = "BUFFERED"

(***************************************************************************)
(* A piece leaves the buffer in the very call that fills its last block,   *)
(* so one that is in it still waits for a block; and ALL_REQUESTED means   *)
(* what it says, so that forgetting the open requests (the only way such a *)
(* piece is ever asked for again) always uncovers one.                     *)
(***************************************************************************)
BufferedPieceWaits ==
  \A p \in PiecesInBuffer :
    LET blocks == buffer[pieceBufferMap[p]].blocks
    IN /\ ~IsCompleted(blocks)
       /\ pieceState[p] = "ALL_REQUESTED" => AllRequestedOrCompleted(blocks)

(***************************************************************************)
(* The writer thread ends after num_pieces writes and the client after     *)
(* num_pieces completions: each completed piece must be queued and counted *)
(* exactly once, whatever late and duplicate blocks arrive.                *)
(***************************************************************************)
SavedExactlyOnce ==
  /\ \A i, j \in 1 .. Len(writeQueue) : writeQueue[i] = writeQueue[j] => i = j
  /\ Completed = {writeQueue[i] : i \in 1 .. Len(writeQueue)}
  /\ numPiecesCompleted = Len(writeQueue)

\* The refinement mapping.  Slots, requests and their states are not seen.
LedgerStatus ==
  [p \in Pieces |-> CASE pieceState[p] = "NOT_STARTED" -> "missing"
                      [] pieceState[p] = "COMPLETED" -> "saved"
                      [] OTHER -> "assembling"]

HeldBlocks(blocks) == {b \in DOMAIN blocks : blocks[b] = "HAVE"}

LedgerHeld ==
  [p \in Pieces |-> IF pieceState[p] = "COMPLETED" THEN Blocks(p)
                    ELSE IF p \in PiecesInBuffer
                    THEN HeldBlocks(buffer[pieceBufferMap[p]].blocks)
                    ELSE {}]

Ledger == INSTANCE PieceLedger WITH
  BlocksOf <- [p \in Pieces |-> Blocks(p)],
  Capacity <- BufferSize,
  status <- LedgerStatus,
  held <- LedgerHeld

(***************************************************************************)
(* Seen from outside, a PieceManager keeps the ledger: requests, repeated  *)
(* requests, duplicate and late blocks, wrong hashes and peers that come   *)
(* and go change nothing but what the ledger says they may.                *)
(***************************************************************************)
KeepsLedger == Ledger!LedgerSpec

\* A block that counts as HAVE has its bytes.  Wrong data breaks this; what
\* keeps it until then is the subject of module Download.
HeldBlocksAreGood ==
  \A p \in PiecesInBuffer :
    HeldBlocks(buffer[pieceBufferMap[p]].blocks) \subseteq buffer[pieceBufferMap[p]].good

(***************************************************************************)
(* A peer is bound only to a piece it announced: a binding that survived   *)
(* the peer's removal would be used again when the peer reconnects under   *)
(* the same id, before its new Bitfield.  (RepeatBitfield is FALSE: a      *)
(* second, smaller Bitfield does leave such a binding behind.)             *)
(***************************************************************************)
AffinityAnnounced ==
  \A q \in Peers : peerPieceAffinity[q] # NoPiece =>
     peerPieceAffinity[q] \in peersBitfield[q]

\* The inductive invariant.
IInv ==
  /\ TypeOK
  /\ BufferConsistent
  /\ AffinityLive
  /\ BufferedPieceWaits
  /\ SavedExactlyOnce

=============================================================================
