------------------------ MODULE PieceManager_proofs ------------------------
(***************************************************************************)
(* Proofs about PieceManager, for every number of pieces, blocks, slots    *)
(* and peers.                                                              *)
(***************************************************************************)
EXTENDS PieceManager, FunctionTheorems, FiniteSetTheorems, TLAPS

-----------------------------------------------------------------------------
\* A block vector of any piece may lie in any slot.
LEMMA BlockVectorOfPiece ==
  ASSUME NEW p \in Pieces
  PROVE  [Blocks(p) -> BlockState] \subseteq BlockVectors
BY BufferAssumption DEF BlockVectors, Blocks

\* No piece has more blocks than the first one.
LEMMA BlocksBounded ==
  ASSUME NEW p \in Pieces
  PROVE  Blocks(p) \subseteq 0 .. NumBlocks[0] - 1
BY BufferAssumption, PieceManagerAssumption DEF Blocks, Pieces

\* NoPiece, NoBlock and NoSlot are no piece, block or slot.
LEMMA Sentinels ==
  /\ NoPiece \notin Pieces
  /\ NoSlot \notin Slots
  /\ \A p \in Pieces : NoBlock \notin Blocks(p)
BY DEF NoPiece, NoSlot, NoBlock, Pieces, Slots, Blocks

\* What get_block_index_to_retrieve does to the block states: it changes no
\* HAVE, and a vector that waits for a block still waits for one.
LEMMA MarkRequestedKeepsWaiting ==
  ASSUME NEW p \in Pieces,
         NEW blocks \in [Blocks(p) -> BlockState],
         NEW b \in Blocks(p),
         blocks[b] = "DONT_HAVE"
  PROVE  /\ MarkRequested(blocks, b) \in [Blocks(p) -> BlockState]
         /\ ~IsCompleted(MarkRequested(blocks, b))
BY DEF MarkRequested, IsCompleted, BlockState

\* clear_all_requested keeps every HAVE and makes none.
LEMMA ClearAllRequestedKeepsWaiting ==
  ASSUME NEW p \in Pieces,
         NEW blocks \in [Blocks(p) -> BlockState]
  PROVE  /\ ClearAllRequested(blocks) \in [Blocks(p) -> BlockState]
         /\ IsCompleted(ClearAllRequested(blocks)) <=> IsCompleted(blocks)
BY DEF ClearAllRequested, IsCompleted, BlockState

\* remove_affinity leaves bindings to other pieces alone, and none to p.
LEMMA RemoveAffinityType ==
  ASSUME NEW p \in Pieces,
         NEW affinity \in [Peers -> Pieces \cup {NoPiece}]
  PROVE  /\ RemoveAffinity(affinity, p) \in [Peers -> Pieces \cup {NoPiece}]
         /\ \A q \in Peers : RemoveAffinity(affinity, p)[q] # NoPiece =>
              /\ RemoveAffinity(affinity, p)[q] = affinity[q]
              /\ affinity[q] # p
BY Sentinels DEF RemoveAffinity

\* Asking for a block changes no held block: what is not HAVE stays not HAVE.
LEMMA HeldAfterRequest ==
  ASSUME NEW p \in Pieces,
         NEW blocks \in [Blocks(p) -> BlockState]
  PROVE  /\ \A b \in Blocks(p) : blocks[b] = "DONT_HAVE" =>
               HeldBlocks(MarkRequested(blocks, b)) = HeldBlocks(blocks)
         /\ HeldBlocks(ClearAllRequested(blocks)) = HeldBlocks(blocks)
         /\ HeldBlocks(blocks) \subseteq Blocks(p)
         /\ IsCompleted(blocks) <=> HeldBlocks(blocks) = Blocks(p)
BY DEF HeldBlocks, MarkRequested, ClearAllRequested, BlockState, IsCompleted

-----------------------------------------------------------------------------
\* What the three steps of select_next_block leave to its tail: p lies, not
\* yet completed, in slot s alone, and waits there for a block.
ReadyToRequest(p, s, piece, affinity) ==
  /\ p \in Pieces
  /\ s \in Slots
  /\ piece \in BufferPieces
  /\ ~piece.empty
  /\ piece.blocks \in [Blocks(p) -> BlockState]
  /\ ~IsCompleted(piece.blocks)
  /\ pieceState[p] # "COMPLETED"
  /\ pieceBufferMap[p] \in {s, NoSlot}
  /\ \A r \in PiecesInBuffer : pieceBufferMap[r] = s => r = p
  /\ affinity \in [Peers -> Pieces \cup {NoPiece}]
  /\ \A q \in Peers : affinity[q] # NoPiece =>
        affinity[q] = p \/ pieceState[affinity[q]] = "BUFFERED"

\* The tail preserves the inductive invariant.
LEMMA RequestBlockKeepsIInv ==
  ASSUME IInv,
         NEW p, NEW s, NEW piece, NEW affinity, NEW b,
         ReadyToRequest(p, s, piece, affinity),
         b \in Blocks(p) \cup {NoBlock},
         pieceBufferMap' = [pieceBufferMap EXCEPT ![p] = s],
         RequestBlock(p, s, piece, "BUFFERED", affinity, b)
  PROVE  IInv'
<1> USE DEF ReadyToRequest
<1> DEFINE after == IF b = NoBlock THEN piece.blocks ELSE MarkRequested(piece.blocks, b)
           done == AllRequestedOrCompleted(after)
<1>1. /\ b = NoBlock \/ (b \in Blocks(p) /\ piece.blocks[b] = "DONT_HAVE")
      /\ buffer' = [buffer EXCEPT ![s] = [piece EXCEPT !.blocks = after]]
      /\ pieceState' = [pieceState EXCEPT ![p] =
                          IF done THEN "ALL_REQUESTED" ELSE "BUFFERED"]
      /\ peerPieceAffinity' = IF done THEN RemoveAffinity(affinity, p) ELSE affinity
      /\ UNCHANGED <<peersBitfield, numPiecesCompleted, writeQueue>>
  BY DEF RequestBlock, IsBlockToRetrieve, FirstIn
<1>2. after \in [Blocks(p) -> BlockState] /\ ~IsCompleted(after)
  BY <1>1, MarkRequestedKeepsWaiting, Sentinels
<1>3. /\ buffer'[s] = [piece EXCEPT !.blocks = after]
      /\ \A t \in Slots : t # s => buffer'[t] = buffer[t]
      /\ buffer'[s].blocks = after
      /\ buffer'[s].empty = piece.empty
      /\ buffer'[s] \in BufferPieces
      /\ buffer' \in [Slots -> BufferPieces]
  <2>1. after \in BlockVectors
    BY <1>2, BlockVectorOfPiece
  <2>2. [piece EXCEPT !.blocks = after] \in BufferPieces
    BY <2>1 DEF BufferPieces
  <2> QED
    BY <1>1, <2>2 DEF IInv, TypeOK, BufferPieces
<1>4. /\ pieceBufferMap'[p] = s
      /\ \A r \in Pieces : r # p => pieceBufferMap'[r] = pieceBufferMap[r]
      /\ pieceBufferMap' \in [Pieces -> Slots \cup {NoSlot}]
      /\ PiecesInBuffer' = PiecesInBuffer \cup {p}
  BY Sentinels DEF IInv, TypeOK, PiecesInBuffer
<1>4a. \A r \in PiecesInBuffer' : r # p =>
        /\ r \in PiecesInBuffer
        /\ pieceBufferMap'[r] = pieceBufferMap[r]
        /\ pieceBufferMap[r] \in Slots \ {s}
        /\ buffer'[pieceBufferMap'[r]] = buffer[pieceBufferMap[r]]
  BY <1>3, <1>4 DEF IInv, TypeOK, PiecesInBuffer
<1>5. /\ pieceState'[p] = IF done THEN "ALL_REQUESTED" ELSE "BUFFERED"
      /\ \A r \in Pieces : r # p => pieceState'[r] = pieceState[r]
      /\ pieceState' \in [Pieces -> PieceState]
  BY <1>1 DEF IInv, TypeOK, PieceState
<1>6. TypeOK'
  <2>1. peerPieceAffinity' \in [Peers -> Pieces \cup {NoPiece}]
    BY <1>1, RemoveAffinityType
  <2>2. \A r \in PiecesInBuffer' : DOMAIN buffer'[pieceBufferMap'[r]].blocks = Blocks(r)
    <3> SUFFICES ASSUME NEW r \in PiecesInBuffer'
                 PROVE  DOMAIN buffer'[pieceBufferMap'[r]].blocks = Blocks(r)
      OBVIOUS
    <3>1. CASE r = p
      BY <3>1, <1>2, <1>3, <1>4
    <3>2. CASE r # p
      BY <3>2, <1>4a DEF IInv, TypeOK
    <3> QED
      BY <3>1, <3>2
  <2> QED
    BY <1>1, <1>3, <1>4, <1>5, <2>1, <2>2 DEF IInv, TypeOK
<1>7. BufferConsistent'
  <2>1. \A r \in Pieces :
          r \in PiecesInBuffer' <=> pieceState'[r] \in {"BUFFERED", "ALL_REQUESTED"}
    BY <1>4, <1>5 DEF IInv, BufferConsistent
  <2>2. \A r, t \in PiecesInBuffer' : pieceBufferMap'[r] = pieceBufferMap'[t] => r = t
    BY <1>4 DEF IInv, BufferConsistent, PiecesInBuffer
  <2>3. \A t \in Slots :
          buffer'[t].empty <=> \A r \in PiecesInBuffer' : pieceBufferMap'[r] # t
    <3> SUFFICES ASSUME NEW t \in Slots
                 PROVE  buffer'[t].empty <=>
                          \A r \in PiecesInBuffer' : pieceBufferMap'[r] # t
      OBVIOUS
    <3>1. CASE t = s
      BY <3>1, <1>3, <1>4
    <3>2. CASE t # s
      <4>1. buffer'[t] = buffer[t]
        BY <3>2, <1>3
      <4>2. (\A r \in PiecesInBuffer' : pieceBufferMap'[r] # t)
              <=> (\A r \in PiecesInBuffer : pieceBufferMap[r] # t)
        BY <3>2, <1>4, <1>4a, Sentinels DEF PiecesInBuffer
      <4> QED
        BY <4>1, <4>2 DEF IInv, BufferConsistent
    <3> QED
      BY <3>1, <3>2
  <2> QED
    BY <2>1, <2>2, <2>3 DEF BufferConsistent
<1>8. AffinityLive'
  <2> SUFFICES ASSUME NEW q \in Peers, peerPieceAffinity'[q] # NoPiece
               PROVE  pieceState'[peerPieceAffinity'[q]] = "BUFFERED"
    BY DEF AffinityLive
  <2>1. CASE done
    BY <2>1, <1>1, <1>5, RemoveAffinityType
  <2>2. CASE ~done
    BY <2>2, <1>1, <1>5
  <2> QED
    BY <2>1, <2>2
<1>9. BufferedPieceWaits'
  <2> SUFFICES ASSUME NEW r \in PiecesInBuffer'
               PROVE  LET blocks == buffer'[pieceBufferMap'[r]].blocks
                      IN /\ ~IsCompleted(blocks)
                         /\ pieceState'[r] = "ALL_REQUESTED" =>
                              AllRequestedOrCompleted(blocks)
    BY DEF BufferedPieceWaits, IsCompleted, AllRequestedOrCompleted
  <2>1. CASE r = p
    BY <2>1, <1>2, <1>3, <1>4, <1>5
  <2>2. CASE r # p
    BY <2>2, <1>4a, <1>5 DEF IInv, BufferedPieceWaits, PiecesInBuffer
  <2> QED
    BY <2>1, <2>2
<1>10. SavedExactlyOnce'
  <2>1. Completed' = Completed
    BY <1>5 DEF Completed
  <2> QED
    BY <1>1, <2>1 DEF IInv, SavedExactlyOnce
<1> QED
  BY <1>6, <1>7, <1>8, <1>9, <1>10 DEF IInv

-----------------------------------------------------------------------------
\* Where the piece in a slot lies, what it is, and what it waits for.
LEMMA PieceInBuffer ==
  ASSUME IInv,
         NEW p \in PiecesInBuffer
  PROVE  /\ p \in Pieces
         /\ pieceBufferMap[p] \in Slots
         /\ buffer[pieceBufferMap[p]] \in BufferPieces
         /\ ~buffer[pieceBufferMap[p]].empty
         /\ buffer[pieceBufferMap[p]].blocks \in [Blocks(p) -> BlockState]
         /\ ~IsCompleted(buffer[pieceBufferMap[p]].blocks)
         /\ pieceState[p] \in {"BUFFERED", "ALL_REQUESTED"}
         /\ \A r \in PiecesInBuffer : pieceBufferMap[r] = pieceBufferMap[p] => r = p
<1>1. /\ p \in Pieces
      /\ pieceBufferMap[p] \in Slots
      /\ pieceState[p] \in {"BUFFERED", "ALL_REQUESTED"}
  BY DEF IInv, TypeOK, BufferConsistent, PiecesInBuffer
<1>2. buffer[pieceBufferMap[p]] \in BufferPieces /\ ~buffer[pieceBufferMap[p]].empty
  BY <1>1 DEF IInv, TypeOK, BufferConsistent
<1>3. buffer[pieceBufferMap[p]].blocks \in [Blocks(p) -> BlockState]
  <2>1. buffer[pieceBufferMap[p]].blocks \in BlockVectors
    BY <1>2 DEF BufferPieces
  <2>2. DOMAIN buffer[pieceBufferMap[p]].blocks = Blocks(p)
    BY DEF IInv, TypeOK
  <2> QED
    BY <2>1, <2>2 DEF BlockVectors
<1> QED
  BY <1>1, <1>2, <1>3 DEF IInv, BufferedPieceWaits, BufferConsistent

\* What select_next_block hands to its tail: a piece of the buffer with the
\* blocks it held before, or a piece nobody started, with none.
ChosenPiece(p, s, piece, affinity, b) ==
  /\ ReadyToRequest(p, s, piece, affinity)
  /\ pieceBufferMap' = [pieceBufferMap EXCEPT ![p] = s]
  /\ RequestBlock(p, s, piece, "BUFFERED", affinity, b)
  /\ \/ /\ p \in PiecesInBuffer
        /\ HeldBlocks(piece.blocks) = HeldBlocks(buffer[s].blocks)
        /\ piece.good = buffer[s].good
     \/ /\ pieceState[p] = "NOT_STARTED" /\ ~IsFull
        /\ HeldBlocks(piece.blocks) = {}

\* Each of the three steps of select_next_block chooses such a piece.
LEMMA SelectNextBlockChooses ==
  ASSUME IInv,
         NEW q \in Peers, NEW p \in Pieces, NEW b \in Blocks(p) \cup {NoBlock},
         SelectNextBlock(q, p, b)
  PROVE  \E s, piece, affinity : ChosenPiece(p, s, piece, affinity, b)
<1>1. CASE SelectAffinity(q, p, b)
  <2>1. pieceState[p] = "BUFFERED" /\ p \in PiecesInBuffer
    BY <1>1, Sentinels DEF SelectAffinity, IInv, AffinityLive, BufferConsistent
  <2>2. pieceBufferMap' = [pieceBufferMap EXCEPT ![p] = pieceBufferMap[p]]
    BY <1>1 DEF SelectAffinity, IInv, TypeOK
  <2>3. RequestBlock(p, pieceBufferMap[p], buffer[pieceBufferMap[p]], "BUFFERED",
                     peerPieceAffinity, b)
    BY <1>1, <2>1 DEF SelectAffinity
  <2>4. /\ peerPieceAffinity \in [Peers -> Pieces \cup {NoPiece}]
        /\ \A r \in Peers : peerPieceAffinity[r] # NoPiece =>
             pieceState[peerPieceAffinity[r]] = "BUFFERED"
    BY DEF IInv, TypeOK, AffinityLive
  <2>5. ReadyToRequest(p, pieceBufferMap[p], buffer[pieceBufferMap[p]], peerPieceAffinity)
    BY <2>1, <2>4, PieceInBuffer DEF ReadyToRequest
  <2>6. ChosenPiece(p, pieceBufferMap[p], buffer[pieceBufferMap[p]], peerPieceAffinity, b)
    BY <2>1, <2>2, <2>3, <2>5, PieceInBuffer DEF ChosenPiece
  <2> QED
    BY <2>6
<1>2. CASE SelectNewPiece(q, p, b)
  <2>1. pieceState[p] = "NOT_STARTED" /\ pieceBufferMap[p] = NoSlot
    BY <1>2 DEF SelectNewPiece, Startable, FirstIn, IInv, BufferConsistent, PiecesInBuffer
  <2>2. PICK s \in Slots :
          /\ s \in EmptySlots
          /\ pieceBufferMap' = [pieceBufferMap EXCEPT ![p] = s]
          /\ RequestBlock(p, s, NewBufferPiece(p, buffer[s]), "BUFFERED",
                          [peerPieceAffinity EXCEPT ![q] = p], b)
    BY <1>2 DEF SelectNewPiece, FirstIn
  <2>3. buffer[s] \in BufferPieces /\ buffer[s].empty
    BY <2>2 DEF EmptySlots, IInv, TypeOK
  <2>4. /\ NewBufferPiece(p, buffer[s]).blocks \in [Blocks(p) -> BlockState]
        /\ ~IsCompleted(NewBufferPiece(p, buffer[s]).blocks)
        /\ ~NewBufferPiece(p, buffer[s]).empty
        /\ NewBufferPiece(p, buffer[s]) \in BufferPieces
    <3>1. [i \in Blocks(p) |-> "DONT_HAVE"] \in [Blocks(p) -> BlockState]
      BY DEF BlockState
    <3>2. [i \in Blocks(p) |-> "DONT_HAVE"] \in BlockVectors
      BY <3>1, BlockVectorOfPiece
    <3>3. 0 \in Blocks(p)
      BY BufferAssumption DEF Blocks
    <3>4. ~IsCompleted([i \in Blocks(p) |-> "DONT_HAVE"])
      BY <3>3 DEF IsCompleted
    <3> QED
      BY <2>3, <3>1, <3>2, <3>4 DEF NewBufferPiece, BufferPieces
  <2>5. \A r \in PiecesInBuffer : pieceBufferMap[r] = s => r = p
    BY <2>3 DEF IInv, BufferConsistent
  <2>6. /\ [peerPieceAffinity EXCEPT ![q] = p] \in [Peers -> Pieces \cup {NoPiece}]
        /\ \A r \in Peers : [peerPieceAffinity EXCEPT ![q] = p][r] # NoPiece =>
             \/ [peerPieceAffinity EXCEPT ![q] = p][r] = p
             \/ pieceState[[peerPieceAffinity EXCEPT ![q] = p][r]] = "BUFFERED"
    BY DEF IInv, TypeOK, AffinityLive
  <2>7. ReadyToRequest(p, s, NewBufferPiece(p, buffer[s]),
                       [peerPieceAffinity EXCEPT ![q] = p])
    BY <2>1, <2>4, <2>5, <2>6 DEF ReadyToRequest
  <2>8. HeldBlocks(NewBufferPiece(p, buffer[s]).blocks) = {}
    BY <2>3 DEF HeldBlocks, NewBufferPiece, BufferPieces
  <2>9. ChosenPiece(p, s, NewBufferPiece(p, buffer[s]), [peerPieceAffinity EXCEPT ![q] = p], b)
    BY <1>2, <2>1, <2>2, <2>7, <2>8 DEF ChosenPiece, SelectNewPiece
  <2> QED
    BY <2>9
<1>3. CASE SelectFromBuffer(q, p, b)
  <2> DEFINE s == pieceBufferMap[p]
             stale == pieceState[p] = "ALL_REQUESTED"
             piece == [buffer[s] EXCEPT !.blocks =
                         IF stale THEN ClearAllRequested(@) ELSE @]
  <2>1. p \in PiecesInBuffer
    BY <1>3 DEF SelectFromBuffer
  <2>2. /\ pieceState[p] \in {"BUFFERED", "ALL_REQUESTED"}
        /\ s \in Slots
        /\ \A r \in PiecesInBuffer : pieceBufferMap[r] = s => r = p
    BY <2>1, PieceInBuffer
  <2>3. pieceBufferMap' = [pieceBufferMap EXCEPT ![p] = s]
    BY <1>3 DEF SelectFromBuffer, IInv, TypeOK
  <2>4. RequestBlock(p, s, piece, "BUFFERED", [peerPieceAffinity EXCEPT ![q] = p], b)
    BY <1>3, <2>2 DEF SelectFromBuffer
  <2>5. /\ piece.blocks \in [Blocks(p) -> BlockState]
        /\ ~IsCompleted(piece.blocks)
        /\ ~piece.empty
        /\ piece \in BufferPieces
        /\ HeldBlocks(piece.blocks) = HeldBlocks(buffer[s].blocks)
        /\ piece.good = buffer[s].good
    <3>1. /\ buffer[s] \in BufferPieces /\ ~buffer[s].empty
          /\ buffer[s].blocks \in [Blocks(p) -> BlockState]
          /\ ~IsCompleted(buffer[s].blocks)
      BY <2>1, PieceInBuffer
    <3>2. /\ piece.blocks =
               IF stale THEN ClearAllRequested(buffer[s].blocks) ELSE buffer[s].blocks
          /\ piece.empty = buffer[s].empty
          /\ piece.good = buffer[s].good
          /\ piece = [empty |-> piece.empty, blocks |-> piece.blocks, good |-> piece.good]
      BY <3>1 DEF BufferPieces
    <3>3. piece.blocks \in [Blocks(p) -> BlockState] /\ ~IsCompleted(piece.blocks)
      BY <3>1, <3>2, ClearAllRequestedKeepsWaiting
    <3>4. piece.blocks \in BlockVectors
      BY <3>3, BlockVectorOfPiece
    <3>5. HeldBlocks(piece.blocks) = HeldBlocks(buffer[s].blocks)
      BY <3>1, <3>2, HeldAfterRequest
    <3> HIDE DEF piece
    <3> QED
      BY <3>1, <3>2, <3>3, <3>4, <3>5 DEF BufferPieces
  <2>6. /\ [peerPieceAffinity EXCEPT ![q] = p] \in [Peers -> Pieces \cup {NoPiece}]
        /\ \A r \in Peers : [peerPieceAffinity EXCEPT ![q] = p][r] # NoPiece =>
             \/ [peerPieceAffinity EXCEPT ![q] = p][r] = p
             \/ pieceState[[peerPieceAffinity EXCEPT ![q] = p][r]] = "BUFFERED"
    BY DEF IInv, TypeOK, AffinityLive
  <2> HIDE DEF piece
  <2>7. ReadyToRequest(p, s, piece, [peerPieceAffinity EXCEPT ![q] = p])
    BY <2>2, <2>5, <2>6 DEF ReadyToRequest
  <2>8. ChosenPiece(p, s, piece, [peerPieceAffinity EXCEPT ![q] = p], b)
    BY <2>1, <2>3, <2>4, <2>5, <2>7 DEF ChosenPiece
  <2> HIDE DEF s
  <2> QED
    BY <2>8
<1> QED
  BY <1>1, <1>2, <1>3 DEF SelectNextBlock

\* select_next_block preserves the inductive invariant.
LEMMA SelectNextBlockKeepsIInv ==
  ASSUME IInv,
         NEW q \in Peers, NEW p \in Pieces, NEW b \in Blocks(p) \cup {NoBlock},
         SelectNextBlock(q, p, b)
  PROVE  IInv'
BY SelectNextBlockChooses, RequestBlockKeepsIInv DEF ChosenPiece

-----------------------------------------------------------------------------
\* Writing a block: what write_block_to_buffer leaves in the slot.
LEMMA WriteBlockToBufferType ==
  ASSUME NEW p \in Pieces,
         NEW bp \in BufferPieces,
         bp.blocks \in [Blocks(p) -> BlockState],
         NEW first \in Blocks(p), NEW last \in Blocks(p),
         NEW good \in SUBSET (first .. last)
  PROVE  LET piece == WriteBlockToBuffer(bp, first, last, good)
         IN /\ piece \in BufferPieces
            /\ piece.empty = bp.empty
            /\ piece.blocks = [bp.blocks EXCEPT ![first] = "HAVE"]
            /\ piece.blocks \in [Blocks(p) -> BlockState]
<1> DEFINE blocks == [bp.blocks EXCEPT ![first] = "HAVE"]
           right == (bp.good \ (first .. last)) \cup good
<1>1. blocks \in [Blocks(p) -> BlockState]
  BY DEF BlockState
<1>2. blocks \in BlockVectors
  BY <1>1, BlockVectorOfPiece
<1>3. right \in SUBSET (0 .. NumBlocks[0] - 1)
  <2>1. first .. last \subseteq Blocks(p)
    BY BufferAssumption DEF Blocks
  <2> QED
    BY <2>1, BlocksBounded DEF BufferPieces
<1>4. /\ WriteBlockToBuffer(bp, first, last, good)
             = [bp EXCEPT !.blocks = blocks, !.good = right]
      /\ WriteBlockToBuffer(bp, first, last, good).empty = bp.empty
      /\ WriteBlockToBuffer(bp, first, last, good).blocks = blocks
  BY DEF WriteBlockToBuffer, BufferPieces
<1> HIDE DEF blocks, right
<1>5. [bp EXCEPT !.blocks = blocks, !.good = right] \in BufferPieces
  BY <1>2, <1>3 DEF BufferPieces
<1> QED
  BY <1>1, <1>4, <1>5 DEF blocks

\* add_block preserves the inductive invariant.
LEMMA AddBlockKeepsIInv ==
  ASSUME IInv,
         NEW p, NEW first, NEW last,
         NEW good \in SUBSET (first .. last),
         AddBlock(p, first, last, good)
  PROVE  IInv'
<1> DEFINE s == pieceBufferMap[p]
           piece == WriteBlockToBuffer(buffer[s], first, last, good)
<1>1. /\ p \in Pieces /\ first \in Blocks(p) /\ last \in Blocks(p)
      /\ p \in PiecesInBuffer
      /\ peersBitfield' = peersBitfield
  BY DEF AddBlock, IsValidBlockData, ShouldWriteBlock, PiecesInBuffer
<1>2. /\ s \in Slots
      /\ buffer[s] \in BufferPieces
      /\ ~buffer[s].empty
      /\ buffer[s].blocks \in [Blocks(p) -> BlockState]
      /\ pieceState[p] \in {"BUFFERED", "ALL_REQUESTED"}
      /\ \A r \in PiecesInBuffer : pieceBufferMap[r] = s => r = p
  BY <1>1, PieceInBuffer
<1>3. /\ piece \in BufferPieces
      /\ ~piece.empty
      /\ piece.blocks = [buffer[s].blocks EXCEPT ![first] = "HAVE"]
      /\ piece.blocks \in [Blocks(p) -> BlockState]
  BY <1>1, <1>2, WriteBlockToBufferType
<1> HIDE DEF piece
<1>4. CASE ~IsCompleted(piece.blocks)
  <2>1. /\ buffer' = [buffer EXCEPT ![s] = piece]
        /\ UNCHANGED <<pieceBufferMap, pieceState, peerPieceAffinity,
                       numPiecesCompleted, writeQueue>>
    BY <1>4 DEF AddBlock, piece
  <2>2. /\ buffer' \in [Slots -> BufferPieces]
        /\ buffer'[s] = piece
        /\ \A t \in Slots : t # s => buffer'[t] = buffer[t]
    BY <2>1, <1>2, <1>3 DEF IInv, TypeOK
  <2>3. \A r \in PiecesInBuffer : r # p =>
          pieceBufferMap[r] \in Slots /\ buffer'[pieceBufferMap[r]] = buffer[pieceBufferMap[r]]
    BY <2>2, <1>2, PieceInBuffer
  <2>4. PiecesInBuffer' = PiecesInBuffer
    BY <2>1 DEF PiecesInBuffer
  <2>5. TypeOK'
    <3>1. \A r \in PiecesInBuffer : DOMAIN buffer'[pieceBufferMap[r]].blocks = Blocks(r)
      <4> SUFFICES ASSUME NEW r \in PiecesInBuffer
                   PROVE  DOMAIN buffer'[pieceBufferMap[r]].blocks = Blocks(r)
        OBVIOUS
      <4>1. CASE r = p
        BY <4>1, <1>3, <2>2
      <4>2. CASE r # p
        BY <4>2, <2>3 DEF IInv, TypeOK
      <4> QED
        BY <4>1, <4>2
    <3> QED
      BY <3>1, <2>1, <2>2, <2>4, <1>1 DEF IInv, TypeOK
  <2>6. BufferConsistent'
    <3>1. \A t \in Slots : buffer'[t].empty = buffer[t].empty
      BY <2>2, <1>2, <1>3 DEF BufferPieces
    <3> QED
      BY <3>1, <2>1, <2>4 DEF IInv, BufferConsistent
  <2>7. AffinityLive'
    BY <2>1 DEF IInv, AffinityLive
  <2>8. BufferedPieceWaits'
    <3> SUFFICES ASSUME NEW r \in PiecesInBuffer
                 PROVE  LET blocks == buffer'[pieceBufferMap[r]].blocks
                        IN /\ ~IsCompleted(blocks)
                           /\ pieceState[r] = "ALL_REQUESTED" =>
                                AllRequestedOrCompleted(blocks)
      BY <2>1, <2>4 DEF BufferedPieceWaits, IsCompleted, AllRequestedOrCompleted
    <3>1. CASE r = p
      <4>1. pieceState[p] = "ALL_REQUESTED" => AllRequestedOrCompleted(buffer[s].blocks)
        BY <1>1 DEF IInv, BufferedPieceWaits
      <4>2. pieceState[p] = "ALL_REQUESTED" => AllRequestedOrCompleted(piece.blocks)
        BY <4>1, <1>1, <1>2, <1>3 DEF AllRequestedOrCompleted
      <4> QED
        BY <3>1, <4>2, <1>4, <2>2
    <3>2. CASE r # p
      BY <3>2, <2>3 DEF IInv, BufferedPieceWaits
    <3> QED
      BY <3>1, <3>2
  <2>9. SavedExactlyOnce'
    BY <2>1 DEF IInv, SavedExactlyOnce, Completed
  <2> QED
    BY <2>5, <2>6, <2>7, <2>8, <2>9 DEF IInv
<1>5. CASE IsCompleted(piece.blocks)
  <2> DEFINE verified == IsVerifiedPiece(p, piece.good)
  <2>1. /\ FinishPiece(p, piece)
        /\ peerPieceAffinity' = RemoveAffinity(peerPieceAffinity, p)
        /\ buffer' = [buffer EXCEPT ![s] = [piece EXCEPT !.empty = TRUE]]
        /\ pieceBufferMap' = [pieceBufferMap EXCEPT ![p] = NoSlot]
    BY <1>5 DEF AddBlock, FinishPiece, piece
  <2>2. /\ buffer' \in [Slots -> BufferPieces]
        /\ buffer'[s].empty
        /\ \A t \in Slots : t # s => buffer'[t] = buffer[t]
    <3>1. [piece EXCEPT !.empty = TRUE] \in BufferPieces
      BY <1>3 DEF BufferPieces
    <3> QED
      BY <3>1, <2>1, <1>2, <1>3 DEF IInv, TypeOK, BufferPieces
  <2>3. /\ pieceBufferMap' \in [Pieces -> Slots \cup {NoSlot}]
        /\ PiecesInBuffer' = PiecesInBuffer \ {p}
        /\ \A r \in PiecesInBuffer' : pieceBufferMap'[r] = pieceBufferMap[r]
    BY <2>1, <1>1 DEF IInv, TypeOK, PiecesInBuffer
  <2>4. \A r \in PiecesInBuffer' :
          /\ pieceBufferMap[r] \in Slots \ {s}
          /\ buffer'[pieceBufferMap[r]] = buffer[pieceBufferMap[r]]
    BY <2>2, <2>3, <1>2, PieceInBuffer
  <2>5. /\ pieceState' \in [Pieces -> PieceState]
        /\ pieceState'[p] = IF verified THEN "COMPLETED" ELSE "NOT_STARTED"
        /\ \A r \in Pieces : r # p => pieceState'[r] = pieceState[r]
    BY <2>1, <1>1 DEF FinishPiece, IInv, TypeOK, PieceState
  <2>6. /\ writeQueue' \in Seq(Pieces)
        /\ numPiecesCompleted' \in Nat
        /\ verified => /\ writeQueue' = Append(writeQueue, p)
                       /\ numPiecesCompleted' = numPiecesCompleted + 1
        /\ ~verified => UNCHANGED <<numPiecesCompleted, writeQueue>>
    <3>1. writeQueue \in Seq(Pieces) /\ numPiecesCompleted \in Nat
      BY DEF IInv, TypeOK
    <3>2. CASE verified
      <4>1. /\ writeQueue' = Append(writeQueue, p)
            /\ numPiecesCompleted' = numPiecesCompleted + 1
        BY <2>1, <3>2 DEF FinishPiece
      <4> QED
        BY <4>1, <3>1, <3>2, <1>1
    <3>3. CASE ~verified
      BY <2>1, <3>1, <3>3 DEF FinishPiece
    <3> QED
      BY <3>2, <3>3
  <2>7. TypeOK'
    <3>1. peerPieceAffinity' \in [Peers -> Pieces \cup {NoPiece}]
      BY <2>1, <1>1, RemoveAffinityType DEF IInv, TypeOK
    <3> QED
      BY <3>1, <1>1, <2>2, <2>3, <2>4, <2>5, <2>6 DEF IInv, TypeOK
  <2>8. BufferConsistent'
    <3>1. \A r \in Pieces :
            r \in PiecesInBuffer' <=> pieceState'[r] \in {"BUFFERED", "ALL_REQUESTED"}
      BY <2>3, <2>5 DEF IInv, BufferConsistent
    <3>2. \A r, t \in PiecesInBuffer' : pieceBufferMap'[r] = pieceBufferMap'[t] => r = t
      BY <2>3 DEF IInv, BufferConsistent
    <3>3. \A t \in Slots :
            buffer'[t].empty <=> \A r \in PiecesInBuffer' : pieceBufferMap'[r] # t
      BY <1>2, <2>2, <2>3, <2>4 DEF IInv, BufferConsistent
    <3> QED
      BY <3>1, <3>2, <3>3 DEF BufferConsistent
  <2>9. AffinityLive'
    BY <2>1, <2>5, <1>1, RemoveAffinityType DEF IInv, TypeOK, AffinityLive
  <2>10. BufferedPieceWaits'
    BY <2>3, <2>4, <2>5 DEF IInv, BufferedPieceWaits, PiecesInBuffer
  <2>11. SavedExactlyOnce'
    <3>1. p \notin Completed
      BY <1>2 DEF Completed
    <3>2. CASE verified
      <4>1. Completed' = Completed \cup {p}
        BY <3>2, <2>5, <1>1 DEF Completed
      <4>2. writeQueue \in Seq(Pieces) /\ writeQueue' = Append(writeQueue, p)
        BY <3>2, <2>6 DEF IInv, TypeOK
      <4>3. /\ Len(writeQueue') = Len(writeQueue) + 1
            /\ writeQueue'[Len(writeQueue) + 1] = p
            /\ \A i \in 1 .. Len(writeQueue) : writeQueue'[i] = writeQueue[i]
        BY <4>2, <1>1
      <4>4. /\ Len(writeQueue) \in Nat
            /\ numPiecesCompleted = Len(writeQueue)
            /\ \A i \in 1 .. Len(writeQueue) : writeQueue[i] \in Completed
            /\ \A r \in Completed : \E i \in 1 .. Len(writeQueue) : writeQueue[i] = r
            /\ \A i, j \in 1 .. Len(writeQueue) : writeQueue[i] = writeQueue[j] => i = j
        BY <4>2 DEF IInv, SavedExactlyOnce
      <4>5. \A i, j \in 1 .. Len(writeQueue') : writeQueue'[i] = writeQueue'[j] => i = j
        BY <4>3, <4>4, <3>1
      <4>6. Completed' = {writeQueue'[i] : i \in 1 .. Len(writeQueue')}
        BY <4>1, <4>3, <4>4
      <4> QED
        BY <4>3, <4>4, <4>5, <4>6, <3>2, <2>6 DEF SavedExactlyOnce
    <3>3. CASE ~verified
      <4>1. Completed' = Completed
        BY <3>1, <3>3, <2>5, <1>1 DEF Completed
      <4> QED
        BY <4>1, <3>3, <2>6 DEF IInv, SavedExactlyOnce
    <3> QED
      BY <3>2, <3>3
  <2> QED
    BY <2>7, <2>8, <2>9, <2>10, <2>11 DEF IInv
<1> QED
  BY <1>4, <1>5

-----------------------------------------------------------------------------
\* update_piece_frequencies and remove_peer touch what is known of a peer only.
LEMMA PeerChangeKeepsIInv ==
  ASSUME IInv,
         NEW q \in Peers,
         \/ \E bitfield \in (SUBSET Pieces) \ {{}} : UpdatePieceFrequencies(q, bitfield)
         \/ RemovePeer(q)
  PROVE  IInv'
<1>1. /\ UNCHANGED <<buffer, pieceBufferMap, pieceState, numPiecesCompleted, writeQueue>>
      /\ peersBitfield' \in [Peers -> SUBSET Pieces]
      /\ peerPieceAffinity' \in {peerPieceAffinity,
                                 [peerPieceAffinity EXCEPT ![q] = NoPiece]}
  BY DEF UpdatePieceFrequencies, RemovePeer, IInv, TypeOK
<1>2. PiecesInBuffer' = PiecesInBuffer /\ Completed' = Completed
  BY <1>1 DEF PiecesInBuffer, Completed
<1>3. TypeOK' /\ AffinityLive'
  BY <1>1, <1>2 DEF IInv, TypeOK, AffinityLive
<1>4. BufferConsistent' /\ BufferedPieceWaits' /\ SavedExactlyOnce'
  BY <1>1, <1>2 DEF IInv, BufferConsistent, BufferedPieceWaits, SavedExactlyOnce,
                    IsCompleted, AllRequestedOrCompleted
<1> QED
  BY <1>3, <1>4 DEF IInv

\* Nothing is in the buffer when the client starts.
LEMMA InitIInv == Init => IInv
<1> SUFFICES ASSUME Init PROVE IInv
  OBVIOUS
<1>1. /\ buffer = [s \in Slots |-> EmptyBufferPiece]
      /\ pieceBufferMap = [p \in Pieces |-> NoSlot]
      /\ pieceState = [p \in Pieces |-> "NOT_STARTED"]
      /\ peersBitfield = [q \in Peers |-> {}]
      /\ peerPieceAffinity = [q \in Peers |-> NoPiece]
      /\ numPiecesCompleted = 0
      /\ writeQueue = <<>>
  BY DEF Init, BufferInit
<1>2. PiecesInBuffer = {} /\ Completed = {}
  BY <1>1 DEF PiecesInBuffer, Completed
<1>3. EmptyBufferPiece \in BufferPieces /\ EmptyBufferPiece.empty
  <2>1. [b \in 0 .. NormalNumBlocks - 1 |-> "DONT_HAVE"] \in BlockVectors
    BY DEF BlockVectors, BlockState
  <2> QED
    BY <2>1 DEF EmptyBufferPiece, BufferPieces
<1>4. TypeOK
  BY <1>1, <1>2, <1>3 DEF TypeOK, PieceState
<1>5. BufferConsistent
  BY <1>1, <1>2, <1>3 DEF BufferConsistent
<1>6. AffinityLive /\ BufferedPieceWaits /\ SavedExactlyOnce
  BY <1>1, <1>2 DEF AffinityLive, BufferedPieceWaits, SavedExactlyOnce
<1> QED
  BY <1>4, <1>5, <1>6 DEF IInv

\* Every step of the piece manager preserves the inductive invariant.
LEMMA NextKeepsIInv == IInv /\ [Next]_vars => IInv'
<1> SUFFICES ASSUME IInv, [Next]_vars PROVE IInv'
  OBVIOUS
<1>1. CASE \E q \in Peers, p \in Pieces :
             \E b \in Blocks(p) \cup {NoBlock} : SelectNextBlock(q, p, b)
  BY <1>1, SelectNextBlockKeepsIInv
<1>2. CASE BlockArrives
  BY <1>2, AddBlockKeepsIInv DEF BlockArrives
<1>3. CASE \E q \in Peers : \E bitfield \in (SUBSET Pieces) \ {{}} :
             UpdatePieceFrequencies(q, bitfield)
  BY <1>3, PeerChangeKeepsIInv
<1>4. CASE \E q \in Peers : RemovePeer(q)
  BY <1>4, PeerChangeKeepsIInv
<1>5. CASE UNCHANGED vars
  <2>1. PiecesInBuffer' = PiecesInBuffer /\ Completed' = Completed
    BY <1>5 DEF vars, PiecesInBuffer, Completed
  <2>2. TypeOK' /\ BufferConsistent' /\ AffinityLive'
    BY <1>5, <2>1 DEF vars, IInv, TypeOK, BufferConsistent, AffinityLive
  <2>3. BufferedPieceWaits' /\ SavedExactlyOnce'
    BY <1>5, <2>1 DEF vars, IInv, BufferedPieceWaits, SavedExactlyOnce,
                      IsCompleted, AllRequestedOrCompleted
  <2> QED
    BY <2>2, <2>3 DEF IInv
<1> QED
  BY <1>1, <1>2, <1>3, <1>4, <1>5 DEF Next

-----------------------------------------------------------------------------
\* The inductive invariant holds in every reachable state of a PieceManager,
\* whatever the peers send and however their calls interleave.
THEOREM Inductive == Spec => []IInv
<1>1. Init => IInv
  BY InitIInv
<1>2. IInv /\ [Next]_vars => IInv'
  BY NextKeepsIInv
<1> QED
  BY <1>1, <1>2, PTL DEF Spec

\* Every variable keeps the type its C++ member has, and a piece in the
\* buffer has as many block states as it has blocks.
THEOREM TypeCorrect == Spec => []TypeOK
<1>1. IInv => TypeOK
  BY DEF IInv
<1> QED
  BY <1>1, Inductive, PTL

\* pieces_, piece_buffer_map_ and the slots always agree on which pieces are
\* being assembled, and where.
THEOREM BufferStaysConsistent == Spec => []BufferConsistent
<1>1. IInv => BufferConsistent
  BY DEF IInv
<1> QED
  BY <1>1, Inductive, PTL

\* A peer's affinity always names a piece with requests still to be made.
THEOREM AffinityStaysLive == Spec => []AffinityLive
<1>1. IInv => AffinityLive
  BY DEF IInv
<1> QED
  BY <1>1, Inductive, PTL

\* A piece in the buffer always waits for a block, and ALL_REQUESTED is true.
THEOREM NoCompletedPieceInBuffer == Spec => []BufferedPieceWaits
<1>1. IInv => BufferedPieceWaits
  BY DEF IInv
<1> QED
  BY <1>1, Inductive, PTL

\* Each completed piece is queued for the writer, and counted, exactly once.
THEOREM EachPieceSavedOnce == Spec => []SavedExactlyOnce
<1>1. IInv => SavedExactlyOnce
  BY DEF IInv
<1> QED
  BY <1>1, Inductive, PTL

-----------------------------------------------------------------------------
\* The queue numbers the completed pieces: they are as many as it is long.
LEMMA CompletedAreCounted ==
  ASSUME IInv
  PROVE  /\ IsFiniteSet(Completed)
         /\ numPiecesCompleted = Cardinality(Completed)
         /\ numPiecesCompleted \in 0 .. NumPieces
         /\ numPiecesCompleted = NumPieces <=> Completed = Pieces
<1> DEFINE n == Len(writeQueue)
           piece == [i \in 1 .. n |-> writeQueue[i]]
<1>1. n \in Nat /\ numPiecesCompleted = n
  BY DEF IInv, TypeOK, SavedExactlyOnce
<1>2. piece \in Bijection(1 .. n, Completed)
  <2>1. piece \in [1 .. n -> Completed]
    BY DEF IInv, SavedExactlyOnce
  <2>2. \A r \in Completed : \E i \in 1 .. n : piece[i] = r
    BY DEF IInv, SavedExactlyOnce
  <2>3. \A i, j \in 1 .. n : piece[i] = piece[j] => i = j
    BY DEF IInv, SavedExactlyOnce
  <2> QED
    BY <2>1, <2>2, <2>3 DEF Bijection, Injection, Surjection, IsInjective
<1> HIDE DEF n
<1>3. IsFiniteSet(1 .. n) /\ Cardinality(1 .. n) = n
  <2>1. /\ IsFiniteSet(1 .. n)
        /\ Cardinality(1 .. n) = IF 1 > n THEN 0 ELSE n - 1 + 1
    BY <1>1, FS_Interval
  <2> QED
    BY <1>1, <2>1
<1>4. IsFiniteSet(Completed) /\ Cardinality(Completed) = n
  BY <1>2, <1>3, FS_Bijection DEF ExistsBijection
<1>5. IsFiniteSet(Pieces) /\ Cardinality(Pieces) = NumPieces
  BY BufferAssumption, FS_Interval DEF Pieces
<1>6. Completed \subseteq Pieces
  BY DEF Completed
<1>7. n <= NumPieces /\ (n = NumPieces => Completed = Pieces)
  BY <1>4, <1>5, <1>6, FS_Subset
<1> QED
  BY <1>1, <1>4, <1>5, <1>7, BufferAssumption

(***************************************************************************)
(* is_download_complete compares two numbers; it says that every piece has *)
(* been verified, and the number never exceeds the other.                  *)
(***************************************************************************)
THEOREM CompleteMeansAll ==
  Spec => [](/\ numPiecesCompleted \in 0 .. NumPieces
             /\ numPiecesCompleted = NumPieces <=> Completed = Pieces)
<1>1. IInv => /\ numPiecesCompleted \in 0 .. NumPieces
              /\ numPiecesCompleted = NumPieces <=> Completed = Pieces
  BY CompletedAreCounted
<1> QED
  BY <1>1, Inductive, PTL

\* What FileWriter and Shutdown take for granted of PieceManager.
FeedsWriter ==
  \E p \in Pieces \ Completed :
    /\ numPiecesCompleted < NumPieces
    /\ numPiecesCompleted' = numPiecesCompleted + 1
    /\ writeQueue' = Append(writeQueue, p)
    /\ Completed' = Completed \cup {p}

LEMMA StepFeedsWriter ==
  ASSUME IInv, [Next]_vars
  PROVE  FeedsWriter \/ UNCHANGED <<numPiecesCompleted, writeQueue, Completed>>
<1>1. IInv'
  BY NextKeepsIInv
<1>2. UNCHANGED writeQueue => UNCHANGED Completed
  BY <1>1 DEF IInv, SavedExactlyOnce
<1>3. CASE \E q \in Peers, p \in Pieces :
             \E b \in Blocks(p) \cup {NoBlock} : SelectNextBlock(q, p, b)
  <2>1. UNCHANGED <<numPiecesCompleted, writeQueue>>
    BY <1>3 DEF SelectNextBlock, SelectAffinity, SelectNewPiece,
                SelectFromBuffer, RequestBlock
  <2> QED
    BY <1>2, <2>1
<1>4. CASE BlockArrives
  <2>1. PICK p, first, last, good : AddBlock(p, first, last, good)
    BY <1>4 DEF BlockArrives
  <2> DEFINE piece == WriteBlockToBuffer(buffer[pieceBufferMap[p]], first, last, good)
  <2>2. p \in Pieces /\ p \in PiecesInBuffer
    BY <2>1 DEF AddBlock, IsValidBlockData, ShouldWriteBlock, PiecesInBuffer
  <2>3. pieceState \in [Pieces -> PieceState] /\ pieceState[p] # "COMPLETED"
    BY <2>2 DEF IInv, TypeOK, BufferConsistent
  <2>4. CASE ~IsCompleted(piece.blocks) \/ ~IsVerifiedPiece(p, piece.good)
    <3>1. UNCHANGED <<numPiecesCompleted, writeQueue>>
      BY <2>1, <2>4 DEF AddBlock, FinishPiece
    <3> QED
      BY <1>2, <3>1
  <2>5. CASE IsCompleted(piece.blocks) /\ IsVerifiedPiece(p, piece.good)
    <3>1. /\ writeQueue' = Append(writeQueue, p)
          /\ numPiecesCompleted' = numPiecesCompleted + 1
          /\ pieceState' = [pieceState EXCEPT ![p] = "COMPLETED"]
      BY <2>1, <2>5 DEF AddBlock, FinishPiece
    <3>2. p \notin Completed /\ Completed' = Completed \cup {p}
      BY <2>2, <2>3, <3>1 DEF Completed
    <3>3. numPiecesCompleted < NumPieces
      BY <2>2, <3>2, CompletedAreCounted, BufferAssumption
    <3> QED
      BY <2>2, <3>1, <3>2, <3>3 DEF FeedsWriter
  <2> QED
    BY <2>4, <2>5
<1>5. CASE \/ \E q \in Peers : \E bitfield \in (SUBSET Pieces) \ {{}} :
                UpdatePieceFrequencies(q, bitfield)
           \/ \E q \in Peers : RemovePeer(q)
           \/ UNCHANGED vars
  BY <1>2, <1>5 DEF UpdatePieceFrequencies, RemovePeer, vars
<1> QED
  BY <1>3, <1>4, <1>5 DEF Next

(***************************************************************************)
(* PieceManager feeds the writer as FileWriter and Shutdown take for       *)
(* granted: save_piece is called for a piece it was never called for       *)
(* before, with the count below its end and going up by one in the same    *)
(* call, and in no other way.                                              *)
(***************************************************************************)
THEOREM WriterIsFed ==
  Spec => [][FeedsWriter]_<<numPiecesCompleted, writeQueue, Completed>>
<1>1. IInv /\ [Next]_vars
        => [FeedsWriter]_<<numPiecesCompleted, writeQueue, Completed>>
  BY StepFeedsWriter
<1> QED
  BY <1>1, Inductive, PTL DEF Spec

-----------------------------------------------------------------------------
\* The slots, and so the pieces in them, are finitely many; a buffer whose
\* slots are all taken has as many pieces as slots.
LEMMA BufferCardinality ==
  ASSUME IInv
  PROVE  /\ IsFiniteSet(PiecesInBuffer)
         /\ Cardinality(PiecesInBuffer) \in Nat
         /\ Cardinality(PiecesInBuffer) <= BufferSize
         /\ EmptySlots = {} => Cardinality(PiecesInBuffer) = BufferSize
<1> DEFINE slotOf == [p \in PiecesInBuffer |-> pieceBufferMap[p]]
<1>1. IsFiniteSet(Slots) /\ Cardinality(Slots) = BufferSize
  BY BufferAssumption, FS_Interval DEF Slots
<1>2. slotOf \in Injection(PiecesInBuffer, Slots)
  <2>1. slotOf \in [PiecesInBuffer -> Slots]
    BY PieceInBuffer
  <2>2. \A p, r \in PiecesInBuffer : slotOf[p] = slotOf[r] => p = r
    BY DEF IInv, BufferConsistent
  <2> QED
    BY <2>1, <2>2 DEF Injection, IsInjective
<1>3. /\ IsFiniteSet(PiecesInBuffer)
      /\ Cardinality(PiecesInBuffer) <= Cardinality(Slots)
      /\ Cardinality(PiecesInBuffer) = Cardinality(Slots)
            <=> slotOf \in Surjection(PiecesInBuffer, Slots)
  BY <1>1, <1>2, FS_Injection
<1>4. Cardinality(PiecesInBuffer) \in Nat
  BY <1>3, FS_CardinalityType
<1>5. ASSUME EmptySlots = {} PROVE slotOf \in Surjection(PiecesInBuffer, Slots)
  <2>1. \A s \in Slots : \E p \in PiecesInBuffer : slotOf[p] = s
    BY <1>5 DEF EmptySlots, IInv, BufferConsistent
  <2> QED
    BY <1>2, <2>1 DEF Injection, Surjection
<1> QED
  BY <1>1, <1>3, <1>4, <1>5

\* add_piece_to_buffer never runs past the last slot without having found an
\* empty one.
THEOREM AddAlwaysFindsSlot == Spec => []AddFindsSlot
<1>1. IInv => AddFindsSlot
  BY BufferCardinality DEF AddFindsSlot, IsFull
<1> QED
  BY <1>1, Inductive, PTL

-----------------------------------------------------------------------------
\* The refinement of PieceLedger.

\* The tail of select_next_block, as the ledger sees it.
LEMMA RequestBlockLedger ==
  ASSUME IInv,
         NEW p, NEW s, NEW piece, NEW affinity, NEW b,
         ReadyToRequest(p, s, piece, affinity),
         b \in Blocks(p) \cup {NoBlock},
         pieceBufferMap' = [pieceBufferMap EXCEPT ![p] = s],
         RequestBlock(p, s, piece, "BUFFERED", affinity, b)
  PROVE  /\ LedgerStatus' = [LedgerStatus EXCEPT ![p] = "assembling"]
         /\ LedgerHeld' = [LedgerHeld EXCEPT ![p] = HeldBlocks(piece.blocks)]
<1> DEFINE after == IF b = NoBlock THEN piece.blocks ELSE MarkRequested(piece.blocks, b)
<1> USE DEF ReadyToRequest
<1>1. /\ b = NoBlock \/ (b \in Blocks(p) /\ piece.blocks[b] = "DONT_HAVE")
      /\ buffer' = [buffer EXCEPT ![s] = [piece EXCEPT !.blocks = after]]
      /\ pieceState'[p] \in {"ALL_REQUESTED", "BUFFERED"}
      /\ \A r \in Pieces : r # p => pieceState'[r] = pieceState[r]
  BY DEF RequestBlock, IsBlockToRetrieve, FirstIn, IInv, TypeOK
<1>2. HeldBlocks(after) = HeldBlocks(piece.blocks)
  BY <1>1, HeldAfterRequest
<1>3. /\ buffer'[s].blocks = after
      /\ \A t \in Slots : t # s => buffer'[t] = buffer[t]
  BY <1>1 DEF IInv, TypeOK, BufferPieces
<1>4. /\ pieceBufferMap'[p] = s
      /\ p \in PiecesInBuffer'
      /\ \A r \in Pieces : r # p =>
           /\ pieceBufferMap'[r] = pieceBufferMap[r]
           /\ r \in PiecesInBuffer' <=> r \in PiecesInBuffer
  BY Sentinels DEF IInv, TypeOK, PiecesInBuffer
<1>5. LedgerStatus' = [LedgerStatus EXCEPT ![p] = "assembling"]
  BY <1>1 DEF LedgerStatus
<1>6. LedgerHeld' = [LedgerHeld EXCEPT ![p] = HeldBlocks(piece.blocks)]
  <2>1. LedgerHeld'[p] = HeldBlocks(piece.blocks)
    BY <1>1, <1>2, <1>3, <1>4 DEF LedgerHeld
  <2>2. ASSUME NEW r \in Pieces, r # p PROVE LedgerHeld'[r] = LedgerHeld[r]
    <3>1. r \in PiecesInBuffer => buffer'[pieceBufferMap'[r]] = buffer[pieceBufferMap[r]]
      BY <2>2, <1>3, <1>4 DEF IInv, TypeOK, PiecesInBuffer
    <3> QED
      BY <2>2, <3>1, <1>1, <1>4 DEF LedgerHeld
  <2>3. LedgerHeld' = [r \in Pieces |-> LedgerHeld'[r]]
        /\ LedgerHeld = [r \in Pieces |-> LedgerHeld[r]]
    BY DEF LedgerHeld
  <2> QED
    BY <2>1, <2>2, <2>3
<1> QED
  BY <1>5, <1>6

\* What the ledger says of a piece in the buffer.
LEMMA LedgerOfBufferedPiece ==
  ASSUME IInv,
         NEW p \in PiecesInBuffer
  PROVE  /\ LedgerStatus[p] = "assembling"
         /\ LedgerHeld[p] = HeldBlocks(buffer[pieceBufferMap[p]].blocks)
BY PieceInBuffer DEF LedgerStatus, LedgerHeld

\* The ledger counts as the buffer does.
LEMMA SameCardinality ==
  ASSUME NEW S
  PROVE  Ledger!Cardinality(S) = Cardinality(S)
BY DEF Ledger!Cardinality, Cardinality

\* Only pieces in the buffer are being assembled.
LEMMA AssemblingIsBuffered == IInv => Ledger!Assembling = PiecesInBuffer
BY DEF Ledger!Assembling, LedgerStatus, PiecesInBuffer, IInv, TypeOK, BufferConsistent,
       PieceState

\* A request is a Start of the ledger, or nothing.
LEMMA SelectNextBlockLedger ==
  ASSUME IInv,
         NEW q \in Peers, NEW p \in Pieces, NEW b \in Blocks(p) \cup {NoBlock},
         SelectNextBlock(q, p, b)
  PROVE  Ledger!Start(p) \/ UNCHANGED <<LedgerStatus, LedgerHeld>>
<1>1. PICK s, piece, affinity : ChosenPiece(p, s, piece, affinity, b)
  BY SelectNextBlockChooses
<1>2. /\ LedgerStatus' = [LedgerStatus EXCEPT ![p] = "assembling"]
      /\ LedgerHeld' = [LedgerHeld EXCEPT ![p] = HeldBlocks(piece.blocks)]
  BY <1>1, RequestBlockLedger DEF ChosenPiece
<1>3. /\ LedgerStatus = [LedgerStatus EXCEPT ![p] = LedgerStatus[p]]
      /\ LedgerHeld = [LedgerHeld EXCEPT ![p] = LedgerHeld[p]]
  BY DEF LedgerStatus, LedgerHeld
<1>4. CASE /\ p \in PiecesInBuffer
           /\ HeldBlocks(piece.blocks) = HeldBlocks(buffer[s].blocks)
  <2>1. s = pieceBufferMap[p]
    BY <1>1, <1>4 DEF ChosenPiece, ReadyToRequest, PiecesInBuffer
  <2> QED
    BY <1>2, <1>3, <1>4, <2>1, LedgerOfBufferedPiece
<1>5. CASE /\ pieceState[p] = "NOT_STARTED" /\ ~IsFull
           /\ HeldBlocks(piece.blocks) = {}
  <2>1. LedgerStatus[p] = "missing" /\ LedgerHeld[p] = {}
    BY <1>5 DEF LedgerStatus, LedgerHeld, IInv, BufferConsistent
  <2>2. Ledger!Cardinality(Ledger!Assembling) < BufferSize
    BY <1>5, SameCardinality, AssemblingIsBuffered, BufferCardinality, BufferAssumption
    DEF IsFull
  <2> QED
    BY <1>2, <1>3, <1>5, <2>1, <2>2 DEF Ledger!Start
<1> QED
  BY <1>1, <1>4, <1>5 DEF ChosenPiece

\* A block that arrives is a Receive, a Save or a Reject of the ledger.
LEMMA AddBlockLedger ==
  ASSUME IInv,
         NEW p, NEW first, NEW last,
         NEW good \in SUBSET (first .. last),
         AddBlock(p, first, last, good)
  PROVE  /\ p \in Pieces /\ first \in Blocks(p)
         /\ Ledger!Receive(p, first) \/ Ledger!Save(p) \/ Ledger!Reject(p)
<1> DEFINE s == pieceBufferMap[p]
           piece == WriteBlockToBuffer(buffer[s], first, last, good)
           old == HeldBlocks(buffer[s].blocks)
           blocksOf == [r \in Pieces |-> Blocks(r)]
<1>1. /\ p \in Pieces /\ first \in Blocks(p) /\ last \in Blocks(p)
      /\ p \in PiecesInBuffer
      /\ buffer[s].blocks[first] # "HAVE"
  BY DEF AddBlock, IsValidBlockData, ShouldWriteBlock, PiecesInBuffer
<1>2. /\ s \in Slots
      /\ buffer[s] \in BufferPieces
      /\ buffer[s].blocks \in [Blocks(p) -> BlockState]
      /\ pieceState[p] \in {"BUFFERED", "ALL_REQUESTED"}
      /\ \A r \in PiecesInBuffer : pieceBufferMap[r] = s => r = p
  BY <1>1, PieceInBuffer
<1>3. /\ piece \in BufferPieces
      /\ piece.blocks = [buffer[s].blocks EXCEPT ![first] = "HAVE"]
      /\ piece.blocks \in [Blocks(p) -> BlockState]
  BY <1>1, <1>2, WriteBlockToBufferType
<1> HIDE DEF piece
<1>4. /\ HeldBlocks(piece.blocks) = old \cup {first}
      /\ first \in blocksOf[p] \ old
      /\ IsCompleted(piece.blocks) <=> old \cup {first} = blocksOf[p]
  <2>1. HeldBlocks(piece.blocks) = old \cup {first} /\ first \notin old
    BY <1>1, <1>2, <1>3 DEF HeldBlocks
  <2> QED
    BY <2>1, <1>1, <1>3, HeldAfterRequest
<1>5. LedgerStatus[p] = "assembling" /\ LedgerHeld[p] = old
  BY <1>1, LedgerOfBufferedPiece
<1> HIDE DEF old
<1>6. CASE ~IsCompleted(piece.blocks)
  <2>1. /\ buffer' = [buffer EXCEPT ![s] = piece]
        /\ UNCHANGED <<pieceBufferMap, pieceState>>
    BY <1>6 DEF AddBlock, piece
  <2>2. LedgerStatus' = LedgerStatus /\ PiecesInBuffer' = PiecesInBuffer
    BY <2>1 DEF LedgerStatus, PiecesInBuffer
  <2>3. LedgerHeld' = [LedgerHeld EXCEPT ![p] = LedgerHeld[p] \cup {first}]
    <3>1. LedgerHeld'[p] = old \cup {first}
      BY <1>1, <1>2, <1>4, <2>1, <2>2 DEF LedgerHeld, IInv, TypeOK
    <3>2. ASSUME NEW r \in Pieces, r # p PROVE LedgerHeld'[r] = LedgerHeld[r]
      BY <3>2, <1>2, <2>1, <2>2 DEF LedgerHeld
    <3>3. /\ LedgerHeld' = [r \in Pieces |-> LedgerHeld'[r]]
          /\ LedgerHeld = [r \in Pieces |-> LedgerHeld[r]]
      BY DEF LedgerHeld
    <3> QED
      BY <1>5, <3>1, <3>2, <3>3
  <2>4. Ledger!Receive(p, first)
    BY <1>4, <1>5, <1>6, <2>2, <2>3 DEF Ledger!Receive
  <2> QED
    BY <1>1, <2>4
<1>7. CASE IsCompleted(piece.blocks)
  <2> DEFINE verified == IsVerifiedPiece(p, piece.good)
             status == IF verified THEN "saved" ELSE "missing"
             held == IF verified THEN blocksOf[p] ELSE {}
  <2>1. /\ FinishPiece(p, piece)
        /\ buffer' = [buffer EXCEPT ![s] = [piece EXCEPT !.empty = TRUE]]
        /\ pieceBufferMap' = [pieceBufferMap EXCEPT ![p] = NoSlot]
    BY <1>7 DEF AddBlock, FinishPiece, piece
  <2>2. /\ pieceState'[p] = IF verified THEN "COMPLETED" ELSE "NOT_STARTED"
        /\ \A r \in Pieces : r # p => pieceState'[r] = pieceState[r]
    BY <2>1, <1>1 DEF FinishPiece, IInv, TypeOK
  <2>3. /\ p \notin PiecesInBuffer'
        /\ \A r \in Pieces : r # p => /\ pieceBufferMap'[r] = pieceBufferMap[r]
                                     /\ r \in PiecesInBuffer' <=> r \in PiecesInBuffer
    BY <2>1, <1>1 DEF IInv, TypeOK, PiecesInBuffer
  <2>4. LedgerStatus' = [LedgerStatus EXCEPT ![p] = status]
    BY <2>2, <1>1 DEF LedgerStatus
  <2>5. LedgerHeld' = [LedgerHeld EXCEPT ![p] = held]
    <3>1. LedgerHeld'[p] = held
      BY <1>1, <2>2, <2>3 DEF LedgerHeld
    <3>2. ASSUME NEW r \in Pieces, r # p PROVE LedgerHeld'[r] = LedgerHeld[r]
      BY <3>2, <1>2, <2>1, <2>2, <2>3 DEF LedgerHeld
    <3>3. /\ LedgerHeld' = [r \in Pieces |-> LedgerHeld'[r]]
          /\ LedgerHeld = [r \in Pieces |-> LedgerHeld[r]]
      BY DEF LedgerHeld
    <3> QED
      BY <3>1, <3>2, <3>3
  <2>6. Ledger!LastBlockMissing(p)
    BY <1>4, <1>5, <1>7 DEF Ledger!LastBlockMissing
  <2>7. Ledger!Save(p) \/ Ledger!Reject(p)
    BY <2>4, <2>5, <2>6 DEF Ledger!Save, Ledger!Reject
  <2> QED
    BY <1>1, <2>7
<1> QED
  BY <1>6, <1>7

\* Every PieceManager keeps the ledger: requests start pieces, blocks are
\* received once each, and the last block of a piece saves or rejects it.
THEOREM KeepingTheLedger == Spec => KeepsLedger
<1>1. Init => Ledger!LedgerInit
  BY DEF Init, BufferInit, Ledger!LedgerInit, LedgerStatus, LedgerHeld, PiecesInBuffer
<1>2. IInv /\ [Next]_vars => [Ledger!LedgerNext]_(Ledger!ledgerVars)
  <2> SUFFICES ASSUME IInv, [Next]_vars
               PROVE  Ledger!LedgerNext \/ UNCHANGED <<LedgerStatus, LedgerHeld>>
    BY DEF Ledger!ledgerVars
  <2>1. CASE \E q \in Peers, p \in Pieces :
               \E b \in Blocks(p) \cup {NoBlock} : SelectNextBlock(q, p, b)
    BY <2>1, SelectNextBlockLedger DEF Ledger!LedgerNext
  <2>2. CASE BlockArrives
    <3>1. PICK p, first, last : \E good \in SUBSET (first .. last) :
                                  AddBlock(p, first, last, good)
      BY <2>2 DEF BlockArrives
    <3> QED
      BY <3>1, AddBlockLedger DEF Ledger!LedgerNext
  <2>3. CASE \/ \E q \in Peers : \E bitfield \in (SUBSET Pieces) \ {{}} :
                  UpdatePieceFrequencies(q, bitfield)
             \/ \E q \in Peers : RemovePeer(q)
             \/ UNCHANGED vars
    <3>1. UNCHANGED <<buffer, pieceBufferMap, pieceState>>
      BY <2>3 DEF UpdatePieceFrequencies, RemovePeer, vars
    <3> QED
      BY <3>1 DEF LedgerStatus, LedgerHeld, PiecesInBuffer
  <2> QED
    BY <2>1, <2>2, <2>3 DEF Next
<1> QED
  BY <1>1, <1>2, Inductive, PTL DEF Spec, KeepsLedger, Ledger!LedgerSpec

-----------------------------------------------------------------------------
\* Steps that bring no wrong bytes, and one Bitfield a connection.

\* Asking for a block of one slot leaves the others, and their pieces, alone.
LEMMA SelectNextBlockKeepsGood ==
  ASSUME IInv, HeldBlocksAreGood,
         NEW q \in Peers, NEW p \in Pieces, NEW b \in Blocks(p) \cup {NoBlock},
         SelectNextBlock(q, p, b)
  PROVE  HeldBlocksAreGood' /\ pieceState'[p] # "NOT_STARTED"
<1>1. PICK s, piece, affinity : ChosenPiece(p, s, piece, affinity, b)
  BY SelectNextBlockChooses
<1> DEFINE after == IF b = NoBlock THEN piece.blocks ELSE MarkRequested(piece.blocks, b)
<1>2. /\ ReadyToRequest(p, s, piece, affinity)
      /\ pieceBufferMap' = [pieceBufferMap EXCEPT ![p] = s]
      /\ b = NoBlock \/ (b \in Blocks(p) /\ piece.blocks[b] = "DONT_HAVE")
      /\ buffer' = [buffer EXCEPT ![s] = [piece EXCEPT !.blocks = after]]
      /\ pieceState'[p] \in {"ALL_REQUESTED", "BUFFERED"}
  BY <1>1 DEF ChosenPiece, ReadyToRequest, RequestBlock, IsBlockToRetrieve, FirstIn,
              IInv, TypeOK
<1>3. HeldBlocks(after) = HeldBlocks(piece.blocks)
  BY <1>2, HeldAfterRequest DEF ReadyToRequest
<1>4. HeldBlocks(piece.blocks) \subseteq piece.good
  BY <1>1 DEF ChosenPiece, ReadyToRequest, HeldBlocksAreGood, PiecesInBuffer
<1>5. /\ buffer'[s].blocks = after /\ buffer'[s].good = piece.good
      /\ \A t \in Slots : t # s => buffer'[t] = buffer[t]
  BY <1>2 DEF ReadyToRequest, IInv, TypeOK, BufferPieces
<1>6. ASSUME NEW r \in PiecesInBuffer'
      PROVE  HeldBlocks(buffer'[pieceBufferMap'[r]].blocks)
               \subseteq buffer'[pieceBufferMap'[r]].good
  <2>1. CASE r = p
    BY <2>1, <1>2, <1>3, <1>4, <1>5 DEF ReadyToRequest, IInv, TypeOK
  <2>2. CASE r # p
    <3>1. r \in PiecesInBuffer /\ pieceBufferMap'[r] = pieceBufferMap[r]
      BY <2>2, <1>2 DEF PiecesInBuffer, IInv, TypeOK
    <3>2. buffer'[pieceBufferMap[r]] = buffer[pieceBufferMap[r]]
      BY <2>2, <3>1, <1>2, <1>5, PieceInBuffer DEF ReadyToRequest
    <3> QED
      BY <3>1, <3>2 DEF HeldBlocksAreGood
  <2> QED
    BY <2>1, <2>2
<1> QED
  BY <1>2, <1>6 DEF HeldBlocksAreGood, HeldBlocks

\* A block that brings its own bytes is good, and completes good pieces.
LEMMA AddBlockKeepsGood ==
  ASSUME IInv, HeldBlocksAreGood,
         NEW p, NEW first, NEW last, first \in first .. last,
         AddBlock(p, first, last, first .. last)
  PROVE  /\ HeldBlocksAreGood'
         /\ \A r \in Pieces : pieceState[r] # "NOT_STARTED" =>
                             pieceState'[r] # "NOT_STARTED"
<1> DEFINE s == pieceBufferMap[p]
           piece == WriteBlockToBuffer(buffer[s], first, last, first .. last)
<1>1. /\ p \in Pieces /\ first \in Blocks(p)
      /\ p \in PiecesInBuffer
  BY DEF AddBlock, IsValidBlockData, ShouldWriteBlock, PiecesInBuffer
<1>2. /\ s \in Slots
      /\ buffer[s] \in BufferPieces
      /\ buffer[s].blocks \in [Blocks(p) -> BlockState]
      /\ \A r \in PiecesInBuffer : pieceBufferMap[r] = s => r = p
  BY <1>1, PieceInBuffer
<1>4. /\ piece.blocks = [buffer[s].blocks EXCEPT ![first] = "HAVE"]
      /\ piece.blocks \in [Blocks(p) -> BlockState]
  BY <1>1, <1>2 DEF WriteBlockToBuffer, BufferPieces, BlockState
<1>5. buffer[s].good \subseteq piece.good /\ first \in piece.good
  BY <1>1, <1>2 DEF WriteBlockToBuffer, BufferPieces, Blocks
<1> HIDE DEF piece
<1>6. HeldBlocks(piece.blocks) \subseteq piece.good
  <2>1. HeldBlocks(buffer[s].blocks) \subseteq buffer[s].good
    BY <1>1 DEF HeldBlocksAreGood
  <2> QED
    BY <2>1, <1>1, <1>2, <1>4, <1>5 DEF HeldBlocks
<1>7. CASE ~IsCompleted(piece.blocks)
  <2>1. /\ buffer' = [buffer EXCEPT ![s] = piece]
        /\ UNCHANGED <<pieceBufferMap, pieceState>>
    BY <1>7 DEF AddBlock, piece
  <2>2. PiecesInBuffer' = PiecesInBuffer
    BY <2>1 DEF PiecesInBuffer
  <2>3. ASSUME NEW r \in PiecesInBuffer
        PROVE  HeldBlocks(buffer'[pieceBufferMap[r]].blocks)
                 \subseteq buffer'[pieceBufferMap[r]].good
    <3>1. CASE r = p
      BY <3>1, <2>1, <1>2, <1>6 DEF IInv, TypeOK
    <3>2. CASE r # p
      <4>1. buffer'[pieceBufferMap[r]] = buffer[pieceBufferMap[r]]
        BY <3>2, <2>1, <1>2 DEF IInv, TypeOK
      <4> QED
        BY <4>1 DEF HeldBlocksAreGood
    <3> QED
      BY <3>1, <3>2
  <2> QED
    BY <2>1, <2>2, <2>3 DEF HeldBlocksAreGood, HeldBlocks
<1>8. CASE IsCompleted(piece.blocks)
  <2>1. /\ FinishPiece(p, piece)
        /\ buffer' = [buffer EXCEPT ![s] = [piece EXCEPT !.empty = TRUE]]
        /\ pieceBufferMap' = [pieceBufferMap EXCEPT ![p] = NoSlot]
    BY <1>8 DEF AddBlock, FinishPiece, piece
  <2>2. IsVerifiedPiece(p, piece.good)
    BY <1>4, <1>6, <1>8 DEF IsVerifiedPiece, IsCompleted, HeldBlocks
  <2>3. pieceState' = [pieceState EXCEPT ![p] = "COMPLETED"]
    BY <2>1, <2>2 DEF FinishPiece
  <2>4. ASSUME NEW r \in PiecesInBuffer'
        PROVE  /\ r \in PiecesInBuffer
               /\ pieceBufferMap'[r] = pieceBufferMap[r]
               /\ buffer'[pieceBufferMap[r]] = buffer[pieceBufferMap[r]]
    <3>1. r # p /\ r \in PiecesInBuffer /\ pieceBufferMap'[r] = pieceBufferMap[r]
      BY <2>1, <1>1 DEF PiecesInBuffer, IInv, TypeOK
    <3> QED
      BY <3>1, <2>1, <1>2 DEF IInv, TypeOK
  <2>5. HeldBlocksAreGood'
    BY <2>4 DEF HeldBlocksAreGood, HeldBlocks
  <2> QED
    BY <2>3, <2>5 DEF IInv, TypeOK
<1> QED
  BY <1>7, <1>8

\* One Bitfield a connection: affinities name announced pieces only.
THEOREM AffinityIsAnnounced ==
  ASSUME RepeatBitfield = FALSE
  PROVE  Spec => []AffinityAnnounced
<1>1. Init => AffinityAnnounced
  BY DEF Init, AffinityAnnounced
<1>2. ASSUME IInv, AffinityAnnounced, [Next]_vars PROVE AffinityAnnounced'
  <2>1. CASE \E q \in Peers, p \in Pieces :
               \E b \in Blocks(p) \cup {NoBlock} : SelectNextBlock(q, p, b)
    <3>0. PICK q \in Peers, p \in Pieces :
            \E b \in Blocks(p) \cup {NoBlock} : SelectNextBlock(q, p, b)
      BY <2>1
    <3>1. PICK b \in Blocks(p) \cup {NoBlock} : SelectNextBlock(q, p, b)
      BY <3>0
    <3>2. PICK s, piece, st, affinity :
            /\ RequestBlock(p, s, piece, st, affinity, b)
            /\ affinity \in {peerPieceAffinity, [peerPieceAffinity EXCEPT ![q] = p]}
            /\ affinity = peerPieceAffinity \/ p \in peersBitfield[q]
      BY <3>1 DEF SelectNextBlock, SelectAffinity, SelectNewPiece, SelectFromBuffer,
                  FirstIn, Startable
    <3>3. /\ peersBitfield' = peersBitfield
          /\ peerPieceAffinity' \in {affinity, RemoveAffinity(affinity, p)}
      BY <3>2 DEF RequestBlock
    <3>4. \A r \in Peers : affinity[r] # NoPiece => affinity[r] \in peersBitfield[r]
      BY <1>2, <3>2 DEF AffinityAnnounced, IInv, TypeOK
    <3> QED
      BY <3>3, <3>4 DEF AffinityAnnounced, RemoveAffinity
  <2>2. CASE BlockArrives
    <3>1. /\ peersBitfield' = peersBitfield
          /\ \E p : peerPieceAffinity' \in {peerPieceAffinity,
                                            RemoveAffinity(peerPieceAffinity, p)}
      BY <2>2 DEF BlockArrives, AddBlock, FinishPiece
    <3> QED
      BY <1>2, <3>1 DEF AffinityAnnounced, RemoveAffinity
  <2>3. CASE \E q \in Peers : \E bitfield \in (SUBSET Pieces) \ {{}} :
               UpdatePieceFrequencies(q, bitfield)
    BY <1>2, <2>3 DEF UpdatePieceFrequencies, AffinityAnnounced, IInv, TypeOK
  <2>4. CASE \E q \in Peers : RemovePeer(q)
    BY <1>2, <2>4 DEF RemovePeer, AffinityAnnounced, IInv, TypeOK
  <2>5. CASE UNCHANGED vars
    BY <1>2, <2>5 DEF vars, AffinityAnnounced
  <2> QED
    BY <1>2, <2>1, <2>2, <2>3, <2>4, <2>5 DEF Next
<1> QED
  BY <1>1, <1>2, Inductive, PTL DEF Spec

=============================================================================
