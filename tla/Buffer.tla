------------------------------- MODULE Buffer -------------------------------
(***************************************************************************)
(* The piece buffer (class Buffer): a fixed array of BufferSize slots in   *)
(* which pieces are assembled block by block, and the map from a piece to  *)
(* the slot that holds it.  The operators below are the bodies of its      *)
(* methods, as functions of one slot; PieceManager EXTENDS this module and *)
(* calls them from its handlers, as the class PieceManager owns a Buffer.  *)
(*                                                                         *)
(* Data abstraction: the bytes of a slot are replaced by `good', the set   *)
(* of blocks whose bytes equal those of the piece being assembled.         *)
(***************************************************************************)
EXTENDS Integers, FiniteSets

CONSTANTS
  NumPieces,        \* pieces_.size()
  NumBlocks,        \* PieceMetadata::num_blocks of each piece
  NormalNumBlocks,  \* piece_length / block_length, the size slots start with
  BufferSize        \* buffer_size: DEFAULT_BUFFER_SIZE is 32

Pieces == 0 .. NumPieces - 1

ASSUME BufferAssumption ==
  /\ NumPieces \in Nat \ {0}
  /\ BufferSize \in Nat \ {0}
  /\ NormalNumBlocks \in Nat
  /\ NumBlocks \in [Pieces -> Nat \ {0}]

VARIABLES
  buffer,          \* buffer_: the BufferPiece in each slot
  pieceBufferMap   \* piece_buffer_map_: the slot of each piece, or NoSlot

bufferVars == <<buffer, pieceBufferMap>>

Slots == 0 .. BufferSize - 1
NoSlot == -1
Blocks(p) == 0 .. NumBlocks[p] - 1

BlockState == {"HAVE", "DONT_HAVE", "REQUESTED"}

\* blocks_state is as long as the piece the slot held last, or as it was
\* allocated.
BlockVectors ==
  UNION {[0 .. n - 1 -> BlockState] :
           n \in {NormalNumBlocks} \cup {NumBlocks[p] : p \in Pieces}}

BufferPieces ==
  [empty : BOOLEAN, blocks : BlockVectors, good : SUBSET (0 .. NumBlocks[0] - 1)]

\* x is what a scan from the low end of S finds first.
FirstIn(x, S) == x \in S /\ \A y \in S : x <= y

-----------------------------------------------------------------------------
\* struct BufferPiece, as the constructor of Buffer fills every slot.
EmptyBufferPiece ==
  [empty |-> TRUE,
   blocks |-> [b \in 0 .. NormalNumBlocks - 1 |-> "DONT_HAVE"],
   good |-> {}]

BufferInit ==
  /\ buffer = [s \in Slots |-> EmptyBufferPiece]
  /\ pieceBufferMap = [p \in Pieces |-> NoSlot]

\* get_pieces_in_buffer: the keys of the map.
PiecesInBuffer == {p \in Pieces : pieceBufferMap[p] # NoSlot}

\* is_full compares the size of the map with the number of slots.
IsFull == Cardinality(PiecesInBuffer) = BufferSize

EmptySlots == {s \in Slots : buffer[s].empty}

\* A faulty variant: resize keeps the old block states, and nothing else is
\* done about them.
NewBufferPieceNotReset(p, bp) ==
  [bp EXCEPT !.empty = FALSE,
             !.blocks = [b \in Blocks(p) |->
                           IF b \in DOMAIN @ THEN @[b] ELSE "DONT_HAVE"],
             !.good = {}]

\* add_piece_to_buffer: what becomes of bp, the first empty slot.  resize
\* keeps its old bytes and block states, so every state is then reset.
NewBufferPiece(p, bp) ==
  [bp EXCEPT !.empty = FALSE,
             !.blocks = [b \in Blocks(p) |-> "DONT_HAVE"],
             !.good = {}]

\* get_block_index_to_retrieve: the first block nobody has asked for ...
IsBlockToRetrieve(b, blocks) ==
  FirstIn(b, {i \in DOMAIN blocks : blocks[i] = "DONT_HAVE"})

\* ... is marked as requested ...
MarkRequested(blocks, b) == [blocks EXCEPT ![b] = "REQUESTED"]

\* ... and then the whole vector is examined.
AllRequestedOrCompleted(blocks) ==
  \A i \in DOMAIN blocks : blocks[i] \in {"REQUESTED", "HAVE"}

\* A faulty variant: the blocks that have arrived are forgotten too.
ClearAllBlocks(blocks) == [i \in DOMAIN blocks |-> "DONT_HAVE"]

\* A faulty variant: requests are remembered for ever.
ClearNothing(blocks) == blocks

\* clear_all_requested: requests without an answer are forgotten.
ClearAllRequested(blocks) ==
  [i \in DOMAIN blocks |->
     IF blocks[i] = "REQUESTED" THEN "DONT_HAVE" ELSE blocks[i]]

\* should_write_block, for data that starts in block b of piece p.
ShouldWriteBlock(b, p) ==
  /\ pieceBufferMap[p] # NoSlot
  /\ buffer[pieceBufferMap[p]].blocks[b] \in {"REQUESTED", "DONT_HAVE"}

\* write_block_to_buffer: the bytes land in blocks first .. last and leave
\* those of `good' right; only the block they start in becomes HAVE.
WriteBlockToBuffer(bp, first, last, good) ==
  [bp EXCEPT !.blocks[first] = "HAVE",
             !.good = (@ \ (first .. last)) \cup good]

IsCompleted(blocks) == \A i \in DOMAIN blocks : blocks[i] = "HAVE"

=============================================================================
