------------------------------- MODULE Blocks -------------------------------
(***************************************************************************)
(* How pieces are cut into the blocks that peers are asked for, and which  *)
(* data of a Piece message is accepted: the arithmetic of PieceManager and *)
(* Buffer, for a torrent l and a block length n.  PieceManager, which      *)
(* speaks of blocks by their numbers, rests on what is proved of it in     *)
(* FileWriter_proofs.  (32 bits are enough for everything inside a piece.) *)
(***************************************************************************)
EXTENDS FileWriter

\* num_blocks of PieceMetadata.
NumBlocksOf(l, n, p) == (LengthOf(l, p) + n - 1) \div n
BlocksOf(l, n, p) == 0 .. NumBlocksOf(l, n, p) - 1

\* The BlockRequest of select_next_block: its offset ...
BlockOffset(n, b) == b * n

\* ... and its length.  Only the last block of the last piece may be short.
CalculateBlockLength(l, n, p, b) ==
  IF p = l.numPieces - 1 /\ b >= LengthOf(l, p) \div n
  THEN LengthOf(l, p) % n
  ELSE n

\* The block whose state should_write_block and write_block_to_buffer look at.
BlockIndex(n, begin) == begin \div n

\* is_valid_block_data.
IsValidBlock(l, p, begin, length) ==
  /\ p \in Pieces(l)
  /\ begin < LengthOf(l, p)
  /\ length <= LengthOf(l, p) - begin

-----------------------------------------------------------------------------
\* What is asked for in block b of piece p.
Asked(l, n, p, b) ==
  BlockOffset(n, b) .. BlockOffset(n, b) + CalculateBlockLength(l, n, p, b) - 1

\* Pieces are whole numbers of blocks, but for the last.  Nothing in the code
\* sees to it.
WholeBlocks(l, n) == l.pieceLength % n = 0

=============================================================================
