--------------------------- MODULE MCPieceManager ---------------------------
\* Small instances of PieceManager for TLC.
EXTENDS PieceManager, TLC

\* Two whole pieces of two blocks and a last piece of one.
MCNumBlocks == [p \in Pieces |-> IF p = NumPieces - 1 THEN 1 ELSE 2]

PeerSymmetry == Permutations(Peers)

=============================================================================
