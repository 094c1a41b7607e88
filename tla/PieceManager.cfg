\* Peers may send any data, and Bitfield messages at any time.
SPECIFICATION Spec
CONSTANTS
  NumPieces = 3
  NumBlocks <- MCNumBlocks
  NormalNumBlocks = 2
  BufferSize = 2
  Peers = {q1, q2}
  RepeatBitfield = TRUE
SYMMETRY PeerSymmetry
INVARIANTS
  TypeOK
  BufferConsistent
  AddFindsSlot
  AffinityLive
  BufferedPieceWaits
  SavedExactlyOnce
