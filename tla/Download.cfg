\* One steady peer and one that does what it likes.
SPECIFICATION FairDownloadSpec
CONSTANTS
  NumPieces = 2
  NumBlocks <- MCNumBlocks
  NormalNumBlocks = 2
  BufferSize = 1
  Peers = {q1, q2}
  Steady = {q1}
  MaxInFlight = 1
  Strays = {q2}
  CounterModulus = 3
  MaxAsked = 1
  RepeatBitfield = FALSE
  ByteBits = 3
  WordBytes = 2
  Protocol <- MCProtocol
  Reserved = 1
  HashBytes = 1
  IdBytes = 1
INVARIANTS
  DownloadTypeOK
  AffinityAnnounced
  AsksOnlyAnnounced
  GoodUntilSpoiled
PROPERTIES
  KeepsLedger
  RestartsOnlySpoiled
  DownloadCompletes
CHECK_DEADLOCK FALSE
