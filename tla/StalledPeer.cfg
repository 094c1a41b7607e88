\* A remote peer that forgets its requests when it chokes.
SPECIFICATION FairDownloadSpec
CONSTANTS
  NumPieces = 2
  NumBlocks <- MCNumBlocks
  NormalNumBlocks = 2
  BufferSize = 1
  Peers = {q1}
  Steady = {}
  MaxInFlight = 1
  Strays = {}
  CounterModulus = 3
  MaxAsked = 1
  RepeatBitfield = FALSE
  ByteBits = 3
  WordBytes = 2
  Protocol <- MCProtocol
  Reserved = 1
  HashBytes = 1
  IdBytes = 1
PROPERTY
  RequestsResume
CHECK_DEADLOCK FALSE
