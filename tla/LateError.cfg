\* An exception while the writer thread runs.
SPECIFICATION FairSpec
CONSTANTS
  NumPieces = 1
  MayThrow = TRUE
PROPERTY
  ErrorEndsProcess
