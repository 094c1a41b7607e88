\* The client stops in every way, a late exception included, with pieces at
\* every place on their way to the files.
SPECIFICATION FairClientSpec
CONSTANTS
  NumPieces = 3
  MayThrow = TRUE
  Layouts <- MCLayouts
  HashLength = 2
  OffsetModulus = 8
INVARIANTS
  ClientTypeOK
  ThreadsJoined
  StopLosesOnlyQueued
PROPERTIES
  SavedReachesDisk
  StopEndsProcess
