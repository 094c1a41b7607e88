\* Four peers take turns in a pool of two.
SPECIFICATION FairSpec
CONSTANTS
  NumPeers = 4
  MaxNumConnectedPeers = 2
INVARIANTS
  TypeOK
  PoolMatchesStates
  PoolWithinLimit
  GivesUpOnlyExhausted
PROPERTIES
  KeepsConnections
  PeersRunOut
  CompletionEndsRun
