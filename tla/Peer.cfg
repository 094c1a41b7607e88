\* One connection, two requests in flight, a remote peer that may do anything.
SPECIFICATION FairSpec
CONSTANTS
  MaxInFlight = 2
  CounterModulus = 4
  MaxMessages = 3
INVARIANTS
  TypeOK
  NoUseAfterExit
  PipelineBounded
PROPERTIES
  DropCompletes
  SilentPeerIsDropped
