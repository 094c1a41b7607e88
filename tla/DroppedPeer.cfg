\* The remote peer closes the connection.
SPECIFICATION FairSpec
CONSTANTS
  MaxInFlight = 1
  CounterModulus = 4
  MaxMessages = 1
PROPERTY
  DroppedConnectionEnds
