\* Files of length zero, pieces across files, and a short last piece.
SPECIFICATION Spec
CONSTANTS
  Layouts <- MCLayouts
  HashLength = 2
  OffsetModulus = 8
INVARIANTS
  TypeOK
  StaysInFiles
  BytesInPlace
  FinishedIsOnDisk
