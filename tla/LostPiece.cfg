\* The last piece may still be in the queue when the writer sees the flag.
SPECIFICATION ClientSpec
CONSTANTS
  NumPieces = 3
  MayThrow = FALSE
  Layouts <- MCLayouts
  HashLength = 2
  OffsetModulus = 8
INVARIANT
  AnnouncedIsOnDisk
