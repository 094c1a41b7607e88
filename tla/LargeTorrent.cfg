\* A torrent that is longer than the queue's offsets.
SPECIFICATION Spec
CONSTANTS
  Layouts <- MCLargeFile
  HashLength = 2
  OffsetModulus = 4
INVARIANT
  BytesInPlace
