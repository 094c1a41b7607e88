-------------------------- MODULE FileWriter_proofs --------------------------
(***************************************************************************)
(* Every byte to its place: for every torrent whose length a queued offset *)
(* can say, however its files and pieces are cut.  And that the blocks     *)
(* that peers are asked for are the pieces.                                *)
(***************************************************************************)
EXTENDS Blocks, TLAPS

-----------------------------------------------------------------------------
\* Remainders: the division of the standard module, and what it gives for a
\* number in a known multiple's range.
LEMMA Division ==
  ASSUME NEW t \in Nat, NEW n \in Nat \ {0}
  PROVE  t % n \in 0 .. n - 1 /\ t \div n \in Nat /\ t = (t \div n) * n + (t % n)
OBVIOUS

LEMMA NextMultiple ==
  ASSUME NEW p \in Nat, NEW q \in Nat, NEW n \in Nat \ {0}, p < q
  PROVE  p * n + n <= q * n
OBVIOUS

LEMMA Remainder ==
  ASSUME NEW t \in Nat, NEW n \in Nat \ {0}, NEW p \in Nat,
         p * n <= t, t < p * n + n
  PROVE  t % n = t - p * n
<1> DEFINE q == t \div n
           r == t % n
<1>1. q \in Nat /\ r \in 0 .. n - 1 /\ t = q * n + r
  BY Division
<1> HIDE DEF q, r
<1>2. p * n \in Nat /\ q * n \in Nat
  BY <1>1
<1>3. CASE p < q
  BY <1>1, <1>2, <1>3, NextMultiple
<1>4. CASE q < p
  BY <1>1, <1>2, <1>4, NextMultiple
<1>5. CASE p = q
  BY <1>1, <1>2, <1>5 DEF r
<1> QED
  BY <1>1, <1>3, <1>4, <1>5

-----------------------------------------------------------------------------
(***************************************************************************)
(* What a well-formed torrent says of its files and pieces.                *)
(***************************************************************************)
LEMMA SequenceOfNumbers ==
  ASSUME NEW s \in Seq(Nat)
  PROVE  /\ Len(s) \in Nat /\ DOMAIN s = 1 .. Len(s)
         /\ \A i \in 1 .. Len(s) : s[i] \in Nat
OBVIOUS

LEMMA FileFacts ==
  ASSUME NEW l \in Layouts
  PROVE  /\ TotalLength(l) \in Nat
         /\ l.bounds[1] = 0 /\ 1 \in Files(l)
         /\ Len(l.bounds) \in Nat
         /\ \A f \in Files(l) :
              /\ f \in Nat
              /\ l.bounds[f] \in Nat
              /\ FileLength(l, f) \in Nat
              /\ l.bounds[f + 1] = l.bounds[f] + FileLength(l, f)
              /\ l.bounds[f + 1] <= TotalLength(l)
              /\ l.bounds[f + 1] = TotalLength(l) \/ f + 1 \in Files(l)
<1>1. LayoutOK(l)
  BY FileWriterAssumption
<1>2. /\ l.bounds \in Seq(Nat) /\ Len(l.bounds) \in Nat /\ Len(l.bounds) > 1
      /\ DOMAIN l.bounds = 1 .. Len(l.bounds)
      /\ \A f \in 1 .. Len(l.bounds) : l.bounds[f] \in Nat
      /\ \A f, g \in 1 .. Len(l.bounds) : f <= g => l.bounds[f] <= l.bounds[g]
  <2>1. l.bounds \in Seq(Nat) /\ Len(l.bounds) > 1
    BY <1>1 DEF LayoutOK
  <2>2. /\ Len(l.bounds) \in Nat
        /\ DOMAIN l.bounds = 1 .. Len(l.bounds)
        /\ \A f \in 1 .. Len(l.bounds) : l.bounds[f] \in Nat
    BY <2>1, SequenceOfNumbers
  <2>3. \A f, g \in DOMAIN l.bounds : f <= g => l.bounds[f] <= l.bounds[g]
    BY <1>1 DEF LayoutOK
  <2> QED
    BY <2>1, <2>2, <2>3
<1>3. TotalLength(l) \in Nat
  BY <1>2 DEF TotalLength
<1>4. l.bounds[1] = 0 /\ 1 \in Files(l)
  BY <1>1, <1>2 DEF LayoutOK, Files
<1>5. ASSUME NEW f \in Files(l)
      PROVE  /\ f \in Nat
             /\ l.bounds[f] \in Nat
             /\ FileLength(l, f) \in Nat
             /\ l.bounds[f + 1] = l.bounds[f] + FileLength(l, f)
             /\ l.bounds[f + 1] <= TotalLength(l)
             /\ l.bounds[f + 1] = TotalLength(l) \/ f + 1 \in Files(l)
  <2>1. /\ f \in 1 .. Len(l.bounds) /\ f + 1 \in 1 .. Len(l.bounds)
        /\ Len(l.bounds) \in 1 .. Len(l.bounds) /\ f <= f + 1
        /\ f + 1 <= Len(l.bounds)
    BY <1>2 DEF Files
  <2>2. /\ l.bounds[f] \in Nat /\ l.bounds[f + 1] \in Nat
        /\ l.bounds[f] <= l.bounds[f + 1]
        /\ l.bounds[f + 1] <= TotalLength(l)
    BY <1>2, <2>1 DEF TotalLength
  <2>3. l.bounds[f + 1] = TotalLength(l) \/ f + 1 \in Files(l)
    BY <1>2, <2>1 DEF Files, TotalLength
  <2> QED
    BY <2>1, <2>2, <2>3 DEF FileLength
<1> QED
  BY <1>2, <1>3, <1>4, <1>5

LEMMA FilesApart ==
  ASSUME NEW l \in Layouts, NEW f \in Files(l), NEW g \in Files(l), f < g
  PROVE  l.bounds[f + 1] <= l.bounds[g]
<1>1. LayoutOK(l)
  BY FileWriterAssumption
<1>2. f + 1 \in DOMAIN l.bounds /\ g \in DOMAIN l.bounds /\ f + 1 <= g
  BY <1>1 DEF LayoutOK, Files
<1> QED
  BY <1>1, <1>2 DEF LayoutOK

LEMMA CellFacts ==
  ASSUME NEW l \in Layouts, NEW c \in Cells(l)
  PROVE  /\ c[1] \in Files(l) /\ c[2] \in Nat
         /\ c[2] < FileLength(l, c[1])
         /\ Position(l, c) \in 0 .. TotalLength(l) - 1
<1>1. /\ c[1] \in Files(l) /\ c[2] \in 0 .. TotalLength(l)
      /\ c[2] < FileLength(l, c[1])
  BY DEF Cells
<1>2. c[2] \in Nat
  BY <1>1, FileFacts
<1>3. /\ l.bounds[c[1]] \in Nat /\ FileLength(l, c[1]) \in Nat
      /\ l.bounds[c[1]] + FileLength(l, c[1]) <= TotalLength(l)
      /\ TotalLength(l) \in Nat
  BY <1>1, FileFacts
<1> QED
  BY <1>1, <1>2, <1>3 DEF Position

\* A position belongs to one file.
LEMMA FileOfPosition ==
  ASSUME NEW l \in Layouts, NEW c \in Cells(l), NEW f \in Files(l),
         l.bounds[f] <= Position(l, c),
         Position(l, c) < l.bounds[f] + FileLength(l, f)
  PROVE  c[1] = f
<1>1. /\ c[1] \in Files(l) /\ c[2] \in Nat /\ c[2] < FileLength(l, c[1])
      /\ Position(l, c) = l.bounds[c[1]] + c[2]
  BY CellFacts DEF Position
<1>2. /\ c[1] \in Nat /\ f \in Nat
      /\ l.bounds[c[1]] \in Nat /\ l.bounds[f] \in Nat
      /\ FileLength(l, c[1]) \in Nat /\ FileLength(l, f) \in Nat
      /\ l.bounds[c[1] + 1] = l.bounds[c[1]] + FileLength(l, c[1])
      /\ l.bounds[f + 1] = l.bounds[f] + FileLength(l, f)
  BY <1>1, FileFacts
<1>3. CASE c[1] < f
  <2>1. l.bounds[c[1] + 1] <= l.bounds[f]
    BY <1>1, <1>3, FilesApart
  <2> QED
    BY <1>1, <1>2, <2>1
<1>4. CASE f < c[1]
  <2>1. l.bounds[f + 1] <= l.bounds[c[1]]
    BY <1>1, <1>4, FilesApart
  <2> QED
    BY <1>1, <1>2, <2>1
<1>5. c[1] \in Nat /\ f \in Nat
  BY <1>2
<1>6. c[1] < f \/ f < c[1] \/ c[1] = f
  BY <1>5
<1> QED
  BY <1>3, <1>4, <1>6

LEMMA PieceFacts ==
  ASSUME NEW l \in Layouts, NEW p \in Pieces(l)
  PROVE  /\ p \in Nat
         /\ PieceStart(l, p) \in Nat
         /\ LengthOf(l, p) \in Nat \ {0}
         /\ PieceStart(l, p) + LengthOf(l, p) <= TotalLength(l)
<1>1. LayoutOK(l)
  BY FileWriterAssumption
<1> DEFINE n == l.pieceLength
           t == TotalLength(l)
<1>2. /\ n \in Nat \ {0} /\ l.numPieces \in Nat /\ t \in Nat
      /\ p \in Nat /\ p * n < t /\ t <= l.numPieces * n
      /\ p = l.numPieces - 1 \/ p + 1 \in Pieces(l)
      /\ \A q \in Pieces(l) : q * n < t
  BY <1>1, FileFacts DEF LayoutOK, Pieces
<1>3. p * n \in Nat /\ (p + 1) * n = p * n + n /\ p + 1 \in Nat
  BY <1>2
<1> HIDE DEF n, t
<1>4. CASE p # l.numPieces - 1
  <2>1. p * n + n < t
    BY <1>2, <1>3, <1>4
  <2>2. LengthOf(l, p) = n
    BY <1>4 DEF LengthOf, n
  <2> QED
    BY <1>2, <1>3, <2>1, <2>2 DEF PieceStart, n, t
<1>5. CASE p = l.numPieces - 1
  <2>1. t <= p * n + n
    <3>1. l.numPieces = p + 1
      BY <1>2, <1>5
    <3> QED
      BY <1>2, <1>3, <3>1
  <2>2. CASE t = p * n + n
    <3>1. t % n = 0
      <4>1. t = (p + 1) * n /\ t < (p + 1) * n + n
        BY <1>2, <1>3, <2>2
      <4>2. t % n = t - (p + 1) * n
        BY <4>1, <1>2, <1>3, Remainder
      <4> QED
        BY <4>1, <4>2, <1>2
    <3>2. LengthOf(l, p) = n
      BY <3>1 DEF LengthOf, n, t
    <3> QED
      BY <1>2, <1>3, <2>2, <3>2 DEF PieceStart, n, t
  <2>3. CASE t # p * n + n
    <3>1. t % n = t - p * n
      <4>1. p * n <= t /\ t < p * n + n
        BY <1>2, <1>3, <2>1, <2>3
      <4> QED
        BY <4>1, <1>2, Remainder
    <3>2. t % n # 0
      BY <1>2, <1>3, <3>1
    <3>3. LengthOf(l, p) = t - p * n
      BY <1>5, <3>1, <3>2 DEF LengthOf, n, t
    <3> QED
      BY <1>2, <1>3, <3>3 DEF PieceStart, n, t
  <2> QED
    BY <2>2, <2>3
<1> QED
  BY <1>4, <1>5

LEMMA PieceNotLonger ==
  ASSUME NEW l \in Layouts, NEW p \in Pieces(l)
  PROVE  LengthOf(l, p) <= l.pieceLength
<1>1. l.pieceLength \in Nat \ {0} /\ TotalLength(l) \in Nat
  BY FileWriterAssumption, FileFacts DEF LayoutOK
<1>2. TotalLength(l) % l.pieceLength \in 0 .. l.pieceLength - 1
  BY <1>1, Division
<1> QED
  BY <1>1, <1>2 DEF LengthOf

\* Pieces do not overlap.
LEMMA PiecesApart ==
  ASSUME NEW l \in Layouts, NEW p \in Pieces(l), NEW q \in Pieces(l), p < q
  PROVE  PieceStart(l, p) + LengthOf(l, p) <= PieceStart(l, q)
<1>1. /\ p \in Nat /\ q \in Nat /\ LengthOf(l, p) \in Nat
      /\ PieceStart(l, p) \in Nat /\ PieceStart(l, q) \in Nat
      /\ LengthOf(l, p) <= l.pieceLength
  BY PieceFacts, PieceNotLonger
<1>2. l.pieceLength \in Nat \ {0}
  BY FileWriterAssumption DEF LayoutOK
<1>3. PieceStart(l, p) + l.pieceLength <= PieceStart(l, q)
  BY <1>1, <1>2, NextMultiple DEF PieceStart
<1> QED
  BY <1>1, <1>2, <1>3

LEMMA PieceOfCellIsOne ==
  ASSUME NEW l \in Layouts, NEW c \in Cells(l),
         NEW p \in Pieces(l), NEW q \in Pieces(l),
         InPiece(l, p, c), InPiece(l, q, c)
  PROVE  p = q
<1>1. /\ p \in Nat /\ q \in Nat
      /\ LengthOf(l, p) \in Nat /\ LengthOf(l, q) \in Nat
      /\ PieceStart(l, p) \in Nat /\ PieceStart(l, q) \in Nat
      /\ Position(l, c) \in Int
  BY PieceFacts, CellFacts, FileFacts
<1>2. ~(p < q)
  BY <1>1, PiecesApart DEF InPiece
<1>3. ~(q < p)
  BY <1>1, PiecesApart DEF InPiece
<1> QED
  BY <1>1, <1>2, <1>3

(***************************************************************************)
(* Every byte of the files belongs to a piece: with all pieces written no  *)
(* byte is missing.                                                        *)
(***************************************************************************)
LEMMA CellHasPiece ==
  ASSUME NEW l \in Layouts, NEW c \in Cells(l)
  PROVE  \E p \in Pieces(l) : InPiece(l, p, c)
<1> DEFINE n == l.pieceLength
           t == TotalLength(l)
           x == Position(l, c)
           p == x \div n
<1>1. /\ n \in Nat \ {0} /\ l.numPieces \in Nat /\ t \in Nat
      /\ t <= l.numPieces * n
      /\ x \in Nat /\ x < t
  BY FileWriterAssumption, FileFacts, CellFacts DEF LayoutOK
<1>2. x % n \in 0 .. n - 1 /\ p \in Nat /\ x = p * n + (x % n)
  BY <1>1, Division
<1> DEFINE r == x % n
<1> HIDE DEF n, t, x, p
<1>3. r \in 0 .. n - 1 /\ p \in Nat /\ x = p * n + r /\ p * n \in Nat
  BY <1>1, <1>2
<1>4. LengthOf(l, p) = IF p = l.numPieces - 1 /\ t % n # 0 THEN t % n ELSE n
  BY DEF LengthOf, n, t
<1> HIDE DEF r
<1>5. p < l.numPieces
  <2>1. CASE l.numPieces < p
    <3>1. l.numPieces * n + n <= p * n
      BY <1>1, <1>3, <2>1, NextMultiple
    <3>2. l.numPieces * n \in Nat
      BY <1>1
    <3> QED
      BY <1>1, <1>3, <3>1, <3>2
  <2>2. CASE l.numPieces = p
    BY <1>1, <1>3, <2>2
  <2> QED
    BY <1>1, <1>3, <2>1, <2>2
<1>6. p \in Pieces(l)
  BY <1>1, <1>3, <1>5 DEF Pieces
<1>7. x < p * n + LengthOf(l, p)
  <2>1. CASE p = l.numPieces - 1 /\ t % n # 0
    <3>1. l.numPieces = p + 1 /\ l.numPieces * n = p * n + n
      BY <1>1, <1>3, <2>1
    <3>2. p * n <= t /\ t <= p * n + n
      BY <1>1, <1>3, <3>1
    <3>3. t # p * n + n
      <4>1. ASSUME t = p * n + n PROVE FALSE
        <5>1. t = (p + 1) * n /\ t < (p + 1) * n + n /\ (p + 1) * n \in Nat
          BY <1>1, <1>3, <4>1
        <5>2. t % n = t - (p + 1) * n
          BY <5>1, <1>1, <1>3, Remainder
        <5> QED
          BY <5>1, <5>2, <2>1, <1>1
      <4> QED
        BY <4>1
    <3>4. t % n = t - p * n
      <4>1. t < p * n + n
        BY <1>1, <1>3, <3>2, <3>3
      <4> QED
        BY <1>1, <1>3, <3>2, <4>1, Remainder
    <3> QED
      BY <1>1, <1>3, <1>4, <2>1, <3>4
  <2>2. CASE ~(p = l.numPieces - 1 /\ t % n # 0)
    BY <1>1, <1>3, <1>4, <2>2
  <2> QED
    BY <2>1, <2>2
<1>8. PieceStart(l, p) = p * n
  BY DEF PieceStart, n
<1> QED
  BY <1>1, <1>3, <1>6, <1>7, <1>8 DEF InPiece, x

-----------------------------------------------------------------------------
\* Of values: every byte on a disk is where it belongs.
InPlace(l, d) == \A c \in Cells(l) : d[c] \in {NotWritten, Position(l, c)}

\* Everything from position a up to, not including, b is there.
Holds(l, d, a, b) ==
  \A c \in Cells(l) :
    a <= Position(l, c) /\ Position(l, c) < b => d[c] = Position(l, c)

\* A disk d after n bytes, from position a on, went to offset o of file f.
Put(l, f, o, n, a, d) ==
  [c \in Cells(l) |-> IF c[1] = f /\ c[2] \in o .. o + n - 1
                      THEN a + (c[2] - o) ELSE d[c]]

(***************************************************************************)
(* One chunk: n bytes of the torrent from position a on go to offset o of  *)
(* file f, which is where they belong.                                     *)
(***************************************************************************)
LEMMA Chunk ==
  ASSUME NEW l \in Layouts, NEW f \in Files(l), NEW o \in Nat, NEW n \in Nat,
         NEW a \in Nat, l.bounds[f] + o = a, o + n <= FileLength(l, f),
         NEW d, InPlace(l, d)
  PROVE  /\ InPlace(l, Put(l, f, o, n, a, d))
         /\ \A c \in Cells(l) :
              d[c] = Position(l, c) => Put(l, f, o, n, a, d)[c] = Position(l, c)
         /\ Holds(l, Put(l, f, o, n, a, d), a, a + n)
         /\ \A c \in Cells(l) :
              Put(l, f, o, n, a, d)[c] = d[c]
                \/ (a <= Position(l, c) /\ Position(l, c) < a + n)
<1> DEFINE e == Put(l, f, o, n, a, d)
<1>1. ASSUME NEW c \in Cells(l)
      PROVE  /\ e[c] \in {NotWritten, Position(l, c)}
             /\ d[c] = Position(l, c) => e[c] = Position(l, c)
             /\ a <= Position(l, c) /\ Position(l, c) < a + n
                  => e[c] = Position(l, c)
             /\ e[c] = d[c] \/ (a <= Position(l, c) /\ Position(l, c) < a + n)
  <2>1. /\ c[1] \in Files(l) /\ c[2] \in Nat
        /\ Position(l, c) = l.bounds[c[1]] + c[2]
    BY CellFacts DEF Position
  <2>2. l.bounds[f] \in Nat /\ FileLength(l, f) \in Nat
    BY FileFacts
  <2>5. Position(l, c) \in Int
    BY <2>1, FileFacts
  <2>3. CASE c[1] = f /\ c[2] \in o .. o + n - 1
    <3>1. e[c] = a + (c[2] - o)
      BY <2>3 DEF Put
    <3> HIDE DEF e
    <3>2. e[c] = Position(l, c)
      BY <2>1, <2>2, <2>3, <3>1
    <3>3. a <= Position(l, c) /\ Position(l, c) < a + n
      BY <2>1, <2>2, <2>3
    <3> QED
      BY <3>2, <3>3
  <2>4. CASE ~(c[1] = f /\ c[2] \in o .. o + n - 1)
    <3>1. e[c] = d[c]
      BY <2>4 DEF Put
    <3>2. ASSUME a <= Position(l, c), Position(l, c) < a + n
          PROVE  FALSE
      <4>1. /\ l.bounds[f] <= Position(l, c)
            /\ Position(l, c) < l.bounds[f] + FileLength(l, f)
        BY <2>1, <2>2, <2>5, <3>2
      <4>2. c[1] = f
        BY <4>1, FileOfPosition
      <4>3. c[2] \in o .. o + n - 1
        BY <2>1, <2>2, <3>2, <4>2
      <4> QED
        BY <2>4, <4>2, <4>3
    <3> HIDE DEF e
    <3> QED
      BY <3>1, <3>2 DEF InPlace
  <2> QED
    BY <2>3, <2>4
<1> QED
  BY <1>1 DEF InPlace, Holds

-----------------------------------------------------------------------------
\* A torrent whose every offset fits into the queue.
SmallTorrents == \A l \in Layouts : TotalLength(l) <= OffsetModulus

QueueOK ==
  \A i \in DOMAIN queue : queue[i].offset = PieceStart(layout, queue[i].piece)

\* Looking for the first file: what has been skipped lies before the piece.
FindOK ==
  writer = "finding" =>
    /\ piece \in Pieces(layout)
    /\ currentFile \in Files(layout)
    /\ layout.bounds[currentFile] + offset = PieceStart(layout, piece)

\* Splitting: the part that is written is there, and the next file goes on
\* where it ends.
SplitOK ==
  writer = "splitting" =>
    /\ piece \in Pieces(layout)
    /\ remaining + dataOffset = LengthOf(layout, piece)
    /\ remaining > 0 =>
         /\ currentFile \in Files(layout)
         /\ offset <= FileLength(layout, currentFile)
         /\ layout.bounds[currentFile] + offset
              = PieceStart(layout, piece) + dataOffset
    /\ Holds(layout, disk, PieceStart(layout, piece),
             PieceStart(layout, piece) + dataOffset)

FinishedOK ==
  \A p \in finished :
    Holds(layout, disk, PieceStart(layout, p),
          PieceStart(layout, p) + LengthOf(layout, p))

\* The pieces of a queue, and that none is in it twice.
PiecesIn(q) == {q[i].piece : i \in DOMAIN q}
NoneTwice(q) == \A i, j \in DOMAIN q : q[i].piece = q[j].piece => i = j

\* A saved piece is finished, waits in the queue, once, or is in hand.
AccountOK ==
  /\ saved = finished \cup Queued \cup InHand
  /\ finished \cap (Queued \cup InHand) = {}
  /\ Queued \cap InHand = {}
  /\ NoneTwice(queue)

\* Only what is finished, or being split, has bytes on the disk.
UntouchedOK ==
  \A p \in Pieces(layout), c \in Cells(layout) :
    InPiece(layout, p, c) /\ disk[c] # NotWritten
      => p \in finished \/ (writer = "splitting" /\ p = piece)

\* The inductive invariant.
IInv ==
  /\ TypeOK /\ QueueOK /\ FindOK /\ SplitOK
  /\ InPlace(layout, disk) /\ FinishedOK
  /\ AccountOK /\ UntouchedOK

\* Where the writer is has one value; an offset that fits is not cut.
LEMMA OffsetKept ==
  ASSUME SmallTorrents, NEW l \in Layouts, NEW p \in Pieces(l)
  PROVE  PieceStart(l, p) % OffsetModulus = PieceStart(l, p)
         /\ PieceStart(l, p) \in 0 .. OffsetModulus - 1
<1>1. /\ PieceStart(l, p) \in Nat /\ TotalLength(l) \in Nat
      /\ LengthOf(l, p) \in Nat \ {0}
      /\ PieceStart(l, p) + LengthOf(l, p) <= TotalLength(l)
      /\ TotalLength(l) <= OffsetModulus
      /\ OffsetModulus \in Nat \ {0}
  BY PieceFacts, FileFacts, FileWriterAssumption DEF SmallTorrents
<1>2. PieceStart(l, p) \in 0 .. OffsetModulus - 1
  BY <1>1
<1> QED
  BY <1>1, <1>2

\* A disk that is in place has the type of one.
LEMMA InPlaceType ==
  ASSUME NEW l \in Layouts, NEW d, d = [c \in Cells(l) |-> d[c]], InPlace(l, d)
  PROVE  d \in [Cells(l) -> (0 .. TotalLength(l) - 1) \cup {NotWritten}]
<1>1. ASSUME NEW c \in Cells(l)
      PROVE  d[c] \in (0 .. TotalLength(l) - 1) \cup {NotWritten}
  BY CellFacts DEF InPlace
<1> QED
  BY <1>1

LEMMA HeadAndTail ==
  ASSUME NEW S, NEW q \in Seq(S), q # <<>>
  PROVE  /\ Head(q) \in S /\ Tail(q) \in Seq(S)
         /\ Head(q) = q[1] /\ 1 \in DOMAIN q
         /\ \A i \in DOMAIN Tail(q) : Tail(q)[i] = q[i + 1] /\ i + 1 \in DOMAIN q
OBVIOUS

LEMMA AppendedEntries ==
  ASSUME NEW S, NEW q \in Seq(S), NEW e \in S
  PROVE  /\ DOMAIN Append(q, e) = DOMAIN q \cup {Len(q) + 1}
         /\ Len(q) + 1 \notin DOMAIN q
         /\ \A i \in DOMAIN q : Append(q, e)[i] = q[i]
         /\ Append(q, e)[Len(q) + 1] = e
OBVIOUS

LEMMA PiecesAppended ==
  ASSUME NEW q, NEW r, NEW k, NEW e,
         DOMAIN r = DOMAIN q \cup {k}, k \notin DOMAIN q,
         \A i \in DOMAIN q : r[i] = q[i], r[k] = e
  PROVE  /\ PiecesIn(r) = PiecesIn(q) \cup {e.piece}
         /\ NoneTwice(q) /\ e.piece \notin PiecesIn(q) => NoneTwice(r)
BY DEF PiecesIn, NoneTwice

LEMMA PiecesAfterHead ==
  ASSUME NEW S, NEW q \in Seq(S), q # <<>>
  PROVE  /\ PiecesIn(q) = PiecesIn(Tail(q)) \cup {Head(q).piece}
         /\ NoneTwice(q) => /\ Head(q).piece \notin PiecesIn(Tail(q))
                            /\ NoneTwice(Tail(q))
<1> DEFINE r == Tail(q)
<1>1. /\ Len(q) \in Nat \ {0} /\ DOMAIN q = 1 .. Len(q)
      /\ DOMAIN r = 1 .. Len(q) - 1
      /\ \A i \in 1 .. Len(q) - 1 : r[i] = q[i + 1]
      /\ Head(q) = q[1]
  OBVIOUS
<1> HIDE DEF r
<1>2. /\ 1 \in DOMAIN q
      /\ \A i \in DOMAIN r : i + 1 \in DOMAIN q /\ r[i] = q[i + 1] /\ i + 1 # 1
      /\ \A i \in DOMAIN q : i = 1 \/ (i - 1 \in DOMAIN r /\ r[i - 1] = q[i])
      /\ \A i, j \in DOMAIN r : i + 1 = j + 1 => i = j
  BY <1>1
<1>3. PiecesIn(q) = PiecesIn(r) \cup {Head(q).piece}
  BY <1>1, <1>2 DEF PiecesIn
<1>4. ASSUME NoneTwice(q)
      PROVE  Head(q).piece \notin PiecesIn(r) /\ NoneTwice(r)
  <2>1. ASSUME NEW i \in DOMAIN r, r[i].piece = Head(q).piece
        PROVE  FALSE
    <3>1. /\ i + 1 \in DOMAIN q /\ 1 \in DOMAIN q /\ i + 1 # 1
          /\ q[i + 1].piece = q[1].piece
      BY <1>1, <1>2, <2>1
    <3> QED
      BY <3>1, <1>4 DEF NoneTwice
  <2>2. NoneTwice(r)
    BY <1>2, <1>4 DEF NoneTwice
  <2> QED
    BY <2>1, <2>2 DEF PiecesIn
<1> QED
  BY <1>3, <1>4 DEF r

LEMMA InitOK == Init => IInv
<1> SUFFICES ASSUME Init PROVE IInv
  OBVIOUS
<1>1. InPlace(layout, disk)
  BY DEF Init, InPlace
<1>2. TypeOK
  BY DEF Init, TypeOK
<1>3. QueueOK /\ FindOK /\ SplitOK /\ FinishedOK
  BY DEF Init, QueueOK, FindOK, SplitOK, FinishedOK
<1>4. AccountOK
  BY DEF Init, AccountOK, NoneTwice, Queued, InHand
<1>5. UntouchedOK
  BY DEF Init, UntouchedOK
<1> QED
  BY <1>1, <1>2, <1>3, <1>4, <1>5 DEF IInv

LEMMA SaveStep ==
  ASSUME SmallTorrents, IInv, NEW p \in Pieces(layout), SavePiece(p)
  PROVE  IInv'
<1>1. /\ layout \in Layouts
      /\ queue \in Seq([offset : 0 .. OffsetModulus - 1, piece : Pieces(layout)])
  BY DEF IInv, TypeOK
<1> DEFINE new == [offset |-> PieceStart(layout, p) % OffsetModulus, piece |-> p]
<1>2. /\ new \in [offset : 0 .. OffsetModulus - 1, piece : Pieces(layout)]
      /\ new.offset = PieceStart(layout, new.piece)
  BY <1>1, OffsetKept
<1>3. queue' = Append(queue, new)
  BY DEF SavePiece
<1> HIDE DEF new
<1>4. TypeOK'
  BY <1>1, <1>2, <1>3 DEF IInv, TypeOK, SavePiece
<1>5. QueueOK'
  <2>1. layout' = layout
    BY DEF SavePiece
  <2>2. ASSUME NEW i \in DOMAIN queue'
        PROVE  queue'[i].offset = PieceStart(layout, queue'[i].piece)
    <3>1. CASE i \in DOMAIN queue
      <4>1. queue'[i] = queue[i]
        BY <1>1, <1>3, <3>1
      <4> QED
        BY <4>1, <3>1 DEF IInv, QueueOK
    <3>2. CASE i \notin DOMAIN queue
      <4>1. queue'[i] = new
        BY <1>1, <1>3, <3>2
      <4> QED
        BY <4>1, <1>2
    <3> QED
      BY <3>1, <3>2
  <2> QED
    BY <2>1, <2>2 DEF QueueOK
<1>6. AccountOK'
  <2>1. /\ Queued = PiecesIn(queue) /\ Queued' = PiecesIn(queue') /\ InHand' = InHand
        /\ saved' = saved \cup {p} /\ p \notin saved /\ finished' = finished
    BY DEF Queued, PiecesIn, InHand, SavePiece
  <2>2. new.piece = p
    BY DEF new
  <2>3. /\ saved = finished \cup Queued \cup InHand
        /\ finished \cap (Queued \cup InHand) = {}
        /\ Queued \cap InHand = {} /\ NoneTwice(queue)
    BY DEF IInv, AccountOK
  <2>4. /\ DOMAIN queue' = DOMAIN queue \cup {Len(queue) + 1}
        /\ Len(queue) + 1 \notin DOMAIN queue
        /\ \A i \in DOMAIN queue : queue'[i] = queue[i]
        /\ queue'[Len(queue) + 1] = new
    BY <1>1, <1>2, <1>3, AppendedEntries
  <2>5. /\ PiecesIn(queue') = PiecesIn(queue) \cup {new.piece}
        /\ NoneTwice(queue) /\ new.piece \notin PiecesIn(queue) => NoneTwice(queue')
    BY <2>4, PiecesAppended
  <2>6. Queued' = Queued \cup {p} /\ NoneTwice(queue')
    BY <2>1, <2>2, <2>3, <2>5
  <2> QED
    BY <2>1, <2>3, <2>6 DEF AccountOK
<1>7. UntouchedOK'
  BY DEF IInv, UntouchedOK, SavePiece
<1> QED
  BY <1>4, <1>5, <1>6, <1>7 DEF IInv, FindOK, SplitOK, FinishedOK, SavePiece

LEMMA DequeueStep ==
  ASSUME IInv, Dequeue
  PROVE  IInv'
<1>1. /\ layout \in Layouts
      /\ queue \in Seq([offset : 0 .. OffsetModulus - 1, piece : Pieces(layout)])
      /\ queue # <<>>
  BY DEF IInv, TypeOK, Dequeue
<1>2. /\ Head(queue) \in [offset : 0 .. OffsetModulus - 1, piece : Pieces(layout)]
      /\ Tail(queue) \in Seq([offset : 0 .. OffsetModulus - 1, piece : Pieces(layout)])
      /\ Head(queue) = queue[1] /\ 1 \in DOMAIN queue
      /\ \A i \in DOMAIN Tail(queue) :
           Tail(queue)[i] = queue[i + 1] /\ i + 1 \in DOMAIN queue
  BY <1>1, HeadAndTail
<1>3. Head(queue).offset = PieceStart(layout, Head(queue).piece)
  BY <1>2 DEF IInv, QueueOK
<1>4. piece' \in Pieces(layout) /\ piece' \in Nat /\ offset' \in Nat
      /\ offset' = PieceStart(layout, piece')
  BY <1>1, <1>2, <1>3, FileWriterAssumption DEF Dequeue, Pieces, LayoutOK
<1>5. TypeOK'
  BY <1>1, <1>2, <1>4 DEF IInv, TypeOK, Dequeue
<1>6. QueueOK'
  BY <1>2 DEF IInv, QueueOK, Dequeue
<1>7. FindOK'
  <2>1. layout' = layout /\ currentFile' = 1
    BY DEF Dequeue
  <2>2. 1 \in Files(layout) /\ layout.bounds[1] = 0
    BY <1>1, FileFacts
  <2> QED
    BY <1>4, <2>1, <2>2 DEF FindOK
<1>8. SplitOK' /\ InPlace(layout, disk)' /\ FinishedOK'
  BY DEF IInv, SplitOK, FinishedOK, Dequeue
<1>9. AccountOK'
  <2>1. /\ Queued = PiecesIn(queue) /\ Queued' = PiecesIn(Tail(queue))
        /\ InHand = {} /\ InHand' = {Head(queue).piece} /\ queue' = Tail(queue)
        /\ saved' = saved /\ finished' = finished
    BY DEF Queued, PiecesIn, InHand, Dequeue
  <2>2. /\ saved = finished \cup Queued \cup InHand
        /\ finished \cap (Queued \cup InHand) = {}
        /\ NoneTwice(queue)
    BY DEF IInv, AccountOK
  <2>3. /\ Queued = Queued' \cup {Head(queue).piece}
        /\ Head(queue).piece \notin Queued' /\ NoneTwice(Tail(queue))
    BY <1>1, <2>1, <2>2, PiecesAfterHead
  <2> QED
    BY <2>1, <2>2, <2>3 DEF AccountOK
<1>10. UntouchedOK'
  BY DEF IInv, UntouchedOK, Dequeue
<1> QED
  BY <1>5, <1>6, <1>7, <1>8, <1>9, <1>10 DEF IInv

LEMMA NextFileStep ==
  ASSUME IInv, NextFile
  PROVE  IInv'
<1>1. /\ layout \in Layouts /\ piece \in Pieces(layout)
      /\ currentFile \in Files(layout) /\ offset \in Nat
      /\ layout.bounds[currentFile] + offset = PieceStart(layout, piece)
      /\ offset >= FileLength(layout, currentFile)
      /\ layout' = layout /\ piece' = piece /\ currentFile' = currentFile + 1
      /\ offset' = offset - FileLength(layout, currentFile)
  BY DEF IInv, TypeOK, FindOK, NextFile
<1>2. /\ currentFile \in Nat
      /\ layout.bounds[currentFile] \in Nat
      /\ FileLength(layout, currentFile) \in Nat
      /\ layout.bounds[currentFile + 1]
           = layout.bounds[currentFile] + FileLength(layout, currentFile)
      /\ layout.bounds[currentFile + 1] = TotalLength(layout)
           \/ currentFile + 1 \in Files(layout)
      /\ TotalLength(layout) \in Nat
  BY <1>1, FileFacts
<1>3. PieceStart(layout, piece) \in Nat
      /\ PieceStart(layout, piece) < TotalLength(layout)
  BY <1>1, <1>2, PieceFacts
<1>4. /\ offset' \in Nat
      /\ layout.bounds[currentFile + 1] + offset' = PieceStart(layout, piece)
  BY <1>1, <1>2
<1>5. layout.bounds[currentFile + 1] # TotalLength(layout)
  BY <1>2, <1>3, <1>4
<1>6. FindOK'
  BY <1>1, <1>2, <1>4, <1>5 DEF FindOK
<1>7. TypeOK'
  BY <1>1, <1>2, <1>4 DEF IInv, TypeOK, NextFile
<1>8. QueueOK' /\ SplitOK' /\ InPlace(layout, disk)' /\ FinishedOK'
  BY DEF IInv, QueueOK, SplitOK, FinishedOK, NextFile
<1>9. AccountOK' /\ UntouchedOK'
  BY DEF IInv, AccountOK, UntouchedOK, Queued, InHand, NextFile
<1> QED
  BY <1>6, <1>7, <1>8, <1>9 DEF IInv

LEMMA FileFoundStep ==
  ASSUME IInv, FileFound
  PROVE  IInv'
<1>1. /\ layout \in Layouts /\ piece \in Pieces(layout)
      /\ currentFile \in Files(layout) /\ offset \in Nat
      /\ layout.bounds[currentFile] + offset = PieceStart(layout, piece)
      /\ offset < FileLength(layout, currentFile)
      /\ UNCHANGED <<layout, piece, currentFile, offset, disk>>
      /\ remaining' = LengthOf(layout, piece) /\ dataOffset' = 0
  BY DEF IInv, TypeOK, FindOK, FileFound
<1>2. LengthOf(layout, piece) \in Nat /\ PieceStart(layout, piece) \in Nat
  BY <1>1, PieceFacts
<1>3. FileLength(layout, currentFile) \in Nat
  BY <1>1, FileFacts
<1>4. SplitOK'
  <2>1. Holds(layout, disk, PieceStart(layout, piece), PieceStart(layout, piece) + 0)
    <3>1. ASSUME NEW c \in Cells(layout)
          PROVE  ~(/\ PieceStart(layout, piece) <= Position(layout, c)
                   /\ Position(layout, c) < PieceStart(layout, piece) + 0)
      <4>1. Position(layout, c) \in Int
        BY <1>1, CellFacts, FileFacts
      <4> QED
        BY <1>2, <4>1
    <3> QED
      BY <3>1 DEF Holds
  <2>2. /\ remaining' + dataOffset' = LengthOf(layout, piece)
        /\ offset <= FileLength(layout, currentFile)
        /\ layout.bounds[currentFile] + offset
             = PieceStart(layout, piece) + dataOffset'
    BY <1>1, <1>2, <1>3
  <2> QED
    BY <1>1, <2>1, <2>2 DEF SplitOK
<1>5. TypeOK'
  BY <1>1, <1>2 DEF IInv, TypeOK, FileFound
<1>6. QueueOK' /\ FindOK' /\ InPlace(layout, disk)' /\ FinishedOK'
  BY DEF IInv, QueueOK, FindOK, FinishedOK, FileFound
<1>7. AccountOK' /\ UntouchedOK'
  BY DEF IInv, AccountOK, UntouchedOK, Queued, InHand, FileFound
<1> QED
  BY <1>4, <1>5, <1>6, <1>7 DEF IInv

LEMMA WriteChunkStep ==
  ASSUME IInv, WriteChunk
  PROVE  IInv'
<1> DEFINE n == BytesToWrite
           start == PieceStart(layout, piece)
<1>1. /\ layout \in Layouts /\ piece \in Pieces(layout)
      /\ currentFile \in Files(layout) /\ offset \in Nat
      /\ remaining \in Nat /\ dataOffset \in Nat
      /\ remaining + dataOffset = LengthOf(layout, piece)
      /\ offset <= FileLength(layout, currentFile)
      /\ layout.bounds[currentFile] + offset = start + dataOffset
      /\ Holds(layout, disk, start, start + dataOffset)
      /\ InPlace(layout, disk)
  BY DEF IInv, TypeOK, SplitOK, WriteChunk
<1>2. /\ UNCHANGED <<layout, saved, queue, finished, writer, piece>>
      /\ disk' = Written(n) /\ remaining' = remaining - n
      /\ dataOffset' = dataOffset + n
      /\ currentFile' = currentFile + 1 /\ offset' = 0
      /\ writer = "splitting"
  BY DEF WriteChunk
<1>3. /\ currentFile \in Nat
      /\ layout.bounds[currentFile] \in Nat
      /\ FileLength(layout, currentFile) \in Nat
      /\ layout.bounds[currentFile + 1]
           = layout.bounds[currentFile] + FileLength(layout, currentFile)
      /\ layout.bounds[currentFile + 1] = TotalLength(layout)
           \/ currentFile + 1 \in Files(layout)
      /\ TotalLength(layout) \in Nat
  BY <1>1, FileFacts
<1>4. /\ start \in Nat /\ LengthOf(layout, piece) \in Nat
      /\ start + LengthOf(layout, piece) <= TotalLength(layout)
  BY <1>1, PieceFacts
<1>5. /\ n \in Nat /\ n <= remaining
      /\ offset + n <= FileLength(layout, currentFile)
      /\ n = remaining \/ offset + n = FileLength(layout, currentFile)
  BY <1>1, <1>3 DEF BytesToWrite
<1> HIDE DEF n, start
<1>6. /\ InPlace(layout, disk')
      /\ \A c \in Cells(layout) :
           disk[c] = Position(layout, c) => disk'[c] = Position(layout, c)
      /\ Holds(layout, disk', start + dataOffset, start + dataOffset + n)
      /\ \A c \in Cells(layout) :
           disk'[c] = disk[c] \/ (/\ start + dataOffset <= Position(layout, c)
                                 /\ Position(layout, c) < start + dataOffset + n)
  <2>1. start + dataOffset \in Nat
    BY <1>1, <1>4
  <2>2. disk' = Put(layout, currentFile, offset, n, start + dataOffset, disk)
    BY <1>2 DEF Written, Put, start
  <2> DEFINE e == Put(layout, currentFile, offset, n, start + dataOffset, disk)
  <2>3. /\ InPlace(layout, e)
        /\ \A c \in Cells(layout) :
             disk[c] = Position(layout, c) => e[c] = Position(layout, c)
        /\ Holds(layout, e, start + dataOffset, start + dataOffset + n)
        /\ \A c \in Cells(layout) :
             e[c] = disk[c] \/ (/\ start + dataOffset <= Position(layout, c)
                                /\ Position(layout, c) < start + dataOffset + n)
    BY <1>1, <1>5, <2>1, Chunk
  <2> QED
    BY <2>2, <2>3
<1>7. Holds(layout, disk', start, start + dataOffset')
  <2>1. ASSUME NEW c \in Cells(layout),
               start <= Position(layout, c),
               Position(layout, c) < start + dataOffset'
        PROVE  disk'[c] = Position(layout, c)
    <3>1. Position(layout, c) \in Int
      BY <1>1, <1>3, CellFacts
    <3>2. CASE Position(layout, c) < start + dataOffset
      <4>1. disk[c] = Position(layout, c)
        BY <1>1, <2>1, <3>2 DEF Holds
      <4> QED
        BY <1>6, <4>1
    <3>3. CASE ~(Position(layout, c) < start + dataOffset)
      <4>1. /\ start + dataOffset <= Position(layout, c)
            /\ Position(layout, c) < start + dataOffset + n
        BY <1>1, <1>2, <1>4, <1>5, <2>1, <3>1, <3>3
      <4> QED
        BY <4>1, <1>6 DEF Holds
    <3> QED
      BY <3>2, <3>3
  <2> QED
    BY <2>1 DEF Holds
<1>8. /\ remaining' \in Nat /\ dataOffset' \in Nat
      /\ remaining' + dataOffset' = LengthOf(layout, piece)
  BY <1>1, <1>2, <1>5
<1>9. ASSUME remaining' > 0
      PROVE  /\ currentFile + 1 \in Files(layout)
             /\ 0 <= FileLength(layout, currentFile + 1)
             /\ layout.bounds[currentFile + 1] + 0 = start + dataOffset'
  <2>1. offset + n = FileLength(layout, currentFile)
    BY <1>1, <1>2, <1>5, <1>9
  <2>2. layout.bounds[currentFile + 1] = start + dataOffset'
    BY <1>1, <1>2, <1>3, <1>4, <1>5, <2>1
  <2>3. start + dataOffset' < TotalLength(layout)
    BY <1>4, <1>8, <1>9, <1>3
  <2>4. currentFile + 1 \in Files(layout)
    BY <1>3, <1>4, <1>8, <2>2, <2>3
  <2>5. FileLength(layout, currentFile + 1) \in Nat
    BY <1>1, <2>4, FileFacts
  <2> QED
    BY <1>4, <1>8, <2>2, <2>4, <2>5
<1>10. SplitOK'
  BY <1>1, <1>2, <1>7, <1>8, <1>9 DEF SplitOK, start
<1>11. FinishedOK'
  BY <1>2, <1>6 DEF IInv, FinishedOK, Holds
<1>12. disk' \in [Cells(layout) -> (0 .. TotalLength(layout) - 1) \cup {NotWritten}]
  <2>1. disk' = [c \in Cells(layout) |-> disk'[c]]
    BY <1>2 DEF Written
  <2> QED
    BY <1>1, <1>6, <2>1, InPlaceType
<1>13. TypeOK'
  BY <1>2, <1>3, <1>8, <1>12 DEF IInv, TypeOK
<1>14. QueueOK' /\ FindOK' /\ InPlace(layout, disk)'
  BY <1>2, <1>6 DEF IInv, QueueOK, FindOK
<1>15. AccountOK'
  BY <1>2 DEF IInv, AccountOK, Queued, InHand
<1>16. UntouchedOK'
  <2>1. ASSUME NEW p \in Pieces(layout), NEW c \in Cells(layout),
               InPiece(layout, p, c), disk'[c] # NotWritten, disk'[c] # disk[c]
        PROVE  p = piece
    <3>1. /\ start + dataOffset <= Position(layout, c)
          /\ Position(layout, c) < start + dataOffset + n
          /\ Position(layout, c) \in Int
      BY <1>1, <1>3, <1>6, <2>1, CellFacts
    <3>2. InPiece(layout, piece, c)
      BY <1>1, <1>4, <1>5, <3>1 DEF InPiece, start
    <3> QED
      BY <1>1, <2>1, <3>2, PieceOfCellIsOne
  <2> QED
    BY <1>2, <2>1 DEF IInv, UntouchedOK
<1> QED
  BY <1>10, <1>11, <1>13, <1>14, <1>15, <1>16 DEF IInv

LEMMA PieceDoneStep ==
  ASSUME IInv, PieceDone
  PROVE  IInv'
<1>1. /\ layout \in Layouts /\ piece \in Pieces(layout)
      /\ remaining + dataOffset = LengthOf(layout, piece)
      /\ remaining = 0 /\ dataOffset \in Nat
      /\ Holds(layout, disk, PieceStart(layout, piece),
               PieceStart(layout, piece) + dataOffset)
      /\ UNCHANGED <<layout, disk>> /\ finished' = finished \cup {piece}
  BY DEF IInv, TypeOK, SplitOK, PieceDone
<1>2. dataOffset = LengthOf(layout, piece)
  BY <1>1
<1>3. FinishedOK'
  BY <1>1, <1>2 DEF IInv, FinishedOK
<1>4. TypeOK'
  BY <1>1 DEF IInv, TypeOK, PieceDone
<1>5. QueueOK' /\ FindOK' /\ SplitOK' /\ InPlace(layout, disk)'
  BY DEF IInv, QueueOK, FindOK, SplitOK, PieceDone
<1>6. AccountOK'
  <2>1. InHand = {piece} /\ InHand' = {} /\ Queued' = Queued
        /\ UNCHANGED <<saved, queue>>
    BY DEF InHand, Queued, PieceDone
  <2> QED
    BY <1>1, <2>1 DEF IInv, AccountOK
<1>7. UntouchedOK'
  BY <1>1 DEF IInv, UntouchedOK, PieceDone
<1> QED
  BY <1>3, <1>4, <1>5, <1>6, <1>7 DEF IInv

LEMMA NextOK ==
  ASSUME SmallTorrents, IInv, [Next]_vars
  PROVE  IInv'
<1>1. CASE \E p \in Pieces(layout) : SavePiece(p)
  BY <1>1, SaveStep
<1>2. CASE Writer
  BY <1>2, DequeueStep, NextFileStep, FileFoundStep, WriteChunkStep,
     PieceDoneStep DEF Writer
<1>3. CASE AllDone \/ UNCHANGED vars
  <2>1. UNCHANGED vars
    BY <1>3 DEF AllDone
  <2>2. TypeOK' /\ QueueOK' /\ FindOK' /\ SplitOK' /\ InPlace(layout, disk)'
    BY <2>1 DEF vars, IInv, TypeOK, QueueOK, FindOK, SplitOK
  <2>3. FinishedOK' /\ AccountOK' /\ UntouchedOK'
    BY <2>1 DEF vars, IInv, FinishedOK, AccountOK, UntouchedOK, Queued, InHand
  <2> QED
    BY <2>2, <2>3 DEF IInv
<1> QED
  BY <1>1, <1>2, <1>3 DEF Next

LEMMA Inductive ==
  ASSUME SmallTorrents
  PROVE  Spec => []IInv
<1>1. IInv /\ [Next]_vars => IInv'
  BY NextOK
<1> QED
  BY <1>1, InitOK, PTL DEF Spec

-----------------------------------------------------------------------------
(***************************************************************************)
(* Every variable keeps its type; a disk only ever holds positions of the  *)
(* torrent.                                                                *)
(***************************************************************************)
THEOREM WriterTypeCorrect ==
  ASSUME SmallTorrents
  PROVE  Spec => []TypeOK
<1>1. IInv => TypeOK
  BY DEF IInv
<1> QED
  BY <1>1, Inductive, PTL

(***************************************************************************)
(* The loops of calculate_files_write_info never run past the last file.   *)
(***************************************************************************)
THEOREM WriterStaysInFiles ==
  ASSUME SmallTorrents
  PROVE  Spec => []StaysInFiles
<1>1. IInv => StaysInFiles
  BY DEF IInv, FindOK, SplitOK, StaysInFiles
<1> QED
  BY <1>1, Inductive, PTL

(***************************************************************************)
(* What is written is written where it belongs.                            *)
(***************************************************************************)
THEOREM BytesStayInPlace ==
  ASSUME SmallTorrents
  PROVE  Spec => []BytesInPlace
<1>1. IInv => BytesInPlace
  BY DEF IInv, InPlace, BytesInPlace
<1> QED
  BY <1>1, Inductive, PTL

(***************************************************************************)
(* A piece that is counted as written is there to its last byte, and no    *)
(* byte of one that has not been begun.                                    *)
(***************************************************************************)
THEOREM FinishedPiecesAreOnDisk ==
  ASSUME SmallTorrents
  PROVE  Spec => []FinishedIsOnDisk
<1>1. IInv => FinishedIsOnDisk
  BY DEF IInv, TypeOK, FinishedOK, UntouchedOK, Holds, InPiece, FinishedIsOnDisk
<1> QED
  BY <1>1, Inductive, PTL

(***************************************************************************)
(* The writer's queue loses nothing and repeats nothing: each piece that   *)
(* save_piece was given is written, in hand, or in the queue once.         *)
(***************************************************************************)
THEOREM SavedIsAccounted ==
  ASSUME SmallTorrents
  PROVE  Spec => []AccountOK
<1>1. IInv => AccountOK
  BY DEF IInv
<1> QED
  BY <1>1, Inductive, PTL

(***************************************************************************)
(* When write_count has reached the number of pieces, which ends           *)
(* file_writer, the files are the torrent, byte for byte.                  *)
(***************************************************************************)
LEMMA AllFinished ==
  ASSUME IInv, finished = Pieces(layout), NEW c \in Cells(layout)
  PROVE  disk[c] = Position(layout, c)
<1>1. layout \in Layouts
  BY DEF IInv, TypeOK
<1>2. PICK p \in Pieces(layout) : InPiece(layout, p, c)
  BY <1>1, CellHasPiece
<1> QED
  BY <1>2 DEF IInv, FinishedOK, Holds, InPiece

THEOREM AllWrittenIsComplete ==
  ASSUME SmallTorrents
  PROVE  Spec => [](finished = Pieces(layout)
                      => \A c \in Cells(layout) : disk[c] = Position(layout, c))
<1>1. IInv => (finished = Pieces(layout)
                 => \A c \in Cells(layout) : disk[c] = Position(layout, c))
  BY AllFinished
<1> QED
  BY <1>1, Inductive, PTL

-----------------------------------------------------------------------------
(***************************************************************************)
(* Pieces and their blocks.                                                *)
(***************************************************************************)
LEMMA Quotient ==
  ASSUME NEW t \in Nat, NEW n \in Nat \ {0}, NEW p \in Nat,
         p * n <= t, t < p * n + n
  PROVE  t \div n = p
<1> DEFINE q == t \div n
           r == t % n
<1>1. q \in Nat /\ r \in 0 .. n - 1 /\ t = q * n + r
  BY Division
<1> HIDE DEF q, r
<1>2. p * n \in Nat /\ q * n \in Nat
  BY <1>1
<1>3. ~(p < q) /\ ~(q < p)
  BY <1>1, <1>2, NextMultiple
<1> QED
  BY <1>1, <1>3 DEF q

\* The last block begins inside the piece, and reaches its end.
LEMMA BlockCount ==
  ASSUME NEW l \in Layouts, NEW n \in Nat \ {0}, NEW p \in Pieces(l)
  PROVE  /\ NumBlocksOf(l, n, p) \in Nat \ {0}
         /\ (NumBlocksOf(l, n, p) - 1) * n < LengthOf(l, p)
         /\ LengthOf(l, p) <= NumBlocksOf(l, n, p) * n
<1> DEFINE len == LengthOf(l, p)
           k == NumBlocksOf(l, n, p)
<1>1. len \in Nat \ {0}
  BY PieceFacts
<1>2. PICK m \in 0 .. n - 1 : k \in Nat /\ len + n - 1 = k * n + m
  <2>1. len + n - 1 \in Nat
    BY <1>1
  <2> HIDE DEF len
  <2> QED
    BY <2>1, Division DEF NumBlocksOf, len
<1> HIDE DEF len, k
<1>3. k * n \in Nat /\ (k - 1) * n = k * n - n
  BY <1>2
<1>4. k # 0
  BY <1>1, <1>2
<1> QED
  BY <1>1, <1>2, <1>3, <1>4 DEF len, k

LEMMA BlockFacts ==
  ASSUME NEW l \in Layouts, NEW n \in Nat \ {0}, NEW p \in Pieces(l),
         NEW b \in BlocksOf(l, n, p)
  PROVE  b \in Nat /\ BlockOffset(n, b) \in Nat /\ BlockOffset(n, b) < LengthOf(l, p)
<1> DEFINE k == NumBlocksOf(l, n, p)
<1>1. /\ k \in Nat \ {0} /\ (k - 1) * n < LengthOf(l, p)
      /\ LengthOf(l, p) \in Nat
  BY BlockCount, PieceFacts
<1>2. b \in 0 .. k - 1
  BY DEF BlocksOf
<1> HIDE DEF k
<1>3. b \in Nat /\ k - 1 \in Nat /\ b <= k - 1
  BY <1>1, <1>2
<1>4. b * n \in Nat /\ (k - 1) * n \in Nat
  BY <1>3
<1>5. b * n <= (k - 1) * n
  <2>1. CASE b < k - 1
    BY <1>3, <1>4, <2>1, NextMultiple
  <2> QED
    BY <1>3, <1>4, <2>1
<1> QED
  BY <1>1, <1>3, <1>4, <1>5 DEF BlockOffset

\* The last piece is asked for by a remainder, the others by whole blocks.
LEMMA BlockLengths ==
  ASSUME NEW l \in Layouts, NEW n \in Nat \ {0}, NEW p \in Pieces(l),
         NEW b \in BlocksOf(l, n, p),
         WholeBlocks(l, n) \/ p = l.numPieces - 1
  PROVE  LET length == CalculateBlockLength(l, n, p, b)
             end == BlockOffset(n, b) + length
         IN /\ length \in 1 .. n
            /\ end <= LengthOf(l, p)
            /\ length = n \/ end = LengthOf(l, p)
<1> DEFINE len == LengthOf(l, p)
           q == len \div n
           r == len % n
<1>1. /\ len \in Nat \ {0} /\ b \in Nat
      /\ b * n \in Nat /\ b * n < len
  BY PieceFacts, BlockFacts DEF BlockOffset
<1>2. q \in Nat /\ r \in 0 .. n - 1 /\ len = q * n + r
  <2> HIDE DEF len
  <2> QED
    BY <1>1, Division
<1>3. CalculateBlockLength(l, n, p, b) =
        IF p = l.numPieces - 1 /\ b >= q THEN r ELSE n
  BY DEF CalculateBlockLength
<1>4. p # l.numPieces - 1 => r = 0
  BY DEF LengthOf, WholeBlocks
<1> HIDE DEF len, q, r
<1>5. q * n \in Nat
  BY <1>2
<1>6. CASE b < q
  <2>1. b * n + n <= q * n
    BY <1>1, <1>2, <1>6, NextMultiple
  <2>2. CalculateBlockLength(l, n, p, b) = n
    BY <1>1, <1>2, <1>3, <1>6
  <2> QED
    BY <1>1, <1>2, <1>5, <2>1, <2>2 DEF BlockOffset, len
<1>7. CASE b = q
  BY <1>1, <1>2, <1>3, <1>4, <1>5, <1>7 DEF BlockOffset, len
<1>8. ~(q < b)
  BY <1>1, <1>2, <1>5, NextMultiple
<1> QED
  BY <1>1, <1>2, <1>6, <1>7, <1>8

\* A byte of the piece lies in one block, whose number is a division's.
LEMMA BlockOfByte ==
  ASSUME NEW l \in Layouts, NEW n \in Nat \ {0}, NEW p \in Pieces(l),
         NEW x \in 0 .. LengthOf(l, p) - 1
  PROVE  LET b == BlockIndex(n, x)
         IN /\ b \in BlocksOf(l, n, p)
            /\ BlockOffset(n, b) <= x /\ x < BlockOffset(n, b) + n
<1> DEFINE b == x \div n
           k == NumBlocksOf(l, n, p)
<1>1. /\ LengthOf(l, p) \in Nat \ {0}
      /\ k \in Nat \ {0} /\ LengthOf(l, p) <= k * n
  BY PieceFacts, BlockCount
<1>2. x \in Nat /\ x < LengthOf(l, p)
  BY <1>1
<1>3. PICK m \in 0 .. n - 1 : b \in Nat /\ x = b * n + m
  BY <1>2, Division
<1> HIDE DEF b, k
<1>4. b * n \in Nat /\ k * n \in Nat
  BY <1>1, <1>3
<1>5. b < k
  <2>1. CASE k < b
    BY <1>1, <1>2, <1>3, <1>4, <2>1, NextMultiple
  <2>2. CASE k = b
    BY <1>1, <1>2, <1>3, <1>4, <2>2
  <2> QED
    BY <1>1, <1>3, <2>1, <2>2
<1>6. b \in BlocksOf(l, n, p)
  BY <1>1, <1>3, <1>5 DEF BlocksOf, k
<1> QED
  BY <1>3, <1>4, <1>6 DEF BlockIndex, BlockOffset, b

(***************************************************************************)
(* The answer to a request of select_next_block, taken literally, passes   *)
(* is_valid_block_data, is not empty, and lies in the block whose state    *)
(* write_block_to_buffer changes: the abstraction of Download.  The last   *)
(* piece needs no assumption for it.                                       *)
(***************************************************************************)
THEOREM AnswersAreAccepted ==
  ASSUME NEW l \in Layouts, NEW n \in Nat \ {0}, NEW p \in Pieces(l),
         NEW b \in BlocksOf(l, n, p),
         WholeBlocks(l, n) \/ p = l.numPieces - 1
  PROVE  LET length == CalculateBlockLength(l, n, p, b)
         IN /\ length > 0
            /\ IsValidBlock(l, p, BlockOffset(n, b), length)
            /\ \A x \in Asked(l, n, p, b) : BlockIndex(n, x) = b
<1> DEFINE length == CalculateBlockLength(l, n, p, b)
<1>1. /\ b \in Nat /\ b * n \in Nat /\ b * n < LengthOf(l, p)
      /\ LengthOf(l, p) \in Nat
  BY PieceFacts, BlockFacts DEF BlockOffset
<1>2. length \in 1 .. n /\ b * n + length <= LengthOf(l, p)
  BY BlockLengths DEF BlockOffset
<1>3. IsValidBlock(l, p, BlockOffset(n, b), length)
  <2> HIDE DEF length
  <2> QED
    BY <1>1, <1>2 DEF IsValidBlock, BlockOffset
<1>4. ASSUME NEW x \in Asked(l, n, p, b) PROVE BlockIndex(n, x) = b
  <2>1. x \in b * n .. b * n + length - 1
    BY DEF Asked, BlockOffset
  <2> HIDE DEF length
  <2>2. x \in Nat /\ b * n <= x /\ x < b * n + n
    BY <1>1, <1>2, <2>1
  <2> QED
    BY <1>1, <2>2, Quotient DEF BlockIndex
<1> QED
  BY <1>2, <1>3, <1>4

(***************************************************************************)
(* The requests for a piece ask for each of its bytes, once, and for no    *)
(* other: with the theorem before, a piece all of whose requests were      *)
(* answered is the piece.                                                  *)
(***************************************************************************)
THEOREM RequestsTilePiece ==
  ASSUME NEW l \in Layouts, NEW n \in Nat \ {0}, NEW p \in Pieces(l),
         WholeBlocks(l, n) \/ p = l.numPieces - 1
  PROVE  /\ UNION {Asked(l, n, p, b) : b \in BlocksOf(l, n, p)}
              = 0 .. LengthOf(l, p) - 1
         /\ \A b, c \in BlocksOf(l, n, p) :
              b # c => Asked(l, n, p, b) \cap Asked(l, n, p, c) = {}
<1>1. LengthOf(l, p) \in Nat
  BY PieceFacts
<1>2. ASSUME NEW b \in BlocksOf(l, n, p), NEW x \in Asked(l, n, p, b)
      PROVE  x \in 0 .. LengthOf(l, p) - 1 /\ BlockIndex(n, x) = b
  <2> DEFINE length == CalculateBlockLength(l, n, p, b)
  <2>1. /\ BlockOffset(n, b) \in Nat
        /\ length \in 1 .. n /\ BlockOffset(n, b) + length <= LengthOf(l, p)
    BY BlockFacts, BlockLengths
  <2>2. x \in BlockOffset(n, b) .. BlockOffset(n, b) + length - 1
    BY DEF Asked
  <2> HIDE DEF length
  <2>3. x \in 0 .. LengthOf(l, p) - 1
    BY <1>1, <2>1, <2>2
  <2> QED
    BY <2>3, AnswersAreAccepted
<1>3. ASSUME NEW x \in 0 .. LengthOf(l, p) - 1
      PROVE  \E b \in BlocksOf(l, n, p) : x \in Asked(l, n, p, b)
  <2> DEFINE b == BlockIndex(n, x)
             length == CalculateBlockLength(l, n, p, b)
  <2>1. /\ b \in BlocksOf(l, n, p)
        /\ BlockOffset(n, b) <= x /\ x < BlockOffset(n, b) + n
    BY BlockOfByte
  <2>2. /\ BlockOffset(n, b) \in Nat /\ length \in 1 .. n
        /\ length = n \/ BlockOffset(n, b) + length = LengthOf(l, p)
    BY <2>1, BlockFacts, BlockLengths
  <2> HIDE DEF length
  <2>3. x \in BlockOffset(n, b) .. BlockOffset(n, b) + length - 1
    BY <1>1, <2>1, <2>2
  <2> QED
    BY <2>1, <2>3 DEF Asked, length
<1> QED
  BY <1>2, <1>3

(***************************************************************************)
(* Data that is_valid_block_data lets through, from anybody, stays in the  *)
(* string of the piece, and begins and ends in blocks that have a state:   *)
(* what PieceManager's AddBlock takes for granted.                         *)
(***************************************************************************)
THEOREM AcceptedDataIsInPiece ==
  ASSUME NEW l \in Layouts, NEW n \in Nat \ {0}, NEW p \in Pieces(l),
         NEW begin \in Nat, NEW length \in Nat,
         IsValidBlock(l, p, begin, length)
  PROVE  /\ begin + length <= LengthOf(l, p)
         /\ BlockIndex(n, begin) \in BlocksOf(l, n, p)
         /\ length > 0 => BlockIndex(n, begin + length - 1) \in BlocksOf(l, n, p)
<1>1. /\ LengthOf(l, p) \in Nat
      /\ begin < LengthOf(l, p) /\ begin + length <= LengthOf(l, p)
  BY PieceFacts DEF IsValidBlock
<1>2. BlockIndex(n, begin) \in BlocksOf(l, n, p)
  BY <1>1, BlockOfByte
<1>3. CASE length > 0
  <2>1. begin + length - 1 \in 0 .. LengthOf(l, p) - 1
    BY <1>1, <1>3
  <2> QED
    BY <1>1, <1>2, <2>1, BlockOfByte
<1> QED
  BY <1>1, <1>2, <1>3

(***************************************************************************)
(* num_blocks is what BufferAssumption and PieceManagerAssumption say of   *)
(* NumBlocks: every piece has a block, and none has more than the first.   *)
(***************************************************************************)
THEOREM FirstPieceHasMostBlocks ==
  ASSUME NEW l \in Layouts, NEW n \in Nat \ {0}, NEW p \in Pieces(l)
  PROVE  /\ 0 \in Pieces(l)
         /\ NumBlocksOf(l, n, p) \in Nat \ {0}
         /\ NumBlocksOf(l, n, p) <= NumBlocksOf(l, n, 0)
<1> DEFINE k == NumBlocksOf(l, n, p)
           k0 == NumBlocksOf(l, n, 0)
<1>1. l.numPieces \in Nat /\ p \in Nat /\ p < l.numPieces /\ 0 \in Pieces(l)
  BY FileWriterAssumption DEF LayoutOK, Pieces
<1>2. LengthOf(l, p) <= LengthOf(l, 0)
  <2>1. CASE p = 0
    BY <1>1, <2>1, PieceFacts
  <2>2. CASE p # 0
    <3>1. LengthOf(l, 0) = l.pieceLength
      BY <1>1, <2>2 DEF LengthOf
    <3> QED
      BY <3>1, PieceNotLonger
  <2> QED
    BY <2>1, <2>2
<1>3. /\ k \in Nat \ {0} /\ k0 \in Nat \ {0}
      /\ (k - 1) * n < LengthOf(l, p) /\ LengthOf(l, 0) <= k0 * n
      /\ LengthOf(l, p) \in Nat /\ LengthOf(l, 0) \in Nat
  BY <1>1, BlockCount, PieceFacts
<1> HIDE DEF k, k0
<1>4. /\ k - 1 \in Nat /\ (k - 1) * n \in Nat /\ k0 * n \in Nat
      /\ (k - 1) * n < k0 * n
  BY <1>2, <1>3
<1>5. ~(k0 < k - 1) /\ k0 # k - 1
  BY <1>3, <1>4, NextMultiple
<1> QED
  BY <1>1, <1>3, <1>4, <1>5 DEF k, k0

(***************************************************************************)
(* Where pieces are not whole numbers of blocks every piece but the last   *)
(* is asked for more than it has, and is_valid_block_data refuses the      *)
(* answer to its last request: WholeBlocks is what the client needs of a   *)
(* torrent, and nothing checks it.                                         *)
(***************************************************************************)
THEOREM UnevenPieceIsRefused ==
  ASSUME NEW l \in Layouts, NEW n \in Nat \ {0}, NEW p \in Pieces(l),
         ~WholeBlocks(l, n), p # l.numPieces - 1
  PROVE  LET b == NumBlocksOf(l, n, p) - 1
         IN /\ b \in BlocksOf(l, n, p)
            /\ ~IsValidBlock(l, p, BlockOffset(n, b), CalculateBlockLength(l, n, p, b))
<1> DEFINE k == NumBlocksOf(l, n, p)
           len == LengthOf(l, p)
<1>1. /\ k \in Nat \ {0} /\ len \in Nat \ {0} /\ len <= k * n
  BY BlockCount, PieceFacts
<1>2. len % n # 0 /\ CalculateBlockLength(l, n, p, k - 1) = n
  BY DEF LengthOf, WholeBlocks, CalculateBlockLength
<1>3. k - 1 \in BlocksOf(l, n, p)
  BY <1>1 DEF BlocksOf
<1>4. IsValidBlock(l, p, BlockOffset(n, k - 1), n) => n <= len - (k - 1) * n
  BY DEF IsValidBlock, BlockOffset
<1> HIDE DEF k, len
<1>5. k * n \in Nat /\ (k - 1) * n = k * n - n
  BY <1>1
<1>6. len # k * n
  <2>1. len = k * n => len % n = len - k * n
    BY <1>1, <1>5, Remainder
  <2> QED
    BY <1>2, <1>5, <2>1
<1>7. ~(n <= len - (k - 1) * n)
  BY <1>1, <1>5, <1>6
<1> QED
  BY <1>2, <1>3, <1>4, <1>7 DEF k

=============================================================================
