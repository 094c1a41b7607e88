---------------------------- MODULE MCFileWriter ----------------------------
(***************************************************************************)
(* The torrents that the parser makes of well-formed files: one file of up *)
(* to four bytes, or up to three of up to two bytes, cut into at most four *)
(* pieces.  That each of them is one the writer can work with (LayoutOK)   *)
(* is an assumption of FileWriter, which TLC evaluates for all of them.    *)
(***************************************************************************)
EXTENDS Blocks, Parser

MCInfos ==
  LET sizes == [pieces : 0 .. 4 * HashLength, pieceLength : 1 .. 3]
      single == {[length |-> n] @@ s : n \in 0 .. 4, s \in sizes}
      several == {[files |-> f] @@ s : f \in BoundedSeq(0 .. 2, 3), s \in sizes}
  IN {info \in single \cup several : WellFormed(info) /\ ParsedLength(info) <= 4}

MCLayouts == {ParsedLayout(info) : info \in MCInfos}

\* The files that are opened are those of the torrent, end to end.
ASSUME FilesCoverTorrent ==
  \A info \in MCInfos :
    LET l == ParsedLayout(info)
        listed == IF IsSingleFile(info) THEN <<info.length>> ELSE info.files
    IN /\ TotalLength(l) = ParsedLength(info)
       /\ listed # <<>> => [f \in Files(l) |-> FileLength(l, f)] = listed

\* A last hash that is cut off counts as one: the torrent has a piece for it,
\* which no bytes can match.
ASSUME CutHashCounts ==
  \A bytes \in 0 .. 4 * HashLength :
    /\ NumHashes(bytes) * HashLength >= bytes
    /\ bytes > 0 => (NumHashes(bytes) - 1) * HashLength < bytes

\* An announce-list that is there but empty hides the tracker in announce.
ASSUME EmptyListHidesAnnounce ==
  \A url \in {"udp://t1", "http://t2"} :
    LET info == CHOOSE i \in MCInfos : TRUE
    IN /\ ParseFails([announce |-> url, announceList |-> <<>>, info |-> info])
       /\ ~ParseFails([announce |-> url, info |-> info])
       /\ ~ParseFails([announceList |-> <<<<>>, <<url>>>>, info |-> info])

\* The answers to the requests for a piece are accepted, each begins and ends
\* in the block it was asked for, and together they are the piece: if pieces
\* are whole numbers of blocks.  If not, every piece but the last is asked for
\* more than it has, and the answer is refused.
ASSUME BlocksMakePieces ==
  \A l \in MCLayouts, n \in 1 .. 3 : \A p \in Pieces(l) :
    /\ \A b \in BlocksOf(l, n, p) :
         WholeBlocks(l, n) \/ p = l.numPieces - 1 =>
           /\ CalculateBlockLength(l, n, p, b) > 0
           /\ IsValidBlock(l, p, BlockOffset(n, b), CalculateBlockLength(l, n, p, b))
           /\ \A x \in Asked(l, n, p, b) : BlockIndex(n, x) = b
    /\ WholeBlocks(l, n) =>
         UNION {Asked(l, n, p, b) : b \in BlocksOf(l, n, p)} = 0 .. LengthOf(l, p) - 1
    /\ ~WholeBlocks(l, n) /\ p # l.numPieces - 1 =>
         LET b == NumBlocksOf(l, n, p) - 1
         IN ~IsValidBlock(l, p, BlockOffset(n, b), CalculateBlockLength(l, n, p, b))

\* One file, larger than an offset can say.
MCLargeFile ==
  {ParsedLayout([length |-> 6, pieces |-> 3 * HashLength, pieceLength |-> 2])}

=============================================================================
