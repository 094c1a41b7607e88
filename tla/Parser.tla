------------------------------- MODULE Parser -------------------------------
(***************************************************************************)
(* parser::parse_torrent_file: from the dictionaries of a torrent file to  *)
(* what the rest of the client knows of the torrent.  Nothing is kept      *)
(* between calls, so these are operators and not actions.                  *)
(*                                                                         *)
(* A dictionary is a record with the keys the file has.  Of a string of    *)
(* hashes only its length is kept; names, paths and the info hash are left *)
(* out, and file lengths are those of an honest file: not negative.        *)
(***************************************************************************)
EXTENDS Integers, SequencesExt

CONSTANT HashLength   \* bytes of a SHA1 hash: 20

ASSUME ParserAssumption == HashLength \in Nat \ {0}

\* parse_piece_hash: substr(i, 20) for i = 0, 20, 40, ... : of a string whose
\* length is no multiple of 20 the rest is a hash as well.
NumHashes(bytes) == (bytes + HashLength - 1) \div HashLength

\* add_trackers: announce is not looked at if there is an announce-list, an
\* empty one included.
TrackerUrls(torrent) ==
  IF "announceList" \in DOMAIN torrent THEN FlattenSeq(torrent.announceList)
  ELSE <<torrent.announce>>

\* add_files: a torrent with a length has one file, others have a list.
IsSingleFile(info) == "length" \in DOMAIN info

ParsedFiles(info) == IF IsSingleFile(info) THEN <<>> ELSE info.files

ParsedLength(info) ==
  IF IsSingleFile(info) THEN info.length ELSE FoldLeft(+, 0, info.files)

\* FileManager's constructor: without a list there is one file of that length.
FileLengths(info) ==
  IF ParsedFiles(info) = <<>> THEN <<ParsedLength(info)>> ELSE ParsedFiles(info)

\* Where the files begin in the torrent, and where the last one ends.
Boundaries(lengths) ==
  FoldLeft(LAMBDA bounds, n : Append(bounds, Last(bounds) + n), <<0>>, lengths)

\* What FileManager and PieceManager are given.
ParsedLayout(info) ==
  [bounds |-> Boundaries(FileLengths(info)),
   pieceLength |-> info.pieceLength,
   numPieces |-> NumHashes(info.pieces)]

\* at() throws for a key that is missing, and no tracker is an error.
ParseFails(torrent) ==
  \/ {"announceList", "announce"} \cap DOMAIN torrent = {}
  \/ TrackerUrls(torrent) = <<>>
  \/ ~{"pieces", "pieceLength"} \subseteq DOMAIN torrent.info
  \/ {"length", "files"} \cap DOMAIN torrent.info = {}

\* A torrent that its maker got right: a hash for every piece begun.
WellFormed(info) ==
  /\ info.pieceLength > 0
  /\ info.pieces = HashLength * ((ParsedLength(info) + info.pieceLength - 1)
                                   \div info.pieceLength)

=============================================================================
