------------------------------ MODULE MCClient ------------------------------
(***************************************************************************)
(* The torrents of NumPieces pieces that the parser makes of one file of   *)
(* up to four bytes, or of up to three files of up to two bytes.           *)
(***************************************************************************)
EXTENDS Client, Parser

MCInfos ==
  LET sizes == [pieces : {NumPieces * HashLength}, pieceLength : 1 .. 2]
      single == {[length |-> n] @@ s : n \in 1 .. 4, s \in sizes}
      several == {[files |-> f] @@ s : f \in BoundedSeq(0 .. 2, 3), s \in sizes}
  IN {info \in single \cup several : WellFormed(info)}

MCLayouts == {ParsedLayout(info) : info \in MCInfos}

=============================================================================
