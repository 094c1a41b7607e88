----------------------------- MODULE FileWriter -----------------------------
(***************************************************************************)
(* Where the bytes of a torrent go: PieceManager::save_piece, the queue,   *)
(* and FileManager's writer thread with calculate_files_write_info.  The   *)
(* stop flag, which may end the thread before its queue is empty, and that *)
(* the thread does its work in the end, are in Client.                     *)
(*                                                                         *)
(* A byte of the torrent is named by its position, and a string by the     *)
(* piece whose bytes it holds.  calculate_files_write_info first lists     *)
(* what is to be written where; here each entry is written when it is      *)
(* found, which nobody but the writer can tell.                            *)
(***************************************************************************)
EXTENDS Integers, Sequences, FiniteSets

CONSTANTS
  Layouts,        \* the torrents: see LayoutOK
  OffsetModulus   \* the queue holds uint32_t offsets: 2^32

\* A torrent's files by their boundaries: file f has the positions from
\* bounds[f] up to, not including, bounds[f + 1].  There is a hash for every
\* piece that begins in the torrent.
TotalLength(l) == l.bounds[Len(l.bounds)]
LayoutOK(l) ==
  /\ l.bounds \in Seq(Nat) /\ Len(l.bounds) > 1
  /\ l.bounds[1] = 0
  /\ \A f, g \in DOMAIN l.bounds : f <= g => l.bounds[f] <= l.bounds[g]
  /\ l.pieceLength \in Nat \ {0} /\ l.numPieces \in Nat
  /\ \A p \in 0 .. l.numPieces - 1 : p * l.pieceLength < TotalLength(l)
  /\ TotalLength(l) <= l.numPieces * l.pieceLength

ASSUME FileWriterAssumption ==
  /\ \A l \in Layouts : LayoutOK(l)
  /\ OffsetModulus \in Nat \ {0}

VARIABLES
  layout,       \* the torrent
  saved,        \* pieces that PieceManager has saved
  queue,        \* write_queue_: pairs of an offset and the piece in the string
  finished,     \* pieces file_writer has been through; their number is
                \* write_count
  writer,       \* where the writer is: it polls, finds the first file of a
                \* piece, or splits the piece among files
  piece,        \* the piece that was dequeued
  offset,       \* offset and current_file_offset
  currentFile,  \* current_file, counted from 1
  remaining,    \* remaining_piece_length
  dataOffset,   \* curr_data_offset
  disk          \* what each byte of each file holds

vars == <<layout, saved, queue, finished, writer, piece, offset, currentFile,
          remaining, dataOffset, disk>>

Files(l) == 1 .. Len(l.bounds) - 1
FileLength(l, f) == l.bounds[f + 1] - l.bounds[f]

Pieces(l) == 0 .. l.numPieces - 1
PieceStart(l, p) == p * l.pieceLength

\* A faulty variant: the last piece is as long as the others.
LengthOfAny(l, p) == l.pieceLength

\* current_piece_length, by a remainder, for the last piece.
LengthOf(l, p) ==
  LET last == TotalLength(l) % l.pieceLength
  IN IF p = l.numPieces - 1 /\ last # 0 THEN last ELSE l.pieceLength

\* The bytes of the files, and the position of each in the torrent.
Cells(l) == {c \in Files(l) \X (0 .. TotalLength(l)) : c[2] < FileLength(l, c[1])}
Position(l, c) == l.bounds[c[1]] + c[2]
NotWritten == -1

Init ==
  /\ layout \in Layouts
  /\ saved = {} /\ queue = <<>> /\ finished = {}
  /\ writer = "polling" /\ piece = 0 /\ offset = 0 /\ currentFile = 1
  /\ remaining = 0 /\ dataOffset = 0
  /\ disk = [c \in Cells(layout) |-> NotWritten]

-----------------------------------------------------------------------------
\* PieceManager::save_piece: pieces are completed in any order.
SavePiece(p) ==
  /\ p \notin saved
  /\ saved' = saved \cup {p}
  /\ queue' = Append(queue, [offset |-> PieceStart(layout, p) % OffsetModulus,
                             piece |-> p])
  /\ UNCHANGED <<layout, finished, writer, piece, offset, currentFile,
                 remaining, dataOffset, disk>>

\* The head of file_writer's loop, and the call of calculate_files_write_info.
Dequeue ==
  /\ writer = "polling" /\ queue # <<>>
  /\ Cardinality(finished) # layout.numPieces
  /\ queue' = Tail(queue)
  /\ piece' = Head(queue).piece
  /\ offset' = Head(queue).offset
  /\ currentFile' = 1
  /\ writer' = "finding"
  /\ UNCHANGED <<layout, saved, finished, remaining, dataOffset, disk>>

\* A faulty variant: off by one at a file's end.
NextFileTooEarly ==
  /\ writer = "finding"
  /\ offset + 1 >= FileLength(layout, currentFile)
  /\ offset' = offset - FileLength(layout, currentFile)
  /\ currentFile' = currentFile + 1
  /\ UNCHANGED <<layout, saved, queue, finished, writer, piece, remaining,
                 dataOffset, disk>>

\* The piece begins after this file.
NextFile ==
  /\ writer = "finding"
  /\ offset >= FileLength(layout, currentFile)
  /\ offset' = offset - FileLength(layout, currentFile)
  /\ currentFile' = currentFile + 1
  /\ UNCHANGED <<layout, saved, queue, finished, writer, piece, remaining,
                 dataOffset, disk>>

FileFound ==
  /\ writer = "finding"
  /\ offset < FileLength(layout, currentFile)
  /\ writer' = "splitting"
  /\ remaining' = LengthOf(layout, piece)
  /\ dataOffset' = 0
  /\ UNCHANGED <<layout, saved, queue, finished, piece, offset, currentFile, disk>>

\* bytes_to_write
BytesToWrite ==
  LET room == FileLength(layout, currentFile) - offset
  IN IF remaining < room THEN remaining ELSE room

\* seekp and write.
Written(n) ==
  [c \in Cells(layout) |->
     IF c[1] = currentFile /\ c[2] \in offset .. offset + n - 1
     THEN PieceStart(layout, piece) + dataOffset + (c[2] - offset)
     ELSE disk[c]]

\* A faulty variant: every file gets the piece from its beginning.
WriteChunkSameData ==
  /\ writer = "splitting" /\ remaining > 0
  /\ disk' = Written(BytesToWrite)
  /\ remaining' = remaining - BytesToWrite
  /\ currentFile' = currentFile + 1
  /\ offset' = 0
  /\ UNCHANGED <<layout, saved, queue, finished, writer, piece, dataOffset>>

\* As much of the piece as this file takes; the rest goes to the next one.
WriteChunk ==
  /\ writer = "splitting" /\ remaining > 0
  /\ disk' = Written(BytesToWrite)
  /\ remaining' = remaining - BytesToWrite
  /\ dataOffset' = dataOffset + BytesToWrite
  /\ currentFile' = currentFile + 1
  /\ offset' = 0
  /\ UNCHANGED <<layout, saved, queue, finished, writer, piece>>

\* A faulty variant: what does not fit into the first file is forgotten.
PieceDoneAfterOneFile ==
  /\ writer = "splitting" /\ (remaining = 0 \/ dataOffset > 0)
  /\ finished' = finished \cup {piece}
  /\ writer' = "polling"
  /\ UNCHANGED <<layout, saved, queue, piece, offset, currentFile, remaining,
                 dataOffset, disk>>

\* write_count goes up.
PieceDone ==
  /\ writer = "splitting" /\ remaining = 0
  /\ finished' = finished \cup {piece}
  /\ writer' = "polling"
  /\ UNCHANGED <<layout, saved, queue, piece, offset, currentFile, remaining,
                 dataOffset, disk>>

Writer == Dequeue \/ NextFile \/ FileFound \/ WriteChunk \/ PieceDone

\* file_writer has returned.
AllDone == finished = Pieces(layout) /\ writer = "polling" /\ UNCHANGED vars

Next == (\E p \in Pieces(layout) : SavePiece(p)) \/ Writer \/ AllDone

Spec == Init /\ [][Next]_vars

-----------------------------------------------------------------------------
TypeOK ==
  /\ layout \in Layouts
  /\ saved \subseteq Pieces(layout) /\ finished \subseteq Pieces(layout)
  /\ queue \in Seq([offset : 0 .. OffsetModulus - 1, piece : Pieces(layout)])
  /\ writer \in {"polling", "finding", "splitting"}
  /\ piece \in Nat /\ offset \in Nat /\ currentFile \in Nat
  /\ remaining \in Nat /\ dataOffset \in Nat
  /\ disk \in [Cells(layout) -> (0 .. TotalLength(layout) - 1) \cup {NotWritten}]

(***************************************************************************)
(* Neither loop of calculate_files_write_info looks at the number of       *)
(* files: that they never run past the last one follows from the lengths   *)
(* of the pieces and files alone, files of length zero included.           *)
(***************************************************************************)
StaysInFiles ==
  writer = "finding" \/ (writer = "splitting" /\ remaining > 0)
    => currentFile \in Files(layout)

(***************************************************************************)
(* Every byte that is written is the byte of the torrent that belongs      *)
(* there, wherever pieces and files are cut and in whatever order the      *)
(* pieces come.                                                            *)
(***************************************************************************)
BytesInPlace ==
  \A c \in Cells(layout) : disk[c] \in {NotWritten, Position(layout, c)}

\* Cell c holds a byte of piece p.
InPiece(l, p, c) ==
  /\ PieceStart(l, p) <= Position(l, c)
  /\ Position(l, c) < PieceStart(l, p) + LengthOf(l, p)

\* The pieces in write_queue_, and the one file_writer holds.
Queued == {queue[i].piece : i \in DOMAIN queue}
InHand == IF writer = "polling" THEN {} ELSE {piece}

(***************************************************************************)
(* A piece that is counted as written is there to its last byte, and of a  *)
(* piece that is not counted there is nothing, unless it is being written: *)
(* no write reaches into a neighbour.                                      *)
(***************************************************************************)
FinishedIsOnDisk ==
  \A p \in Pieces(layout), c \in Cells(layout) : InPiece(layout, p, c) =>
    /\ p \in finished => disk[c] = Position(layout, c)
    /\ disk[c] # NotWritten =>
         p \in finished \/ (writer = "splitting" /\ p = piece)

=============================================================================
