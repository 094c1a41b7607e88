------------------------------- MODULE Client -------------------------------
(***************************************************************************)
(* A run of the client down to the bytes of its files: the threads and the *)
(* stop flag of module Shutdown, and the writer thread's work of module    *)
(* FileWriter.  What a stop, at any moment, leaves in the files is a       *)
(* question about the two of them together.                                *)
(*                                                                         *)
(* A step that both modules speak of is taken jointly: the count of        *)
(* Shutdown goes up when FileWriter's queue gets a named piece, and the    *)
(* writer that only `writes' there splits a piece among files here.  Every *)
(* other step belongs to one module and leaves the other's state alone.    *)
(***************************************************************************)
EXTENDS Shutdown, Sequences, FiniteSets

CONSTANTS
  Layouts,        \* the torrents, as in FileWriter
  OffsetModulus   \* the queue holds uint32_t offsets: 2^32

VARIABLES
  layout, saved, queue, finished, piece, offset, currentFile, remaining,
  dataOffset, disk,   \* of FileWriter
  step                \* FileWriter's writer: what file_writer does

F == INSTANCE FileWriter WITH writer <- step

ASSUME ClientAssumption ==
  /\ \A l \in Layouts : F!LayoutOK(l) /\ l.numPieces = NumPieces
  /\ OffsetModulus \in Nat \ {0}

fileVars == <<layout, saved, queue, finished, step, piece, offset, currentFile,
              remaining, dataOffset, disk>>
clientVars == <<vars, fileVars>>

ClientInit == Init /\ F!Init

-----------------------------------------------------------------------------
\* The end of add_block for a verified piece: save_piece, then the count.
Complete(p) == CompletePiece /\ F!SavePiece(p)

\* The head of file_writer's loop, when there is a piece.
TakePiece ==
  /\ WriterPolls /\ writer' = "writing"
  /\ F!Dequeue

\* A faulty variant: the flag is looked at before each file, too.
WriterEndsAnywhere ==
  /\ \/ WriterPolls /\ writer' = "done"
     \/ /\ writer = "writing" /\ stopDownload /\ ~Ended
        /\ writer' = "done"
        /\ UNCHANGED <<stopDownload, completed, taken, written, drawer,
                       drawerJoinable, main, returnTo, thrown, announced>>
  /\ UNCHANGED fileVars

\* The head of the loop, at its end: what is queued is not looked at.
WriterEnds ==
  /\ WriterPolls /\ writer' = "done"
  /\ UNCHANGED fileVars

\* A faulty variant: write_count goes up in the loop over the files.
SplitCounting ==
  /\ ~Ended
  /\ \/ (F!NextFile \/ F!FileFound) /\ UNCHANGED written
     \/ F!WriteChunk /\ written' = written + 1
  /\ UNCHANGED <<stopDownload, completed, taken, writer, drawer,
                 drawerJoinable, main, returnTo, thrown, announced>>

\* In the body of the loop nobody looks at the flag; only the end of the
\* process ends it.
Split ==
  /\ ~Ended
  /\ F!NextFile \/ F!FileFound \/ F!WriteChunk
  /\ UNCHANGED vars

PieceWritten == WriterWrites /\ F!PieceDone

WriterThread == TakePiece \/ WriterEnds \/ Split \/ PieceWritten

\* The other threads, the signal handler, and the end.
Elsewhere ==
  /\ Main \/ Interrupt \/ DrawerRuns \/ Done
  /\ UNCHANGED fileVars

ClientNext ==
  \/ \E p \in F!Pieces(layout) : Complete(p)
  \/ WriterThread
  \/ Elsewhere

(***************************************************************************)
(* As in Shutdown: the threads are scheduled and the cleanup coroutine's   *)
(* timer fires.  Nothing is said of pieces, peers, errors and signals.     *)
(***************************************************************************)
Alone(action) == action /\ UNCHANGED fileVars

ClientFairness ==
  /\ WF_clientVars(WriterThread)
  /\ WF_clientVars(Alone(DrawerRuns))
  /\ WF_clientVars(Alone(StopThread))
  /\ WF_clientVars(Alone(StartWriter)) /\ WF_clientVars(Alone(StartDraw))
  /\ WF_clientVars(Alone(CleanupEnds)) /\ WF_clientVars(Alone(Report))
  /\ WF_clientVars(Alone(JoinWriter)) /\ WF_clientVars(Alone(LeaveMain))

ClientSpec == ClientInit /\ [][ClientNext]_clientVars
FairClientSpec == ClientSpec /\ ClientFairness

-----------------------------------------------------------------------------
(***************************************************************************)
(* The types, and that the counts of the threads (num_pieces_completed_,   *)
(* write_count) are the numbers of the pieces they stand for.              *)
(***************************************************************************)
ClientTypeOK ==
  /\ TypeOK /\ F!TypeOK
  /\ completed = Cardinality(saved)
  /\ written = Cardinality(finished)
  /\ writer = "writing" <=> step # "polling"

\* The piece the writer has taken out of the queue and not yet counted.
InHand == IF writer = "writing" THEN {piece} ELSE {}

(***************************************************************************)
(* At every moment, and so whenever main returns, aborts or is ended by    *)
(* _exit in the signal handler, every verified piece that neither lies in  *)
(* the queue nor is in the writer's hand is whole in what was handed to    *)
(* the files, and of no other piece, but the one in hand, is there a byte: *)
(* a stop tears one piece at most, and none when the writer has returned.  *)
(***************************************************************************)
StopLosesOnlyQueued ==
  \A p \in F!Pieces(layout) \ InHand, c \in F!Cells(layout) :
    F!InPiece(layout, p, c) =>
      disk[c] = IF p \in saved \ F!Queued THEN F!Position(layout, c)
                ELSE F!NotWritten

(***************************************************************************)
(* As long as nobody stops the client, a verified piece gets to its files, *)
(* to the last byte: the writer neither ends early nor skips one, however  *)
(* its polls and the arrivals fall.                                        *)
(***************************************************************************)
SavedReachesDisk ==
  \A p \in 0 .. NumPieces - 1 :
    p \in saved ~> \/ stopDownload
                   \/ \A c \in F!Cells(layout) : F!InPiece(layout, p, c)
                        => disk[c] = F!Position(layout, c)

(***************************************************************************)
(* A download that is announced as successful is in its files: every       *)
(* verified piece is `added to a queue to be written by the writer thread' *)
(* (TechnicalDesign.md).  Violated: see the README.                        *)
(***************************************************************************)
AnnouncedIsOnDisk ==
  main = "exited" /\ announced
    => \A c \in F!Cells(layout) : disk[c] = F!Position(layout, c)

=============================================================================
