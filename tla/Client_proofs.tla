---------------------------- MODULE Client_proofs ----------------------------
(***************************************************************************)
(* What a whole run of the client does to the files, for every torrent     *)
(* whose length a queued offset can say.  Shutdown and FileWriter are      *)
(* joined: each step of the client is shown to be a step of the one and of *)
(* the other, so that what was proved of them holds here, and an invariant *)
(* ties the counts of the first to the named pieces of the second.         *)
(***************************************************************************)
EXTENDS Client, Shutdown_proofs, FiniteSetTheorems

\* The theorems about FileWriter, for the client's variables.
FP == INSTANCE FileWriter_proofs WITH writer <- step

ClientSmall == \A l \in Layouts : F!TotalLength(l) <= OffsetModulus

-----------------------------------------------------------------------------
LEMMA Assumptions ==
  /\ \A l \in Layouts : FP!LayoutOK(l)
  /\ OffsetModulus \in Nat \ {0}
  /\ \A l \in Layouts : l.numPieces = NumPieces
BY ClientAssumption DEF F!LayoutOK, FP!LayoutOK, F!TotalLength, FP!TotalLength

LEMMA SmallIsSmall == ClientSmall <=> FP!SmallTorrents
BY DEF ClientSmall, FP!SmallTorrents, F!TotalLength, FP!TotalLength

\* The two instances of FileWriter are one.
LEMMA SaveIsSave ==
  ASSUME NEW p, p \in F!Pieces(layout), F!SavePiece(p)
  PROVE  p \in FP!Pieces(layout) /\ FP!SavePiece(p)
BY DEF F!SavePiece, FP!SavePiece, F!PieceStart, FP!PieceStart, F!Pieces, FP!Pieces

LEMMA DequeueIsDequeue == F!Dequeue => FP!Dequeue
BY DEF F!Dequeue, FP!Dequeue, F!Cardinality, FP!Cardinality

LEMMA SplitIsSplit ==
  F!NextFile \/ F!FileFound \/ F!WriteChunk
    => FP!NextFile \/ FP!FileFound \/ FP!WriteChunk
<1>1. F!NextFile => FP!NextFile
  BY DEF F!NextFile, FP!NextFile, F!FileLength, FP!FileLength
<1>2. F!FileFound => FP!FileFound
  BY DEF F!FileFound, FP!FileFound, F!FileLength, FP!FileLength, F!LengthOf,
         FP!LengthOf, F!TotalLength, FP!TotalLength
<1>3. F!WriteChunk => FP!WriteChunk
  BY DEF F!WriteChunk, FP!WriteChunk, F!BytesToWrite, FP!BytesToWrite,
         F!Written, FP!Written, F!Cells, FP!Cells, F!Files, FP!Files,
         F!FileLength, FP!FileLength, F!TotalLength, FP!TotalLength,
         F!PieceStart, FP!PieceStart
<1> QED
  BY <1>1, <1>2, <1>3

LEMMA DoneIsDone == F!PieceDone => FP!PieceDone
BY DEF F!PieceDone, FP!PieceDone

-----------------------------------------------------------------------------
\* A step of the client, seen from the files.
LEMMA FileStep == [ClientNext]_clientVars => [FP!Next]_FP!vars
<1> SUFFICES ASSUME [ClientNext]_clientVars PROVE [FP!Next]_FP!vars
  OBVIOUS
<1> USE DEF FP!vars, fileVars
<1>1. CASE \E p \in F!Pieces(layout) : Complete(p)
  BY <1>1, SaveIsSave DEF Complete, FP!Next
<1>2. CASE WriterThread
  <2>1. TakePiece => FP!Dequeue
    BY DequeueIsDequeue DEF TakePiece
  <2>2. WriterEnds => UNCHANGED FP!vars
    BY DEF WriterEnds
  <2>3. Split => FP!NextFile \/ FP!FileFound \/ FP!WriteChunk
    BY SplitIsSplit DEF Split
  <2>4. PieceWritten => FP!PieceDone
    BY DoneIsDone DEF PieceWritten
  <2> QED
    BY <1>2, <2>1, <2>2, <2>3, <2>4 DEF WriterThread, FP!Next, FP!Writer
<1>3. CASE Elsewhere \/ UNCHANGED clientVars
  BY <1>3 DEF Elsewhere, clientVars
<1> QED
  BY <1>1, <1>2, <1>3 DEF ClientNext

\* A step of the client, seen from the threads.
LEMMA ThreadStep == [ClientNext]_clientVars => [Next]_vars
BY DEF ClientNext, clientVars, Complete, WriterThread, TakePiece, WriterEnds,
       Split, PieceWritten, Elsewhere, Next

(***************************************************************************)
(* The client's threads, stop flag and ways to end are those of Shutdown:  *)
(* the writer's work on the bytes is what it calls writing.                *)
(***************************************************************************)
THEOREM ClientIsShutdown == ClientSpec => Spec
<1>1. ClientInit => Init
  BY DEF ClientInit
<1> QED
  BY <1>1, ThreadStep, PTL DEF ClientSpec, Spec

(***************************************************************************)
(* The client's files are those of FileWriter, whenever it is stopped.     *)
(***************************************************************************)
THEOREM ClientIsFileWriter == ClientSpec => FP!Spec
<1>1. ClientInit => FP!Init
  BY DEF ClientInit, F!Init, FP!Init, F!Cells, FP!Cells, F!Files, FP!Files,
         F!FileLength, FP!FileLength, F!TotalLength, FP!TotalLength,
         F!NotWritten, FP!NotWritten
<1> QED
  BY <1>1, FileStep, PTL DEF ClientSpec, FP!Spec

-----------------------------------------------------------------------------
\* What holds of the threads, and of the files, in every run of the client.
LEMMA ThreadsHold == ClientSpec => [](IInv /\ CausesInv)
BY ClientIsShutdown, ShutdownInductive, ShutdownCauses, PTL

LEMMA FilesHold ==
  ASSUME ClientSmall
  PROVE  ClientSpec => []FP!IInv
<1>1. FP!Spec => []FP!IInv
  BY Assumptions, SmallIsSmall, FP!Inductive
<1> QED
  BY <1>1, ClientIsFileWriter, PTL

\* What ties the two together.
LinkInv ==
  /\ completed = Cardinality(saved)
  /\ written = Cardinality(finished)
  /\ writer = "writing" <=> step # "polling"

LEMMA PiecesAreFinite ==
  ASSUME FP!IInv
  PROVE  /\ IsFiniteSet(saved) /\ Cardinality(saved) \in Nat
         /\ IsFiniteSet(finished) /\ Cardinality(finished) \in Nat
         /\ Cardinality(finished) = NumPieces => finished = FP!Pieces(layout)
         /\ Cardinality(saved) = NumPieces => saved = FP!Pieces(layout)
<1> DEFINE P == FP!Pieces(layout)
<1>1. /\ layout \in Layouts
      /\ saved \subseteq P /\ finished \subseteq P
  BY DEF FP!IInv, FP!TypeOK
<1>2. P = 0 .. NumPieces - 1 /\ NumPieces \in Nat \ {0}
  BY <1>1, Assumptions, ShutdownAssumption DEF FP!Pieces
<1>3. IsFiniteSet(P) /\ Cardinality(P) = NumPieces
  BY <1>2, FS_Interval
<1> HIDE DEF P
<1>4. IsFiniteSet(saved) /\ IsFiniteSet(finished)
  BY <1>1, <1>3, FS_Subset
<1>5. /\ Cardinality(finished) = NumPieces => finished = P
      /\ Cardinality(saved) = NumPieces => saved = P
  BY <1>1, <1>3, FS_Subset
<1> QED
  BY <1>4, <1>5, FS_CardinalityType DEF P

LEMMA LinkKept ==
  ASSUME FP!IInv, IInv, LinkInv, [ClientNext]_clientVars
  PROVE  LinkInv'
<1> USE DEF LinkInv, fileVars, threadVars, SetStop
<1>1. ASSUME NEW p \in F!Pieces(layout), Complete(p)
      PROVE  LinkInv'
  <2>1. /\ p \notin saved /\ saved' = saved \cup {p}
        /\ completed' = completed + 1
        /\ UNCHANGED <<finished, step, writer, written>>
    BY <1>1 DEF Complete, CompletePiece, F!SavePiece
  <2>2. Cardinality(saved') = Cardinality(saved) + 1
    BY <2>1, PiecesAreFinite, FS_AddElement
  <2> QED
    BY <2>1, <2>2
<1>2. CASE TakePiece
  BY <1>2 DEF TakePiece, WriterPolls, F!Dequeue
<1>3. CASE WriterEnds
  BY <1>3 DEF WriterEnds, WriterPolls
<1>4. CASE Split
  BY <1>4 DEF Split, vars, F!NextFile, F!FileFound, F!WriteChunk
<1>5. CASE PieceWritten
  <2>1. /\ writer' = "polling" /\ step' = "polling"
        /\ step = "splitting"
        /\ written' = written + 1 /\ finished' = finished \cup {piece}
        /\ UNCHANGED <<completed, saved>>
    BY <1>5 DEF PieceWritten, WriterWrites, F!PieceDone
  <2>2. piece \notin finished
    BY <2>1 DEF FP!IInv, FP!AccountOK, FP!InHand
  <2>3. Cardinality(finished') = Cardinality(finished) + 1
    BY <2>1, <2>2, PiecesAreFinite, FS_AddElement
  <2> QED
    BY <2>1, <2>3
<1>6. CASE Elsewhere
  <2>1. UNCHANGED <<saved, finished, step>>
    BY <1>6 DEF Elsewhere
  <2>2. UNCHANGED <<completed, written, writer>> \/ StartWriter
    <3>1. CASE Main
      BY <3>1 DEF Main, StopThread, FailEarly, StartDraw, NoPeersLeft,
                  CleanupEnds, Report, FailLate, JoinWriter, LeaveMain
    <3>2. CASE Interrupt \/ DrawerRuns \/ Done
      BY <3>2 DEF Interrupt, DrawerRuns, Done, vars
    <3> QED
      BY <1>6, <3>1, <3>2 DEF Elsewhere
  <2>3. CASE StartWriter
    BY <2>1, <2>3 DEF StartWriter, IInv, ThreadsInv
  <2> QED
    BY <2>1, <2>2, <2>3
<1>7. CASE UNCHANGED clientVars
  BY <1>7 DEF clientVars, vars
<1> QED
  BY <1>1, <1>2, <1>3, <1>4, <1>5, <1>6, <1>7 DEF ClientNext, WriterThread

LEMMA LinkHolds ==
  ASSUME ClientSmall
  PROVE  ClientSpec => []LinkInv
<1>1. ClientInit => LinkInv
  <2>1. Cardinality({}) = 0
    BY FS_EmptySet
  <2> QED
    BY <2>1 DEF ClientInit, Init, F!Init, LinkInv
<1>2. FP!IInv /\ IInv /\ LinkInv /\ [ClientNext]_clientVars => LinkInv'
  BY LinkKept
<1> QED
  BY <1>1, <1>2, ThreadsHold, FilesHold, PTL DEF ClientSpec

-----------------------------------------------------------------------------
(***************************************************************************)
(* num_pieces_completed_ is the number of verified pieces, write_count the *)
(* number of those in their files, at every moment of a run.               *)
(***************************************************************************)
THEOREM ClientTypeCorrect ==
  ASSUME ClientSmall
  PROVE  ClientSpec => []ClientTypeOK
<1>1. IInv => TypeOK
  BY DEF IInv, CountsOK, FlagsOK, ThreadsInv, TypeOK, RunningAt, EndedAt
<1>2. FP!IInv => F!TypeOK
  <2>1. FP!TypeOK => F!TypeOK
    BY DEF F!TypeOK, FP!TypeOK, F!Pieces, FP!Pieces, F!Cells, FP!Cells,
           F!Files, FP!Files, F!FileLength, FP!FileLength, F!TotalLength,
           FP!TotalLength, F!NotWritten, FP!NotWritten
  <2> QED
    BY <2>1 DEF FP!IInv
<1>3. IInv /\ FP!IInv /\ LinkInv => ClientTypeOK
  BY <1>1, <1>2 DEF LinkInv, ClientTypeOK
<1> QED
  BY <1>3, ThreadsHold, FilesHold, LinkHolds, PTL

(***************************************************************************)
(* Every way out of main has joined both threads, with the real writer's   *)
(* work in between.                                                        *)
(***************************************************************************)
THEOREM ClientJoinsThreads == ClientSpec => []ThreadsJoined
BY ClientIsShutdown, BothThreadsJoined, PTL

\* What FileWriter's invariant says of the bytes of a piece not in hand.
LEMMA StopLeaves ==
  ASSUME FP!IInv, LinkInv
  PROVE  StopLosesOnlyQueued
<1> SUFFICES ASSUME NEW p \in F!Pieces(layout) \ InHand,
                    NEW c \in F!Cells(layout), F!InPiece(layout, p, c)
             PROVE  disk[c] = IF p \in saved \ F!Queued
                              THEN F!Position(layout, c) ELSE F!NotWritten
  BY DEF StopLosesOnlyQueued
<1>1. /\ p \in FP!Pieces(layout) /\ c \in FP!Cells(layout)
      /\ FP!InPiece(layout, p, c)
  BY DEF F!Pieces, FP!Pieces, F!Cells, FP!Cells, F!Files, FP!Files,
         F!FileLength, FP!FileLength, F!TotalLength, FP!TotalLength,
         F!InPiece, FP!InPiece, F!PieceStart, FP!PieceStart, F!Position,
         FP!Position, F!LengthOf, FP!LengthOf
<1>2. /\ F!Queued = FP!Queued
      /\ F!Position(layout, c) = FP!Position(layout, c)
      /\ F!NotWritten = FP!NotWritten
  BY DEF F!Queued, FP!Queued, F!Position, FP!Position, F!NotWritten, FP!NotWritten
<1>3. ~(step # "polling" /\ p = piece)
  BY DEF LinkInv, InHand
<1>4. p \in saved \ FP!Queued <=> p \in finished
  BY <1>3 DEF FP!IInv, FP!AccountOK, FP!InHand
<1>5. CASE p \in finished
  BY <1>1, <1>2, <1>4, <1>5 DEF FP!IInv, FP!FinishedOK, FP!Holds, FP!InPiece
<1>6. CASE p \notin finished
  BY <1>1, <1>2, <1>3, <1>4, <1>6 DEF FP!IInv, FP!UntouchedOK
<1> QED
  BY <1>5, <1>6

(***************************************************************************)
(* At every moment of a run, whoever stops it and even if _exit kills the  *)
(* writer inside a piece: what was handed to the files is every verified   *)
(* piece that has left the queue, whole, and nothing else, the one piece   *)
(* in the writer's hand apart.                                             *)
(***************************************************************************)
THEOREM StopLeavesWholePieces ==
  ASSUME ClientSmall
  PROVE  ClientSpec => []StopLosesOnlyQueued
<1>1. FP!IInv /\ LinkInv => StopLosesOnlyQueued
  BY StopLeaves
<1> QED
  BY <1>1, FilesHold, LinkHolds, PTL

(***************************************************************************)
(* A writer thread that returned though nobody had stopped the client      *)
(* leaves the torrent, byte for byte.                                      *)
(***************************************************************************)
THEOREM UnstoppedIsComplete ==
  ASSUME ClientSmall
  PROVE  ClientSpec =>
           [](writer = "done" /\ ~stopDownload
                => \A c \in F!Cells(layout) : disk[c] = F!Position(layout, c))
<1>1. ASSUME CausesInv, FP!IInv, LinkInv, writer = "done", ~stopDownload,
             NEW c \in F!Cells(layout)
      PROVE  disk[c] = F!Position(layout, c)
  <2>1. finished = FP!Pieces(layout)
    BY <1>1, PiecesAreFinite DEF CausesInv, LinkInv
  <2>2. /\ c \in FP!Cells(layout)
        /\ F!Position(layout, c) = FP!Position(layout, c)
    BY <1>1 DEF F!Cells, FP!Cells, F!Files, FP!Files, F!FileLength,
       FP!FileLength, F!TotalLength, FP!TotalLength, F!Position, FP!Position
  <2> QED
    BY <1>1, <2>1, <2>2, Assumptions, FP!AllFinished
<1>2. IInv /\ CausesInv /\ FP!IInv /\ LinkInv
        => (writer = "done" /\ ~stopDownload
              => \A c \in F!Cells(layout) : disk[c] = F!Position(layout, c))
  BY <1>1
<1> QED
  BY <1>2, ThreadsHold, FilesHold, LinkHolds, PTL

(***************************************************************************)
(* How much a download that was announced as complete may lack when the    *)
(* process has ended: the pieces that were still in write_queue_, and of   *)
(* those every byte.  (That it lacks nothing is false: AnnouncedIsOnDisk.) *)
(***************************************************************************)
THEOREM AnnouncedLacksOnlyQueued ==
  ASSUME ClientSmall
  PROVE  ClientSpec =>
           [](main = "exited" /\ announced =>
                \A p \in F!Pieces(layout), c \in F!Cells(layout) :
                  F!InPiece(layout, p, c) =>
                    disk[c] = IF p \in F!Queued THEN F!NotWritten
                              ELSE F!Position(layout, c))
<1>1. ASSUME IInv, CausesInv, FP!IInv, LinkInv, main = "exited", announced,
             NEW p \in F!Pieces(layout), NEW c \in F!Cells(layout),
             F!InPiece(layout, p, c)
      PROVE  disk[c] = IF p \in F!Queued THEN F!NotWritten
                       ELSE F!Position(layout, c)
  <2>1. writer = "done"
    BY <1>1, ShutdownAssumption DEF IInv, ThreadsInv, CausesInv
  <2>2. saved = FP!Pieces(layout)
    BY <1>1, PiecesAreFinite DEF CausesInv, LinkInv
  <2>3. p \in saved
    BY <1>1, <2>2 DEF F!Pieces, FP!Pieces
  <2>4. StopLosesOnlyQueued
    BY <1>1, StopLeaves
  <2> QED
    BY <1>1, <2>1, <2>3, <2>4 DEF StopLosesOnlyQueued, InHand
<1>2. IInv /\ CausesInv /\ FP!IInv /\ LinkInv
        => (main = "exited" /\ announced =>
              \A p \in F!Pieces(layout), c \in F!Cells(layout) :
                F!InPiece(layout, p, c) =>
                  disk[c] = IF p \in F!Queued THEN F!NotWritten
                            ELSE F!Position(layout, c))
  BY <1>1
<1> QED
  BY <1>2, ThreadsHold, FilesHold, LinkHolds, PTL

=============================================================================
