--------------------------- MODULE Shutdown_proofs ---------------------------
(***************************************************************************)
(* The safety of the shutdown, for every number of pieces and whether or   *)
(* not start_download may throw while the writer runs.                     *)
(***************************************************************************)
EXTENDS Shutdown, TLAPS

\* What the counters and the writer say of each other.
CountsOK ==
  /\ completed \in 0 .. NumPieces
  /\ taken \in 0 .. completed
  /\ written \in 0 .. taken
  /\ taken = written + (IF writer = "writing" THEN 1 ELSE 0)
  /\ writer \in WriterAt

FlagsOK ==
  /\ stopDownload \in BOOLEAN
  /\ drawerJoinable \in BOOLEAN
  /\ thrown \in BOOLEAN
  /\ announced \in BOOLEAN

(***************************************************************************)
(* Which threads exist at each point of the main thread, and that only a   *)
(* drawer that has ended is not joinable.                                  *)
(***************************************************************************)
ThreadsInv ==
  /\ drawer \in DrawerAt
  /\ main \in RunningAt \cup EndedAt
  /\ returnTo \in {"construct", "drained", "report", "exited", "killed"}
  /\ main = "construct" => writer = "none" /\ returnTo = "construct"
  /\ main \in {"construct", "draw"} => drawer = "none"
  /\ main = "joining" => returnTo # "construct"
  /\ main \in {"leave", "exited"} => writer \in {"none", "done"}
  /\ returnTo = "exited" => writer \in {"none", "done"}
  /\ drawerJoinable \/ drawer \in {"none", "done"}
  /\ main = "exited" => ~drawerJoinable

IInv == CountsOK /\ FlagsOK /\ ThreadsInv

LEMMA InitEstablishes == Init => IInv
<1>1. Init => CountsOK
  BY ShutdownAssumption DEF Init, CountsOK, WriterAt
<1>2. Init => FlagsOK
  BY DEF Init, FlagsOK
<1>3. Init => ThreadsInv
  BY DEF Init, ThreadsInv, DrawerAt, RunningAt, EndedAt
<1> QED
  BY <1>1, <1>2, <1>3 DEF IInv

LEMMA CountsKept == CountsOK /\ ThreadsInv /\ [Next]_vars => CountsOK'
<1> SUFFICES ASSUME CountsOK, ThreadsInv, [Next]_vars PROVE CountsOK'
  OBVIOUS
<1> USE ShutdownAssumption DEF CountsOK, WriterAt, threadVars
<1>1. CASE StopThread
  BY <1>1 DEF StopThread
<1>2. CASE FailEarly
  BY <1>2 DEF FailEarly
<1>3. CASE StartWriter
  BY <1>3 DEF StartWriter, ThreadsInv
<1>4. CASE StartDraw
  BY <1>4 DEF StartDraw
<1>5. CASE CompletePiece
  BY <1>5 DEF CompletePiece
<1>6. CASE NoPeersLeft
  BY <1>6 DEF NoPeersLeft
<1>7. CASE CleanupEnds
  BY <1>7 DEF CleanupEnds
<1>8. CASE Report
  BY <1>8 DEF Report
<1>9. CASE FailLate
  BY <1>9 DEF FailLate
<1>10. CASE JoinWriter
  BY <1>10 DEF JoinWriter
<1>11. CASE LeaveMain
  BY <1>11 DEF LeaveMain
<1>12. CASE Interrupt
  BY <1>12 DEF Interrupt
<1>13. CASE WriterPolls
  BY <1>13 DEF WriterPolls
<1>14. CASE WriterWrites
  BY <1>14 DEF WriterWrites
<1>15. CASE DrawerRuns
  BY <1>15 DEF DrawerRuns
<1>16. CASE UNCHANGED vars
  BY <1>16 DEF vars
<1> QED
  BY <1>1, <1>2, <1>3, <1>4, <1>5, <1>6, <1>7, <1>8, <1>9, <1>10, <1>11, <1>12, <1>13, <1>14, <1>15, <1>16 DEF Next, Main, Done

LEMMA FlagsKept == FlagsOK /\ [Next]_vars => FlagsOK'
<1> SUFFICES ASSUME FlagsOK, [Next]_vars PROVE FlagsOK'
  OBVIOUS
<1> USE DEF FlagsOK, SetStop
<1>1. CASE StopThread
  BY <1>1 DEF StopThread
<1>2. CASE FailEarly
  BY <1>2 DEF FailEarly
<1>3. CASE StartWriter
  BY <1>3 DEF StartWriter
<1>4. CASE StartDraw
  BY <1>4 DEF StartDraw
<1>5. CASE CompletePiece
  BY <1>5 DEF CompletePiece
<1>6. CASE NoPeersLeft
  BY <1>6 DEF NoPeersLeft
<1>7. CASE CleanupEnds
  BY <1>7 DEF CleanupEnds
<1>8. CASE Report
  BY <1>8 DEF Report
<1>9. CASE FailLate
  BY <1>9 DEF FailLate
<1>10. CASE JoinWriter
  BY <1>10 DEF JoinWriter
<1>11. CASE LeaveMain
  BY <1>11 DEF LeaveMain
<1>12. CASE Interrupt
  BY <1>12 DEF Interrupt
<1>13. CASE WriterPolls
  BY <1>13 DEF WriterPolls
<1>14. CASE WriterWrites
  BY <1>14 DEF WriterWrites
<1>15. CASE DrawerRuns
  BY <1>15 DEF DrawerRuns
<1>16. CASE UNCHANGED vars
  BY <1>16 DEF vars
<1> QED
  BY <1>1, <1>2, <1>3, <1>4, <1>5, <1>6, <1>7, <1>8, <1>9, <1>10, <1>11, <1>12, <1>13, <1>14, <1>15, <1>16 DEF Next, Main, Done

LEMMA ThreadsKept == ThreadsInv /\ [Next]_vars => ThreadsInv'
<1> SUFFICES ASSUME ThreadsInv, [Next]_vars PROVE ThreadsInv'
  OBVIOUS
<1> USE DEF ThreadsInv, DrawerAt, RunningAt, EndedAt, threadVars, SetStop
<1>1. CASE StopThread
  BY <1>1 DEF StopThread
<1>2. CASE FailEarly
  BY <1>2 DEF FailEarly
<1>3. CASE StartWriter
  BY <1>3 DEF StartWriter
<1>4. CASE StartDraw
  BY <1>4 DEF StartDraw
<1>5. CASE CompletePiece
  BY <1>5 DEF CompletePiece
<1>6. CASE NoPeersLeft
  BY <1>6 DEF NoPeersLeft
<1>7. CASE CleanupEnds
  BY <1>7 DEF CleanupEnds
<1>8. CASE Report
  BY <1>8 DEF Report
<1>9. CASE FailLate
  BY <1>9 DEF FailLate
<1>10. CASE JoinWriter
  BY <1>10 DEF JoinWriter
<1>11. CASE LeaveMain
  BY <1>11 DEF LeaveMain
<1>12. CASE Interrupt
  BY <1>12 DEF Interrupt
<1>13. CASE WriterPolls
  BY <1>13 DEF WriterPolls
<1>14. CASE WriterWrites
  BY <1>14 DEF WriterWrites
<1>15. CASE DrawerRuns
  BY <1>15 DEF DrawerRuns
<1>16. CASE UNCHANGED vars
  BY <1>16 DEF vars
<1> QED
  BY <1>1, <1>2, <1>3, <1>4, <1>5, <1>6, <1>7, <1>8, <1>9, <1>10, <1>11, <1>12, <1>13, <1>14, <1>15, <1>16 DEF Next, Main, Done

LEMMA ShutdownInductive == Spec => []IInv
<1>1. IInv /\ [Next]_vars => IInv'
  BY CountsKept, FlagsKept, ThreadsKept DEF IInv
<1> QED
  BY <1>1, InitEstablishes, PTL DEF Spec

(***************************************************************************)
(* Why a thread ended, and what an announcement rests on.                  *)
(***************************************************************************)
CausesInv ==
  /\ writer = "done" => stopDownload \/ written = NumPieces
  /\ announced => completed = NumPieces
  /\ completed > 0 => writer # "none"
  /\ main \in {"draw", "run", "drained"} => writer # "none"
  /\ returnTo = "drained" => writer # "none"

LEMMA CausesKept == IInv /\ CausesInv /\ [Next]_vars => CausesInv'
<1> SUFFICES ASSUME IInv, CausesInv, [Next]_vars PROVE CausesInv'
  OBVIOUS
<1>0. /\ completed \in 0 .. NumPieces /\ written \in Nat /\ NumPieces \in Nat
      /\ returnTo \notin {"draw", "run"}
  BY ShutdownAssumption DEF IInv, CountsOK, ThreadsInv
<1> USE <1>0 DEF CausesInv, threadVars, SetStop
<1>1. CASE StopThread
  BY <1>1 DEF StopThread
<1>2. CASE FailEarly
  BY <1>2 DEF FailEarly
<1>3. CASE StartWriter
  BY <1>3 DEF StartWriter
<1>4. CASE StartDraw
  BY <1>4 DEF StartDraw
<1>5. CASE CompletePiece
  BY <1>5 DEF CompletePiece
<1>6. CASE NoPeersLeft
  BY <1>6 DEF NoPeersLeft
<1>7. CASE CleanupEnds
  BY <1>7 DEF CleanupEnds
<1>8. CASE Report
  BY <1>8 DEF Report
<1>9. CASE FailLate
  BY <1>9 DEF FailLate
<1>10. CASE JoinWriter
  BY <1>10 DEF JoinWriter
<1>11. CASE LeaveMain
  BY <1>11 DEF LeaveMain
<1>12. CASE Interrupt
  BY <1>12 DEF Interrupt
<1>13. CASE WriterPolls
  BY <1>13 DEF WriterPolls
<1>14. CASE WriterWrites
  BY <1>14 DEF WriterWrites
<1>15. CASE DrawerRuns
  BY <1>15 DEF DrawerRuns
<1>16. CASE UNCHANGED vars
  BY <1>16 DEF vars
<1> QED
  BY <1>1, <1>2, <1>3, <1>4, <1>5, <1>6, <1>7, <1>8, <1>9, <1>10, <1>11, <1>12, <1>13, <1>14, <1>15, <1>16 DEF Next, Main, Done

LEMMA ShutdownCauses == Spec => []CausesInv
<1>1. Init => CausesInv
  BY ShutdownAssumption DEF Init, CausesInv
<1> QED
  BY <1>1, CausesKept, ShutdownInductive, PTL DEF Spec

\* The counters keep their order: no piece is written that was not taken, and
\* none is taken that was not completed.
THEOREM ShutdownTypeCorrect == Spec => []TypeOK
<1>1. IInv => TypeOK
  BY DEF IInv, CountsOK, FlagsOK, ThreadsInv, TypeOK, RunningAt, EndedAt
<1> QED
  BY <1>1, ShutdownInductive, PTL

\* Every way out of main has joined both threads.
THEOREM BothThreadsJoined == Spec => []ThreadsJoined
<1>1. IInv => ThreadsJoined
  BY DEF IInv, ThreadsInv, ThreadsJoined
<1> QED
  BY <1>1, ShutdownInductive, PTL

(***************************************************************************)
(* The writer ends for a reason: somebody has stopped the client, or every *)
(* piece was written.  An empty queue is none.                             *)
(***************************************************************************)
THEOREM WriterEndsForCause ==
  Spec => [](writer = "done" => stopDownload \/ written = NumPieces)
<1>1. CausesInv => (writer = "done" => stopDownload \/ written = NumPieces)
  BY DEF CausesInv
<1> QED
  BY <1>1, ShutdownCauses, PTL

\* What is announced as complete has been completed, while a writer was there.
THEOREM AnnouncedIsCompleted ==
  Spec => [](announced => completed = NumPieces /\ writer # "none")
<1>1. IInv /\ CausesInv => (announced => completed = NumPieces /\ writer # "none")
  BY ShutdownAssumption DEF CausesInv
<1> QED
  BY <1>1, ShutdownInductive, ShutdownCauses, PTL

=============================================================================
