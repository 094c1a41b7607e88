------------------------------ MODULE Shutdown ------------------------------
(***************************************************************************)
(* How a run of the client ends: the main thread (which runs every         *)
(* coroutine inside PeerManager::start), the writer thread of FileManager, *)
(* the drawer thread of Statistics and the SIGINT handler, which share the *)
(* flag stop_download_.                                                    *)
(*                                                                         *)
(* The flag is a plain bool behind a function the compiler cannot inline:  *)
(* it is modelled as an atomic one.  Pieces are counted, not named: the    *)
(* queue is first in first out and holds `completed' less those taken.     *)
(* Which pieces they are, and what becomes of their bytes, is in Client.   *)
(***************************************************************************)
EXTENDS Integers

CONSTANTS
  NumPieces,   \* num_pieces_ of the torrent
  MayThrow     \* TRUE: start_download may fail after the writer has started

ASSUME ShutdownAssumption ==
  /\ NumPieces \in Nat \ {0}
  /\ MayThrow \in BOOLEAN

VARIABLES
  stopDownload,    \* stop_download_
  completed,       \* num_pieces_completed_, each piece enqueued when counted
  taken,           \* pieces the writer has dequeued
  written,         \* write_count
  writer,          \* where the writer thread is
  drawer,          \* where the drawer thread is
  drawerJoinable,  \* drawer_thread_.joinable()
  main,            \* where the main thread is
  returnTo,        \* where it goes on when set_stop_download returns
  thrown,          \* an exception left start_download
  announced        \* "Download successfully completed" was printed

vars == <<stopDownload, completed, taken, written, writer, drawer,
          drawerJoinable, main, returnTo, thrown, announced>>

threadVars == <<completed, taken, written, writer, drawer>>

WriterAt == {"none", "polling", "writing", "done"}
DrawerAt == {"none", "polling", "drawing", "done"}
\* construct: up to PieceManager's constructor; draw: before start_draw; run:
\* io_context_.run; drained: the same, with no peer left; joining: in
\* stop_thread; report: after the stop in start_download; destroy: its locals
\* are destroyed; leave: back in main; then the three ways a process ends.
RunningAt == {"construct", "draw", "run", "drained", "joining", "report",
              "destroy", "leave"}
EndedAt == {"exited", "killed", "aborted"}

Ended == main \in EndedAt

Init ==
  /\ stopDownload = FALSE
  /\ completed = 0 /\ taken = 0 /\ written = 0
  /\ writer = "none" /\ drawer = "none"
  /\ drawerJoinable = FALSE
  /\ main = "construct" /\ returnTo = "construct"
  /\ thrown = FALSE /\ announced = FALSE

-----------------------------------------------------------------------------
\* A faulty variant: the drawer is joined before it is told to stop.
SetStopAfterJoin(next) ==
  /\ UNCHANGED stopDownload
  /\ returnTo' = next
  /\ main' = "joining"

\* set_stop_download: the flag first, then stop_thread.
SetStop(next) ==
  /\ stopDownload' = TRUE
  /\ returnTo' = next
  /\ main' = "joining"

\* A faulty variant: a drawer that still runs is not waited for.
StopThreadNoWait ==
  /\ main = "joining"
  /\ drawerJoinable' = (drawerJoinable /\ drawer # "done")
  /\ main' = returnTo
  /\ UNCHANGED <<stopDownload, returnTo, thrown, announced, threadVars>>

\* Statistics::stop_thread: join blocks until the drawer has returned.
StopThread ==
  /\ main = "joining"
  /\ drawerJoinable => drawer = "done"
  /\ drawerJoinable' = FALSE
  /\ main' = returnTo
  /\ UNCHANGED <<stopDownload, returnTo, thrown, announced, threadVars>>

-----------------------------------------------------------------------------
\* Parsing, trackers and the files can fail before there is any thread.
FailEarly ==
  /\ main = "construct"
  /\ thrown' = TRUE
  /\ main' = "leave"
  /\ UNCHANGED <<stopDownload, drawerJoinable, returnTo, announced, threadVars>>

\* PieceManager's FileManager spawns the writer.
StartWriter ==
  /\ main = "construct"
  /\ writer' = "polling"
  /\ main' = "draw"
  /\ UNCHANGED <<stopDownload, completed, taken, written, drawer,
                 drawerJoinable, returnTo, thrown, announced>>

StartDraw ==
  /\ main = "draw"
  /\ drawer' = "polling"
  /\ drawerJoinable' = TRUE
  /\ main' = "run"
  /\ UNCHANGED <<stopDownload, completed, taken, written, writer, returnTo,
                 thrown, announced>>

\* The end of add_block for a verified piece.
CompletePiece ==
  /\ main = "run"
  /\ completed < NumPieces
  /\ completed' = completed + 1
  /\ UNCHANGED <<stopDownload, taken, written, writer, drawer, drawerJoinable,
                 main, returnTo, thrown, announced>>

\* cleanup_and_open_connections finds no peer: it stops the client from
\* inside a coroutine, and joins the drawer there.
NoPeersLeft ==
  /\ main = "run"
  /\ completed # NumPieces
  /\ SetStop("drained")
  /\ UNCHANGED <<drawerJoinable, thrown, announced, threadVars>>

\* The loop of cleanup_and_open_connections ends, io_context_.run returns and
\* start_download sets the stop flag.
CleanupEnds ==
  /\ main \in {"run", "drained"}
  /\ stopDownload \/ completed = NumPieces
  /\ SetStop("report")
  /\ UNCHANGED <<drawerJoinable, thrown, announced, threadVars>>

Report ==
  /\ main = "report"
  /\ announced' = (completed = NumPieces)
  /\ main' = "destroy"
  /\ UNCHANGED <<stopDownload, drawerJoinable, returnTo, thrown, threadVars>>

\* Anything that throws while the PieceManager exists: the stack unwinds.
FailLate ==
  /\ MayThrow
  /\ main \in {"draw", "run"}
  /\ thrown' = TRUE
  /\ main' = "destroy"
  /\ UNCHANGED <<stopDownload, drawerJoinable, returnTo, announced, threadVars>>

\* ~FileManager joins the writer.
JoinWriter ==
  /\ main = "destroy"
  /\ writer = "done"
  /\ main' = "leave"
  /\ UNCHANGED <<stopDownload, drawerJoinable, returnTo, thrown, announced,
                 threadVars>>

\* The end of main, after the try block.
LeaveMain ==
  /\ main = "leave"
  /\ SetStop("exited")
  /\ UNCHANGED <<drawerJoinable, thrown, announced, threadVars>>

\* sigint_handler runs on the main thread, wherever that is, and ends in
\* _exit.  In the middle of a join its own join of the same thread fails.
Interrupt ==
  /\ main \in RunningAt
  /\ returnTo # "killed"
  /\ \/ SetStop("killed")
     \/ /\ main = "joining" /\ drawerJoinable
        /\ stopDownload' = TRUE
        /\ main' = "aborted"
        /\ UNCHANGED returnTo
  /\ UNCHANGED <<drawerJoinable, thrown, announced, threadVars>>

\* The main thread, apart from the pieces it completes.
Main ==
  \/ StopThread \/ FailEarly \/ StartWriter \/ StartDraw \/ NoPeersLeft
  \/ CleanupEnds \/ Report \/ FailLate \/ JoinWriter \/ LeaveMain

-----------------------------------------------------------------------------
\* A faulty variant: the loop ends when it finds the queue empty.
WriterPollsUntilEmpty ==
  /\ writer = "polling" /\ ~Ended
  /\ \/ /\ stopDownload \/ taken = completed
        /\ writer' = "done"
        /\ UNCHANGED taken
     \/ /\ ~stopDownload /\ taken < completed
        /\ taken' = taken + 1
        /\ writer' = "writing"
  /\ UNCHANGED <<stopDownload, completed, written, drawer, drawerJoinable,
                 main, returnTo, thrown, announced>>

\* The head of file_writer's loop.  With an empty queue it sleeps and comes
\* back: nothing changes.
WriterPolls ==
  /\ writer = "polling" /\ ~Ended
  /\ \/ /\ stopDownload \/ written = NumPieces
        /\ writer' = "done"
        /\ UNCHANGED taken
     \/ /\ ~stopDownload /\ written # NumPieces
        /\ taken < completed
        /\ taken' = taken + 1
        /\ writer' = "writing"
  /\ UNCHANGED <<stopDownload, completed, written, drawer, drawerJoinable,
                 main, returnTo, thrown, announced>>

WriterWrites ==
  /\ writer = "writing" /\ ~Ended
  /\ written' = written + 1
  /\ writer' = "polling"
  /\ UNCHANGED <<stopDownload, completed, taken, drawer, drawerJoinable, main,
                 returnTo, thrown, announced>>

\* draw_progress: the flag is read once a turn, then half a second passes.
DrawerRuns ==
  /\ ~Ended
  /\ \/ /\ drawer = "polling"
        /\ drawer' = IF stopDownload THEN "done" ELSE "drawing"
     \/ /\ drawer = "drawing"
        /\ drawer' = "polling"
  /\ UNCHANGED <<stopDownload, completed, taken, written, writer,
                 drawerJoinable, main, returnTo, thrown, announced>>

Done == Ended /\ UNCHANGED vars

Next ==
  \/ Main \/ CompletePiece \/ Interrupt
  \/ WriterPolls \/ WriterWrites \/ DrawerRuns
  \/ Done

\* The threads are scheduled, and the cleanup coroutine's timer fires.  That
\* a piece ever arrives, that the peers run out, that something throws or
\* that the user interrupts is not assumed.
Fairness ==
  /\ WF_vars(StopThread) /\ WF_vars(StartWriter) /\ WF_vars(StartDraw)
  /\ WF_vars(CleanupEnds) /\ WF_vars(Report) /\ WF_vars(JoinWriter)
  /\ WF_vars(LeaveMain)
  /\ WF_vars(WriterPolls) /\ WF_vars(WriterWrites) /\ WF_vars(DrawerRuns)

Spec == Init /\ [][Next]_vars
FairSpec == Spec /\ Fairness

-----------------------------------------------------------------------------
TypeOK ==
  /\ stopDownload \in BOOLEAN
  /\ completed \in 0 .. NumPieces
  /\ taken \in 0 .. completed
  /\ written \in 0 .. taken
  /\ taken = written + (IF writer = "writing" THEN 1 ELSE 0)
  /\ writer \in WriterAt
  /\ drawer \in DrawerAt
  /\ drawerJoinable \in BOOLEAN
  /\ main \in RunningAt \cup EndedAt
  /\ returnTo \in RunningAt \cup EndedAt
  /\ thrown \in BOOLEAN
  /\ announced \in BOOLEAN

(***************************************************************************)
(* When main returns both threads have been joined: a std::thread that is  *)
(* still joinable aborts the process in its destructor, and a writer that  *)
(* outlives its FileManager uses freed memory.  All four ways out of       *)
(* start_download (complete, no peers, early failure, late failure) must   *)
(* see to it, the drawer being joined by whoever sets the flag first.      *)
(***************************************************************************)
ThreadsJoined ==
  /\ main \in {"leave", "exited"} => writer \in {"none", "done"}
  /\ main = "exited" => drawer \in {"none", "done"} /\ ~drawerJoinable

(***************************************************************************)
(* Once the flag is set or every piece is there, the process ends, though  *)
(* three threads then wait for one another.                                *)
(***************************************************************************)
StopEndsProcess == (stopDownload \/ completed = NumPieces) ~> Ended

(***************************************************************************)
(* main catches every exception, reports it as `FATAL error shutting down' *)
(* and ends.  Violated: see the README.                                    *)
(***************************************************************************)
ErrorEndsProcess == thrown ~> Ended

=============================================================================
