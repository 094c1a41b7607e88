------------------------------ MODULE Download ------------------------------
(***************************************************************************)
(* A PieceManager among the connections that drive it: what PieceManager   *)
(* leaves open (who calls a method when) is given by the Peer objects that *)
(* call it.  Requests travel to the remote peers and are answered in any   *)
(* order, late, wrongly or not at all; remote peers choke, send what they  *)
(* were not asked for and go away; reads fail and are handled like         *)
(* messages; and the PeerManager cleans up and connects once more.         *)
(*                                                                         *)
(* A connection begins here when Interested has been sent.  Of a Peer the  *)
(* pipeline is kept, and where its coroutines are as far as the pipeline   *)
(* depends on it; module Peer has every await, and PeerManager the pool.   *)
(***************************************************************************)
EXTENDS PieceManager, SequencesExt

CONSTANTS
  Steady,         \* remote peers that have every piece, answer every request
                  \* with its block, and neither choke nor go away
  Strays,         \* remote peers that may send Pieces they were not asked for
  MaxInFlight,    \* MAX_IN_FLIGHT is 5
  CounterModulus, \* num_in_flight_ is a uint8_t: 256
  MaxAsked        \* bound: how many requests a remote peer holds at once

ASSUME DownloadAssumption ==
  /\ Steady \subseteq Peers
  /\ Strays \subseteq Peers \ Steady
  /\ CounterModulus \in Nat \ {0}
  /\ MaxInFlight \in 1 .. CounterModulus - 1
  /\ MaxAsked \in Nat /\ MaxInFlight <= MaxAsked
  /\ RepeatBitfield = FALSE   \* one Bitfield a connection, as it should be

VARIABLES
  connection,   \* of each peer: "up", "broken" (its reads fail, and it goes on
                \* reading), "left" (start has ended; the sender, when it is out
                \* of send_block_requests, sees that and ends too), or "closed"
                \* (no Peer object, and none to come)
  opened,       \* how many Peer objects the peer has had
  isChoked,     \* is_choked_
  writing,      \* send_block_requests awaits the write of a request, which
                \* is not counted yet
  numInFlight,  \* num_in_flight_
  asked,        \* the requests <<p, b>> the remote peer may still answer
  spoiled       \* a Piece with wrong bytes was handled (history)

connectionVars == <<connection, opened, isChoked, writing, numInFlight, asked, spoiled>>
downloadVars == <<vars, connectionVars>>

MaxOpened == 2   \* get_next_peer_state: a peer is connected twice at most

\* A faulty variant: the counter is as wide as an int.
WrapNever(n) == n

\* What num_in_flight_ holds after an increment or a decrement.
Wrap(n) == n % CounterModulus

DownloadInit ==
  /\ Init
  /\ connection = [q \in Peers |-> "up"]
  /\ opened = [q \in Peers |-> 1]
  /\ isChoked = [q \in Peers |-> TRUE]
  /\ writing = [q \in Peers |-> FALSE]
  /\ numInFlight = [q \in Peers |-> 0]
  /\ asked = [q \in Peers |-> <<>>]
  /\ spoiled = FALSE

\* receive_messages is in its loop.
Receives(q) == connection[q] \in {"up", "broken"}

-----------------------------------------------------------------------------
\* handle_bitfield_message: the peer may have any pieces, but has some.
Bitfield(q, bitfield) ==
  /\ connection[q] = "up"
  /\ q \in Steady => bitfield = Pieces
  /\ UpdatePieceFrequencies(q, bitfield)
  /\ UNCHANGED connectionVars

\* A failed read may make up a message of any type: also this, and Choke.
Unchoke(q) ==
  /\ Receives(q)
  /\ isChoked[q]
  /\ isChoked' = [isChoked EXCEPT ![q] = FALSE]
  /\ UNCHANGED <<vars, connection, opened, writing, numInFlight, asked, spoiled>>

\* A peer that chokes may forget what it was asked for: num_in_flight_ does
\* not hear of it.
Choke(q) ==
  /\ Receives(q) /\ q \notin Steady
  /\ isChoked' = [isChoked EXCEPT ![q] = TRUE]
  /\ asked' \in {asked, [asked EXCEPT ![q] = <<>>]}
  /\ UNCHANGED <<vars, connection, opened, writing, numInFlight, spoiled>>

-----------------------------------------------------------------------------
\* There is a piece to request of q.
HasWork(q) ==
  \/ peersBitfield[q] \cap PiecesInBuffer # {}
  \/ ~IsFull /\ Startable(q) # {}

\* The remote peer gets a request, and may answer it from now on.
Hold(q, request) ==
  IF connection[q] = "up" /\ Len(asked[q]) < MaxAsked
  THEN [asked EXCEPT ![q] = Append(@, request)]
  ELSE asked

\* One round of the loop of send_block_requests with n requests in flight, up
\* to the await of its write: a request, or (NoBlock) none.
Round(q, n, p, b) ==
  /\ n < MaxInFlight
  /\ SelectNextBlock(q, p, b)
  /\ writing' = [writing EXCEPT ![q] = b # NoBlock]
  /\ asked' = IF b = NoBlock THEN asked ELSE Hold(q, <<p, b>>)

\* The loop ends: enough are in flight, or select_next_block finds no piece
\* and changes nothing.
Rest(q, n) ==
  /\ n >= MaxInFlight \/ ~HasWork(q)
  /\ writing' = [writing EXCEPT ![q] = FALSE]
  /\ UNCHANGED <<vars, asked>>

RoundOf(q, n) == \E p \in Pieces : \E b \in Blocks(p) \cup {NoBlock} : Round(q, n, p, b)

\* The sender wakes up and is not choked.
Request(q) ==
  /\ Receives(q) /\ ~writing[q] /\ ~isChoked[q]
  /\ RoundOf(q, numInFlight[q])
  /\ UNCHANGED <<connection, opened, isChoked, numInFlight, spoiled>>

\* A faulty variant: the count is given up for good when the write returns.
WriteUncounted(q) ==
  /\ writing[q]
  /\ RoundOf(q, numInFlight[q]) \/ Rest(q, numInFlight[q])
  /\ UNCHANGED <<connection, opened, isChoked, numInFlight, spoiled>>

(***************************************************************************)
(* The write returns, or fails, which nobody looks at; the request is      *)
(* counted, though its answer may have been handled already, and the loop  *)
(* goes on without a look at is_choked_ or continue_connection_.           *)
(***************************************************************************)
WriteReturns(q) ==
  LET n == Wrap(numInFlight[q] + 1)
  IN /\ writing[q]
     /\ numInFlight' = [numInFlight EXCEPT ![q] = n]
     /\ RoundOf(q, n) \/ Rest(q, n)
     /\ UNCHANGED <<connection, opened, isChoked, spoiled>>

Send(q) == Request(q) \/ WriteReturns(q)

-----------------------------------------------------------------------------
\* handle_piece_message, for data of piece p from block first to block last,
\* of which the blocks in good have their bytes.  add_block refuses data that
\* is not valid, of a block that is there, or of a piece that is gone.
HandlePiece(q, p, first, last, good) ==
  /\ IF IsValidBlockData(p, first, last) /\ ShouldWriteBlock(first, p)
     THEN AddBlock(p, first, last, good)
     ELSE UNCHANGED vars
  /\ numInFlight' = [numInFlight EXCEPT ![q] = Wrap(@ - 1)]
  /\ spoiled' = (spoiled \/ good # first .. last)
  /\ UNCHANGED <<connection, opened, isChoked, writing>>

\* The remote peer's answer to any one of its open requests.
Answer(q, i, good) ==
  LET p == asked[q][i][1]
      b == asked[q][i][2]
  IN /\ connection[q] = "up"
     /\ good = {b} \/ (good = {} /\ q \notin Steady)
     /\ HandlePiece(q, p, b, b, good)
     /\ asked' = [asked EXCEPT ![q] = RemoveAt(@, i)]

\* A Piece that was not asked for: data of one piece, or none of any piece.
StrayPiece(q) ==
  /\ connection[q] = "up" /\ q \in Strays
  /\ \/ \E p \in Pieces : \E first, last \in Blocks(p) :
          \E good \in SUBSET (first .. last) :
            first <= last /\ HandlePiece(q, p, first, last, good)
     \/ HandlePiece(q, NumPieces, 0, 0, {})
  /\ UNCHANGED asked

(***************************************************************************)
(* The remote peer closes the connection, or the timer cancels a read: the *)
(* read fails, and so do all that follow if the connection is closed.  (If *)
(* it was in the middle of an answer, that is an Answer with wrong bytes.) *)
(***************************************************************************)
Break(q) ==
  /\ connection[q] = "up" /\ q \notin Steady
  /\ connection' = [connection EXCEPT ![q] = "broken"]
  /\ asked' = [asked EXCEPT ![q] = <<>>]
  /\ UNCHANGED <<vars, opened, isChoked, writing, numInFlight, spoiled>>

(***************************************************************************)
(* What a failed read leaves behind is handled as a Piece: a payload of    *)
(* zeros, as long as the header before said, which is data for the         *)
(* beginning of piece 0; or, since the reader may be out of step, other    *)
(* bytes that mean anything.  After a timeout this happens once, and on a  *)
(* closed connection again and again.                                      *)
(***************************************************************************)
MadeUpPiece(q) ==
  /\ connection[q] = "broken"
  /\ \/ \E p \in Pieces : \E first, last \in Blocks(p) :
          first <= last /\ HandlePiece(q, p, first, last, {})
     \/ HandlePiece(q, NumPieces, 0, 0, {})
  /\ UNCHANGED asked

\* receive_messages throws, or returns after a timeout, and start ends.
Leave(q) ==
  /\ Receives(q) /\ q \notin Steady
  /\ connection' = [connection EXCEPT ![q] = "left"]
  /\ asked' = [asked EXCEPT ![q] = <<>>]
  /\ UNCHANGED <<vars, opened, isChoked, writing, numInFlight, spoiled>>

(***************************************************************************)
(* cleanup_connections throws a peer that has exited out, and              *)
(* open_connections makes a new Peer for it if it had but one.  A turn of  *)
(* the loop takes all such peers at once; what it does for different peers *)
(* commutes.                                                               *)
(***************************************************************************)
CleanupAndOpen(q) ==
  /\ connection[q] = "left" /\ ~writing[q]
  /\ RemovePeer(q)
  /\ IF opened[q] < MaxOpened
     THEN /\ connection' = [connection EXCEPT ![q] = "up"]
          /\ opened' = [opened EXCEPT ![q] = @ + 1]
          /\ isChoked' = [isChoked EXCEPT ![q] = TRUE]
          /\ numInFlight' = [numInFlight EXCEPT ![q] = 0]
     ELSE /\ connection' = [connection EXCEPT ![q] = "closed"]
          /\ UNCHANGED <<opened, isChoked, numInFlight>>
  /\ UNCHANGED <<writing, asked, spoiled>>

-----------------------------------------------------------------------------
AnswerSome(q) ==
  \E i \in DOMAIN asked[q] : \E good \in {{}, {asked[q][i][2]}} : Answer(q, i, good)

BitfieldOf(q) == \E bitfield \in (SUBSET Pieces) \ {{}} : Bitfield(q, bitfield)

DownloadNext ==
  \E q \in Peers :
    \/ BitfieldOf(q) \/ Unchoke(q) \/ Choke(q)
    \/ Request(q) \/ WriteReturns(q)
    \/ AnswerSome(q) \/ StrayPiece(q)
    \/ Break(q) \/ MadeUpPiece(q)
    \/ Leave(q) \/ CleanupAndOpen(q)

DownloadSpec == DownloadInit /\ [][DownloadNext]_downloadVars

(***************************************************************************)
(* Writes return, and the sender of each Peer looks for requests every     *)
(* 100 ms.  A steady peer announces, unchokes and answers in the end.      *)
(* Nothing is said of the other remote peers: one that is not useful need  *)
(* never Leave (it runs into no timeout if it sends a Have or a keep-alive *)
(* now and then), and one that has left need not be cleaned up.            *)
(***************************************************************************)
Fairness ==
  /\ \A q \in Peers : WF_downloadVars(Send(q))
  /\ \A q \in Steady : /\ WF_downloadVars(BitfieldOf(q))
                       /\ WF_downloadVars(Unchoke(q))
                       /\ WF_downloadVars(AnswerSome(q))

FairDownloadSpec == DownloadSpec /\ Fairness

-----------------------------------------------------------------------------
DownloadTypeOK ==
  /\ connection \in [Peers -> {"up", "broken", "left", "closed"}]
  /\ opened \in [Peers -> 1 .. MaxOpened]
  /\ isChoked \in [Peers -> BOOLEAN]
  /\ writing \in [Peers -> BOOLEAN]
  /\ numInFlight \in [Peers -> 0 .. CounterModulus - 1]
  /\ asked \in [Peers -> Seq(Pieces \X (0 .. NumBlocks[0] - 1))]
  /\ spoiled \in BOOLEAN

(***************************************************************************)
(* Whatever a remote peer may still answer is a block of a piece that it   *)
(* announced over this connection: it is not asked for what it had before  *)
(* it reconnected.  And if it sends no Piece unasked, there are never more *)
(* than MAX_IN_FLIGHT of these, and num_in_flight_ counts them all, but    *)
(* for one whose write is still awaited: requests that the peer forgot,    *)
(* and a Choke between two rounds of the loop, do not upset that.          *)
(***************************************************************************)
AsksOnlyAnnounced ==
  \A q \in Peers :
    /\ \A i \in DOMAIN asked[q] : /\ asked[q][i][1] \in peersBitfield[q]
                                  /\ asked[q][i][2] \in Blocks(asked[q][i][1])
    /\ q \notin Strays =>
         /\ Len(asked[q]) <= MaxInFlight
         /\ Len(asked[q]) <= numInFlight[q] + (IF writing[q] THEN 1 ELSE 0)

\* What of the connections the PieceManager can tell apart.
Relied == INSTANCE Connections WITH
            connection <- [q \in Peers |-> CASE connection[q] = "broken" -> "up"
                                             [] connection[q] = "left" -> "exited"
                                             [] OTHER -> connection[q]],
            registered <- {q \in Peers : peersBitfield[q] # {}}

(***************************************************************************)
(* The connections come and go as the PeerManager's do: see there.         *)
(***************************************************************************)
UsesConnections == Relied!ConnectionsSpec

(***************************************************************************)
(* Until wrong bytes are handled, sent by a peer or made up by a read that *)
(* failed, a block that counts as HAVE has its bytes: neither what the     *)
(* slot held before, nor a request made twice, nor an answer that comes    *)
(* after its piece was started again, nor a Piece nobody asked for, may    *)
(* claim a block that is not there.                                        *)
(***************************************************************************)
GoodUntilSpoiled == ~spoiled => HeldBlocksAreGood

(***************************************************************************)
(* Until then no piece ever fails its hash and starts again.               *)
(***************************************************************************)
RestartsOnlySpoiled ==
  [][~spoiled' => \A p \in Pieces : pieceState[p] # "NOT_STARTED" =>
                                      pieceState'[p] # "NOT_STARTED"]_downloadVars

\* A piece fails its hash.
Restart ==
  \E p \in Pieces : pieceState[p] # "NOT_STARTED" /\ pieceState'[p] = "NOT_STARTED"

(***************************************************************************)
(* One steady peer is enough to finish the download, unless pieces fail    *)
(* their hash again and again: nothing else that the others do, requests   *)
(* that they leave unanswered, bindings and slots that they leave behind,  *)
(* or connections that are broken and ask on, stops it.  (Wrong bytes      *)
(* without end do: a peer that sends a Piece and closes makes its reader   *)
(* write zeros to piece 0 each time that piece is started.)                *)
(***************************************************************************)
DownloadCompletes ==
  Steady # {} => <>(Completed = Pieces) \/ []<><<Restart>>_downloadVars

\* Peer q is connected and willing, and has a piece to ask for, but the
\* remote peer waits for a request.
IsIdle(q) ==
  connection[q] = "up" /\ ~isChoked[q] /\ HasWork(q) /\ asked[q] = <<>>

(***************************************************************************)
(* TechnicalDesign.md:11, `We make pipelined requests to peers': a peer    *)
(* that is idle does not stay so.                                          *)
(***************************************************************************)
RequestsResume == \A q \in Peers : IsIdle(q) ~> ~IsIdle(q)

=============================================================================
