-------------------------------- MODULE Peer --------------------------------
(***************************************************************************)
(* One connection: the class Peer with its two coroutines (start and       *)
(* send_messages), the timer that cancels its socket, and the remote peer. *)
(* All of it runs on one thread; a coroutine is interrupted only where it  *)
(* awaits.                                                                 *)
(*                                                                         *)
(* Every await takes its error code as_tuple and drops it.  A read that    *)
(* fails leaves what it should have filled as it was: the length of the    *)
(* last header, a message type that was never written, a payload of zeros. *)
(* The PieceManager is reduced to whether it has a block to request.       *)
(***************************************************************************)
EXTENDS Integers, Sequences, FiniteSets

CONSTANTS
  MaxInFlight,     \* MAX_IN_FLIGHT is 5
  CounterModulus,  \* num_in_flight_ is a uint8_t: 256
  MaxMessages      \* bound: how many messages the remote peer ever sends

ASSUME PeerAssumption ==
  /\ CounterModulus \in Nat \ {0}
  /\ MaxInFlight \in 1 .. CounterModulus - 1
  /\ MaxMessages \in Nat

VARIABLES
  main,          \* where start and receive_messages are
  send,          \* where send_messages and send_block_requests are
  continueConnection,
  mainRoutineHasExited,
  spawnedRoutineHasExited,
  isChoked,
  numInFlight,   \* num_in_flight_, a uint8_t
  hasBitfield,   \* the PieceManager knows the peer's bitfield
  headerIsZero,  \* the length the header buffer holds is 0
  current,       \* the message whose header was read, or NoMessage
  messageType,   \* message_type while there is one, else "other"
  link,          \* the connection: none, up, down (refused, reset or closed)
  stream,        \* messages sent by the remote peer and not read yet
  open,          \* requests the remote peer holds and has not answered
  sent,          \* messages it has sent
  cancelled,     \* the timer has cancelled the socket's operations
  spoiled        \* a Piece that answers no request was sent or made up

vars == <<main, send, continueConnection, mainRoutineHasExited,
          spawnedRoutineHasExited, isChoked, numInFlight, hasBitfield,
          headerIsZero, current, messageType, link, stream, open, sent,
          cancelled, spoiled>>

\* What each side leaves alone.
readerVars == <<main, mainRoutineHasExited, isChoked, hasBitfield,
                headerIsZero, current, messageType>>
senderVars == <<send, spawnedRoutineHasExited>>
remoteVars == <<link, stream, open, sent>>

Types == {"choke", "unchoke", "bitfield", "piece", "other"}
\* A Bitfield without pieces, a Piece too short for its header, and a
\* keep-alive, which has no type, are told apart from the others.
Messages == Types \cup {"emptybitfield", "shortpiece", "keepalive"}
TypeOf(m) == CASE m = "emptybitfield" -> "bitfield"
               [] m = "shortpiece" -> "piece"
               [] OTHER -> m
NoMessage == "none"

Reading == {"header", "type", "payload"}

\* A faulty variant: the counter is as wide as an int.
WrapNever(n) == n

\* What num_in_flight_ holds after an increment or a decrement.
Wrap(n) == n % CounterModulus

Init ==
  /\ main = "connect" /\ send = "none"
  /\ continueConnection = TRUE
  /\ mainRoutineHasExited = FALSE /\ spawnedRoutineHasExited = TRUE
  /\ isChoked = TRUE /\ numInFlight = 0 /\ hasBitfield = FALSE
  /\ headerIsZero = TRUE /\ current = NoMessage /\ messageType = "other"
  /\ link = "none" /\ stream = <<>> /\ open = 0 /\ sent = 0
  /\ cancelled = FALSE /\ spoiled = FALSE

HasExited == mainRoutineHasExited /\ spawnedRoutineHasExited

\* The sender ended by its catch block, which leaves its flag as it is.
SenderThrew == send = "thrown"

-----------------------------------------------------------------------------
\* start returns before it has spawned the sender.
LeaveEarly ==
  /\ mainRoutineHasExited' = TRUE
  /\ main' = "done"

\* A faulty variant: the sender is not told.
LeaveAlone ==
  /\ UNCHANGED continueConnection
  /\ mainRoutineHasExited' = TRUE
  /\ main' = "done"

\* start returns at its end, after receive_messages has returned or thrown.
Leave ==
  /\ continueConnection' = FALSE
  /\ mainRoutineHasExited' = TRUE
  /\ main' = "done"

\* The condition of receive_messages' loop.
LoopTop ==
  IF continueConnection
  THEN main' = "header" /\ UNCHANGED <<continueConnection, mainRoutineHasExited>>
  ELSE Leave

\* make_address throws for an address that is a name, before start has any
\* handler: the coroutine is gone, the flags and the socket are as constructed.
AddressFails ==
  /\ main = "connect"
  /\ main' = "thrown"
  /\ UNCHANGED <<senderVars, continueConnection, mainRoutineHasExited, isChoked,
                 numInFlight, hasBitfield, headerIsZero, current, messageType,
                 remoteVars, cancelled, spoiled>>

\* async_connect: whatever comes of it, the handshake is sent.
Connect ==
  /\ main = "connect"
  /\ \/ link' \in {"up", "down"} /\ UNCHANGED continueConnection
     \/ link' = "down" /\ continueConnection' = FALSE
  /\ main' = "handshake"
  /\ UNCHANGED <<senderVars, mainRoutineHasExited, isChoked, numInFlight,
                 hasBitfield, headerIsZero, current, messageType, stream, open,
                 sent, cancelled, spoiled>>

\* receive_handshake_response.  After a failed read the response is what was
\* in its memory before: it may be the response of another peer.
Handshake ==
  /\ main = "handshake"
  /\ \/ /\ main' = "interested"
        /\ UNCHANGED <<continueConnection, mainRoutineHasExited>>
     \/ LeaveEarly /\ UNCHANGED continueConnection
     \/ \* the timer expires first
        /\ continueConnection' = FALSE
        /\ \/ main' = "interested" /\ UNCHANGED mainRoutineHasExited
           \/ LeaveEarly
  /\ UNCHANGED <<senderVars, isChoked, numInFlight, hasBitfield, headerIsZero,
                 current, messageType, remoteVars, cancelled, spoiled>>

\* A faulty variant: the flag of the second coroutine stays as constructed.
SpawnUnflagged ==
  /\ main = "interested"
  /\ send' = "top"
  /\ UNCHANGED spawnedRoutineHasExited
  /\ LoopTop
  /\ UNCHANGED <<isChoked, numInFlight, hasBitfield, headerIsZero, current,
                 messageType, remoteVars, cancelled, spoiled>>

\* Interested is sent, send_messages is spawned and the loop begins.
Spawn ==
  /\ main = "interested"
  /\ send' = "top"
  /\ spawnedRoutineHasExited' = FALSE
  /\ LoopTop
  /\ UNCHANGED <<isChoked, numInFlight, hasBitfield, headerIsZero, current,
                 messageType, remoteVars, cancelled, spoiled>>

\* ... unless the download is over by now.
NotNeeded ==
  /\ main = "interested"
  /\ LeaveEarly
  /\ UNCHANGED <<senderVars, continueConnection, isChoked, numInFlight,
                 hasBitfield, headerIsZero, current, messageType, remoteVars,
                 cancelled, spoiled>>

-----------------------------------------------------------------------------
\* read_header returns a length: 0 is a keep-alive.
ReadHeader ==
  /\ main = "header"
  /\ stream # <<>>
  /\ current' = IF Head(stream) = "keepalive" THEN NoMessage ELSE Head(stream)
  /\ stream' = Tail(stream)
  /\ headerIsZero' = (Head(stream) = "keepalive")
  /\ IF headerIsZero' THEN LoopTop
     ELSE main' = "type" /\ UNCHANGED <<continueConnection, mainRoutineHasExited>>
  /\ cancelled' = FALSE
  /\ UNCHANGED <<senderVars, isChoked, numInFlight, hasBitfield, messageType,
                 link, open, sent, spoiled>>

ReadType ==
  /\ main = "type"
  /\ current # NoMessage
  /\ messageType' = TypeOf(current)
  /\ main' = "payload"
  /\ cancelled' = FALSE
  /\ UNCHANGED <<senderVars, continueConnection, mainRoutineHasExited, isChoked,
                 numInFlight, hasBitfield, headerIsZero, current, remoteVars,
                 spoiled>>

(***************************************************************************)
(* handle_message, of a payload that is what was sent, or of one a failed  *)
(* read left behind (made up).  An empty bitfield throws.                  *)
(***************************************************************************)
HandleMessage(type, isEmpty, counts) ==
  /\ isChoked' = (type = "choke" \/ (isChoked /\ type # "unchoke"))
  /\ hasBitfield' = (hasBitfield \/ (type = "bitfield" /\ ~isEmpty))
  /\ numInFlight' = IF type = "piece" /\ counts THEN Wrap(numInFlight - 1)
                    ELSE numInFlight
  /\ messageType' = "other"
  /\ IF type = "bitfield" /\ isEmpty THEN Leave ELSE LoopTop

ReadPayload ==
  /\ main = "payload"
  /\ current # NoMessage
  /\ HandleMessage(messageType, current = "emptybitfield",
                   current # "shortpiece")
  /\ current' = NoMessage
  /\ cancelled' = FALSE
  /\ UNCHANGED <<senderVars, headerIsZero, remoteVars, spoiled>>

(***************************************************************************)
(* The read that is awaited fails: it was cancelled, or the connection is  *)
(* down and nothing more will come.  After a header that could not be read *)
(* the reader is out of step, and takes any bytes for a type.              *)
(***************************************************************************)
CanFail ==
  \/ cancelled
  \/ link = "down" /\ (main = "header" => stream = <<>>)
  \/ main # "header" /\ current = NoMessage /\ stream # <<>>

\* The last header's length is taken again.
HeaderFails ==
  /\ main = "header" /\ CanFail
  /\ current' = NoMessage
  /\ IF headerIsZero THEN LoopTop
     ELSE main' = "type" /\ UNCHANGED <<continueConnection, mainRoutineHasExited>>
  /\ cancelled' = FALSE
  /\ UNCHANGED <<senderVars, isChoked, numInFlight, hasBitfield, headerIsZero,
                 messageType, remoteVars, spoiled>>

TypeFails ==
  /\ main = "type" /\ CanFail
  /\ current' = NoMessage
  /\ messageType' \in Types
  /\ main' = "payload"
  /\ cancelled' = FALSE
  /\ UNCHANGED <<senderVars, continueConnection, mainRoutineHasExited, isChoked,
                 numInFlight, hasBitfield, headerIsZero, remoteVars, spoiled>>

\* The payload is zeros, or partly there, and long enough for a Piece or not.
PayloadFails ==
  /\ main = "payload" /\ CanFail
  /\ current' = NoMessage
  /\ \E isEmpty, counts \in BOOLEAN : HandleMessage(messageType, isEmpty, counts)
  /\ cancelled' = FALSE
  /\ spoiled' = (spoiled \/ messageType = "piece")
  /\ UNCHANGED <<senderVars, headerIsZero, remoteVars>>

Receive ==
  \/ ReadHeader \/ ReadType \/ ReadPayload
  \/ HeaderFails \/ TypeFails \/ PayloadFails

\* A faulty variant: the timer cancels the read and nothing more.
TimerOnlyCancels ==
  /\ main \in Reading /\ ~cancelled
  /\ cancelled' = TRUE
  /\ UNCHANGED <<readerVars, senderVars, continueConnection, numInFlight,
                 remoteVars, spoiled>>

\* The handler of set_timeout: the peer took too long.
TimerExpires ==
  /\ main \in Reading /\ ~cancelled
  /\ continueConnection' = FALSE
  /\ cancelled' = TRUE
  /\ UNCHANGED <<readerVars, senderVars, numInFlight, remoteVars, spoiled>>

-----------------------------------------------------------------------------
\* A faulty variant: one request too many.
RequestOrRestOver(n) ==
  \/ n <= MaxInFlight /\ hasBitfield /\ send' = "writing"
  \/ send' = "sleeping"

\* The loop of send_block_requests with n requests in flight: it writes a
\* request, or is full, or select_next_block has nothing for this peer.
RequestOrRest(n) ==
  \/ n < MaxInFlight /\ hasBitfield /\ send' = "writing"
  \/ send' = "sleeping"

\* One turn of send_messages' loop, up to its next await.
SendTurn ==
  /\ send = "top"
  /\ \/ /\ ~continueConnection
        /\ spawnedRoutineHasExited' = TRUE
        /\ send' = "done"
     \/ /\ continueConnection
        /\ IF isChoked THEN send' = "sleeping" ELSE RequestOrRest(numInFlight)
        /\ UNCHANGED spawnedRoutineHasExited
  /\ UNCHANGED <<readerVars, continueConnection, numInFlight, remoteVars,
                 cancelled, spoiled>>

RequestArrives ==
  /\ send = "writing" /\ link = "up"
  /\ open' = open + 1
  /\ send' = "written"
  /\ UNCHANGED <<readerVars, spawnedRoutineHasExited, continueConnection,
                 numInFlight, link, stream, sent, cancelled, spoiled>>

\* The awaited write returns, or fails as the reads do.
IsWritten ==
  \/ send = "written"
  \/ send = "writing" /\ (link = "down" \/ ~continueConnection)

\* The request is counted.  The answer may have been handled before.
WriteReturns ==
  /\ IsWritten
  /\ numInFlight' = Wrap(numInFlight + 1)
  /\ RequestOrRest(numInFlight')
  /\ UNCHANGED <<readerVars, spawnedRoutineHasExited, continueConnection,
                 remoteVars, cancelled, spoiled>>

WakeUp ==
  /\ send = "sleeping"
  /\ send' = "top"
  /\ UNCHANGED <<readerVars, spawnedRoutineHasExited, continueConnection,
                 numInFlight, remoteVars, cancelled, spoiled>>

(***************************************************************************)
(* The catch block of send_messages: a request cannot be made.  (Nothing   *)
(* in select_next_block throws while the PieceManager's records agree, as  *)
(* module PieceManager shows they do; memory may still run out.)  The      *)
(* coroutine returns without a word to has_exited.                         *)
(***************************************************************************)
SendThrows ==
  /\ \/ /\ send = "top" /\ continueConnection /\ ~isChoked
        /\ UNCHANGED numInFlight
     \/ /\ IsWritten
        /\ numInFlight' = Wrap(numInFlight + 1)
  /\ numInFlight' < MaxInFlight
  /\ continueConnection' = FALSE
  /\ send' = "thrown"
  /\ UNCHANGED <<readerVars, spawnedRoutineHasExited, remoteVars, cancelled,
                 spoiled>>

Send == SendTurn \/ WriteReturns \/ WakeUp \/ SendThrows

-----------------------------------------------------------------------------
\* The remote peer sends m; one that chokes may forget what it was asked.
RemoteSends(m) ==
  /\ link = "up" /\ sent < MaxMessages
  /\ stream' = Append(stream, m)
  /\ sent' = sent + 1
  /\ open' \in IF m = "choke" THEN {0, open} ELSE {open}
  /\ spoiled' = (spoiled \/ m = "piece")
  /\ UNCHANGED <<readerVars, senderVars, continueConnection, numInFlight, link,
                 cancelled>>

RemoteAnswers ==
  /\ link = "up" /\ sent < MaxMessages
  /\ open > 0
  /\ open' = open - 1
  /\ stream' = Append(stream, "piece")
  /\ sent' = sent + 1
  /\ UNCHANGED <<readerVars, senderVars, continueConnection, numInFlight, link,
                 cancelled, spoiled>>

RemoteCloses ==
  /\ link = "up"
  /\ link' = "down"
  /\ UNCHANGED <<readerVars, senderVars, continueConnection, numInFlight,
                 stream, open, sent, cancelled, spoiled>>

Remote == (\E m \in Messages : RemoteSends(m)) \/ RemoteAnswers \/ RemoteCloses

\* Both coroutines are gone.
Ended == HasExited \/ (main = "done" /\ SenderThrew)

Gone == (Ended \/ main = "thrown") /\ UNCHANGED vars

Next ==
  \/ AddressFails \/ Connect \/ Handshake \/ Spawn \/ NotNeeded
  \/ Receive \/ TimerExpires
  \/ Send \/ RequestArrives
  \/ Remote \/ Gone

(***************************************************************************)
(* Both coroutines are resumed when what they await is there; a timer      *)
(* fires when the connection is up and nothing comes.  Nothing is assumed  *)
(* of the remote peer.                                                     *)
(***************************************************************************)
Silence ==
  /\ link = "up" /\ stream = <<>>
  /\ main = "header" \/ current = NoMessage

Fairness ==
  /\ WF_vars(AddressFails \/ Connect) /\ WF_vars(Handshake) /\ WF_vars(Spawn \/ NotNeeded)
  /\ WF_vars(Receive)
  /\ WF_vars(Silence /\ TimerExpires)
  /\ WF_vars(Send) /\ WF_vars(RequestArrives)

Spec == Init /\ [][Next]_vars
FairSpec == Spec /\ Fairness

-----------------------------------------------------------------------------
TypeOK ==
  /\ main \in {"connect", "handshake", "interested", "done", "thrown"} \cup Reading
  /\ send \in {"none", "top", "writing", "written", "sleeping", "done", "thrown"}
  /\ {continueConnection, mainRoutineHasExited, spawnedRoutineHasExited, isChoked,
      hasBitfield, headerIsZero, cancelled, spoiled} \subseteq BOOLEAN
  /\ numInFlight \in 0 .. CounterModulus - 1
  /\ current \in (Messages \ {"keepalive"}) \cup {NoMessage}
  /\ messageType \in Types
  /\ link \in {"none", "up", "down"}
  /\ stream \in Seq(Messages)
  /\ open \in Nat /\ sent \in 0 .. MaxMessages

(***************************************************************************)
(* PeerManager destroys a Peer once has_exited() is true: neither          *)
(* coroutine may run after that, in whatever order the two end.            *)
(***************************************************************************)
NoUseAfterExit ==
  HasExited => main = "done" /\ send \in {"none", "done"}

PiecesIn(s) == Cardinality({i \in DOMAIN s : s[i] = "piece"})

\* Pieces on their way to handle_piece_message.
Unhandled ==
  PiecesIn(stream)
    + (IF main \in {"type", "payload"} /\ current = "piece" THEN 1 ELSE 0)

(***************************************************************************)
(* `We make pipelined requests to peers (up to 5 in-flight requests)': as  *)
(* long as every Piece answers a request, there are never more requests    *)
(* the remote peer holds or whose answers wait to be handled, though the   *)
(* counter is increased only after the write has returned, may wrap, and   *)
(* is decreased by the other coroutine.                                    *)
(***************************************************************************)
PipelineBounded == ~spoiled => open + Unhandled <= MaxInFlight

(***************************************************************************)
(* Once a coroutine has decided to end, or the timer has, both do end; and *)
(* has_exited says so, for the PeerManager to clean up, unless it was the  *)
(* sender that decided, in its catch block: then it never does.            *)
(***************************************************************************)
DropCompletes == (~continueConnection \/ mainRoutineHasExited) ~> Ended

(***************************************************************************)
(* `We automatically disconnect from a peer if we do not receive any       *)
(* messages': the remote peer falls silent after MaxMessages at the        *)
(* latest, and a connection that it does not close is then dropped.        *)
(***************************************************************************)
SilentPeerIsDropped == link = "up" ~> (Ended \/ link = "down")

(***************************************************************************)
(* `If our initial connection to the peer drops, we will attempt to        *)
(* reconnect once', for which the Peer must have exited (TechnicalDesign): *)
(* a connection that was up and receiving, and is closed, comes to an end, *)
(* if its sender is not in its catch block.  Violated: see the README.     *)
(***************************************************************************)
DroppedConnectionEnds ==
  [](link = "up" /\ main \in Reading =>
       [](link = "down" => <>(HasExited \/ SenderThrew)))

=============================================================================
