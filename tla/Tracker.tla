------------------------------ MODULE Tracker ------------------------------
(***************************************************************************)
(* Asking the trackers for peers, which the client does once, at its start *)
(* (classes Tracker, UdpTracker and HttpTracker): a coroutine per UDP      *)
(* tracker, all on one io_context, and then, if they brought no peer, the  *)
(* HTTP trackers one by one.                                               *)
(*                                                                         *)
(* A UDP tracker is asked twice: to connect and to announce.  Each request *)
(* waits for one datagram, of any sender, against a timer of five seconds. *)
(* Datagrams are lost, duplicated, delayed and reordered, and wait in the  *)
(* socket while the coroutine does something else.  Handlers that are due  *)
(* run one at a time, in any order.                                        *)
(***************************************************************************)
EXTENDS Integers, FiniteSets, Sequences

CONSTANTS
  UdpTrackers,   \* the udp URLs of tracker_url_list_
  NumHttp,       \* how many http URLs there are
  Addresses,     \* addresses that get_peers can split and parse
  Unusable,      \* addresses that an HTTP tracker may list, but that cannot be
                 \* split: a port out of range, or a colon in the host
  Garbage,       \* an address made of bytes that are none
  MaxDatagrams   \* bound: datagrams that reach the socket of one UDP tracker

ASSUME TrackerAssumption ==
  /\ NumHttp \in Nat
  /\ MaxDatagrams \in Nat
  /\ Garbage \notin Addresses \cup Unusable
  /\ Addresses \cap Unusable = {}

VARIABLES
  phase,      \* of each UdpTracker: which of its requests it has made last
  receive,    \* its async_receive_from: waiting, or complete (ready, aborted)
              \* with the coroutine due to go on
  reply,      \* the datagram that made it ready
  timer,      \* of the current request: off, armed, or expired with its
              \* handler due
  timedOut,   \* *error_occurred of the current request
  late,       \* how many handlers are due whose request, and whose coroutine
              \* frame, is gone
  inbox,      \* datagrams that wait in the socket
  delivered,  \* how many datagrams there were
  peerSet,    \* peer_set_
  main,       \* where Tracker::add_peers and get_peers are
  nextHttp,   \* the next HTTP tracker to ask
  fromUdp,    \* the members of peerSet that a UDP tracker added (history)
  announced,  \* the addresses that trackers named (history)
  faults      \* what went wrong outside (history)

udpVars == <<phase, receive, reply, timer, timedOut, late, inbox, delivered>>
mainVars == <<peerSet, main, nextHttp, fromUdp, announced, faults>>
vars == <<udpVars, mainVars>>

Replies(kind, addresses) == [kind : kind, peers : SUBSET addresses]

\* What a datagram is to its receiver: an answer with the action and the
\* transaction id of the last request, or such an answer cut off; or anything
\* else, an answer to an earlier request among it.
Datagrams ==
  Replies({"connected", "other", "cut"}, {}) \cup Replies({"announced"}, Addresses)

None == [kind |-> "other", peers |-> {}]

Init ==
  /\ phase = [t \in UdpTrackers |-> "resolve"]
  /\ receive = [t \in UdpTrackers |-> "none"]
  /\ reply = [t \in UdpTrackers |-> None]
  /\ timer = [t \in UdpTrackers |-> "off"]
  /\ timedOut = [t \in UdpTrackers |-> FALSE]
  /\ late = [t \in UdpTrackers |-> 0]
  /\ inbox = [t \in UdpTrackers |-> <<>>]
  /\ delivered = [t \in UdpTrackers |-> 0]
  /\ peerSet = {} /\ fromUdp = {} /\ announced = {} /\ faults = {}
  /\ main = "udp" /\ nextHttp = 1

-----------------------------------------------------------------------------
\* The sequel of a request's frame: a handler that is due outlives it, since
\* the timer's destructor can no longer cancel it.
LeaveRequest(t) ==
  /\ late' = [late EXCEPT ![t] = @ + (IF timer[t] = "expired" THEN 1 ELSE 0)]
  /\ faults' = IF timer[t] = "expired" THEN faults \cup {"late timer"} ELSE faults

\* A faulty variant: the second request has no timer.
MakeRequestUntimed(t, next) ==
  /\ phase' = [phase EXCEPT ![t] = next]
  /\ receive' = [receive EXCEPT ![t] = "waiting"]
  /\ timer' = [timer EXCEPT ![t] = IF next = "connect" THEN "armed" ELSE "off"]
  /\ timedOut' = [timedOut EXCEPT ![t] = FALSE]

\* send_connect_request and send_announce_request, up to their co_await.
MakeRequest(t, next) ==
  /\ phase' = [phase EXCEPT ![t] = next]
  /\ receive' = [receive EXCEPT ![t] = "waiting"]
  /\ timer' = [timer EXCEPT ![t] = "armed"]
  /\ timedOut' = [timedOut EXCEPT ![t] = FALSE]

\* The coroutine of add_peers ends, by an exception or not.
EndCoroutine(t) ==
  /\ phase' = [phase EXCEPT ![t] = "ended"]
  /\ receive' = [receive EXCEPT ![t] = "none"]
  /\ timer' = [timer EXCEPT ![t] = "off"]
  /\ UNCHANGED timedOut

\* The name is resolved and the first request is made; or the URL is
\* malformed, the name unknown, or the datagram cannot be sent.
Resolve(t) ==
  /\ main = "udp" /\ phase[t] = "resolve"
  /\ MakeRequest(t, "connect") \/ EndCoroutine(t)
  /\ UNCHANGED <<reply, late, inbox, delivered, mainVars>>

\* The network: a datagram for the socket of t.
Deliver(t, d) ==
  /\ main = "udp" /\ phase[t] \in {"connect", "announce"}
  /\ delivered[t] < MaxDatagrams
  /\ d.kind = "connected" => phase[t] = "connect"
  /\ d.kind = "announced" => phase[t] = "announce"
  /\ inbox' = [inbox EXCEPT ![t] = Append(@, d)]
  /\ delivered' = [delivered EXCEPT ![t] = @ + 1]
  /\ announced' = announced \cup d.peers
  /\ faults' = IF d.kind = "cut" THEN faults \cup {"cut answer"} ELSE faults
  /\ UNCHANGED <<phase, receive, reply, timer, timedOut, late, peerSet, main,
                 nextHttp, fromUdp>>

ReceiveCompletes(t) ==
  /\ main = "udp" /\ receive[t] = "waiting" /\ inbox[t] # <<>>
  /\ receive' = [receive EXCEPT ![t] = "ready"]
  /\ reply' = [reply EXCEPT ![t] = Head(inbox[t])]
  /\ inbox' = [inbox EXCEPT ![t] = Tail(@)]
  /\ UNCHANGED <<phase, timer, timedOut, late, delivered, mainVars>>

TimerExpires(t) ==
  /\ main = "udp" /\ timer[t] = "armed"
  /\ timer' = [timer EXCEPT ![t] = "expired"]
  /\ UNCHANGED <<phase, receive, reply, timedOut, late, inbox, delivered, mainVars>>

\* A faulty variant: the wait is not ended.
NothingCancelled(t) == receive

\* socket_.cancel() ends a receive that waits, not one that is complete.
Cancelled(t) ==
  IF receive[t] = "waiting" THEN [receive EXCEPT ![t] = "aborted"] ELSE receive

TimerHandler(t) ==
  /\ main = "udp" /\ timer[t] = "expired"
  /\ timer' = [timer EXCEPT ![t] = "off"]
  /\ receive' = Cancelled(t)
  /\ timedOut' = [timedOut EXCEPT ![t] = TRUE]
  /\ UNCHANGED <<phase, reply, late, inbox, delivered, mainVars>>

\* The handler of a request that is over: it cancels whatever the socket is
\* doing now, and writes through a pointer in a frame that is gone.
LateHandler(t) ==
  /\ main = "udp" /\ late[t] > 0
  /\ late' = [late EXCEPT ![t] = @ - 1]
  /\ receive' = Cancelled(t)
  /\ main' \in {"udp", "crashed"}
  /\ UNCHANGED <<phase, reply, timer, timedOut, inbox, delivered,
                 peerSet, nextHttp, fromUdp, announced, faults>>

-----------------------------------------------------------------------------
\* A faulty variant: the action and the transaction id are not looked at.
AnyAnswer(t, kind) == receive[t] = "ready" /\ ~timedOut[t]

\* The coroutine has an answer of the given kind to its request.
IsAnswered(t, kind) ==
  /\ receive[t] = "ready" /\ ~timedOut[t]
  /\ reply[t].kind \in {kind, "cut"}

\* The addresses that the bytes of a datagram spell.
AddressesIn(d) == IF d.kind = "announced" THEN d.peers ELSE {Garbage}

\* The end of send_connect_request, and the second request.  Nothing but the
\* action and the id is looked at: of an answer that is cut off the rest of
\* connect_response is read as it was.
Connected(t) ==
  /\ main = "udp" /\ phase[t] = "connect"
  /\ IsAnswered(t, "connected")
  /\ MakeRequest(t, "announce")
  /\ LeaveRequest(t)
  /\ UNCHANGED <<reply, inbox, delivered, peerSet, main, nextHttp, fromUdp, announced>>

\* The end of send_announce_request.  bytes_received - 20 wraps for an answer
\* that is cut off: the loop inserts what lies behind the buffer until the
\* program crashes, or memory runs out and the exception is caught.
Announced(t) ==
  /\ main = "udp" /\ phase[t] = "announce"
  /\ IsAnswered(t, "announced")
  /\ main' \in {main} \cup (IF reply[t].kind = "cut" THEN {"crashed"} ELSE {})
  /\ peerSet' = peerSet \cup AddressesIn(reply[t])
  /\ fromUdp' = fromUdp \cup AddressesIn(reply[t])
  /\ EndCoroutine(t)
  /\ LeaveRequest(t)
  /\ UNCHANGED <<reply, inbox, delivered, nextHttp, announced>>

\* An exception: the receive was aborted, or came after the timer; its
\* answer is none or, being cut off before them, has no action and id; or the
\* next request cannot be sent.
Fails(t) ==
  /\ main = "udp"
  /\ \/ receive[t] = "aborted"
     \/ /\ receive[t] = "ready"
        /\ \/ timedOut[t]
           \/ phase[t] = "connect"
           \/ reply[t].kind # "announced"
  /\ EndCoroutine(t)
  /\ LeaveRequest(t)
  /\ UNCHANGED <<reply, inbox, delivered, peerSet, main, nextHttp, fromUdp, announced>>

-----------------------------------------------------------------------------
\* A faulty variant: the HTTP trackers are asked in any case.
AfterUdpAlways == "http"

AfterUdp == IF peerSet # {} THEN "returned" ELSE "http"

\* add_peers: io_context.run returns when no coroutine and no handler is left.
UdpEnds ==
  /\ main = "udp"
  /\ \A t \in UdpTrackers : phase[t] = "ended" /\ late[t] = 0
  /\ main' = AfterUdp
  /\ UNCHANGED <<udpVars, peerSet, nextHttp, fromUdp, announced, faults>>

\* A faulty variant: one more than there are.
AskOneMoreHttp ==
  /\ main = "http" /\ nextHttp <= NumHttp + 1
  /\ nextHttp' = nextHttp + 1
  /\ UNCHANGED <<udpVars, fromUdp>>

AskNextHttp ==
  /\ main = "http" /\ nextHttp <= NumHttp
  /\ nextHttp' = nextHttp + 1
  /\ UNCHANGED <<udpVars, fromUdp>>

\* A faulty variant: parse_tracker_response is not in a try block.
HttpIncompleteThrows(peers) ==
  /\ AskNextHttp
  /\ peerSet' = peerSet \cup peers
  /\ announced' = announced \cup peers
  /\ main' \in {"http", "thrown"}
  /\ UNCHANGED faults

\* An answer with these peers; or with an entry behind them that is none,
\* whose exception is caught; or, without peers, none of status 200.
HttpAnswers(peers) ==
  /\ AskNextHttp
  /\ peerSet' = peerSet \cup peers
  /\ announced' = announced \cup peers
  /\ UNCHANGED <<main, faults>>

\* A string whose length is no multiple of six: the last address is read
\* beyond its end.
HttpRagged(peers) ==
  /\ AskNextHttp
  /\ peerSet' = peerSet \cup peers \cup {Garbage}
  /\ announced' = announced \cup peers
  /\ faults' = faults \cup {"ragged string"}
  /\ UNCHANGED main

\* bencode::decode throws, in send_request, which no try block is around.
HttpUndecodable ==
  /\ AskNextHttp
  /\ main' = "thrown"
  /\ faults' = faults \cup {"no bencode"}
  /\ UNCHANGED <<peerSet, announced>>

HttpEnds ==
  /\ main = "http" /\ nextHttp > NumHttp
  /\ main' = "returned"
  /\ UNCHANGED <<udpVars, peerSet, nextHttp, fromUdp, announced, faults>>

\* get_peers, called next: split_conn_string throws for an unusable address.
GetPeers ==
  /\ main = "returned"
  /\ main' = IF peerSet \cap Unusable = {} THEN "done" ELSE "thrown"
  /\ UNCHANGED <<udpVars, peerSet, nextHttp, fromUdp, announced, faults>>

AskHttp ==
  \/ \E peers \in SUBSET (Addresses \cup Unusable) : HttpAnswers(peers)
  \/ \E peers \in SUBSET Addresses : HttpRagged(peers)
  \/ HttpUndecodable

Done == main \in {"done", "thrown", "crashed"} /\ UNCHANGED vars

GoesOn(t) == Connected(t) \/ Announced(t) \/ Fails(t)

Next ==
  \/ \E t \in UdpTrackers :
       \/ Resolve(t)
       \/ \E d \in Datagrams : Deliver(t, d)
       \/ ReceiveCompletes(t)
       \/ TimerExpires(t)
       \/ TimerHandler(t)
       \/ LateHandler(t)
       \/ GoesOn(t)
  \/ UdpEnds
  \/ AskHttp
  \/ HttpEnds
  \/ GetPeers
  \/ Done

Spec == Init /\ [][Next]_vars

\* The resolver answers, timers expire, handlers that are due are run, and
\* cpr::Get gives up after its timeout.  Nothing is said of the network.
Fairness ==
  /\ \A t \in UdpTrackers :
       /\ WF_vars(Resolve(t))
       /\ WF_vars(TimerExpires(t))
       /\ WF_vars(TimerHandler(t))
       /\ WF_vars(LateHandler(t))
       /\ WF_vars(GoesOn(t))
  /\ WF_vars(UdpEnds) /\ WF_vars(AskHttp) /\ WF_vars(HttpEnds) /\ WF_vars(GetPeers)

FairSpec == Spec /\ Fairness

-----------------------------------------------------------------------------
TypeOK ==
  /\ phase \in [UdpTrackers -> {"resolve", "connect", "announce", "ended"}]
  /\ receive \in [UdpTrackers -> {"none", "waiting", "ready", "aborted"}]
  /\ reply \in [UdpTrackers -> Datagrams]
  /\ timer \in [UdpTrackers -> {"off", "armed", "expired"}]
  /\ timedOut \in [UdpTrackers -> BOOLEAN]
  /\ late \in [UdpTrackers -> 0 .. 2]
  /\ inbox \in [UdpTrackers -> Seq(Datagrams)]
  /\ delivered \in [UdpTrackers -> 0 .. MaxDatagrams]
  /\ peerSet \in SUBSET (Addresses \cup Unusable \cup {Garbage})
  /\ fromUdp \in SUBSET (Addresses \cup {Garbage})
  /\ announced \in SUBSET (Addresses \cup Unusable)
  /\ main \in {"udp", "http", "returned", "done", "thrown", "crashed"}
  /\ nextHttp \in 1 .. NumHttp + 1
  /\ faults \in SUBSET {"late timer", "cut answer", "ragged string", "no bencode"}

(***************************************************************************)
(* A coroutine that waits for a datagram has a timer of its own that will  *)
(* wake it, whatever timers of earlier requests still do.                  *)
(***************************************************************************)
WaitIsTimed ==
  \A t \in UdpTrackers : receive[t] = "waiting" => timer[t] \in {"armed", "expired"}

(***************************************************************************)
(* The client connects only to what a tracker named: no datagram that is   *)
(* late, duplicated or somebody else's is taken for a list of peers.       *)
(***************************************************************************)
PeersWereAnnounced ==
  peerSet \subseteq announced \cup
    (IF faults \cap {"ragged string", "cut answer"} = {} THEN {} ELSE {Garbage})

(***************************************************************************)
(* Peers of one UDP tracker are enough: no HTTP tracker is asked, and none *)
(* of their answers can end the program any more.                          *)
(***************************************************************************)
OneAnswerSuffices == fromUdp # {} => main \notin {"http", "thrown"}

(***************************************************************************)
(* An exception out of add_peers or get_peers, or a crash, has a cause     *)
(* outside: an HTTP answer, a UDP answer that is cut off, or one that came *)
(* in the very moment its timer expired.  Timeouts, unreachable trackers,  *)
(* strange datagrams and incomplete HTTP answers are survived.             *)
(***************************************************************************)
EndsBadlyForCause ==
  /\ main = "thrown" => "no bencode" \in faults \/ announced \cap Unusable # {}
  /\ main = "crashed" => faults \cap {"cut answer", "late timer"} # {}

(***************************************************************************)
(* Whatever is lost, asking the trackers comes to an end.                  *)
(***************************************************************************)
AddPeersEnds == <>(main \in {"done", "thrown", "crashed"})

=============================================================================
