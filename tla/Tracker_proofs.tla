--------------------------- MODULE Tracker_proofs ---------------------------
(***************************************************************************)
(* Proofs about Tracker, for any number of trackers, addresses and         *)
(* datagrams.                                                              *)
(***************************************************************************)
EXTENDS Tracker, SequenceTheorems, TLAPS

-----------------------------------------------------------------------------
\* What is true of a datagram that came: its peers were announced, and the
\* history has it if it was cut off.
KnownDatagrams ==
  {d \in Datagrams : /\ d.peers \subseteq announced
                     /\ d.kind = "cut" => "cut answer" \in faults}

DatagramsKnown ==
  \A t \in UdpTrackers : reply[t] \in KnownDatagrams /\ inbox[t] \in Seq(KnownDatagrams)

\* A request leaves at most one handler behind, and the history has it.
LateAreKnown ==
  \A t \in UdpTrackers :
    /\ phase[t] \in {"resolve", "connect"} => late[t] = 0
    /\ phase[t] = "announce" => late[t] <= 1
    /\ phase[t] = "resolve" => timer[t] = "off"
    /\ late[t] > 0 => "late timer" \in faults

\* Until the HTTP trackers are asked the peers are those of the UDP trackers,
\* and they are asked only if there are none.
UdpBeforeHttp ==
  /\ main = "udp" => peerSet = fromUdp
  /\ fromUdp # {} => peerSet = fromUdp
  /\ OneAnswerSuffices

MainInv ==
  /\ PeersWereAnnounced
  /\ UdpBeforeHttp
  /\ EndsBadlyForCause

Faults == {"late timer", "cut answer", "ragged string", "no bencode"}

\* The type invariant in parts: strings and sets, numbers, and a flag.
DataOK ==
  /\ phase \in [UdpTrackers -> {"resolve", "connect", "announce", "ended"}]
  /\ receive \in [UdpTrackers -> {"none", "waiting", "ready", "aborted"}]
  /\ reply \in [UdpTrackers -> Datagrams]
  /\ timer \in [UdpTrackers -> {"off", "armed", "expired"}]
  /\ inbox \in [UdpTrackers -> Seq(Datagrams)]

NumbersOK ==
  /\ late \in [UdpTrackers -> 0 .. 2]
  /\ delivered \in [UdpTrackers -> 0 .. MaxDatagrams]
  /\ nextHttp \in 1 .. NumHttp + 1

FlagOK == timedOut \in [UdpTrackers -> BOOLEAN]

SetsOK ==
  /\ peerSet \in SUBSET (Addresses \cup Unusable \cup {Garbage})
  /\ fromUdp \in SUBSET (Addresses \cup {Garbage})
  /\ announced \in SUBSET (Addresses \cup Unusable)
  /\ main \in {"udp", "http", "returned", "done", "thrown", "crashed"}
  /\ faults \in SUBSET Faults

Types == DataOK /\ NumbersOK /\ FlagOK /\ SetsOK

\* Only a coroutine that made a request waits for an answer or has one.
RequestMade ==
  \A t \in UdpTrackers : phase[t] \in {"resolve", "ended"} => receive[t] = "none"

IInv ==
  /\ Types
  /\ RequestMade
  /\ WaitIsTimed
  /\ DatagramsKnown
  /\ LateAreKnown
  /\ MainInv

-----------------------------------------------------------------------------
LEMMA TypesAreTypeOK == Types <=> TypeOK
BY DEF Types, DataOK, NumbersOK, FlagOK, SetsOK, Faults, TypeOK

LEMMA NoneIsDatagram == None \in Datagrams /\ None.kind # "cut" /\ None.peers = {}
BY DEF None, Datagrams, Replies

LEMMA InitIInv == Init => IInv
<1> SUFFICES ASSUME Init PROVE IInv
  OBVIOUS
<1>1. TypeOK
  BY NoneIsDatagram, TrackerAssumption DEF Init, TypeOK
<1>2. DatagramsKnown
  BY NoneIsDatagram DEF Init, DatagramsKnown, KnownDatagrams
<1> QED
  BY <1>1, <1>2, TypesAreTypeOK DEF Init, IInv, MainInv, WaitIsTimed, LateAreKnown, PeersWereAnnounced,
     UdpBeforeHttp, OneAnswerSuffices, EndsBadlyForCause, RequestMade

\* A sequence over a set is one over a larger set.
LEMMA LargerSet ==
  ASSUME NEW S, NEW T, S \subseteq T, NEW s \in Seq(S)
  PROVE  s \in Seq(T)
OBVIOUS

\* What is known stays known.
LEMMA KnownGrows ==
  ASSUME announced \subseteq announced', faults \subseteq faults'
  PROVE  KnownDatagrams \subseteq KnownDatagrams'
BY DEF KnownDatagrams

\* Datagrams that stay where they are stay known,
LEMMA UntouchedKeepsKnown ==
  ASSUME DatagramsKnown, reply' = reply, inbox' = inbox,
         announced' = announced, faults \subseteq faults'
  PROVE  DatagramsKnown'
BY KnownGrows, LargerSet DEF DatagramsKnown

\* ... and as long as no peer is added and add_peers stays where it is, so do
\* the properties of both.
LEMMA MainStays ==
  ASSUME MainInv, peerSet' = peerSet, fromUdp' = fromUdp, main' = main,
         announced \subseteq announced', faults \subseteq faults'
  PROVE  MainInv'
BY DEF MainInv, PeersWereAnnounced, UdpBeforeHttp, OneAnswerSuffices, EndsBadlyForCause

\* What a request leaves behind.
LEMMA LeaveRequestType ==
  ASSUME NumbersOK, SetsOK, LateAreKnown, NEW t \in UdpTrackers, LeaveRequest(t)
  PROVE  /\ faults' \in SUBSET Faults
         /\ faults \subseteq faults'
         /\ late' = [late EXCEPT ![t] = late'[t]]
         /\ late'[t] = late[t] \/ late'[t] = late[t] + 1
         /\ late'[t] > 0 => "late timer" \in faults'
<1>1. late[t] \in 0 .. 2 /\ late \in [UdpTrackers -> 0 .. 2]
  BY DEF NumbersOK
<1>2. late[t] > 0 => "late timer" \in faults
  BY DEF LateAreKnown
<1>3. faults \in SUBSET Faults
  BY DEF SetsOK
<1>4. CASE timer[t] = "expired"
  <2>1. late' = [late EXCEPT ![t] = late[t] + 1]
    BY <1>4 DEF LeaveRequest
  <2>2. faults' = faults \cup {"late timer"}
    BY <1>4 DEF LeaveRequest
  <2>3. faults' \in SUBSET Faults /\ faults \subseteq faults' /\ "late timer" \in faults'
    BY <2>2, <1>3 DEF Faults
  <2>4. late'[t] = late[t] + 1 /\ late' = [late EXCEPT ![t] = late'[t]]
    BY <1>1, <2>1
  <2> QED
    BY <2>3, <2>4
<1>5. CASE timer[t] # "expired"
  <2>1. late' = [late EXCEPT ![t] = late[t] + 0]
    BY <1>5 DEF LeaveRequest
  <2>2. faults' = faults
    BY <1>5 DEF LeaveRequest
  <2>3. late'[t] = late[t] /\ late' = [late EXCEPT ![t] = late'[t]]
    BY <1>1, <2>1
  <2> QED
    BY <1>2, <1>3, <2>2, <2>3
<1> QED
  BY <1>4, <1>5

\* A request, or the coroutine, that ends: the phase moves on by one.
LEMMA NextPhaseKeeps ==
  ASSUME NumbersOK, SetsOK, LateAreKnown, DataOK,
         NEW t \in UdpTrackers, LeaveRequest(t),
         NEW next \in {"announce", "ended"},
         phase[t] \in {"connect", "announce"},
         phase[t] = "announce" => next = "ended",
         phase' = [phase EXCEPT ![t] = next],
         UNCHANGED <<delivered, nextHttp>>,
         NEW r, timer' = [timer EXCEPT ![t] = r]
  PROVE  /\ NumbersOK'
         /\ LateAreKnown'
         /\ faults' \in SUBSET Faults
         /\ faults \subseteq faults'
<1>1. /\ faults' \in SUBSET Faults
      /\ faults \subseteq faults'
      /\ late' = [late EXCEPT ![t] = late'[t]]
      /\ late'[t] = late[t] \/ late'[t] = late[t] + 1
      /\ late'[t] > 0 => "late timer" \in faults'
  BY LeaveRequestType
<1>2. late[t] \in 0 .. 2 /\ late \in [UdpTrackers -> 0 .. 2]
  BY DEF NumbersOK
<1>3. late'[t] \in 0 .. 2 /\ (next = "announce" => late'[t] <= 1)
  <2>0. (late'[t] = late[t] \/ late'[t] = late[t] + 1) /\ late[t] \in 0 .. 2
    BY <1>1, <1>2
  <2>1. CASE phase[t] = "connect"
    <3>1. late[t] = 0
      BY <2>1 DEF LateAreKnown
    <3>2. late'[t] \in 0 .. 2 /\ late'[t] <= 1
      BY <2>0, <3>1
    <3> QED
      BY <3>2
  <2>2. CASE phase[t] = "announce"
    <3>1. late[t] <= 1
      BY <2>2 DEF LateAreKnown
    <3>2. late'[t] \in 0 .. 2
      BY <2>0, <3>1
    <3>3. next # "announce"
      BY <2>2
    <3> QED
      BY <3>2, <3>3
  <2> QED
    BY <2>1, <2>2
<1>4. late' \in [UdpTrackers -> 0 .. 2]
  BY <1>1, <1>2, <1>3
<1>5. NumbersOK'
  BY <1>4 DEF NumbersOK
<1>6. phase'[t] = next
  BY DEF DataOK
<1>7. ASSUME NEW s \in UdpTrackers \ {t}
      PROVE  phase'[s] = phase[s] /\ timer'[s] = timer[s] /\ late'[s] = late[s]
  BY <1>1, <1>2 DEF DataOK
<1>8. LateAreKnown'
  <2> SUFFICES ASSUME NEW s \in UdpTrackers
               PROVE  /\ phase'[s] \in {"resolve", "connect"} => late'[s] = 0
                      /\ phase'[s] = "announce" => late'[s] <= 1
                      /\ phase'[s] = "resolve" => timer'[s] = "off"
                      /\ late'[s] > 0 => "late timer" \in faults'
    BY DEF LateAreKnown
  <2>1. CASE s = t
    BY <2>1, <1>1, <1>3, <1>6
  <2>2. CASE s # t
    BY <2>2, <1>1, <1>7 DEF LateAreKnown
  <2> QED
    BY <2>1, <2>2
<1> QED
  BY <1>1, <1>5, <1>8

-----------------------------------------------------------------------------
\* The steps of UDP tracker t, one lemma each.

LEMMA ResolveKeepsIInv ==
  ASSUME DataOK, NumbersOK, FlagOK, SetsOK, RequestMade, WaitIsTimed, DatagramsKnown, LateAreKnown,
         MainInv,
         NEW t \in UdpTrackers, Resolve(t)
  PROVE  IInv'
<1> USE DEF Resolve, MakeRequest, EndCoroutine, mainVars
<1>1. Types'
  BY DEF Types, DataOK, NumbersOK, FlagOK, SetsOK
<1>2. WaitIsTimed' /\ RequestMade'
  BY DEF DataOK, WaitIsTimed, RequestMade
<1>3. DatagramsKnown'
  BY UntouchedKeepsKnown
<1>4. LateAreKnown'
  BY DEF DataOK, NumbersOK, LateAreKnown
<1>5. MainInv'
  BY MainStays
<1> QED
  BY <1>1, <1>2, <1>3, <1>4, <1>5 DEF IInv

LEMMA DeliverKeepsIInv ==
  ASSUME DataOK, NumbersOK, FlagOK, SetsOK, RequestMade, WaitIsTimed, DatagramsKnown, LateAreKnown,
         MainInv,
         NEW t \in UdpTrackers, NEW d \in Datagrams, Deliver(t, d)
  PROVE  IInv'
<1>0. /\ inbox' = [inbox EXCEPT ![t] = Append(inbox[t], d)]
      /\ delivered' = [delivered EXCEPT ![t] = delivered[t] + 1]
      /\ announced' = announced \cup d.peers
      /\ faults' = IF d.kind = "cut" THEN faults \cup {"cut answer"} ELSE faults
      /\ UNCHANGED <<phase, receive, reply, timer, late, peerSet, main, nextHttp, fromUdp>>
  BY DEF Deliver
<1>1. timedOut' = timedOut /\ delivered[t] < MaxDatagrams
  BY DEF Deliver
<1>2. /\ d.peers \subseteq Addresses
      /\ announced \subseteq announced' /\ faults \subseteq faults'
  BY <1>0 DEF Datagrams, Replies
<1>3. Types'
  <2>1. Append(inbox[t], d) \in Seq(Datagrams)
    BY DEF DataOK
  <2>2. delivered[t] + 1 \in 0 .. MaxDatagrams
    BY <1>1, TrackerAssumption DEF NumbersOK
  <2>3. DataOK'
    BY <1>0, <2>1 DEF DataOK
  <2>4. NumbersOK'
    BY <1>0, <2>2 DEF NumbersOK
  <2>5. SetsOK'
    BY <1>0, <1>2 DEF SetsOK, Faults
  <2>6. FlagOK'
    BY <1>1 DEF FlagOK
  <2> QED
    BY <2>3, <2>4, <2>5, <2>6 DEF Types
<1>4. WaitIsTimed' /\ RequestMade'
  BY <1>0 DEF WaitIsTimed, RequestMade
<1>5. DatagramsKnown'
  <2>1. d \in KnownDatagrams' /\ KnownDatagrams \subseteq KnownDatagrams'
    BY <1>0, <1>2, KnownGrows DEF KnownDatagrams
  <2>2. ASSUME NEW r \in UdpTrackers PROVE inbox'[r] \in Seq(KnownDatagrams')
    <3>1. inbox[r] \in Seq(KnownDatagrams')
      BY <2>1, LargerSet DEF DatagramsKnown
    <3>2. Append(inbox[r], d) \in Seq(KnownDatagrams')
      BY <2>1, <3>1
    <3>3. inbox'[r] = inbox[r] \/ inbox'[r] = Append(inbox[r], d)
      BY <1>0 DEF DataOK
    <3> QED
      BY <3>1, <3>2, <3>3
  <2>3. \A r \in UdpTrackers : reply'[r] \in KnownDatagrams'
    BY <1>0, <2>1 DEF DatagramsKnown
  <2> QED
    BY <2>2, <2>3 DEF DatagramsKnown
<1>6. LateAreKnown'
  BY <1>0, <1>2 DEF LateAreKnown
<1>7. MainInv'
  BY <1>0, <1>2, MainStays
<1> QED
  BY <1>3, <1>4, <1>5, <1>6, <1>7 DEF IInv

LEMMA ReceiveCompletesKeepsIInv ==
  ASSUME DataOK, NumbersOK, FlagOK, SetsOK, RequestMade, WaitIsTimed, DatagramsKnown, LateAreKnown,
         MainInv,
         NEW t \in UdpTrackers, ReceiveCompletes(t)
  PROVE  IInv'
<1> USE DEF ReceiveCompletes, mainVars
<1>0. KnownDatagrams' = KnownDatagrams /\ KnownDatagrams \subseteq Datagrams
  BY DEF KnownDatagrams
<1>1. Head(inbox[t]) \in KnownDatagrams /\ Tail(inbox[t]) \in Seq(KnownDatagrams)
  BY DEF DatagramsKnown
<1>2. Types'
  <2>1. /\ reply' \in [UdpTrackers -> Datagrams]
        /\ inbox' \in [UdpTrackers -> Seq(Datagrams)]
        /\ receive' \in [UdpTrackers -> {"none", "waiting", "ready", "aborted"}]
    BY <1>0, <1>1, LargerSet DEF DataOK
  <2> QED
    BY <2>1 DEF Types, DataOK, NumbersOK, FlagOK, SetsOK
<1>3. WaitIsTimed' /\ RequestMade'
  BY DEF DataOK, WaitIsTimed, RequestMade
<1>4. DatagramsKnown'
  BY <1>0, <1>1 DEF DatagramsKnown, DataOK
<1>5. LateAreKnown'
  BY DEF LateAreKnown
<1>6. MainInv'
  BY MainStays
<1> QED
  BY <1>2, <1>3, <1>4, <1>5, <1>6 DEF IInv

LEMMA TimerExpiresKeepsIInv ==
  ASSUME DataOK, NumbersOK, FlagOK, SetsOK, RequestMade, WaitIsTimed, DatagramsKnown, LateAreKnown,
         MainInv,
         NEW t \in UdpTrackers, TimerExpires(t)
  PROVE  IInv'
<1> USE DEF TimerExpires, mainVars
<1>1. Types'
  BY DEF Types, DataOK, NumbersOK, FlagOK, SetsOK
<1>2. WaitIsTimed' /\ RequestMade'
  BY DEF DataOK, WaitIsTimed, RequestMade
<1>3. DatagramsKnown'
  BY UntouchedKeepsKnown
<1>4. LateAreKnown'
  BY DEF DataOK, NumbersOK, LateAreKnown
<1>5. MainInv'
  BY MainStays
<1> QED
  BY <1>1, <1>2, <1>3, <1>4, <1>5 DEF IInv

LEMMA TimerHandlerKeepsIInv ==
  ASSUME DataOK, NumbersOK, FlagOK, SetsOK, RequestMade, WaitIsTimed, DatagramsKnown, LateAreKnown,
         MainInv,
         NEW t \in UdpTrackers, TimerHandler(t)
  PROVE  IInv'
<1> USE DEF TimerHandler, Cancelled, mainVars
<1>1. Types'
  BY DEF Types, DataOK, NumbersOK, FlagOK, SetsOK
<1>2. WaitIsTimed' /\ RequestMade'
  BY DEF DataOK, WaitIsTimed, RequestMade
<1>3. DatagramsKnown'
  BY UntouchedKeepsKnown
<1>4. LateAreKnown'
  BY DEF DataOK, NumbersOK, LateAreKnown
<1>5. MainInv'
  BY MainStays
<1> QED
  BY <1>1, <1>2, <1>3, <1>4, <1>5 DEF IInv

LEMMA LateHandlerKeepsIInv ==
  ASSUME DataOK, NumbersOK, FlagOK, SetsOK, RequestMade, WaitIsTimed, DatagramsKnown, LateAreKnown,
         MainInv,
         NEW t \in UdpTrackers, LateHandler(t)
  PROVE  IInv'
<1> USE DEF LateHandler, Cancelled
<1>1. Types'
  BY DEF Types, DataOK, NumbersOK, FlagOK, SetsOK
<1>2. WaitIsTimed' /\ RequestMade'
  BY DEF DataOK, WaitIsTimed, RequestMade
<1>3. DatagramsKnown'
  BY UntouchedKeepsKnown
<1>4. LateAreKnown'
  <2>1. late' = [late EXCEPT ![t] = late[t] - 1] /\ late[t] > 0
    OBVIOUS
  <2>2. UNCHANGED <<phase, timer, faults>>
    OBVIOUS
  <2> HIDE DEF LateHandler, Cancelled
  <2>3. ASSUME NEW s \in UdpTrackers
        PROVE  late'[s] \in 0 .. 2 /\ late[s] \in 0 .. 2 /\ late'[s] <= late[s]
    BY <2>1 DEF NumbersOK
  <2>4. ASSUME NEW s \in UdpTrackers
        PROVE  /\ phase'[s] \in {"resolve", "connect"} => late'[s] = 0
               /\ phase'[s] = "announce" => late'[s] <= 1
    <3>1. late'[s] \in 0 .. 2 /\ late[s] \in 0 .. 2 /\ late'[s] <= late[s]
      BY <2>3
    <3>2. (late[s] = 0 => late'[s] = 0) /\ (late[s] <= 1 => late'[s] <= 1)
      BY <3>1
    <3>3. phase'[s] = phase[s]
      BY <2>2
    <3> QED
      BY <3>2, <3>3 DEF LateAreKnown
  <2>5. ASSUME NEW s \in UdpTrackers
        PROVE  /\ phase'[s] = "resolve" => timer'[s] = "off"
               /\ late'[s] > 0 => "late timer" \in faults'
    <3>1. late'[s] \in 0 .. 2 /\ late[s] \in 0 .. 2 /\ late'[s] <= late[s]
      BY <2>3
    <3>2. late'[s] > 0 => late[s] > 0
      BY <3>1
    <3> QED
      BY <2>2, <3>2 DEF LateAreKnown
  <2> QED
    BY <2>4, <2>5 DEF LateAreKnown
<1>5. "late timer" \in faults
  BY DEF LateAreKnown
<1>6. MainInv'
  BY <1>5 DEF MainInv, PeersWereAnnounced, UdpBeforeHttp, OneAnswerSuffices, EndsBadlyForCause
<1> QED
  BY <1>1, <1>2, <1>3, <1>4, <1>6 DEF IInv

LEMMA ConnectedKeepsIInv ==
  ASSUME DataOK, NumbersOK, FlagOK, SetsOK, RequestMade, WaitIsTimed, DatagramsKnown, LateAreKnown,
         MainInv,
         NEW t \in UdpTrackers, Connected(t)
  PROVE  IInv'
<1>1. /\ phase[t] = "connect" /\ phase' = [phase EXCEPT ![t] = "announce"]
      /\ receive' = [receive EXCEPT ![t] = "waiting"]
      /\ timer' = [timer EXCEPT ![t] = "armed"]
      /\ LeaveRequest(t)
      /\ UNCHANGED <<reply, inbox, delivered, peerSet, main, nextHttp, fromUdp, announced>>
  BY DEF Connected, MakeRequest
<1>2. FlagOK'
  BY DEF Connected, MakeRequest, FlagOK
<1>3. /\ NumbersOK' /\ LateAreKnown'
      /\ faults' \in SUBSET Faults /\ faults \subseteq faults'
  BY <1>1, NextPhaseKeeps
<1>4. DataOK' /\ SetsOK'
  BY <1>1, <1>3 DEF DataOK, SetsOK
<1>5. WaitIsTimed' /\ RequestMade'
  BY <1>1 DEF DataOK, WaitIsTimed, RequestMade
<1>6. DatagramsKnown' /\ MainInv'
  BY <1>1, <1>3, UntouchedKeepsKnown, MainStays
<1> QED
  BY <1>2, <1>3, <1>4, <1>5, <1>6 DEF IInv, Types

LEMMA FailsKeepsIInv ==
  ASSUME DataOK, NumbersOK, FlagOK, SetsOK, RequestMade, WaitIsTimed, DatagramsKnown, LateAreKnown,
         MainInv,
         NEW t \in UdpTrackers, Fails(t)
  PROVE  IInv'
<1>1. /\ phase' = [phase EXCEPT ![t] = "ended"]
      /\ receive[t] \in {"ready", "aborted"}
      /\ receive' = [receive EXCEPT ![t] = "none"]
      /\ timer' = [timer EXCEPT ![t] = "off"]
      /\ LeaveRequest(t)
      /\ UNCHANGED <<reply, inbox, delivered, peerSet, main, nextHttp, fromUdp, announced>>
  BY DEF Fails, EndCoroutine
<1>2. FlagOK'
  BY DEF Fails, EndCoroutine, FlagOK
<1>3. /\ NumbersOK' /\ LateAreKnown'
      /\ faults' \in SUBSET Faults /\ faults \subseteq faults'
  <2>1. phase[t] \in {"connect", "announce"}
    BY <1>1 DEF RequestMade, DataOK
  <2> QED
    BY <1>1, <2>1, NextPhaseKeeps
<1>4. DataOK' /\ SetsOK'
  BY <1>1, <1>3 DEF DataOK, SetsOK
<1>5. WaitIsTimed' /\ RequestMade'
  BY <1>1 DEF DataOK, WaitIsTimed, RequestMade
<1>6. DatagramsKnown' /\ MainInv'
  BY <1>1, <1>3, UntouchedKeepsKnown, MainStays
<1> QED
  BY <1>2, <1>3, <1>4, <1>5, <1>6 DEF IInv, Types

LEMMA AnnouncedKeepsIInv ==
  ASSUME DataOK, NumbersOK, FlagOK, SetsOK, RequestMade, WaitIsTimed, DatagramsKnown, LateAreKnown,
         MainInv,
         NEW t \in UdpTrackers, Announced(t)
  PROVE  IInv'
<1>1. /\ phase[t] = "announce" /\ phase' = [phase EXCEPT ![t] = "ended"]
      /\ receive' = [receive EXCEPT ![t] = "none"]
      /\ timer' = [timer EXCEPT ![t] = "off"]
      /\ LeaveRequest(t)
      /\ UNCHANGED <<reply, inbox, delivered, nextHttp, announced>>
      /\ peerSet' = peerSet \cup AddressesIn(reply[t])
      /\ fromUdp' = fromUdp \cup AddressesIn(reply[t])
      /\ reply[t].kind \in {"announced", "cut"}
      /\ main = "udp" /\ main' \in {"udp", "crashed"}
      /\ main' = "crashed" => reply[t].kind = "cut"
  BY DEF Announced, EndCoroutine, IsAnswered
<1>2. FlagOK'
  BY DEF Announced, EndCoroutine, FlagOK
<1>3. /\ NumbersOK' /\ LateAreKnown'
      /\ faults' \in SUBSET Faults /\ faults \subseteq faults'
  BY <1>1, NextPhaseKeeps
<1>4. /\ AddressesIn(reply[t]) \subseteq Addresses \cup {Garbage}
      /\ AddressesIn(reply[t]) \subseteq announced \cup
           (IF faults \cap {"ragged string", "cut answer"} = {} THEN {} ELSE {Garbage})
      /\ reply[t].kind = "cut" => "cut answer" \in faults
  BY <1>1 DEF DatagramsKnown, KnownDatagrams, AddressesIn, Datagrams, Replies
<1>5. DataOK' /\ SetsOK'
  BY <1>1, <1>3, <1>4 DEF DataOK, SetsOK
<1>6. WaitIsTimed' /\ RequestMade'
  BY <1>1 DEF DataOK, WaitIsTimed, RequestMade
<1>7. DatagramsKnown'
  BY <1>1, <1>3, UntouchedKeepsKnown
<1>8. MainInv'
  BY <1>1, <1>3, <1>4
  DEF MainInv, PeersWereAnnounced, UdpBeforeHttp, OneAnswerSuffices, EndsBadlyForCause
<1> QED
  BY <1>2, <1>3, <1>5, <1>6, <1>7, <1>8 DEF IInv, Types

-----------------------------------------------------------------------------
\* The steps of add_peers and get_peers leave the UDP trackers alone.

LEMMA UdpUntouched ==
  ASSUME DataOK, FlagOK, late \in [UdpTrackers -> 0 .. 2],
         delivered \in [UdpTrackers -> 0 .. MaxDatagrams],
         RequestMade, WaitIsTimed, DatagramsKnown, LateAreKnown,
         UNCHANGED udpVars, announced \subseteq announced', faults \subseteq faults'
  PROVE  /\ DataOK' /\ FlagOK' /\ RequestMade' /\ WaitIsTimed'
         /\ DatagramsKnown' /\ LateAreKnown'
         /\ (late \in [UdpTrackers -> 0 .. 2])'
         /\ (delivered \in [UdpTrackers -> 0 .. MaxDatagrams])'
<1> USE DEF udpVars
<1>1. DataOK' /\ FlagOK'
  BY DEF DataOK, FlagOK
<1>2. RequestMade' /\ WaitIsTimed'
  BY DEF RequestMade, WaitIsTimed
<1>3. DatagramsKnown'
  <2>1. KnownDatagrams \subseteq KnownDatagrams'
    BY KnownGrows
  <2> QED
    BY <2>1, LargerSet DEF DatagramsKnown
<1>4. LateAreKnown'
  BY DEF LateAreKnown
<1> QED
  BY <1>1, <1>2, <1>3, <1>4

\* What is left to prove of such a step: the sets, the number, and MainInv.
LEMMA MainStepKeepsIInv ==
  ASSUME IInv, UNCHANGED udpVars, announced \subseteq announced', faults \subseteq faults',
         SetsOK', nextHttp' \in 1 .. NumHttp + 1, MainInv'
  PROVE  IInv'
<1>1. /\ late \in [UdpTrackers -> 0 .. 2]
      /\ delivered \in [UdpTrackers -> 0 .. MaxDatagrams]
  BY DEF IInv, Types, NumbersOK
<1>2. /\ DataOK' /\ FlagOK' /\ RequestMade' /\ WaitIsTimed'
      /\ DatagramsKnown' /\ LateAreKnown'
      /\ (late \in [UdpTrackers -> 0 .. 2])'
      /\ (delivered \in [UdpTrackers -> 0 .. MaxDatagrams])'
  BY <1>1, UdpUntouched DEF IInv, Types
<1> QED
  BY <1>2 DEF IInv, Types, NumbersOK

LEMMA MainStepsKeepIInv ==
  ASSUME IInv, UdpEnds \/ AskHttp \/ HttpEnds \/ GetPeers
  PROVE  IInv'
<1> DEFINE Inv == /\ PeersWereAnnounced /\ UdpBeforeHttp /\ EndsBadlyForCause
                  /\ SetsOK /\ nextHttp \in 1 .. NumHttp + 1
<1>1. Inv
  BY DEF IInv, MainInv, Types, NumbersOK
<1> USE DEF MainInv, PeersWereAnnounced, UdpBeforeHttp, OneAnswerSuffices, EndsBadlyForCause
<1>2. CASE UdpEnds
  <2>1. /\ main = "udp" /\ main' = IF peerSet # {} THEN "returned" ELSE "http"
        /\ UNCHANGED <<udpVars, peerSet, nextHttp, fromUdp, announced, faults>>
    BY <1>2 DEF UdpEnds, AfterUdp
  <2>2. SetsOK' /\ MainInv' /\ nextHttp' \in 1 .. NumHttp + 1
    BY <1>1, <2>1 DEF SetsOK
  <2> QED
    BY <2>1, <2>2, MainStepKeepsIInv
<1>3. CASE AskHttp
  <2>1. /\ main = "http" /\ fromUdp = {}
        /\ UNCHANGED <<udpVars, fromUdp>>
    BY <1>1, <1>3 DEF AskHttp, HttpAnswers, HttpRagged, HttpUndecodable, AskNextHttp
  <2>2. nextHttp' \in 1 .. NumHttp + 1
    <3>1. nextHttp' = nextHttp + 1 /\ nextHttp <= NumHttp
      BY <1>3 DEF AskHttp, HttpAnswers, HttpRagged, HttpUndecodable, AskNextHttp
    <3>2. nextHttp \in 1 .. NumHttp + 1
      BY <1>1
    <3> HIDE DEF Inv
    <3> QED
      BY <3>1, <3>2, TrackerAssumption
  <2>3. CASE \E peers \in SUBSET (Addresses \cup Unusable) : HttpAnswers(peers)
    <3>1. PICK peers \in SUBSET (Addresses \cup Unusable) :
            /\ peerSet' = peerSet \cup peers
            /\ announced' = announced \cup peers
            /\ UNCHANGED <<main, faults>>
      BY <2>3 DEF HttpAnswers
    <3>2. SetsOK' /\ MainInv'
      BY <1>1, <2>1, <3>1 DEF SetsOK
    <3> QED
      BY <2>1, <2>2, <3>1, <3>2, MainStepKeepsIInv
  <2>4. CASE \E peers \in SUBSET Addresses : HttpRagged(peers)
    <3>1. PICK peers \in SUBSET Addresses :
            /\ peerSet' = peerSet \cup peers \cup {Garbage}
            /\ announced' = announced \cup peers
            /\ faults' = faults \cup {"ragged string"}
            /\ UNCHANGED main
      BY <2>4 DEF HttpRagged
    <3>2. SetsOK' /\ MainInv'
      BY <1>1, <2>1, <3>1 DEF SetsOK, Faults
    <3> QED
      BY <2>1, <2>2, <3>1, <3>2, MainStepKeepsIInv
  <2>5. CASE HttpUndecodable
    <3>1. /\ main' = "thrown"
          /\ faults' = faults \cup {"no bencode"}
          /\ UNCHANGED <<peerSet, announced>>
      BY <2>5 DEF HttpUndecodable
    <3>2. SetsOK' /\ MainInv'
      BY <1>1, <2>1, <3>1 DEF SetsOK, Faults
    <3> QED
      BY <2>1, <2>2, <3>1, <3>2, MainStepKeepsIInv
  <2> QED
    BY <1>3, <2>3, <2>4, <2>5 DEF AskHttp
<1>4. CASE HttpEnds
  <2>1. /\ main = "http" /\ main' = "returned"
        /\ UNCHANGED <<udpVars, peerSet, nextHttp, fromUdp, announced, faults>>
    BY <1>4 DEF HttpEnds
  <2>2. SetsOK' /\ MainInv' /\ nextHttp' \in 1 .. NumHttp + 1
    BY <1>1, <2>1 DEF SetsOK
  <2> QED
    BY <2>1, <2>2, MainStepKeepsIInv
<1>5. CASE GetPeers
  <2>1. /\ main = "returned"
        /\ main' = IF peerSet \cap Unusable = {} THEN "done" ELSE "thrown"
        /\ UNCHANGED <<udpVars, peerSet, nextHttp, fromUdp, announced, faults>>
    BY <1>5 DEF GetPeers
  <2>2. SetsOK' /\ nextHttp' \in 1 .. NumHttp + 1
    BY <1>1, <2>1 DEF SetsOK
  <2>3. peerSet \cap Unusable \subseteq announced
    BY <1>1, TrackerAssumption
  <2>4. fromUdp # {} => peerSet \cap Unusable = {}
    BY <1>1, TrackerAssumption DEF SetsOK
  <2>5. MainInv'
    BY <1>1, <2>1, <2>3, <2>4
  <2> QED
    BY <2>1, <2>2, <2>5, MainStepKeepsIInv
<1> QED
  BY <1>2, <1>3, <1>4, <1>5

-----------------------------------------------------------------------------
LEMMA NextKeepsIInv == IInv /\ [Next]_vars => IInv'
<1> SUFFICES ASSUME IInv, [Next]_vars PROVE IInv'
  OBVIOUS
<1>1. /\ DataOK /\ NumbersOK /\ FlagOK /\ SetsOK /\ RequestMade /\ WaitIsTimed
      /\ DatagramsKnown /\ LateAreKnown /\ MainInv
  BY DEF IInv, Types
<1>2. ASSUME NEW t \in UdpTrackers, Resolve(t) PROVE IInv'
  BY <1>1, <1>2, ResolveKeepsIInv
<1>3. ASSUME NEW t \in UdpTrackers, NEW d \in Datagrams, Deliver(t, d) PROVE IInv'
  BY <1>1, <1>3, DeliverKeepsIInv
<1>4. ASSUME NEW t \in UdpTrackers, ReceiveCompletes(t) PROVE IInv'
  BY <1>1, <1>4, ReceiveCompletesKeepsIInv
<1>5. ASSUME NEW t \in UdpTrackers, TimerExpires(t) PROVE IInv'
  BY <1>1, <1>5, TimerExpiresKeepsIInv
<1>6. ASSUME NEW t \in UdpTrackers, TimerHandler(t) PROVE IInv'
  BY <1>1, <1>6, TimerHandlerKeepsIInv
<1>7. ASSUME NEW t \in UdpTrackers, LateHandler(t) PROVE IInv'
  BY <1>1, <1>7, LateHandlerKeepsIInv
<1>8. ASSUME NEW t \in UdpTrackers, Connected(t) PROVE IInv'
  BY <1>1, <1>8, ConnectedKeepsIInv
<1>9. ASSUME NEW t \in UdpTrackers, Announced(t) PROVE IInv'
  BY <1>1, <1>9, AnnouncedKeepsIInv
<1>10. ASSUME NEW t \in UdpTrackers, Fails(t) PROVE IInv'
  BY <1>1, <1>10, FailsKeepsIInv
<1>11. CASE UdpEnds \/ AskHttp \/ HttpEnds \/ GetPeers
  BY <1>11, MainStepsKeepIInv
<1>12. CASE UNCHANGED vars
  <2>1. /\ UNCHANGED udpVars /\ announced \subseteq announced' /\ faults \subseteq faults'
        /\ UNCHANGED mainVars
    BY <1>12 DEF vars, mainVars
  <2>2. SetsOK' /\ nextHttp' \in 1 .. NumHttp + 1
    BY <1>1, <2>1 DEF SetsOK, NumbersOK, mainVars
  <2>3. MainInv'
    BY <1>1, <2>1, MainStays DEF mainVars
  <2> QED
    BY <2>1, <2>2, <2>3, MainStepKeepsIInv
<1> QED
  BY <1>2, <1>3, <1>4, <1>5, <1>6, <1>7, <1>8, <1>9, <1>10, <1>11, <1>12
  DEF Next, GoesOn, Done

-----------------------------------------------------------------------------
(***************************************************************************)
(* The invariant under all of Tracker::add_peers, get_peers and the UDP    *)
(* trackers' coroutines: what is in a socket was announced, a handler that *)
(* is left behind is on record, and the HTTP trackers come second.         *)
(***************************************************************************)
THEOREM Inductive == Spec => []IInv
<1>1. IInv /\ [Next]_vars => IInv'
  BY NextKeepsIInv
<1> QED
  BY <1>1, InitIInv, PTL DEF Spec

(***************************************************************************)
(* Every value that asking the trackers computes has its type; no more     *)
(* than two handlers are ever left behind by one UDP tracker.              *)
(***************************************************************************)
THEOREM TypeCorrect == Spec => []TypeOK
<1>1. IInv => TypeOK
  BY TypesAreTypeOK DEF IInv
<1> QED
  BY <1>1, Inductive, PTL

(***************************************************************************)
(* A UDP coroutine that waits for a datagram always has a timer that will  *)
(* end the wait (UdpTracker::send_connect_request, send_announce_request). *)
(***************************************************************************)
THEOREM WaitsAreTimed == Spec => []WaitIsTimed
<1>1. IInv => WaitIsTimed
  BY DEF IInv
<1> QED
  BY <1>1, Inductive, PTL

(***************************************************************************)
(* peer_set_ holds only addresses that a tracker announced, and what the   *)
(* two overreads make of bytes that were none.                             *)
(***************************************************************************)
THEOREM OnlyAnnounced == Spec => []PeersWereAnnounced
<1>1. IInv => PeersWereAnnounced
  BY DEF IInv, MainInv
<1> QED
  BY <1>1, Inductive, PTL

(***************************************************************************)
(* Once a UDP tracker gave a peer, Tracker::add_peers asks no HTTP tracker *)
(* and neither it nor get_peers throws.                                    *)
(***************************************************************************)
THEOREM UdpIsEnough == Spec => []OneAnswerSuffices
<1>1. IInv => OneAnswerSuffices
  BY DEF IInv, MainInv, UdpBeforeHttp
<1> QED
  BY <1>1, Inductive, PTL

(***************************************************************************)
(* Neither an exception out of add_peers or get_peers nor a crash comes    *)
(* from a timeout, a lost or strange datagram, or a tracker that is away.  *)
(***************************************************************************)
THEOREM BadEndsHaveCauses == Spec => []EndsBadlyForCause
<1>1. IInv => EndsBadlyForCause
  BY DEF IInv, MainInv
<1> QED
  BY <1>1, Inductive, PTL

=============================================================================
