----------------------------- MODULE Peer_proofs -----------------------------
(***************************************************************************)
(* The safety of one connection, for every pipeline depth, width of the    *)
(* counter and number of messages; and which handshakes open one, for      *)
(* every size of their parts.                                              *)
(***************************************************************************)
EXTENDS Peer, Wire, FiniteSetTheorems, SequenceTheorems, TLAPS

-----------------------------------------------------------------------------
(***************************************************************************)
(* Each flag is set by the last step of its coroutine; the sender's is     *)
(* true until it is spawned.                                               *)
(***************************************************************************)
ExitOK ==
  /\ mainRoutineHasExited => main = "done"
  /\ spawnedRoutineHasExited => send \in {"none", "done"}
  /\ main \in {"connect", "handshake", "interested"} => send = "none"

-----------------------------------------------------------------------------
(***************************************************************************)
(* The counter goes once around at most: what it holds when c requests are *)
(* counted, where c is -1 if an answer was faster than its write.          *)
(***************************************************************************)
Shown(c) == IF c = -1 THEN CounterModulus - 1 ELSE c

LEMMA WrapAtZero ==
  /\ 0 % CounterModulus = 0
  /\ CounterModulus % CounterModulus = 0
  /\ (-1) % CounterModulus = CounterModulus - 1
BY PeerAssumption

LEMMA WrapInside ==
  ASSUME NEW n \in 0 .. CounterModulus - 1
  PROVE  Wrap(n) = n
BY PeerAssumption DEF Wrap

LEMMA CountUp ==
  ASSUME NEW c \in -1 .. MaxInFlight - 1
  PROVE  Wrap(Shown(c) + 1) = Shown(c + 1)
<1>1. CASE c = -1
  <2>1. Shown(c) + 1 = CounterModulus /\ Shown(c + 1) = 0
    BY <1>1, PeerAssumption DEF Shown
  <2> QED
    BY <2>1, WrapAtZero DEF Wrap
<1>2. CASE c # -1
  <2>1. Shown(c) + 1 = c + 1 /\ Shown(c + 1) = c + 1 /\ c + 1 \in 0 .. CounterModulus - 1
    BY <1>2, PeerAssumption DEF Shown
  <2> QED
    BY <2>1, WrapInside
<1> QED
  BY <1>1, <1>2

LEMMA CountDown ==
  ASSUME NEW c \in 0 .. MaxInFlight
  PROVE  Wrap(Shown(c) - 1) = Shown(c - 1)
<1>1. CASE c = 0
  <2>1. Shown(c) - 1 = -1 /\ Shown(c - 1) = CounterModulus - 1
    BY <1>1, PeerAssumption DEF Shown
  <2> QED
    BY <2>1, WrapAtZero DEF Wrap
<1>2. CASE c # 0
  <2>1. Shown(c) - 1 = c - 1 /\ Shown(c - 1) = c - 1 /\ c - 1 \in 0 .. CounterModulus - 1
    BY <1>2, PeerAssumption DEF Shown
  <2> QED
    BY <2>1, WrapInside
<1> QED
  BY <1>1, <1>2

-----------------------------------------------------------------------------
\* Counting the Pieces of a sequence.
PlacesIn(s) == {i \in DOMAIN s : s[i] = "piece"}
OneIf(m) == IF m = "piece" THEN 1 ELSE 0

LEMMA PlacesFinite ==
  ASSUME NEW s \in Seq(Messages)
  PROVE  IsFiniteSet(PlacesIn(s)) /\ PiecesIn(s) \in Nat
<1>1. PlacesIn(s) \in SUBSET (1 .. Len(s))
  BY DEF PlacesIn
<1>2. IsFiniteSet(1 .. Len(s))
  BY FS_Interval, Len(s) \in Int
<1> QED
  BY <1>1, <1>2, FS_Subset, FS_CardinalityType DEF PiecesIn, PlacesIn

LEMMA PiecesInAppend ==
  ASSUME NEW s \in Seq(Messages), NEW m \in Messages
  PROVE  PiecesIn(Append(s, m)) = PiecesIn(s) + OneIf(m)
<1>1. PlacesIn(Append(s, m)) =
        IF m = "piece" THEN PlacesIn(s) \cup {Len(s) + 1} ELSE PlacesIn(s)
  BY DEF PlacesIn
<1>2. Len(s) + 1 \notin PlacesIn(s)
  BY DEF PlacesIn
<1>3. Cardinality(PlacesIn(s) \cup {Len(s) + 1}) = Cardinality(PlacesIn(s)) + 1
  BY <1>2, PlacesFinite, FS_AddElement
<1>4. PiecesIn(Append(s, m)) = Cardinality(PlacesIn(Append(s, m)))
      /\ PiecesIn(s) = Cardinality(PlacesIn(s))
  BY DEF PiecesIn, PlacesIn
<1> QED
  BY <1>1, <1>3, <1>4, PlacesFinite DEF OneIf

LEMMA PiecesInTail ==
  ASSUME NEW s \in Seq(Messages), s # <<>>
  PROVE  PiecesIn(s) = PiecesIn(Tail(s)) + OneIf(Head(s))
<1> DEFINE later == PlacesIn(s) \ {1}
           f == [i \in later |-> i - 1]
<1>1. later = {i \in 2 .. Len(s) : s[i] = "piece"}
  BY DEF PlacesIn
<1>2. /\ Tail(s) \in Seq(Messages)
      /\ DOMAIN Tail(s) = 1 .. Len(s) - 1
      /\ \A i \in 1 .. Len(s) - 1 : Tail(s)[i] = s[i + 1]
  OBVIOUS
<1>3. PlacesIn(Tail(s)) = {i \in 1 .. Len(s) - 1 : s[i + 1] = "piece"}
  BY <1>2 DEF PlacesIn
<1>4. f \in Bijection(later, PlacesIn(Tail(s)))
  <2>1. f \in [later -> PlacesIn(Tail(s))]
    BY <1>1, <1>3
  <2>2. \A i, k \in later : f[i] = f[k] => i = k
    BY <1>1
  <2>3. ASSUME NEW k \in PlacesIn(Tail(s))
        PROVE  \E i \in later : f[i] = k
    <3>1. k \in 1 .. Len(s) - 1 /\ s[k + 1] = "piece"
      BY <1>3
    <3>2. k + 1 \in 2 .. Len(s) /\ (k + 1) - 1 = k
      BY <3>1
    <3>3. k + 1 \in later
      BY <1>1, <3>1, <3>2
    <3>4. f[k + 1] = k
      BY <3>2, <3>3
    <3> QED
      BY <3>3, <3>4
  <2> QED
    BY <2>1, <2>2, <2>3 DEF Bijection, Injection, IsInjective, Surjection
<1>5. IsFiniteSet(later)
  BY PlacesFinite, FS_RemoveElement
<1>6. Cardinality(later) = Cardinality(PlacesIn(Tail(s)))
  BY <1>4, <1>5, FS_Bijection DEF ExistsBijection
<1>7. 1 \in PlacesIn(s) <=> Head(s) = "piece"
  BY DEF PlacesIn
<1>8. Cardinality(PlacesIn(s) \ {1}) =
        IF 1 \in PlacesIn(s) THEN Cardinality(PlacesIn(s)) - 1
        ELSE Cardinality(PlacesIn(s))
  BY PlacesFinite, FS_RemoveElement
<1>10. Cardinality(PlacesIn(s)) \in Nat
  BY PlacesFinite, FS_CardinalityType
<1>11. Cardinality(later) = Cardinality(PlacesIn(s)) - OneIf(Head(s))
  BY <1>7, <1>8, <1>10 DEF OneIf
<1>9. PiecesIn(Tail(s)) = Cardinality(PlacesIn(Tail(s)))
      /\ PiecesIn(s) = Cardinality(PlacesIn(s))
  BY DEF PiecesIn, PlacesIn
<1> QED
  BY <1>6, <1>9, <1>10, <1>11 DEF OneIf

-----------------------------------------------------------------------------
(***************************************************************************)
(* What is on its way is covered by a count that num_in_flight_ shows, one *)
(* more if the last request has arrived and is not counted yet.            *)
(***************************************************************************)
Fits(shown, sender, load) ==
  \E c \in -1 .. MaxInFlight :
    /\ shown = Shown(c)
    /\ load <= c + (IF sender = "written" THEN 1 ELSE 0)
    /\ sender \in {"writing", "written"} => c < MaxInFlight

\* What is on its way, of values: open requests and Pieces not handled.
InHand(m, c) == IF m \in {"type", "payload"} /\ c = "piece" THEN 1 ELSE 0
Load(o, s, m, c) == o + PiecesIn(s) + InHand(m, c)

FlowTypes ==
  /\ stream \in Seq(Messages)
  /\ open \in Nat
  /\ current \in Messages \cup {NoMessage}

TypeRead ==
  main = "payload" /\ current # NoMessage => messageType = TypeOf(current)

CountFits ==
  ~spoiled => Fits(numInFlight, send, Load(open, stream, main, current))

\* The inductive invariant behind PipelineBounded.
FlowInv == FlowTypes /\ TypeRead /\ CountFits

LEMMA LoadNat ==
  ASSUME NEW o \in Nat, NEW s \in Seq(Messages), NEW m, NEW c
  PROVE  Load(o, s, m, c) \in Nat
BY PlacesFinite DEF Load, InHand

\* A message is sent.
LEMMA LoadSent ==
  ASSUME NEW o \in Nat, NEW s \in Seq(Messages), NEW m, NEW c, NEW x \in Messages
  PROVE  Load(o, Append(s, x), m, c) = Load(o, s, m, c) + OneIf(x)
BY PiecesInAppend, PlacesFinite DEF Load, InHand, OneIf

\* The header of a message is read.
LEMMA LoadRead ==
  ASSUME NEW o \in Nat, NEW s \in Seq(Messages), s # <<>>, NEW m, NEW c,
         NEW d \in {Head(s), NoMessage}
  PROVE  Load(o, Tail(s), m, d) <= Load(o, s, "header", c)
<1>1. PiecesIn(s) = PiecesIn(Tail(s)) + OneIf(Head(s))
  BY PiecesInTail
<1>2. Tail(s) \in Seq(Messages)
  OBVIOUS
<1>3. PiecesIn(Tail(s)) \in Nat /\ PiecesIn(s) \in Nat
  BY <1>2, PlacesFinite
<1>4. InHand(m, d) \in 0 .. 1 /\ InHand(m, d) <= OneIf(Head(s))
  BY DEF InHand, OneIf, NoMessage
<1>5. InHand("header", c) = 0
  BY DEF InHand
<1> QED
  BY <1>1, <1>3, <1>4, <1>5 DEF Load, OneIf

\* What was read is given up, or the reader goes elsewhere.
LEMMA LoadDropped ==
  ASSUME NEW o \in Nat, NEW s \in Seq(Messages), NEW m, NEW c, NEW n, NEW d,
         d = NoMessage \/ n \notin {"type", "payload"}
                       \/ (d = c /\ m \in {"type", "payload"})
  PROVE  Load(o, s, n, d) <= Load(o, s, m, c)
<1>1. PiecesIn(s) \in Nat
  BY PlacesFinite
<1>2. InHand(n, d) \in 0 .. 1 /\ InHand(m, c) \in 0 .. 1
      /\ InHand(n, d) <= InHand(m, c)
  BY DEF InHand, NoMessage
<1> QED
  BY <1>1, <1>2 DEF Load

LEMMA FitsLess ==
  ASSUME NEW n, NEW s, NEW a \in Nat, NEW b \in Nat, b <= a, Fits(n, s, a)
  PROVE  Fits(n, s, b)
<1>1. PICK c \in -1 .. MaxInFlight :
        /\ n = Shown(c)
        /\ a <= c + (IF s = "written" THEN 1 ELSE 0)
        /\ s \in {"writing", "written"} => c < MaxInFlight
  BY DEF Fits
<1>2. b <= c + (IF s = "written" THEN 1 ELSE 0)
  BY <1>1, PeerAssumption
<1> QED
  BY <1>1, <1>2 DEF Fits

\* The bound itself.
LEMMA FitsBounds ==
  ASSUME NEW n, NEW s, NEW a \in Nat, Fits(n, s, a)
  PROVE  a <= MaxInFlight
BY PeerAssumption DEF Fits

\* An answer is handled.
LEMMA FitsAnswered ==
  ASSUME NEW n, NEW s, NEW a \in Nat, a >= 1, Fits(n, s, a)
  PROVE  Fits(Wrap(n - 1), s, a - 1)
<1>1. PICK c \in -1 .. MaxInFlight :
        /\ n = Shown(c)
        /\ a <= c + (IF s = "written" THEN 1 ELSE 0)
        /\ s \in {"writing", "written"} => c < MaxInFlight
  BY DEF Fits
<1>2. c \in 0 .. MaxInFlight
  BY <1>1, PeerAssumption
<1>3. Wrap(n - 1) = Shown(c - 1)
  BY <1>1, <1>2, CountDown
<1>4. /\ c - 1 \in -1 .. MaxInFlight
      /\ a - 1 <= (c - 1) + (IF s = "written" THEN 1 ELSE 0)
      /\ s \in {"writing", "written"} => c - 1 < MaxInFlight
  BY <1>1, <1>2, PeerAssumption
<1> QED
  BY <1>3, <1>4 DEF Fits

\* A write returns and the loop of send_block_requests goes on.
LEMMA FitsCounted ==
  ASSUME NEW n, NEW s \in {"writing", "written"}, NEW a \in Nat, Fits(n, s, a),
         NEW t, t \in {"sleeping", "thrown"}
                \/ (t = "writing" /\ Wrap(n + 1) < MaxInFlight)
  PROVE  Fits(Wrap(n + 1), t, a)
<1>1. PICK c \in -1 .. MaxInFlight :
        /\ n = Shown(c)
        /\ a <= c + (IF s = "written" THEN 1 ELSE 0)
        /\ c < MaxInFlight
  BY DEF Fits
<1>2. c \in -1 .. MaxInFlight - 1 /\ c + 1 \in 0 .. MaxInFlight
  BY <1>1, PeerAssumption
<1>3. Wrap(n + 1) = Shown(c + 1)
  BY <1>1, <1>2, CountUp
<1>4. Shown(c + 1) = c + 1
  BY <1>2 DEF Shown
<1>5. a <= c + 1
  BY <1>1, <1>2, PeerAssumption
<1>6. t # "written"
  OBVIOUS
<1>7. t \in {"writing", "written"} => c + 1 < MaxInFlight
  BY <1>3, <1>4
<1>8. c + 1 \in -1 .. MaxInFlight
  BY <1>2, PeerAssumption
<1> QED
  BY <1>3, <1>5, <1>6, <1>7, <1>8 DEF Fits

\* The sender begins a turn: it has counted all it sent.
LEMMA FitsRequested ==
  ASSUME NEW n, NEW a \in Nat, Fits(n, "top", a),
         NEW t, t \in {"sleeping", "done"} \/ (t = "writing" /\ n < MaxInFlight)
  PROVE  Fits(n, t, a)
<1>1. PICK c \in -1 .. MaxInFlight : n = Shown(c) /\ a <= c
  BY DEF Fits
<1>2. c \in 0 .. MaxInFlight /\ Shown(c) = c
  BY <1>1, PeerAssumption DEF Shown
<1>3. t # "written" /\ (t \in {"writing", "written"} => c < MaxInFlight)
  BY <1>1, <1>2
<1> QED
  BY <1>1, <1>2, <1>3 DEF Fits

\* A request arrives before its write returns.
LEMMA FitsArrived ==
  ASSUME NEW n, NEW a \in Nat, Fits(n, "writing", a)
  PROVE  Fits(n, "written", a + 1)
<1>1. PICK c \in -1 .. MaxInFlight : n = Shown(c) /\ a <= c /\ c < MaxInFlight
  BY DEF Fits
<1>2. a + 1 <= c + 1
  BY <1>1, PeerAssumption
<1> QED
  BY <1>1, <1>2 DEF Fits

\* The sender is spawned, or wakes up: no request is on its way.
LEMMA FitsRested ==
  ASSUME NEW n, NEW a \in Nat, NEW s, NEW t, Fits(n, s, a),
         s \notin {"writing", "written"}, t \notin {"writing", "written"}
  PROVE  Fits(n, t, a)
BY DEF Fits

-----------------------------------------------------------------------------
LEMMA FlowInit == Init => FlowInv
<1> SUFFICES ASSUME Init PROVE FlowInv
  OBVIOUS
<1>1. FlowTypes /\ TypeRead
  BY DEF Init, FlowTypes, TypeRead, NoMessage
<1>2. PiecesIn(<<>>) = 0
  <2>1. {i \in DOMAIN <<>> : <<>>[i] = "piece"} = {}
    OBVIOUS
  <2> QED
    BY <2>1, FS_EmptySet DEF PiecesIn
<1>3. Load(0, <<>>, "connect", NoMessage) = 0
  BY <1>2 DEF Load, InHand
<1>4. Fits(0, "none", 0)
  <2>1. 0 \in -1 .. MaxInFlight /\ Shown(0) = 0
    BY PeerAssumption DEF Shown
  <2> QED
    BY <2>1 DEF Fits
<1> QED
  BY <1>1, <1>3, <1>4 DEF Init, CountFits, FlowInv

\* A step that counts nothing and adds nothing to the load.
LEMMA QuietStep ==
  ASSUME FlowInv, FlowTypes', numInFlight' = numInFlight, send' = send,
         spoiled => spoiled',
         Load(open', stream', main', current') <= Load(open, stream, main, current)
  PROVE  CountFits'
<1>1. /\ Load(open', stream', main', current') \in Nat
      /\ Load(open, stream, main, current) \in Nat
  BY LoadNat DEF FlowInv, FlowTypes
<1>2. ASSUME Fits(numInFlight, send, Load(open, stream, main, current))
      PROVE  Fits(numInFlight, send, Load(open', stream', main', current'))
  BY <1>1, <1>2, FitsLess
<1> QED
  BY <1>2 DEF FlowInv, CountFits

\* The sender moves on: what it knows of the load stays true.
LEMMA SenderStep ==
  ASSUME FlowInv, UNCHANGED <<stream, open, main, current, messageType, spoiled>>,
         Fits(numInFlight, send, Load(open, stream, main, current))
           => Fits(numInFlight', send', Load(open, stream, main, current))
  PROVE  FlowInv'
BY DEF FlowInv, FlowTypes, TypeRead, CountFits

\* The reader moves on, and what it gives up is not counted.
LEMMA ReaderStep ==
  ASSUME FlowInv, UNCHANGED <<stream, open, numInFlight, send>>,
         spoiled => spoiled',
         current' = NoMessage
           \/ (current' = current /\ main' \notin {"type", "payload"})
  PROVE  FlowInv'
<1>1. FlowTypes' /\ TypeRead'
  BY DEF FlowInv, FlowTypes, TypeRead
<1>2. Load(open', stream', main', current') <= Load(open, stream, main, current)
  BY LoadDropped DEF FlowInv, FlowTypes
<1> QED
  BY <1>1, <1>2, QuietStep DEF FlowInv

LEMMA LoopTopLeads ==
  LoopTop => main' \in {"header", "done"}
BY DEF LoopTop, Leave

LEMMA FlowConnect ==
  FlowInv /\ (AddressFails \/ Connect \/ Handshake \/ NotNeeded) => FlowInv'
<1> SUFFICES ASSUME FlowInv, AddressFails \/ Connect \/ Handshake \/ NotNeeded PROVE FlowInv'
  OBVIOUS
<1>1. /\ UNCHANGED <<stream, open, numInFlight, send, current>>
      /\ spoiled' = spoiled
      /\ main' \in {"handshake", "interested", "done", "thrown"}
  <2>0. CASE AddressFails
    BY <2>0 DEF AddressFails, senderVars, remoteVars
  <2>1. CASE Connect
    BY <2>1 DEF Connect, senderVars
  <2>2. CASE Handshake
    BY <2>2 DEF Handshake, senderVars, remoteVars, LeaveEarly
  <2>3. CASE NotNeeded
    BY <2>3 DEF NotNeeded, senderVars, remoteVars, LeaveEarly
  <2> QED
    BY <2>0, <2>1, <2>2, <2>3
<1> QED
  BY <1>1, ReaderStep

LEMMA FlowSpawn == FlowInv /\ ExitOK /\ Spawn => FlowInv'
<1> SUFFICES ASSUME FlowInv, ExitOK, Spawn PROVE FlowInv'
  OBVIOUS
<1>1. /\ UNCHANGED <<stream, open, current, numInFlight>>
      /\ spoiled' = spoiled /\ send' = "top" /\ send = "none"
      /\ main' \in {"header", "done"}
  BY LoopTopLeads DEF Spawn, remoteVars, ExitOK
<1>2. FlowTypes' /\ TypeRead'
  BY <1>1 DEF FlowInv, FlowTypes, TypeRead
<1>3. Load(open', stream', main', current') <= Load(open, stream, main, current)
  BY <1>1, LoadDropped DEF FlowInv, FlowTypes
<1>4. /\ Load(open', stream', main', current') \in Nat
      /\ Load(open, stream, main, current) \in Nat
  BY <1>2, LoadNat DEF FlowInv, FlowTypes
<1>5. ASSUME Fits(numInFlight, send, Load(open, stream, main, current))
      PROVE  Fits(numInFlight', send', Load(open', stream', main', current'))
  <2>1. Fits(numInFlight, send, Load(open', stream', main', current'))
    BY <1>3, <1>4, <1>5, FitsLess
  <2> QED
    BY <2>1, <1>1, <1>4, FitsRested
<1> QED
  BY <1>1, <1>2, <1>5 DEF FlowInv, CountFits

LEMMA FlowReadHeader == FlowInv /\ ReadHeader => FlowInv'
<1> SUFFICES ASSUME FlowInv, ReadHeader PROVE FlowInv'
  OBVIOUS
<1>1. /\ main = "header" /\ stream # <<>> /\ stream' = Tail(stream)
      /\ current' \in {Head(stream), NoMessage}
      /\ UNCHANGED <<open, numInFlight, send, spoiled>>
  BY DEF ReadHeader, senderVars
<1>2. main' # "payload"
  BY LoopTopLeads DEF ReadHeader
<1>3. Head(stream) \in Messages /\ Tail(stream) \in Seq(Messages)
  BY <1>1 DEF FlowInv, FlowTypes
<1>4. FlowTypes' /\ TypeRead'
  BY <1>1, <1>2, <1>3 DEF FlowInv, FlowTypes, TypeRead
<1>5. Load(open', stream', main', current') <= Load(open, stream, main, current)
  BY <1>1, LoadRead DEF FlowInv, FlowTypes
<1> QED
  BY <1>1, <1>4, <1>5, QuietStep DEF FlowInv

LEMMA FlowReadType == FlowInv /\ ReadType => FlowInv'
<1> SUFFICES ASSUME FlowInv, ReadType PROVE FlowInv'
  OBVIOUS
<1>1. /\ main = "type" /\ main' = "payload" /\ messageType' = TypeOf(current)
      /\ UNCHANGED <<stream, open, current, numInFlight, send, spoiled>>
  BY DEF ReadType, senderVars, remoteVars
<1>2. FlowTypes' /\ TypeRead'
  BY <1>1 DEF FlowInv, FlowTypes, TypeRead
<1>3. Load(open', stream', main', current') <= Load(open, stream, main, current)
  BY <1>1, LoadDropped DEF FlowInv, FlowTypes
<1> QED
  BY <1>1, <1>2, <1>3, QuietStep DEF FlowInv

\* The type is that of the message whose payload is read.
LEMMA TypeOfPiece ==
  ASSUME NEW m \in Messages
  PROVE  /\ TypeOf(m) = "piece" <=> m \in {"piece", "shortpiece"}
         /\ m = "piece" => TypeOf(m) = "piece"
BY DEF TypeOf, Messages, Types

LEMMA HandledCounts ==
  ASSUME NEW type, NEW isEmpty, NEW counts, HandleMessage(type, isEmpty, counts)
  PROVE  /\ main' \in {"header", "done"}
         /\ numInFlight' = IF type = "piece" /\ counts
                           THEN Wrap(numInFlight - 1) ELSE numInFlight
BY LoopTopLeads DEF HandleMessage, Leave

LEMMA FlowReadPayload == FlowInv /\ ReadPayload => FlowInv'
<1> SUFFICES ASSUME FlowInv, ReadPayload PROVE FlowInv'
  OBVIOUS
<1>1. /\ main = "payload" /\ current \in Messages /\ current # NoMessage
      /\ messageType = TypeOf(current)
      /\ current' = NoMessage
      /\ UNCHANGED <<stream, open, send, spoiled>>
  BY DEF ReadPayload, senderVars, remoteVars, FlowInv, FlowTypes, TypeRead
<1>2. /\ main' \in {"header", "done"}
      /\ numInFlight' = IF messageType = "piece" /\ current # "shortpiece"
                        THEN Wrap(numInFlight - 1) ELSE numInFlight
  BY HandledCounts DEF ReadPayload
<1>3. FlowTypes' /\ TypeRead'
  BY <1>1, <1>2 DEF FlowInv, FlowTypes, TypeRead
<1>4. CASE current = "piece"
  <2>1. numInFlight' = Wrap(numInFlight - 1)
    BY <1>1, <1>2, <1>4, TypeOfPiece
  <2>2. Load(open, stream, main, current) = open + PiecesIn(stream) + 1
        /\ Load(open', stream', main', current') = open + PiecesIn(stream)
    <3>1. PiecesIn(stream) \in Nat /\ open \in Nat
      BY PlacesFinite DEF FlowInv, FlowTypes
    <3>2. InHand(main, current) = 1 /\ InHand(main', current') = 0
      BY <1>1, <1>2, <1>4 DEF InHand
    <3> QED
      BY <3>1, <3>2, <1>1 DEF Load
  <2>3. Load(open, stream, main, current) \in Nat
    BY LoadNat DEF FlowInv, FlowTypes
  <2>4. PiecesIn(stream) \in Nat /\ open \in Nat
    BY PlacesFinite DEF FlowInv, FlowTypes
  <2>5. /\ Load(open, stream, main, current) >= 1
        /\ Load(open', stream', main', current')
             = Load(open, stream, main, current) - 1
    BY <2>2, <2>4
  <2>6. ASSUME Fits(numInFlight, send, Load(open, stream, main, current))
        PROVE  Fits(numInFlight', send', Load(open', stream', main', current'))
    BY <2>1, <2>3, <2>5, <2>6, <1>1, FitsAnswered
  <2> QED
    BY <1>1, <1>3, <2>6 DEF FlowInv, CountFits
<1>5. CASE current # "piece"
  <2>1. numInFlight' = numInFlight
    BY <1>1, <1>2, <1>5, TypeOfPiece
  <2> QED
    BY <1>1, <2>1, ReaderStep
<1> QED
  BY <1>4, <1>5

LEMMA FlowFails == FlowInv /\ (HeaderFails \/ TypeFails) => FlowInv'
<1> SUFFICES ASSUME FlowInv, HeaderFails \/ TypeFails PROVE FlowInv'
  OBVIOUS
<1>1. /\ UNCHANGED <<stream, open, numInFlight, send>>
      /\ spoiled' = spoiled /\ current' = NoMessage
  BY DEF HeaderFails, TypeFails, senderVars, remoteVars
<1> QED
  BY <1>1, ReaderStep

LEMMA FlowPayloadFails == FlowInv /\ PayloadFails => FlowInv'
<1> SUFFICES ASSUME FlowInv, PayloadFails PROVE FlowInv'
  OBVIOUS
<1>1. /\ UNCHANGED <<stream, open, send>> /\ current' = NoMessage
      /\ spoiled' = (spoiled \/ messageType = "piece")
  BY DEF PayloadFails, senderVars, remoteVars
<1>2. messageType # "piece" => numInFlight' = numInFlight
  BY HandledCounts DEF PayloadFails
<1>3. FlowTypes' /\ TypeRead'
  BY <1>1 DEF FlowInv, FlowTypes, TypeRead
<1>4. CASE messageType = "piece"
  BY <1>1, <1>3, <1>4 DEF FlowInv, CountFits
<1>5. CASE messageType # "piece"
  BY <1>1, <1>2, <1>5, ReaderStep
<1> QED
  BY <1>4, <1>5

LEMMA FlowTimer == FlowInv /\ TimerExpires => FlowInv'
BY SenderStep DEF TimerExpires, readerVars, senderVars, remoteVars

LEMMA FlowSend == FlowInv /\ Send => FlowInv'
<1> SUFFICES ASSUME FlowInv, Send PROVE FlowInv'
  OBVIOUS
<1> DEFINE load == Load(open, stream, main, current)
<1>1. UNCHANGED <<stream, open, main, current, messageType, spoiled>>
  BY DEF Send, SendTurn, WriteReturns, WakeUp, SendThrows, readerVars, remoteVars
<1>2. load \in Nat
  BY LoadNat DEF FlowInv, FlowTypes
<1> HIDE DEF load
<1>3. ASSUME SendTurn, Fits(numInFlight, send, load)
      PROVE  Fits(numInFlight', send', load)
  <2>1. numInFlight' = numInFlight /\ send = "top"
    BY <1>3 DEF SendTurn
  <2>2. send' \in {"sleeping", "done"} \/ (send' = "writing" /\ numInFlight < MaxInFlight)
    BY <1>3 DEF SendTurn, RequestOrRest
  <2> QED
    BY <1>2, <1>3, <2>1, <2>2, FitsRequested
<1>4. ASSUME WriteReturns, Fits(numInFlight, send, load)
      PROVE  Fits(numInFlight', send', load)
  <2>1. numInFlight' = Wrap(numInFlight + 1) /\ send \in {"writing", "written"}
    BY <1>4 DEF WriteReturns, IsWritten
  <2>2. send' = "sleeping" \/ (send' = "writing" /\ numInFlight' < MaxInFlight)
    BY <1>4 DEF WriteReturns, RequestOrRest
  <2> QED
    BY <1>2, <1>4, <2>1, <2>2, FitsCounted
<1>5. ASSUME WakeUp, Fits(numInFlight, send, load)
      PROVE  Fits(numInFlight', send', load)
  <2>1. numInFlight' = numInFlight /\ send = "sleeping" /\ send' = "top"
    BY <1>5 DEF WakeUp
  <2> QED
    BY <1>2, <1>5, <2>1, FitsRested
<1>6. ASSUME SendThrows, Fits(numInFlight, send, load)
      PROVE  Fits(numInFlight', send', load)
  <2>1. /\ send' = "thrown"
        /\ \/ send = "top" /\ numInFlight' = numInFlight
           \/ /\ send \in {"writing", "written"}
              /\ numInFlight' = Wrap(numInFlight + 1)
    BY <1>6 DEF SendThrows, IsWritten
  <2>2. CASE send = "top" /\ numInFlight' = numInFlight
    BY <1>2, <1>6, <2>1, <2>2, FitsRested
  <2>3. CASE send \in {"writing", "written"} /\ numInFlight' = Wrap(numInFlight + 1)
    BY <1>2, <1>6, <2>1, <2>3, FitsCounted
  <2> QED
    BY <2>1, <2>2, <2>3
<1>7. Fits(numInFlight, send, load) => Fits(numInFlight', send', load)
  BY <1>3, <1>4, <1>5, <1>6 DEF Send
<1> QED
  BY <1>1, <1>7, SenderStep DEF load

LEMMA FlowRequestArrives == FlowInv /\ RequestArrives => FlowInv'
<1> SUFFICES ASSUME FlowInv, RequestArrives PROVE FlowInv'
  OBVIOUS
<1>1. /\ send = "writing" /\ send' = "written" /\ open' = open + 1
      /\ UNCHANGED <<stream, main, current, messageType, numInFlight, spoiled>>
  BY DEF RequestArrives, readerVars
<1>2. FlowTypes' /\ TypeRead'
  BY <1>1 DEF FlowInv, FlowTypes, TypeRead
<1>3. Load(open, stream, main, current) \in Nat
  BY LoadNat DEF FlowInv, FlowTypes
<1>4. Load(open', stream', main', current') = Load(open, stream, main, current) + 1
  <2>1. PiecesIn(stream) \in Nat /\ open \in Nat /\ InHand(main, current) \in 0 .. 1
    BY PlacesFinite DEF FlowInv, FlowTypes, InHand
  <2> QED
    BY <1>1, <2>1 DEF Load
<1>5. ASSUME Fits(numInFlight, send, Load(open, stream, main, current))
      PROVE  Fits(numInFlight', send', Load(open', stream', main', current'))
  BY <1>1, <1>3, <1>4, <1>5, FitsArrived
<1> QED
  BY <1>1, <1>2, <1>5 DEF FlowInv, CountFits

LEMMA FlowRemote == FlowInv /\ Remote => FlowInv'
<1> SUFFICES ASSUME FlowInv, Remote PROVE FlowInv'
  OBVIOUS
<1>1. UNCHANGED <<main, current, messageType, numInFlight, send>>
  BY DEF Remote, RemoteSends, RemoteAnswers, RemoteCloses, readerVars, senderVars
<1>2. PiecesIn(stream) \in Nat /\ open \in Nat /\ InHand(main, current) \in 0 .. 1
      /\ stream \in Seq(Messages)
  BY PlacesFinite DEF FlowInv, FlowTypes, InHand
<1>3. ASSUME NEW m \in Messages, RemoteSends(m)
      PROVE  FlowInv'
  <2>1. /\ stream' = Append(stream, m) /\ open' \in {0, open}
        /\ spoiled' = (spoiled \/ m = "piece")
    BY <1>3 DEF RemoteSends
  <2>2. FlowTypes' /\ TypeRead'
    BY <1>1, <1>2, <2>1 DEF FlowInv, FlowTypes, TypeRead
  <2>3. CASE m = "piece"
    BY <2>1, <2>2, <2>3 DEF FlowInv, CountFits
  <2>4. CASE m # "piece"
    <3>1. PiecesIn(stream') = PiecesIn(stream)
      BY <1>2, <2>1, <2>4, PiecesInAppend DEF OneIf
    <3>2. Load(open', stream', main', current') <= Load(open, stream, main, current)
      BY <1>1, <1>2, <2>1, <3>1 DEF Load
    <3> QED
      BY <1>1, <2>1, <2>2, <3>2, QuietStep DEF FlowInv
  <2> QED
    BY <2>3, <2>4
<1>4. CASE RemoteAnswers
  <2>1. /\ stream' = Append(stream, "piece") /\ open' = open - 1 /\ open > 0
        /\ spoiled' = spoiled
    BY <1>4 DEF RemoteAnswers
  <2>2. "piece" \in Messages
    BY DEF Messages, Types
  <2>3. FlowTypes' /\ TypeRead'
    BY <1>1, <1>2, <2>1, <2>2 DEF FlowInv, FlowTypes, TypeRead
  <2>4. PiecesIn(stream') = PiecesIn(stream) + 1
    BY <1>2, <2>1, <2>2, PiecesInAppend DEF OneIf
  <2>5. Load(open', stream', main', current') <= Load(open, stream, main, current)
    BY <1>1, <1>2, <2>1, <2>4 DEF Load
  <2> QED
    BY <1>1, <2>1, <2>3, <2>5, QuietStep DEF FlowInv
<1>5. CASE RemoteCloses
  BY <1>5, SenderStep DEF RemoteCloses, readerVars, senderVars
<1> QED
  BY <1>3, <1>4, <1>5 DEF Remote

-----------------------------------------------------------------------------
LEMMA ExitInit == Init => ExitOK
BY DEF Init, ExitOK

LEMMA ExitNext == ExitOK /\ [Next]_vars => ExitOK'
<1> SUFFICES ASSUME ExitOK, [Next]_vars PROVE ExitOK'
  OBVIOUS
<1>0. CASE AddressFails
  BY <1>0 DEF AddressFails, ExitOK, senderVars
<1>1. CASE Connect
  BY <1>1 DEF Connect, ExitOK, senderVars
<1>2. CASE Handshake
  BY <1>2 DEF Handshake, LeaveEarly, ExitOK, senderVars
<1>3. CASE Spawn
  BY <1>3 DEF Spawn, LoopTop, Leave, ExitOK
<1>4. CASE NotNeeded
  BY <1>4 DEF NotNeeded, LeaveEarly, ExitOK, senderVars
<1>5. CASE Receive
  <2>1. CASE ReadHeader
    BY <2>1 DEF ReadHeader, LoopTop, Leave, ExitOK, senderVars
  <2>2. CASE ReadType
    BY <2>2 DEF ReadType, ExitOK, senderVars
  <2>3. CASE ReadPayload
    BY <2>3 DEF ReadPayload, HandleMessage, LoopTop, Leave, ExitOK, senderVars
  <2>4. CASE HeaderFails
    BY <2>4 DEF HeaderFails, LoopTop, Leave, ExitOK, senderVars
  <2>5. CASE TypeFails
    BY <2>5 DEF TypeFails, ExitOK, senderVars
  <2>6. CASE PayloadFails
    BY <2>6 DEF PayloadFails, HandleMessage, LoopTop, Leave, ExitOK, senderVars
  <2> QED
    BY <1>5, <2>1, <2>2, <2>3, <2>4, <2>5, <2>6 DEF Receive
<1>6. CASE TimerExpires
  BY <1>6 DEF TimerExpires, ExitOK, readerVars, senderVars
<1>7. CASE Send
  BY <1>7 DEF Send, SendTurn, WriteReturns, WakeUp, SendThrows, IsWritten, RequestOrRest,
              ExitOK, readerVars
<1>8. CASE RequestArrives
  BY <1>8 DEF RequestArrives, ExitOK, readerVars
<1>9. CASE Remote
  BY <1>9 DEF Remote, RemoteSends, RemoteAnswers, RemoteCloses, ExitOK,
              readerVars, senderVars
<1>10. CASE Gone \/ UNCHANGED vars
  BY <1>10 DEF Gone, vars, ExitOK
<1> QED
  BY <1>0, <1>1, <1>2, <1>3, <1>4, <1>5, <1>6, <1>7, <1>8, <1>9, <1>10 DEF Next

LEMMA FlowNext == FlowInv /\ ExitOK /\ [Next]_vars => FlowInv'
<1> SUFFICES ASSUME FlowInv, ExitOK, [Next]_vars PROVE FlowInv'
  OBVIOUS
<1>1. CASE AddressFails \/ Connect \/ Handshake \/ NotNeeded
  BY <1>1, FlowConnect
<1>2. CASE Spawn
  BY <1>2, FlowSpawn
<1>3. CASE Receive
  BY <1>3, FlowReadHeader, FlowReadType, FlowReadPayload, FlowFails,
     FlowPayloadFails DEF Receive
<1>4. CASE TimerExpires
  BY <1>4, FlowTimer
<1>5. CASE Send
  BY <1>5, FlowSend
<1>6. CASE RequestArrives
  BY <1>6, FlowRequestArrives
<1>7. CASE Remote
  BY <1>7, FlowRemote
<1>8. CASE Gone \/ UNCHANGED vars
  BY <1>8, SenderStep DEF Gone, vars
<1> QED
  BY <1>1, <1>2, <1>3, <1>4, <1>5, <1>6, <1>7, <1>8 DEF Next

LEMMA FlowBounds == FlowInv => PipelineBounded
<1> SUFFICES ASSUME FlowInv, ~spoiled PROVE open + Unhandled <= MaxInFlight
  BY DEF PipelineBounded
<1>1. PiecesIn(stream) \in Nat /\ open \in Nat
  BY PlacesFinite DEF FlowInv, FlowTypes
<1>2. Load(open, stream, main, current) = open + Unhandled
  BY <1>1 DEF Load, Unhandled, InHand
<1>3. Load(open, stream, main, current) \in Nat
  BY LoadNat DEF FlowInv, FlowTypes
<1>4. Fits(numInFlight, send, Load(open, stream, main, current))
  BY DEF FlowInv, CountFits
<1> QED
  BY <1>2, <1>3, <1>4, FitsBounds

(***************************************************************************)
(* A Peer that PeerManager may destroy has no coroutine left that runs.    *)
(***************************************************************************)
THEOREM NoCoroutineOutlivesPeer == Spec => []NoUseAfterExit
<1>1. ExitOK => NoUseAfterExit
  BY DEF ExitOK, NoUseAfterExit, HasExited
<1> QED
  BY <1>1, ExitInit, ExitNext, PTL DEF Spec

(***************************************************************************)
(* The pipeline is bounded, for every depth and every width of the counter *)
(* that can hold it.                                                       *)
(***************************************************************************)
THEOREM PipelineStaysBounded == Spec => []PipelineBounded
BY ExitInit, ExitNext, FlowInit, FlowNext, FlowBounds, PTL DEF Spec

-----------------------------------------------------------------------------
\* The rest of the type invariant in parts: flags, places and numbers.
Flags == {continueConnection, mainRoutineHasExited, spawnedRoutineHasExited,
          isChoked, hasBitfield, headerIsZero, cancelled, spoiled}
FlagTypes == Flags \subseteq BOOLEAN

PlaceTypes ==
  /\ main \in {"connect", "handshake", "interested", "done", "thrown"} \cup Reading
  /\ send \in {"none", "top", "writing", "written", "sleeping", "done", "thrown"}
  /\ link \in {"none", "up", "down"}

MessageTypes ==
  /\ current \in (Messages \ {"keepalive"}) \cup {NoMessage}
  /\ messageType \in Types

NumberTypes ==
  /\ numInFlight \in 0 .. CounterModulus - 1
  /\ sent \in 0 .. MaxMessages

LEMMA TypeParts ==
  FlowTypes /\ FlagTypes /\ PlaceTypes /\ MessageTypes /\ NumberTypes <=> TypeOK
BY DEF FlowTypes, FlagTypes, Flags, PlaceTypes, MessageTypes, NumberTypes, TypeOK

LEMMA FlagsInit == Init => FlagTypes
BY DEF Init, FlagTypes, Flags

LEMMA LoopTopFlags ==
  ASSUME FlagTypes, LoopTop
  PROVE  continueConnection' \in BOOLEAN /\ mainRoutineHasExited' \in BOOLEAN
BY DEF LoopTop, Leave, FlagTypes, Flags

LEMMA HandledFlags ==
  ASSUME FlagTypes, NEW type, NEW isEmpty \in BOOLEAN, NEW counts \in BOOLEAN,
         HandleMessage(type, isEmpty, counts)
  PROVE  /\ isChoked' \in BOOLEAN /\ hasBitfield' \in BOOLEAN
         /\ continueConnection' \in BOOLEAN /\ mainRoutineHasExited' \in BOOLEAN
<1>1. isChoked' \in BOOLEAN /\ hasBitfield' \in BOOLEAN
  BY DEF HandleMessage
<1>2. CASE Leave
  BY <1>1, <1>2 DEF Leave
<1>3. CASE LoopTop
  BY <1>1, <1>3, LoopTopFlags
<1> QED
  BY <1>2, <1>3 DEF HandleMessage

LEMMA FlagsNext == FlagTypes /\ [Next]_vars => FlagTypes'
<1> SUFFICES ASSUME FlagTypes, [Next]_vars PROVE FlagTypes'
  OBVIOUS
<1>1. CASE AddressFails \/ Connect \/ NotNeeded
  BY <1>1 DEF AddressFails, Connect, NotNeeded, LeaveEarly, FlagTypes, Flags,
              senderVars, remoteVars
<1>2. CASE Handshake
  BY <1>2 DEF Handshake, LeaveEarly, FlagTypes, Flags, senderVars
<1>3. CASE Spawn
  BY <1>3, LoopTopFlags DEF Spawn, FlagTypes, Flags
<1>4. CASE ReadHeader
  BY <1>4, LoopTopFlags DEF ReadHeader, FlagTypes, Flags, senderVars
<1>5. CASE ReadType \/ TypeFails
  BY <1>5 DEF ReadType, TypeFails, FlagTypes, Flags, senderVars
<1>6. CASE ReadPayload
  <2>1. /\ isChoked' \in BOOLEAN /\ hasBitfield' \in BOOLEAN
        /\ continueConnection' \in BOOLEAN /\ mainRoutineHasExited' \in BOOLEAN
    BY <1>6, HandledFlags DEF ReadPayload
  <2>2. /\ UNCHANGED <<spawnedRoutineHasExited, headerIsZero, spoiled>>
        /\ cancelled' = FALSE
    BY <1>6 DEF ReadPayload, senderVars
  <2> QED
    BY <2>1, <2>2 DEF FlagTypes, Flags
<1>7. CASE HeaderFails
  BY <1>7, LoopTopFlags DEF HeaderFails, FlagTypes, Flags, senderVars
<1>8. CASE PayloadFails
  <2>1. /\ isChoked' \in BOOLEAN /\ hasBitfield' \in BOOLEAN
        /\ continueConnection' \in BOOLEAN /\ mainRoutineHasExited' \in BOOLEAN
    BY <1>8, HandledFlags DEF PayloadFails
  <2>2. /\ UNCHANGED <<spawnedRoutineHasExited, headerIsZero>>
        /\ cancelled' = FALSE /\ spoiled' \in BOOLEAN
    BY <1>8 DEF PayloadFails, senderVars
  <2> QED
    BY <2>1, <2>2 DEF FlagTypes, Flags
<1>9. CASE TimerExpires
  BY <1>9 DEF TimerExpires, FlagTypes, Flags, readerVars, senderVars
<1>10. CASE SendTurn
  BY <1>10 DEF SendTurn, FlagTypes, Flags, readerVars
<1>11. CASE WriteReturns \/ WakeUp \/ SendThrows \/ RequestArrives
  BY <1>11 DEF WriteReturns, WakeUp, SendThrows, RequestArrives, FlagTypes, Flags,
               readerVars
<1>12. CASE Remote
  BY <1>12 DEF Remote, RemoteSends, RemoteAnswers, RemoteCloses, FlagTypes, Flags,
               readerVars, senderVars
<1>13. CASE Gone \/ UNCHANGED vars
  BY <1>13 DEF Gone, vars, FlagTypes, Flags
<1> QED
  BY <1>1, <1>2, <1>3, <1>4, <1>5, <1>6, <1>7, <1>8, <1>9, <1>10, <1>11, <1>12, <1>13
  DEF Next, Receive, Send

LEMMA PlacesInit == Init => PlaceTypes
BY DEF Init, PlaceTypes

LEMMA PlacesNext == PlaceTypes /\ [Next]_vars => PlaceTypes'
<1> SUFFICES ASSUME PlaceTypes, [Next]_vars PROVE PlaceTypes'
  OBVIOUS
<1> USE DEF PlaceTypes, Reading
<1>1. CASE AddressFails \/ Connect \/ Handshake \/ NotNeeded
  BY <1>1 DEF AddressFails, Connect, Handshake, NotNeeded, LeaveEarly, senderVars, remoteVars
<1>2. CASE Spawn
  BY <1>2, LoopTopLeads DEF Spawn, remoteVars
<1>3. CASE ReadHeader \/ HeaderFails
  BY <1>3, LoopTopLeads DEF ReadHeader, HeaderFails, senderVars, remoteVars
<1>4. CASE ReadType \/ TypeFails
  BY <1>4 DEF ReadType, TypeFails, senderVars, remoteVars
<1>5. CASE ReadPayload \/ PayloadFails
  BY <1>5, HandledCounts DEF ReadPayload, PayloadFails, senderVars, remoteVars
<1>6. CASE TimerExpires
  BY <1>6 DEF TimerExpires, readerVars, senderVars, remoteVars
<1>7. CASE Send \/ RequestArrives
  BY <1>7 DEF Send, SendTurn, WriteReturns, WakeUp, SendThrows, RequestOrRest,
              RequestArrives, readerVars, remoteVars
<1>8. CASE Remote
  BY <1>8 DEF Remote, RemoteSends, RemoteAnswers, RemoteCloses, readerVars, senderVars
<1>9. CASE Gone \/ UNCHANGED vars
  BY <1>9 DEF Gone, vars
<1> QED
  BY <1>1, <1>2, <1>3, <1>4, <1>5, <1>6, <1>7, <1>8, <1>9 DEF Next, Receive

LEMMA MessagesInit == Init => MessageTypes
BY DEF Init, MessageTypes, Types, NoMessage

LEMMA MessagesNext == FlowTypes /\ MessageTypes /\ [Next]_vars => MessageTypes'
<1> SUFFICES ASSUME FlowTypes, MessageTypes, [Next]_vars PROVE MessageTypes'
  OBVIOUS
<1>1. CASE ReadHeader
  <2>1. /\ current' = IF Head(stream) = "keepalive" THEN NoMessage ELSE Head(stream)
        /\ messageType' = messageType
    BY <1>1 DEF ReadHeader
  <2>2. Head(stream) \in Messages
    BY <1>1 DEF ReadHeader, FlowTypes
  <2> QED
    BY <2>1, <2>2 DEF MessageTypes
<1>2. CASE ReadType
  <2>1. /\ messageType' = TypeOf(current) /\ current' = current
        /\ current \in Messages \ {"keepalive"}
    BY <1>2 DEF ReadType, MessageTypes
  <2> QED
    BY <2>1 DEF MessageTypes, TypeOf, Messages, Types
<1>3. CASE ReadPayload \/ PayloadFails
  <2>1. messageType' = "other" /\ current' = NoMessage
    BY <1>3 DEF ReadPayload, PayloadFails, HandleMessage
  <2> QED
    BY <2>1 DEF MessageTypes, Types
<1>4. CASE HeaderFails \/ TypeFails
  BY <1>4 DEF HeaderFails, TypeFails, MessageTypes
<1>5. UNCHANGED <<current, messageType>> => MessageTypes'
  BY DEF MessageTypes
<1>6. CASE AddressFails \/ Connect \/ Handshake \/ Spawn \/ NotNeeded \/ TimerExpires
  BY <1>6, <1>5 DEF AddressFails, Connect, Handshake, Spawn, NotNeeded, TimerExpires, readerVars
<1>7. CASE Send \/ RequestArrives \/ Remote \/ Gone \/ UNCHANGED vars
  BY <1>7, <1>5 DEF Send, SendTurn, WriteReturns, WakeUp, SendThrows, RequestArrives, Remote,
     RemoteSends, RemoteAnswers, RemoteCloses, Gone, vars, readerVars
<1> QED
  BY <1>1, <1>2, <1>3, <1>4, <1>6, <1>7 DEF Next, Receive

LEMMA WrapInRange ==
  ASSUME NEW n \in Int
  PROVE  Wrap(n) \in 0 .. CounterModulus - 1
BY PeerAssumption DEF Wrap

LEMMA NumbersInit == Init => NumberTypes
BY PeerAssumption DEF Init, NumberTypes

LEMMA NumbersNext == NumberTypes /\ [Next]_vars => NumberTypes'
<1> SUFFICES ASSUME NumberTypes, [Next]_vars PROVE NumberTypes'
  OBVIOUS
<1>1. \/ numInFlight' = numInFlight
      \/ numInFlight' = Wrap(numInFlight - 1)
      \/ numInFlight' = Wrap(numInFlight + 1)
  <2>1. CASE AddressFails \/ Connect \/ Handshake \/ Spawn \/ NotNeeded \/ TimerExpires
    BY <2>1 DEF AddressFails, Connect, Handshake, Spawn, NotNeeded, TimerExpires
  <2>2. CASE ReadHeader \/ ReadType \/ HeaderFails \/ TypeFails
    BY <2>2 DEF ReadHeader, ReadType, HeaderFails, TypeFails
  <2>3. CASE ReadPayload \/ PayloadFails
    BY <2>3, HandledCounts DEF ReadPayload, PayloadFails
  <2>4. CASE Send \/ RequestArrives
    BY <2>4 DEF Send, SendTurn, WriteReturns, WakeUp, SendThrows, RequestArrives
  <2>5. CASE Remote \/ Gone \/ UNCHANGED vars
    BY <2>5 DEF Remote, RemoteSends, RemoteAnswers, RemoteCloses, Gone, vars
  <2> QED
    BY <2>1, <2>2, <2>3, <2>4, <2>5 DEF Next, Receive
<1>2. sent' = sent \/ (sent' = sent + 1 /\ sent < MaxMessages)
  <2>1. CASE AddressFails \/ Connect \/ Handshake \/ Spawn \/ NotNeeded \/ TimerExpires
    BY <2>1 DEF AddressFails, Connect, Handshake, Spawn, NotNeeded, TimerExpires, remoteVars
  <2>2. CASE Receive
    BY <2>2 DEF Receive, ReadHeader, ReadType, ReadPayload, HeaderFails, TypeFails,
                PayloadFails, remoteVars
  <2>3. CASE Send \/ RequestArrives
    BY <2>3 DEF Send, SendTurn, WriteReturns, WakeUp, SendThrows, RequestArrives, remoteVars
  <2>4. CASE Remote \/ Gone \/ UNCHANGED vars
    BY <2>4 DEF Remote, RemoteSends, RemoteAnswers, RemoteCloses, Gone, vars
  <2> QED
    BY <2>1, <2>2, <2>3, <2>4 DEF Next
<1>3. numInFlight \in 0 .. CounterModulus - 1 /\ sent \in 0 .. MaxMessages
  BY DEF NumberTypes
<1>4. Wrap(numInFlight - 1) \in 0 .. CounterModulus - 1
      /\ Wrap(numInFlight + 1) \in 0 .. CounterModulus - 1
  BY <1>3, WrapInRange
<1>5. sent' \in 0 .. MaxMessages
  BY <1>2, <1>3, PeerAssumption
<1> QED
  BY <1>1, <1>3, <1>4, <1>5 DEF NumberTypes

(***************************************************************************)
(* Every value a Peer computes has its type; num_in_flight_ stays inside   *)
(* its width, and the type of a message is always one of the known ones.   *)
(***************************************************************************)
THEOREM TypeCorrect == Spec => []TypeOK
<1>1. Init => FlowInv /\ ExitOK /\ FlagTypes /\ PlaceTypes /\ MessageTypes /\ NumberTypes
  BY FlowInit, ExitInit, FlagsInit, PlacesInit, MessagesInit, NumbersInit
<1>2. (/\ FlowInv /\ ExitOK /\ FlagTypes /\ PlaceTypes /\ MessageTypes /\ NumberTypes
       /\ [Next]_vars)
      => (FlowInv /\ ExitOK /\ FlagTypes /\ PlaceTypes /\ MessageTypes /\ NumberTypes)'
  BY FlowNext, ExitNext, FlagsNext, PlacesNext, MessagesNext, NumbersNext DEF FlowInv
<1>3. FlowInv /\ ExitOK /\ FlagTypes /\ PlaceTypes /\ MessageTypes /\ NumberTypes
      => TypeOK
  BY TypeParts DEF FlowInv
<1> QED
  BY <1>1, <1>2, <1>3, PTL DEF Spec

-----------------------------------------------------------------------------
(***************************************************************************)
(* Handshakes.  First, a part of a sequence: its length and its places.    *)
(***************************************************************************)
LEMMA Part ==
  ASSUME NEW S, NEW h \in Seq(S), NEW m \in Nat \ {0}, NEW k \in Nat,
         m <= k + 1, k <= Len(h)
  PROVE  /\ SubSeq(h, m, k) \in Seq(S) /\ Len(SubSeq(h, m, k)) = k - m + 1
         /\ \A i \in 1 .. k - m + 1 : SubSeq(h, m, k)[i] = h[m + i - 1]
<1>1. Len(h) \in Nat
  OBVIOUS
<1>2. \A i \in m .. k : h[i] \in S
  <2> TAKE i \in m .. k
  <2>1. i \in 1 .. Len(h)
    BY <1>1
  <2> QED
    BY <2>1
<1>3. /\ SubSeq(h, m, k) \in Seq(S)
      /\ Len(SubSeq(h, m, k)) = IF m <= k THEN k - m + 1 ELSE 0
      /\ \A i \in 1 .. k - m + 1 : SubSeq(h, m, k)[i] = h[m + i - 1]
  BY <1>2, SubSeqProperties
<1> QED
  BY <1>3

\* What stands at some place of a sequence is found again there.
LEMMA PartAt ==
  ASSUME NEW S, NEW s \in Seq(S), NEW b \in Seq(S), NEW k \in Nat,
         k + Len(b) <= Len(s),
         \A i \in 1 .. Len(b) : s[k + i] = b[i]
  PROVE  SubSeq(s, k + 1, k + Len(b)) = b
<1> DEFINE from == k + 1
           to == k + Len(b)
           part == SubSeq(s, from, to)
<1>1. /\ Len(b) \in Nat /\ from \in Nat \ {0} /\ to \in Nat
      /\ from <= to + 1 /\ to <= Len(s) /\ to - from + 1 = Len(b)
      /\ \A i \in 1 .. Len(b) : from + i - 1 = k + i
  OBVIOUS
<1> HIDE DEF from, to
<1>2. /\ part \in Seq(S) /\ Len(part) = to - from + 1
      /\ \A i \in 1 .. to - from + 1 : part[i] = s[from + i - 1]
  BY <1>1, Part
<1> HIDE DEF part
<1>3. Len(part) = Len(b) /\ \A i \in 1 .. Len(b) : part[i] = s[from + i - 1]
  BY <1>1, <1>2
<1>4. \A i \in 1 .. Len(b) : part[i] = b[i]
  BY <1>1, <1>3
<1>5. part = b
  BY <1>2, <1>3, <1>4, SeqEqual
<1> QED
  BY <1>5 DEF part, from, to

\* What concatenation does, by places.
LEMMA Joined ==
  ASSUME NEW S, NEW a \in Seq(S), NEW b \in Seq(S), NEW ab, ab = a \o b
  PROVE  /\ ab \in Seq(S) /\ Len(ab) = Len(a) + Len(b)
         /\ \A i \in 1 .. Len(a) : ab[i] = a[i]
         /\ \A i \in 1 .. Len(b) : ab[Len(a) + i] = b[i]
<1>1. /\ ab \in Seq(S) /\ Len(ab) = Len(a) + Len(b)
      /\ \A i \in 1 .. Len(a) + Len(b) : ab[i] = IF i <= Len(a) THEN a[i]
                                               ELSE b[i - Len(a)]
  BY ConcatProperties
<1>2. Len(a) \in Nat /\ Len(b) \in Nat
  OBVIOUS
<1>3. ASSUME NEW i \in 1 .. Len(b) PROVE ab[Len(a) + i] = b[i]
  <2>1. Len(a) + i \in 1 .. Len(a) + Len(b) /\ ~(Len(a) + i <= Len(a))
    BY <1>2
  <2>2. Len(a) + i - Len(a) = i
    BY <1>2
  <2> QED
    BY <1>1, <2>1, <2>2
<1> QED
  BY <1>1, <1>2, <1>3

\* h consists of five parts, one after the other.
HasParts(h, a, b, c, d, e) ==
  /\ Len(h) = Len(a) + Len(b) + Len(c) + Len(d) + Len(e)
  /\ \A i \in 1 .. Len(a) : h[i] = a[i]
  /\ SubSeq(h, Len(a) + 1, Len(a) + Len(b)) = b
  /\ SubSeq(h, Len(a) + Len(b) + 1, Len(a) + Len(b) + Len(c)) = c
  /\ SubSeq(h, Len(a) + Len(b) + Len(c) + 1, Len(a) + Len(b) + Len(c) + Len(d)) = d
  /\ SubSeq(h, Len(a) + Len(b) + Len(c) + Len(d) + 1,
            Len(a) + Len(b) + Len(c) + Len(d) + Len(e)) = e

LEMMA FiveParts ==
  ASSUME NEW S, NEW a \in Seq(S), NEW b \in Seq(S), NEW c \in Seq(S),
         NEW d \in Seq(S), NEW e \in Seq(S)
  PROVE  HasParts(a \o b \o c \o d \o e, a, b, c, d, e)
<1>0. PICK ab, abc, abcd, h :
        ab = a \o b /\ abc = ab \o c /\ abcd = abc \o d /\ h = abcd \o e
  OBVIOUS
<1>1. Len(a) \in Nat /\ Len(b) \in Nat /\ Len(c) \in Nat /\ Len(d) \in Nat /\ Len(e) \in Nat
  OBVIOUS
<1>2. /\ ab \in Seq(S) /\ Len(ab) = Len(a) + Len(b)
      /\ \A i \in 1 .. Len(a) : ab[i] = a[i]
      /\ \A i \in 1 .. Len(b) : ab[Len(a) + i] = b[i]
  BY <1>0, <1>1, Joined
<1>3. /\ abc \in Seq(S) /\ Len(abc) = Len(ab) + Len(c)
      /\ \A i \in 1 .. Len(ab) : abc[i] = ab[i]
      /\ \A i \in 1 .. Len(c) : abc[Len(ab) + i] = c[i]
  BY <1>0, <1>2, Joined
<1>4. /\ abcd \in Seq(S) /\ Len(abcd) = Len(abc) + Len(d)
      /\ \A i \in 1 .. Len(abc) : abcd[i] = abc[i]
      /\ \A i \in 1 .. Len(d) : abcd[Len(abc) + i] = d[i]
  BY <1>0, <1>3, Joined
<1>5. /\ h \in Seq(S) /\ Len(h) = Len(abcd) + Len(e)
      /\ \A i \in 1 .. Len(abcd) : h[i] = abcd[i]
      /\ \A i \in 1 .. Len(e) : h[Len(abcd) + i] = e[i]
  BY <1>0, <1>4, Joined
<1>6. \A i \in 1 .. Len(a) : h[i] = a[i]
  <2> TAKE i \in 1 .. Len(a)
  <2>1. i \in 1 .. Len(ab) /\ i \in 1 .. Len(abc) /\ i \in 1 .. Len(abcd)
    BY <1>1, <1>2, <1>3, <1>4
  <2> QED
    BY <1>2, <1>3, <1>4, <1>5, <2>1
<1>7. \A i \in 1 .. Len(b) : h[Len(a) + i] = b[i]
  <2> TAKE i \in 1 .. Len(b)
  <2>1. /\ Len(a) + i \in 1 .. Len(ab) /\ Len(a) + i \in 1 .. Len(abc)
        /\ Len(a) + i \in 1 .. Len(abcd)
    BY <1>1, <1>2, <1>3, <1>4
  <2> QED
    BY <1>2, <1>3, <1>4, <1>5, <2>1
<1>8. \A i \in 1 .. Len(c) : h[Len(ab) + i] = c[i]
  <2> TAKE i \in 1 .. Len(c)
  <2>1. Len(ab) + i \in 1 .. Len(abc) /\ Len(ab) + i \in 1 .. Len(abcd)
    BY <1>1, <1>2, <1>3, <1>4
  <2> QED
    BY <1>3, <1>4, <1>5, <2>1
<1>9. \A i \in 1 .. Len(d) : h[Len(abc) + i] = d[i]
  <2> TAKE i \in 1 .. Len(d)
  <2>1. Len(abc) + i \in 1 .. Len(abcd)
    BY <1>1, <1>2, <1>3, <1>4
  <2> QED
    BY <1>4, <1>5, <2>1
<1>10. SubSeq(h, Len(a) + 1, Len(a) + Len(b)) = b
  <2>1. Len(a) + Len(b) <= Len(h)
    BY <1>1, <1>2, <1>3, <1>4, <1>5
  <2> QED
    BY <1>1, <1>5, <1>7, <2>1, PartAt
<1>11. SubSeq(h, Len(ab) + 1, Len(ab) + Len(c)) = c
  <2>1. Len(ab) \in Nat /\ Len(ab) + Len(c) <= Len(h)
    BY <1>1, <1>2, <1>3, <1>4, <1>5
  <2> QED
    BY <1>5, <1>8, <2>1, PartAt
<1>12. SubSeq(h, Len(abc) + 1, Len(abc) + Len(d)) = d
  <2>1. Len(abc) \in Nat /\ Len(abc) + Len(d) <= Len(h)
    BY <1>1, <1>2, <1>3, <1>4, <1>5
  <2> QED
    BY <1>5, <1>9, <2>1, PartAt
<1>13. SubSeq(h, Len(abcd) + 1, Len(abcd) + Len(e)) = e
  <2>1. Len(abcd) \in Nat /\ Len(abcd) + Len(e) <= Len(h)
    BY <1>1, <1>2, <1>3, <1>4, <1>5
  <2> QED
    BY <1>5, <2>1, PartAt
<1>14. /\ Len(abc) = Len(a) + Len(b) + Len(c)
       /\ Len(abcd) = Len(a) + Len(b) + Len(c) + Len(d)
       /\ Len(h) = Len(a) + Len(b) + Len(c) + Len(d) + Len(e)
  BY <1>1, <1>2, <1>3, <1>4, <1>5
<1>15. h = a \o b \o c \o d \o e
  BY <1>0
<1> QED
  BY <1>2, <1>6, <1>10, <1>11, <1>12, <1>13, <1>14, <1>15 DEF HasParts

\* A handshake with its three parts that are not fixed.
HandshakeParts(reserved, infoHash, id) ==
  /\ reserved \in Seq(Byte) /\ Len(reserved) = Reserved
  /\ infoHash \in Seq(Byte) /\ Len(infoHash) = HashBytes
  /\ id \in Seq(Byte) /\ Len(id) = IdBytes

\* Where parse_handshake_response looks for them.
HasFields(h, infoHash, id) ==
  LET n == Len(Protocol)
  IN /\ Len(h) = HandshakeLength
     /\ h[1] = n
     /\ SubSeq(h, 2, 1 + n) = Protocol
     /\ SubSeq(h, 1 + n + Reserved + 1, 1 + n + Reserved + HashBytes) = infoHash
     /\ SubSeq(h, 1 + n + Reserved + HashBytes + 1,
               1 + n + Reserved + HashBytes + IdBytes) = id

LEMMA HandshakeFields ==
  ASSUME NEW reserved, NEW infoHash, NEW id, HandshakeParts(reserved, infoHash, id)
  PROVE  HasFields(CreateHandshake(reserved, infoHash, id), infoHash, id)
<1> DEFINE h == CreateHandshake(reserved, infoHash, id)
           n == Len(Protocol)
<1>1. /\ Protocol \in Seq(Byte) /\ n \in Byte /\ n \in Nat
  BY WireAssumption DEF Byte
<1>2. /\ reserved \in Seq(Byte) /\ infoHash \in Seq(Byte) /\ id \in Seq(Byte)
      /\ Len(reserved) = Reserved /\ Len(infoHash) = HashBytes /\ Len(id) = IdBytes
  BY DEF HandshakeParts
<1>3. <<n>> \in Seq(Byte) /\ Len(<<n>>) = 1 /\ <<n>>[1] = n
  BY <1>1
<1>4. PICK first \in Seq(Byte) : first = <<n>>
  BY <1>3
<1>5. h = first \o Protocol \o reserved \o infoHash \o id
  BY <1>4 DEF CreateHandshake
<1>6. Len(first) = 1 /\ first[1] = n
  BY <1>3, <1>4
<1>7. HasParts(first \o Protocol \o reserved \o infoHash \o id,
               first, Protocol, reserved, infoHash, id)
  BY <1>1, <1>2, <1>4, FiveParts
<1>8. HasParts(h, first, Protocol, reserved, infoHash, id)
  BY <1>5, <1>7
<1>9. h[1] = n
  BY <1>6, <1>8 DEF HasParts
<1>10. /\ SubSeq(h, 1 + 1, 1 + n) = Protocol
       /\ SubSeq(h, 1 + n + Reserved + 1, 1 + n + Reserved + HashBytes) = infoHash
       /\ SubSeq(h, 1 + n + Reserved + HashBytes + 1,
                 1 + n + Reserved + HashBytes + IdBytes) = id
       /\ Len(h) = 1 + n + Reserved + HashBytes + IdBytes
  BY <1>2, <1>6, <1>8 DEF HasParts
<1>11. HandshakeLength = 1 + n + Reserved + HashBytes + IdBytes
  BY DEF HandshakeLength
<1> QED
  BY <1>9, <1>10, <1>11 DEF HasFields

(***************************************************************************)
(* What create_handshake makes, parse_handshake_response understands: it   *)
(* finds the id if the hash is the one it looks for, and nothing if not.   *)
(***************************************************************************)
THEOREM HandshakesAreUnderstood ==
  ASSUME NEW reserved, NEW infoHash, NEW id, HandshakeParts(reserved, infoHash, id),
         NEW wanted
  PROVE  ParseHandshakeResponse(CreateHandshake(reserved, infoHash, id), wanted) =
           IF infoHash = wanted THEN id ELSE NoId
<1>1. PICK h : h = CreateHandshake(reserved, infoHash, id)
  OBVIOUS
<1> DEFINE n == Len(Protocol)
<1>2. HasFields(h, infoHash, id)
  BY <1>1, HandshakeFields
<1>3. n \in Nat /\ Reserved \in Nat /\ HashBytes \in Nat /\ IdBytes \in Nat
  BY WireAssumption
<1>4. /\ HandshakeLength = 1 + n + Reserved + HashBytes + IdBytes
      /\ ~(1 + n > HandshakeLength)
  BY <1>3 DEF HandshakeLength
<1>5. ParseHandshakeResponse(h, wanted) = IF infoHash = wanted THEN id ELSE NoId
  BY <1>2, <1>4 DEF ParseHandshakeResponse, HasFields
<1> QED
  BY <1>1, <1>5

\* Equal parts have equal elements.
LEMMA SamePart ==
  ASSUME NEW S, NEW g \in Seq(S), NEW h \in Seq(S), NEW m \in Nat \ {0}, NEW k \in Nat,
         k <= Len(g), k <= Len(h), SubSeq(g, m, k) = SubSeq(h, m, k)
  PROVE  \A i \in m .. k : g[i] = h[i]
<1> TAKE i \in m .. k
<1>1. m <= k + 1 /\ i - m + 1 \in 1 .. k - m + 1 /\ m + (i - m + 1) - 1 = i
  OBVIOUS
<1>2. /\ SubSeq(g, m, k)[i - m + 1] = g[m + (i - m + 1) - 1]
      /\ SubSeq(h, m, k)[i - m + 1] = h[m + (i - m + 1) - 1]
  BY <1>1, Part
<1> QED
  BY <1>1, <1>2

\* The five parts, put together.
FiveJoined(a, b, c, d, e) == a \o b \o c \o d \o e

\* A sequence is no more than its parts.
LEMMA PartsDetermine ==
  ASSUME NEW S, NEW a \in Seq(S), NEW b \in Seq(S), NEW c \in Seq(S),
         NEW d \in Seq(S), NEW e \in Seq(S), NEW h \in Seq(S),
         HasParts(h, a, b, c, d, e)
  PROVE  h = FiveJoined(a, b, c, d, e)
<1>1. PICK g : g = a \o b \o c \o d \o e
  OBVIOUS
<1>2. HasParts(a \o b \o c \o d \o e, a, b, c, d, e)
  BY FiveParts
<1>3. HasParts(g, a, b, c, d, e) /\ g \in Seq(S)
  BY <1>1, <1>2
<1> DEFINE p1 == Len(a)
           p2 == p1 + Len(b)
           p3 == p2 + Len(c)
           p4 == p3 + Len(d)
           p5 == p4 + Len(e)
<1>4. /\ p1 \in Nat /\ p2 \in Nat /\ p3 \in Nat /\ p4 \in Nat /\ p5 \in Nat
      /\ p1 <= p2 /\ p2 <= p3 /\ p3 <= p4 /\ p4 <= p5
  OBVIOUS
<1>5. /\ Len(g) = p5 /\ Len(h) = p5
      /\ \A i \in 1 .. p1 : g[i] = h[i]
      /\ SubSeq(g, p1 + 1, p2) = SubSeq(h, p1 + 1, p2)
      /\ SubSeq(g, p2 + 1, p3) = SubSeq(h, p2 + 1, p3)
      /\ SubSeq(g, p3 + 1, p4) = SubSeq(h, p3 + 1, p4)
      /\ SubSeq(g, p4 + 1, p5) = SubSeq(h, p4 + 1, p5)
  BY <1>3 DEF HasParts
<1> HIDE DEF p1, p2, p3, p4, p5
<1>6. /\ p1 + 1 \in Nat \ {0} /\ p2 + 1 \in Nat \ {0}
      /\ p3 + 1 \in Nat \ {0} /\ p4 + 1 \in Nat \ {0}
      /\ p1 <= p5 /\ p2 <= p5 /\ p3 <= p5 /\ p5 <= p5
  BY <1>4
<1>7. \A m \in Nat \ {0}, k \in Nat :
        k <= p5 /\ SubSeq(g, m, k) = SubSeq(h, m, k) => \A i \in m .. k : g[i] = h[i]
  <2> TAKE m \in Nat \ {0}, k \in Nat
  <2> HAVE k <= p5 /\ SubSeq(g, m, k) = SubSeq(h, m, k)
  <2>1. k <= Len(g) /\ k <= Len(h)
    BY <1>5
  <2> QED
    BY <1>3, <2>1, SamePart
<1>8. /\ \A i \in p1 + 1 .. p2 : g[i] = h[i]
      /\ \A i \in p2 + 1 .. p3 : g[i] = h[i]
      /\ \A i \in p3 + 1 .. p4 : g[i] = h[i]
      /\ \A i \in p4 + 1 .. p5 : g[i] = h[i]
  BY <1>4, <1>5, <1>6, <1>7
<1>9. \A i \in 1 .. p5 : g[i] = h[i]
  <2> TAKE i \in 1 .. p5
  <2>1. \/ i \in 1 .. p1 \/ i \in p1 + 1 .. p2 \/ i \in p2 + 1 .. p3
        \/ i \in p3 + 1 .. p4 \/ i \in p4 + 1 .. p5
    BY <1>4
  <2> QED
    BY <1>5, <1>8, <2>1
<1>10. g = h
  BY <1>3, <1>5, <1>9, SeqEqual
<1>11. FiveJoined(a, b, c, d, e) = a \o b \o c \o d \o e
  BY DEF FiveJoined
<1> QED
  BY <1>1, <1>10, <1>11

(***************************************************************************)
(* The converse: of the answers of a handshake's length, only the          *)
(* handshakes of this protocol for this torrent are accepted, whatever the *)
(* first byte says of the name's length.                                   *)
(***************************************************************************)
THEOREM OnlyHandshakesAreAccepted ==
  ASSUME NEW response \in Seq(Byte), Len(response) = HandshakeLength,
         NEW wanted \in Seq(Byte), Len(wanted) = HashBytes,
         NEW id, id = ParseHandshakeResponse(response, wanted), id # NoId
  PROVE  \E reserved : /\ HandshakeParts(reserved, wanted, id)
                       /\ response = CreateHandshake(reserved, wanted, id)
<1> DEFINE n == Len(Protocol)
           nameEnd == 1 + response[1]
           reserved == SubSeq(response, 1 + n + 1, 1 + n + Reserved)
<1>1. /\ Protocol \in Seq(Byte) /\ n \in Nat /\ n \in Byte
      /\ Reserved \in Nat /\ HashBytes \in Nat /\ IdBytes \in Nat
      /\ Byte \subseteq Int /\ \A byte \in Byte : byte >= 0
  BY WireAssumption DEF Byte
<1>2. HandshakeLength = 1 + n + Reserved + HashBytes + IdBytes
  BY DEF HandshakeLength
<1>3. response[1] \in Byte /\ response[1] \in Nat
  <2>1. 1 \in 1 .. Len(response)
    BY <1>1, <1>2
  <2>2. response[1] \in Byte
    BY <2>1
  <2> QED
    BY <1>1, <2>2 DEF Byte
<1>4. /\ ~(nameEnd > Len(response))
      /\ SubSeq(response, 2, nameEnd) = Protocol
      /\ SubSeq(response, nameEnd + Reserved + 1, nameEnd + Reserved + HashBytes) = wanted
      /\ id = SubSeq(response, nameEnd + Reserved + HashBytes + 1,
                      nameEnd + Reserved + HashBytes + IdBytes)
  BY DEF ParseHandshakeResponse
<1>5. response[1] = n
  <2>1. 2 <= nameEnd + 1 /\ nameEnd \in Nat /\ nameEnd <= Len(response)
    <3>1. nameEnd \in Nat
      BY <1>3
    <3>2. Len(response) \in Nat
      OBVIOUS
    <3>3. 2 <= nameEnd + 1
      BY <1>3
    <3>4. ~(nameEnd > Len(response))
      BY <1>4
    <3> HIDE DEF nameEnd
    <3> QED
      BY <3>1, <3>2, <3>3, <3>4
  <2>2. Len(SubSeq(response, 2, nameEnd)) = nameEnd - 2 + 1
    BY <2>1, Part
  <2> QED
    BY <1>3, <1>4, <2>2
<1>6. /\ SubSeq(response, 2, 1 + n) = Protocol
      /\ SubSeq(response, 1 + n + Reserved + 1, 1 + n + Reserved + HashBytes) = wanted
      /\ id = SubSeq(response, 1 + n + Reserved + HashBytes + 1,
                      1 + n + Reserved + HashBytes + IdBytes)
  BY <1>4, <1>5
<1>7. reserved \in Seq(Byte) /\ Len(reserved) = Reserved
  <2> DEFINE from == 1 + n + 1
             to == 1 + n + Reserved
  <2>1. from \in Nat \ {0} /\ to \in Nat /\ from <= to + 1 /\ to <= Len(response)
    BY <1>1, <1>2
  <2>2. SubSeq(response, from, to) \in Seq(Byte)
        /\ Len(SubSeq(response, from, to)) = to - from + 1
    <3> HIDE DEF from, to
    <3> QED
      BY <2>1, Part
  <2>3. to - from + 1 = Reserved
    BY <1>1
  <2> QED
    BY <2>2, <2>3
<1>8. id \in Seq(Byte) /\ Len(id) = IdBytes
  <2> DEFINE from == 1 + n + Reserved + HashBytes + 1
             to == 1 + n + Reserved + HashBytes + IdBytes
  <2>1. from \in Nat \ {0} /\ to \in Nat /\ from <= to + 1 /\ to <= Len(response)
    BY <1>1, <1>2
  <2>2. SubSeq(response, from, to) \in Seq(Byte)
        /\ Len(SubSeq(response, from, to)) = to - from + 1
    <3> HIDE DEF from, to
    <3> QED
      BY <2>1, Part
  <2>3. to - from + 1 = IdBytes
    BY <1>1
  <2> QED
    BY <1>6, <2>2, <2>3
<1>9. HandshakeParts(reserved, wanted, id)
  BY <1>7, <1>8 DEF HandshakeParts
<1>10. <<n>> \in Seq(Byte) /\ Len(<<n>>) = 1 /\ <<n>>[1] = n
  BY <1>1
<1>11. PICK first \in Seq(Byte) : first = <<n>>
  BY <1>10
<1>12. PICK kept \in Seq(Byte) : kept = reserved
  BY <1>7
<1>13. HasParts(response, first, Protocol, kept, wanted, id)
  <2>1. /\ Len(first) = 1 /\ first[1] = n
        /\ Len(kept) = Reserved /\ Len(wanted) = HashBytes /\ Len(id) = IdBytes
    BY <1>7, <1>8, <1>10, <1>11, <1>12
  <2>2. \A i \in 1 .. Len(first) : response[i] = first[i]
    BY <1>5, <2>1
  <2>3. SubSeq(response, 1 + n + 1, 1 + n + Reserved) = kept
    BY <1>12
  <2>4. SubSeq(response, 1 + 1, 1 + n) = Protocol
    BY <1>6
  <2>5. Len(response) = 1 + n + Reserved + HashBytes + IdBytes
    BY <1>2
  <2> HIDE DEF reserved
  <2> QED
    BY <1>6, <2>1, <2>2, <2>3, <2>4, <2>5 DEF HasParts
<1>14. response = FiveJoined(first, Protocol, kept, wanted, id)
  <2>1. Protocol \in Seq(Byte)
    BY <1>1
  <2>2. /\ id \in Seq(Byte) /\ response \in Seq(Byte) /\ wanted \in Seq(Byte)
        /\ first \in Seq(Byte) /\ kept \in Seq(Byte)
    BY <1>8
  <2> HIDE DEF reserved
  <2> QED
    BY <1>13, <2>1, <2>2, PartsDetermine
<1>15. response = CreateHandshake(reserved, wanted, id)
  BY <1>11, <1>12, <1>14 DEF CreateHandshake, FiveJoined
<1> QED
  BY <1>9, <1>15

=============================================================================
