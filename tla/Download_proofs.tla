-------------------------- MODULE Download_proofs --------------------------
(***************************************************************************)
(* Proofs about Download: the connections drive the PieceManager by its    *)
(* own steps, so whatever holds of every PieceManager holds of this one;   *)
(* and what holds only because of who calls it when.                       *)
(***************************************************************************)
EXTENDS Download, PieceManager_proofs, SequenceTheorems

-----------------------------------------------------------------------------
\* Removing an element of a sequence.
LEMMA RemoveAtProperties ==
  ASSUME NEW S, NEW s \in Seq(S), NEW i \in 1 .. Len(s)
  PROVE  /\ RemoveAt(s, i) \in Seq(S)
         /\ Len(RemoveAt(s, i)) = Len(s) - 1
         /\ \A j \in 1 .. Len(s) - 1 :
              \E k \in 1 .. Len(s) : RemoveAt(s, i)[j] = s[k]
<1> DEFINE before == SubSeq(s, 1, i - 1)
           after == SubSeq(s, i + 1, Len(s))
<1>1. /\ before \in Seq(S) /\ Len(before) = i - 1
      /\ \A j \in 1 .. i - 1 : before[j] = s[j]
  OBVIOUS
<1>2. /\ after \in Seq(S) /\ Len(after) = Len(s) - i
      /\ \A j \in 1 .. Len(s) - i : after[j] = s[i + j]
  OBVIOUS
<1> HIDE DEF before, after
<1>3. RemoveAt(s, i) = before \o after
  BY DEF RemoveAt, before, after
<1>4. /\ before \o after \in Seq(S)
      /\ Len(before \o after) = Len(before) + Len(after)
  BY <1>1, <1>2, ConcatProperties
<1>5. ASSUME NEW j \in 1 .. Len(s) - 1
      PROVE  \E k \in 1 .. Len(s) : (before \o after)[j] = s[k]
  <2>1. CASE j <= i - 1
    BY <1>1, <1>2, <2>1, ConcatProperties
  <2>2. CASE j > i - 1
    <3>1. (before \o after)[j] = after[j - (i - 1)]
      BY <1>1, <1>2, <2>2, ConcatProperties
    <3>2. j - (i - 1) \in 1 .. Len(s) - i /\ j + 1 \in 1 .. Len(s)
      BY <2>2
    <3>3. after[j - (i - 1)] = s[i + (j - (i - 1))] /\ i + (j - (i - 1)) = j + 1
      BY <1>2, <3>2
    <3> QED
      BY <3>1, <3>2, <3>3
  <2>3. j <= i - 1 \/ j > i - 1
    OBVIOUS
  <2> QED
    BY <2>1, <2>2, <2>3, Zenon
<1> QED
  BY <1>1, <1>2, <1>3, <1>4, <1>5

-----------------------------------------------------------------------------
(***************************************************************************)
(* Whichever way a Piece comes, it brings all of some blocks, of which     *)
(* some have their bytes; or what it says is not even a number.            *)
(***************************************************************************)
IsData(first, last, good) ==
  first \in Int => first \in first .. last /\ good \in SUBSET (first .. last)

SomePiece(q) ==
  \E p, first, last, good : IsData(first, last, good) /\ HandlePiece(q, p, first, last, good)

\* To the PieceManager it is one of BlockArrives, or is refused.
LEMMA PieceArrives ==
  ASSUME NEW q, NEW p, NEW first, NEW last, NEW good,
         IsData(first, last, good), HandlePiece(q, p, first, last, good)
  PROVE  BlockArrives \/ UNCHANGED vars
<1>1. CASE AddBlock(p, first, last, good)
  <2>1. p \in Pieces /\ first \in Blocks(p) /\ last \in Blocks(p)
    BY <1>1 DEF AddBlock, IsValidBlockData
  <2>2. /\ p \in 0 .. NumPieces
        /\ first \in 0 .. NumBlocks[0] /\ last \in 0 .. NumBlocks[0]
    BY <2>1, BlocksBounded, BufferAssumption DEF Pieces
  <2>3. first <= last /\ good \in SUBSET (first .. last)
    BY <2>2 DEF IsData
  <2> QED
    BY <1>1, <2>2, <2>3 DEF BlockArrives
<1> QED
  BY <1>1 DEF HandlePiece

LEMMA AnswerIsPiece ==
  ASSUME NEW q \in Peers, AnswerSome(q)
  PROVE  SomePiece(q)
<1>1. PICK i \in DOMAIN asked[q] : \E good \in {{}, {asked[q][i][2]}} : Answer(q, i, good)
  BY DEF AnswerSome
<1>2. PICK good \in {{}, {asked[q][i][2]}} : Answer(q, i, good)
  BY <1>1
<1> DEFINE p == asked[q][i][1]
           b == asked[q][i][2]
<1>3. HandlePiece(q, p, b, b, good)
  BY <1>2 DEF Answer
<1>4. IsData(b, b, good)
  BY <1>2 DEF IsData
<1> HIDE DEF p, b
<1> QED
  BY <1>3, <1>4 DEF SomePiece

LEMMA StrayIsPiece ==
  ASSUME NEW q \in Peers, StrayPiece(q) \/ MadeUpPiece(q)
  PROVE  SomePiece(q)
<1>1. ASSUME HandlePiece(q, NumPieces, 0, 0, {}) PROVE SomePiece(q)
  <2>1. IsData(0, 0, {})
    BY DEF IsData
  <2> QED
    BY <1>1, <2>1 DEF SomePiece
<1>2. ASSUME NEW p \in Pieces, NEW first \in Blocks(p), NEW last \in Blocks(p),
             NEW good \in SUBSET (first .. last), first <= last,
             HandlePiece(q, p, first, last, good)
      PROVE  SomePiece(q)
  <2>1. IsData(first, last, good)
    BY <1>2, BlocksBounded DEF Blocks, IsData
  <2> QED
    BY <1>2, <2>1 DEF SomePiece
<1>3. ASSUME NEW p \in Pieces, NEW first \in Blocks(p), NEW last \in Blocks(p),
             first <= last, HandlePiece(q, p, first, last, {})
      PROVE  SomePiece(q)
  <2>1. {} \in SUBSET (first .. last)
    OBVIOUS
  <2> QED
    BY <1>2, <1>3, <2>1
<1>4. StrayPiece(q) => SomePiece(q)
  BY <1>1, <1>2 DEF StrayPiece
<1>5. MadeUpPiece(q) => SomePiece(q)
  BY <1>1, <1>3 DEF MadeUpPiece
<1> QED
  BY <1>4, <1>5

\* What a round of the sender's loop, or its end, does to the PieceManager.
LEMMA RoundIsStep ==
  ASSUME NEW q \in Peers, NEW n, RoundOf(q, n) \/ Rest(q, n)
  PROVE  Next \/ UNCHANGED vars
BY DEF RoundOf, Round, Rest, Next

\* What each step of the connections is to the PieceManager.
LEMMA DownloadStepIsStep ==
  ASSUME [DownloadNext]_downloadVars
  PROVE  [Next]_vars
<1>1. ASSUME NEW q \in Peers, BitfieldOf(q) PROVE Next
  BY <1>1 DEF BitfieldOf, Bitfield, Next
<1>2. ASSUME NEW q \in Peers, Request(q) \/ WriteReturns(q)
      PROVE  Next \/ UNCHANGED vars
  BY <1>2, RoundIsStep DEF Request, WriteReturns
<1>3. ASSUME NEW q \in Peers, AnswerSome(q) \/ StrayPiece(q) \/ MadeUpPiece(q)
      PROVE  BlockArrives \/ UNCHANGED vars
  <2>1. SomePiece(q)
    BY <1>3, AnswerIsPiece, StrayIsPiece
  <2> QED
    BY <2>1, PieceArrives DEF SomePiece
<1>4. ASSUME NEW q \in Peers, CleanupAndOpen(q) PROVE Next
  BY <1>4 DEF CleanupAndOpen, Next
<1>5. ASSUME NEW q \in Peers, Unchoke(q) \/ Choke(q) \/ Break(q) \/ Leave(q)
      PROVE  UNCHANGED vars
  BY <1>5 DEF Unchoke, Choke, Break, Leave
<1>6. UNCHANGED downloadVars => UNCHANGED vars
  BY DEF downloadVars
<1> QED
  BY <1>1, <1>2, <1>3, <1>4, <1>5, <1>6 DEF DownloadNext, Next

\* Connections, requests, Pieces asked for or not, and reconnections call the
\* PieceManager as its specification lets any caller do.
THEOREM DrivesPieceManager == DownloadSpec => Spec
<1>1. DownloadInit => Init
  BY DEF DownloadInit
<1>2. [DownloadNext]_downloadVars => [Next]_vars
  BY DownloadStepIsStep
<1> QED
  BY <1>1, <1>2, PTL DEF DownloadSpec, Spec

\* So the download keeps the ledger, and affinities name announced pieces.
THEOREM DownloadKeepsLedger == DownloadSpec => KeepsLedger
BY DrivesPieceManager, KeepingTheLedger, PTL

THEOREM DownloadAffinityAnnounced == DownloadSpec => []AffinityAnnounced
BY DrivesPieceManager, AffinityIsAnnounced, DownloadAssumption, PTL

-----------------------------------------------------------------------------
(***************************************************************************)
(* The counter, as in Peer_proofs: what it holds when c requests are       *)
(* counted, where c is -1 if an answer was faster than its write.          *)
(***************************************************************************)
Shown(c) == IF c = -1 THEN CounterModulus - 1 ELSE c

LEMMA WrapAtZero ==
  /\ CounterModulus % CounterModulus = 0
  /\ (-1) % CounterModulus = CounterModulus - 1
BY DownloadAssumption

LEMMA WrapInside ==
  ASSUME NEW n \in 0 .. CounterModulus - 1
  PROVE  Wrap(n) = n
BY DownloadAssumption DEF Wrap

LEMMA WrapInRange ==
  ASSUME NEW n \in Int
  PROVE  Wrap(n) \in 0 .. CounterModulus - 1
BY DownloadAssumption DEF Wrap

LEMMA CountUp ==
  ASSUME NEW c \in -1 .. MaxInFlight - 1
  PROVE  Wrap(Shown(c) + 1) = c + 1
<1>1. CASE c = -1
  <2>1. Shown(c) + 1 = CounterModulus
    BY <1>1, DownloadAssumption DEF Shown
  <2> QED
    BY <1>1, <2>1, WrapAtZero DEF Wrap
<1>2. CASE c # -1
  <2>1. Shown(c) + 1 = c + 1 /\ c + 1 \in 0 .. CounterModulus - 1
    BY <1>2, DownloadAssumption DEF Shown
  <2> QED
    BY <2>1, WrapInside
<1> QED
  BY <1>1, <1>2

LEMMA CountDown ==
  ASSUME NEW c \in 0 .. MaxInFlight
  PROVE  Wrap(Shown(c) - 1) = Shown(c - 1)
<1>1. CASE c = 0
  <2>1. Shown(c) - 1 = -1 /\ Shown(c - 1) = CounterModulus - 1
    BY <1>1, DownloadAssumption DEF Shown
  <2> QED
    BY <2>1, WrapAtZero DEF Wrap
<1>2. CASE c # 0
  <2>1. Shown(c) - 1 = c - 1 /\ Shown(c - 1) = c - 1 /\ c - 1 \in 0 .. CounterModulus - 1
    BY <1>2, DownloadAssumption DEF Shown
  <2> QED
    BY <2>1, WrapInside
<1> QED
  BY <1>1, <1>2

-----------------------------------------------------------------------------
\* The pipelines.

RequestsOf == Pieces \X (0 .. NumBlocks[0] - 1)

\* Requests are for announced pieces.
AskedAnnounced(announced, requests) ==
  \A i \in DOMAIN requests : /\ requests[i][1] \in announced
                             /\ requests[i][2] \in Blocks(requests[i][1])

\* count is what the counter holds when `open' requests may be answered: these
\* are counted, but for one whose write is awaited.
Counted(count, open, isWriting) ==
  \E c \in -1 .. MaxInFlight :
    /\ count = Shown(c)
    /\ isWriting => c < MaxInFlight
    /\ open <= c + (IF isWriting THEN 1 ELSE 0)

\* What is true of one peer; is its connection not up, it answers nothing.
PipelineOK(q, link, announced, isWriting, count, requests) ==
  /\ link \in {"up", "broken", "left", "closed"}
  /\ isWriting \in BOOLEAN
  /\ count \in 0 .. CounterModulus - 1
  /\ requests \in Seq(RequestsOf)
  /\ AskedAnnounced(announced, requests)
  /\ link # "up" => requests = <<>>
  /\ link = "up" /\ q \notin Strays => Counted(count, Len(requests), isWriting)

\* One more request.
LEMMA AppendAsked ==
  ASSUME NEW announced, NEW requests \in Seq(RequestsOf),
         AskedAnnounced(announced, requests),
         NEW p \in Pieces, NEW b \in Blocks(p), p \in announced
  PROVE  /\ Append(requests, <<p, b>>) \in Seq(RequestsOf)
         /\ AskedAnnounced(announced, Append(requests, <<p, b>>))
         /\ Len(Append(requests, <<p, b>>)) = Len(requests) + 1
<1>1. <<p, b>> \in RequestsOf
  BY BlocksBounded DEF RequestsOf
<1>2. Append(requests, <<p, b>>) \in Seq(RequestsOf)
  BY <1>1
<1>3. /\ Len(Append(requests, <<p, b>>)) = Len(requests) + 1
      /\ \A i \in 1 .. Len(requests) + 1 :
           Append(requests, <<p, b>>)[i] = IF i <= Len(requests) THEN requests[i]
                                           ELSE <<p, b>>
  BY <1>1, AppendProperties
<1> QED
  BY <1>2, <1>3 DEF AskedAnnounced

\* An answer to one of them.
LEMMA RemoveAsked ==
  ASSUME NEW announced, NEW requests \in Seq(RequestsOf),
         AskedAnnounced(announced, requests),
         NEW i \in DOMAIN requests
  PROVE  /\ RemoveAt(requests, i) \in Seq(RequestsOf)
         /\ AskedAnnounced(announced, RemoveAt(requests, i))
         /\ Len(RemoveAt(requests, i)) = Len(requests) - 1
<1>1. i \in 1 .. Len(requests) /\ Len(requests) \in Nat
  OBVIOUS
<1>2. /\ RemoveAt(requests, i) \in Seq(RequestsOf)
      /\ Len(RemoveAt(requests, i)) = Len(requests) - 1
      /\ \A j \in 1 .. Len(requests) - 1 :
           \E k \in 1 .. Len(requests) : RemoveAt(requests, i)[j] = requests[k]
  BY <1>1, RemoveAtProperties, ZenonT(60)
<1>3. /\ DOMAIN RemoveAt(requests, i) = 1 .. Len(requests) - 1
      /\ DOMAIN requests = 1 .. Len(requests)
  BY <1>2
<1> HIDE DEF RemoveAt
<1>4. \A j \in DOMAIN RemoveAt(requests, i) :
        /\ RemoveAt(requests, i)[j][1] \in announced
        /\ RemoveAt(requests, i)[j][2] \in Blocks(RemoveAt(requests, i)[j][1])
  BY <1>2, <1>3 DEF AskedAnnounced
<1> QED
  BY <1>2, <1>4 DEF AskedAnnounced

\* No requests agree with any pieces.
LEMMA NothingAsked ==
  ASSUME NEW announced
  PROVE  <<>> \in Seq(RequestsOf) /\ AskedAnnounced(announced, <<>>)
BY DEF AskedAnnounced

\* Fewer requests, or the answer to one, are still counted.
LEMMA FewerCounted ==
  ASSUME NEW count, NEW open \in Nat, NEW isWriting \in BOOLEAN,
         Counted(count, open, isWriting)
  PROVE  /\ \A fewer \in 0 .. open : Counted(count, fewer, isWriting)
         /\ open > 0 => Counted(Wrap(count - 1), open - 1, isWriting)
<1>1. PICK c \in -1 .. MaxInFlight : /\ count = Shown(c)
                                     /\ isWriting => c < MaxInFlight
                                     /\ open <= c + (IF isWriting THEN 1 ELSE 0)
  BY DEF Counted
<1>2. ASSUME open > 0 PROVE Counted(Wrap(count - 1), open - 1, isWriting)
  <2>1. c \in 0 .. MaxInFlight
    BY <1>1, <1>2, DownloadAssumption
  <2>2. Wrap(count - 1) = Shown(c - 1)
    BY <1>1, <2>1, CountDown
  <2>3. /\ c - 1 \in -1 .. MaxInFlight
        /\ isWriting => c - 1 < MaxInFlight
        /\ open - 1 <= (c - 1) + (IF isWriting THEN 1 ELSE 0)
    BY <1>1, <2>1, DownloadAssumption
  <2> QED
    BY <2>2, <2>3 DEF Counted
<1> QED
  BY <1>1, <1>2 DEF Counted

\* The sender is about to go on with n requests in flight, which are counted.
LEMMA CountedToGoOn ==
  ASSUME NEW n \in 0 .. MaxInFlight, NEW open \in Nat, open <= n
  PROVE  /\ Counted(n, open, FALSE)
         /\ n < MaxInFlight => Counted(n, open, TRUE) /\ Counted(n, open + 1, TRUE)
BY DownloadAssumption DEF Counted, Shown

\* ... which they are when it wakes up, and when its write returns.
LEMMA CountedBefore ==
  ASSUME NEW count, NEW open \in Nat, NEW isWriting \in BOOLEAN,
         Counted(count, open, isWriting)
  PROVE  /\ ~isWriting => count \in 0 .. MaxInFlight /\ open <= count
         /\ isWriting => /\ Wrap(count + 1) \in 0 .. MaxInFlight
                         /\ open <= Wrap(count + 1)
<1>1. PICK c \in -1 .. MaxInFlight : /\ count = Shown(c)
                                     /\ isWriting => c < MaxInFlight
                                     /\ open <= c + (IF isWriting THEN 1 ELSE 0)
  BY DEF Counted
<1>2. CASE ~isWriting
  BY <1>1, <1>2 DEF Shown
<1>3. CASE isWriting
  <2>1. c \in -1 .. MaxInFlight - 1
    BY <1>1, <1>3, DownloadAssumption
  <2>2. Wrap(count + 1) = c + 1
    BY <1>1, <2>1, CountUp
  <2> QED
    BY <1>1, <1>3, <2>1, <2>2, DownloadAssumption
<1> QED
  BY <1>2, <1>3

-----------------------------------------------------------------------------
(***************************************************************************)
(* The inductive invariant of the connections, above that of PieceManager. *)
(***************************************************************************)
PipelineNow(q) ==
  PipelineOK(q, connection[q], peersBitfield[q], writing[q], numInFlight[q], asked[q])

DInv ==
  /\ DownloadTypeOK
  /\ \A q \in Peers : PipelineNow(q)

LEMMA InitDInv == DownloadInit => DInv
<1> SUFFICES ASSUME DownloadInit PROVE DInv
  OBVIOUS
<1>1. Counted(0, 0, FALSE)
  BY DownloadAssumption DEF Counted, Shown
<1>2. 0 \in 0 .. CounterModulus - 1 /\ <<>> \in Seq(RequestsOf)
  BY DownloadAssumption
<1>3. ASSUME NEW q \in Peers PROVE PipelineNow(q)
  <2>1. /\ connection[q] = "up" /\ writing[q] = FALSE /\ numInFlight[q] = 0
        /\ asked[q] = <<>> /\ Len(asked[q]) = 0
    BY DEF DownloadInit
  <2> QED
    BY <1>1, <1>2, <2>1, NothingAsked DEF PipelineNow, PipelineOK
<1>4. DownloadTypeOK
  <2>1. asked \in [Peers -> Seq(RequestsOf)]
    BY <1>2 DEF DownloadInit
  <2>2. numInFlight \in [Peers -> 0 .. CounterModulus - 1]
    BY <1>2 DEF DownloadInit
  <2>3. opened \in [Peers -> 1 .. MaxOpened]
    BY DEF DownloadInit, MaxOpened
  <2>4. /\ connection \in [Peers -> {"up", "broken", "left", "closed"}]
        /\ isChoked \in [Peers -> BOOLEAN]
        /\ writing \in [Peers -> BOOLEAN]
        /\ spoiled \in BOOLEAN
    BY DEF DownloadInit
  <2> QED
    BY <2>1, <2>2, <2>3, <2>4 DEF DownloadTypeOK, RequestsOf
<1> QED
  BY <1>3, <1>4 DEF DInv

\* What each step leaves true: only peer q's connection and pipeline change.
PipelineOf(q, link, announced, isWriting, count, requests) ==
  /\ connection' = [connection EXCEPT ![q] = link]
  /\ peersBitfield' = [peersBitfield EXCEPT ![q] = announced]
  /\ writing' = [writing EXCEPT ![q] = isWriting]
  /\ numInFlight' = [numInFlight EXCEPT ![q] = count]
  /\ asked' = [asked EXCEPT ![q] = requests]
  /\ PipelineOK(q, link, announced, isWriting, count, requests)

OthersTyped ==
  /\ opened \in [Peers -> 1 .. MaxOpened]
  /\ isChoked \in [Peers -> BOOLEAN]
  /\ spoiled \in BOOLEAN

\* What a peer's pipeline is before the step.
LEMMA PipelineBefore ==
  ASSUME IInv, DInv, NEW q \in Peers
  PROVE  /\ connection = [connection EXCEPT ![q] = connection[q]]
         /\ peersBitfield = [peersBitfield EXCEPT ![q] = peersBitfield[q]]
         /\ writing = [writing EXCEPT ![q] = writing[q]]
         /\ numInFlight = [numInFlight EXCEPT ![q] = numInFlight[q]]
         /\ asked = [asked EXCEPT ![q] = asked[q]]
         /\ PipelineOK(q, connection[q], peersBitfield[q], writing[q], numInFlight[q], asked[q])
         /\ numInFlight[q] \in Int
<1>1. PipelineNow(q)
  BY DEF DInv
<1>2. numInFlight[q] \in Int
  BY <1>1, DownloadAssumption DEF PipelineNow, PipelineOK
<1> QED
  BY <1>1, <1>2 DEF IInv, TypeOK, DInv, DownloadTypeOK, PipelineNow

LEMMA PipelineKeepsDInv ==
  ASSUME IInv, DInv, OthersTyped',
         NEW q \in Peers, NEW link, NEW announced, NEW isWriting, NEW count, NEW requests,
         PipelineOf(q, link, announced, isWriting, count, requests)
  PROVE  DInv'
<1>1. /\ connection \in [Peers -> {"up", "broken", "left", "closed"}]
      /\ peersBitfield \in [Peers -> SUBSET Pieces]
      /\ writing \in [Peers -> BOOLEAN]
      /\ numInFlight \in [Peers -> 0 .. CounterModulus - 1]
      /\ asked \in [Peers -> Seq(RequestsOf)]
  BY DEF IInv, TypeOK, DInv, DownloadTypeOK, RequestsOf
<1>2. /\ connection' \in [Peers -> {"up", "broken", "left", "closed"}]
      /\ writing' \in [Peers -> BOOLEAN]
      /\ numInFlight' \in [Peers -> 0 .. CounterModulus - 1]
      /\ asked' \in [Peers -> Seq(RequestsOf)]
  BY <1>1 DEF PipelineOf, PipelineOK
<1>3. ASSUME NEW r \in Peers
      PROVE  PipelineOK(r, connection'[r], peersBitfield'[r], writing'[r],
                        numInFlight'[r], asked'[r])
  <2>1. CASE r = q
    BY <1>1, <2>1 DEF PipelineOf
  <2>2. CASE r # q
    <3>1. /\ connection'[r] = connection[r]
          /\ peersBitfield'[r] = peersBitfield[r]
          /\ writing'[r] = writing[r]
          /\ numInFlight'[r] = numInFlight[r]
          /\ asked'[r] = asked[r]
      BY <1>1, <2>2 DEF PipelineOf
    <3> QED
      BY <3>1, PipelineBefore
  <2> QED
    BY <2>1, <2>2
<1>4. DownloadTypeOK'
  BY <1>2 DEF DownloadTypeOK, OthersTyped, RequestsOf
<1> QED
  BY <1>3, <1>4 DEF DInv, PipelineNow

\* The invariant says of the requests what it should.
LEMMA DInvAsksOnlyAnnounced == DInv => AsksOnlyAnnounced
<1> SUFFICES ASSUME DInv, NEW q \in Peers
             PROVE  /\ AskedAnnounced(peersBitfield[q], asked[q])
                    /\ q \notin Strays =>
                         /\ Len(asked[q]) <= MaxInFlight
                         /\ Len(asked[q]) <= numInFlight[q] + (IF writing[q] THEN 1 ELSE 0)
  BY DEF AsksOnlyAnnounced, AskedAnnounced
<1>1. PipelineNow(q) /\ MaxInFlight \in Nat /\ CounterModulus \in Nat
  BY DownloadAssumption DEF DInv
<1>2. CASE connection[q] # "up"
  <2>1. Len(asked[q]) = 0 /\ numInFlight[q] \in Nat
    BY <1>1, <1>2 DEF PipelineNow, PipelineOK
  <2> QED
    BY <1>1, <2>1 DEF PipelineNow, PipelineOK
<1>3. CASE connection[q] = "up" /\ q \notin Strays
  <2>1. Counted(numInFlight[q], Len(asked[q]), writing[q]) /\ Len(asked[q]) \in Nat
    BY <1>1, <1>3 DEF PipelineNow, PipelineOK
  <2>2. PICK c \in -1 .. MaxInFlight :
          /\ numInFlight[q] = Shown(c)
          /\ writing[q] => c < MaxInFlight
          /\ Len(asked[q]) <= c + (IF writing[q] THEN 1 ELSE 0)
    BY <2>1 DEF Counted
  <2>3. c <= Shown(c) /\ Shown(c) \in Int
    BY <1>1, DownloadAssumption DEF Shown
  <2> QED
    BY <1>1, <2>1, <2>2, <2>3 DEF PipelineNow, PipelineOK
<1> QED
  BY <1>1, <1>2, <1>3 DEF PipelineNow, PipelineOK

\* A request is for a piece the peer announced.
LEMMA RequestsAnnounced ==
  ASSUME AffinityAnnounced, NoPiece \notin Pieces,
         NEW q \in Peers, NEW p \in Pieces, NEW b,
         SelectNextBlock(q, p, b)
  PROVE  p \in peersBitfield[q] /\ peersBitfield' = peersBitfield
BY DEF SelectNextBlock, SelectAffinity, SelectNewPiece, SelectFromBuffer, RequestBlock,
       AffinityAnnounced, FirstIn, Startable

\* A round of the loop of send_block_requests, or its end, with n requests in
\* flight.
LEMMA RoundKeepsDInv ==
  ASSUME IInv, AffinityAnnounced, DInv, OthersTyped', NEW q \in Peers,
         NEW n \in 0 .. CounterModulus - 1,
         connection[q] = "up" /\ q \notin Strays =>
           n \in 0 .. MaxInFlight /\ Len(asked[q]) <= n,
         connection' = connection, numInFlight' = [numInFlight EXCEPT ![q] = n],
         RoundOf(q, n) \/ Rest(q, n)
  PROVE  DInv'
<1> DEFINE link == connection[q]
           announced == peersBitfield[q]
<1>1. /\ link \in {"up", "broken", "left", "closed"}
      /\ asked[q] \in Seq(RequestsOf) /\ Len(asked[q]) \in Nat
      /\ AskedAnnounced(announced, asked[q])
      /\ link # "up" => asked[q] = <<>>
  BY PipelineBefore DEF PipelineOK
<1>2. connection' = [connection EXCEPT ![q] = link]
  BY PipelineBefore
<1> HIDE DEF link, announced
<1>3. CASE Rest(q, n)
  <2>1. link = "up" /\ q \notin Strays => Counted(n, Len(asked[q]), FALSE)
    BY <1>1, CountedToGoOn DEF link
  <2>2. PipelineOK(q, link, announced, FALSE, n, asked[q])
    BY <1>1, <2>1 DEF PipelineOK
  <2>3. PipelineOf(q, link, announced, FALSE, n, asked[q])
    BY <1>2, <1>3, <2>2, PipelineBefore DEF PipelineOf, Rest, vars, announced
  <2> QED
    BY <2>3, PipelineKeepsDInv
<1>4. CASE RoundOf(q, n)
  <2>1. PICK p \in Pieces : \E b \in Blocks(p) \cup {NoBlock} : Round(q, n, p, b)
    BY <1>4 DEF RoundOf
  <2>2. PICK b \in Blocks(p) \cup {NoBlock} : Round(q, n, p, b)
    BY <2>1
  <2>3. /\ p \in announced
        /\ peersBitfield' = [peersBitfield EXCEPT ![q] = announced]
    BY <2>2, Sentinels, RequestsAnnounced, PipelineBefore DEF Round, announced
  <2>4. n < MaxInFlight
    BY <2>2 DEF Round
  <2>5. CASE b = NoBlock
    <3>1. link = "up" /\ q \notin Strays => Counted(n, Len(asked[q]), FALSE)
      BY <1>1, CountedToGoOn DEF link
    <3>2. PipelineOK(q, link, announced, FALSE, n, asked[q])
      BY <1>1, <3>1 DEF PipelineOK
    <3>3. PipelineOf(q, link, announced, FALSE, n, asked[q])
      BY <1>2, <2>2, <2>3, <2>5, <3>2, PipelineBefore DEF PipelineOf, Round
    <3> QED
      BY <3>3, PipelineKeepsDInv
  <2>6. CASE b # NoBlock /\ link = "up" /\ Len(asked[q]) < MaxAsked
    <3> DEFINE requests == Append(asked[q], <<p, b>>)
    <3>1. /\ requests \in Seq(RequestsOf)
          /\ AskedAnnounced(announced, requests)
          /\ Len(requests) = Len(asked[q]) + 1
      BY <1>1, <2>2, <2>3, <2>6, AppendAsked
    <3>2. /\ writing' = [writing EXCEPT ![q] = TRUE]
          /\ asked' = [asked EXCEPT ![q] = requests]
      BY <2>2, <2>6 DEF Round, Hold, link
    <3> HIDE DEF requests
    <3>3. q \notin Strays => Counted(n, Len(requests), TRUE)
      BY <1>1, <2>4, <2>6, <3>1, CountedToGoOn DEF link
    <3>4. PipelineOK(q, link, announced, TRUE, n, requests)
      BY <1>1, <2>6, <3>1, <3>3 DEF PipelineOK
    <3>5. PipelineOf(q, link, announced, TRUE, n, requests)
      BY <1>2, <2>3, <3>2, <3>4 DEF PipelineOf
    <3> QED
      BY <3>5, PipelineKeepsDInv
  <2>7. CASE b # NoBlock /\ ~(link = "up" /\ Len(asked[q]) < MaxAsked)
    <3>1. /\ writing' = [writing EXCEPT ![q] = TRUE]
          /\ asked' = [asked EXCEPT ![q] = asked[q]]
      BY <2>2, <2>7, PipelineBefore DEF Round, Hold, link
    <3>2. link = "up" /\ q \notin Strays => Counted(n, Len(asked[q]), TRUE)
      BY <1>1, <2>4, CountedToGoOn DEF link
    <3>3. PipelineOK(q, link, announced, TRUE, n, asked[q])
      BY <1>1, <3>2 DEF PipelineOK
    <3>4. PipelineOf(q, link, announced, TRUE, n, asked[q])
      BY <1>2, <2>3, <3>1, <3>3 DEF PipelineOf
    <3> QED
      BY <3>4, PipelineKeepsDInv
  <2> QED
    BY <2>5, <2>6, <2>7
<1> QED
  BY <1>3, <1>4

\* A Piece is handled, and the remote peer has these requests left.
LEMMA PieceKeepsDInv ==
  ASSUME IInv, DInv, NEW q \in Peers, NEW p, NEW first, NEW last, NEW good,
         HandlePiece(q, p, first, last, good), NEW requests,
         asked' = [asked EXCEPT ![q] = requests],
         PipelineOK(q, connection[q], peersBitfield[q], writing[q],
                    Wrap(numInFlight[q] - 1), requests)
  PROVE  DInv'
<1>1. OthersTyped'
  BY DEF HandlePiece, DInv, DownloadTypeOK, OthersTyped
<1>2. peersBitfield' = peersBitfield
  BY DEF HandlePiece, AddBlock, vars
<1>3. numInFlight' = [numInFlight EXCEPT ![q] = Wrap(numInFlight[q] - 1)]
  BY DEF HandlePiece
<1>4. PipelineOf(q, connection[q], peersBitfield[q], writing[q],
                 Wrap(numInFlight[q] - 1), requests)
  BY <1>2, <1>3, PipelineBefore DEF HandlePiece, PipelineOf
<1> QED
  BY <1>1, <1>4, PipelineKeepsDInv

LEMMA AnswerKeepsDInv ==
  ASSUME IInv, DInv, NEW q \in Peers, AnswerSome(q)
  PROVE  DInv'
<1>1. PICK i \in DOMAIN asked[q] : \E good \in {{}, {asked[q][i][2]}} : Answer(q, i, good)
  BY DEF AnswerSome
<1>2. PICK good \in {{}, {asked[q][i][2]}} : Answer(q, i, good)
  BY <1>1
<1> DEFINE requests == RemoveAt(asked[q], i)
<1>3. /\ asked[q] \in Seq(RequestsOf) /\ Len(asked[q]) \in Nat /\ Len(asked[q]) > 0
      /\ AskedAnnounced(peersBitfield[q], asked[q])
      /\ writing[q] \in BOOLEAN /\ connection[q] = "up"
      /\ q \notin Strays => Counted(numInFlight[q], Len(asked[q]), writing[q])
  BY <1>2, PipelineBefore DEF PipelineOK, Answer
<1>4. /\ requests \in Seq(RequestsOf)
      /\ AskedAnnounced(peersBitfield[q], requests)
      /\ Len(requests) = Len(asked[q]) - 1
  BY <1>3, RemoveAsked
<1>5. asked' = [asked EXCEPT ![q] = requests]
  BY <1>2 DEF Answer
<1> HIDE DEF requests
<1>6. q \notin Strays => Counted(Wrap(numInFlight[q] - 1), Len(requests), writing[q])
  BY <1>3, <1>4, FewerCounted
<1>7. Wrap(numInFlight[q] - 1) \in 0 .. CounterModulus - 1
  BY PipelineBefore, WrapInRange
<1>8. PipelineOK(q, connection[q], peersBitfield[q], writing[q],
                 Wrap(numInFlight[q] - 1), requests)
  BY <1>3, <1>4, <1>6, <1>7 DEF PipelineOK
<1> QED
  BY <1>2, <1>5, <1>8, PieceKeepsDInv DEF Answer

LEMMA UnaskedKeepsDInv ==
  ASSUME IInv, DInv, NEW q \in Peers, StrayPiece(q) \/ MadeUpPiece(q)
  PROVE  DInv'
<1>1. PICK p, first, last, good : HandlePiece(q, p, first, last, good)
  BY StrayIsPiece DEF SomePiece
<1>2. asked' = [asked EXCEPT ![q] = asked[q]]
  BY PipelineBefore DEF StrayPiece, MadeUpPiece
<1>3. connection[q] # "up" \/ q \in Strays
  BY DEF StrayPiece, MadeUpPiece
<1>4. Wrap(numInFlight[q] - 1) \in 0 .. CounterModulus - 1
  BY PipelineBefore, WrapInRange
<1>5. PipelineOK(q, connection[q], peersBitfield[q], writing[q],
                 Wrap(numInFlight[q] - 1), asked[q])
  BY <1>3, <1>4, PipelineBefore DEF PipelineOK
<1> QED
  BY <1>1, <1>2, <1>5, PieceKeepsDInv

\* The connection goes on, or ends, with requests that are all of what was
\* asked, or none.
LEMMA ForgettingIsOK ==
  ASSUME IInv, DInv, NEW q \in Peers, NEW link \in {"up", "broken", "left"},
         NEW requests \in {asked[q], <<>>},
         link # "up" => requests = <<>>,
         link = "up" => connection[q] = "up"
  PROVE  PipelineOK(q, link, peersBitfield[q], writing[q], numInFlight[q], requests)
<1>1. PipelineOK(q, connection[q], peersBitfield[q], writing[q], numInFlight[q], asked[q])
  BY PipelineBefore
<1>2. CASE requests = asked[q]
  BY <1>1, <1>2 DEF PipelineOK
<1>3. CASE requests = <<>>
  <2>1. Len(requests) = 0 /\ Len(asked[q]) \in Nat /\ writing[q] \in BOOLEAN
    BY <1>1, <1>3 DEF PipelineOK
  <2>2. ASSUME link = "up", q \notin Strays
        PROVE  Counted(numInFlight[q], Len(requests), writing[q])
    <3>1. Counted(numInFlight[q], Len(asked[q]), writing[q])
      BY <1>1, <2>2 DEF PipelineOK
    <3>2. Len(requests) \in 0 .. Len(asked[q])
      BY <2>1
    <3> QED
      BY <2>1, <3>1, <3>2, FewerCounted
  <2> QED
    BY <1>1, <1>3, <2>2, NothingAsked DEF PipelineOK
<1> QED
  BY <1>2, <1>3

\* One step of the connections.
LEMMA NextKeepsDInv ==
  ASSUME IInv, AffinityAnnounced, DInv, [DownloadNext]_downloadVars
  PROVE  DInv'
<1>1. OthersTyped
  BY DEF DInv, DownloadTypeOK, OthersTyped
<1>2. ASSUME NEW q \in Peers, BitfieldOf(q) PROVE DInv'
  <2>1. PICK bitfield \in (SUBSET Pieces) \ {{}} : Bitfield(q, bitfield)
    BY <1>2 DEF BitfieldOf
  <2>2. /\ peersBitfield[q] = {}
        /\ peersBitfield' = [peersBitfield EXCEPT ![q] = bitfield]
        /\ UNCHANGED <<connection, writing, numInFlight, asked>>
    BY <2>1, DownloadAssumption DEF Bitfield, UpdatePieceFrequencies, connectionVars
  <2>3. AskedAnnounced(bitfield, asked[q])
    BY <2>2, PipelineBefore DEF PipelineOK, AskedAnnounced
  <2>4. PipelineOK(q, connection[q], bitfield, writing[q], numInFlight[q], asked[q])
    BY <2>3, PipelineBefore DEF PipelineOK
  <2>5. PipelineOf(q, connection[q], bitfield, writing[q], numInFlight[q], asked[q])
    BY <2>2, <2>4, PipelineBefore DEF PipelineOf
  <2>6. OthersTyped'
    BY <1>1, <2>1 DEF Bitfield, connectionVars, OthersTyped
  <2> QED
    BY <2>5, <2>6, PipelineKeepsDInv
<1>3. ASSUME NEW q \in Peers, Unchoke(q) PROVE DInv'
  <2>1. PipelineOf(q, connection[q], peersBitfield[q], writing[q], numInFlight[q], asked[q])
    BY <1>3, PipelineBefore DEF Unchoke, PipelineOf, vars
  <2>2. OthersTyped'
    BY <1>1, <1>3 DEF Unchoke, OthersTyped
  <2> QED
    BY <2>1, <2>2, PipelineKeepsDInv
<1>4. ASSUME NEW q \in Peers, Choke(q) PROVE DInv'
  <2>1. PICK requests \in {asked[q], <<>>} : asked' = [asked EXCEPT ![q] = requests]
    BY <1>4, PipelineBefore DEF Choke
  <2>2. PipelineOK(q, connection[q], peersBitfield[q], writing[q], numInFlight[q], requests)
    <3>1. connection[q] \in {"up", "broken"}
      BY <1>4 DEF Choke, Receives
    <3>2. connection[q] = "broken" => asked[q] = <<>>
      BY PipelineBefore DEF PipelineOK
    <3> QED
      BY <2>1, <3>1, <3>2, ForgettingIsOK
  <2>3. PipelineOf(q, connection[q], peersBitfield[q], writing[q], numInFlight[q], requests)
    BY <1>4, <2>1, <2>2, PipelineBefore DEF Choke, PipelineOf, vars
  <2>4. OthersTyped'
    BY <1>1, <1>4 DEF Choke, OthersTyped
  <2> QED
    BY <2>3, <2>4, PipelineKeepsDInv
<1>5. ASSUME NEW q \in Peers, Request(q) PROVE DInv'
  <2>1. OthersTyped'
    BY <1>1, <1>5 DEF Request, OthersTyped
  <2>2. ASSUME connection[q] = "up", q \notin Strays
        PROVE  numInFlight[q] \in 0 .. MaxInFlight /\ Len(asked[q]) <= numInFlight[q]
    <3>1. /\ Counted(numInFlight[q], Len(asked[q]), writing[q])
          /\ Len(asked[q]) \in Nat /\ writing[q] = FALSE
      BY <1>5, <2>2, PipelineBefore DEF PipelineOK, Request
    <3> QED
      BY <3>1, CountedBefore
  <2>3. /\ numInFlight[q] \in 0 .. CounterModulus - 1
        /\ numInFlight' = [numInFlight EXCEPT ![q] = numInFlight[q]]
        /\ connection' = connection
        /\ RoundOf(q, numInFlight[q])
    BY <1>5, PipelineBefore DEF PipelineOK, Request
  <2> QED
    BY <2>1, <2>2, <2>3, RoundKeepsDInv
<1>6. ASSUME NEW q \in Peers, WriteReturns(q) PROVE DInv'
  <2> DEFINE n == Wrap(numInFlight[q] + 1)
  <2>1. OthersTyped'
    BY <1>1, <1>6 DEF WriteReturns, OthersTyped
  <2>2. ASSUME connection[q] = "up", q \notin Strays
        PROVE  n \in 0 .. MaxInFlight /\ Len(asked[q]) <= n
    <3>1. /\ Counted(numInFlight[q], Len(asked[q]), writing[q])
          /\ Len(asked[q]) \in Nat /\ writing[q] \in BOOLEAN
      BY <2>2, PipelineBefore DEF PipelineOK
    <3>2. writing[q]
      BY <1>6 DEF WriteReturns
    <3> QED
      BY <3>1, <3>2, CountedBefore
  <2>3. n \in 0 .. CounterModulus - 1
    BY PipelineBefore, WrapInRange
  <2>4. /\ numInFlight' = [numInFlight EXCEPT ![q] = n]
        /\ connection' = connection
        /\ RoundOf(q, n) \/ Rest(q, n)
    BY <1>6 DEF WriteReturns
  <2> HIDE DEF n
  <2> QED
    BY <2>1, <2>2, <2>3, <2>4, RoundKeepsDInv
<1>7. ASSUME NEW q \in Peers, Break(q) PROVE DInv'
  <2>1. PipelineOK(q, "broken", peersBitfield[q], writing[q], numInFlight[q], <<>>)
    BY ForgettingIsOK
  <2>2. PipelineOf(q, "broken", peersBitfield[q], writing[q], numInFlight[q], <<>>)
    BY <1>7, <2>1, PipelineBefore DEF Break, PipelineOf, vars
  <2>3. OthersTyped'
    BY <1>1, <1>7 DEF Break, OthersTyped
  <2> QED
    BY <2>2, <2>3, PipelineKeepsDInv
<1>8. ASSUME NEW q \in Peers, Leave(q) PROVE DInv'
  <2>1. PipelineOK(q, "left", peersBitfield[q], writing[q], numInFlight[q], <<>>)
    BY ForgettingIsOK
  <2>2. PipelineOf(q, "left", peersBitfield[q], writing[q], numInFlight[q], <<>>)
    BY <1>8, <2>1, PipelineBefore DEF Leave, PipelineOf, vars
  <2>3. OthersTyped'
    BY <1>1, <1>8 DEF Leave, OthersTyped
  <2> QED
    BY <2>2, <2>3, PipelineKeepsDInv
<1>9. ASSUME NEW q \in Peers, CleanupAndOpen(q) PROVE DInv'
  <2>1. /\ connection[q] = "left" /\ writing[q] = FALSE /\ asked[q] = <<>>
        /\ Len(asked[q]) = 0
        /\ writing' = writing /\ asked' = asked
        /\ peersBitfield' = [peersBitfield EXCEPT ![q] = {}]
    BY <1>9, PipelineBefore DEF CleanupAndOpen, RemovePeer, PipelineOK
  <2>2. PICK link \in {"up", "closed"}, count \in {0, numInFlight[q]} :
          /\ connection' = [connection EXCEPT ![q] = link]
          /\ numInFlight' = [numInFlight EXCEPT ![q] = count]
          /\ link = "up" => count = 0
    <3>1. CASE opened[q] < MaxOpened
      BY <1>9, <3>1 DEF CleanupAndOpen
    <3>2. CASE ~(opened[q] < MaxOpened)
      BY <1>9, <3>2, PipelineBefore DEF CleanupAndOpen
    <3> QED
      BY <3>1, <3>2
  <2>3. Counted(0, Len(asked[q]), FALSE)
    <3>1. Counted(0, 0, FALSE)
      BY DownloadAssumption DEF Counted, Shown
    <3> QED
      BY <2>1, <3>1
  <2>4. count \in 0 .. CounterModulus - 1
    BY <2>2, PipelineBefore, DownloadAssumption DEF PipelineOK
  <2>5. PipelineOK(q, link, {}, FALSE, count, asked[q])
    BY <2>1, <2>2, <2>3, <2>4, NothingAsked DEF PipelineOK
  <2>6. PipelineOf(q, link, {}, FALSE, count, asked[q])
    BY <2>1, <2>2, <2>5, PipelineBefore DEF PipelineOf
  <2>7. OthersTyped'
    <3>1. opened[q] < MaxOpened => opened[q] + 1 \in 1 .. MaxOpened
      BY <1>1 DEF OthersTyped, MaxOpened
    <3> QED
      BY <1>1, <1>9, <3>1 DEF CleanupAndOpen, OthersTyped
  <2> QED
    BY <2>6, <2>7, PipelineKeepsDInv
<1>10. ASSUME UNCHANGED downloadVars PROVE DInv'
  BY <1>10 DEF downloadVars, vars, connectionVars, DInv, DownloadTypeOK, PipelineNow
<1> QED
  BY <1>2, <1>3, <1>4, <1>5, <1>6, <1>7, <1>8, <1>9, <1>10, AnswerKeepsDInv,
     UnaskedKeepsDInv DEF DownloadNext

\* The invariant of every download.
THEOREM DownloadInductive == DownloadSpec => []DInv
<1>1. IInv /\ AffinityAnnounced /\ DInv /\ [DownloadNext]_downloadVars => DInv'
  BY NextKeepsDInv
<1> QED
  BY <1>1, InitDInv, DrivesPieceManager, Inductive, DownloadAffinityAnnounced, PTL
  DEF DownloadSpec

\* The variables keep their types, num_in_flight_ as wide as it is.
THEOREM DownloadTypeCorrect == DownloadSpec => []DownloadTypeOK
<1>1. DInv => DownloadTypeOK
  BY DEF DInv
<1> QED
  BY <1>1, DownloadInductive, PTL

\* Peers are asked only for what they announced; and a peer that sends no
\* Piece unasked holds MAX_IN_FLIGHT requests at most, all of which are counted
\* but for one that is being written.
THEOREM RequestsAreAnnounced == DownloadSpec => []AsksOnlyAnnounced
BY DInvAsksOnlyAnnounced, DownloadInductive, PTL

-----------------------------------------------------------------------------
\* Wrong bytes, and what happens before there are any.

\* What must not happen before.
StaysGood ==
  /\ HeldBlocksAreGood'
  /\ \A r \in Pieces : pieceState[r] # "NOT_STARTED" => pieceState'[r] # "NOT_STARTED"

LEMMA UntouchedStaysGood ==
  ASSUME HeldBlocksAreGood, UNCHANGED <<buffer, pieceBufferMap, pieceState>>
  PROVE  StaysGood
BY DEF StaysGood, HeldBlocksAreGood, HeldBlocks, PiecesInBuffer

\* A request, or none, whoever asks.
LEMMA SenderStaysGood ==
  ASSUME IInv, HeldBlocksAreGood, NEW q \in Peers, NEW n, RoundOf(q, n) \/ Rest(q, n)
  PROVE  StaysGood
<1>1. CASE Rest(q, n)
  BY <1>1, UntouchedStaysGood DEF Rest, vars
<1>2. CASE RoundOf(q, n)
  <2>1. PICK p \in Pieces : \E b \in Blocks(p) \cup {NoBlock} : Round(q, n, p, b)
    BY <1>2 DEF RoundOf
  <2>2. PICK b \in Blocks(p) \cup {NoBlock} : SelectNextBlock(q, p, b)
    BY <2>1 DEF Round
  <2>3. HeldBlocksAreGood' /\ pieceState'[p] # "NOT_STARTED"
    BY <2>2, SelectNextBlockKeepsGood
  <2>4. \A r \in Pieces : r # p => pieceState'[r] = pieceState[r]
    BY <2>2, SelectNextBlockChooses DEF ChosenPiece, RequestBlock, IInv, TypeOK
  <2> QED
    BY <2>3, <2>4 DEF StaysGood
<1> QED
  BY <1>1, <1>2

\* A Piece whose bytes are all right, or that is refused.
LEMMA PieceStaysGood ==
  ASSUME IInv, HeldBlocksAreGood, ~spoiled', NEW q \in Peers, SomePiece(q)
  PROVE  StaysGood
<1>1. PICK p, first, last, good :
        IsData(first, last, good) /\ HandlePiece(q, p, first, last, good)
  BY DEF SomePiece
<1>2. good = first .. last
  BY <1>1 DEF HandlePiece
<1>3. CASE UNCHANGED vars
  BY <1>3, UntouchedStaysGood DEF vars
<1>4. CASE AddBlock(p, first, last, good)
  <2>1. first \in Int
    BY <1>4, BlocksBounded, BufferAssumption DEF AddBlock, IsValidBlockData, Blocks, Pieces
  <2>2. first \in first .. last
    BY <1>1, <2>1 DEF IsData
  <2> QED
    BY <1>2, <1>4, <2>2, AddBlockKeepsGood DEF StaysGood
<1> QED
  BY <1>1, <1>3, <1>4 DEF HandlePiece

\* A step after which still no wrong bytes were handled keeps what is held
\* good, and starts no piece again.
LEMMA NextStaysGood ==
  ASSUME IInv, HeldBlocksAreGood, ~spoiled', [DownloadNext]_downloadVars
  PROVE  StaysGood
<1>1. ASSUME NEW q \in Peers, Request(q) \/ WriteReturns(q) PROVE StaysGood
  BY <1>1, SenderStaysGood DEF Request, WriteReturns
<1>2. ASSUME NEW q \in Peers, AnswerSome(q) \/ StrayPiece(q) \/ MadeUpPiece(q)
      PROVE  StaysGood
  BY <1>2, AnswerIsPiece, StrayIsPiece, PieceStaysGood
<1>3. ASSUME NEW q \in Peers, CleanupAndOpen(q) \/ BitfieldOf(q) PROVE StaysGood
  BY <1>3, UntouchedStaysGood
  DEF CleanupAndOpen, RemovePeer, BitfieldOf, Bitfield, UpdatePieceFrequencies
<1>4. ASSUME NEW q \in Peers, Unchoke(q) \/ Choke(q) \/ Break(q) \/ Leave(q)
      PROVE  StaysGood
  BY <1>4, UntouchedStaysGood DEF Unchoke, Choke, Break, Leave, vars
<1>5. ASSUME UNCHANGED downloadVars PROVE StaysGood
  BY <1>5, UntouchedStaysGood DEF downloadVars, vars
<1> QED
  BY <1>1, <1>2, <1>3, <1>4, <1>5 DEF DownloadNext

\* Wrong bytes stay on record.
LEMMA SpoiledStays ==
  ASSUME spoiled, [DownloadNext]_downloadVars
  PROVE  spoiled'
<1>1. ASSUME NEW q \in Peers, SomePiece(q) PROVE spoiled'
  BY <1>1 DEF SomePiece, HandlePiece
<1>2. ASSUME NEW q \in Peers, AnswerSome(q) \/ StrayPiece(q) \/ MadeUpPiece(q)
      PROVE  spoiled'
  BY <1>1, <1>2, AnswerIsPiece, StrayIsPiece
<1>3. ASSUME NEW q \in Peers,
             BitfieldOf(q) \/ Unchoke(q) \/ Choke(q) \/ Request(q) \/ WriteReturns(q)
               \/ Break(q) \/ Leave(q) \/ CleanupAndOpen(q)
      PROVE  spoiled'
  BY <1>3 DEF BitfieldOf, Bitfield, Unchoke, Choke, Request, WriteReturns, Break, Leave,
              CleanupAndOpen, connectionVars
<1>4. UNCHANGED downloadVars => spoiled'
  BY DEF downloadVars, connectionVars
<1> QED
  BY <1>2, <1>3, <1>4 DEF DownloadNext

\* Until wrong bytes are handled, every block that counts as HAVE has its bytes.
THEOREM StaysGoodUntilSpoiled == DownloadSpec => []GoodUntilSpoiled
<1>1. DownloadInit => GoodUntilSpoiled
  BY DEF DownloadInit, Init, BufferInit, GoodUntilSpoiled, HeldBlocksAreGood, PiecesInBuffer
<1>2. IInv /\ GoodUntilSpoiled /\ [DownloadNext]_downloadVars => GoodUntilSpoiled'
  BY NextStaysGood, SpoiledStays DEF GoodUntilSpoiled, StaysGood
<1> QED
  BY <1>1, <1>2, DrivesPieceManager, Inductive, PTL DEF DownloadSpec

\* ... and no piece that was started starts again.
THEOREM NoRestartUntilSpoiled == DownloadSpec => RestartsOnlySpoiled
<1>1. IInv /\ GoodUntilSpoiled /\ [DownloadNext]_downloadVars
        => (~spoiled' => \A p \in Pieces : pieceState[p] # "NOT_STARTED" =>
                                             pieceState'[p] # "NOT_STARTED")
  BY NextStaysGood, SpoiledStays DEF GoodUntilSpoiled, StaysGood
<1> QED
  BY <1>1, StaysGoodUntilSpoiled, DrivesPieceManager, Inductive, PTL
  DEF DownloadSpec, RestartsOnlySpoiled

-----------------------------------------------------------------------------
\* What the download makes of its connections.

\* A connection as Connections has it.
Seen == [q \in Peers |-> CASE connection[q] = "broken" -> "up"
                           [] connection[q] = "left" -> "exited"
                           [] OTHER -> connection[q]]

LEMMA InitUsesConnections == DownloadInit => Relied!ConnectionsInit
<1> SUFFICES ASSUME DownloadInit PROVE Relied!ConnectionsInit
  OBVIOUS
<1>1. Seen = [q \in Peers |-> "up"]
  BY DEF DownloadInit, Seen
<1>2. Seen \in [Peers -> {"waiting", "up"}]
  BY <1>1
<1>3. opened = [q \in Peers |-> IF Seen[q] = "up" THEN 1 ELSE 0]
  BY <1>1 DEF DownloadInit
<1>4. {q \in Peers : peersBitfield[q] # {}} = {}
  BY DEF DownloadInit, Init
<1> QED
  BY <1>2, <1>3, <1>4 DEF Relied!ConnectionsInit, Seen

\* What each step of the download is to the connections.
LEMMA NextUsesConnections ==
  ASSUME IInv, DInv, [DownloadNext]_downloadVars
  PROVE  [Relied!ConnectionsNext]_(Relied!connectionsVars)
<1>1. /\ peersBitfield \in [Peers -> SUBSET Pieces]
      /\ connection \in [Peers -> {"up", "broken", "left", "closed"}]
      /\ opened \in [Peers -> 1 .. 2]
  BY DEF IInv, TypeOK, DInv, DownloadTypeOK, MaxOpened
<1> DEFINE registered == {q \in Peers : peersBitfield[q] # {}}
<1>2. ASSUME NEW q \in Peers, BitfieldOf(q) PROVE Relied!Register(q)
  <2>1. PICK bitfield \in (SUBSET Pieces) \ {{}} : Bitfield(q, bitfield)
    BY <1>2 DEF BitfieldOf
  <2>2. /\ connection[q] = "up" /\ UNCHANGED <<connection, opened>>
        /\ peersBitfield' = [peersBitfield EXCEPT ![q] = bitfield]
    BY <2>1 DEF Bitfield, UpdatePieceFrequencies, connectionVars
  <2>3. registered' = registered \cup {q}
    BY <1>1, <2>1, <2>2
  <2>4. Seen[q] = "up" /\ Seen' = Seen
    BY <2>2 DEF Seen
  <2> QED
    BY <2>2, <2>3, <2>4 DEF Relied!Register, Seen
<1>3. ASSUME NEW q \in Peers, Leave(q) PROVE Relied!Exit(q)
  <2>1. /\ connection[q] \in {"up", "broken"}
        /\ connection' = [connection EXCEPT ![q] = "left"]
        /\ UNCHANGED <<opened, peersBitfield>>
    BY <1>3 DEF Leave, Receives, vars
  <2>2. Seen[q] = "up" /\ Seen' = [Seen EXCEPT ![q] = "exited"]
    BY <1>1, <2>1 DEF Seen
  <2> QED
    BY <2>1, <2>2 DEF Relied!Exit, Seen
<1>4. ASSUME NEW q \in Peers, CleanupAndOpen(q)
      PROVE  \E new \in SUBSET Peers : Relied!Turn({q}, new)
  <2> DEFINE reopened == IF opened[q] < 2 THEN {q} ELSE {}
  <2>1. /\ connection[q] = "left"
        /\ connection' = [connection EXCEPT ![q] = IF opened[q] < 2 THEN "up" ELSE "closed"]
        /\ opened' = IF opened[q] < 2 THEN [opened EXCEPT ![q] = @ + 1] ELSE opened
        /\ peersBitfield' = [peersBitfield EXCEPT ![q] = {}]
    BY <1>4 DEF CleanupAndOpen, RemovePeer, MaxOpened
  <2>2. Seen' = [r \in Peers |->
                   IF r \in reopened THEN "up"
                   ELSE IF r \notin {q} THEN Seen[r]
                   ELSE IF opened[r] < 2 THEN "waiting"
                   ELSE "closed"]
    BY <1>1, <2>1 DEF Seen
  <2>3. opened' = [r \in Peers |-> IF r \in reopened THEN opened[r] + 1 ELSE opened[r]]
    BY <1>1, <2>1
  <2>4. registered' = registered \ {q}
    BY <1>1, <2>1
  <2>5. /\ {q} \subseteq {r \in Peers : Seen[r] = "exited"}
        /\ reopened \subseteq {r \in Peers : /\ r \in {q} \/ Seen[r] = "waiting"
                                       /\ opened[r] < 2}
    BY <2>1 DEF Seen
  <2>6. reopened \in SUBSET Peers
    OBVIOUS
  <2>7. Relied!Turn({q}, reopened)
    BY <2>2, <2>3, <2>4, <2>5 DEF Relied!Turn, MaxOpened, Seen
  <2> HIDE DEF reopened
  <2> QED
    BY <2>6, <2>7 DEF Relied!Turn
<1>5. ASSUME NEW q \in Peers, Unchoke(q) \/ Choke(q)
      PROVE  UNCHANGED <<connection, opened, peersBitfield>>
  BY <1>5 DEF Unchoke, Choke, vars
<1>6. ASSUME NEW q \in Peers, Request(q) \/ WriteReturns(q)
      PROVE  UNCHANGED <<connection, opened, peersBitfield>>
  <2>1. ASSUME NEW n, RoundOf(q, n) PROVE UNCHANGED peersBitfield
    BY <2>1 DEF RoundOf, Round, SelectNextBlock, SelectAffinity, SelectNewPiece,
                SelectFromBuffer, RequestBlock
  <2>2. ASSUME NEW n, Rest(q, n) PROVE UNCHANGED peersBitfield
    BY <2>2 DEF Rest, vars
  <2> QED
    BY <1>6, <2>1, <2>2 DEF Request, WriteReturns
<1>7. ASSUME NEW q \in Peers, AnswerSome(q) \/ StrayPiece(q) \/ MadeUpPiece(q)
      PROVE  UNCHANGED <<connection, opened, peersBitfield>>
  <2>1. SomePiece(q)
    BY <1>7, AnswerIsPiece, StrayIsPiece
  <2> QED
    BY <2>1 DEF SomePiece, HandlePiece, AddBlock, vars
<1>8. ASSUME NEW q \in Peers, Break(q)
      PROVE  Seen' = Seen /\ UNCHANGED <<opened, peersBitfield>>
  BY <1>1, <1>8 DEF Break, Seen, vars
<1>9. UNCHANGED downloadVars => UNCHANGED <<connection, opened, peersBitfield>>
  BY DEF downloadVars, vars, connectionVars
<1>10. UNCHANGED <<connection, opened, peersBitfield>>
         => Seen' = Seen /\ UNCHANGED <<opened, peersBitfield>>
  BY DEF Seen
<1>11. Seen' = Seen /\ UNCHANGED <<opened, peersBitfield>>
         => UNCHANGED Relied!connectionsVars
  BY DEF Relied!connectionsVars, Seen
<1> QED
  BY <1>2, <1>3, <1>4, <1>5, <1>6, <1>7, <1>8, <1>9, <1>10, <1>11
  DEF DownloadNext, Relied!ConnectionsNext

\* The connections that drive the download come and go as Connections, which
\* the PeerManager implements, lets them: Leave is its Exit, and
\* CleanupAndOpen one of its turns.
THEOREM DownloadUsesConnections == DownloadSpec => UsesConnections
<1>1. IInv /\ DInv /\ [DownloadNext]_downloadVars
        => [Relied!ConnectionsNext]_(Relied!connectionsVars)
  BY NextUsesConnections
<1> QED
  BY <1>1, InitUsesConnections, DrivesPieceManager, Inductive, DownloadInductive, PTL
  DEF DownloadSpec, UsesConnections, Relied!ConnectionsSpec

=============================================================================
