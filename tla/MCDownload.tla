----------------------------- MODULE MCDownload -----------------------------
(***************************************************************************)
(* Two pieces of two blocks and of one.  What the module takes from the    *)
(* wire, the encodings must give: TLC evaluates that here, for bytes of    *)
(* three bits.                                                             *)
(***************************************************************************)
EXTENDS Download, Wire

MCNumBlocks == [p \in 0 .. 1 |-> 2 - p]

MCProtocol == <<3>>
Hash == <<5>>
Payloads == BoundedSeq(Byte, 2)

\* A bitfield as the protocol lays it out: the first piece is the highest bit.
Encode(pieces, length) ==
  [i \in 1 .. length |->
     MapThenSumSet(LAMBDA j : IF (i - 1) * ByteBits + j \in pieces
                              THEN 2 ^ (ByteBits - 1 - j) ELSE 0,
                   0 .. ByteBits - 1)]

\* Every bitfield arrives as it was meant, spare bits or not, and a payload of
\* any length means some pieces of the torrent: see BitfieldOf.
ASSUME BitfieldsArrive ==
  /\ \A n \in 0 .. 5 : \A pieces \in SUBSET (0 .. 5) :
       GetPeerBitfield(Encode(pieces, 2), n) = pieces \cap (0 .. n - 1)
  /\ {GetPeerBitfield(payload, NumPieces) : payload \in Payloads} = SUBSET Pieces

\* A number is sent with its highest byte first, and read back as it was.
ASSUME NumbersArrive ==
  \A n \in 0 .. 2 ^ (ByteBits * WordBytes) - 1 :
    /\ Put(n) = Reverse(InMemory(n))
    /\ Get(<<0>> \o Put(n), 1) = n

\* What a message says of its length and of a block is what was meant.
ASSUME MessagesArrive ==
  /\ \A payload \in Payloads, type \in Byte :
       GetHeaderLength(ConstructMessage(type, payload)) = 1 + Len(payload)
  /\ \A p, offset, length \in {0, 1, 7, 8, 63} :
       LET payload == RequestPayload(p, offset, length)
       IN /\ PieceIndexAndBlockOffset(payload) = <<p, offset>>
          /\ Get(payload, 2 * WordBytes) = length

\* A response is accepted exactly if it is the handshake of the same torrent,
\* whatever its first byte makes of the rest.
ASSUME HandshakesMatch ==
  \A response \in [1 .. HandshakeLength -> Byte] :
    LET id == ParseHandshakeResponse(response, Hash)
        reserved == SubSeq(response, 2 + Len(Protocol), 1 + Len(Protocol) + Reserved)
    IN IF id = NoId
       THEN \A other \in Byte : response # CreateHandshake(reserved, Hash, <<other>>)
       ELSE response = CreateHandshake(reserved, Hash, id)

=============================================================================
