-------------------------------- MODULE Wire --------------------------------
(***************************************************************************)
(* message_util: how the numbers, bitfields and handshakes of the peer     *)
(* protocol are laid out in bytes.  Nothing is kept between calls, so      *)
(* these are operators; their sizes are parameters.                        *)
(***************************************************************************)
EXTENDS Integers, SequencesExt

CONSTANTS
  ByteBits,   \* 8
  WordBytes,  \* sizeof(uint32_t): 4
  Protocol,   \* protocol_identifier, as bytes
  Reserved,   \* how many reserved bytes a handshake has: 8
  HashBytes,  \* and of how many a hash and a peer id consist: 20
  IdBytes

ASSUME WireAssumption ==
  /\ {ByteBits, WordBytes, HashBytes, IdBytes} \subseteq Nat \ {0}
  /\ Reserved \in Nat
  /\ Protocol \in Seq(0 .. 2 ^ ByteBits - 1)
  /\ Len(Protocol) < 2 ^ ByteBits

Byte == 0 .. 2 ^ ByteBits - 1

\* A uint32_t in the memory of a little-endian machine, and back.
InMemory(n) == [i \in 1 .. WordBytes |-> (n \div 2 ^ (ByteBits * (i - 1))) % 2 ^ ByteBits]
FromMemory(bytes) == FoldRight(LAMBDA b, n : b + 2 ^ ByteBits * n, bytes, 0)

\* convert_bo reverses the bytes.
ConvertBo(n) == FromMemory(Reverse(InMemory(n)))

\* memcpy of a converted number into a message, and out of one.
Put(n) == InMemory(ConvertBo(n))
Get(bytes, at) == ConvertBo(FromMemory(SubSeq(bytes, at + 1, at + WordBytes)))

ConstructMessage(type, payload) == Put(Len(payload) + 1) \o <<type>> \o payload

RequestPayload(pieceIndex, blockOffset, blockLength) ==
  Put(pieceIndex) \o Put(blockOffset) \o Put(blockLength)

GetHeaderLength(header) == Get(header, 0)

PieceIndexAndBlockOffset(payload) == <<Get(payload, 0), Get(payload, WordBytes)>>

\* payload[i] & (0x80 >> j)
HasBit(byte, j) == (byte \div 2 ^ (ByteBits - 1 - j)) % 2 = 1

\* The pieces of a bitfield.  Bits beyond the last piece are skipped, and
\* pieces beyond the last bit are not there.
GetPeerBitfield(payload, numPieces) ==
  {p \in 0 .. numPieces - 1 :
     LET i == p \div ByteBits
     IN i < Len(payload) /\ HasBit(payload[i + 1], p % ByteBits)}

CreateHandshake(reserved, infoHash, ourId) ==
  <<Len(Protocol)>> \o Protocol \o reserved \o infoHash \o ourId

HandshakeLength == 1 + Len(Protocol) + Reserved + HashBytes + IdBytes

NoId == <<>>

\* parse_handshake_response: the id of the peer, or nullopt.  The length of
\* the name is whatever the first byte says, and only the name fixes it.
ParseHandshakeResponse(response, infoHash) ==
  LET nameEnd == 1 + response[1]
      hashAt == nameEnd + Reserved
      idAt == hashAt + HashBytes
  IN IF \/ nameEnd > Len(response)
        \/ SubSeq(response, 2, nameEnd) # Protocol
        \/ SubSeq(response, hashAt + 1, idAt) # infoHash
     THEN NoId
     ELSE SubSeq(response, idAt + 1, idAt + IdBytes)

=============================================================================
