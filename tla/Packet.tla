------------------------------- MODULE Packet -------------------------------
(***************************************************************************)
(* The packet envelope of pkg/packet/packet.go.  A packet is the sequence  *)
(* of its bytes: version, encoding and type, two bytes of length, data.    *)
(* The number of values of a byte is a parameter (256 in the code), so     *)
(* that the wrap-around of the 16-bit length comes within reach of TLC.    *)
(***************************************************************************)
EXTENDS Integers, Sequences

CONSTANTS
  Base,          \* values of a byte: 256
  PayloadSize    \* PACKET_PAYLOAD_SIZE: 1020

ASSUME PacketAssumption ==
  /\ Base \in Nat /\ Base >= 4 /\ Base % 4 = 0
  /\ PayloadSize \in 1..(Base * Base - 1)

VERSION == 1
HEADER_SIZE == 4

Byte == 0..(Base - 1)
Word == Base * Base           \* uint16 arithmetic is modulo Word
TypeSpan == Base \div 4       \* the encoding is in the top two bits
MAX_TYPE_SIZE == TypeSpan - 1

CreateTypeAndEncodingByte(t, enc) == enc * TypeSpan + t

(* Mutant of PutUint16: little endian. *)
PutUint16Swapped(n) == <<n % Base, (n % Word) \div Base>>

PutUint16(n) == <<(n % Word) \div Base, n % Base>>

(* The two assertions of PacketFromParts, and what it builds. *)
PartsAllowed(t, data) == Len(data) < PayloadSize /\ t < MAX_TYPE_SIZE

PacketFromParts(t, enc, data) ==
  <<VERSION, CreateTypeAndEncodingByte(t, enc)>> \o PutUint16(Len(data)) \o data

(* NewPacket fills a buffer of the maximal size; Into writes the used part. *)
EncoderAllowed(t, data) == Len(data) # PayloadSize /\ t =< MAX_TYPE_SIZE

NewPacket(t, enc, data) ==
  [data |-> <<VERSION, CreateTypeAndEncodingByte(t, enc)>> \o PutUint16(Len(data))
            \o [i \in 1..PayloadSize |-> IF i =< Len(data) THEN data[i] ELSE 0],
   len |-> Len(data) + HEADER_SIZE]

Into(p) == SubSeq(p.data, 1, p.len)

getPacketLength(data) == data[3] * Base + data[4]

(* The assertions of PacketFromBytes; data[0] of no bytes is a panic. *)
PacketFromBytesOK(data) ==
  /\ Len(data) > 0
  /\ data[1] = VERSION
  /\ Len(data) >= HEADER_SIZE
  /\ Len(data) - HEADER_SIZE = getPacketLength(data)

(* The accessors. *)
Type(p) == p[2] % TypeSpan
Encoding(p) == p[2] \div TypeSpan
Data(p) == SubSeq(p, HEADER_SIZE + 1, Len(p))

(***************************************************************************)
(* The auth response carries a flag and the id of the game server.         *)
(***************************************************************************)
PacketServerAuthResponse == 3
EncodingBytes == 2

CreateServerAuthResponse(accepted, id) ==
  PacketFromParts(PacketServerAuthResponse, EncodingBytes,
                  <<IF accepted THEN 1 ELSE 0>> \o id)

ServerAuthGameId(p) == SubSeq(p, HEADER_SIZE + 2, Len(p))
=============================================================================
