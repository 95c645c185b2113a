----------------------------- MODULE PacketCodec -----------------------------
(***************************************************************************)
(* What a packet says is what its creator put in: a sender builds a packet *)
(* in one of the three ways of packet.go, the bytes travel, and a receiver *)
(* takes them apart with PacketFromBytes and the accessors.                *)
(***************************************************************************)
EXTENDS Packet

CONSTANT Datas   \* the data a sender may have: any sequences of bytes

ASSUME CodecAssumption == Datas \subseteq Seq(Byte)

Parts == [t : 0..MAX_TYPE_SIZE, enc : 0..3, data : Datas]

VARIABLES
  parts,   \* what the sender wants to say
  bytes,   \* what it writes
  parsed   \* what the receiver reads off: a record of parts, or an id
vars == <<parts, bytes, parsed>>

Nothing == <<>>

Init == parts \in Parts /\ bytes = Nothing /\ parsed = Nothing

BuildFromParts ==
  /\ bytes = Nothing
  /\ PartsAllowed(parts.t, parts.data)
  /\ bytes' = PacketFromParts(parts.t, parts.enc, parts.data)
  /\ UNCHANGED <<parts, parsed>>

BuildFromEncoder ==
  /\ bytes = Nothing
  /\ Len(parts.data) =< PayloadSize    \* the buffer handed to the encoder
  /\ EncoderAllowed(parts.t, parts.data)
  /\ bytes' = Into(NewPacket(parts.t, parts.enc, parts.data))
  /\ UNCHANGED <<parts, parsed>>

(* The auth response has a type and an encoding of its own. *)
BuildAuthResponse ==
  /\ bytes = Nothing
  /\ PartsAllowed(PacketServerAuthResponse, <<1>> \o parts.data)
  /\ \E accepted \in BOOLEAN :
       /\ bytes' = CreateServerAuthResponse(accepted, parts.data)
       /\ parts' = [t |-> PacketServerAuthResponse, enc |-> EncodingBytes,
                    data |-> <<IF accepted THEN 1 ELSE 0>> \o parts.data]
  /\ UNCHANGED parsed

Parse ==
  /\ bytes # Nothing /\ parsed = Nothing
  /\ PacketFromBytesOK(bytes)
  /\ parsed' = [t |-> Type(bytes), enc |-> Encoding(bytes), data |-> Data(bytes)]
  /\ UNCHANGED <<parts, bytes>>

Next == BuildFromParts \/ BuildFromEncoder \/ BuildAuthResponse \/ Parse

Spec == Init /\ [][Next]_vars

-----------------------------------------------------------------------------
(***************************************************************************)
(* Every packet that can be built passes the assertions of PacketFromBytes *)
(* and is read back as it was meant, id of the game server included.       *)
(***************************************************************************)
RoundTrip ==
  /\ bytes # Nothing => PacketFromBytesOK(bytes)
  /\ parsed # Nothing =>
       /\ parsed = parts
       /\ parsed.t = PacketServerAuthResponse /\ Len(parsed.data) > 0 =>
            ServerAuthGameId(bytes) = Tail(parts.data)
=============================================================================
