-------------------------- MODULE PacketCodecProofs --------------------------
(***************************************************************************)
(* Proofs about PacketCodec, for any base, any payload size and any data:  *)
(* a packet built in any of the three ways is read back as it was meant.   *)
(***************************************************************************)
EXTENDS PacketCodec, SequenceTheorems, TLAPS

-----------------------------------------------------------------------------
(***************************************************************************)
(* The arithmetic of the header.                                           *)
(***************************************************************************)

(* A byte is a number; two bits of encoding and a type fill a byte. *)
LEMMA ConstantTypes ==
  /\ Base \in Nat \ {0} /\ Word \in Nat \ {0} /\ Base =< Word
  /\ Byte \subseteq Nat /\ 0 \in Byte /\ VERSION \in Byte
  /\ TypeSpan \in Nat \ {0} /\ Base = 4 * TypeSpan
  /\ PayloadSize \in Nat \ {0} /\ PayloadSize < Word
<1>1. Base \in Nat /\ Base >= 4 /\ Base % 4 = 0
  BY PacketAssumption
<1>2. Base * Base \in Nat \ {0} /\ Base =< Base * Base
  BY <1>1
<1>3. Base \div 4 \in Nat \ {0} /\ Base = 4 * (Base \div 4)
  BY <1>1
<1>4. PayloadSize \in Nat \ {0} /\ PayloadSize < Base * Base
  BY <1>2, PacketAssumption
<1> QED BY <1>1, <1>2, <1>3, <1>4 DEF Word, Byte, VERSION, TypeSpan

(* Type and encoding can be told apart. *)
LEMMA TypeAndEncoding ==
  ASSUME NEW t \in 0..MAX_TYPE_SIZE, NEW enc \in 0..3
  PROVE  /\ CreateTypeAndEncodingByte(t, enc) \in Byte
         /\ CreateTypeAndEncodingByte(t, enc) % TypeSpan = t
         /\ CreateTypeAndEncodingByte(t, enc) \div TypeSpan = enc
<1> DEFINE w == TypeSpan
           b == CreateTypeAndEncodingByte(t, enc)
<1>1. w \in Nat \ {0} /\ Base = 4 * w /\ t \in 0..w - 1
  BY ConstantTypes DEF MAX_TYPE_SIZE
<1>2. b = enc * w + t
  BY DEF CreateTypeAndEncodingByte
<1>3. enc = 0 \/ enc = 1 \/ enc = 2 \/ enc = 3
  OBVIOUS
<1> HIDE DEF w, b
<1>4. b \in 0..4 * w - 1 /\ b % w = t /\ b \div w = enc
  BY <1>1, <1>2, <1>3
<1> QED BY <1>1, <1>4 DEF Byte, w, b

(* Two bytes hold any length below the size of a word. *)
LEMMA LengthBytes ==
  ASSUME NEW n \in 0..Word - 1
  PROVE  /\ PutUint16(n) \in Seq(Byte) /\ Len(PutUint16(n)) = 2
         /\ PutUint16(n)[1] * Base + PutUint16(n)[2] = n
<1> DEFINE q == n \div Base
           r == n % Base
<1>1. Base \in Nat \ {0} /\ Word \in Nat /\ n \in Nat /\ n < Word
  BY ConstantTypes
<1>2. n % Word = n
  BY <1>1
<1>3. q \in Nat /\ r \in 0..Base - 1 /\ n = q * Base + r
  BY <1>1
<1> HIDE DEF q, r
<1>4. q < Base
  <2>1. n < Base * Base
    BY <1>1 DEF Word
  <2> SUFFICES ASSUME q >= Base PROVE FALSE
    BY <1>1, <1>3
  <2>2. q * Base >= Base * Base
    BY <1>1, <1>3
  <2> QED BY <2>1, <2>2, <1>1, <1>3
<1>5. PutUint16(n) = <<q, r>>
  BY <1>2 DEF PutUint16, q, r
<1>6. q \in Byte /\ r \in Byte
  BY <1>1, <1>3, <1>4 DEF Byte
<1>7. <<q, r>> \in Seq(Byte) /\ Len(<<q, r>>) = 2
      /\ <<q, r>>[1] = q /\ <<q, r>>[2] = r
  BY <1>6
<1> QED BY <1>3, <1>5, <1>7

-----------------------------------------------------------------------------
(***************************************************************************)
(* Building a packet.                                                      *)
(***************************************************************************)

(* A function from 1..n is a sequence of length n. *)
LEMMA FunctionIsSeq ==
  ASSUME NEW S, NEW n \in Nat, NEW f \in [1..n -> S]
  PROVE  f \in Seq(S) /\ Len(f) = n
<1>1. f \in Seq(S)
  BY SeqDef
<1>2. Len(f) \in Nat /\ DOMAIN f = 1..Len(f) /\ DOMAIN f = 1..n
  BY <1>1, LenProperties
<1> QED BY <1>1, <1>2

(* What a first part of a sequence holds. *)
LEMMA Front ==
  ASSUME NEW S, NEW s \in Seq(S), NEW n \in 0..Len(s)
  PROVE  /\ SubSeq(s, 1, n) \in Seq(S) /\ Len(SubSeq(s, 1, n)) = n
         /\ \A i \in 1..n : SubSeq(s, 1, n)[i] = s[i]
<1>1. Len(s) \in Nat /\ \A i \in 1..n : s[i] \in S
  BY LenProperties, ElementOfSeq
<1> QED BY <1>1, SubSeqProperties

(* What is left of a sequence behind a first part. *)
LEMMA Cut ==
  ASSUME NEW S, NEW s \in Seq(S), NEW m \in Nat, m =< Len(s)
  PROVE  /\ SubSeq(s, m + 1, Len(s)) \in Seq(S)
         /\ Len(SubSeq(s, m + 1, Len(s))) = Len(s) - m
         /\ \A i \in 1..Len(s) - m : SubSeq(s, m + 1, Len(s))[i] = s[m + i]
<1> DEFINE n == Len(s)
<1>1. n \in Nat /\ m =< n /\ \A i \in m + 1..n : s[i] \in S
  BY LenProperties, ElementOfSeq
<1>2. /\ SubSeq(s, m + 1, n) \in Seq(S)
      /\ Len(SubSeq(s, m + 1, n)) = IF m + 1 =< n THEN n - (m + 1) + 1 ELSE 0
      /\ \A i \in 1..n - (m + 1) + 1 : SubSeq(s, m + 1, n)[i] = s[m + 1 + i - 1]
  BY <1>1, SubSeqProperties
<1>3. \A i \in 1..n - m : SubSeq(s, m + 1, n)[i] = s[m + i]
  BY <1>1, <1>2
<1>4. Len(SubSeq(s, m + 1, n)) = n - m
  BY <1>1, <1>2
<1> QED BY <1>2, <1>3, <1>4

(* What p says: the parts m, in the layout of the envelope. *)
Encodes(p, m) ==
  /\ p \in Seq(Byte) /\ Len(p) = Len(m.data) + HEADER_SIZE
  /\ p[1] = VERSION
  /\ p[2] = CreateTypeAndEncodingByte(m.t, m.enc)
  /\ getPacketLength(p) = Len(m.data)
  /\ \A i \in 1..Len(m.data) : p[i + HEADER_SIZE] = m.data[i]

AnyParts == [t : 0..MAX_TYPE_SIZE, enc : 0..3, data : Seq(Byte)]

Header(t, enc, n) ==
  <<VERSION, CreateTypeAndEncodingByte(t, enc)>> \o PutUint16(n)

(* The header is four bytes long. *)
LEMMA HeaderBytes ==
  ASSUME NEW t \in 0..MAX_TYPE_SIZE, NEW enc \in 0..3, NEW n \in 0..Word - 1
  PROVE  /\ Header(t, enc, n) \in Seq(Byte)
         /\ Len(Header(t, enc, n)) = 4
         /\ Header(t, enc, n)[1] = VERSION
         /\ Header(t, enc, n)[2] = CreateTypeAndEncodingByte(t, enc)
         /\ Header(t, enc, n)[3] * Base + Header(t, enc, n)[4] = n
<1> DEFINE b == CreateTypeAndEncodingByte(t, enc)
           u == <<VERSION, b>>
           v == PutUint16(n)
           h == u \o v
<1>1. b \in Byte /\ VERSION \in Byte
  BY TypeAndEncoding, ConstantTypes
<1>2. v \in Seq(Byte) /\ Len(v) = 2 /\ v[1] * Base + v[2] = n
  BY LengthBytes
<1> HIDE DEF b, v
<1>3. u \in Seq(Byte) /\ Len(u) = 2 /\ u[1] = VERSION /\ u[2] = b
  BY <1>1
<1> HIDE DEF u
<1>4. /\ h \in Seq(Byte) /\ Len(h) = Len(u) + Len(v)
      /\ \A i \in 1..Len(u) + Len(v) :
           h[i] = IF i =< Len(u) THEN u[i] ELSE v[i - Len(u)]
  BY <1>2, <1>3, ConcatProperties
<1>5. Len(h) = 4 /\ \A i \in 1..4 : h[i] = IF i =< 2 THEN u[i] ELSE v[i - 2]
  BY <1>2, <1>3, <1>4
<1>6. h = Header(t, enc, n)
  BY DEF Header, u, v, b
<1> HIDE DEF h
<1>7. h[1] = u[1] /\ h[2] = u[2] /\ h[3] = v[1] /\ h[4] = v[2]
  BY <1>5
<1> QED BY <1>2, <1>3, <1>4, <1>5, <1>6, <1>7 DEF b

(* What follows a header stays as it is. *)
LEMMA Behind ==
  ASSUME NEW h \in Seq(Byte), Len(h) = 4, NEW d \in Seq(Byte)
  PROVE  /\ h \o d \in Seq(Byte) /\ Len(h \o d) = Len(d) + 4
         /\ \A i \in 1..4 : (h \o d)[i] = h[i]
         /\ \A i \in 1..Len(d) : (h \o d)[i + 4] = d[i]
<1> DEFINE p == h \o d
           l == Len(d)
<1>1. /\ p \in Seq(Byte) /\ Len(p) = Len(h) + Len(d)
      /\ \A i \in 1..Len(h) + Len(d) :
           p[i] = IF i =< Len(h) THEN h[i] ELSE d[i - Len(h)]
  BY ConcatProperties
<1>2. /\ l \in Nat /\ Len(p) = 4 + l
      /\ \A i \in 1..4 + l : p[i] = IF i =< 4 THEN h[i] ELSE d[i - 4]
  BY <1>1, LenProperties
<1>3. p \in Seq(Byte)
  BY <1>1
<1> HIDE DEF p, l
<1>4. \A i \in 1..4 : p[i] = h[i]
  BY <1>2
<1>5. \A i \in 1..l : p[i + 4] = d[i]
  BY <1>2
<1>6. Len(p) = l + 4
  BY <1>2
<1> QED BY <1>3, <1>4, <1>5, <1>6 DEF p, l

(* A packet whose length is the one its header says encodes its parts. *)
LEMMA Layout ==
  ASSUME NEW m \in AnyParts, Len(m.data) < Word, NEW p \in Seq(Byte),
         Len(p) = Len(m.data) + 4,
         \A i \in 1..4 : p[i] = Header(m.t, m.enc, Len(m.data))[i],
         \A i \in 1..Len(m.data) : p[i + 4] = m.data[i]
  PROVE  Encodes(p, m)
<1> DEFINE h == Header(m.t, m.enc, Len(m.data))
<1>1. m.t \in 0..MAX_TYPE_SIZE /\ m.enc \in 0..3 /\ m.data \in Seq(Byte)
  BY DEF AnyParts
<1>2. Len(m.data) \in 0..Word - 1
  BY <1>1, LenProperties, ConstantTypes
<1>3. /\ h[1] = VERSION /\ h[2] = CreateTypeAndEncodingByte(m.t, m.enc)
      /\ h[3] * Base + h[4] = Len(m.data)
  BY <1>1, <1>2, HeaderBytes
<1>4. p[1] = h[1] /\ p[2] = h[2] /\ p[3] = h[3] /\ p[4] = h[4]
  OBVIOUS
<1> HIDE DEF h
<1>5. getPacketLength(p) = Len(m.data)
  BY <1>3, <1>4 DEF getPacketLength
<1> QED BY <1>3, <1>4, <1>5 DEF Encodes, HEADER_SIZE

(* PacketFromParts builds what its arguments say. *)
LEMMA FromParts ==
  ASSUME NEW m \in AnyParts, Len(m.data) < Word
  PROVE  Encodes(PacketFromParts(m.t, m.enc, m.data), m)
<1> DEFINE h == Header(m.t, m.enc, Len(m.data))
           p == PacketFromParts(m.t, m.enc, m.data)
<1>1. m.t \in 0..MAX_TYPE_SIZE /\ m.enc \in 0..3 /\ m.data \in Seq(Byte)
  BY DEF AnyParts
<1>2. Len(m.data) \in 0..Word - 1
  BY <1>1, LenProperties, ConstantTypes
<1>3. h \in Seq(Byte) /\ Len(h) = 4
  BY <1>1, <1>2, HeaderBytes
<1>4. p = h \o m.data
  BY DEF PacketFromParts, Header
<1> HIDE DEF p, h
<1>5. /\ p \in Seq(Byte) /\ Len(p) = Len(m.data) + 4
      /\ \A i \in 1..4 : p[i] = h[i]
      /\ \A i \in 1..Len(m.data) : p[i + 4] = m.data[i]
  BY <1>1, <1>3, <1>4, Behind
<1> QED BY <1>5, Layout DEF p, h

(* So does the part of an encoder's buffer that Into writes. *)
LEMMA FromEncoder ==
  ASSUME NEW m \in AnyParts, Len(m.data) =< PayloadSize
  PROVE  Encodes(Into(NewPacket(m.t, m.enc, m.data)), m)
<1> DEFINE n == Len(m.data)
           h == Header(m.t, m.enc, n)
           d == [i \in 1..PayloadSize |-> IF i =< n THEN m.data[i] ELSE 0]
           q == h \o d
           p == Into(NewPacket(m.t, m.enc, m.data))
<1>1. m.t \in 0..MAX_TYPE_SIZE /\ m.enc \in 0..3 /\ m.data \in Seq(Byte)
  BY DEF AnyParts
<1>2. /\ n \in Nat /\ n \in 0..Word - 1 /\ PayloadSize \in Nat
      /\ \A i \in 1..n : m.data[i] \in Byte
  BY <1>1, LenProperties, ElementOfSeq, ConstantTypes
<1>3. h \in Seq(Byte) /\ Len(h) = 4
  BY <1>1, <1>2, HeaderBytes
<1>4. d \in Seq(Byte) /\ Len(d) = PayloadSize
  <2>1. d \in [1..PayloadSize -> Byte]
    BY <1>2, ConstantTypes
  <2> HIDE DEF d
  <2> QED BY <2>1, <1>2, FunctionIsSeq
<1>5. \A i \in 1..n : d[i] = m.data[i]
  BY <1>2
<1>6. p = SubSeq(q, 1, n + 4)
  BY DEF NewPacket, Into, Header, HEADER_SIZE
<1> HIDE DEF p, h, d
<1>7. /\ q \in Seq(Byte) /\ Len(q) = PayloadSize + 4
      /\ \A i \in 1..4 : q[i] = h[i]
      /\ \A i \in 1..PayloadSize : q[i + 4] = d[i]
  BY <1>3, <1>4, Behind
<1> HIDE DEF q, n
<1>8. /\ p \in Seq(Byte) /\ Len(p) = n + 4
      /\ \A i \in 1..n + 4 : p[i] = q[i]
  <2>1. n + 4 \in 0..Len(q)
    BY <1>2, <1>7 DEF n
  <2> QED BY <2>1, <1>6, <1>7, Front
<1>9. \A i \in 1..4 : p[i] = h[i]
  BY <1>2, <1>7, <1>8
<1>10. ASSUME NEW i \in 1..n PROVE p[i + 4] = m.data[i]
  <2>1. i + 4 \in 1..n + 4 /\ i \in 1..PayloadSize
    BY <1>2 DEF n
  <2> QED BY <2>1, <1>5, <1>7, <1>8
<1>11. n < Word
  BY <1>2, ConstantTypes
<1> QED BY <1>8, <1>9, <1>10, <1>11, Layout DEF p, h, n

-----------------------------------------------------------------------------
(***************************************************************************)
(* Taking a packet apart.                                                  *)
(***************************************************************************)

(* The assertions of PacketFromBytes hold, and the accessors agree. *)
LEMMA ReadBack ==
  ASSUME NEW m \in AnyParts, NEW p, Encodes(p, m)
  PROVE  /\ PacketFromBytesOK(p)
         /\ Type(p) = m.t /\ Encoding(p) = m.enc /\ Data(p) = m.data
         /\ Len(m.data) > 0 => ServerAuthGameId(p) = Tail(m.data)
<1> DEFINE d == m.data
           l == Len(d)
<1>1. m.t \in 0..MAX_TYPE_SIZE /\ m.enc \in 0..3 /\ d \in Seq(Byte)
  BY DEF AnyParts
<1>2. /\ p \in Seq(Byte) /\ l \in Nat /\ Len(p) = l + 4
      /\ p[1] = VERSION
      /\ p[2] = CreateTypeAndEncodingByte(m.t, m.enc)
      /\ getPacketLength(p) = l
      /\ \A i \in 1..l : p[i + 4] = d[i]
  BY <1>1, LenProperties DEF Encodes, HEADER_SIZE
<1>3. Type(p) = m.t /\ Encoding(p) = m.enc
  BY <1>1, <1>2, TypeAndEncoding DEF Type, Encoding
<1> HIDE DEF d, l
<1>4. PacketFromBytesOK(p)
  BY <1>2 DEF PacketFromBytesOK, HEADER_SIZE
<1>5. Data(p) = d
  <2> DEFINE q == SubSeq(p, 4 + 1, Len(p))
  <2>1. /\ q \in Seq(Byte) /\ Len(q) = l
        /\ \A i \in 1..l : q[i] = p[4 + i]
    BY <1>2, Cut
  <2>2. Data(p) = q
    BY DEF Data, HEADER_SIZE
  <2> HIDE DEF q
  <2>3. \A i \in 1..l : q[i] = d[i]
    BY <1>2, <2>1
  <2>4. q = d
    BY <1>1, <2>1, <2>3, SeqEqual DEF l
  <2> QED BY <2>2, <2>4
<1>6. l > 0 => ServerAuthGameId(p) = Tail(d)
  <2> SUFFICES ASSUME l > 0 PROVE ServerAuthGameId(p) = Tail(d)
    OBVIOUS
  <2> DEFINE q == SubSeq(p, 5 + 1, Len(p))
             t == Tail(d)
  <2>1. /\ q \in Seq(Byte) /\ Len(q) = l - 1
        /\ \A i \in 1..l - 1 : q[i] = p[5 + i]
    BY <1>2, Cut
  <2>2. /\ t \in Seq(Byte) /\ Len(t) = l - 1
        /\ \A i \in 1..l - 1 : t[i] = d[i + 1]
    BY <1>1, <1>2, HeadTailProperties DEF l
  <2>3. ServerAuthGameId(p) = q
    BY DEF ServerAuthGameId, HEADER_SIZE
  <2> HIDE DEF q, t
  <2>4. ASSUME NEW i \in 1..l - 1 PROVE q[i] = t[i]
    <3>1. i + 1 \in 1..l /\ 5 + i = (i + 1) + 4
      BY <1>2
    <3> QED BY <3>1, <1>2, <2>1, <2>2
  <2>5. q = t
    BY <2>1, <2>2, <2>4, SeqEqual
  <2> QED BY <2>3, <2>5 DEF t
<1> QED BY <1>3, <1>4, <1>5, <1>6 DEF d, l

(***************************************************************************)
(* Every packet that the assertions of PacketFromParts let through is one  *)
(* that a framer takes for a packet, with a length that stays within the   *)
(* word it is counted in: what PacketFramerProofs calls well-formed.       *)
(***************************************************************************)
THEOREM PacketsAreWellFormed ==
  ASSUME NEW t \in Nat, NEW enc \in 0..3, NEW data \in Seq(Byte),
         PartsAllowed(t, data), PayloadSize + HEADER_SIZE =< Word
  PROVE  LET p == PacketFromParts(t, enc, data)
         IN  p \in Seq(Byte) /\ PacketFromBytesOK(p) /\ Len(p) < Word
<1> DEFINE m == [t |-> t, enc |-> enc, data |-> data]
           p == PacketFromParts(t, enc, data)
<1>1. /\ Len(data) \in Nat /\ Len(data) < PayloadSize /\ t < MAX_TYPE_SIZE
      /\ PayloadSize \in Nat /\ Word \in Nat /\ MAX_TYPE_SIZE \in Int
      /\ PayloadSize + 4 =< Word
  BY LenProperties, ConstantTypes
     DEF PartsAllowed, MAX_TYPE_SIZE, HEADER_SIZE
<1>2. m \in AnyParts /\ m.t = t /\ m.enc = enc /\ m.data = data
  BY <1>1 DEF AnyParts
<1>3. Len(m.data) < Word
  BY <1>1, <1>2
<1> HIDE DEF m
<1>4. Encodes(p, m)
  BY <1>2, <1>3, FromParts
<1>5. PacketFromBytesOK(p)
  BY <1>2, <1>4, ReadBack
<1>6. p \in Seq(Byte) /\ Len(p) = Len(data) + 4
  BY <1>2, <1>4 DEF Encodes, HEADER_SIZE
<1>7. Len(p) < Word
  BY <1>1, <1>6
<1> QED BY <1>5, <1>6, <1>7

-----------------------------------------------------------------------------
(***************************************************************************)
(* The inductive invariant: there are bytes before they are parsed, they   *)
(* encode the parts, and what was parsed off them is the parts.            *)
(***************************************************************************)
IInv ==
  /\ parts \in AnyParts
  /\ bytes # Nothing => Encodes(bytes, parts)
  /\ parsed # Nothing => bytes # Nothing /\ parsed = parts

(* The sender may want to say anything of the right type. *)
LEMMA InitIInv ==
  Init => IInv
<1> SUFFICES ASSUME Init PROVE IInv
  OBVIOUS
<1>1. Datas \subseteq Seq(Byte)
  BY CodecAssumption
<1>2. parts \in AnyParts
  BY <1>1 DEF Init, Parts, AnyParts
<1> QED BY <1>2 DEF Init, IInv

(* Each of the three ways to build a packet encodes the parts. *)
LEMMA BuildIInv ==
  ASSUME IInv, BuildFromParts \/ BuildFromEncoder \/ BuildAuthResponse
  PROVE  IInv'
<1>1. parts \in AnyParts /\ bytes = Nothing /\ parsed = Nothing
      /\ parsed' = Nothing
  BY DEF IInv, BuildFromParts, BuildFromEncoder, BuildAuthResponse
<1>2. PayloadSize \in Nat /\ Word \in Nat /\ PayloadSize < Word
  BY ConstantTypes
<1> SUFFICES parts' \in AnyParts /\ Encodes(bytes', parts')
  BY <1>1 DEF IInv, Encodes
<1>3. CASE BuildFromParts
  <2>1. Len(parts.data) \in Nat /\ Len(parts.data) < PayloadSize
    BY <1>1, <1>3, LenProperties DEF BuildFromParts, PartsAllowed, AnyParts
  <2>2. Len(parts.data) < Word
    BY <2>1, <1>2
  <2> QED BY <1>1, <1>3, <2>2, FromParts DEF BuildFromParts
<1>4. CASE BuildFromEncoder
  BY <1>1, <1>4, FromEncoder DEF BuildFromEncoder
<1>5. CASE BuildAuthResponse
  <2>1. PICK accepted \in BOOLEAN :
          /\ bytes' = CreateServerAuthResponse(accepted, parts.data)
          /\ parts' = [t |-> PacketServerAuthResponse, enc |-> EncodingBytes,
                       data |-> <<IF accepted THEN 1 ELSE 0>> \o parts.data]
    BY <1>5 DEF BuildAuthResponse
  <2> DEFINE f == IF accepted THEN 1 ELSE 0
             d == <<f>> \o parts.data
             e == <<1>> \o parts.data
  <2>2. parts.data \in Seq(Byte) /\ Len(parts.data) \in Nat
    BY <1>1, LenProperties DEF AnyParts
  <2>3. f \in Byte /\ 1 \in Byte
    BY ConstantTypes DEF VERSION
  <2>4. <<f>> \in Seq(Byte) /\ <<1>> \in Seq(Byte)
        /\ Len(<<f>>) = 1 /\ Len(<<1>>) = 1
    BY <2>3
  <2>5. /\ d \in Seq(Byte) /\ Len(d) = 1 + Len(parts.data)
        /\ Len(e) = 1 + Len(parts.data)
    BY <2>2, <2>4, ConcatProperties
  <2>6. Len(e) < PayloadSize /\ 3 < MAX_TYPE_SIZE
    BY <1>5 DEF BuildAuthResponse, PartsAllowed, PacketServerAuthResponse
  <2> HIDE DEF d, e
  <2>7. Len(d) < Word
    BY <2>2, <2>5, <2>6, <1>2
  <2>8. MAX_TYPE_SIZE \in Int
    BY ConstantTypes DEF MAX_TYPE_SIZE
  <2>9. /\ parts' \in AnyParts
        /\ parts'.t = PacketServerAuthResponse
        /\ parts'.enc = EncodingBytes /\ parts'.data = d
    BY <2>1, <2>5, <2>6, <2>8
       DEF AnyParts, PacketServerAuthResponse, EncodingBytes, d
  <2>10. bytes' = PacketFromParts(parts'.t, parts'.enc, parts'.data)
    BY <2>1, <2>9 DEF CreateServerAuthResponse, d
  <2>11. Len(parts'.data) < Word
    BY <2>7, <2>9
  <2> QED BY <2>9, <2>10, <2>11, FromParts
<1> QED BY <1>3, <1>4, <1>5

(* What is parsed is the parts. *)
LEMMA ParseIInv ==
  ASSUME IInv, Parse
  PROVE  IInv'
<1>1. /\ parts \in AnyParts /\ Encodes(bytes, parts) /\ bytes # Nothing
      /\ parsed' = [t |-> Type(bytes), enc |-> Encoding(bytes),
                    data |-> Data(bytes)]
      /\ bytes' = bytes /\ parts' = parts
  BY DEF IInv, Parse
<1>2. /\ Type(bytes) = parts.t /\ Encoding(bytes) = parts.enc
      /\ Data(bytes) = parts.data
  BY <1>1, ReadBack
<1>3. parsed' = parts
  BY <1>1, <1>2 DEF AnyParts
<1> QED BY <1>1, <1>3 DEF IInv

(***************************************************************************)
(* Whatever is built and parsed, the bytes encode the parts.               *)
(***************************************************************************)
THEOREM Invariance ==
  Spec => []IInv
<1>1. Init => IInv
  BY InitIInv
<1>2. IInv /\ [Next]_vars => IInv'
  <2> SUFFICES ASSUME IInv, [Next]_vars PROVE IInv'
    OBVIOUS
  <2>1. CASE UNCHANGED vars
    BY <2>1 DEF IInv, vars
  <2>2. CASE Next
    BY <2>2, BuildIInv, ParseIInv DEF Next
  <2> QED BY <2>1, <2>2
<1> QED BY <1>1, <1>2, PTL DEF Spec

(* The invariant gives the property. *)
LEMMA RoundTripFromInv ==
  IInv => RoundTrip
<1> SUFFICES ASSUME IInv PROVE RoundTrip
  OBVIOUS
<1>1. bytes # Nothing =>
        /\ PacketFromBytesOK(bytes)
        /\ Len(parts.data) > 0 => ServerAuthGameId(bytes) = Tail(parts.data)
  BY ReadBack DEF IInv
<1> QED BY <1>1 DEF IInv, RoundTrip

(***************************************************************************)
(* A packet built in any of the three ways passes the assertions of        *)
(* PacketFromBytes and is read back as it was meant, the id of the game    *)
(* server in an auth response included (packet.go:183-252).                *)
(***************************************************************************)
THEOREM RoundTripCorrect ==
  Spec => []RoundTrip
<1> QED BY Invariance, RoundTripFromInv, PTL
=============================================================================
