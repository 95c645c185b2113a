-------------------------- MODULE PacketFramerProofs --------------------------
(***************************************************************************)
(* Proofs about PacketFramer, for any base and payload size, any messages, *)
(* any size of the reads and of the channel: no byte is lost, the          *)
(* assertions behind the framer hold, and on well-formed packets it        *)
(* delivers what was sent, in order.                                       *)
(***************************************************************************)
EXTENDS PacketFramer, SequenceTheorems, TLAPS

-----------------------------------------------------------------------------
(***************************************************************************)
(* Numbers and sequences.                                                  *)
(***************************************************************************)

(* A word holds at least one value; a byte is a number. *)
LEMMA ConstantTypes ==
  /\ Base \in Nat \ {0} /\ Word \in Nat \ {0} /\ Base =< Word
  /\ Byte \subseteq Nat /\ 0 \in Byte
<1>1. Base \in Nat \ {0}
  BY PacketAssumption
<1>2. Base * Base \in Nat \ {0} /\ Base =< Base * Base
  BY <1>1
<1> QED BY <1>1, <1>2 DEF Word, Byte

(* A function from 1..n is a sequence of length n. *)
LEMMA FunctionIsSeq ==
  ASSUME NEW S, NEW n \in Nat, NEW f \in [1..n -> S]
  PROVE  f \in Seq(S) /\ Len(f) = n
<1>1. f \in Seq(S)
  BY SeqDef
<1>2. Len(f) \in Nat /\ DOMAIN f = 1..Len(f) /\ DOMAIN f = 1..n
  BY <1>1, LenProperties
<1> QED BY <1>1, <1>2

(* What a first part of a sequence holds. *)
LEMMA Front ==
  ASSUME NEW S, NEW s \in Seq(S), NEW n \in 0..Len(s)
  PROVE  /\ SubSeq(s, 1, n) \in Seq(S) /\ Len(SubSeq(s, 1, n)) = n
         /\ \A i \in 1..n : SubSeq(s, 1, n)[i] = s[i]
<1>1. Len(s) \in Nat /\ \A i \in 1..n : s[i] \in S
  BY LenProperties, ElementOfSeq
<1> QED BY <1>1, SubSeqProperties

(* A sequence is cut in two. *)
LEMMA Cut ==
  ASSUME NEW S, NEW s \in Seq(S), NEW m \in Nat, NEW n \in m..Len(s)
  PROVE  /\ SubSeq(s, m + 1, n) \in Seq(S)
         /\ Len(SubSeq(s, m + 1, n)) = n - m
         /\ \A i \in 1..n - m : SubSeq(s, m + 1, n)[i] = s[m + i]
         /\ SubSeq(s, 1, n) = SubSeq(s, 1, m) \o SubSeq(s, m + 1, n)
<1>1. Len(s) \in Nat /\ n \in Nat /\ m =< n
      /\ \A i \in m + 1..n : s[i] \in S
  BY LenProperties, ElementOfSeq
<1>2. /\ SubSeq(s, m + 1, n) \in Seq(S)
      /\ Len(SubSeq(s, m + 1, n)) = IF m + 1 =< n THEN n - (m + 1) + 1 ELSE 0
      /\ \A i \in 1..n - (m + 1) + 1 : SubSeq(s, m + 1, n)[i] = s[m + 1 + i - 1]
  BY <1>1, SubSeqProperties
<1>3. \A i \in 1..n - m : SubSeq(s, m + 1, n)[i] = s[m + i]
  BY <1>1, <1>2
<1>4. Len(SubSeq(s, m + 1, n)) = n - m
  BY <1>1, <1>2
<1>5. SubSeq(s, 1, n) = SubSeq(s, 1, m) \o SubSeq(s, m + 1, n)
  <2>1. 1 \in 1..Len(s) + 1 /\ m \in 1 - 1..Len(s) /\ n \in m..Len(s)
    BY <1>1
  <2> QED BY <2>1, ConcatAdjacentSubSeq
<1> QED BY <1>2, <1>3, <1>4, <1>5

-----------------------------------------------------------------------------
(***************************************************************************)
(* The buffer.                                                             *)
(***************************************************************************)

(* Push appends the bytes read to the filled part of the buffer. *)
LEMMA FilledBuffer ==
  ASSUME buf \in Seq(Byte), idx \in 0..Len(buf), NEW data \in Seq(Byte)
  PROVE  /\ Filled(data) \in Seq(Byte)
         /\ idx + Len(data) \in 0..Len(Filled(data))
         /\ SubSeq(Filled(data), 1, idx + Len(data))
              = SubSeq(buf, 1, idx) \o data
<1> DEFINE b == Filled(data)
           d == Len(data)
           n == IF idx + d > Len(buf) THEN idx + d ELSE Len(buf)
<1>1. d \in Nat /\ Len(buf) \in Nat /\ idx \in Nat /\ n \in Nat
      /\ idx + d \in 0..n /\ idx =< Len(buf)
  BY LenProperties
<1>2. \A i \in 1..Len(buf) : buf[i] \in Byte
  BY ElementOfSeq
<1>3. \A i \in 1..d : data[i] \in Byte
  BY ElementOfSeq
<1>4. b = [i \in 1..n |-> IF i \in idx + 1..idx + d THEN data[i - idx] ELSE buf[i]]
  BY DEF Filled
<1>5. ASSUME NEW i \in 1..n
      PROVE  (IF i \in idx + 1..idx + d THEN data[i - idx] ELSE buf[i]) \in Byte
  <2>1. CASE i \in idx + 1..idx + d
    BY <2>1, <1>1, <1>3
  <2>2. CASE i \notin idx + 1..idx + d
    BY <2>2, <1>1, <1>2
  <2> QED BY <2>1, <2>2
<1>6. b \in Seq(Byte) /\ Len(b) = n
  <2>1. b \in [1..n -> Byte]
    BY <1>4, <1>5
  <2> HIDE DEF b, n
  <2> QED BY <2>1, <1>1, FunctionIsSeq
<1> HIDE DEF b
<1>7. /\ SubSeq(b, 1, idx + d) \in Seq(Byte)
      /\ Len(SubSeq(b, 1, idx + d)) = idx + d
      /\ \A i \in 1..idx + d : SubSeq(b, 1, idx + d)[i] = b[i]
  BY <1>1, <1>6, Front
<1>8. /\ SubSeq(buf, 1, idx) \in Seq(Byte)
      /\ Len(SubSeq(buf, 1, idx)) = idx
      /\ \A i \in 1..idx : SubSeq(buf, 1, idx)[i] = buf[i]
  BY Front
<1> DEFINE s == SubSeq(b, 1, idx + d)
           f == SubSeq(buf, 1, idx)
           t == f \o data
<1>9. /\ t \in Seq(Byte) /\ Len(t) = idx + d
      /\ \A i \in 1..idx + d : t[i] = IF i =< idx THEN f[i] ELSE data[i - idx]
  BY <1>8, ConcatProperties
<1>10. ASSUME NEW i \in 1..idx + d PROVE s[i] = t[i]
  <2> HIDE DEF d, n, f, t, s
  <2>1. i \in 1..n /\ (i =< idx <=> i \notin idx + 1..idx + d)
    BY <1>1
  <2>2. b[i] = IF i \in idx + 1..idx + d THEN data[i - idx] ELSE buf[i]
    BY <2>1, <1>4
  <2>3. i =< idx => f[i] = buf[i]
    BY <1>1, <1>8 DEF f
  <2> QED BY <2>1, <2>2, <2>3, <1>7, <1>9 DEF s
<1>11. s = t
  <2> HIDE DEF s, t
  <2>1. s \in Seq(Byte) /\ t \in Seq(Byte) /\ Len(s) = Len(t) /\ Len(s) = idx + d
    BY <1>7, <1>9 DEF s
  <2> QED BY <2>1, <1>10, SeqEqual
<1> QED BY <1>1, <1>6, <1>11 DEF b

(* copy(p.buf, p.buf[n:]) takes n bytes off the front. *)
LEMMA ShiftedBuffer ==
  ASSUME buf \in Seq(Byte), idx \in 0..Len(buf), NEW n \in 0..idx
  PROVE  /\ Shifted(n) \in Seq(Byte) /\ Len(Shifted(n)) = Len(buf)
         /\ SubSeq(buf, 1, idx)
              = SubSeq(buf, 1, n) \o SubSeq(Shifted(n), 1, idx - n)
<1> DEFINE b == Shifted(n)
           l == Len(buf)
<1>1. l \in Nat /\ idx \in Nat /\ n \in Nat /\ n =< idx /\ idx =< l
      /\ idx - n \in 0..l
  BY LenProperties
<1>2. \A i \in 1..l : buf[i] \in Byte
  BY ElementOfSeq
<1>3. b = [i \in 1..l |-> IF i + n =< l THEN buf[i + n] ELSE buf[i]]
  BY DEF Shifted
<1>4. b \in Seq(Byte) /\ Len(b) = l
  <2>1. b \in [1..l -> Byte]
    BY <1>1, <1>2, <1>3
  <2> HIDE DEF b, l
  <2> QED BY <2>1, <1>1, FunctionIsSeq
<1> HIDE DEF b
<1> DEFINE s == SubSeq(b, 1, idx - n)
           t == SubSeq(buf, n + 1, idx)
<1>5. /\ s \in Seq(Byte) /\ Len(s) = idx - n
      /\ \A i \in 1..idx - n : s[i] = b[i]
  BY <1>1, <1>4, Front
<1>6. /\ t \in Seq(Byte) /\ Len(t) = idx - n
      /\ \A i \in 1..idx - n : t[i] = buf[n + i]
      /\ SubSeq(buf, 1, idx) = SubSeq(buf, 1, n) \o t
  BY <1>1, Cut
<1>7. s = t
  <2> HIDE DEF s, t, l
  <2>1. ASSUME NEW i \in 1..idx - n PROVE s[i] = t[i]
    <3>1. i \in 1..l /\ i + n =< l /\ i + n = n + i
      BY <1>1
    <3> QED BY <3>1, <1>3, <1>5, <1>6
  <2> QED BY <2>1, <1>5, <1>6, SeqEqual
<1> QED BY <1>4, <1>6, <1>7 DEF b

-----------------------------------------------------------------------------
(***************************************************************************)
(* The inductive invariant: a packet is in hand only while it is sent on   *)
(* the channel, and no step loses a byte, the one that ends the process    *)
(* included.                                                               *)
(***************************************************************************)
Buffered == SubSeq(buf, 1, idx)
Stream == outBytes \o pkt \o Buffered \o wire

IInv ==
  /\ TypeOK
  /\ pc # "send" => pkt = <<>>
  /\ sentBytes = Stream
  /\ FramerAssertions

USE DEF wireVars, bufVars, outVars

(* The lengths that pull computes. *)
LEMMA PullLengths ==
  ASSUME TypeOK, PacketComplete
  PROVE  /\ idx >= HEADER_SIZE /\ buf[1] = VERSION
         /\ packetLen \in Nat /\ fullLen \in 0..idx
         /\ packetLen + HEADER_SIZE < Word => fullLen = packetLen + HEADER_SIZE
         /\ 4 \in 1..Len(buf)
<1>1. /\ idx >= 4 /\ buf[1] = VERSION /\ fullLen =< idx % Word
      /\ idx \in Nat /\ Len(buf) \in Nat /\ idx =< Len(buf)
  BY LenProperties DEF TypeOK, PacketComplete, HeaderRead, HEADER_SIZE
<1>2. buf[3] \in Nat /\ buf[4] \in Nat
  <2>1. buf[3] \in Byte /\ buf[4] \in Byte
    BY <1>1, ElementOfSeq DEF TypeOK
  <2> QED BY <2>1, ConstantTypes
<1>3. packetLen \in Nat
  BY <1>2, ConstantTypes DEF packetLen, getPacketLength
<1>4. idx % Word =< idx
  BY <1>1, ConstantTypes
<1>5. /\ fullLen \in Nat
      /\ packetLen + 4 < Word => fullLen = packetLen + 4
  BY <1>3, ConstantTypes DEF fullLen, HEADER_SIZE
<1>6. idx % Word \in Nat
  BY <1>1, ConstantTypes
<1>7. fullLen \in 0..idx
  BY <1>1, <1>4, <1>5, <1>6
<1> QED BY <1>1, <1>3, <1>5, <1>7 DEF HEADER_SIZE

(* The packet that pull cuts off is the one the assertions want. *)
LEMMA PulledPacket ==
  ASSUME TypeOK, PacketComplete, packetLen + HEADER_SIZE < Word
  PROVE  PacketFromBytesOK(SubSeq(buf, 1, fullLen))
<1> DEFINE d == SubSeq(buf, 1, fullLen)
<1>1. /\ idx \in Nat /\ Len(buf) \in Nat /\ idx =< Len(buf)
      /\ buf \in Seq(Byte)
  BY LenProperties DEF TypeOK
<1>2. /\ packetLen \in Nat /\ fullLen \in 0..idx /\ buf[1] = VERSION
      /\ fullLen = packetLen + 4
  BY PullLengths DEF HEADER_SIZE
<1>3. fullLen \in 0..Len(buf)
  BY <1>1, <1>2
<1>4. /\ Len(d) = fullLen
      /\ \A i \in 1..fullLen : d[i] = buf[i]
  BY <1>1, <1>3, Front
<1>5. d[1] = buf[1] /\ d[3] = buf[3] /\ d[4] = buf[4]
  BY <1>2, <1>4
<1>6. getPacketLength(d) = packetLen
  BY <1>5 DEF getPacketLength, packetLen
<1> QED BY <1>2, <1>4, <1>5, <1>6 DEF PacketFromBytesOK, HEADER_SIZE

(* The invariant holds initially. *)
LEMMA InitIInv ==
  Init => IInv
<1> SUFFICES ASSUME Init PROVE IInv
  OBVIOUS
<1>1. PayloadSize \in Nat
  BY PacketAssumption
<1>2. [i \in 1..PayloadSize |-> 0] \in [1..PayloadSize -> Byte]
  BY ConstantTypes
<1>3. buf \in Seq(Byte) /\ Len(buf) = PayloadSize
  BY <1>1, <1>2, FunctionIsSeq DEF Init
<1>4. TypeOK
  BY <1>1, <1>3, EmptySeq DEF Init, TypeOK
<1>5. Buffered = <<>>
  BY <1>3, SubSeqEmpty DEF Init, Buffered
<1>6. sentBytes = Stream
  <2>1. <<>> \in Seq(Byte) /\ <<>> \o <<>> = <<>>
    BY EmptySeq, ConcatEmptySeq
  <2> QED BY <2>1, <1>5 DEF Init, Stream
<1> QED BY <1>4, <1>6 DEF IInv, Init, FramerAssertions

(* Concatenations of bytes may be regrouped. *)
LEMMA Regroup ==
  \A s, t, u \in Seq(Byte) : (s \o t) \o u = s \o (t \o u)
<1> TAKE s, t, u \in Seq(Byte)
<1> DEFINE l == (s \o t) \o u
           r == s \o (t \o u)
<1>1. l = r
  BY ConcatAssociative
<1> QED BY <1>1

(* The parts of the stream are sequences of bytes. *)
LEMMA StreamTypes ==
  ASSUME TypeOK
  PROVE  /\ Buffered \in Seq(Byte) /\ Len(Buffered) = idx
         /\ outBytes \o pkt \in Seq(Byte)
         /\ outBytes \o pkt \o Buffered \in Seq(Byte)
<1>1. Buffered \in Seq(Byte) /\ Len(Buffered) = idx
  BY Front DEF TypeOK, Buffered
<1>2. outBytes \o pkt \in Seq(Byte)
  BY ConcatProperties DEF TypeOK
<1> QED BY <1>1, <1>2, ConcatProperties

(* A write of the peer. *)
LEMMA SendIInv ==
  ASSUME IInv, exit = "none", NEW m \in Messages, Send(m)
  PROVE  IInv'
<1>1. m \in Seq(Byte)
  BY FramerAssumption
<1>2. TypeOK'
  BY <1>1, AppendProperties, ConcatProperties DEF IInv, TypeOK, Send
<1>3. sentBytes' = Stream'
  <2>1. outBytes \o pkt \o Buffered \in Seq(Byte) /\ wire \in Seq(Byte)
    BY StreamTypes DEF IInv, TypeOK
  <2>2. (outBytes \o pkt \o Buffered \o wire) \o m
          = outBytes \o pkt \o Buffered \o (wire \o m)
    BY <2>1, <1>1, Regroup, Zenon
  <2> QED BY <2>2 DEF IInv, Send, Stream, Buffered
<1> QED BY <1>2, <1>3 DEF IInv, Send, FramerAssertions

(* A read. *)
LEMMA PushIInv ==
  ASSUME IInv, exit = "none", NEW n \in 1..ReadSize, Push(n)
  PROVE  IInv'
<1> DEFINE d == SubSeq(wire, 1, n)
           r == SubSeq(wire, n + 1, Len(wire))
<1>1. /\ wire \in Seq(Byte) /\ Len(wire) \in Nat /\ n \in Nat
      /\ n \in 0..Len(wire) /\ Len(wire) \in n..Len(wire)
  BY LenProperties, FramerAssumption DEF IInv, TypeOK, Push
<1>2. d \in Seq(Byte) /\ Len(d) = n
  BY <1>1, Front
<1>3. r \in Seq(Byte) /\ wire = d \o r
  BY <1>1, Cut, SubSeqFull
<1>4. /\ Filled(d) \in Seq(Byte) /\ idx + n \in 0..Len(Filled(d))
      /\ SubSeq(Filled(d), 1, idx + n) = Buffered \o d
  BY <1>2, FilledBuffer DEF IInv, TypeOK, Buffered
<1>5. /\ buf' = Filled(d) /\ idx' = idx + n /\ wire' = r
      /\ pc' = "pull" /\ pkt' = pkt /\ pc = "read"
      /\ UNCHANGED <<sent, sentBytes, outVars, exit>>
  BY DEF Push
<1> HIDE DEF d, r
<1>6. TypeOK'
  BY <1>3, <1>4, <1>5 DEF IInv, TypeOK
<1>7. sentBytes' = Stream'
  <2>1. /\ outBytes \o pkt \in Seq(Byte) /\ Buffered \in Seq(Byte)
        /\ outBytes \o pkt \o Buffered \in Seq(Byte)
    BY StreamTypes DEF IInv
  <2>2. outBytes \o pkt \o Buffered \o (d \o r)
          = outBytes \o pkt \o Buffered \o d \o r
    BY <2>1, <1>2, <1>3, Regroup, Zenon
  <2>3. outBytes \o pkt \o Buffered \o d = outBytes \o pkt \o (Buffered \o d)
    BY <2>1, <1>2, Regroup, Zenon
  <2>4. Buffered' = Buffered \o d
    BY <1>4, <1>5 DEF Buffered
  <2> QED BY <2>2, <2>3, <2>4, <1>3, <1>5 DEF IInv, Stream
<1> QED BY <1>5, <1>6, <1>7 DEF IInv, FramerAssertions

(* A packet is cut off the front of the buffer. *)
LEMMA PullIInv ==
  ASSUME IInv, exit = "none", Pull
  PROVE  IInv'
<1> DEFINE p == SubSeq(buf, 1, fullLen)
<1>1. /\ pkt' = p /\ buf' = Shifted(fullLen) /\ idx' = idx - fullLen
      /\ pc = "pull" /\ pc' = "send" /\ PacketComplete
      /\ UNCHANGED <<wireVars, outVars, exit>>
  BY DEF Pull
<1>2. /\ buf \in Seq(Byte) /\ idx \in Nat /\ idx \in 0..Len(buf)
      /\ Len(buf) \in Nat
  BY LenProperties DEF IInv, TypeOK
<1>3. fullLen \in 0..idx
  BY <1>1, PullLengths DEF IInv
<1>4. fullLen \in 0..Len(buf) /\ idx - fullLen \in 0..Len(buf)
  BY <1>2, <1>3
<1>5. /\ buf' \in Seq(Byte) /\ Len(buf') = Len(buf)
      /\ Buffered = p \o Buffered'
  BY <1>1, <1>2, <1>3, ShiftedBuffer DEF Buffered
<1>6. p \in Seq(Byte)
  BY <1>2, <1>4, Front
<1> HIDE DEF p
<1>7. TypeOK'
  BY <1>1, <1>4, <1>5, <1>6 DEF IInv, TypeOK
<1>8. sentBytes' = Stream'
  <2>1. /\ outBytes \in Seq(Byte) /\ Buffered' \in Seq(Byte)
        /\ wire \in Seq(Byte) /\ outBytes' = outBytes /\ pkt = <<>>
    BY <1>1, <1>7, StreamTypes, Front DEF IInv, TypeOK, Buffered
  <2>2. outBytes \o pkt = outBytes
    BY <2>1, ConcatEmptySeq
  <2>3. outBytes \o Buffered = outBytes \o p \o Buffered'
    BY <2>1, <1>5, <1>6, Regroup, Zenon
  <2> QED BY <2>1, <2>2, <2>3, <1>1 DEF IInv, Stream
<1> QED BY <1>1, <1>7, <1>8 DEF IInv, FramerAssertions

(* The packet goes into the channel. *)
LEMMA EmitIInv ==
  ASSUME IInv, exit = "none", Emit
  PROVE  IInv'
<1>1. /\ outBytes \in Seq(Byte) /\ pkt \in Seq(Byte) /\ C \in Seq(Seq(Byte))
      /\ outBytes \o pkt \in Seq(Byte) /\ <<>> \in Seq(Byte)
  BY StreamTypes, EmptySeq DEF IInv, TypeOK
<1>2. TypeOK'
  BY <1>1, AppendProperties DEF IInv, TypeOK, Emit
<1>3. (outBytes \o pkt) \o <<>> = outBytes \o pkt
  BY <1>1, ConcatEmptySeq
<1> QED BY <1>2, <1>3 DEF IInv, Emit, Stream, Buffered, FramerAssertions

(* The steps that move no byte of the stream. *)
LEMMA QuietIInv ==
  ASSUME IInv, exit = "none", PullNothing \/ PullCrashes \/ Take
  PROVE  IInv'
<1>1. CASE PullNothing
  BY <1>1 DEF IInv, PullNothing, TypeOK, Stream, Buffered, FramerAssertions
<1>2. CASE PullCrashes
  <2>1. packetLen + HEADER_SIZE >= Word /\ buf[1] = VERSION
    <3>1. TypeOK /\ PacketComplete
          /\ ~PacketFromBytesOK(SubSeq(buf, 1, fullLen))
      BY <1>2 DEF IInv, PullCrashes
    <3>2. packetLen + HEADER_SIZE \in Nat /\ Word \in Nat /\ buf[1] = VERSION
      BY <3>1, PullLengths, ConstantTypes DEF HEADER_SIZE
    <3> QED BY <3>1, <3>2, PulledPacket
  <2>2. UNCHANGED <<wireVars, bufVars, pc, pkt, outVars>> /\ exit' = "assertion"
    BY <1>2 DEF PullCrashes
  <2>3. TypeOK' /\ sentBytes' = Stream'
    BY <2>2 DEF IInv, TypeOK, Stream, Buffered
  <2>4. FramerAssertions'
    BY <2>1, <2>2 DEF FramerAssertions, packetLen
  <2> QED BY <2>2, <2>3, <2>4 DEF IInv
<1>3. CASE Take
  <2>1. C \in Seq(Seq(Byte)) /\ C # <<>> /\ taken \in Seq(Seq(Byte))
    BY <1>3 DEF IInv, TypeOK, Take
  <2>2. /\ Head(C) \in Seq(Byte) /\ Tail(C) \in Seq(Seq(Byte))
        /\ Append(taken, Head(C)) \in Seq(Seq(Byte))
    BY <2>1, HeadTailProperties, AppendProperties
  <2>3. TypeOK'
    BY <2>2, <1>3 DEF IInv, TypeOK, Take
  <2> QED BY <2>3, <1>3 DEF IInv, Take, Stream, Buffered, FramerAssertions
<1> QED BY <1>1, <1>2, <1>3

(* Every step keeps the invariant. *)
LEMMA NextIInv ==
  IInv /\ [Next]_vars => IInv'
<1> SUFFICES ASSUME IInv, [Next]_vars PROVE IInv'
  OBVIOUS
<1>1. CASE UNCHANGED vars
  BY <1>1 DEF vars, IInv, TypeOK, Stream, Buffered, FramerAssertions, packetLen
<1>2. CASE Next
  BY <1>2, SendIInv, PushIInv, PullIInv, EmitIInv, QuietIInv
     DEF Next, FramerStep
<1> QED BY <1>1, <1>2

(* The invariant always holds. *)
THEOREM Invariance ==
  Spec => []IInv
  BY InitIInv, NextIInv, PTL DEF Spec

(***************************************************************************)
(* Every variable keeps its type, whatever the bytes.                      *)
(***************************************************************************)
THEOREM TypeCorrect ==
  Spec => []TypeOK
  BY Invariance, PTL DEF IInv

(***************************************************************************)
(* No byte is lost, duplicated or reordered by the framer, whatever the    *)
(* bytes and however they are read.                                        *)
(***************************************************************************)
THEOREM StreamConservedCorrect ==
  Spec => []StreamConserved
<1>1. IInv => StreamConserved
  BY DEF IInv, StreamConserved, Stream, Buffered
<1> QED BY <1>1, Invariance, PTL

(***************************************************************************)
(* The assertions of PacketFromBytes hold behind the framer, unless the    *)
(* 16-bit length wraps around.                                             *)
(***************************************************************************)
THEOREM FramerAssertionsCorrect ==
  Spec => []FramerAssertions
  BY Invariance, PTL DEF IInv

-----------------------------------------------------------------------------
(***************************************************************************)
(* Well-formed packets: what PacketFromBytes accepts, with a length that   *)
(* does not wrap around.  All that PacketFromParts builds is: see          *)
(* PacketsAreWellFormed in PacketCodecProofs.                              *)
(***************************************************************************)
WellFormed == {m \in Seq(Byte) : PacketFromBytesOK(m) /\ Len(m) < Word}

(***************************************************************************)
(* f tells where the messages sent end in the stream of bytes.             *)
(***************************************************************************)
IsBoundaries(f) ==
  /\ f \in [0..Len(sent) -> 0..Len(sentBytes)]
  /\ f[0] = 0 /\ f[Len(sent)] = Len(sentBytes)
  /\ \A i \in 1..Len(sent) :
       /\ f[i] = f[i - 1] + Len(sent[i])
       /\ \A j \in 1..Len(sent[i]) : sent[i][j] = sentBytes[f[i - 1] + j]

(* How many packets the framer has pulled so far. *)
Pulled == Len(taken) + Len(C) + (IF pc = "send" THEN 1 ELSE 0)

(***************************************************************************)
(* The packets pulled are the first ones sent, and they end in the stream  *)
(* where the framer's output ends.                                         *)
(***************************************************************************)
InStep(f) ==
  /\ Pulled =< Len(sent)
  /\ Len(outBytes \o pkt) = f[Pulled]
  /\ \A i \in 1..Len(taken) : taken[i] = sent[i]
  /\ \A i \in 1..Len(C) : C[i] = sent[Len(taken) + i]
  /\ pc = "send" => pkt = sent[Pulled]

FramedInv == \E f : IsBoundaries(f) /\ InStep(f)

ChannelInv == IInv /\ exit = "none" /\ FramedInv

(* The lengths of the queues. *)
LEMMA CountTypes ==
  ASSUME TypeOK
  PROVE  /\ Len(sent) \in Nat /\ Len(taken) \in Nat /\ Len(C) \in Nat
         /\ Len(sentBytes) \in Nat /\ Len(outBytes \o pkt) \in Nat
         /\ Pulled \in Nat
         /\ pc # "send" => Pulled = Len(taken) + Len(C)
<1>1. /\ Len(sent) \in Nat /\ Len(taken) \in Nat /\ Len(C) \in Nat
      /\ Len(sentBytes) \in Nat
  BY LenProperties DEF TypeOK
<1>2. Len(outBytes \o pkt) \in Nat
  BY StreamTypes, LenProperties
<1> QED BY <1>1, <1>2 DEF Pulled

(* The buffer holds the bytes that follow the framer's output. *)
LEMMA BufferInStream ==
  ASSUME IInv
  PROVE  /\ Len(outBytes \o pkt) + idx =< Len(sentBytes)
         /\ \A j \in 1..idx : sentBytes[Len(outBytes \o pkt) + j] = buf[j]
<1> DEFINE o == outBytes \o pkt
           n == Len(o)
           ob == o \o Buffered
<1>1. /\ o \in Seq(Byte) /\ Buffered \in Seq(Byte) /\ Len(Buffered) = idx
      /\ ob \in Seq(Byte) /\ wire \in Seq(Byte) /\ sentBytes = ob \o wire
      /\ n \in Nat /\ idx \in Nat /\ Len(wire) \in Nat
  BY StreamTypes, LenProperties DEF IInv, TypeOK, Stream
<1>2. \A j \in 1..idx : Buffered[j] = buf[j]
  BY Front DEF IInv, TypeOK, Buffered
<1> HIDE DEF o
<1>3. /\ Len(ob) = n + idx
      /\ \A i \in 1..n + idx : ob[i] = IF i =< n THEN o[i] ELSE Buffered[i - n]
  BY <1>1, ConcatProperties
<1> HIDE DEF ob
<1>4. /\ Len(sentBytes) = Len(ob) + Len(wire)
      /\ \A i \in 1..Len(ob) + Len(wire) :
           sentBytes[i] = IF i =< Len(ob) THEN ob[i] ELSE wire[i - Len(ob)]
  BY <1>1, ConcatProperties
<1> HIDE DEF n
<1>5. n + idx =< Len(sentBytes)
  BY <1>1, <1>3, <1>4
<1>6. ASSUME NEW j \in 1..idx PROVE sentBytes[n + j] = buf[j]
  <2> DEFINE i == n + j
  <2>1. /\ i \in 1..n + idx /\ ~(i =< n) /\ i - n = j
        /\ i =< Len(ob) /\ i \in 1..Len(ob) + Len(wire)
    BY <1>1, <1>3
  <2> HIDE DEF i
  <2>2. sentBytes[i] = ob[i]
    BY <2>1, <1>4
  <2>3. ob[i] = Buffered[j]
    BY <2>1, <1>3
  <2> QED BY <2>2, <2>3, <1>2 DEF i
<1> QED BY <1>5, <1>6 DEF n, o

(***************************************************************************)
(* What pull cuts off the buffer is the next packet that was sent.         *)
(***************************************************************************)
LEMMA NextPacket ==
  ASSUME Messages \subseteq WellFormed, IInv, NEW f, IsBoundaries(f),
         InStep(f), pc = "pull", PacketComplete
  PROVE  /\ Pulled + 1 =< Len(sent)
         /\ SubSeq(buf, 1, fullLen) = sent[Pulled + 1]
         /\ f[Pulled + 1] = f[Pulled] + Len(sent[Pulled + 1])
<1> DEFINE k == Pulled
           a == f[k]
           m == sent[k + 1]
           l == Len(sentBytes)
           n == Len(sent)
<1>1. /\ k \in Nat /\ n \in Nat /\ l \in Nat /\ k =< n
      /\ a = Len(outBytes \o pkt) /\ f[n] = l
  BY CountTypes DEF IInv, IsBoundaries, InStep
<1>2. /\ a + idx =< l /\ a \in Nat
      /\ \A j \in 1..idx : sentBytes[a + j] = buf[j]
  BY <1>1, BufferInStream, CountTypes DEF IInv
<1>3. /\ idx \in Nat /\ idx >= 4 /\ fullLen \in 0..idx
      /\ packetLen + 4 < Word => fullLen = packetLen + 4
      /\ buf \in Seq(Byte) /\ Len(buf) \in Nat /\ idx =< Len(buf)
  BY PullLengths, LenProperties DEF IInv, TypeOK, HEADER_SIZE
<1>4. k # n
  <2> SUFFICES ASSUME k = n PROVE FALSE
    OBVIOUS
  <2>1. a = l
    BY <1>1
  <2> HIDE DEF k, a, l, n
  <2> QED BY <2>1, <1>1, <1>2, <1>3
<1>5. k + 1 \in 1..n /\ k + 1 =< n /\ k + 1 - 1 = k
  <2> HIDE DEF k, n
  <2> QED BY <1>1, <1>4
<1>6. /\ f[k + 1] = a + Len(m)
      /\ \A j \in 1..Len(m) : m[j] = sentBytes[a + j]
  <2> DEFINE i == k + 1
  <2> HIDE DEF k, n
  <2>1. i \in 1..n /\ i - 1 = k
    BY <1>1, <1>5
  <2> USE DEF n
  <2> HIDE DEF i
  <2>2. /\ f[i] = f[i - 1] + Len(sent[i])
        /\ \A j \in 1..Len(sent[i]) : sent[i][j] = sentBytes[f[i - 1] + j]
    BY <2>1 DEF IsBoundaries
  <2> QED BY <2>1, <2>2 DEF i
<1>7. m \in WellFormed
  BY <1>5, ElementOfSeq DEF IInv, TypeOK
<1>8. /\ m \in Seq(Byte) /\ Len(m) \in Nat /\ Len(m) >= 4 /\ Len(m) < Word
      /\ Len(m) - 4 = getPacketLength(m)
  BY <1>7, LenProperties DEF WellFormed, PacketFromBytesOK, HEADER_SIZE
<1> HIDE DEF k, a, m, l, n
<1>9. \A j \in 1..idx : j \in 1..Len(m) => m[j] = buf[j]
  BY <1>2, <1>6
<1>10. getPacketLength(m) = packetLen
  <2>1. m[3] = buf[3] /\ m[4] = buf[4]
    BY <1>3, <1>8, <1>9
  <2> QED BY <2>1 DEF getPacketLength, packetLen
<1>11. fullLen = Len(m)
  <2>1. packetLen = Len(m) - 4
    BY <1>8, <1>10
  <2> HIDE DEF packetLen, fullLen
  <2>2. packetLen + 4 = Len(m)
    BY <2>1, <1>8
  <2> QED BY <2>2, <1>3, <1>8
<1>12. SubSeq(buf, 1, fullLen) = m
  <2> DEFINE p == SubSeq(buf, 1, fullLen)
  <2>1. /\ p \in Seq(Byte) /\ Len(p) = fullLen
        /\ \A i \in 1..fullLen : p[i] = buf[i]
    <3>1. fullLen \in 0..Len(buf)
      BY <1>3
    <3> QED BY <3>1, <1>3, Front
  <2> HIDE DEF p, fullLen
  <2>2. \A i \in 1..Len(p) : p[i] = m[i]
    BY <2>1, <1>3, <1>9, <1>11
  <2> QED BY <2>1, <2>2, <1>8, <1>11, SeqEqual DEF p
<1> QED BY <1>5, <1>6, <1>12 DEF k, a, m, n

(***************************************************************************)
(* Each step of the framer keeps the packets in step and the process       *)
(* alive.                                                                  *)
(***************************************************************************)

(* The peer writes one more packet. *)
LEMMA SendFramed ==
  ASSUME Messages \subseteq WellFormed, ChannelInv,
         NEW m \in Messages, Send(m)
  PROVE  FramedInv'
<1> PICK f : IsBoundaries(f) /\ InStep(f)
  BY DEF ChannelInv, FramedInv
<1> DEFINE n == Len(sent)
           b == Len(sentBytes)
           l == Len(m)
<1>0. PICK g : g = [i \in 0..n + 1 |-> IF i =< n THEN f[i] ELSE b + l]
  OBVIOUS
<1>1. /\ sent \in Seq(Messages) /\ sentBytes \in Seq(Byte) /\ m \in Seq(Byte)
      /\ n \in Nat /\ b \in Nat /\ l \in Nat /\ Pulled \in Nat
  BY CountTypes, LenProperties DEF ChannelInv, IInv, TypeOK, WellFormed
<1>2. /\ sent' = Append(sent, m) /\ sentBytes' = sentBytes \o m
      /\ UNCHANGED <<pc, pkt, outVars>>
  BY DEF Send
<1>3. /\ Len(sent') = n + 1 /\ sent'[n + 1] = m
      /\ \A i \in 1..n : sent'[i] = sent[i]
  BY <1>1, <1>2, AppendProperties
<1>4. /\ Len(sentBytes') = b + l
      /\ \A j \in 1..b + l :
           sentBytes'[j] = IF j =< b THEN sentBytes[j] ELSE m[j - b]
  BY <1>1, <1>2, ConcatProperties
<1>5. /\ \A i \in 0..n : f[i] \in 0..b
      /\ f[0] = 0 /\ f[n] = b
  BY DEF IsBoundaries
<1>6. \A i \in 1..n : /\ f[i] = f[i - 1] + Len(sent[i])
                      /\ \A j \in 1..Len(sent[i]) :
                           sent[i][j] = sentBytes[f[i - 1] + j]
  BY DEF IsBoundaries
<1>7. \A i \in 1..n : Len(sent[i]) \in Nat
  <2> TAKE i \in 1..n
  <2>1. sent[i] \in Seq(Byte)
    BY <1>1, ElementOfSeq DEF WellFormed
  <2> QED BY <2>1, LenProperties
<1> HIDE DEF n, b, l
<1>8. /\ g \in [0..n + 1 -> 0..b + l] /\ g[0] = 0 /\ g[n + 1] = b + l
      /\ \A i \in 0..n : g[i] = f[i]
  BY <1>0, <1>1, <1>5
<1>9. ASSUME NEW i \in 1..n + 1
      PROVE  /\ g[i] = g[i - 1] + Len(sent'[i])
             /\ \A j \in 1..Len(sent'[i]) :
                  sent'[i][j] = sentBytes'[g[i - 1] + j]
  <2>1. CASE i \in 1..n
    <3>1. /\ sent'[i] = sent[i] /\ g[i] = f[i] /\ g[i - 1] = f[i - 1]
          /\ f[i] = f[i - 1] + Len(sent[i])
          /\ f[i - 1] \in Nat /\ f[i] \in 0..b
      BY <2>1, <1>1, <1>3, <1>5, <1>6, <1>8
    <3>2. ASSUME NEW j \in 1..Len(sent[i])
          PROVE  sent[i][j] = sentBytes'[f[i - 1] + j]
      <4> DEFINE p == f[i - 1] + j
      <4>1. sent[i][j] = sentBytes[p]
        BY <2>1, <1>6
      <4>2. p \in 1..b /\ p \in 1..b + l /\ p =< b
        <5> DEFINE x == f[i - 1]
                   y == f[i]
                   z == Len(sent[i])
        <5>1. /\ x \in Nat /\ y \in 0..b /\ y = x + z /\ z \in Nat
              /\ j \in 1..z
          BY <3>1, <2>1, <1>7
        <5> HIDE DEF x, y, z
        <5>2. x + j \in 1..b /\ x + j \in 1..b + l /\ x + j =< b
          BY <5>1, <1>1
        <5> QED BY <5>2 DEF x
      <4> HIDE DEF p
      <4> QED BY <4>1, <4>2, <1>4 DEF p
    <3> QED BY <3>1, <3>2
  <2>2. CASE i = n + 1
    <3>1. /\ sent'[i] = m /\ g[i] = b + l /\ g[i - 1] = b
      BY <2>2, <1>1, <1>3, <1>5, <1>8
    <3>2. ASSUME NEW j \in 1..l
          PROVE  m[j] = sentBytes'[b + j]
      <4> DEFINE p == b + j
      <4>1. p \in 1..b + l /\ ~(p =< b) /\ p - b = j
        BY <1>1
      <4> HIDE DEF p
      <4>2. sentBytes'[p] = m[j]
        BY <4>1, <1>4
      <4> QED BY <4>2 DEF p
    <3> QED BY <3>1, <3>2 DEF l
  <2> QED BY <2>1, <2>2, <1>1
<1>10. IsBoundaries(g)'
  <2>1. g[n + 1] = Len(sentBytes')
    BY <1>4, <1>8
  <2> QED BY <2>1, <1>3, <1>4, <1>8, <1>9 DEF IsBoundaries
<1>11. InStep(g)'
  <2>1. /\ Pulled =< n /\ Len(outBytes \o pkt) = f[Pulled]
        /\ \A i \in 1..Len(taken) : taken[i] = sent[i]
        /\ \A i \in 1..Len(C) : C[i] = sent[Len(taken) + i]
        /\ pc = "send" => pkt = sent[Pulled]
    BY DEF InStep, n
  <2>2. /\ Pulled' = Pulled /\ g[Pulled] = f[Pulled] /\ Pulled =< n + 1
    BY <2>1, <1>1, <1>2, <1>8 DEF Pulled
  <2>3. /\ Len(taken) \in Nat /\ Len(C) \in Nat
        /\ Len(taken) =< n
        /\ \A i \in 1..Len(C) : Len(taken) + i \in 1..n
        /\ pc = "send" => Pulled \in 1..n
    <3> DEFINE t == Len(taken)
               c == Len(C)
    <3>1. t \in Nat /\ c \in Nat
      BY CountTypes DEF ChannelInv, IInv
    <3>2. Pulled = IF pc = "send" THEN t + c + 1 ELSE t + c
      BY <3>1 DEF Pulled
    <3> HIDE DEF t, c
    <3>3. t =< n /\ (pc = "send" => Pulled \in 1..n)
      BY <3>1, <3>2, <2>1, <1>1
    <3>4. \A i \in 1..c : t + i \in 1..n
      BY <3>1, <3>2, <2>1, <1>1
    <3> QED BY <3>1, <3>3, <3>4 DEF t, c
  <2>4. \A i \in 1..Len(taken) : taken[i] = sent'[i]
    BY <2>1, <2>3, <1>1, <1>3
  <2>5. \A i \in 1..Len(C) : C[i] = sent'[Len(taken) + i]
    BY <2>1, <2>3, <1>3
  <2>6. pc = "send" => pkt = sent'[Pulled]
    BY <2>1, <2>3, <1>3
  <2> QED BY <2>1, <2>2, <2>4, <2>5, <2>6, <1>2, <1>3 DEF InStep
<1> QED BY <1>10, <1>11 DEF FramedInv

(* The framer pulls the next packet. *)
LEMMA PullFramed ==
  ASSUME Messages \subseteq WellFormed, ChannelInv, Pull
  PROVE  FramedInv'
<1> PICK f : IsBoundaries(f) /\ InStep(f)
  BY DEF ChannelInv, FramedInv
<1> DEFINE k == Pulled
           p == SubSeq(buf, 1, fullLen)
           m == sent[k + 1]
<1>1. /\ pc = "pull" /\ pc' = "send" /\ PacketComplete /\ pkt' = p
      /\ UNCHANGED <<wireVars, outVars>>
  BY DEF Pull
<1>2. k + 1 =< Len(sent) /\ p = m /\ f[k + 1] = f[k] + Len(m)
  BY <1>1, NextPacket DEF ChannelInv
<1>3. /\ pkt = <<>> /\ outBytes \in Seq(Byte) /\ p \in Seq(Byte)
      /\ k \in Nat /\ k = Len(taken) + Len(C)
  <2>1. TypeOK /\ pkt = <<>> /\ outBytes \in Seq(Byte)
    BY <1>1 DEF ChannelInv, IInv, TypeOK
  <2>2. fullLen \in 0..Len(buf)
    <3>1. fullLen \in 0..idx /\ idx \in 0..Len(buf) /\ Len(buf) \in Nat
      BY <2>1, <1>1, PullLengths, LenProperties DEF TypeOK
    <3> QED BY <3>1
  <2>3. p \in Seq(Byte)
    BY <2>1, <2>2, Front DEF TypeOK
  <2> QED BY <2>1, <2>3, <1>1, CountTypes
<1>4. Len(outBytes \o pkt') = f[k + 1]
  <2>1. outBytes \o pkt = outBytes
    BY <1>3, ConcatEmptySeq
  <2>2. Len(outBytes) = f[k]
    BY <2>1 DEF InStep
  <2>3. Len(outBytes \o p) = Len(outBytes) + Len(p)
    BY <1>3, ConcatProperties
  <2> QED BY <2>2, <2>3, <1>1, <1>2
<1>5. Pulled' = k + 1
  <2>1. Pulled' = Len(taken) + Len(C) + 1
    BY <1>1 DEF Pulled
  <2> QED BY <2>1, <1>3
<1>6. InStep(f)'
  BY <1>1, <1>2, <1>4, <1>5 DEF InStep
<1>7. IsBoundaries(f)'
  BY <1>1 DEF IsBoundaries
<1> QED BY <1>6, <1>7 DEF FramedInv

(* The packet in hand goes into the channel. *)
LEMMA EmitFramed ==
  ASSUME ChannelInv, Emit
  PROVE  FramedInv'
<1> PICK f : IsBoundaries(f) /\ InStep(f)
  BY DEF ChannelInv, FramedInv
<1> DEFINE t == Len(taken)
           c == Len(C)
<1>1. /\ pc = "send" /\ pc' = "pull" /\ pkt' = <<>>
      /\ C' = Append(C, pkt) /\ outBytes' = outBytes \o pkt
      /\ UNCHANGED <<wireVars, taken>>
  BY DEF Emit
<1>2. /\ C \in Seq(Seq(Byte)) /\ pkt \in Seq(Byte)
      /\ outBytes \o pkt \in Seq(Byte) /\ t \in Nat /\ c \in Nat
  BY StreamTypes, CountTypes DEF ChannelInv, IInv, TypeOK
<1>3. /\ Len(C') = c + 1 /\ C'[c + 1] = pkt
      /\ \A i \in 1..c : C'[i] = C[i]
  BY <1>1, <1>2, AppendProperties
<1>4. Pulled = t + c + 1 /\ Pulled' = t + (c + 1) + 0
  BY <1>1, <1>3 DEF Pulled
<1>5. Len(outBytes' \o pkt') = Len(outBytes \o pkt)
  BY <1>1, <1>2, ConcatEmptySeq
<1>6. /\ \A i \in 1..c : C[i] = sent[t + i]
      /\ pkt = sent[Pulled]
  BY <1>1 DEF InStep
<1> HIDE DEF t, c
<1>7. Pulled' = Pulled
  BY <1>2, <1>4
<1>8. ASSUME NEW i \in 1..c + 1 PROVE C'[i] = sent[t + i]
  <2>1. CASE i \in 1..c
    BY <2>1, <1>3, <1>6
  <2>2. CASE i = c + 1
    <3>1. t + i = Pulled
      BY <2>2, <1>2, <1>4
    <3> QED BY <3>1, <2>2, <1>3, <1>6
  <2> QED BY <2>1, <2>2, <1>2
<1>9. InStep(f)'
  BY <1>1, <1>3, <1>5, <1>7, <1>8 DEF InStep, t
<1>10. IsBoundaries(f)'
  BY <1>1 DEF IsBoundaries
<1> QED BY <1>9, <1>10 DEF FramedInv

(* The framer's owner takes the first packet of the channel. *)
LEMMA TakeFramed ==
  ASSUME ChannelInv, Take
  PROVE  /\ FramedInv'
         /\ Len(taken) < Len(sent)
         /\ taken' = Append(taken, sent[Len(taken) + 1])
<1> PICK f : IsBoundaries(f) /\ InStep(f)
  BY DEF ChannelInv, FramedInv
<1> DEFINE t == Len(taken)
           c == Len(C)
           n == Len(sent)
<1>1. /\ C # <<>> /\ taken' = Append(taken, Head(C)) /\ C' = Tail(C)
      /\ UNCHANGED <<wireVars, pc, pkt, outBytes>>
  BY DEF Take
<1>2. /\ C \in Seq(Seq(Byte)) /\ taken \in Seq(Seq(Byte))
      /\ t \in Nat /\ c \in Nat /\ n \in Nat
  BY CountTypes DEF ChannelInv, IInv, TypeOK
<1>3. /\ Len(C') = c - 1 /\ Head(C) \in Seq(Byte) /\ c # 0
      /\ \A i \in 1..c - 1 : C'[i] = C[i + 1]
  BY <1>1, <1>2, HeadTailProperties, EmptySeq
<1>4. Head(C) = C[1]
  <2>1. 1 \in 1..c /\ c \in 1..c
    BY <1>2, <1>3
  <2> QED BY <2>1, <1>2, HeadTailOfSubSeq, SubSeqFull
<1>5. /\ Len(taken') = t + 1 /\ taken'[t + 1] = C[1]
      /\ \A i \in 1..t : taken'[i] = taken[i]
  BY <1>1, <1>2, <1>3, <1>4, AppendProperties
<1>6. Pulled = t + c + (IF pc = "send" THEN 1 ELSE 0)
      /\ Pulled' = t + 1 + (c - 1) + (IF pc = "send" THEN 1 ELSE 0)
  BY <1>1, <1>3, <1>5 DEF Pulled
<1>7. /\ \A i \in 1..t : taken[i] = sent[i]
      /\ \A i \in 1..c : C[i] = sent[t + i]
      /\ Pulled =< n
  BY DEF InStep
<1> HIDE DEF t, c, n
<1>8. Pulled' = Pulled /\ t < n
  BY <1>2, <1>3, <1>6, <1>7
<1>9. C[1] = sent[t + 1]
  BY <1>2, <1>3, <1>7
<1>10. \A i \in 1..t + 1 : taken'[i] = sent[i]
  BY <1>2, <1>5, <1>7, <1>9
<1>11. ASSUME NEW i \in 1..c - 1 PROVE C'[i] = sent[t + 1 + i]
  <2>1. i + 1 \in 1..c /\ t + (i + 1) = t + 1 + i
    BY <1>2
  <2> QED BY <2>1, <1>3, <1>7
<1>12. InStep(f)'
  BY <1>1, <1>3, <1>5, <1>8, <1>10, <1>11 DEF InStep
<1>13. IsBoundaries(f)'
  BY <1>1 DEF IsBoundaries
<1> QED BY <1>1, <1>4, <1>8, <1>9, <1>12, <1>13 DEF FramedInv, t, n

(* The other steps of the framer pull nothing and deliver nothing. *)
LEMMA QuietFramed ==
  ASSUME ChannelInv, PullNothing \/ \E n \in 1..ReadSize : Push(n)
  PROVE  FramedInv'
<1> PICK f : IsBoundaries(f) /\ InStep(f)
  BY DEF ChannelInv, FramedInv
<1>1. /\ UNCHANGED <<sent, sentBytes, pkt, outVars>>
      /\ pc # "send" /\ pc' # "send"
  BY DEF PullNothing, Push
<1>2. Pulled' = Pulled
  BY <1>1 DEF Pulled
<1>3. InStep(f)' /\ IsBoundaries(f)'
  BY <1>1, <1>2 DEF InStep, IsBoundaries
<1> QED BY <1>3 DEF FramedInv

(* Nothing has been sent. *)
LEMMA InitChannel ==
  Init => ChannelInv
<1> SUFFICES ASSUME Init PROVE FramedInv
  BY InitIInv DEF ChannelInv, Init
<1>0. PICK f : f = [i \in 0..0 |-> 0]
  OBVIOUS
<1>1. /\ sent = <<>> /\ sentBytes = <<>> /\ taken = <<>> /\ C = <<>>
      /\ pkt = <<>> /\ outBytes = <<>> /\ pc = "read"
  BY DEF Init
<1>2. Len(outBytes \o pkt) = 0
  <2>1. <<>> \o <<>> = <<>>
    BY EmptySeq, ConcatEmptySeq
  <2> QED BY <2>1, <1>1
<1>3. IsBoundaries(f)
  BY <1>0, <1>1 DEF IsBoundaries
<1>4. InStep(f)
  BY <1>0, <1>1, <1>2 DEF InStep, Pulled
<1> QED BY <1>3, <1>4 DEF FramedInv

(* Every step keeps the packets in step. *)
LEMMA NextChannel ==
  ASSUME Messages \subseteq WellFormed
  PROVE  ChannelInv /\ [Next]_vars => ChannelInv'
<1> SUFFICES ASSUME ChannelInv, [Next]_vars PROVE ChannelInv'
  OBVIOUS
<1>1. IInv'
  BY NextIInv DEF ChannelInv
<1>2. CASE UNCHANGED vars
  <2>1. exit' = "none"
    BY <1>2 DEF vars, ChannelInv
  <2>2. FramedInv'
    BY <1>2 DEF vars, ChannelInv, FramedInv, IsBoundaries, InStep, Pulled
  <2> QED BY <2>1, <2>2, <1>1 DEF ChannelInv
<1>3. CASE \E m \in Messages : Send(m)
  BY <1>3, <1>1, SendFramed DEF ChannelInv, Send
<1>4. CASE PullNothing \/ \E n \in 1..ReadSize : Push(n)
  BY <1>4, <1>1, QuietFramed DEF ChannelInv, PullNothing, Push
<1>5. CASE Pull
  BY <1>5, <1>1, PullFramed DEF ChannelInv, Pull
<1>6. CASE Emit
  BY <1>6, <1>1, EmitFramed DEF ChannelInv, Emit
<1>7. CASE Take
  BY <1>7, <1>1, TakeFramed DEF ChannelInv, Take
<1>8. ~PullCrashes
  <2> SUFFICES ASSUME PullCrashes PROVE FALSE
    OBVIOUS
  <2>1. PICK f : IsBoundaries(f) /\ InStep(f)
    BY DEF ChannelInv, FramedInv
  <2>2. /\ pc = "pull" /\ PacketComplete
        /\ ~PacketFromBytesOK(SubSeq(buf, 1, fullLen))
    BY DEF PullCrashes
  <2>3. /\ Pulled + 1 =< Len(sent)
        /\ SubSeq(buf, 1, fullLen) = sent[Pulled + 1]
    BY <2>1, <2>2, NextPacket DEF ChannelInv
  <2>4. Pulled + 1 \in 1..Len(sent)
    BY <2>3, CountTypes DEF ChannelInv, IInv
  <2>5. sent[Pulled + 1] \in WellFormed
    BY <2>4, ElementOfSeq DEF ChannelInv, IInv, TypeOK
  <2> QED BY <2>2, <2>3, <2>5 DEF WellFormed
<1> QED BY <1>2, <1>3, <1>4, <1>5, <1>6, <1>7, <1>8 DEF Next, FramerStep

(* Every step of the framer is one of the channel, or none. *)
LEMMA StepImplements ==
  ASSUME Messages \subseteq WellFormed
  PROVE  ChannelInv /\ [Next]_vars => [Channel!Next]_<<sent, taken>>
<1> SUFFICES ASSUME ChannelInv, Next, <<sent, taken>>' # <<sent, taken>>
             PROVE  Channel!Next
  BY DEF vars
<1>1. CASE \E m \in Messages : Send(m)
  BY <1>1 DEF Channel!Next, Channel!Send, Send
<1>2. CASE Take
  BY <1>2, TakeFramed
     DEF Channel!Next, Channel!Deliver, Take
<1>3. CASE FramerStep
  BY <1>3 DEF FramerStep, Push, PullNothing, Pull, PullCrashes, Emit
<1> QED BY <1>1, <1>2, <1>3 DEF Next

(***************************************************************************)
(* When the peer writes well-formed packets, the framer implements the     *)
(* safety of the abstract channel: whatever the reads, the next packet     *)
(* delivered is the next one sent.                                         *)
(***************************************************************************)
THEOREM DeliversInOrderCorrect ==
  ASSUME Messages \subseteq WellFormed
  PROVE  Spec => DeliversInOrder
<1>1. Init => Channel!Init
  BY DEF Init, Channel!Init
<1>2. Init => ChannelInv
  BY InitChannel
<1>3. ChannelInv /\ [Next]_vars => ChannelInv'
  BY NextChannel
<1>4. ChannelInv /\ [Next]_vars => [Channel!Next]_<<sent, taken>>
  BY StepImplements
<1> QED BY <1>1, <1>2, <1>3, <1>4, PTL
        DEF Spec, DeliversInOrder, Channel!Safety

(***************************************************************************)
(* ... and none of the assertions behind it fails.                         *)
(***************************************************************************)
THEOREM NoAssertionFails ==
  ASSUME Messages \subseteq WellFormed
  PROVE  Spec => [](exit = "none")
<1>1. ChannelInv => exit = "none"
  BY DEF ChannelInv
<1>2. ChannelInv /\ [Next]_vars => ChannelInv'
  BY NextChannel
<1> QED BY <1>1, <1>2, InitChannel, PTL DEF Spec
=============================================================================
