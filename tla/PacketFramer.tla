----------------------------- MODULE PacketFramer -----------------------------
(***************************************************************************)
(* PacketFramer of pkg/packet/packet.go, run by FrameWithReader on the     *)
(* bytes of a connection: reads of any size up to ReadSize are pushed into *)
(* a growing buffer, and packets are pulled off its front into a channel.  *)
(***************************************************************************)
EXTENDS Packet, FiniteSets

CONSTANTS
  Messages,    \* what the peer writes: sequences of bytes
  MaxSends,    \* bound on the number of writes
  ReadSize,    \* the buffer of FrameWithReader: 100
  ChanCap      \* capacity of the channel C: 10

ASSUME FramerAssumption ==
  /\ Messages \subseteq Seq(Byte)
  /\ MaxSends \in Nat
  /\ ReadSize \in Nat \ {0}
  /\ ChanCap \in Nat \ {0}

VARIABLES
  sent,      \* history: the messages written, and all their bytes
  sentBytes,
  wire,      \* bytes written and not yet read
  buf, idx,  \* the framer's buffer and fill level
  pc,        \* "read", "pull", or "send" while C <- pkt
  pkt,       \* the packet being sent on C
  C,         \* the channel
  taken,     \* history: the packets received from C, and all their bytes
  outBytes,
  exit       \* "none", or how the process ended

wireVars == <<sent, sentBytes, wire>>
bufVars == <<buf, idx>>
outVars == <<C, taken, outBytes>>
vars == <<wireVars, bufVars, pc, pkt, outVars, exit>>

Init ==
  /\ sent = <<>> /\ sentBytes = <<>> /\ wire = <<>>
  /\ buf = [i \in 1..PayloadSize |-> 0] /\ idx = 0
  /\ pc = "read" /\ pkt = <<>>
  /\ C = <<>> /\ taken = <<>> /\ outBytes = <<>>
  /\ exit = "none"

(* The peer writes; TCP keeps the order and nothing else. *)
Send(m) ==
  /\ Len(sent) < MaxSends
  /\ sent' = Append(sent, m)
  /\ sentBytes' = sentBytes \o m
  /\ wire' = wire \o m
  /\ UNCHANGED <<bufVars, pc, pkt, outVars, exit>>

(* Mutant of Filled: bytes that do not fit into the buffer are dropped. *)
FilledUpTo(data) ==
  [i \in 1..Len(buf) |->
     IF i \in idx + 1..idx + Len(data) THEN data[i - idx] ELSE buf[i]]

(* copy(p.buf[p.idx:], data), and append of what did not fit. *)
Filled(data) ==
  [i \in 1..(IF idx + Len(data) > Len(buf) THEN idx + Len(data) ELSE Len(buf)) |->
     IF i \in idx + 1..idx + Len(data) THEN data[i - idx] ELSE buf[i]]

(* reader.Read returned n bytes: the first part of Push. *)
Push(n) ==
  /\ pc = "read"
  /\ n =< Len(wire)
  /\ buf' = Filled(SubSeq(wire, 1, n))
  /\ idx' = idx + n
  /\ wire' = SubSeq(wire, n + 1, Len(wire))
  /\ pc' = "pull"
  /\ UNCHANGED <<sent, sentBytes, pkt, outVars, exit>>

-----------------------------------------------------------------------------
(***************************************************************************)
(* pull, the loop of Push.  All lengths are uint16.                        *)
(***************************************************************************)
packetLen == getPacketLength(buf)
fullLen == (packetLen + HEADER_SIZE) % Word

(* Mutant of HeaderRead: the version is not checked. *)
HeaderReadAnyVersion == idx >= HEADER_SIZE /\ packetLen # PayloadSize

HeaderRead ==
  /\ idx >= HEADER_SIZE
  /\ buf[1] = VERSION
  /\ packetLen # PayloadSize

(* Mutant of PacketComplete: a packet that just fits is left in the buffer. *)
PacketCompleteStrict == HeaderRead /\ fullLen < idx % Word

PacketComplete == HeaderRead /\ fullLen =< idx % Word

(***************************************************************************)
(* Nothing to pull, or an error: too few bytes, a wrong version, the one   *)
(* length that is refused.  FrameWithReader drops the error and reads on.  *)
(***************************************************************************)
PullNothing ==
  /\ pc = "pull"
  /\ ~PacketComplete
  /\ pc' = "read"
  /\ UNCHANGED <<wireVars, bufVars, pkt, outVars, exit>>

(* Mutant of Shifted: one byte too many is moved away. *)
ShiftedTooFar(n) ==
  [i \in 1..Len(buf) |-> IF i + n + 1 =< Len(buf) THEN buf[i + n + 1] ELSE buf[i]]

(* Mutant of Shifted: the rest is not moved to the front. *)
NotShifted(n) == buf

(* copy(p.buf, p.buf[fullLen:]) *)
Shifted(n) ==
  [i \in 1..Len(buf) |-> IF i + n =< Len(buf) THEN buf[i + n] ELSE buf[i]]

Pull ==
  /\ pc = "pull"
  /\ PacketComplete
  /\ PacketFromBytesOK(SubSeq(buf, 1, fullLen))
  /\ pkt' = SubSeq(buf, 1, fullLen)
  /\ buf' = Shifted(fullLen)
  /\ idx' = idx - fullLen
  /\ pc' = "send"
  /\ UNCHANGED <<wireVars, outVars, exit>>

(* An assertion of PacketFromBytes fails: the process ends. *)
PullCrashes ==
  /\ pc = "pull"
  /\ PacketComplete
  /\ ~PacketFromBytesOK(SubSeq(buf, 1, fullLen))
  /\ exit' = "assertion"
  /\ UNCHANGED <<wireVars, bufVars, pc, pkt, outVars>>

(* p.C <- pkt *)
Emit ==
  /\ pc = "send"
  /\ Len(C) < ChanCap
  /\ C' = Append(C, pkt)
  /\ outBytes' = outBytes \o pkt
  /\ pkt' = <<>>
  /\ pc' = "pull"
  /\ UNCHANGED <<wireVars, bufVars, taken, exit>>

(* The framer's owner receives from C. *)
Take ==
  /\ C # <<>>
  /\ taken' = Append(taken, Head(C))
  /\ C' = Tail(C)
  /\ UNCHANGED <<wireVars, bufVars, pc, pkt, outBytes, exit>>

FramerStep ==
  \/ \E n \in 1..ReadSize : Push(n)
  \/ PullNothing \/ Pull \/ PullCrashes
  \/ Emit

Next ==
  /\ exit = "none"
  /\ (\E m \in Messages : Send(m)) \/ FramerStep \/ Take

Spec == Init /\ [][Next]_vars

(* Both goroutines run when they can. *)
FairSpec ==
  /\ Spec
  /\ WF_vars(exit = "none" /\ FramerStep)
  /\ WF_vars(exit = "none" /\ Take)

-----------------------------------------------------------------------------
(***************************************************************************)
(* Every variable has its type; the fill level stays within the buffer.    *)
(***************************************************************************)
TypeOK ==
  /\ sent \in Seq(Messages)
  /\ sentBytes \in Seq(Byte) /\ wire \in Seq(Byte)
  /\ buf \in Seq(Byte)
  /\ idx \in 0..Len(buf)
  /\ pc \in {"read", "pull", "send"}
  /\ pkt \in Seq(Byte)
  /\ C \in Seq(Seq(Byte)) /\ taken \in Seq(Seq(Byte))
  /\ outBytes \in Seq(Byte)
  /\ exit \in {"none", "assertion"}

(***************************************************************************)
(* No byte is lost, duplicated or reordered: what was sent is what was     *)
(* emitted, the packet in hand, the filled part of the buffer and what is  *)
(* still on the wire, in this order, however the reads cut the stream and  *)
(* whatever it contains.                                                   *)
(***************************************************************************)
StreamConserved ==
  exit = "none" =>
    sentBytes = outBytes \o pkt \o SubSeq(buf, 1, idx) \o wire

(***************************************************************************)
(* The assertions of PacketFromBytes, which the framer is to make true     *)
(* before it creates a packet (packet.go:139), hold whatever the bytes,    *)
(* with one exception: a length whose sum with the header wraps around.    *)
(***************************************************************************)
FramerAssertions ==
  exit = "none" \/ (buf[1] = VERSION /\ packetLen + HEADER_SIZE >= Word)

(***************************************************************************)
(* When the peer writes packets, the framer behaves as a FIFO channel of   *)
(* packets: it never delivers anything but the next packet sent, however   *)
(* the reads cut the stream...                                             *)
(***************************************************************************)
Channel == INSTANCE PacketChannel
  WITH Messages <- Messages, sent <- sent, taken <- taken

DeliversInOrder == Channel!Safety

(***************************************************************************)
(* ... and, when both goroutines run, it delivers every one of them.       *)
(***************************************************************************)
ImplementsChannel == Channel!Spec
=============================================================================
