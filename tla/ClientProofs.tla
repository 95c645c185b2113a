----------------------------- MODULE ClientProofs -----------------------------
(***************************************************************************)
(* Proofs about Client, for channels of any capacity and any number of     *)
(* pieces: the types, that no goroutine sends on a closed channel unless   *)
(* the caller's context is cancelled, and that otherwise the monitor gets  *)
(* the error that ended the reading.                                       *)
(***************************************************************************)
EXTENDS Client, SequenceTheorems, TLAPS

-----------------------------------------------------------------------------
(***************************************************************************)
(* The inductive invariant.                                                *)
(***************************************************************************)
Pieces == {"AuthResponse", "Error", "data"}

QueueTypes ==
  /\ incoming \in Seq(Pieces) /\ Len(incoming) =< sent
  /\ sent \in Nat /\ sent =< MaxPieces
  /\ C \in Seq(Pieces) /\ Len(C) =< FramerCap
  /\ Out \in 0..OutCap

ControlTypes ==
  /\ caller \in {"connect", "await", "connected", "close", "closed"}
  /\ State \in {"initialized", "connecting", "authenticating", "disconnected"}
  /\ conn \in {"none", "open", "closed"} /\ peer \in {"open", "eof", "reset"}
  /\ framer \in {"off", "read", "ended"} \cup Pieces
  /\ outer \in {"off", "begin", "wait", "close", "ended"}
  /\ rd \in {"off", "read", "send", "ended", "eof"}
  /\ fwd \in {"off", "wait", "send", "cancel", "ended"}
  /\ monitor \in {"off", "range", "err", "done"}

FlagTypes ==
  /\ ctxDone \in BOOLEAN /\ rdDone \in BOOLEAN /\ err \in BOOLEAN
  /\ Err \in BOOLEAN /\ gotErr \in BOOLEAN
  /\ outClosed \in BOOLEAN /\ errClosed \in BOOLEAN

(* ContextReader.Read and the monitor are started by a successful Connect,
   and ContextReader.Read starts the other two goroutines. *)
StartInv ==
  /\ caller \in {"connect", "await"} => outer = "off" /\ monitor = "off"
  /\ outer \in {"off", "begin"} => rd = "off" /\ fwd = "off"
  /\ outer \notin {"off", "begin"} => rd # "off" /\ fwd # "off"

(* The channels are closed by ContextReader.Read alone, at its end. *)
ClosedInv ==
  /\ errClosed <=> outer \in {"close", "ended"}
  /\ outClosed <=> outer = "ended"
  /\ errClosed => ctxDone \/ rdDone

(***************************************************************************)
(* Who has the error of internalRead: nobody before it ends, then its      *)
(* channel, then the forwarder; the reader's own context is cancelled      *)
(* after it has been passed on, and it waits in Err for the monitor.       *)
(***************************************************************************)
ErrorInv ==
  /\ err => rd = "ended" /\ fwd = "wait"
  /\ fwd \in {"send", "cancel", "ended"} => rd = "ended" /\ ~err
  /\ rdDone <=> fwd = "ended"
  /\ fwd \in {"cancel", "ended"} /\ monitor # "done" => Err

(* The monitor has emptied Out before it asks for the error. *)
MonitorInv ==
  /\ monitor \in {"err", "done"} => outClosed /\ Out = 0
  /\ monitor = "done" /\ ~ctxDone => gotErr

ReaderInv == StartInv /\ ClosedInv /\ ErrorInv /\ MonitorInv

IInv ==
  /\ QueueTypes /\ ControlTypes /\ FlagTypes /\ ReaderInv
  /\ NoSendOnClosed

USE DEF callVars, wireVars, framerVars, readerVars, monVars

(* The invariant holds initially. *)
LEMMA InitIInv ==
  Init => IInv
<1> SUFFICES ASSUME Init PROVE IInv
  OBVIOUS
<1>1. <<>> \in Seq(Pieces) /\ Len(<<>>) = 0
  BY EmptySeq
<1>2. QueueTypes
  BY <1>1, CapAssumption DEF Init, QueueTypes
<1>3. ControlTypes /\ FlagTypes
  BY DEF Init, ControlTypes, FlagTypes
<1>4. ReaderInv /\ NoSendOnClosed
  BY DEF Init, ReaderInv, StartInv, ClosedInv, ErrorInv, MonitorInv,
         NoSendOnClosed
<1> QED BY <1>2, <1>3, <1>4 DEF IInv

(* Queues of pieces. *)
LEMMA Queues ==
  ASSUME NEW s \in Seq(Pieces)
  PROVE  /\ Len(s) \in Nat
         /\ \A p \in Pieces : Append(s, p) \in Seq(Pieces)
                              /\ Len(Append(s, p)) = Len(s) + 1
         /\ s # <<>> => /\ Head(s) \in Pieces
                        /\ Tail(s) \in Seq(Pieces) /\ Len(Tail(s)) = Len(s) - 1
<1>1. Len(s) \in Nat
  BY LenProperties
<1>2. \A p \in Pieces : Append(s, p) \in Seq(Pieces)
                        /\ Len(Append(s, p)) = Len(s) + 1
  BY AppendProperties
<1>3. s # <<>> => /\ Head(s) \in Pieces
                  /\ Tail(s) \in Seq(Pieces) /\ Len(Tail(s)) = Len(s) - 1
  BY HeadTailProperties
<1> QED BY <1>1, <1>2, <1>3

(* Every step keeps the bounds of the queues. *)
LEMMA QueueStep ==
  ASSUME QueueTypes, ControlTypes, [Next]_vars
  PROVE  QueueTypes'
<1> USE CapAssumption DEF QueueTypes, ControlTypes
<1>1. CASE Connect
  BY <1>1, Queues DEF Connect
<1>2. CASE Connected
  BY <1>2, Queues DEF Connected
<1>3. CASE Disconnect
  BY <1>3, Queues DEF Disconnect
<1>4. CASE CloseConn
  BY <1>4, Queues DEF CloseConn
<1>5. CASE Cancel
  BY <1>5, Queues DEF Cancel
<1>6. CASE PeerSend
  <2>1. PICK p \in Pieces : incoming' = Append(incoming, p)
    BY <1>6 DEF PeerSend, Pieces
  <2>2. Len(incoming') = Len(incoming) + 1 /\ incoming' \in Seq(Pieces)
    BY <2>1, Queues
  <2> QED BY <1>6, <2>2, Queues DEF PeerSend
<1>7. CASE PeerCloses
  BY <1>7, Queues DEF PeerCloses
<1>8. CASE FramerRead
  <2>1. incoming' = incoming \/ (incoming # <<>> /\ incoming' = Tail(incoming))
    BY <1>8 DEF FramerRead, HasPiece
  <2>2. UNCHANGED <<sent, C, Out>>
    BY <1>8 DEF FramerRead
  <2> QED BY <2>1, <2>2, Queues
<1>9. CASE FramerEmit
  BY <1>9, Queues DEF FramerEmit
<1>10. CASE ReadBegin
  BY <1>10, Queues DEF ReadBegin
<1>11. CASE CloseErr
  BY <1>11, Queues DEF CloseErr
<1>12. CASE CloseOut
  BY <1>12, Queues DEF CloseOut
<1>13. CASE InternalRead
  BY <1>13, Queues DEF InternalRead, HasPiece
<1>14. CASE ReadFails
  BY <1>14, Queues DEF ReadFails
<1>15. CASE SendOut
  BY <1>15, Queues DEF SendOut
<1>16. CASE TakeErr
  BY <1>16, Queues DEF TakeErr
<1>17. CASE Forward
  BY <1>17, Queues DEF Forward
<1>18. CASE CancelReader
  BY <1>18, Queues DEF CancelReader
<1>19. CASE MonitorRange
  BY <1>19, Queues DEF MonitorRange
<1>20. CASE MonitorErr
  BY <1>20, Queues DEF MonitorErr
<1>21. CASE UNCHANGED vars
  BY <1>21, Queues DEF vars
<1> QED
  BY <1>1, <1>2, <1>3, <1>4, <1>5, <1>6, <1>7, <1>8, <1>9, <1>10, <1>11,
     <1>12, <1>13, <1>14, <1>15, <1>16, <1>17, <1>18, <1>19, <1>20, <1>21
     DEF Next, Reader, ReadLoop, Forwarder, Monitor

(* Every step keeps the types of the control variables. *)
LEMMA ControlStep ==
  ASSUME QueueTypes, ControlTypes, [Next]_vars
  PROVE  ControlTypes'
<1>0. incoming # <<>> => Head(incoming) \in Pieces
  BY Queues DEF QueueTypes
<1> USE <1>0 DEF ControlTypes, Pieces
<1>1. CASE Connect
  BY <1>1 DEF Connect
<1>2. CASE Connected
  BY <1>2 DEF Connected
<1>3. CASE Disconnect
  BY <1>3 DEF Disconnect
<1>4. CASE CloseConn
  BY <1>4 DEF CloseConn
<1>5. CASE Cancel
  BY <1>5 DEF Cancel
<1>6. CASE PeerSend
  BY <1>6 DEF PeerSend
<1>7. CASE PeerCloses
  BY <1>7 DEF PeerCloses
<1>8. CASE FramerRead
  <2>1. framer' \in {"read", "ended"} \cup Pieces
    <3>1. CASE framer' = "ended"
      BY <3>1
    <3>2. CASE HasPiece /\ \E whole \in BOOLEAN :
                 framer' = IF whole THEN Head(incoming) ELSE "read"
      BY <3>2, <1>0 DEF HasPiece
    <3> QED BY <1>8, <3>1, <3>2 DEF FramerRead
  <2> QED BY <1>8, <2>1 DEF FramerRead
<1>9. CASE FramerEmit
  BY <1>9 DEF FramerEmit
<1>10. CASE ReadBegin
  BY <1>10 DEF ReadBegin
<1>11. CASE CloseErr
  BY <1>11 DEF CloseErr
<1>12. CASE CloseOut
  BY <1>12 DEF CloseOut
<1>13. CASE InternalRead
  BY <1>13 DEF InternalRead
<1>14. CASE ReadFails
  BY <1>14 DEF ReadFails
<1>15. CASE SendOut
  BY <1>15 DEF SendOut
<1>16. CASE TakeErr
  BY <1>16 DEF TakeErr
<1>17. CASE Forward
  BY <1>17 DEF Forward
<1>18. CASE CancelReader
  BY <1>18 DEF CancelReader
<1>19. CASE MonitorRange
  BY <1>19 DEF MonitorRange
<1>20. CASE MonitorErr
  BY <1>20 DEF MonitorErr
<1>21. CASE UNCHANGED vars
  BY <1>21 DEF vars
<1> QED
  BY <1>1, <1>2, <1>3, <1>4, <1>5, <1>6, <1>7, <1>8, <1>9, <1>10, <1>11,
     <1>12, <1>13, <1>14, <1>15, <1>16, <1>17, <1>18, <1>19, <1>20, <1>21
     DEF Next, Reader, ReadLoop, Forwarder, Monitor

(* Every step keeps the flags Boolean. *)
LEMMA FlagStep ==
  ASSUME FlagTypes, [Next]_vars
  PROVE  FlagTypes'
<1> USE DEF FlagTypes
<1>1. CASE Connect
  BY <1>1 DEF Connect
<1>2. CASE Connected
  BY <1>2 DEF Connected
<1>3. CASE Disconnect
  BY <1>3 DEF Disconnect
<1>4. CASE CloseConn
  BY <1>4 DEF CloseConn
<1>5. CASE Cancel
  BY <1>5 DEF Cancel
<1>6. CASE PeerSend
  BY <1>6 DEF PeerSend
<1>7. CASE PeerCloses
  BY <1>7 DEF PeerCloses
<1>8. CASE FramerRead
  BY <1>8 DEF FramerRead, HasPiece
<1>9. CASE FramerEmit
  BY <1>9 DEF FramerEmit
<1>10. CASE ReadBegin
  BY <1>10 DEF ReadBegin
<1>11. CASE CloseErr
  BY <1>11 DEF CloseErr
<1>12. CASE CloseOut
  BY <1>12 DEF CloseOut
<1>13. CASE InternalRead
  BY <1>13 DEF InternalRead
<1>14. CASE ReadFails
  BY <1>14 DEF ReadFails
<1>15. CASE SendOut
  BY <1>15 DEF SendOut
<1>16. CASE TakeErr
  BY <1>16 DEF TakeErr
<1>17. CASE Forward
  BY <1>17 DEF Forward
<1>18. CASE CancelReader
  BY <1>18 DEF CancelReader
<1>19. CASE MonitorRange
  BY <1>19 DEF MonitorRange
<1>20. CASE MonitorErr
  BY <1>20 DEF MonitorErr
<1>21. CASE UNCHANGED vars
  BY <1>21 DEF vars
<1> QED
  BY <1>1, <1>2, <1>3, <1>4, <1>5, <1>6, <1>7, <1>8, <1>9, <1>10, <1>11,
     <1>12, <1>13, <1>14, <1>15, <1>16, <1>17, <1>18, <1>19, <1>20, <1>21
     DEF Next, Reader, ReadLoop, Forwarder, Monitor

(* Every step keeps the order in which goroutines start and end. *)
LEMMA ReaderStep ==
  ASSUME FlagTypes, ControlTypes, ReaderInv, [Next]_vars
  PROVE  ReaderInv'
<1> USE DEF FlagTypes, ControlTypes, ReaderInv, StartInv, ClosedInv, ErrorInv,
            MonitorInv
<1>1. CASE Connect
  BY <1>1 DEF Connect
<1>2. CASE Connected
  BY <1>2 DEF Connected
<1>3. CASE Disconnect
  BY <1>3 DEF Disconnect
<1>4. CASE CloseConn
  BY <1>4 DEF CloseConn
<1>5. CASE Cancel
  BY <1>5 DEF Cancel
<1>6. CASE PeerSend
  BY <1>6 DEF PeerSend
<1>7. CASE PeerCloses
  BY <1>7 DEF PeerCloses
<1>8. CASE FramerRead
  BY <1>8 DEF FramerRead, HasPiece
<1>9. CASE FramerEmit
  BY <1>9 DEF FramerEmit
<1>10. CASE ReadBegin
  BY <1>10 DEF ReadBegin
<1>11. CASE CloseErr
  BY <1>11 DEF CloseErr
<1>12. CASE CloseOut
  BY <1>12 DEF CloseOut
<1>13. CASE InternalRead
  BY <1>13 DEF InternalRead
<1>14. CASE ReadFails
  BY <1>14 DEF ReadFails
<1>15. CASE SendOut
  BY <1>15 DEF SendOut
<1>16. CASE TakeErr
  BY <1>16 DEF TakeErr
<1>17. CASE Forward
  BY <1>17 DEF Forward
<1>18. CASE CancelReader
  BY <1>18 DEF CancelReader
<1>19. CASE MonitorRange
  BY <1>19 DEF MonitorRange
<1>20. CASE MonitorErr
  BY <1>20 DEF MonitorErr
<1>21. CASE UNCHANGED vars
  BY <1>21 DEF vars
<1> QED
  BY <1>1, <1>2, <1>3, <1>4, <1>5, <1>6, <1>7, <1>8, <1>9, <1>10, <1>11,
     <1>12, <1>13, <1>14, <1>15, <1>16, <1>17, <1>18, <1>19, <1>20, <1>21
     DEF Next, Reader, ReadLoop, Forwarder, Monitor

(* A send on a closed channel comes after the end of the context. *)
LEMMA NoSendStep ==
  ASSUME FlagTypes, ControlTypes, ReaderInv, NoSendOnClosed, [Next]_vars
  PROVE  NoSendOnClosed'
<1> USE DEF ReaderInv, ClosedInv, ErrorInv, NoSendOnClosed
<1>1. CASE Connect
  BY <1>1 DEF Connect, FlagTypes, ControlTypes
<1>2. CASE Connected
  BY <1>2 DEF Connected, FlagTypes, ControlTypes
<1>3. CASE Disconnect
  BY <1>3 DEF Disconnect, FlagTypes, ControlTypes
<1>4. CASE CloseConn
  BY <1>4 DEF CloseConn, FlagTypes, ControlTypes
<1>5. CASE Cancel
  BY <1>5 DEF Cancel, FlagTypes, ControlTypes
<1>6. CASE PeerSend
  BY <1>6 DEF PeerSend, FlagTypes, ControlTypes
<1>7. CASE PeerCloses
  BY <1>7 DEF PeerCloses, FlagTypes, ControlTypes
<1>8. CASE FramerRead
  BY <1>8 DEF FramerRead, FlagTypes, ControlTypes
<1>9. CASE FramerEmit
  BY <1>9 DEF FramerEmit, FlagTypes, ControlTypes
<1>10. CASE ReadBegin
  BY <1>10 DEF ReadBegin, FlagTypes, ControlTypes
<1>11. CASE CloseErr
  BY <1>11 DEF CloseErr, FlagTypes, ControlTypes
<1>12. CASE CloseOut
  BY <1>12 DEF CloseOut, FlagTypes, ControlTypes
<1>13. CASE InternalRead
  BY <1>13 DEF InternalRead, FlagTypes, ControlTypes
<1>14. CASE ReadFails
  BY <1>14 DEF ReadFails, FlagTypes, ControlTypes
<1>15. CASE SendOut
  BY <1>15 DEF SendOut, FlagTypes, ControlTypes
<1>16. CASE TakeErr
  BY <1>16 DEF TakeErr, FlagTypes, ControlTypes
<1>17. CASE Forward
  BY <1>17 DEF Forward, FlagTypes, ControlTypes
<1>18. CASE CancelReader
  BY <1>18 DEF CancelReader, FlagTypes, ControlTypes
<1>19. CASE MonitorRange
  BY <1>19 DEF MonitorRange, FlagTypes, ControlTypes
<1>20. CASE MonitorErr
  BY <1>20 DEF MonitorErr, FlagTypes, ControlTypes
<1>21. CASE UNCHANGED vars
  BY <1>21 DEF vars, FlagTypes, ControlTypes
<1> QED
  BY <1>1, <1>2, <1>3, <1>4, <1>5, <1>6, <1>7, <1>8, <1>9, <1>10, <1>11,
     <1>12, <1>13, <1>14, <1>15, <1>16, <1>17, <1>18, <1>19, <1>20, <1>21
     DEF Next, Reader, ReadLoop, Forwarder, Monitor

-----------------------------------------------------------------------------
(***************************************************************************)
(* The invariant is one, and gives the properties.                         *)
(***************************************************************************)

THEOREM Invariance ==
  Spec => []IInv
<1>1. IInv /\ [Next]_vars => IInv'
  BY QueueStep, ControlStep, FlagStep, ReaderStep, NoSendStep DEF IInv
<1> QED BY <1>1, InitIInv, PTL DEF Spec

(* The types follow, with the order in which the channels are closed. *)
LEMMA TypeFromInv ==
  IInv => TypeOK
<1> SUFFICES ASSUME IInv PROVE TypeOK
  OBVIOUS
<1>1. {ctxDone, rdDone, err, Err, gotErr} \subseteq BOOLEAN
  BY DEF IInv, FlagTypes
<1>2. outClosed => errClosed
  BY DEF IInv, ReaderInv, ClosedInv
<1> QED
  BY <1>1, <1>2 DEF IInv, QueueTypes, ControlTypes, Pieces, TypeOK

(* A monitor that ends without the caller has seen the forwarder's error. *)
LEMMA ErrorFromInv ==
  IInv => ErrorSeen
<1> SUFFICES ASSUME IInv, monitor = "done", ~ctxDone
             PROVE  gotErr /\ Out = 0 /\ rd = "ended"
  BY DEF ErrorSeen
<1>1. gotErr /\ Out = 0 /\ outClosed
  BY DEF IInv, ReaderInv, MonitorInv
<1>2. rdDone
  BY <1>1 DEF IInv, ReaderInv, ClosedInv
<1>3. rd = "ended"
  BY <1>2 DEF IInv, ReaderInv, ErrorInv
<1> QED BY <1>1, <1>3

(***************************************************************************)
(* The types, the bounds of both channels, and Err closed before Out.      *)
(***************************************************************************)
THEOREM TypeCorrect ==
  Spec => []TypeOK
<1> QED BY Invariance, TypeFromInv, PTL

(***************************************************************************)
(* Without a cancelled context, ContextReader never sends on a channel it  *)
(* has closed (pkg/utils/context.go:17-71).                                *)
(***************************************************************************)
THEOREM NoSendOnClosedCorrect ==
  Spec => []NoSendOnClosed
<1> QED BY Invariance, PTL DEF IInv

(***************************************************************************)
(* The goroutine that watches a connection does not end before it has the  *)
(* error that ended the reading, nor with pieces left behind               *)
(* (pkg/api/client.go:162).                                                *)
(***************************************************************************)
THEOREM ErrorSeenCorrect ==
  Spec => []ErrorSeen
<1> QED BY Invariance, ErrorFromInv, PTL
=============================================================================
