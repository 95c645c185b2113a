------------------------------- MODULE Client -------------------------------
(***************************************************************************)
(* The client of the proxy: Connect and Disconnect of pkg/api/client.go    *)
(* with the goroutines they start, that is the framer's reader, the three  *)
(* goroutines of the ContextReader of pkg/utils/context.go and the one     *)
(* that watches it.  After Connect two goroutines read one connection.     *)
(*                                                                         *)
(* What arrives is a sequence of pieces; a piece after the response is     *)
(* some bytes, of which the framer may or may not make a packet.           *)
(***************************************************************************)
EXTENDS Naturals, Sequences

CONSTANTS
  OutCap, FramerCap,   \* capacities of ContextReader.Out and of framer.C
  MaxPieces            \* the bound on what the proxy sends

ASSUME CapAssumption ==
  OutCap \in Nat \ {0} /\ FramerCap \in Nat \ {0} /\ MaxPieces \in Nat

VARIABLES
  caller,     \* what the goroutine that uses the client does next
  State,
  conn,       \* "none", "open" or, after conn.Close(), "closed"
  incoming,   \* pieces that arrived and that nobody has read
  sent,       \* how many the proxy has sent
  peer,       \* the proxy's end: "open", "eof" or "reset"
  framer, C,  \* the goroutine of FrameWithReader, and its channel
  ctxDone,    \* the context given to Connect is done
  rdDone,     \* the context made by ContextReader.Read is cancelled
  outer,      \* the goroutine of ContextReader.Read
  rd,         \* internalRead; "eof" if it ended without an error to report
  err,        \* is there an error in internalRead's channel?
  fwd,        \* the goroutine that forwards it
  Out, outClosed,   \* how many pieces are in ContextReader.Out
  Err, errClosed,   \* is there an error in ContextReader.Err?
  monitor,    \* the goroutine that Connect starts last
  gotErr,     \* the monitor has received an error
  exit

callVars == <<caller, State, conn>>
wireVars == <<incoming, sent, peer>>
framerVars == <<framer, C>>
readerVars == <<rdDone, outer, rd, err, fwd, Out, outClosed, Err, errClosed>>
monVars == <<monitor, gotErr>>
vars == <<callVars, wireVars, framerVars, ctxDone, readerVars, monVars, exit>>

Init ==
  /\ caller = "connect" /\ State = "initialized" /\ conn = "none"
  /\ incoming = <<>> /\ sent = 0 /\ peer = "open"
  /\ framer = "off" /\ C = <<>>
  /\ ctxDone = FALSE /\ rdDone = FALSE
  /\ outer = "off" /\ rd = "off" /\ err = FALSE /\ fwd = "off"
  /\ Out = 0 /\ outClosed = FALSE /\ Err = FALSE /\ errClosed = FALSE
  /\ monitor = "off" /\ gotErr = FALSE
  /\ exit = "none"

-----------------------------------------------------------------------------
(* Connect: dial, start the framer, send the authentication packet. *)
Connect ==
  /\ caller = "connect"
  /\ \/ /\ State' = "authenticating" /\ conn' = "open" /\ framer' = "read"
        /\ caller' = "await"
        /\ UNCHANGED exit
     \/ /\ State' = "connecting"
        /\ exit' = "could_not_connect"
        /\ UNCHANGED <<caller, conn, framer>>
  /\ UNCHANGED <<wireVars, C, ctxDone, readerVars, monVars>>

(* rsp := <-framer.C and the assertions on it; then the reader, the monitor *)
Connected ==
  /\ caller = "await" /\ C # <<>>
  /\ C' = Tail(C)
  /\ IF Head(C) = "AuthResponse"
       THEN /\ caller' = "connected" /\ outer' = "begin" /\ monitor' = "range"
            /\ UNCHANGED exit
       ELSE /\ exit' = "no_auth_response"
            /\ UNCHANGED <<caller, outer, monitor>>
  /\ UNCHANGED <<State, conn, wireVars, framer, ctxDone, rdDone, rd, err, fwd,
                 Out, outClosed, Err, errClosed, gotErr>>

(* Disconnect: the close packet (a failed write is only logged) ... *)
Disconnect ==
  /\ caller = "connected"
  /\ caller' = "close"
  /\ UNCHANGED <<State, conn, wireVars, framerVars, ctxDone, readerVars, monVars, exit>>

(* ... and conn.Close(). *)
CloseConn ==
  /\ caller = "close"
  /\ caller' = "closed" /\ conn' = "closed"
  /\ UNCHANGED <<State, wireVars, framerVars, ctxDone, readerVars, monVars, exit>>

(* The context that was given to Connect. *)
Cancel ==
  /\ ~ctxDone
  /\ ctxDone' = TRUE
  /\ UNCHANGED <<callVars, wireVars, framerVars, readerVars, monVars, exit>>

-----------------------------------------------------------------------------
(* The proxy: a response or an error packet, then what the game sends. *)
PeerSend ==
  /\ peer = "open" /\ conn # "none" /\ sent < MaxPieces
  /\ \E p \in IF sent = 0 THEN {"AuthResponse", "Error"} ELSE {"data"} :
        incoming' = Append(incoming, p)
  /\ sent' = sent + 1
  /\ UNCHANGED <<callVars, peer, framerVars, ctxDone, readerVars, monVars, exit>>

PeerCloses ==
  /\ peer = "open" /\ conn # "none"
  /\ peer' \in {"eof", "reset"}
  /\ UNCHANGED <<callVars, incoming, sent, framerVars, ctxDone, readerVars, monVars, exit>>

-----------------------------------------------------------------------------
(* conn.Read: fails with io.EOF after the last piece, at once otherwise. *)
HasPiece == conn = "open" /\ peer # "reset" /\ incoming # <<>>
AtEOF == conn = "open" /\ peer = "eof" /\ incoming = <<>>
Broken == conn = "closed" \/ peer = "reset"

(* FrameWithReader *)
FramerRead ==
  /\ framer = "read"
  /\ \/ /\ HasPiece
        /\ incoming' = Tail(incoming)
        /\ \E whole \in {TRUE} \cup (IF Head(incoming) = "data" THEN {FALSE} ELSE {}) :
             framer' = IF whole THEN Head(incoming) ELSE "read"
     \/ /\ AtEOF \/ Broken
        /\ framer' = "ended"
        /\ UNCHANGED incoming
  /\ UNCHANGED <<callVars, sent, peer, C, ctxDone, readerVars, monVars, exit>>

FramerEmit ==
  /\ framer \in {"AuthResponse", "Error", "data"} /\ Len(C) < FramerCap
  /\ C' = Append(C, framer)
  /\ framer' = "read"
  /\ UNCHANGED <<callVars, wireVars, ctxDone, readerVars, monVars, exit>>

-----------------------------------------------------------------------------
(* ContextReader.Read *)
ReadBegin ==
  /\ outer = "begin"
  /\ outer' = "wait" /\ rd' = "read" /\ fwd' = "wait"
  /\ UNCHANGED <<callVars, wireVars, framerVars, ctxDone, rdDone, err, Out,
                 outClosed, Err, errClosed, monVars, exit>>

(* Mutant of CloseErr: Out is closed first. *)
CloseErrSwapped ==
  /\ outer = "wait" /\ (ctxDone \/ rdDone)
  /\ outer' = "close" /\ outClosed' = TRUE
  /\ UNCHANGED <<callVars, wireVars, framerVars, ctxDone, rdDone, rd, err, fwd,
                 Out, Err, errClosed, monVars, exit>>

(* <-ctx.Done() and the deferred closing of both channels, in this order. *)
CloseErr ==
  /\ outer = "wait" /\ (ctxDone \/ rdDone)
  /\ outer' = "close" /\ errClosed' = TRUE
  /\ UNCHANGED <<callVars, wireVars, framerVars, ctxDone, rdDone, rd, err, fwd,
                 Out, outClosed, Err, monVars, exit>>

CloseOut ==
  /\ outer = "close"
  /\ outer' = "ended" /\ outClosed' = TRUE
  /\ UNCHANGED <<callVars, wireVars, framerVars, ctxDone, rdDone, rd, err, fwd,
                 Out, Err, errClosed, monVars, exit>>

(* internalRead *)
InternalRead ==
  /\ rd = "read" /\ HasPiece
  /\ incoming' = Tail(incoming)
  /\ rd' = "send"
  /\ UNCHANGED <<callVars, sent, peer, framerVars, ctxDone, rdDone, outer, err,
                 fwd, Out, outClosed, Err, errClosed, monVars, exit>>

(* Mutant of ReadFails: a connection closed by Disconnect is no error. *)
ReadFailsQuietly ==
  /\ rd = "read" /\ (AtEOF \/ Broken)
  /\ err' = (conn = "open" /\ ~AtEOF)
  /\ rd' = IF AtEOF THEN "eof" ELSE "ended"
  /\ UNCHANGED <<callVars, wireVars, framerVars, ctxDone, rdDone, outer, fwd,
                 Out, outClosed, Err, errClosed, monVars, exit>>

ReadFails ==
  /\ rd = "read" /\ (AtEOF \/ Broken)
  /\ err' = ~AtEOF
  /\ rd' = IF AtEOF THEN "eof" ELSE "ended"
  /\ UNCHANGED <<callVars, wireVars, framerVars, ctxDone, rdDone, outer, fwd,
                 Out, outClosed, Err, errClosed, monVars, exit>>

(* out <- o; a closed channel panics, also while the send is blocked. *)
SendOut ==
  /\ rd = "send" /\ (outClosed \/ Out < OutCap)
  /\ IF outClosed
       THEN exit' = "send_on_closed_channel" /\ UNCHANGED <<rd, Out>>
       ELSE rd' = "read" /\ Out' = Out + 1 /\ UNCHANGED exit
  /\ UNCHANGED <<callVars, wireVars, framerVars, ctxDone, rdDone, outer, err,
                 fwd, outClosed, Err, errClosed, monVars>>

-----------------------------------------------------------------------------
(* The forwarder: e := <-err; c.Err <- e; cancel(). *)
TakeErr ==
  /\ fwd = "wait" /\ err
  /\ err' = FALSE
  /\ fwd' = "send"
  /\ UNCHANGED <<callVars, wireVars, framerVars, ctxDone, rdDone, outer, rd,
                 Out, outClosed, Err, errClosed, monVars, exit>>

(* Mutants of Forward: cancel() comes first; the error is forgotten. *)
ForwardCancelsFirst ==
  /\ fwd = "send"
  /\ IF ~rdDone
       THEN rdDone' = TRUE /\ UNCHANGED <<fwd, Err, exit>>
       ELSE IF errClosed
              THEN exit' = "send_on_closed_channel" /\ UNCHANGED <<fwd, Err, rdDone>>
              ELSE Err' = TRUE /\ fwd' = "cancel" /\ UNCHANGED <<rdDone, exit>>
  /\ UNCHANGED <<callVars, wireVars, framerVars, ctxDone, outer, rd, err,
                 Out, outClosed, errClosed, monVars>>

ForwardNothing ==
  /\ fwd = "send"
  /\ fwd' = "cancel"
  /\ UNCHANGED <<callVars, wireVars, framerVars, ctxDone, rdDone, outer, rd, err,
                 Out, outClosed, Err, errClosed, monVars, exit>>

Forward ==
  /\ fwd = "send"
  /\ IF errClosed
       THEN exit' = "send_on_closed_channel" /\ UNCHANGED <<fwd, Err>>
       ELSE Err' = TRUE /\ fwd' = "cancel" /\ UNCHANGED exit
  /\ UNCHANGED <<callVars, wireVars, framerVars, ctxDone, rdDone, outer, rd, err,
                 Out, outClosed, errClosed, monVars>>

CancelReader ==
  /\ fwd = "cancel"
  /\ fwd' = "ended" /\ rdDone' = TRUE
  /\ UNCHANGED <<callVars, wireVars, framerVars, ctxDone, outer, rd, err, Out,
                 outClosed, Err, errClosed, monVars, exit>>

-----------------------------------------------------------------------------
(* The monitor: range over Out, then one receive from Err. *)
MonitorRange ==
  /\ monitor = "range"
  /\ \/ Out > 0 /\ Out' = Out - 1 /\ UNCHANGED monitor
     \/ Out = 0 /\ outClosed /\ monitor' = "err" /\ UNCHANGED Out
  /\ UNCHANGED <<callVars, wireVars, framerVars, ctxDone, rdDone, outer, rd, err,
                 fwd, outClosed, Err, errClosed, gotErr, exit>>

MonitorErr ==
  /\ monitor = "err" /\ (Err \/ errClosed)
  /\ gotErr' = Err /\ Err' = FALSE
  /\ State' = "disconnected"
  /\ monitor' = "done"
  /\ UNCHANGED <<caller, conn, wireVars, framerVars, ctxDone, rdDone, outer, rd,
                 err, fwd, Out, outClosed, errClosed, exit>>

Reader == ReadBegin \/ CloseErr \/ CloseOut
ReadLoop == InternalRead \/ ReadFails \/ SendOut
Forwarder == TakeErr \/ Forward \/ CancelReader
Monitor == MonitorRange \/ MonitorErr

Next ==
  /\ exit = "none"
  /\ \/ Connect \/ Connected \/ Disconnect \/ CloseConn \/ Cancel
     \/ PeerSend \/ PeerCloses
     \/ FramerRead \/ FramerEmit
     \/ Reader \/ ReadLoop \/ Forwarder \/ Monitor

Spec == Init /\ [][Next]_vars

(* Goroutines that can run do, and Disconnect comes to its end. *)
FairSpec ==
  /\ Spec
  /\ WF_vars(exit = "none" /\ CloseConn)
  /\ WF_vars(exit = "none" /\ Reader)
  /\ WF_vars(exit = "none" /\ ReadLoop)
  /\ WF_vars(exit = "none" /\ Forwarder)
  /\ WF_vars(exit = "none" /\ Monitor)

-----------------------------------------------------------------------------
(***************************************************************************)
(* Every variable has its type; Out is closed after Err.                   *)
(***************************************************************************)
TypeOK ==
  /\ caller \in {"connect", "await", "connected", "close", "closed"}
  /\ State \in {"initialized", "connecting", "authenticating", "disconnected"}
  /\ conn \in {"none", "open", "closed"} /\ peer \in {"open", "eof", "reset"}
  /\ Len(incoming) <= sent /\ sent <= MaxPieces
  /\ framer \in {"off", "read", "AuthResponse", "Error", "data", "ended"}
  /\ Len(C) <= FramerCap
  /\ outer \in {"off", "begin", "wait", "close", "ended"}
  /\ rd \in {"off", "read", "send", "ended", "eof"}
  /\ fwd \in {"off", "wait", "send", "cancel", "ended"}
  /\ Out \in 0..OutCap /\ {ctxDone, rdDone, err, Err, gotErr} \subseteq BOOLEAN
  /\ outClosed => errClosed
  /\ monitor \in {"off", "range", "err", "done"}

(***************************************************************************)
(* context.go: closing the channels never meets a goroutine that still     *)
(* sends, unless the context given to Connect is cancelled meanwhile.      *)
(***************************************************************************)
NoSendOnClosed == exit = "send_on_closed_channel" => ctxDone

(***************************************************************************)
(* client.go:162: when the monitor ends without the caller's context, it   *)
(* has received the error that ended the reading, and no piece that was    *)
(* read is left in Out or on its way there.                                *)
(***************************************************************************)
ErrorSeen ==
  monitor = "done" /\ ~ctxDone => gotErr /\ Out = 0 /\ rd = "ended"

(***************************************************************************)
(* Disconnect makes WaitForDone return, unless internalRead has met the    *)
(* end of the stream before the connection was closed (context.go:30).     *)
(***************************************************************************)
DisconnectEnds ==
  caller = "closed" ~> exit # "none" \/ monitor = "done" \/ rd = "eof"
=============================================================================
