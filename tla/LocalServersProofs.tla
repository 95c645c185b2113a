-------------------------- MODULE LocalServersProofs --------------------------
(***************************************************************************)
(* Proofs about LocalServers, for any set of servers, started before or    *)
(* later: the types, and that a shutdown in the order of ServerState.Close *)
(* makes no child look as if it had ended unexpectedly, with the exception *)
(* that the property names.                                                *)
(***************************************************************************)
EXTENDS LocalServers, TLAPS

USE DEF childVars, ctxVars, endVars

-----------------------------------------------------------------------------
(***************************************************************************)
(* The inductive invariant.                                                *)
(***************************************************************************)

(* The contexts: the proxy's is done once the caller's is, and once the
   proxy has been closed. *)
ContextInv ==
  /\ outerDone => proxyDone
  /\ main # "open" => proxyDone

(* A server's goroutine, its command and its server begin one after the
   other, and a watch follows the command. *)
StartInv(s) ==
  /\ sup[s] \in {"none", "spawned"} => command[s] = "none"
  /\ command[s] = "none" => server[s] \in {"none", "crashed"}
  /\ sup[s] = "wait" \/ watch[s] = "on" => command[s] # "none"

Ended(s) == server[s] \in {"closed", "crashed"}

(* LocalServers.Close may have killed the commands of these servers while
   their context goes on. *)
MayBeKilled(s) == s \in Hydrated /\ main \in {"visit", "closed"}

(***************************************************************************)
(* While a child's context goes on, its command is dead only after its     *)
(* server, or by LocalServers.Close; its goroutine finds out after that.   *)
(* What it has found it keeps: when it queries the row, the context may be *)
(* done, but the end of the command was not the work of the context.       *)
(***************************************************************************)
EndInv(s) ==
  /\ command[s] = "dead" /\ ~CtxDone(s) => Ended(s) \/ MayBeKilled(s)
  /\ sup[s] \in {"check", "query"} => command[s] # "alive"
  /\ sup[s] = "check" /\ ~CtxDone(s) => Ended(s) \/ MayBeKilled(s)
  /\ sup[s] = "query" => Ended(s) \/ MayBeKilled(s)

ServerInv == \A s \in Servers : StartInv(s) /\ EndInv(s)

IInv == TypeOK /\ ContextInv /\ ServerInv /\ OnlyCrashesAreUnexpected

(* The invariant holds initially. *)
LEMMA InitIInv ==
  Init => IInv
<1> SUFFICES ASSUME Init PROVE IInv
  OBVIOUS
<1>1. TypeOK
  BY ServersAssumption DEF Init, TypeOK, created
<1>2. ServerInv
  BY DEF Init, ServerInv, StartInv, EndInv
<1>3. ContextInv /\ OnlyCrashesAreUnexpected
  BY DEF Init, ContextInv, OnlyCrashesAreUnexpected
<1> QED BY <1>1, <1>2, <1>3 DEF IInv

-----------------------------------------------------------------------------
(* What the goroutine of a server does, or the server: they leave the
   contexts, the closing and the other servers alone. *)
Child(s) ==
  \/ CreateNewServer(s) \/ Supervise(s) \/ WatchDone(s)
  \/ ServerStarts(s) \/ ServerEnds(s) \/ CommandEnds(s)

(* The types of one server's state, and the lists it is in. *)
LEMMA ChildTypes ==
  ASSUME TypeOK, NEW s \in Servers, StartInv(s), Child(s)
  PROVE  TypeOK'
<1> USE DEF TypeOK, created
<1>1. CASE CreateNewServer(s)
  BY <1>1 DEF CreateNewServer
<1>2. CASE Append(s)
  BY <1>2 DEF Append
<1>3. CASE CmdStart(s)
  BY <1>3 DEF CmdStart
<1>4. CASE CmdStartFails(s)
  BY <1>4 DEF CmdStartFails
<1>5. CASE CmdWait(s)
  BY <1>5 DEF CmdWait
<1>6. CASE CheckContext(s)
  BY <1>6 DEF CheckContext
<1>11. CASE CmdrClosed(s)
  BY <1>11 DEF CmdrClosed
<1>12. CASE CmdrClosedUnexpectedly(s)
  <2>1. dbFailed' \in BOOLEAN
    BY <1>12, Zenon DEF CmdrClosedUnexpectedly, ClosedRow
  <2> QED BY <1>12, <2>1 DEF CmdrClosedUnexpectedly
<1>7. CASE WatchDone(s)
  BY <1>7 DEF WatchDone, Kill
<1>8. CASE ServerStarts(s)
  BY <1>8 DEF ServerStarts
<1>9. CASE ServerEnds(s)
  BY <1>9 DEF ServerEnds
<1>10. CASE CommandEnds(s)
  BY <1>10 DEF CommandEnds
<1> QED BY <1>1, <1>2, <1>3, <1>4, <1>5, <1>6, <1>7, <1>8, <1>9, <1>10,
           <1>11, <1>12
        DEF Child, Supervise

(* Only the goroutine that finds its child ended may end the process. *)
LEMMA ChildServerInv ==
  ASSUME TypeOK, ServerInv, ContextInv, NEW s \in Servers, Child(s)
  PROVE  ServerInv' /\ ContextInv'
<1> USE DEF TypeOK, StartInv, EndInv, Ended, MayBeKilled, CtxDone
<1>1. UNCHANGED <<main, ctxVars>>
  BY DEF Child, Supervise, CreateNewServer, Append, CmdStart, CmdStartFails,
         CmdWait, CheckContext, CmdrClosed, CmdrClosedUnexpectedly, WatchDone, ServerStarts, ServerEnds, CommandEnds
<1>2. ContextInv'
  BY <1>1 DEF ContextInv
<1>3. ASSUME NEW t \in Servers, t # s PROVE StartInv(t)' /\ EndInv(t)'
  <2>1. UNCHANGED <<sup[t], watch[t], command[t], server[t]>>
    BY <1>3 DEF Child, Supervise, CreateNewServer, Append, CmdStart,
       CmdStartFails, CmdWait, CheckContext, CmdrClosed, CmdrClosedUnexpectedly,
       WatchDone, Kill, ServerStarts,
       ServerEnds, CommandEnds
  <2> QED BY <1>1, <2>1 DEF ServerInv
<1>4. StartInv(s)' /\ EndInv(s)'
  <2>0. StartInv(s) /\ EndInv(s)
    BY DEF ServerInv
  <2>1. CASE CreateNewServer(s)
    BY <2>0, <2>1 DEF CreateNewServer
  <2>2. CASE Append(s)
    BY <2>0, <2>2 DEF Append
  <2>3. CASE CmdStart(s)
    BY <2>0, <2>3 DEF CmdStart
  <2>4. CASE CmdStartFails(s)
    BY <2>0, <2>4 DEF CmdStartFails
  <2>5. CASE CmdWait(s)
    BY <2>0, <2>5 DEF CmdWait
  <2>6. CASE CheckContext(s)
    BY <2>0, <2>6 DEF CheckContext
  <2>11. CASE CmdrClosed(s)
    BY <2>0, <2>11 DEF CmdrClosed
  <2>12. CASE CmdrClosedUnexpectedly(s)
    BY <2>0, <2>12 DEF CmdrClosedUnexpectedly
  <2>7. CASE WatchDone(s)
    BY <2>0, <2>7 DEF WatchDone, Kill
  <2>8. CASE ServerStarts(s)
    BY <2>0, <2>8 DEF ServerStarts
  <2>9. CASE ServerEnds(s)
    BY <2>0, <2>9 DEF ServerEnds
  <2>10. CASE CommandEnds(s)
    BY <2>0, <2>10 DEF CommandEnds
  <2> QED BY <2>1, <2>2, <2>3, <2>4, <2>5, <2>6, <2>7, <2>8, <2>9, <2>10,
             <2>11, <2>12
          DEF Child, Supervise
<1> QED BY <1>2, <1>3, <1>4 DEF ServerInv

(***************************************************************************)
(* A goroutine that queries its row has a server that has ended, or was    *)
(* killed as a child of CreateEnvironment: so an end that is taken for     *)
(* unexpected is a crash, a row that could not be read, or that exception. *)
(***************************************************************************)
LEMMA ChildExit ==
  ASSUME TypeOK, ServerInv, ContextInv, exit = "none",
         NEW s \in Servers, Child(s)
  PROVE  OnlyCrashesAreUnexpected'
<1>1. CASE CmdrClosedUnexpectedly(s)
  <2>1. /\ sup[s] = "query"
        /\ dbFailed' = ClosedRow(s)
        /\ UNCHANGED <<sup, command, server, main, ctxVars>>
    BY <1>1 DEF CmdrClosedUnexpectedly
  <2>2. command[s] # "alive" /\ (Ended(s) \/ MayBeKilled(s))
    BY <2>1 DEF ServerInv, EndInv
  <2>3. server[s] = "closed" => dbFailed' \/ main = "closed"
    BY <2>1 DEF ClosedRow
  <2> QED BY <2>1, <2>2, <2>3 DEF OnlyCrashesAreUnexpected, Ended, MayBeKilled
<1>2. CASE ~CmdrClosedUnexpectedly(s)
  <2>1. exit' = "none"
    BY <1>2 DEF Child, Supervise, CreateNewServer, Append, CmdStart,
       CmdStartFails, CmdWait, CheckContext, CmdrClosed, WatchDone,
       ServerStarts, ServerEnds, CommandEnds
  <2> QED BY <2>1 DEF OnlyCrashesAreUnexpected
<1> QED BY <1>1, <1>2

-----------------------------------------------------------------------------
(* Contexts end and the proxy is closed: no child does anything. *)
LEMMA ContextStep ==
  ASSUME IInv, exit = "none",
         Cancel \/ CloseProxy \/ CloseServers \/ CloseDone
  PROVE  IInv'
<1>1. UNCHANGED <<childVars, exit>>
  BY DEF Cancel, CloseProxy, CloseServers, CloseDone
<1>2. TypeOK' /\ ContextInv'
  BY DEF IInv, TypeOK, created, ContextInv, Cancel, CloseProxy, CloseServers,
         CloseDone
<1>3. /\ \A s \in Servers : CtxDone(s) => CtxDone(s)'
      /\ \A s \in Servers : MayBeKilled(s) => MayBeKilled(s)'
  BY DEF CtxDone, MayBeKilled, Cancel, CloseProxy, CloseServers, CloseDone,
         IInv, TypeOK
<1>4. ServerInv'
  BY <1>1, <1>3 DEF IInv, ServerInv, StartInv, EndInv, Ended
<1>5. OnlyCrashesAreUnexpected'
  BY <1>1 DEF OnlyCrashesAreUnexpected
<1> QED BY <1>2, <1>4, <1>5 DEF IInv

(* LocalServers.Close kills a command whose server runs: its context is
   done, unless CreateEnvironment has created it. *)
LEMMA CloseServerStep ==
  ASSUME IInv, exit = "none", NEW s \in Servers, CloseServer(s)
  PROVE  IInv'
<1> USE DEF IInv, TypeOK, CloseServer, Kill
<1>1. TypeOK'
  BY DEF created
<1>2. ContextInv'
  BY DEF ContextInv
<1>3. main = "visit" /\ proxyDone
  BY DEF ContextInv
<1>4. CtxDone(s) \/ MayBeKilled(s)
  BY <1>3 DEF CtxDone, MayBeKilled
<1>5. ServerInv'
  <2> SUFFICES ASSUME NEW t \in Servers PROVE StartInv(t)' /\ EndInv(t)'
    BY DEF ServerInv
  <2>1. UNCHANGED <<main, ctxVars, sup, watch, server>>
    OBVIOUS
  <2>2. /\ command[s] = "none" => command' = command
        /\ t # s => command'[t] = command[t]
        /\ command[s] # "none" => command'[s] = "dead"
    OBVIOUS
  <2>3. StartInv(t) /\ EndInv(t)
    BY DEF ServerInv
  <2> QED BY <1>4, <2>1, <2>2, <2>3
          DEF StartInv, EndInv, CtxDone, MayBeKilled, Ended
<1>6. OnlyCrashesAreUnexpected'
  BY DEF OnlyCrashesAreUnexpected
<1> QED BY <1>1, <1>2, <1>5, <1>6

-----------------------------------------------------------------------------
THEOREM Invariance ==
  Spec => []IInv
<1>1. IInv /\ [Next]_vars => IInv'
  <2> SUFFICES ASSUME IInv, [Next]_vars PROVE IInv'
    OBVIOUS
  <2>1. CASE exit = "none" /\ \E s \in Servers : Child(s)
    BY <2>1, ChildTypes, ChildServerInv, ChildExit DEF IInv, ServerInv
  <2>2. CASE exit = "none" /\ (Cancel \/ CloseProxy \/ CloseServers \/ CloseDone)
    BY <2>2, ContextStep
  <2>3. CASE exit = "none" /\ \E s \in Servers : CloseServer(s)
    BY <2>3, CloseServerStep
  <2>4. CASE UNCHANGED vars
    BY <2>4 DEF vars, IInv, TypeOK, created, ContextInv, ServerInv, StartInv,
       EndInv, Ended, MayBeKilled, CtxDone, OnlyCrashesAreUnexpected
  <2> QED BY <2>1, <2>2, <2>3, <2>4 DEF Next, Child, Close
<1> QED BY <1>1, InitIInv, PTL DEF Spec

(***************************************************************************)
(* The types; servers are visited when they are listed, and listed when    *)
(* they have been created.                                                 *)
(***************************************************************************)
THEOREM TypeCorrect ==
  Spec => []TypeOK
<1> QED BY Invariance, PTL DEF IInv

(***************************************************************************)
(* Closing proxy, servers and database in this order, whatever is being    *)
(* created or ends meanwhile, no child of the proxy whose server runs is   *)
(* taken for one that ended unexpectedly (local.go:120); one that left a   *)
(* Closed row is only if that row could not be read, also when the         *)
(* shutdown falls between the check of the context and the query.          *)
(***************************************************************************)
THEOREM OnlyCrashesAreUnexpectedCorrect ==
  Spec => []OnlyCrashesAreUnexpected
<1> QED BY Invariance, PTL DEF IInv
=============================================================================
