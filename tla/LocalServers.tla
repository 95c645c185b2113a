---------------------------- MODULE LocalServers ----------------------------
(***************************************************************************)
(* The child processes of the proxy and how everything is shut down:       *)
(* pkg/cmd/cmd.go, the goroutine that CreateNewServer of                   *)
(* pkg/server-management/local.go starts for each child, LocalServers'     *)
(* Close, and ServerState's Close of e2e-tests/sim/state.go, which closes  *)
(* the proxy, the servers and the database in this order.  The servers     *)
(* that createServer of create_env.go has started are ready when the       *)
(* environment is handed out, which is where the behaviours begin.         *)
(*                                                                         *)
(* A child is the command "go run ...", which has the game server as a     *)
(* child of its own: Cmder.Close kills the command only.                   *)
(***************************************************************************)
EXTENDS Naturals, FiniteSets

CONSTANTS
  Servers,    \* the servers there may be
  Hydrated,   \* the ones CreateEnvironment has started before
  DbMayFail   \* may a query fail?  (GetById drops the error)

ASSUME ServersAssumption ==
  /\ IsFiniteSet(Servers)
  /\ Hydrated \subseteq Servers
  /\ DbMayFail \in BOOLEAN

VARIABLES
  main,      \* what ServerState.Close does next
  todo,      \* the servers LocalServers.Close has still to visit
  outerDone, \* the caller's context is cancelled
  proxyDone, \* the proxy's own context, a child of it, is cancelled
  listed,    \* LocalServers.servers
  sup,       \* where each server's goroutine is
  watch,     \* the goroutine of Cmder.Run that waits for the context
  command,   \* the command's process
  server,    \* the game server: "closed" and "crashed" are its two ends,
             \* with a Closed row and without
  exit,      \* how the proxy process ended, "none" while it runs
  dbFailed   \* history: the query that ended it failed on an open database

childVars == <<listed, sup, watch, command, server>>
ctxVars == <<outerDone, proxyDone>>
endVars == <<exit, dbFailed>>
vars == <<main, todo, ctxVars, childVars, endVars>>

Init ==
  /\ main = "open" /\ todo = {}
  /\ outerDone = FALSE /\ proxyDone = FALSE
  /\ listed = Hydrated
  /\ sup = [s \in Servers |-> IF s \in Hydrated THEN "wait" ELSE "none"]
  /\ watch = [s \in Servers |-> IF s \in Hydrated THEN "on" ELSE "off"]
  /\ command = [s \in Servers |-> IF s \in Hydrated THEN "alive" ELSE "none"]
  /\ server = [s \in Servers |-> IF s \in Hydrated THEN "up" ELSE "none"]
  /\ exit = "none" /\ dbFailed = FALSE

-----------------------------------------------------------------------------
(***************************************************************************)
(* CreateNewServer starts the goroutine and then appends to the list.      *)
(* Matchmaking creates one server at a time (MatchMaking!SingleLeader),    *)
(* and may still do so while the proxy closes.                             *)
(***************************************************************************)
created == {s \in Servers : sup[s] # "none"}

CreateNewServer(s) ==
  /\ sup[s] = "none" /\ created = listed
  /\ sup' = [sup EXCEPT ![s] = "spawned"]
  /\ UNCHANGED <<main, todo, ctxVars, listed, watch, command, server, endVars>>

Append(s) ==
  /\ s \in created \ listed
  /\ listed' = listed \cup {s}
  /\ UNCHANGED <<main, todo, ctxVars, sup, watch, command, server, endVars>>

-----------------------------------------------------------------------------
(* Mutant of CmdStart: nobody waits for the context. *)
CmdStartUnwatched(s) ==
  /\ sup[s] = "spawned"
  /\ sup' = [sup EXCEPT ![s] = "wait"]
  /\ command' = [command EXCEPT ![s] = "alive"]
  /\ UNCHANGED <<main, todo, ctxVars, listed, watch, server, endVars>>

(* Cmder.Run: start the command, and a goroutine that waits for the context. *)
CmdStart(s) ==
  /\ sup[s] = "spawned"
  /\ sup' = [sup EXCEPT ![s] = "wait"]
  /\ command' = [command EXCEPT ![s] = "alive"]
  /\ watch' = [watch EXCEPT ![s] = "on"]
  /\ UNCHANGED <<main, todo, ctxVars, listed, server, endVars>>

(* An error before or from Start: there will be no server, nor a row. *)
CmdStartFails(s) ==
  /\ sup[s] = "spawned"
  /\ sup' = [sup EXCEPT ![s] = "check"]
  /\ server' = [server EXCEPT ![s] = "crashed"]
  /\ UNCHANGED <<main, todo, ctxVars, listed, watch, command, endVars>>

(* createServer of create_env.go passes the caller's context to the child's
   Cmder, matchmake that of the proxy. *)
CtxDone(s) == IF s \in Hydrated THEN outerDone ELSE proxyDone

(* Cmder.Close on a started command; killing a dead one only logs an error. *)
Kill(s) == command' = [command EXCEPT ![s] = "dead"]

WatchDone(s) ==
  /\ watch[s] = "on" /\ CtxDone(s)
  /\ watch' = [watch EXCEPT ![s] = "off"]
  /\ Kill(s)
  /\ UNCHANGED <<main, todo, ctxVars, listed, sup, server, endVars>>

CmdWait(s) ==
  /\ sup[s] = "wait" /\ command[s] = "dead"
  /\ sup' = [sup EXCEPT ![s] = "check"]
  /\ UNCHANGED <<main, todo, ctxVars, listed, watch, command, server, endVars>>

(***************************************************************************)
(* The goroutine of CreateNewServer once Run has returned: first it asks   *)
(* whether the context is done, and only if not does it query the row.     *)
(* Contexts, servers and the database may all be closed in between.        *)
(***************************************************************************)
CheckContext(s) ==
  /\ sup[s] = "check"
  /\ sup' = [sup EXCEPT ![s] = IF CtxDone(s) THEN "ended" ELSE "query"]
  /\ UNCHANGED <<main, todo, ctxVars, listed, watch, command, server, endVars>>

(* Nobody finds a Closed row once the database is closed. *)
ClosedRow(s) == server[s] = "closed" /\ main # "closed"

CmdrClosed(s) ==
  /\ sup[s] = "query"
  /\ ClosedRow(s)
  /\ sup' = [sup EXCEPT ![s] = "ended"]
  /\ UNCHANGED <<main, todo, ctxVars, listed, watch, command, server, endVars>>

(* No row, another row, or a query that failed: assert.Never. *)
CmdrClosedUnexpectedly(s) ==
  /\ sup[s] = "query"
  /\ DbMayFail \/ ~ClosedRow(s)
  /\ exit' = "cmdr_closed_unexpectedly"
  /\ dbFailed' = ClosedRow(s)
  /\ UNCHANGED <<main, todo, ctxVars, childVars>>

-----------------------------------------------------------------------------
(* The game server (GameServer): starts under its command, and ends.  A
   command that is killed leaves it alone. *)
ServerStarts(s) ==
  /\ command[s] = "alive" /\ server[s] = "none"
  /\ server' = [server EXCEPT ![s] = "up"]
  /\ UNCHANGED <<main, todo, ctxVars, listed, sup, watch, command, endVars>>

ServerEnds(s) ==
  /\ \/ /\ server[s] = "up"
        /\ \E e \in {"closed", "crashed"} : server' = [server EXCEPT ![s] = e]
     \/ /\ command[s] = "alive" /\ server[s] = "none"    \* it does not build
        /\ server' = [server EXCEPT ![s] = "crashed"]
  /\ UNCHANGED <<main, todo, ctxVars, listed, sup, watch, command, endVars>>

CommandEnds(s) ==
  /\ command[s] = "alive" /\ server[s] \in {"closed", "crashed"}
  /\ command' = [command EXCEPT ![s] = "dead"]
  /\ UNCHANGED <<main, todo, ctxVars, listed, sup, watch, server, endVars>>

-----------------------------------------------------------------------------
(* The caller's context, or ctrl-C. *)
Cancel ==
  /\ ~outerDone
  /\ outerDone' = TRUE /\ proxyDone' = TRUE
  /\ UNCHANGED <<main, todo, childVars, endVars>>

(* Mutant of CloseProxy: AMProxy.Close does not cancel its context. *)
CloseProxyOnly ==
  /\ main = "open"
  /\ main' = "servers"
  /\ UNCHANGED <<todo, ctxVars, childVars, endVars>>

(* s.Proxy.Close(): AMProxy.Close cancels the context of its children. *)
CloseProxy ==
  /\ main = "open"
  /\ main' = "servers"
  /\ proxyDone' = TRUE
  /\ UNCHANGED <<todo, outerDone, childVars, endVars>>

(* Mutant of CloseServers: it visits servers nobody has listed. *)
CloseServersUnlisted ==
  /\ main = "servers"
  /\ main' = "visit"
  /\ todo' = created
  /\ UNCHANGED <<ctxVars, childVars, endVars>>

(* s.Server.Close(): the list as it is now. *)
CloseServers ==
  /\ main = "servers"
  /\ main' = "visit"
  /\ todo' = listed
  /\ UNCHANGED <<ctxVars, childVars, endVars>>

(* Cmder.Close before the command was started is a nil dereference. *)
CloseServer(s) ==
  /\ main = "visit" /\ s \in todo
  /\ IF command[s] = "none"
       THEN exit' = "nil_cmd" /\ UNCHANGED <<todo, command>>
       ELSE Kill(s) /\ todo' = todo \ {s} /\ UNCHANGED exit
  /\ UNCHANGED <<main, ctxVars, listed, sup, watch, server, dbFailed>>

(* s.Sqlite.Close() *)
CloseDone ==
  /\ main = "visit" /\ todo = {}
  /\ main' = "closed"
  /\ UNCHANGED <<todo, ctxVars, childVars, endVars>>

Supervise(s) ==
  \/ Append(s) \/ CmdStart(s) \/ CmdStartFails(s) \/ CmdWait(s)
  \/ CheckContext(s) \/ CmdrClosed(s) \/ CmdrClosedUnexpectedly(s)

Close == CloseProxy \/ CloseServers \/ (\E s \in Servers : CloseServer(s)) \/ CloseDone

Next ==
  /\ exit = "none"
  /\ \/ \E s \in Servers :
          \/ CreateNewServer(s) \/ Supervise(s) \/ WatchDone(s)
          \/ ServerStarts(s) \/ ServerEnds(s) \/ CommandEnds(s)
     \/ Cancel \/ Close

Spec == Init /\ [][Next]_vars

(* Goroutines run when they can; a killed command is dead, and so is one
   whose program has ended.  Nobody has to create or close anything. *)
FairSpec ==
  /\ Spec
  /\ \A s \in Servers :
       /\ WF_vars(exit = "none" /\ Supervise(s))
       /\ WF_vars(exit = "none" /\ WatchDone(s))

-----------------------------------------------------------------------------
(***************************************************************************)
(* Every variable has its type; LocalServers.Close visits listed servers,  *)
(* and only servers that were created are listed.                          *)
(***************************************************************************)
TypeOK ==
  /\ main \in {"open", "servers", "visit", "closed"}
  /\ todo \subseteq listed /\ listed \subseteq created
  /\ outerDone \in BOOLEAN /\ proxyDone \in BOOLEAN
  /\ sup \in [Servers -> {"none", "spawned", "wait", "check", "query", "ended"}]
  /\ watch \in [Servers -> {"off", "on"}]
  /\ command \in [Servers -> {"none", "alive", "dead"}]
  /\ server \in [Servers -> {"none", "up", "closed", "crashed"}]
  /\ exit \in {"none", "cmdr_closed_unexpectedly", "nil_cmd"}
  /\ dbFailed \in BOOLEAN

(***************************************************************************)
(* local.go:120: the proxy takes the end of a child for unexpected only if *)
(* its command has ended and its server                                    *)
(*   - has ended, or failed to start, without a Closed row, or             *)
(*   - has left one that could not be read: the query failed, or the whole *)
(*     shutdown fell between the check of the context (local.go:109) and   *)
(*     the query (local.go:113) and had closed the database by then, or    *)
(*   - was started by CreateEnvironment, with the caller's context, and    *)
(*     LocalServers.Close has killed its command.                          *)
(* Closing everything down kills commands whose servers run; for the ones  *)
(* the proxy created itself that never looks like an unexpected end.       *)
(***************************************************************************)
OnlyCrashesAreUnexpected ==
  exit = "cmdr_closed_unexpectedly" =>
    \E s \in Servers :
      /\ sup[s] = "query" /\ command[s] # "alive"
      /\ \/ server[s] = "crashed"
         \/ server[s] = "closed" /\ (dbFailed \/ main = "closed")
         \/ s \in Hydrated /\ main \in {"visit", "closed"}

(***************************************************************************)
(* After a shutdown every command ends and its goroutine returns, also     *)
(* that of a server which was being created meanwhile and is not in the    *)
(* list that LocalServers.Close walked through.                            *)
(***************************************************************************)
AllReaped ==
  main = "closed" ~>
    exit # "none" \/ \A s \in Servers : sup[s] \in {"none", "ended"}
=============================================================================
