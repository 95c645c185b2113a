------------------------------ MODULE GameServer ------------------------------
(***************************************************************************)
(* One game server process: pkg/api/server.go run by cmd/api-server.       *)
(*                                                                         *)
(* Five kinds of goroutine share g.stats and the server's row: Run (the    *)
(* select loop), handleStatUpdating (copies changed stats to the row every *)
(* 200 ms), the acceptor, one handleConnection per client, and main, which *)
(* waits for Run and ends the process.  g.mutex guards incConnections,     *)
(* idle, ready and closeDown, but neither the updater's copy of g.stats    *)
(* nor Run's last assignment.  Every Update is a copy of g.stats in one    *)
(* step and its commit in a later one, so copies can be overtaken; the     *)
(* unlocked copies are read in two steps, so they can be torn.  A copy     *)
(* that is no longer needed is reset to NewStats.                          *)
(***************************************************************************)
EXTENDS GameServerStats, FiniteSets

CONSTANTS
  Conns,        \* client connections that may reach this server
  ChanCap,      \* capacity of the channel of accepted connections
  DbMayFail,    \* may a write fail?
  MayCancel     \* may the process be interrupted (ctrl-C)?

ASSUME ConstantsAssumption ==
  /\ IsFiniteSet(Conns)
  /\ "free" \notin Conns /\ "run" \notin Conns
  /\ ChanCap \in Nat \ {0}
  /\ DbMayFail \in BOOLEAN
  /\ MayCancel \in BOOLEAN

(***************************************************************************)
(* GameServerConfig.  Load is left out: incConnections changes it together *)
(* with Connections, by 0.001 for each.                                    *)
(***************************************************************************)
Stats == [state : GSStates, connections : Nat, added : Nat, removed : Nat]
NewStats ==
  [state |-> GSStateReady, connections |-> 0, added |-> 0, removed |-> 0]
NoRow == [NewStats EXCEPT !.state = "none"]

(* What GameServerConfig.Equal looks at: neither the state nor the load. *)
Counters(s) ==
  [connections |-> s.connections, added |-> s.added, removed |-> s.removed]
Equal(s, t) == Counters(s) = Counters(t)

VARIABLES
  stats,        \* g.stats
  lock,         \* g.mutex: "free", "run" or the connection that holds it
  row,          \* this server's row of the table
  run, runCopy, \* where Run is, and the copy its Update is about to commit
  upd, prev, next, \* where handleStatUpdating is, and its two locals (of
                \* prev, only the counters are ever read)
  written,      \* history: handleStatUpdating has committed a copy
  h,            \* where each connection is
  outer,        \* main's context is cancelled
  ctxDone,      \* Run's context is cancelled
  dbOpen,       \* db.Run has not closed the database yet
  exit          \* why the process ended, "none" while it runs

runVars == <<run, runCopy>>
updVars == <<upd, prev, next, written>>
procVars == <<outer, ctxDone, dbOpen, exit>>
vars == <<stats, lock, row, runVars, updVars, h, procVars>>

RunSteps == {"start", "publish", "loop", "idle", "idling", "close", "closing",
             "cancel", "drain", "ready", "readying", "final", "finalCopy",
             "finalWrite", "finished", "returned", "exiting"}
UpdSteps == {"new", "started", "tick", "copy", "write", "stopped"}
ConnSteps == {"none", "dialed", "queued", "spawned", "inc", "active",
              "leaving", "dec", "gone"}
Exits == {"none", "clean", "killed", "update failed",
          "connection when closed"}

Init ==
  /\ stats = NewStats
  /\ lock = "free"
  /\ row = NoRow
  /\ run = "start" /\ runCopy = NewStats
  /\ upd = "new" /\ prev = Counters(NewStats) /\ next = NewStats
  /\ written = FALSE
  /\ h = [c \in Conns |-> "none"]
  /\ outer = FALSE
  /\ ctxDone = FALSE
  /\ dbOpen = TRUE
  /\ exit = "none"

-----------------------------------------------------------------------------
(***************************************************************************)
(* Sqlite.Update.  A write that fails leaves a nil Result whose            *)
(* RowsAffected is called all the same: the process panics.                *)
(***************************************************************************)
Commit(stat) == dbOpen /\ row' = stat /\ UNCHANGED exit

CommitFails ==
  /\ DbMayFail \/ ~dbOpen
  /\ exit' = "update failed"
  /\ UNCHANGED row

(* An unlocked copy of g.stats: the first words, then the others. *)
CopyHead(copy) ==
  [copy EXCEPT !.state = stats.state, !.connections = stats.connections]
CopyTail(copy) ==
  [copy EXCEPT !.added = stats.added, !.removed = stats.removed]

-----------------------------------------------------------------------------
(***************************************************************************)
(* Run.  The row is published before the acceptor is started.              *)
(***************************************************************************)
RunPublish ==
  /\ run = "start"
  /\ stats' = [stats EXCEPT !.state = GSStateReady]
  /\ runCopy' = stats'
  /\ run' = "publish"
  /\ UNCHANGED <<lock, row, updVars, h, procVars>>

(* Mutant of AfterUpdate: closeDown is not followed by cancel(). *)
AfterUpdateNoCancel ==
  [publish |-> "loop", idling |-> "loop", readying |-> "loop",
   closing |-> "loop", finalWrite |-> "finished"]

(* Where Run goes once the Update it is in has been committed. *)
AfterUpdate ==
  [publish |-> "loop", idling |-> "loop", readying |-> "loop",
   closing |-> "cancel", finalWrite |-> "finished"]

RunUpdate ==
  /\ run \in DOMAIN AfterUpdate
  /\ Commit(runCopy)
  /\ run' = AfterUpdate[run]
  /\ runCopy' = NewStats
  /\ lock' = IF lock = "run" THEN "free" ELSE lock
  /\ UNCHANGED <<stats, updVars, h, outer, ctxDone, dbOpen>>

RunUpdateFails ==
  /\ run \in DOMAIN AfterUpdate
  /\ CommitFails
  /\ UNCHANGED <<stats, lock, runVars, updVars, h, outer, ctxDone, dbOpen>>

(* Mutant of RunTimer: an idle server is only made idle again. *)
RunTimerIdles ==
  /\ run = "loop"
  /\ stats.connections = 0
  /\ run' = "idle"
  /\ UNCHANGED <<stats, lock, row, runCopy, updVars, h, procVars>>

(***************************************************************************)
(* The 30 s timer of the select.  g.stats is read without the mutex; with  *)
(* connections the timer is only restarted.  Run's own closeDown is the    *)
(* only writer of Closed and leads to "drain", so the assertion behind the *)
(* two cases is the property NeverPosition.                                *)
(***************************************************************************)
RunTimer ==
  /\ run = "loop"
  /\ stats.connections = 0
  /\ run' = IF stats.state = GSStateReady THEN "idle" ELSE "close"
  /\ UNCHANGED <<stats, lock, row, runCopy, updVars, h, procVars>>

(* idle, ready and closeDown: the mutex is held until the row is written. *)
SetState(from, to, state) ==
  /\ run = from
  /\ lock = "free"
  /\ lock' = "run"
  /\ stats' = [stats EXCEPT !.state = state]
  /\ runCopy' = stats'
  /\ run' = to
  /\ UNCHANGED <<row, updVars, h, procVars>>

RunIdle == SetState("idle", "idling", GSStateIdle)
RunCloseDown == SetState("close", "closing", GSStateClosed)
RunReady == SetState("ready", "readying", GSStateIdle)

(***************************************************************************)
(* cancel() after closeDown.  The next select starts with the context done *)
(* and a fresh timer: only the context or a queued connection can win it.  *)
(***************************************************************************)
RunCancel ==
  /\ run = "cancel"
  /\ ctxDone' = TRUE
  /\ run' = "drain"
  /\ UNCHANGED <<stats, lock, row, runCopy, updVars, h, outer, dbOpen, exit>>

(* Mutant of RunConnection: the assertion on the state is missing. *)
RunConnectionUnchecked(c) ==
  /\ run \in {"loop", "drain"}
  /\ h[c] = "queued"
  /\ h' = [h EXCEPT ![c] = "spawned"]
  /\ run' = IF stats.state = GSStateReady THEN "loop" ELSE "ready"
  /\ UNCHANGED <<stats, lock, row, runCopy, updVars, procVars>>

(* case c := <-ch: start the handler, then ready() unless Ready already. *)
RunConnection(c) ==
  /\ run \in {"loop", "drain"}
  /\ h[c] = "queued"
  /\ stats.state # GSStateClosed
  /\ h' = [h EXCEPT ![c] = "spawned"]
  /\ run' = IF stats.state = GSStateReady THEN "loop" ELSE "ready"
  /\ UNCHANGED <<stats, lock, row, runCopy, updVars, procVars>>

RunConnectionWhenClosed(c) ==
  /\ run \in {"loop", "drain"}
  /\ h[c] = "queued"
  /\ stats.state = GSStateClosed
  /\ exit' = "connection when closed"
  /\ UNCHANGED <<stats, lock, row, runVars, updVars, h, outer, ctxDone, dbOpen>>

(* case <-ctx.Done(), and the unlocked assignment and copy behind the loop. *)
RunDone ==
  /\ run \in {"loop", "drain"}
  /\ ctxDone
  /\ run' = "final"
  /\ UNCHANGED <<stats, lock, row, runCopy, updVars, h, procVars>>

RunFinalState ==
  /\ run = "final"
  /\ stats' = [stats EXCEPT !.state = GSStateClosed]
  /\ runCopy' = [CopyHead(runCopy) EXCEPT !.state = GSStateClosed]
  /\ run' = "finalCopy"
  /\ UNCHANGED <<lock, row, updVars, h, procVars>>

RunFinalCopy ==
  /\ run = "finalCopy"
  /\ runCopy' = CopyTail(runCopy)
  /\ run' = "finalWrite"
  /\ UNCHANGED <<stats, lock, row, updVars, h, procVars>>

(* cancel(), and the deferred done, listener.Close() and doneChan. *)
RunReturn ==
  /\ run = "finished"
  /\ ctxDone' = TRUE
  /\ run' = "returned"
  /\ UNCHANGED <<stats, lock, row, runCopy, updVars, h, outer, dbOpen, exit>>

(* main of cmd/api-server: server.Wait(), cancel(), return. *)
MainCancel ==
  /\ run = "returned"
  /\ outer' = TRUE
  /\ run' = "exiting"
  /\ UNCHANGED <<stats, lock, row, runCopy, updVars, h, ctxDone, dbOpen, exit>>

MainExit ==
  /\ run = "exiting"
  /\ exit' = "clean"
  /\ UNCHANGED <<stats, lock, row, runVars, updVars, h, outer, ctxDone, dbOpen>>

RunStep ==
  \/ RunPublish \/ RunUpdate \/ RunUpdateFails
  \/ RunTimer \/ RunIdle \/ RunCloseDown \/ RunReady \/ RunCancel
  \/ \E c \in Conns : RunConnection(c) \/ RunConnectionWhenClosed(c)
  \/ RunDone \/ RunFinalState \/ RunFinalCopy \/ RunReturn
  \/ MainCancel \/ MainExit

-----------------------------------------------------------------------------
(***************************************************************************)
(* handleStatUpdating.                                                     *)
(***************************************************************************)
UpdStart ==
  /\ upd = "new"
  /\ prev' = [prev EXCEPT !.connections = stats.connections]
  /\ upd' = "started"
  /\ UNCHANGED <<stats, lock, row, runVars, next, written, h, procVars>>

UpdStarted ==
  /\ upd = "started"
  /\ prev' = [prev EXCEPT !.added = stats.added, !.removed = stats.removed]
  /\ upd' = "tick"
  /\ UNCHANGED <<stats, lock, row, runVars, next, written, h, procVars>>

UpdTick ==
  /\ upd = "tick"
  /\ next' = CopyHead(next)
  /\ upd' = "copy"
  /\ UNCHANGED <<stats, lock, row, runVars, prev, written, h, procVars>>

UpdCompare ==
  /\ upd = "copy"
  /\ IF Equal(CopyTail(next), prev)
       THEN upd' = "tick" /\ next' = NewStats
       ELSE upd' = "write" /\ next' = CopyTail(next)
  /\ UNCHANGED <<stats, lock, row, runVars, prev, written, h, procVars>>

(* Mutant of UpdWrite: prev is read again after the write. *)
UpdWriteRereads ==
  /\ upd = "write"
  /\ Commit(next)
  /\ prev' = Counters(stats)
  /\ next' = NewStats
  /\ written' = TRUE
  /\ upd' = "tick"
  /\ UNCHANGED <<stats, lock, runVars, h, outer, ctxDone, dbOpen>>

UpdWrite ==
  /\ upd = "write"
  /\ Commit(next)
  /\ prev' = Counters(next)
  /\ next' = NewStats
  /\ written' = TRUE
  /\ upd' = "tick"
  /\ UNCHANGED <<stats, lock, runVars, h, outer, ctxDone, dbOpen>>

UpdWriteFails ==
  /\ upd = "write"
  /\ CommitFails
  /\ UNCHANGED <<stats, lock, runVars, updVars, h, outer, ctxDone, dbOpen>>

UpdStop ==
  /\ upd = "tick"
  /\ ctxDone
  /\ upd' = "stopped"
  /\ UNCHANGED <<stats, lock, row, runVars, prev, next, written, h, procVars>>

UpdStep ==
  UpdStart \/ UpdStarted \/ UpdTick \/ UpdCompare \/ UpdWrite \/ UpdWriteFails
  \/ UpdStop

-----------------------------------------------------------------------------
(***************************************************************************)
(* A connection.  The proxy dials once the row is there to be read and     *)
(* while Run's listener is open; the acceptor queues it.                   *)
(***************************************************************************)
Dial(c) ==
  /\ h[c] = "none"
  /\ row # NoRow
  /\ run \notin {"returned", "exiting"}
  /\ h' = [h EXCEPT ![c] = "dialed"]
  /\ UNCHANGED <<stats, lock, row, runVars, updVars, procVars>>

Accept(c) ==
  /\ h[c] = "dialed"
  /\ run \notin {"start", "publish", "returned", "exiting"}
  /\ Cardinality({d \in Conns : h[d] = "queued"}) < ChanCap
  /\ h' = [h EXCEPT ![c] = "queued"]
  /\ UNCHANGED <<stats, lock, row, runVars, updVars, procVars>>

(* Mutant of IncBegin: it does not wait for the mutex. *)
IncBeginUnlocked(c, amount, from, to) ==
  /\ h[c] = from
  /\ lock' = c
  /\ stats' = [stats EXCEPT !.connections = @ + amount]
  /\ h' = [h EXCEPT ![c] = to]
  /\ UNCHANGED <<row, runVars, updVars, procVars>>

(* Mutant of IncEnd: a connection that leaves is not added to the removed. *)
IncEndAddsOnly(c, amount, from, to) ==
  /\ h[c] = from
  /\ lock' = "free"
  /\ stats' = IF amount >= 0 THEN [stats EXCEPT !.added = @ + amount] ELSE stats
  /\ h' = [h EXCEPT ![c] = to]
  /\ UNCHANGED <<row, runVars, updVars, procVars>>

(***************************************************************************)
(* incConnections(amount), in two steps under the mutex.                   *)
(***************************************************************************)
IncBegin(c, amount, from, to) ==
  /\ h[c] = from
  /\ lock = "free"
  /\ lock' = c
  /\ stats' = [stats EXCEPT !.connections = @ + amount]
  /\ h' = [h EXCEPT ![c] = to]
  /\ UNCHANGED <<row, runVars, updVars, procVars>>

IncEnd(c, amount, from, to) ==
  /\ h[c] = from
  /\ lock' = "free"
  /\ stats' = IF amount >= 0 THEN [stats EXCEPT !.added = @ + amount]
                             ELSE [stats EXCEPT !.removed = @ - amount]
  /\ h' = [h EXCEPT ![c] = to]
  /\ UNCHANGED <<row, runVars, updVars, procVars>>

HandlerEnter(c) == IncBegin(c, 1, "spawned", "inc")
HandlerEntered(c) == IncEnd(c, 1, "inc", "active")

(* The client's close packet, or the context, ends the handler's loop.  A
   client that just goes away sends no packet and keeps its handler. *)
ClientClose(c) ==
  /\ h[c] = "active"
  /\ h' = [h EXCEPT ![c] = "leaving"]
  /\ UNCHANGED <<stats, lock, row, runVars, updVars, procVars>>

HandlerDone(c) == ctxDone /\ ClientClose(c)

(* Mutant of HandlerLeft: the connection is counted off again. *)
HandlerLeftAgain(c) == IncEnd(c, -1, "dec", "leaving")

HandlerLeave(c) == IncBegin(c, -1, "leaving", "dec")

HandlerLeft(c) == IncEnd(c, -1, "dec", "gone")

HandlerStep(c) ==
  \/ Accept(c)
  \/ HandlerEnter(c) \/ HandlerEntered(c)
  \/ HandlerDone(c) \/ HandlerLeave(c) \/ HandlerLeft(c)

-----------------------------------------------------------------------------
(***************************************************************************)
(* ctrl-C: HandleCtrlC cancels main's context and ends the process 250 ms  *)
(* later; db.Run closes the database as soon as it sees the cancellation.  *)
(***************************************************************************)
Interrupt ==
  /\ MayCancel
  /\ ~outer
  /\ outer' = TRUE
  /\ ctxDone' = TRUE
  /\ UNCHANGED <<stats, lock, row, runVars, updVars, h, dbOpen, exit>>

Killed ==
  /\ MayCancel
  /\ outer
  /\ exit' = "killed"
  /\ UNCHANGED <<stats, lock, row, runVars, updVars, h, outer, ctxDone, dbOpen>>

(* Mutant of CloseDb: it is given the context of Run. *)
CloseDbWithServer ==
  /\ ctxDone
  /\ dbOpen
  /\ dbOpen' = FALSE
  /\ UNCHANGED <<stats, lock, row, runVars, updVars, h, outer, ctxDone, exit>>

CloseDb ==
  /\ outer
  /\ dbOpen
  /\ dbOpen' = FALSE
  /\ UNCHANGED <<stats, lock, row, runVars, updVars, h, outer, ctxDone, exit>>

Next ==
  /\ exit = "none"
  /\ \/ RunStep
     \/ UpdStep
     \/ \E c \in Conns : Dial(c) \/ HandlerStep(c) \/ ClientClose(c)
     \/ Interrupt \/ Killed \/ CloseDb

Spec == Init /\ [][Next]_vars

-----------------------------------------------------------------------------
(***************************************************************************)
(* Every variable has its type; the counters in particular never go below  *)
(* zero, in g.stats or in any copy of it.                                  *)
(***************************************************************************)
TypeOK ==
  /\ stats \in Stats
  /\ lock \in {"free", "run"} \cup Conns
  /\ row \in Stats \cup {NoRow}
  /\ run \in RunSteps
  /\ runCopy \in Stats
  /\ upd \in UpdSteps
  /\ prev \in [connections : Nat, added : Nat, removed : Nat]
  /\ next \in Stats
  /\ written \in BOOLEAN
  /\ h \in [Conns -> ConnSteps]
  /\ outer \in BOOLEAN /\ ctxDone \in BOOLEAN /\ dbOpen \in BOOLEAN
  /\ exit \in Exits

(***************************************************************************)
(* Whenever the mutex is free, Connections, ConnectionsAdded and           *)
(* ConnectionsRemoved agree with each other and with the handlers that are *)
(* really running (server.go, incConnections).                             *)
(***************************************************************************)
Serving == {c \in Conns : h[c] \in {"active", "leaving"}}

CountersMatchHandlers ==
  lock = "free" =>
    /\ stats.connections = Cardinality(Serving)
    /\ stats.connections = stats.added - stats.removed

(***************************************************************************)
(* server.go:157, "i should never get to this position": when the timer of *)
(* the select can fire, the state is Ready or Idle.                        *)
(***************************************************************************)
NeverPosition == run = "loop" => stats.state # GSStateClosed

(***************************************************************************)
(* A server that is Closed never becomes Ready or Idle again, whatever     *)
(* connections are still waiting to be accepted: ready() does not run      *)
(* after closeDown.                                                        *)
(***************************************************************************)
ClosedIsFinal ==
  [][stats.state = GSStateClosed => stats'.state = GSStateClosed]_vars

(***************************************************************************)
(* A server that ends by itself leaves a Closed row: what the goroutine of *)
(* CreateNewServer asserts when the child has ended (local.go:106-121).    *)
(***************************************************************************)
ClosedOnExit == exit = "clean" => row.state = GSStateClosed

(***************************************************************************)
(* On a database that works, and without ctrl-C, a write fails (and the    *)
(* nil Result of sqlite.go:137-138 ends the process) only when main is     *)
(* leaving, and then it is the updater's: what Run has to write it has     *)
(* written, the Closed row included.                                       *)
(***************************************************************************)
OnlyLateWriteFails ==
  exit = "update failed" =>
    DbMayFail \/ MayCancel \/ (run = "exiting" /\ upd = "write")

-----------------------------------------------------------------------------
(***************************************************************************)
(* GameServer implements CountedServer.  The mapping completes the         *)
(* incConnections that is between its two assignments: whoever takes the   *)
(* mutex sees it finished.                                                 *)
(***************************************************************************)
Midway(step) == IF \E c \in Conns : h[c] = step THEN 1 ELSE 0

CompletedCounters ==
  [connections |-> stats.connections,
   added |-> stats.added + Midway("inc"),
   removed |-> stats.removed + Midway("dec")]

Abstract == INSTANCE CountedServer WITH
  state <- stats.state,
  counters <- CompletedCounters,
  row <- row,
  exit <- IF exit \in {"none", "clean"} THEN exit ELSE "crash"

(***************************************************************************)
(* Seen through the table, the goroutines of a server (torn and stale      *)
(* copies, two writers, the half-done incConnections of server.go:67-82)   *)
(* do nothing CountedServer does not promise.                              *)
(***************************************************************************)
ImplementsCountedServer == Abstract!Behaviour

-----------------------------------------------------------------------------
(***************************************************************************)
(* Every goroutine that can run does.  Whether clients close their         *)
(* connections is up to them.                                              *)
(***************************************************************************)
Alive(A) == exit = "none" /\ A

Fairness ==
  /\ WF_vars(Alive(RunStep))
  /\ WF_vars(Alive(UpdStep))
  /\ \A c \in Conns : SF_vars(Alive(HandlerStep(c)))

ClientsClose == \A c \in Conns : WF_vars(Alive(ClientClose(c)))

FairSpec == Spec /\ Fairness

(***************************************************************************)
(* The counters of the row catch up with g.stats again and again, as long  *)
(* as the server runs: the e2e tests poll the table for them.  The one     *)
(* exception is what the updater's goroutine already finds in g.stats when *)
(* it first runs, which nothing orders before the first connection         *)
(* (server.go:120,184): it is not written until the counters change again. *)
(***************************************************************************)
FoundAtStart == ~written /\ prev = Counters(stats)

RowCatchesUp ==
  []<>(\/ ctxDone \/ exit # "none"
       \/ row # NoRow /\ Equal(row, stats)
       \/ FoundAtStart)

(***************************************************************************)
(* If its clients all close, a server goes idle, closes down and ends.     *)
(***************************************************************************)
EventuallyExits == ClientsClose => <>(exit # "none")
=============================================================================
