----------------------------- MODULE MatchMaking -----------------------------
(***************************************************************************)
(* Matchmaking: pkg/am-proxy/matchmaking.go together with the operations   *)
(* of pkg/server-management/local.go that it calls.                        *)
(*                                                                         *)
(* Every client connection of the proxy runs matchmake in a goroutine of   *)
(* its own.  A goroutine asks the table for the best server; when there is *)
(* none it either becomes the leader that creates one or waits, through a  *)
(* sync.WaitGroup, for the leader of the moment.  pc[c] is the next        *)
(* statement of connection c that touches shared state.                    *)
(***************************************************************************)
EXTENDS GameServerStats, FiniteSets

CONSTANTS
  Conns,           \* the connections, one goroutine each
  MaxLoad,         \* ServerParams.MaxLoad, in units of one connection's load
  LoadBound,       \* bound on the load the model lets a server report
  OldIds,          \* ids that already have a row when the proxy starts
  DbMayFail,       \* may a query fail?  (reads drop the error, see sqlite.go)
  ServersChange    \* may servers change their rows, and exit, once ready?

NoId == -1         \* the empty string: lastCreatedGameId before any server

ASSUME ConstantsAssumption ==
  /\ IsFiniteSet(Conns)
  /\ MaxLoad \in Nat
  /\ LoadBound \in Nat
  /\ OldIds \subseteq Nat
  /\ DbMayFail \in BOOLEAN
  /\ ServersChange \in BOOLEAN

Row == [state : GSStates, load : 0..LoadBound]
ReadyRow == [state |-> GSStateReady, load |-> 0]

VARIABLES
  pc,                 \* where each connection's goroutine is
  gameId,             \* its local gameId
  waitingForServer, lastCreatedGameId,   \* fields of MatchMakingServer
  wait,               \* the WaitGroup: counter, registered waiters, semaphore
  id,                 \* local.go's package variable: the next server id
  rows,               \* the table
  starting, up, down, \* child processes: before their first row, after, ended
  exit,               \* why the proxy process ended, "none" while it runs
  role, round, joined, \* history: how a connection got its id; the id at which
                      \* the current creation began; the one a waiter joined
  lost                \* history: tokens that replaced WaitGroups took with them

matchVars == <<waitingForServer, lastCreatedGameId, wait>>
serverVars == <<id, rows, starting, up, down>>
history == <<role, round, joined, lost>>
vars == <<pc, gameId, matchVars, serverVars, exit, history>>

Steps == {"best", "begin", "wait", "parked", "woken", "last",
          "create", "bump", "save", "ready", "stop", "conn", "done"}
LeaderSteps == {"create", "bump", "save", "ready", "stop"}
Exits == {"none", "WaitGroup is reused", "no host:port pair",
          "cmdr has closed unexpectedly"}

spawned == starting \cup up \cup down

ZeroWaitGroup == [count |-> 0, waiters |-> 0, sema |-> 0]

Init ==
  /\ pc = [c \in Conns |-> "best"]
  /\ gameId = [c \in Conns |-> NoId]
  /\ waitingForServer = FALSE
  /\ lastCreatedGameId = NoId
  /\ wait = ZeroWaitGroup
  /\ id = 0
  /\ rows \in [OldIds -> Row]
  /\ starting = {} /\ up = {} /\ down = {}
  /\ exit = "none"
  /\ role = [c \in Conns |-> "none"]
  /\ round = 0
  /\ joined = [c \in Conns |-> 0]
  /\ lost = 0

-----------------------------------------------------------------------------
(***************************************************************************)
(* The connection's goroutine.                                             *)
(***************************************************************************)

Goto(c, step) == pc' = [pc EXCEPT ![c] = step]

(***************************************************************************)
(* matchmake asks GetBestServer.  The query's error is dropped, so a       *)
(* failed query also looks like "no best server".                          *)
(***************************************************************************)
FoundBestServer(c) ==
  /\ pc[c] = "best"
  /\ \E s \in FirstByUtilization(rows, MaxLoad) :
        gameId' = [gameId EXCEPT ![c] = s]
  /\ role' = [role EXCEPT ![c] = "best"]
  /\ Goto(c, "conn")
  /\ UNCHANGED <<matchVars, serverVars, exit, round, joined, lost>>

NoBestServer(c) ==
  /\ pc[c] = "best"
  /\ DbMayFail \/ ServersByUtilization(rows, MaxLoad) = {}
  /\ Goto(c, "begin")
  /\ UNCHANGED <<gameId, matchVars, serverVars, exit, history>>

(* Mutant of StartWaiting: check and set are not one critical section. *)
StartWaitingUnlocked(c) ==
  /\ pc[c] = "begin"
  /\ waitingForServer' = TRUE
  /\ wait' = [ZeroWaitGroup EXCEPT !.count = 1]
  /\ role' = [role EXCEPT ![c] = "leader"]
  /\ round' = id
  /\ lost' = lost + wait.sema
  /\ Goto(c, "create")
  /\ UNCHANGED <<gameId, lastCreatedGameId, serverVars, exit, joined>>

(***************************************************************************)
(* startWaiting, one critical section of m.mutex: returns true ...         *)
(***************************************************************************)
StartWaiting(c) ==
  /\ pc[c] = "begin"
  /\ ~waitingForServer
  /\ waitingForServer' = TRUE
  /\ wait' = [ZeroWaitGroup EXCEPT !.count = 1]
  /\ role' = [role EXCEPT ![c] = "leader"]
  /\ round' = id
  /\ lost' = lost + wait.sema
  /\ Goto(c, "create")
  /\ UNCHANGED <<gameId, lastCreatedGameId, serverVars, exit, joined>>

(* ... or false: somebody else is creating a server. *)
AlreadyWaiting(c) ==
  /\ pc[c] = "begin"
  /\ waitingForServer
  /\ role' = [role EXCEPT ![c] = "waiter"]
  /\ joined' = [joined EXCEPT ![c] = round]
  /\ Goto(c, "wait")
  /\ UNCHANGED <<gameId, matchVars, serverVars, exit, round, lost>>

(***************************************************************************)
(* m.wait.Wait(), outside the mutex.  sync.WaitGroup as of Go 1.23: a zero *)
(* counter returns at once, otherwise the goroutine registers and parks on *)
(* the semaphore; a woken goroutine must take a token, which the leader of *)
(* a later round may have thrown away with m.wait = sync.WaitGroup{}, and  *)
(* then panics unless counter and waiters are still zero.                  *)
(***************************************************************************)
WaitGroupWait(c) ==
  /\ pc[c] = "wait"
  /\ IF wait.count = 0
       THEN Goto(c, "last") /\ UNCHANGED wait
       ELSE Goto(c, "parked") /\ wait' = [wait EXCEPT !.waiters = @ + 1]
  /\ UNCHANGED <<gameId, waitingForServer, lastCreatedGameId, serverVars,
                 exit, history>>

WaitGroupWake(c) ==
  /\ pc[c] = "parked"
  /\ wait.sema > 0
  /\ wait' = [wait EXCEPT !.sema = @ - 1]
  /\ Goto(c, "woken")
  /\ UNCHANGED <<gameId, waitingForServer, lastCreatedGameId, serverVars,
                 exit, history>>

WaitGroupReturn(c) ==
  /\ pc[c] = "woken"
  /\ IF wait.count = 0 /\ wait.waiters = 0
       THEN Goto(c, "last") /\ UNCHANGED exit
       ELSE exit' = "WaitGroup is reused" /\ UNCHANGED pc
  /\ UNCHANGED <<gameId, matchVars, serverVars, history>>

(* return m.lastCreatedGameId: read without the mutex. *)
ReadLastCreated(c) ==
  /\ pc[c] = "last"
  /\ gameId' = [gameId EXCEPT ![c] = lastCreatedGameId]
  /\ Goto(c, "conn")
  /\ UNCHANGED <<matchVars, serverVars, exit, history>>

(***************************************************************************)
(* CreateNewServer: outId := id, and later id++ and the goroutine that     *)
(* runs the child process.                                                 *)
(***************************************************************************)
TakeId(c) ==
  /\ pc[c] = "create"
  /\ gameId' = [gameId EXCEPT ![c] = id]
  /\ Goto(c, "bump")
  /\ UNCHANGED <<matchVars, serverVars, exit, history>>

(* Mutant of SpawnServer: the increment is lost. *)
SpawnServerSameId(c) ==
  /\ pc[c] = "bump"
  /\ starting' = starting \cup {gameId[c]}
  /\ Goto(c, "save")
  /\ UNCHANGED <<gameId, matchVars, id, rows, up, down, exit, history>>

SpawnServer(c) ==
  /\ pc[c] = "bump"
  /\ id' = id + 1
  /\ starting' = starting \cup {gameId[c]}
  /\ Goto(c, "save")
  /\ UNCHANGED <<gameId, matchVars, rows, up, down, exit, history>>

(* Mutant of SaveLastCreated: only the first server is remembered. *)
SaveFirstCreated(c) ==
  /\ pc[c] = "save"
  /\ lastCreatedGameId' = IF lastCreatedGameId = NoId THEN gameId[c]
                                                    ELSE lastCreatedGameId
  /\ Goto(c, "ready")
  /\ UNCHANGED <<gameId, waitingForServer, wait, serverVars, exit, history>>

(* m.lastCreatedGameId = gameId, before the server is ready. *)
SaveLastCreated(c) ==
  /\ pc[c] = "save"
  /\ lastCreatedGameId' = gameId[c]
  /\ Goto(c, "ready")
  /\ UNCHANGED <<gameId, waitingForServer, wait, serverVars, exit, history>>

(* Mutant of WaitForReady: it gives up at once. *)
WaitForReadyGivesUp(c) ==
  /\ pc[c] = "ready"
  /\ Goto(c, "stop")
  /\ UNCHANGED <<gameId, matchVars, serverVars, exit, history>>

(* WaitForReady: the poll that ends the loop; the others change nothing. *)
WaitForReady(c) ==
  /\ pc[c] = "ready"
  /\ HasRow(rows, gameId[c])
  /\ rows[gameId[c]].state \in {GSStateReady, GSStateClosed}
  /\ Goto(c, "stop")
  /\ UNCHANGED <<gameId, matchVars, serverVars, exit, history>>

(* Mutants of WaitGroupDone: it counts twice; it wakes only one waiter. *)
WaitGroupDoneTwice(w) == [w EXCEPT !.count = @ - 2]

WaitGroupDoneWakesOne(w) ==
  [count |-> 0, waiters |-> 0, sema |-> IF w.waiters > 0 THEN 1 ELSE 0]

(***************************************************************************)
(* stopWaiting, the other critical section.  WaitGroup.Done that brings    *)
(* the counter to zero resets the state and releases every waiter.         *)
(***************************************************************************)
WaitGroupDone(w) ==
  IF w.count = 1 THEN [count |-> 0, waiters |-> 0, sema |-> w.sema + w.waiters]
                 ELSE [w EXCEPT !.count = @ - 1]

StopWaiting(c) ==
  /\ pc[c] = "stop"
  /\ wait' = IF waitingForServer THEN WaitGroupDone(wait) ELSE wait
  /\ waitingForServer' = FALSE
  /\ Goto(c, "conn")
  /\ UNCHANGED <<gameId, lastCreatedGameId, serverVars, exit, history>>

(***************************************************************************)
(* GetConnectionString and the assertion on its result: no row (or a       *)
(* failed query) gives the empty string, and assert ends the process.      *)
(***************************************************************************)
GetConnectionString(c) ==
  /\ pc[c] = "conn"
  /\ HasRow(rows, gameId[c])
  /\ Goto(c, "done")
  /\ UNCHANGED <<gameId, matchVars, serverVars, exit, history>>

NoConnectionString(c) ==
  /\ pc[c] = "conn"
  /\ DbMayFail \/ ~HasRow(rows, gameId[c])
  /\ exit' = "no host:port pair"
  /\ UNCHANGED <<pc, gameId, matchVars, serverVars, history>>

-----------------------------------------------------------------------------
(***************************************************************************)
(* The child processes, as far as their rows show (GameServer models them  *)
(* in full): the first row is Ready with no load; later ones are arbitrary *)
(* because a server's writers overwrite each other with stale copies.      *)
(***************************************************************************)
ServerReady(s) ==
  /\ s \in starting
  /\ starting' = starting \ {s}
  /\ up' = up \cup {s}
  /\ rows' = Update(rows, s, ReadyRow)
  /\ UNCHANGED <<pc, gameId, matchVars, id, down, exit, history>>

ServerUpdate(s) ==
  /\ ServersChange
  /\ s \in up
  /\ \E r \in Row : rows' = Update(rows, s, r)
  /\ UNCHANGED <<pc, gameId, matchVars, id, starting, up, down, exit, history>>

(***************************************************************************)
(* The goroutine CreateNewServer starts, after cmdr.Run returned: a child  *)
(* that ends without a Closed row (or whose row cannot be read) ends the   *)
(* proxy too.                                                              *)
(***************************************************************************)
HasClosedRow(s) == HasRow(rows, s) /\ rows[s].state = GSStateClosed

CmdrClosed(s) ==
  /\ ServersChange
  /\ s \in starting \cup up
  /\ starting' = starting \ {s}
  /\ up' = up \ {s}
  /\ down' = down \cup {s}
  /\ \/ /\ HasClosedRow(s)
        /\ UNCHANGED exit
     \/ /\ DbMayFail \/ ~HasClosedRow(s)
        /\ exit' = "cmdr has closed unexpectedly"
  /\ UNCHANGED <<pc, gameId, matchVars, id, rows, history>>

-----------------------------------------------------------------------------
ConnStep(c) ==
  \/ FoundBestServer(c) \/ NoBestServer(c)
  \/ StartWaiting(c) \/ AlreadyWaiting(c)
  \/ WaitGroupWait(c) \/ WaitGroupWake(c) \/ WaitGroupReturn(c)
  \/ ReadLastCreated(c)
  \/ TakeId(c) \/ SpawnServer(c) \/ SaveLastCreated(c)
  \/ WaitForReady(c) \/ StopWaiting(c)
  \/ GetConnectionString(c) \/ NoConnectionString(c)

ServerStep(s) == ServerReady(s) \/ ServerUpdate(s) \/ CmdrClosed(s)

Next ==
  /\ exit = "none"
  /\ \/ \E c \in Conns : ConnStep(c)
     \/ \E s \in spawned : ServerStep(s)

Spec == Init /\ [][Next]_vars

-----------------------------------------------------------------------------
(***************************************************************************)
(* Every variable has its type.                                            *)
(***************************************************************************)
TypeOK ==
  /\ pc \in [Conns -> Steps]
  /\ gameId \in [Conns -> Nat \cup {NoId}]
  /\ waitingForServer \in BOOLEAN
  /\ lastCreatedGameId \in Nat \cup {NoId}
  /\ wait \in [count : Nat, waiters : Nat, sema : Nat]
  /\ id \in Nat
  /\ DOMAIN rows \subseteq Nat
  /\ rows \in [DOMAIN rows -> Row]
  /\ starting \subseteq Nat /\ up \subseteq Nat /\ down \subseteq Nat
  /\ exit \in Exits
  /\ role \in [Conns -> {"none", "best", "leader", "waiter"}]
  /\ round \in Nat
  /\ joined \in [Conns -> Nat]
  /\ lost \in Nat

(***************************************************************************)
(* At most one connection is creating a server, waitingForServer is set    *)
(* exactly while one is, and the WaitGroup that startWaiting replaces      *)
(* counts exactly that one (matchmaking.go, startWaiting and stopWaiting). *)
(***************************************************************************)
Leader(c) == pc[c] \in LeaderSteps

SingleLeader ==
  /\ \A c, d \in Conns : Leader(c) /\ Leader(d) => c = d
  /\ waitingForServer <=> \E c \in Conns : Leader(c)
  /\ wait.count = IF waitingForServer THEN 1 ELSE 0

(***************************************************************************)
(* No two creations hand out the same id, although CreateNewServer reads   *)
(* and increments the package variable id without a lock: the server a     *)
(* connection created is its own.                                          *)
(***************************************************************************)
Created(c) ==
  role[c] = "leader" /\ pc[c] \in {"save", "ready", "stop", "conn", "done"}

UniqueServerIds ==
  \A c, d \in Conns :
    Created(c) /\ Created(d) /\ gameId[c] = gameId[d] => c = d

(***************************************************************************)
(* A connection that waited gets a server that was created, and none older *)
(* than the one it waited for: it never reads the empty or a left-over     *)
(* lastCreatedGameId, although it reads it without the mutex.              *)
(***************************************************************************)
WaiterGetsFreshServer ==
  \A c \in Conns :
    role[c] = "waiter" /\ pc[c] \in {"conn", "done"} =>
      gameId[c] \in spawned /\ gameId[c] >= joined[c]

(***************************************************************************)
(* The connection that found or created its server can always resolve it:  *)
(* when the assertion on the host:port pair fails without a database       *)
(* error, it fails for a connection that waited.                           *)
(***************************************************************************)
OnlyWaiterMissesRow ==
  \A c \in Conns :
    pc[c] = "conn" /\ ~HasRow(rows, gameId[c]) => role[c] = "waiter"

(***************************************************************************)
(* A connection is handed a server whose process has published its row:    *)
(* WaitForReady and GetConnectionString take a row of an earlier run of    *)
(* the proxy, whose ids started at 0 too, for the new server's, but are    *)
(* misled by nothing else.                                                 *)
(***************************************************************************)
OnlyOldRowsMislead ==
  \A c \in Conns :
    (role[c] = "leader" /\ pc[c] \in {"stop", "conn"}) \/ pc[c] = "done" =>
      gameId[c] \in up \cup down \cup OldIds

(***************************************************************************)
(* Nobody who waits on the WaitGroup is overlooked by it: whoever parked   *)
(* in Wait is registered, or has a token to take, or is one of those whose *)
(* token a replaced WaitGroup took with it (matchmaking.go:34,58).         *)
(***************************************************************************)
Parked == {c \in Conns : pc[c] = "parked"}

WaitersAccountedFor ==
  Cardinality(Parked) = wait.waiters + wait.sema + lost

-----------------------------------------------------------------------------
(***************************************************************************)
(* Goroutines that can run do run, and a child process that was started    *)
(* publishes its row.                                                      *)
(***************************************************************************)
Fairness ==
  /\ \A c \in Conns : WF_vars(exit = "none" /\ ConnStep(c))
  /\ \A s \in 0..Cardinality(Conns) :
        WF_vars(exit = "none" /\ ServerReady(s))

FairSpec == Spec /\ Fairness

(***************************************************************************)
(* No more connections are left without a server than startWaiting threw   *)
(* tokens away: m.wait = sync.WaitGroup{} (matchmaking.go:34) drops the    *)
(* tokens of waiters that Done released but that have not yet returned     *)
(* from Wait.  Each of them leaves one connection parked for ever, the     *)
(* late waiter itself or one of a later round whose token it takes.        *)
(***************************************************************************)
Unserved == {c \in Conns : pc[c] # "done"}

OnlyLostTokensUnserved ==
  <>(exit # "none" \/ Cardinality(Unserved) <= lost)
=============================================================================
