# TLA+ models of vim-arcade

vim-arcade matches vim players with game servers. A client connects to a proxy;
the proxy authenticates it, asks matchmaking for a game server (starting one if
there is none), connects to that server and then relays packets in both
directions. Game servers are processes of their own. All processes share one
SQLite table in which every server publishes its state and its counters.

This directory models the parts of the program that run concurrently or handle
a byte stream, and the simulation that tests them end to end, checks them with TLC
on small instances and proves, with TLAPS and for all instances, the safety invariants
of every component, and that a game server and the framer implement abstract ones.

## The system

| Component | Code | State | Operations |
|---|---|---|---|
| Matchmaking | `pkg/am-proxy/matchmaking.go`, `pkg/server-management/local.go` | `waitingForServer`, `wait`, `lastCreatedGameId`; package variable `id`; child processes | `matchmake` (one goroutine per client), `createAndWait`, `startWaiting`, `stopWaiting`; `GetBestServer`, `CreateNewServer`, `WaitForReady`, `GetConnectionString` |
| Game server | `pkg/api/server.go`, `cmd/api-server`, `pkg/ctrlc` | `g.stats`, `g.mutex`, `g.done`, channel of accepted connections, contexts | `Run` (select loop with a 30 s timer), `handleStatUpdating` (every 200 ms), `handleConnection`, `incConnections`, `ready`, `idle`, `closeDown`, acceptor, `main`, ctrl-C |
| Statistics table | `pkg/game-server-stats` | rows keyed by server id | `Update`, `GetById`, `GetServersByUtilization`, totals |
| Packets | `pkg/packet/packet.go` | none | `PacketFromParts`, `NewPacket`, `CreateServerAuthResponse`, `PacketFromBytes`, accessors |
| Framer | `pkg/packet/packet.go` | `buf`, `idx`, channel `C` | `Push`, `pull`, `FrameWithReader` |
| Proxy | `pkg/am-proxy/am-proxy.go`, `net.go` | listener, `closed`; per client: both connections, both framers | `listen`, `Run`, `Add`, `handleConnection`, `handleConnectionLifecycles`, `removeConnection`, `Close` |
| Client | `pkg/api/client.go`, `pkg/utils/context.go` | `State`, `closed`, `ServerId`, framer, reader | `Connect`, `Disconnect` |
| Child processes | `pkg/cmd/cmd.go`, `local.go`, `e2e-tests/sim/state.go` | `exec.Cmd`, pipes, the list of servers | `Run`, `Close`, the goroutine of `CreateNewServer`, `LocalServers.Close`, `ServerState.Close` |
| Simulation | `e2e-tests/sim` | `s.adds`, `s.removes`; lists `clients`, `adds`, `removes` and `wait` of `SimulationConnections`; `ServerStateWaiter` | `RunSimulation` (two loops per round), `StartRound`, `FinishRound`, `AddBatch`, `Remove`, `NewWait`, `WaitForRound`, `AssertRound`, `CreateBatchedConnections` |

How they interact: clients and proxy, and proxy and game servers, talk packets
over TCP; every connection has a framer goroutine that turns bytes into packets
on a channel of ten. Matchmaking starts children through a `Cmder` and learns
of them only by polling the table. A game server learns of its load only by the
connections it accepts, and tells of it only through its row.

What is hard here: goroutines of the proxy that race in matchmaking; a
`WaitGroup` that is replaced while it is in use; several goroutines of the game
server writing full copies of one row, some without the lock; the idle timer
against arriving connections; closing down against everything; reads that cut
packets anywhere; two connections that have to be closed together; the loops of a
simulation round that outlive it.

What makes each component correct:

- matchmaking: one creation at a time, distinct ids, waiters get a live and
  recent server, everybody is served, no assertion fails;
- game server: counters agree with the handlers, the row agrees with the
  counters, Closed is final and is what the row says in the end, an abandoned
  server ends;
- packets: read back as written, whatever the length; framer: a FIFO channel;
- proxy: order, no half-open connection, the close packet is the last one and
  does arrive, whoever authenticates is answered;
- child processes: a shutdown is not taken for a crash and leaves no command;
- client: no send on a closed channel, the error that ended the reading is seen,
  `Disconnect` ends everything;
- simulation: its lists agree with the clients, it never removes a client that is
  still connecting, it ends, and it fails only for a reason.

## Modules

| Module | Models | Composed with |
|---|---|---|
| `GameServerStats` | the table as a function from ids to rows | used by the two below |
| `MatchMaking` (`MCMatchMaking`) | matchmaking; child processes as far as their rows show | `GameServerStats` |
| `MatchMakingProofs` | theorems about `MatchMaking` | |
| `GameServer` (`MCGameServer`) | one game server process and its row | `GameServerStats` |
| `CountedServer` | abstract specification: what a game server promises through its row | `GameServerStats` |
| `GameServerProofs` | theorems about `GameServer`, and the proof that it implements `CountedServer` | |
| `Packet` | the codec, as operators over sequences of bytes | used by the next three |
| `PacketCodec` (`MCPacketCodec`) | build, send, parse | `Packet` |
| `PacketCodecProofs` | theorems about `PacketCodec` and the packets that can be built | |
| `PacketFramer` (`MCPacketFramer`) | the framer on a byte stream | `Packet`, implements `PacketChannel` |
| `PacketFramerProofs` | theorems about `PacketFramer`, the safety half of the refinement included | |
| `PacketChannel` | abstract specification: a reliable FIFO of packets | |
| `AMProxy` | the proxy; its framed connections are the FIFOs of `PacketChannel` | |
| `AMProxyProofs` | theorems about `AMProxy` | |
| `LocalServers` | the commands that run game servers, and the shutdown | |
| `LocalServersProofs` | theorems about `LocalServers` | |
| `Client` | `Connect`, `Disconnect` and the goroutines of the client | |
| `ClientProofs` | theorems about `Client` | |
| `Simulation` | the rounds of `e2e-tests/sim`, with the game server's row as it may be read | |
| `SimulationProofs` | theorems about `Simulation` | |

### MatchMaking

`pc[c]` names the next statement of connection `c` that touches shared state:
`best` (GetBestServer), `begin` (startWaiting), then for the leader `create`,
`bump`, `save`, `ready`, `stop`, for a waiter `wait`, `parked`, `woken`,
`last`, and for all `conn` (GetConnectionString) and `done`. `startWaiting` and
`stopWaiting` are one step each because they hold the mutex. The read and the
increment of `id` are two steps, as in the code. Reads of
`lastCreatedGameId` are unlocked but atomic: a torn Go string header needs ids of
different lengths.

The `WaitGroup` is modelled as the library implements it: a counter, registered
waiters and a semaphore; replacing it with a fresh one forgets the semaphore's
tokens, which is what makes the replacement dangerous.

Failing queries (`DbMayFail`) look like missing rows because `sqlite.go` drops
the error. Children publish a Ready row (`ServerReady`), may then change it to
anything (`ServerUpdate`, which over-approximates `GameServer`), and may end
(`CmdrClosed`). `exit` records the panic or assertion that ended the proxy.
`role`, `round`, `joined` and `lost` are history variables for the properties; `lost`
counts the tokens (released waiters that had not returned yet) that replaced
`WaitGroup`s took with them.

### GameServer

`run` is the statement `Run` is at, `upd` that of `handleStatUpdating`, `h[c]`
that of connection `c`. An `Update` is two steps, taking the copy and
committing it, so that commits overtake each other; the copies of `g.stats` taken
without the mutex are read in two steps and can be torn. `incConnections` is two
steps under the mutex, so unlocked readers see the middle. `idle`, `ready` and
`closeDown` hold the mutex until the row is written. The select is a choice among
its enabled cases. After `closeDown` and `cancel` the timer is fresh while the
context is already done: only the context or a queued connection can win
(`drain`). The updater's goroutine copies the counters to `prev` when it first runs
(`UpdStart`, in two reads like every unlocked copy), which may be after the first
client was counted; the history variable `written` says whether it has written since.
`main` waits for `Run`, cancels and exits; ctrl-C cancels and kills
250 ms later, and `db.Run` closes the database as soon as the context is done.
`Load` is left out because it changes only together with `Connections`.

### CountedServer

Clients are counted in and out in one step, the state goes from Ready to Idle to
Closed and never back, and the row may be written at any time with anything that is
not ahead of the server (`Promised`): counters of earlier and possibly different
times, an earlier state, at most one connection more than it has added. `GameServer`
implements it under a mapping that completes the `incConnections` which is between
its two assignments (`CompletedCounters`); the mutex, the two writers and the torn
and overtaken copies disappear. Committing a copy is `WriteRow`, any end but the
clean one is a crash, and everything else stutters.

### Packet, PacketCodec, PacketFramer, PacketChannel

A packet is its bytes. `Base`, the number of values of a byte, is a parameter
so that the wrap-around of 16-bit lengths is within reach. `PacketCodec` builds
packets in each of the three ways and takes them apart. `PacketFramer` has the
buffer that grows, the fill level, `pull`'s conditions in their order with
uint16 arithmetic, the blocking send on `C`, and reads that return any number of
bytes. Errors of `Push` are dropped, as `FrameWithReader` does.

### AMProxy

`pc[c]` follows a client from `dialed` over `queued` (the listener's channel) and
`add` (the goroutine that calls `Add`) through `handleConnection` to `relay` or
`removed`. `clientSent` and `gameSent` record what each side sent, `cFramer` and
`gFramer` what the proxy has not received yet, `clientGot` and `gameGot` what it
wrote. Writes fail on a connection the proxy has closed, and may fail or get
lost when the peer is gone. After `removeConnection` the relay loop goes on
reading its channels, as in the code. The context that ends `AMTCPProxy.Run`
also ends the commands that run the game servers, so from then on a game's end may
vanish (`GameDies`). Matchmaking is one step here, which may never come, or end the
proxy by an assertion (`MatchMakeEnds`). One goroutine writes in both directions: while
a peer that is there does not read, the connection is `blocked` (`RelayBlocks`) and
neither direction goes on.

### LocalServers

Per server: `sup`, the goroutine of `CreateNewServer`; `watch`, the goroutine of
`Cmder.Run` that waits for the context; `command`, the process `go run`; and
`server`, the game server that process starts, reduced to whether it ended with a
Closed row. `main` walks through `ServerState.Close`: the proxy (whose `Close`
cancels the proxy's context), the servers in the list, the database. Servers can be
created until the end, and the list is appended to after the goroutine has been
started. `Hydrated` servers come from `CreateEnvironment`, which gives their
commands the caller's context instead of the proxy's. When a command has ended, the
check of the context (`CheckContext`) and the query of the row (`CmdrClosed`,
`CmdrClosedUnexpectedly`) are two steps, and the shutdown may fall between them; a query
fails when the database is closed, and at any time with `DbMayFail` (the history variable
`dbFailed`). Killing a command leaves the
game server alone, because only `go run` is killed.

### Client

`caller` is the goroutine that calls `Connect` and later `Disconnect`; `framer`,
`outer`, `rd`, `fwd` and `monitor` are the goroutines these start. Channels are
modelled by how many values they hold and whether they are closed; a send on a
closed channel ends the process. After `Connect` both `FramerRead` and
`InternalRead` take pieces from the same stream. The proxy (`PeerSend`,
`PeerCloses`) answers or refuses, sends, and may close or reset at any time.

### Simulation

`main` is the statement `RunSimulation` is at; `batch` stands for the tests that call
`CreateBatchedConnections` without a simulation. The two loops are kept per round
(`loop[k][r]`, with the number drawn and the clients in hand), because nothing waits
for them; `s.adds` and `s.removes` (`left`) are shared by all of them. Clients are
numbers, as `getNextId` makes them, and `state` says what has become of each.
`TakeLists` and `ClearLists` are two steps because `FinishRound` does not take the
mutex of `AddBatch`. The append of a batch comes after its clients were started, so a
client may call `Done` before it is listed, and an append may bring back the list
`FinishRound` is emptying.

There is one game server, which never ends. What its row says is any count it may have
had (`Shown`), and may go back from one read to the next, as in `GameServer`: a copy that
has been overtaken is written late. `target` is what the clients dial: the proxy, which
decides what addresses `AssertServerState` compares; a game server, which never sends an
auth response, so that no client becomes ready; or a server that answers and whose row
has the dialled address. The repository has no such server yet, but it is the one the
rounds of `RunSimulation` are written for, and the only one with which a round that
changes something can be passed. The queries of `StartRound`, `WaitForRound` and
`AssertRound` may fail (`QueryFails`), which their assertions turn into the end.

The history variable `late` records an append that came after `FinishRound`, a loop
that outlived its round, and, for the round that is on, a row that was not up to date
when the round began or was asserted. `Spec` ends at a late loop (`Running`): from then on
two goroutines change one number and one list without a lock. Drawing numbers and
reading the lengths at the head of a round is one step, and so is drawing the clients to
remove and listing them. Torn slice headers and the random source the goroutines share
without a lock are not modelled.

## Runs

| Run | Expected | Shows |
|---|---|---|
| `mm_core` | pass | `TypeOK`, `SingleLeader`, `UniqueServerIds`, `WaiterGetsFreshServer`, `OnlyWaiterMissesRow`, `OnlyOldRowsMislead`, `WaitersAccountedFor` |
| `mm_served` | pass | `OnlyLostTokensUnserved` |
| `gs_core` | pass | `TypeOK`, `CountersMatchHandlers`, `NeverPosition`, `ClosedIsFinal`, `ImplementsCountedServer` |
| `gs_live` | pass | `RowCatchesUp`, `EventuallyExits`, `OnlyLateWriteFails` |
| `gs_closed_row` | violation | `ClosedOnExit`, what `local.go:106-121` checks |
| `pc_roundtrip` | pass | `RoundTrip` |
| `pf_bytes` | pass | `TypeOK`, `StreamConserved`, `FramerAssertions` |
| `pf_fifo` | pass | `DeliversInOrder` (the safety of `PacketChannel`), `ImplementsChannel` (with its liveness) |
| `amp_relay` | pass | `TypeOK`, `RelayedInOrder`, `NoHalfOpen`, `CloseIsLast`, `CloseArrives`, `ClientAnswered` |
| `ls_shutdown` | pass | `TypeOK`, `OnlyCrashesAreUnexpected`, `AllReaped` |
| `client` | pass | `TypeOK`, `NoSendOnClosed`, `ErrorSeen`, `DisconnectEnds` |
| `sim_rounds` | pass | `TypeOK`, `BooksBalance`, `OnlyConnectedRemoved`, `FailsOnlyWhenLate`, `SimulationEnds` |

Deadlock is not checked in any run: goroutines and processes end, and the
models stop when `exit` is set.

### Bounds

- `mm_core`: three connections.
  Two are enough for a race between leader and waiter; the third is the leader of
  the next round, which is where the `WaitGroup` is replaced under a waiter.
  `mm_served` has four: the fourth may wait for the second leader, and lose its token to
  the waiter of the first round. Every
  connection matchmakes once, so at most as many servers are created. `MaxLoad` 1
  with loads 0 and 1 has servers with and without room; `OldIds` {0} is a
  database that survived an earlier run with the id the first creation uses.
- `gs_core`, `gs_live`: two clients and a channel of one, so that the acceptor
  blocks, one client can be in every phase of another, and a client can arrive while
  the server closes. The violation needs only one client.
- `pc_roundtrip`: bytes of 20 values and a payload of 45, so lengths use both
  bytes of the length field; zeros and ramps of every length up to the limit
  (`Datas`, which is any set of byte sequences in the proofs).
- `pf_bytes`: bytes of four values, a payload of two, four writes of pieces of
  headers, reads of up to three bytes: lengths below, at and above the limit
  and lengths that wrap. The fill level itself does not wrap in this bound: that
  takes 65536 unread bytes in the code.
- `pf_fifo`: four packets of three kinds, a channel of one.
- `amp_relay`: one client that sends up to three packets and a game that sends up to
  two. Connections share nothing but the channel of accepted connections and the flags
  of the proxy, which this run lets change at any time.
- `ls_shutdown`: one server created by matchmaking, at any time before, during or
  after the shutdown, and one hydrated. Servers share only the list and the
  contexts; `DbMayFail` lets any query fail.
- `sim_rounds`: two rounds, because what a round leaves behind disturbs the next one;
  up to three adds and three removes, against each of the three targets, in batches of
  up to two (`MaxBatch` 3 excludes itself), so that a loop takes more than one turn; and
  a batch of up to three clients outside any round.
- `client`: the answer and four more pieces, two places in `Out` and one in the
  framer's channel, so that both fill up and block their senders.

### Fairness

- `MatchMaking!FairSpec`: every goroutine that can run does, and a child that was
  started publishes its row. `WaitForReady` polls without end, so nothing but
  the child's row can end it. `OnlyLostTokensUnserved` is checked
  without failing queries and without servers that change their rows: with them the proxy
  may end by an assertion, and a row that is Idle before the poll has seen it Ready keeps
  the leader waiting.
- `GameServer!FairSpec`: weak fairness of `Run` and of the updater, strong
  fairness of each handler, which competes for the mutex and for the channel. (Go's
  mutex hands over to a waiter that starves.) Whether clients close is up to them:
  `EventuallyExits` has it as a hypothesis, `RowCatchesUp` has not. Nothing
  orders the start of the updater's goroutine before the first client; what it finds
  counted already is the exception of `RowCatchesUp` (`FoundAtStart`).
- `PacketFramer!FairSpec`: the reader and the owner of the channel run.
- `AMProxy!FairSpec`: each connection's goroutine runs (strong fairness, because it
  waits for room in the listener's channel); `select` in Go chooses at random among
  ready cases, so neither direction starves, even if writes block for a while in between.
  Nothing is assumed of matchmaking, which may wait for ever, nor of a blocked write;
  `CloseArrives` and `ClientAnswered` name the connections that stay there.
- `LocalServers!FairSpec`: the goroutines of `CreateNewServer` and of `Cmder.Run` run.
  Nobody has to create a server or to close anything, and servers and commands end
  only if they want to or are killed.
- `Client!FairSpec`: the goroutines of the `ContextReader` and the monitor run, and a
  `Disconnect` that has begun goes on. The proxy owes the client nothing.
- `Simulation!FairSpec`: the main goroutine and every loop run. Nobody promises a
  client an answer; `SimulationEnds` has a client that is never answered as its
  exception.

## Violations and observations

One run shows that the code does not keep what one of its own comments says;
`PROJECT.json` has it with its lines.

- `gs_closed_row`: the updater's stale copy is committed after the Closed row.

Further observations, which no run states:

- A released waiter that has not returned from `Wait` when the next leader replaces the
  `WaitGroup` is never woken. This needs a third connection that asked `GetBestServer`
  before the first server was ready and calls `startWaiting` after. With a fourth it may
  also take the token of one that waits for the second leader, which is then forgotten in
  its place. At most as many are forgotten as tokens were lost
  (`OnlyLostTokensUnserved`). `e2e-tests/matchmaking_test.go:47` starts fifteen.
- The same third connection creates a second server although the first has room.
  `sim.AssertAllClientsSameServer` compares the addresses the clients dialled, all of them
  the proxy's, and cannot notice.
- A server leaves its Closed row, its command ends, and the context is still live when it
  is checked; then everything closes, and the query on the closed database, whose error
  `GetById` drops, looks like a missing row: the proxy ends by "cmdr has closed
  unexpectedly" (an exception of `OnlyCrashesAreUnexpected`).
- A released waiter may read `lastCreatedGameId` only after a later leader has stored
  the id of a server without a row; the assertion of `matchmaking.go:108` then ends
  the proxy (the exit of `NoConnectionString`; `OnlyWaiterMissesRow` says that nobody
  else meets it).
- A connection that is queued while `closeDown` runs may win the select against the
  cancelled context; the assertion of `server.go:162` then ends the server
  (`RunConnectionWhenClosed`).
- `ready()` stores Idle while it logs "setting state to ready": a server that has
  been idle once is not chosen again, and is closed at its next quiet timer
  (`NotAfter` of `CountedServer` has no way back to Ready).
- A copy of the updater can overtake the write of `idle()`: the row then says Ready
  of an idle server until the counters change or the server closes, because `Equal`
  does not compare states.
- If the updater's goroutine first runs after a client has been counted, that count
  is not written before the next change (`FoundAtStart`, the exception of `RowCatchesUp`).
- `pull` refuses only the one length that equals the limit, not larger ones.
- `AMProxy.Add` may find the proxy closed: the exit of `AddWhenClosed` is reachable.
- `ServerState.Close` kills hydrated servers' commands while their own context is
  not done: their goroutines take this for an unexpected end
  (`OnlyCrashesAreUnexpected` has the case as its exception).
- `Cmder.Close` on a command that has not been started dereferences nil (the exit
  of `CloseServer`): a server that is being created when everything closes.
- Killing a command leaves the game server it runs alive.
- `Client.State` never becomes `CSConnected`, which
  `SimulationConnections.AssertAddsAndRemoves` (called by nobody) expects.
- If the proxy closes first, `internalRead` ends without telling anybody, and
  `WaitForDone` does not return (the exception of `DisconnectEnds`).
- The client's authentication packet is not forwarded, unlike in `protocol.md`.
- A client that has been accepted but has sent nothing is waited for without a limit,
  and so is one that left before its first packet (the hypothesis of `ClientAnswered`).
- `AddBatch` appends its clients after it has started them, and each calls `Done` when
  it is connected: `FinishRound` may return and clear the lists first. The next round
  then draws its numbers from too short a list, counts the late clients among its own
  adds, or divides by zero (`connections.go:115`).
- Nothing waits for the two loops of a round, and they share `s.adds` and `s.removes`
  with the loops of the next one (`late` contains `"loop"`). If a round has only
  removals, the goroutine that adds may first run in the next round and set `s.adds` back
  to 0 under the loop of that one, whose assertion (`sim.go:116`) then fails.
- A client that dials a game server directly, as those of `hydrateServers` do
  (`create_env.go:51`), is never answered: the server sends no auth response, and
  `Connect` waits for one without a limit (`ClientReady` is not enabled for `"game"`).
- A row that goes back between the poll and the assertion of a round ends the simulation
  as a miscount (`"row" \in late`), and so does a query that fails.
- A peer of the proxy that does not read blocks the relay in both directions.
- Against the proxy every simulation round that changes something fails with "different
  keys": a client knows only the address it dialled, the rows those of the servers.
- `CreateBatchedConnections` never calls `Add` on its `WaitGroup`: `Wait` returns at
  once and the first `Done` panics.
- `DeleteGameServerConfig` names no table of the schema (`table_name`), so
  `CreateEnvironment` fails if the database it copied has rows.

## Proofs

The proof modules prove, for every number of connections and every value of the other
constants, the invariants of all passing runs, the action properties of
`gs_core` and `gs_live`, and two refinements: that of `gs_core`, and the safety half of
that of `pf_fifo`. The assumptions are the ones the modules state about their constants;
where a theorem needs another one it is named below. Every `IInv` has been
checked by TLC on the instance of the component's run, that of `Simulation` with two
and with three rounds.

**MatchMaking.** None of the invariants is inductive alone. `IInv` is `TypeOK`,
`SingleLeader`, `UniqueServerIds`, `WaiterGetsFreshServer` and four more parts:

- `IdsInOrder`: every id handed out so far lies below `id`, a leader between the two
  steps of the creation holds `id` itself, the id of a created server was handed out,
  and `role` fits `pc`; this is why the unlocked increment is safe, and it needs
  `SingleLeader`;
- `RoundsInOrder`: `round` is never above `id` and equals it while a leader is about
  to create, nobody joined a later round, `lastCreatedGameId` is below `id`, and
  below the leader's own id until the leader has stored that;
- `WaitersSeeSavedId`: a waiter that has passed `Wait` finds in
  `lastCreatedGameId` a server created in its round or later, because the leader
  stores the id before `stopWaiting`;
- `ResolvedRows`: who found or created a server, and got past `WaitForReady`, has
  a row in the table, and rows are never removed.

`OnlyOldRowsMislead` needs one invariant more, `PublishedRows`: every row was published
by a process of this run or is one of `OldIds`, and a connection that is done has read
one. It is proved beside `IInv`, and only the step from both to the property uses
`IInv` (a leader past `WaitForReady` has a row).

`WaitersAccountedFor` is proved beside `IInv` too, with `NoWaiterBetweenRounds`: while
nobody leads, nobody is registered on the `WaitGroup`, so all that `startWaiting` can throw
away are tokens, which `lost` counts. It needs finitely many connections.

Theorems: `Invariance`, `TypeCorrect`, `OneLeader`, `ServerIdsUnique`,
`WaitersGetFreshServers`, `LeadersResolve`, `OldRowsMislead`, `WaitersAccounted`.

**GameServer.** `IInv` is `TypeOK` and three more parts:

- `LockOwner`: who holds the mutex is in one of the positions that do (a handler
  between the two halves of `incConnections`, `Run` while it commits under the lock);
- `CountersExact`: the three counters are the cardinalities of the sets of handlers
  whose change has been made, half of it if the mutex is held. This is what
  `CountersMatchHandlers` needs to be inductive: it says nothing while the mutex is
  held. Counting uses the library's facts on cardinality;
- `ClosedAtTheEnd`: in which positions of `Run` the state can be Closed.

Theorems: `Invariance`, `TypeCorrect`, `CountersMatch`, `NeverInThatPosition`, and
the action property `ClosedStaysClosed`.

**GameServer implements CountedServer.** `Refinement` is
`Spec => ImplementsCountedServer`. Every step of `GameServer` is matched with a step of
`CountedServer` or a stutter; what has to be known for the rows that are written is
`RInv`: `IInv` and four more parts:

- `CopiesBehind`: a copy of `g.stats` is never ahead of the counters or of the state,
  and shows at most one connection that it has not added. For a torn copy the second
  holds only when its two halves are together, so the invariant compares the first half
  with the present `ConnectionsAdded` until then;
- `ClosedOnTheWayOut`: from the last assignment of `Run` on the state is Closed, so a
  clean end is one of a closed server;
- `ReadyAtFirst`: publishing the row changes no state;
- `Balanced`: `Connections` is what was added less what was removed, with the
  `incConnections` under way completed; an invariant of `CountedServer`, kept by every
  step of it.

`HandlerEnter` and `HandlerLeave` are the steps that change the completed counters;
that nobody else is halfway through `incConnections` then comes from `LockOwner`.

`LateWrites` (`OnlyLateWriteFails`) needs none of this but `DbClosesLast`: the database
closes only after main has cancelled its context, which without ctrl-C is the last
thing it does, when `Run` has written everything.

**PacketCodec.** The model's arithmetic is proved for every base that is a multiple of
four and every payload size within a word: two bits of encoding and a type share a byte
without overlap (`TypeAndEncoding`), two bytes hold any length below `Word`
(`LengthBytes`). `IInv` says that the bytes encode the parts byte for byte (`Encodes`);
`RoundTrip` only compares what was parsed, which says nothing about a packet that is
still on its way. The data are any set of sequences of bytes (`CodecAssumption`).
Theorems: `RoundTripCorrect`, and `PacketsAreWellFormed`, which gives
the hypothesis of the next component. The latter assumes that the limit and the header fit
into a word together (1024 and 65536 in the code).

**PacketFramer.** `IInv` is `TypeOK`, `FramerAssertions` and two more parts: a packet is
in hand only while it is sent on `C`, and `StreamConserved` without its exception for a
process that has ended, since a failing assertion moves no byte either. The rest is
about sequences: `FilledBuffer` and `ShiftedBuffer` say what `copy` and `append` do to the
filled part of the buffer, `PulledPacket` why the assertions of `PacketFromBytes` follow
from `pull`'s own tests unless the length wraps. All of that holds whatever the peer
writes.

`DeliversInOrderCorrect` assumes `Messages \subseteq WellFormed`: what `PacketFromBytes`
accepts, shorter than a word. The bytes written do not tell where messages end, so the
invariant `ChannelInv` says that there is a function that does (`IsBoundaries`), that the
packets pulled so far are the first messages sent and that they end where the framer's
output ends (`InStep`). `NextPacket` then reads the next header off the stream: it is the
header of the next message, so `pull` cuts where that message ends. Under the same
hypothesis `NoAssertionFails`.

**AMProxy.** `ConnInv(c)`, about one connection, is what the steps of that connection
keep and no other step disturbs (`Untouched`): which connections and framers exist in
which phase and when both ends are closed (`EndsInv`), what the proxy has received from
each side, that is what was sent without what its framer still holds, and how much of it
went to the other side (`ToGameInv`, `GameGotInv`, `ToClientInv`, `ClientGotInv`), and where a
close packet may be (`CloseInv`). A relay that is blocked is one that relays
(`Relaying`). `RelayedInOrder` alone says nothing about the packet in
the proxy's hand, nor `CloseIsLast` about one that is on its way. Theorems:
`TypeCorrect`, `RelayedInOrderCorrect`, `NoHalfOpenCorrect`, `CloseIsLastCorrect`.

**Client.** The properties follow from the order in which goroutines start and
end, `ReaderInv`: the error of `internalRead` is in one place at a time and only after the
loop has ended, the reader's own context is cancelled after the forwarder has passed
the error on, the channels are closed after a context has ended, and the monitor leaves
its loop when `Out` is closed and empty. So a sender that meets a closed channel
has a context that the caller cancelled. Theorems: `TypeCorrect`,
`NoSendOnClosedCorrect`, `ErrorSeenCorrect`.

**LocalServers.** `OnlyCrashesAreUnexpected` speaks of the moment the proxy ends. `EndInv`
says of every moment before it: while a child's context goes on, its command is dead
only after its server has ended or, if `CreateEnvironment` has started it, by
`LocalServers.Close`; and a goroutine that has passed the check of its context and is
about to query has a dead command whose server has ended, or was killed that way, whatever
has been closed since. `ContextInv` has the order of the shutdown: whenever commands are
killed the proxy's context is done. Theorems: `TypeCorrect`,
`OnlyCrashesAreUnexpectedCorrect`.

**Simulation.** `BooksBalance` speaks of the moments after `FinishRound` and
`FailsOnlyWhenLate` of the end; neither says how a round gets there. `IInv` follows the
round that is on, under the condition that no loop is late, and has one part per thing
that the goroutines share:

- `LoopsOfRound`: the loops of other rounds are at rest, so `s.adds` and `s.removes`
  have one owner each; `Numbers`: a batch never exceeds what is left of them, which is
  why the assertion on `s.adds` holds;
- `Counted`: `s.wait` equals what the loops have still to create or to remove
  (`Unmade`), plus the clients that are still connecting or in the hand of the remover. So
  the counter is never negative, and when it is zero all of these are (`AllDone`): this
  is what `FinishRound` relies on;
- `Placed`: every client is in one place, the list, one loop's hand, or disconnected;
- `AddsBehind`: `s.adds` is the end of the list of clients, and those in front of it are
  connected. It survives the append that brings an old list back, because that list
  is then the end of the clients too. It gives `OnlyConnectedRemoved`;
- `Enough`: there are as many clients as the round has still to remove, and in front of
  `s.adds` unless an append was late, so `Remove` does not divide by zero;
- `Removed`, `Added`: how many removals and additions the lists hold at each point of the
  round;
- `RowFollows`: a round that began on a row that was up to date (`late` empty) comes to as
  many connections as the round began with and plans, once the loops have made what
  they have still to make (`Dialled`, `Gone`). So at `AssertRound` a count that does not
  fit is one of a row that is not up to date, which that step records in `late`. The row
  itself may say anything meanwhile.

The list operations need lemmas of their own: `Sorted` lists a finite set of numbers
by rank (`RankOnto`, `SortedSeq`), and a list that loses some of its first places keeps
its end (`WithoutPlaces`). Theorems: `TypeCorrect`, `BooksBalanceCorrect`,
`OnlyConnectedRemovedCorrect`, `FailsOnlyWhenLateCorrect`.

**Only model-checked.** Liveness (`OnlyLostTokensUnserved`,
`RowCatchesUp`, `EventuallyExits`, `CloseArrives`, `ClientAnswered`, `AllReaped`,
`DisconnectEnds`, `SimulationEnds`, the liveness part of `ImplementsChannel`) is out of
the prover's reach: it has no rules for fairness and `ENABLED`.

## Not modelled

- Of `e2e-tests/sim`: the assertions that compare two values once (`AssertClient`,
  `AssertConnectionCount` and the like), the copying of the database file, the sleeps.
- The log parser: a sequential program beside the system, planned last. (Its filters are
  joined by a short-circuiting OR, so a line that an earlier filter takes never reaches
  `RoundFilter`, which has to see every line to know the round.)
- `WriteAll`: one loop over one connection. Of the table: the schema,
  `GetConfigByHostAndPort` and `GetServerCount`, which nobody calls, and
  `DeleteGameServerConfig`, which can only fail.
- Load and its `float32` arithmetic; host, port and time stamps of rows; SQLite's
  busy timeout and pragmas (a statement succeeds atomically or fails).
- `AMProxy.Run` (never called); `LocalServers.Run`, whose `refresh` is empty.
- `pkg/pretty-log`, `pkg/assert`, byte printing: output only.
- `flyio.go`, `quick-math`, `legacy-packet.go`, `src/main.rs`, and the commands that
  are experiments or import packages that no longer exist.

## Plan

1. (done) `GameServerStats`, `MatchMaking`, `GameServer`, `Packet*`, `AMProxy`,
   `LocalServers`, `Client`, `Simulation`; the inductive invariants of `MatchMaking`
   and `GameServer`.
2. (done) `CountedServer` and the proof that `GameServer` implements it.
3. `System`: `MatchMaking` with `CountedServer` instances in place of `ServerUpdate`,
   which then is a consequence of the refinement; a server that closes under the clients
   matchmaking is sending to it.
4. Proofs: (done) the safety invariants of all components and the safety half of both
   refinements; next, those of `System`.
5. The log parser and `WriteAll`.
