------------------------------ MODULE Simulation ------------------------------
(***************************************************************************)
(* The end-to-end simulation (e2e-tests/sim): RunSimulation adds and       *)
(* removes clients in rounds and checks after each that the table of game  *)
(* servers moved by as many connections.                                   *)
(*                                                                         *)
(* A round is the main goroutine, a loop that adds, a loop that removes    *)
(* and a goroutine per new client.  They meet in s.wait, in the lists of   *)
(* SimulationConnections, whose mutex FinishRound does not take, and in    *)
(* s.adds and s.removes, which belong to no round: a loop that is slow     *)
(* finds the numbers of the next one.  The loops are therefore kept per    *)
(* round, and "late" records what came later than the code expects.        *)
(*                                                                         *)
(* There is one game server.  Its row says of the connections what was     *)
(* true at some earlier time, and may go back (GameServer); it is looked   *)
(* at only when the simulation reads it (Shown).                           *)
(***************************************************************************)
EXTENDS Integers, FiniteSets, SequencesExt

CONSTANTS
  Rounds,     \* params.Rounds
  MaxChange,  \* bound on the adds and on the removes drawn for a round
  MaxBatch    \* params.MaxBatchConnectionChange

ASSUME ConstantsAssumption ==
  Rounds \in Nat /\ MaxChange \in Nat \ {0} /\ MaxBatch \in Nat \ {0}

VARIABLES
  main,     \* where RunSimulation is
  round,    \* rounds begun
  plan,     \* the numbers of adds and removes of the round
  left,     \* s.adds and s.removes
  loop,     \* the two loops of every round
  state,    \* the State of the clients created so far, by number
  clients, adds, removes, \* the lists of SimulationConnections
  taken,    \* what FinishRound returned last
  wait,     \* s.wait
  target,   \* what the clients dial
  start,    \* the connections in startConfigs
  exit,     \* why the process ended, "none" while it runs
  late      \* history: what was late

listVars == <<clients, adds, removes, taken>>
tableVars == <<target, start>>
vars == <<main, round, plan, left, loop, state, listVars, wait, tableVars,
          exit, late>>

Kinds == {"add", "remove"}
MainSteps == {"top", "finish", "clear", "poll", "assert", "batch", "done"}
LoopSteps == {"none", "new", "loop", "took", "sleep", "append", "disconnect",
              "ended"}
ClientStates == {"connecting", "connected", "disconnected"}
Crashes == {"negative_WaitGroup_counter", "negative_adds", "divide_by_zero",
            "unable_to_connect", "query_failed", "different_keys",
            "count_mismatch"}

(***************************************************************************)
(* The proxy, a game server itself, which reads the authentication but     *)
(* answers nothing, or a server of the kind AssertServerState is written   *)
(* for, which the repository has not got yet: it answers, and its row has  *)
(* the address that was dialled.                                           *)
(***************************************************************************)
Targets == {"proxy", "game", "answering"}

(* What a loop is doing, with which number, and with which clients. *)
Loop(at, n, hand) == [at |-> at, n |-> n, hand |-> hand]

Init ==
  /\ main \in {"top", "batch"}
  /\ round = 0
  /\ plan = [k \in Kinds |-> 0]
  /\ left = [k \in Kinds |-> 0]
  /\ loop = [k \in Kinds |-> [r \in 1..Rounds |-> Loop("none", 0, {})]]
  /\ state = <<>>
  /\ clients = <<>> /\ adds = <<>> /\ removes = {}
  /\ taken = [adds |-> <<>>, removes |-> {}]
  /\ wait = 0
  /\ target \in Targets
  /\ start = 0
  /\ exit = "none"
  /\ late = {}

-----------------------------------------------------------------------------
ClientsThat(st) == {c \in DOMAIN state : state[c] = st}

(* The connections there are once every client that dialled is connected. *)
Connections == Len(state) - Cardinality(ClientsThat("disconnected"))

(* What the row may say instead: a count of some earlier time. *)
Shown == 0..Len(state)

RowLate(shown) == IF shown # Connections THEN {"row"} ELSE {}

(* sync.WaitGroup.Done. *)
Done ==
  IF wait > 0 THEN wait' = wait - 1 /\ UNCHANGED exit
              ELSE exit' = "negative_WaitGroup_counter" /\ UNCHANGED wait

(* Mutant of NextBatch: nextInt includes its upper bound, and one more. *)
NextBatchTooMany(remaining) ==
  1..((IF remaining < MaxBatch THEN remaining ELSE MaxBatch) + 1)

(***************************************************************************)
(* getNextBatch: between 1 and the lower of the two, but nextInt excludes  *)
(* its upper bound.  With nothing remaining it still answers 1.            *)
(***************************************************************************)
NextBatch(remaining) ==
  LET maxRemaining == IF remaining < MaxBatch THEN remaining ELSE MaxBatch
  IN  IF maxRemaining <= 1 THEN {1} ELSE 1..(maxRemaining - 1)

-----------------------------------------------------------------------------
(***************************************************************************)
(* RunSimulation, the main goroutine.                                      *)
(***************************************************************************)
Alive(r) == \E k \in Kinds : loop[k][r].at \notin {"none", "ended"}

(* The head of a round, up to the two go statements: StartRound of the     *)
(* waiter reads the row, that of the connections sets the WaitGroup.       *)
StartRound ==
  /\ main = "top"
  /\ round < Rounds
  /\ round' = round + 1
  /\ \E a \in 0..MaxChange, d \in 0..MaxChange :
       /\ d <= Len(clients)
       /\ plan' = [k \in Kinds |-> IF k = "add" THEN a ELSE d]
       /\ wait' = a + d
       /\ loop' = [k \in Kinds |->
                     [loop[k] EXCEPT ![round'] = Loop("new", plan'[k], {})]]
  /\ start' \in Shown
  /\ late' = (late \ {"row"}) \cup RowLate(start')
                \cup IF \E r \in 1..round : Alive(r) THEN {"loop"} ELSE {}
  /\ main' = "finish"
  /\ UNCHANGED <<left, state, listVars, target, exit>>

(* The rounds are over, or the context is. *)
SimulationDone ==
  /\ main = "top"
  /\ main' = "done"
  /\ UNCHANGED <<round, plan, left, loop, state, listVars, wait, tableVars,
                 exit, late>>

(* FinishRound waits, takes the lists and then empties them. *)
TakeLists ==
  /\ main = "finish"
  /\ wait = 0
  /\ taken' = [adds |-> adds, removes |-> removes]
  /\ late' = late \cup IF loop["add"][round].at = "append" THEN {"append"} ELSE {}
  /\ main' = "clear"
  /\ UNCHANGED <<round, plan, left, loop, state, clients, adds, removes, wait,
                 tableVars, exit>>

ClearLists ==
  /\ main = "clear"
  /\ adds' = <<>> /\ removes' = {}
  /\ main' = "poll"
  /\ UNCHANGED <<round, plan, left, loop, state, clients, taken, wait,
                 tableVars, exit, late>>

(* The poll finds the expected totals, or gives up; either way the round is
   asserted next, on the row of that time. *)
WaitForRound ==
  /\ main = "poll"
  /\ main' = "assert"
  /\ UNCHANGED <<round, plan, left, loop, state, listVars, wait, tableVars,
                 exit, late>>

(***************************************************************************)
(* AssertRound: the lists FinishRound returned, added to the connections   *)
(* of the addresses before, against the addresses after.  A client knows   *)
(* only the address it dialled.                                            *)
(***************************************************************************)
AssertRound ==
  /\ main = "assert"
  /\ \E shown \in Shown :
       /\ late' = late \cup RowLate(shown)
       /\ IF target = "proxy" /\ (taken.adds # <<>> \/ taken.removes # {})
            THEN exit' = "different_keys" /\ UNCHANGED main
            ELSE IF shown # start + Len(taken.adds) - Cardinality(taken.removes)
              THEN exit' = "count_mismatch" /\ UNCHANGED main
              ELSE main' = "top" /\ UNCHANGED exit
  /\ UNCHANGED <<round, plan, left, loop, state, listVars, wait, tableVars>>

(* The queries of StartRound, WaitForRound and AssertRound are asserted. *)
QueryFails ==
  /\ main \in {"top", "poll", "assert"}
  /\ main = "top" => round < Rounds
  /\ exit' = "query_failed"
  /\ UNCHANGED <<main, round, plan, left, loop, state, listVars, wait,
                 tableVars, late>>

(***************************************************************************)
(* CreateBatchedConnections, which the tests call without a simulation:    *)
(* its own WaitGroup counts nothing, so Wait returns at once.              *)
(***************************************************************************)
CreateBatchedConnections ==
  /\ main = "batch"
  /\ \E n \in 1..MaxChange : state' = [c \in 1..n |-> "connecting"]
  /\ main' = "done"
  /\ UNCHANGED <<round, plan, left, loop, listVars, wait, tableVars, exit, late>>

MainStep ==
  \/ StartRound \/ SimulationDone \/ TakeLists \/ ClearLists
  \/ WaitForRound \/ AssertRound \/ QueryFails \/ CreateBatchedConnections

-----------------------------------------------------------------------------
(***************************************************************************)
(* What the two loops have in common.                                      *)
(***************************************************************************)
Goes(k, r, next) == loop' = [loop EXCEPT ![k][r] = next]

(* s.adds = adds, when the goroutine first runs. *)
LoopSet(k, r) ==
  /\ loop[k][r].at = "new"
  /\ left' = [left EXCEPT ![k] = loop[k][r].n]
  /\ Goes(k, r, Loop("loop", 0, {}))
  /\ UNCHANGED <<main, round, plan, state, listVars, wait, tableVars, exit, late>>

LoopTake(k, r) ==
  /\ loop[k][r].at = "loop"
  /\ IF left[k] > 0
       THEN \E n \in NextBatch(left[k]) : Goes(k, r, Loop("took", n, {}))
       ELSE Goes(k, r, Loop("ended", 0, {}))
  /\ UNCHANGED <<main, round, plan, left, state, listVars, wait, tableVars,
                 exit, late>>

(***************************************************************************)
(* s.adds -= randomAdds, asserted not to become negative, or s.removes -=  *)
(* randomRemoves, which are forgotten when there are no clients.           *)
(***************************************************************************)
AdderTook(r) ==
  LET n == loop["add"][r].n IN
  /\ loop["add"][r].at = "took"
  /\ left' = [left EXCEPT !["add"] = @ - n]
  /\ exit' = IF left'["add"] < 0 THEN "negative_adds" ELSE exit
  /\ Goes("add", r, Loop("sleep", n, {}))
  /\ UNCHANGED <<main, round, plan, state, listVars, wait, tableVars, late>>

(* Mutant of RemoverTook: it gives up when it would remove the last one. *)
RemoverTookKeepsOne(r) ==
  LET n == loop["remove"][r].n IN
  /\ loop["remove"][r].at = "took"
  /\ left' = [left EXCEPT !["remove"] = @ - n]
  /\ Goes("remove", r, IF Len(clients) <= n THEN Loop("loop", 0, {})
                                           ELSE Loop("sleep", n, {}))
  /\ UNCHANGED <<main, round, plan, state, listVars, wait, tableVars, exit, late>>

RemoverTook(r) ==
  LET n == loop["remove"][r].n IN
  /\ loop["remove"][r].at = "took"
  /\ left' = [left EXCEPT !["remove"] = @ - n]
  /\ Goes("remove", r, IF Len(clients) = 0 THEN Loop("loop", 0, {})
                                           ELSE Loop("sleep", n, {}))
  /\ UNCHANGED <<main, round, plan, state, listVars, wait, tableVars, exit, late>>

-----------------------------------------------------------------------------
(* Mutant of NewIds: the numbers start one too low. *)
NewIdsFromLast(n) == Len(state)..(Len(state) + n - 1)

(* getNextId, for the clients of a batch. *)
NewIds(n) == (Len(state) + 1)..(Len(state) + n)

(* The numbers of a set, in their order. *)
Sorted(S) ==
  [i \in 1..Cardinality(S) |->
     CHOOSE x \in S : Cardinality({y \in S : y <= x}) = i]

(***************************************************************************)
(* AddBatch: the clients are created, each with its own goroutine, and     *)
(* appended to the lists only then.                                        *)
(***************************************************************************)
CreateBatch(r) ==
  LET n == loop["add"][r].n IN
  /\ loop["add"][r].at = "sleep"
  /\ state' = state \o [i \in 1..n |-> "connecting"]
  /\ Goes("add", r, Loop("append", 0, NewIds(n)))
  /\ UNCHANGED <<main, round, plan, left, listVars, wait, tableVars, exit, late>>

(* Mutant of Appended: the batch is listed among the adds only. *)
AppendedNowhere(batch) == UNCHANGED clients

Appended(batch) == clients' = clients \o batch

(***************************************************************************)
(* The append that FinishRound did not wait for: it may have read s.adds   *)
(* before FinishRound emptied it, and then brings the old list back.       *)
(***************************************************************************)
AppendBatch(r) ==
  LET batch == Sorted(loop["add"][r].hand) IN
  /\ loop["add"][r].at = "append"
  /\ Appended(batch)
  /\ \/ adds' = adds \o batch
     \/ /\ round = r /\ main \in {"poll", "assert", "top"}
        /\ adds' = taken.adds \o batch
  /\ Goes("add", r, Loop("loop", 0, {}))
  /\ UNCHANGED <<main, round, plan, left, state, removes, taken, wait,
                 tableVars, exit, late>>

-----------------------------------------------------------------------------
(* Mutant of Removable: clients of this round may be removed as well. *)
RemovableAll == DOMAIN clients

(* Remove draws from the clients in front of those of this round. *)
Removable == 1..(Len(clients) - Len(adds))

(* What is left of a list without the elements at some places. *)
Without(s, places) ==
  LET kept == Sorted(DOMAIN s \ places) IN [i \in DOMAIN kept |-> s[kept[i]]]

(***************************************************************************)
(* Remove.  The list of removals is appended to without the mutex, in the  *)
(* step that draws them: within a round nobody else touches it.            *)
(***************************************************************************)
RemoveClients(r) ==
  LET n == loop["remove"][r].n IN
  /\ loop["remove"][r].at = "sleep"
  /\ n <= Cardinality(Removable)
  /\ \E drawn \in kSubset(n, Removable) :
       LET out == {clients[i] : i \in drawn} IN
       /\ clients' = Without(clients, drawn)
       /\ removes' = removes \cup out
       /\ Goes("remove", r, Loop("disconnect", 0, out))
  /\ UNCHANGED <<main, round, plan, left, state, adds, taken, wait, tableVars,
                 exit, late>>

(* s.rand.Int() % length, when length has become zero. *)
RemoveFails(r) ==
  /\ loop["remove"][r].at = "sleep"
  /\ loop["remove"][r].n > Cardinality(Removable)
  /\ exit' = "divide_by_zero"
  /\ UNCHANGED <<main, round, plan, left, loop, state, listVars, wait,
                 tableVars, late>>

(* c.Disconnect() and s.wait.Done(), one client after the other. *)
Disconnect(r) ==
  /\ loop["remove"][r].at = "disconnect"
  /\ \E c \in loop["remove"][r].hand :
       LET hand == loop["remove"][r].hand \ {c} IN
       /\ state' = [state EXCEPT ![c] = "disconnected"]
       /\ Goes("remove", r, Loop(IF hand = {} THEN "loop" ELSE "disconnect",
                                 0, hand))
  /\ Done
  /\ UNCHANGED <<main, round, plan, left, listVars, tableVars, late>>

LoopStep(r) ==
  \/ \E k \in Kinds : LoopSet(k, r) \/ LoopTake(k, r)
  \/ AdderTook(r) \/ CreateBatch(r) \/ AppendBatch(r)
  \/ RemoverTook(r) \/ RemoveClients(r) \/ RemoveFails(r) \/ Disconnect(r)

-----------------------------------------------------------------------------
(* The goroutine of NewWait: Connect waits for the auth response. *)
ClientReady(c) ==
  /\ target # "game"
  /\ state[c] = "connecting"
  /\ state' = [state EXCEPT ![c] = "connected"]
  /\ Done
  /\ UNCHANGED <<main, round, plan, left, loop, listVars, tableVars, late>>

ClientFails(c) ==
  /\ state[c] = "connecting"
  /\ exit' = "unable_to_connect"
  /\ UNCHANGED <<main, round, plan, left, loop, state, listVars, wait,
                 tableVars, late>>

(***************************************************************************)
(* What follows a late loop is not explored: two goroutines then change    *)
(* s.adds, s.removes and the lists without a lock.                         *)
(***************************************************************************)
Running == exit = "none" /\ "loop" \notin late

Next ==
  /\ Running
  /\ \/ MainStep
     \/ \E r \in 1..Rounds : LoopStep(r)
     \/ \E c \in DOMAIN state : ClientReady(c) \/ ClientFails(c)

(***************************************************************************)
(* Every goroutine that can run does.  Nobody promises a client an answer: *)
(* its matchmaking may wait for ever (AMProxy), a game server sends none.  *)
(***************************************************************************)
Fairness ==
  /\ WF_vars(Running /\ MainStep)
  /\ \A r \in 1..Rounds : WF_vars(Running /\ LoopStep(r))

Spec == Init /\ [][Next]_vars
FairSpec == Spec /\ Fairness

-----------------------------------------------------------------------------
(***************************************************************************)
(* Every variable has its type.                                            *)
(***************************************************************************)
TypeOK ==
  /\ main \in MainSteps
  /\ round \in 0..Rounds
  /\ plan \in [Kinds -> 0..MaxChange]
  /\ left \in [Kinds -> Int]
  /\ loop \in [Kinds -> [1..Rounds ->
       [at : LoopSteps, n : Nat, hand : SUBSET DOMAIN state]]]
  /\ state \in Seq(ClientStates)
  /\ clients \in Seq(DOMAIN state) /\ adds \in Seq(DOMAIN state)
  /\ removes \subseteq DOMAIN state
  /\ taken.adds \in Seq(DOMAIN state) /\ taken.removes \subseteq DOMAIN state
  /\ wait \in Nat
  /\ target \in Targets
  /\ start \in Nat
  /\ exit \in Crashes \cup {"none"}
  /\ late \subseteq {"append", "loop", "row"}

(***************************************************************************)
(* What a round has come to when FinishRound has its lists: the removed    *)
(* clients are as many as planned and disconnected, the added ones are     *)
(* connected (what AssertAddsAndRemoves, connections.go:59-68, is after;   *)
(* nobody calls it, and Client.State never becomes CSConnected), and the   *)
(* list of clients is exactly the connected ones, but for a batch that is  *)
(* still to be appended; without such a batch the added clients are as     *)
(* many as planned too.                                                    *)
(***************************************************************************)
BooksBalance ==
  LET listed == ToSet(clients) \cup loop["add"][round].hand IN
  "loop" \notin late /\ main \in {"clear", "poll", "assert"} =>
    /\ Cardinality(taken.removes) = plan["remove"]
    /\ \A c \in taken.removes : state[c] = "disconnected"
    /\ listed = ClientsThat("connected")
    /\ ToSet(taken.adds) \subseteq listed
    /\ "append" \notin late => Len(taken.adds) = plan["add"]

(***************************************************************************)
(* Remove never takes a client that is still connecting, whose Disconnect  *)
(* would find no connection: those of this round are behind the part of    *)
(* the list it draws from, even while they are being appended, and even    *)
(* after an append that came too late.                                     *)
(***************************************************************************)
OnlyConnectedRemoved ==
  "loop" \notin late =>
    \A r \in 1..Rounds :
      \A c \in loop["remove"][r].hand : state[c] = "connected"

(***************************************************************************)
(* What a simulation may blame its end on, as long as no loop is late: the *)
(* WaitGroup of CreateBatchedConnections alone counts too little; s.adds   *)
(* is never negative (sim.go:116); Remove runs out of clients only after a *)
(* late append; addresses differ only against the proxy, whose every round *)
(* with a change fails; and the counts differ only if the row was not up   *)
(* to date when the round read it, before or after, or an append was late: *)
(* the simulation itself never miscounts.  A client that cannot connect    *)
(* and a query that fails end it too, with nothing late.                   *)
(***************************************************************************)
FailsOnlyWhenLate ==
  /\ exit = "negative_WaitGroup_counter" => round = 0
  /\ exit # "negative_adds"
  /\ exit = "divide_by_zero" => "append" \in late
  /\ exit = "different_keys" => target = "proxy"
  /\ exit = "count_mismatch" => late # {}

(***************************************************************************)
(* A simulation comes to its end: no round waits for ever for clients that *)
(* the loops have forgotten to add or to remove (sim.go:129-131), unless a *)
(* client is never answered, on which Connect waits for ever               *)
(* (client.go:140).                                                        *)
(***************************************************************************)
NeverAnswered(c) == <>[](c \in DOMAIN state /\ state[c] = "connecting")

SimulationEnds ==
  \/ \E c \in 1..(Rounds * MaxChange) : NeverAnswered(c)
  \/ <>(main = "done" \/ exit # "none" \/ "loop" \in late)
=============================================================================
