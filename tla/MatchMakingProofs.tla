-------------------------- MODULE MatchMakingProofs --------------------------
(***************************************************************************)
(* The invariants of MatchMaking hold for any set of connections, any      *)
(* number of left-over rows, and with or without database failures.        *)
(***************************************************************************)
EXTENDS MatchMaking, FiniteSetTheorems, TLAPS

(***************************************************************************)
(* The inductive invariant: what the four invariants above rest on.        *)
(* Ids are handed out in order; the server being created belongs to the    *)
(* round of its leader; lastCreatedGameId never runs behind the round that *)
(* released a waiter; rows are never removed, so the leader's row, which   *)
(* WaitForReady has seen, is still there when it is resolved.              *)
(***************************************************************************)
IdsInOrder ==
  /\ \A s \in spawned : s < id
  /\ \A c \in Conns :
       /\ pc[c] = "bump" => gameId[c] = id
       /\ Created(c) => gameId[c] \in spawned
       /\ Leader(c) => role[c] = "leader"
       /\ pc[c] \in {"wait", "parked", "woken", "last"} => role[c] = "waiter"
       /\ pc[c] \in {"conn", "done"} => role[c] # "none"
       /\ pc[c] \in {"best", "begin"} => role[c] = "none"

SavedId == lastCreatedGameId \in spawned /\ lastCreatedGameId >= round

RoundsInOrder ==
  /\ round =< id
  /\ lastCreatedGameId < id
  /\ \A c \in Conns :
       /\ joined[c] =< round
       /\ pc[c] = "create" => round = id
       /\ pc[c] = "bump" => round =< gameId[c]
       /\ pc[c] = "save" => round =< gameId[c] /\ lastCreatedGameId < gameId[c]
       /\ pc[c] \in {"ready", "stop"} => SavedId

WaitersSeeSavedId ==
  /\ wait.sema > 0 => SavedId /\ ~waitingForServer
  /\ \A c \in Conns :
       /\ pc[c] = "wait" /\ ~waitingForServer => SavedId
       /\ pc[c] \in {"woken", "last"} =>
            lastCreatedGameId \in spawned /\ lastCreatedGameId >= joined[c]

ResolvedRows ==
  \A c \in Conns :
    /\ pc[c] = "stop" => HasRow(rows, gameId[c])
    /\ pc[c] \in {"conn", "done"} /\ role[c] # "waiter" => HasRow(rows, gameId[c])

IInv ==
  /\ TypeOK
  /\ SingleLeader
  /\ UniqueServerIds
  /\ WaiterGetsFreshServer
  /\ IdsInOrder
  /\ RoundsInOrder
  /\ WaitersSeeSavedId
  /\ ResolvedRows

-----------------------------------------------------------------------------
USE DEF Goto, matchVars, serverVars, history, HasRow, spawned, Leader,
        LeaderSteps, Steps, Created, SavedId, NoId

(* The invariant holds initially. *)
LEMMA InitIInv ==
  Init => IInv
<1> SUFFICES ASSUME Init PROVE IInv
  OBVIOUS
<1> USE DEF Init, ZeroWaitGroup
<1>1. TypeOK
  <2>1. DOMAIN rows = OldIds /\ rows \in [DOMAIN rows -> Row]
    OBVIOUS
  <2> QED BY <2>1, ConstantsAssumption DEF TypeOK, Exits
<1>2. SingleLeader /\ UniqueServerIds /\ WaiterGetsFreshServer
  BY DEF SingleLeader, UniqueServerIds, WaiterGetsFreshServer
<1>3. IdsInOrder /\ RoundsInOrder /\ WaitersSeeSavedId /\ ResolvedRows
  BY DEF IdsInOrder, RoundsInOrder, WaitersSeeSavedId, ResolvedRows
<1> QED BY <1>1, <1>2, <1>3 DEF IInv

(* GetBestServer found a row: the id it returns has one. *)
LEMMA FoundBestServerIInv ==
  ASSUME IInv, NEW c \in Conns, FoundBestServer(c)
  PROVE  IInv'
<1> USE DEF IInv, FoundBestServer, FirstByUtilization,
            ServersByUtilization
<1>1. TypeOK'
  BY DEF TypeOK
<1>2. SingleLeader'
  BY DEF TypeOK, SingleLeader
<1>3. UniqueServerIds'
  BY DEF TypeOK, SingleLeader, UniqueServerIds, IdsInOrder
<1>4. WaiterGetsFreshServer'
  BY DEF TypeOK, WaiterGetsFreshServer, WaitersSeeSavedId, IdsInOrder
<1>5. IdsInOrder'
  BY DEF TypeOK, SingleLeader, IdsInOrder
<1>6. RoundsInOrder'
  BY DEF TypeOK, SingleLeader, IdsInOrder, RoundsInOrder
<1>7. WaitersSeeSavedId'
  BY DEF TypeOK, SingleLeader, IdsInOrder, RoundsInOrder,
         WaitersSeeSavedId
<1>8. ResolvedRows'
  BY DEF TypeOK, IdsInOrder, ResolvedRows
<1> QED BY <1>1, <1>2, <1>3, <1>4, <1>5, <1>6, <1>7, <1>8

(* GetBestServer found nothing: only pc moves. *)
LEMMA NoBestServerIInv ==
  ASSUME IInv, NEW c \in Conns, NoBestServer(c)
  PROVE  IInv'
<1> USE DEF IInv, NoBestServer
<1>1. TypeOK'
  BY DEF TypeOK
<1>2. SingleLeader'
  BY DEF TypeOK, SingleLeader
<1>3. UniqueServerIds'
  BY DEF TypeOK, SingleLeader, UniqueServerIds, IdsInOrder
<1>4. WaiterGetsFreshServer'
  BY DEF TypeOK, WaiterGetsFreshServer, WaitersSeeSavedId, IdsInOrder
<1>5. IdsInOrder'
  BY DEF TypeOK, SingleLeader, IdsInOrder
<1>6. RoundsInOrder'
  BY DEF TypeOK, SingleLeader, IdsInOrder, RoundsInOrder
<1>7. WaitersSeeSavedId'
  BY DEF TypeOK, SingleLeader, IdsInOrder, RoundsInOrder,
         WaitersSeeSavedId
<1>8. ResolvedRows'
  BY DEF TypeOK, IdsInOrder, ResolvedRows
<1> QED BY <1>1, <1>2, <1>3, <1>4, <1>5, <1>6, <1>7, <1>8

(* A new round begins.  There was no leader, so no token and no waiter
   survives from the round before in the new WaitGroup. *)
LEMMA StartWaitingIInv ==
  ASSUME IInv, NEW c \in Conns, StartWaiting(c)
  PROVE  IInv'
<1> USE DEF IInv, StartWaiting, ZeroWaitGroup
<1>1. TypeOK'
  BY DEF TypeOK
<1>2. SingleLeader'
  BY DEF TypeOK, SingleLeader
<1>3. UniqueServerIds'
  BY DEF TypeOK, SingleLeader, UniqueServerIds, IdsInOrder
<1>4. WaiterGetsFreshServer'
  BY DEF TypeOK, WaiterGetsFreshServer, WaitersSeeSavedId, IdsInOrder
<1>5. IdsInOrder'
  BY DEF TypeOK, SingleLeader, IdsInOrder
<1>6. RoundsInOrder'
  BY DEF TypeOK, SingleLeader, IdsInOrder, RoundsInOrder
<1>7. WaitersSeeSavedId'
  BY DEF TypeOK, SingleLeader, IdsInOrder, RoundsInOrder,
         WaitersSeeSavedId
<1>8. ResolvedRows'
  BY DEF TypeOK, IdsInOrder, ResolvedRows
<1> QED BY <1>1, <1>2, <1>3, <1>4, <1>5, <1>6, <1>7, <1>8

(* A waiter joins the round of the current leader. *)
LEMMA AlreadyWaitingIInv ==
  ASSUME IInv, NEW c \in Conns, AlreadyWaiting(c)
  PROVE  IInv'
<1> USE DEF IInv, AlreadyWaiting
<1>1. TypeOK'
  BY DEF TypeOK
<1>2. SingleLeader'
  BY DEF TypeOK, SingleLeader
<1>3. UniqueServerIds'
  BY DEF TypeOK, SingleLeader, UniqueServerIds, IdsInOrder
<1>4. WaiterGetsFreshServer'
  BY DEF TypeOK, WaiterGetsFreshServer, WaitersSeeSavedId, IdsInOrder
<1>5. IdsInOrder'
  BY DEF TypeOK, SingleLeader, IdsInOrder
<1>6. RoundsInOrder'
  BY DEF TypeOK, SingleLeader, IdsInOrder, RoundsInOrder
<1>7. WaitersSeeSavedId'
  BY DEF TypeOK, SingleLeader, IdsInOrder, RoundsInOrder,
         WaitersSeeSavedId
<1>8. ResolvedRows'
  BY DEF TypeOK, IdsInOrder, ResolvedRows
<1> QED BY <1>1, <1>2, <1>3, <1>4, <1>5, <1>6, <1>7, <1>8

(* A zero counter means that the round is over and its id saved. *)
LEMMA WaitGroupWaitIInv ==
  ASSUME IInv, NEW c \in Conns, WaitGroupWait(c)
  PROVE  IInv'
<1> USE DEF IInv, WaitGroupWait
<1>1. TypeOK'
  <2>1. wait \in [count : Nat, waiters : Nat, sema : Nat]
    BY DEF TypeOK
  <2>2. wait' \in [count : Nat, waiters : Nat, sema : Nat]
    BY <2>1, SMT DEF SingleLeader
  <2> QED BY <2>2 DEF TypeOK
<1>2. SingleLeader'
  BY DEF TypeOK, SingleLeader
<1>3. UniqueServerIds'
  BY DEF TypeOK, SingleLeader, UniqueServerIds, IdsInOrder
<1>4. WaiterGetsFreshServer'
  BY DEF TypeOK, WaiterGetsFreshServer, WaitersSeeSavedId, IdsInOrder
<1>5. IdsInOrder'
  BY DEF TypeOK, SingleLeader, IdsInOrder
<1>6. RoundsInOrder'
  BY DEF TypeOK, SingleLeader, IdsInOrder, RoundsInOrder
<1>7. WaitersSeeSavedId'
  BY DEF TypeOK, SingleLeader, IdsInOrder, RoundsInOrder,
         WaitersSeeSavedId
<1>8. ResolvedRows'
  BY DEF TypeOK, IdsInOrder, ResolvedRows
<1> QED BY <1>1, <1>2, <1>3, <1>4, <1>5, <1>6, <1>7, <1>8

(* A token exists only after a round is over and before the next begins. *)
LEMMA WaitGroupWakeIInv ==
  ASSUME IInv, NEW c \in Conns, WaitGroupWake(c)
  PROVE  IInv'
<1> USE DEF IInv, WaitGroupWake
<1>1. TypeOK'
  <2>1. wait \in [count : Nat, waiters : Nat, sema : Nat]
    BY DEF TypeOK
  <2>2. wait' \in [count : Nat, waiters : Nat, sema : Nat]
    BY <2>1, SMT DEF SingleLeader
  <2> QED BY <2>2 DEF TypeOK
<1>2. SingleLeader'
  BY DEF TypeOK, SingleLeader
<1>3. UniqueServerIds'
  BY DEF TypeOK, SingleLeader, UniqueServerIds, IdsInOrder
<1>4. WaiterGetsFreshServer'
  BY DEF TypeOK, WaiterGetsFreshServer, WaitersSeeSavedId, IdsInOrder
<1>5. IdsInOrder'
  BY DEF TypeOK, SingleLeader, IdsInOrder
<1>6. RoundsInOrder'
  BY DEF TypeOK, SingleLeader, IdsInOrder, RoundsInOrder
<1>7. WaitersSeeSavedId'
  BY DEF TypeOK, SingleLeader, IdsInOrder, RoundsInOrder,
         WaitersSeeSavedId
<1>8. ResolvedRows'
  BY DEF TypeOK, IdsInOrder, ResolvedRows
<1> QED BY <1>1, <1>2, <1>3, <1>4, <1>5, <1>6, <1>7, <1>8

(* The goroutine goes on to read, or the process panics. *)
LEMMA WaitGroupReturnIInv ==
  ASSUME IInv, NEW c \in Conns, WaitGroupReturn(c)
  PROVE  IInv'
<1> USE DEF IInv, WaitGroupReturn
<1>1. TypeOK'
  BY DEF TypeOK, Exits
<1>2. SingleLeader'
  BY DEF TypeOK, SingleLeader
<1>3. UniqueServerIds'
  <2>1. \A d \in Conns : Created(d)' => Created(d) /\ gameId'[d] = gameId[d]
    BY DEF TypeOK, IdsInOrder
  <2> QED BY <2>1 DEF UniqueServerIds
<1>4. WaiterGetsFreshServer'
  BY DEF TypeOK, WaiterGetsFreshServer, WaitersSeeSavedId, IdsInOrder
<1>5. IdsInOrder'
  BY DEF TypeOK, SingleLeader, IdsInOrder
<1>6. RoundsInOrder'
  BY DEF TypeOK, SingleLeader, IdsInOrder, RoundsInOrder
<1>7. WaitersSeeSavedId'
  BY DEF TypeOK, SingleLeader, IdsInOrder, RoundsInOrder,
         WaitersSeeSavedId
<1>8. ResolvedRows'
  BY DEF TypeOK, IdsInOrder, ResolvedRows
<1> QED BY <1>1, <1>2, <1>3, <1>4, <1>5, <1>6, <1>7, <1>8

(* The waiter takes the saved id. *)
LEMMA ReadLastCreatedIInv ==
  ASSUME IInv, NEW c \in Conns, ReadLastCreated(c)
  PROVE  IInv'
<1> USE DEF IInv, ReadLastCreated
<1>1. TypeOK'
  BY DEF TypeOK
<1>2. SingleLeader'
  BY DEF TypeOK, SingleLeader
<1>3. UniqueServerIds'
  BY DEF TypeOK, SingleLeader, UniqueServerIds, IdsInOrder
<1>4. WaiterGetsFreshServer'
  BY DEF TypeOK, WaiterGetsFreshServer, WaitersSeeSavedId, IdsInOrder
<1>5. IdsInOrder'
  BY DEF TypeOK, SingleLeader, IdsInOrder
<1>6. RoundsInOrder'
  BY DEF TypeOK, SingleLeader, IdsInOrder, RoundsInOrder
<1>7. WaitersSeeSavedId'
  BY DEF TypeOK, SingleLeader, IdsInOrder, RoundsInOrder,
         WaitersSeeSavedId
<1>8. ResolvedRows'
  BY DEF TypeOK, IdsInOrder, ResolvedRows
<1> QED BY <1>1, <1>2, <1>3, <1>4, <1>5, <1>6, <1>7, <1>8

(* The leader takes the next id. *)
LEMMA TakeIdIInv ==
  ASSUME IInv, NEW c \in Conns, TakeId(c)
  PROVE  IInv'
<1> USE DEF IInv, TakeId
<1>1. TypeOK'
  BY DEF TypeOK
<1>2. SingleLeader'
  BY DEF TypeOK, SingleLeader
<1>3. UniqueServerIds'
  BY DEF TypeOK, SingleLeader, UniqueServerIds, IdsInOrder
<1>4. WaiterGetsFreshServer'
  BY DEF TypeOK, WaiterGetsFreshServer, WaitersSeeSavedId, IdsInOrder
<1>5. IdsInOrder'
  BY DEF TypeOK, SingleLeader, IdsInOrder
<1>6. RoundsInOrder'
  BY DEF TypeOK, SingleLeader, IdsInOrder, RoundsInOrder
<1>7. WaitersSeeSavedId'
  BY DEF TypeOK, SingleLeader, IdsInOrder, RoundsInOrder,
         WaitersSeeSavedId
<1>8. ResolvedRows'
  BY DEF TypeOK, IdsInOrder, ResolvedRows
<1> QED BY <1>1, <1>2, <1>3, <1>4, <1>5, <1>6, <1>7, <1>8

(* The id is larger than every id handed out before. *)
LEMMA SpawnServerIInv ==
  ASSUME IInv, NEW c \in Conns, SpawnServer(c)
  PROVE  IInv'
<1> USE DEF IInv, SpawnServer
<1>1. TypeOK'
  BY DEF TypeOK, IdsInOrder
<1>2. SingleLeader'
  BY DEF TypeOK, SingleLeader
<1>3. UniqueServerIds'
  BY DEF TypeOK, SingleLeader, UniqueServerIds, IdsInOrder
<1>4. WaiterGetsFreshServer'
  BY DEF TypeOK, WaiterGetsFreshServer, WaitersSeeSavedId, IdsInOrder
<1>5. IdsInOrder'
  BY DEF TypeOK, SingleLeader, IdsInOrder
<1>6. RoundsInOrder'
  BY DEF TypeOK, SingleLeader, IdsInOrder, RoundsInOrder
<1>7. WaitersSeeSavedId'
  BY DEF TypeOK, SingleLeader, IdsInOrder, RoundsInOrder,
         WaitersSeeSavedId
<1>8. ResolvedRows'
  BY DEF TypeOK, IdsInOrder, ResolvedRows
<1> QED BY <1>1, <1>2, <1>3, <1>4, <1>5, <1>6, <1>7, <1>8

(* The saved id grows. *)
LEMMA SaveLastCreatedIInv ==
  ASSUME IInv, NEW c \in Conns, SaveLastCreated(c)
  PROVE  IInv'
<1> USE DEF IInv, SaveLastCreated
<1>1. TypeOK'
  BY DEF TypeOK
<1>2. SingleLeader'
  BY DEF TypeOK, SingleLeader
<1>3. UniqueServerIds'
  BY DEF TypeOK, SingleLeader, UniqueServerIds, IdsInOrder
<1>4. WaiterGetsFreshServer'
  BY DEF TypeOK, WaiterGetsFreshServer, WaitersSeeSavedId, IdsInOrder
<1>5. IdsInOrder'
  BY DEF TypeOK, SingleLeader, IdsInOrder
<1>6. RoundsInOrder'
  BY DEF TypeOK, SingleLeader, IdsInOrder, RoundsInOrder
<1>7. WaitersSeeSavedId'
  BY DEF TypeOK, SingleLeader, IdsInOrder, RoundsInOrder,
         WaitersSeeSavedId
<1>8. ResolvedRows'
  BY DEF TypeOK, IdsInOrder, ResolvedRows
<1> QED BY <1>1, <1>2, <1>3, <1>4, <1>5, <1>6, <1>7, <1>8

(* The leader has seen a row of its server. *)
LEMMA WaitForReadyIInv ==
  ASSUME IInv, NEW c \in Conns, WaitForReady(c)
  PROVE  IInv'
<1> USE DEF IInv, WaitForReady
<1>1. TypeOK'
  BY DEF TypeOK
<1>2. SingleLeader'
  BY DEF TypeOK, SingleLeader
<1>3. UniqueServerIds'
  BY DEF TypeOK, SingleLeader, UniqueServerIds, IdsInOrder
<1>4. WaiterGetsFreshServer'
  BY DEF TypeOK, WaiterGetsFreshServer, WaitersSeeSavedId, IdsInOrder
<1>5. IdsInOrder'
  BY DEF TypeOK, SingleLeader, IdsInOrder
<1>6. RoundsInOrder'
  BY DEF TypeOK, SingleLeader, IdsInOrder, RoundsInOrder
<1>7. WaitersSeeSavedId'
  BY DEF TypeOK, SingleLeader, IdsInOrder, RoundsInOrder,
         WaitersSeeSavedId
<1>8. ResolvedRows'
  BY DEF TypeOK, IdsInOrder, ResolvedRows
<1> QED BY <1>1, <1>2, <1>3, <1>4, <1>5, <1>6, <1>7, <1>8

(* The round ends with its id saved. *)
LEMMA StopWaitingIInv ==
  ASSUME IInv, NEW c \in Conns, StopWaiting(c)
  PROVE  IInv'
<1> USE DEF IInv, StopWaiting
<1>1. TypeOK'
  <2>1. wait \in [count : Nat, waiters : Nat, sema : Nat]
    BY DEF TypeOK
  <2>2. wait' \in [count : Nat, waiters : Nat, sema : Nat]
    BY <2>1, SMT DEF SingleLeader, WaitGroupDone
  <2> QED BY <2>2 DEF TypeOK
<1>2. SingleLeader'
  BY DEF TypeOK, SingleLeader, WaitGroupDone
<1>3. UniqueServerIds'
  BY DEF TypeOK, SingleLeader, UniqueServerIds, IdsInOrder
<1>4. WaiterGetsFreshServer'
  BY DEF TypeOK, WaiterGetsFreshServer, WaitersSeeSavedId, IdsInOrder
<1>5. IdsInOrder'
  BY DEF TypeOK, SingleLeader, IdsInOrder
<1>6. RoundsInOrder'
  BY DEF TypeOK, SingleLeader, IdsInOrder, RoundsInOrder
<1>7. WaitersSeeSavedId'
  BY DEF TypeOK, SingleLeader, IdsInOrder, RoundsInOrder,
         WaitersSeeSavedId, WaitGroupDone
<1>8. ResolvedRows'
  BY DEF TypeOK, IdsInOrder, ResolvedRows
<1> QED BY <1>1, <1>2, <1>3, <1>4, <1>5, <1>6, <1>7, <1>8

(* Only pc moves. *)
LEMMA GetConnectionStringIInv ==
  ASSUME IInv, NEW c \in Conns, GetConnectionString(c)
  PROVE  IInv'
<1> USE DEF IInv, GetConnectionString
<1>1. TypeOK'
  BY DEF TypeOK
<1>2. SingleLeader'
  BY DEF TypeOK, SingleLeader
<1>3. UniqueServerIds'
  BY DEF TypeOK, SingleLeader, UniqueServerIds, IdsInOrder
<1>4. WaiterGetsFreshServer'
  BY DEF TypeOK, WaiterGetsFreshServer, WaitersSeeSavedId, IdsInOrder
<1>5. IdsInOrder'
  BY DEF TypeOK, SingleLeader, IdsInOrder
<1>6. RoundsInOrder'
  BY DEF TypeOK, SingleLeader, IdsInOrder, RoundsInOrder
<1>7. WaitersSeeSavedId'
  BY DEF TypeOK, SingleLeader, IdsInOrder, RoundsInOrder,
         WaitersSeeSavedId
<1>8. ResolvedRows'
  BY DEF TypeOK, IdsInOrder, ResolvedRows
<1> QED BY <1>1, <1>2, <1>3, <1>4, <1>5, <1>6, <1>7, <1>8

(* Only exit changes. *)
LEMMA NoConnectionStringIInv ==
  ASSUME IInv, NEW c \in Conns, NoConnectionString(c)
  PROVE  IInv'
<1> USE DEF IInv, NoConnectionString
<1>1. TypeOK'
  BY DEF TypeOK, Exits
<1>2. SingleLeader'
  BY DEF TypeOK, SingleLeader
<1>3. UniqueServerIds'
  BY DEF TypeOK, SingleLeader, UniqueServerIds, IdsInOrder
<1>4. WaiterGetsFreshServer'
  BY DEF TypeOK, WaiterGetsFreshServer, WaitersSeeSavedId, IdsInOrder
<1>5. IdsInOrder'
  BY DEF TypeOK, SingleLeader, IdsInOrder
<1>6. RoundsInOrder'
  BY DEF TypeOK, SingleLeader, IdsInOrder, RoundsInOrder
<1>7. WaitersSeeSavedId'
  BY DEF TypeOK, SingleLeader, IdsInOrder, RoundsInOrder,
         WaitersSeeSavedId
<1>8. ResolvedRows'
  BY DEF TypeOK, IdsInOrder, ResolvedRows
<1> QED BY <1>1, <1>2, <1>3, <1>4, <1>5, <1>6, <1>7, <1>8

(* A row is added, none is removed. *)
LEMMA ServerReadyIInv ==
  ASSUME IInv, NEW s \in spawned, ServerReady(s)
  PROVE  IInv'
<1> USE DEF IInv, ServerReady, Update
<1>1. TypeOK'
  BY ConstantsAssumption DEF TypeOK, Row, ReadyRow, GSStates
<1>2. SingleLeader'
  BY DEF TypeOK, SingleLeader
<1>3. UniqueServerIds'
  BY DEF TypeOK, SingleLeader, UniqueServerIds, IdsInOrder
<1>4. WaiterGetsFreshServer'
  BY DEF TypeOK, WaiterGetsFreshServer, WaitersSeeSavedId, IdsInOrder
<1>5. IdsInOrder'
  BY DEF TypeOK, SingleLeader, IdsInOrder
<1>6. RoundsInOrder'
  BY DEF TypeOK, SingleLeader, IdsInOrder, RoundsInOrder
<1>7. WaitersSeeSavedId'
  BY DEF TypeOK, SingleLeader, IdsInOrder, RoundsInOrder,
         WaitersSeeSavedId
<1>8. ResolvedRows'
  BY DEF TypeOK, IdsInOrder, ResolvedRows
<1> QED BY <1>1, <1>2, <1>3, <1>4, <1>5, <1>6, <1>7, <1>8

(* A row is replaced, none is removed. *)
LEMMA ServerUpdateIInv ==
  ASSUME IInv, NEW s \in spawned, ServerUpdate(s)
  PROVE  IInv'
<1> USE DEF IInv, ServerUpdate, Update
<1>1. TypeOK'
  BY ConstantsAssumption DEF TypeOK, Row, ReadyRow, GSStates
<1>2. SingleLeader'
  BY DEF TypeOK, SingleLeader
<1>3. UniqueServerIds'
  BY DEF TypeOK, SingleLeader, UniqueServerIds, IdsInOrder
<1>4. WaiterGetsFreshServer'
  BY DEF TypeOK, WaiterGetsFreshServer, WaitersSeeSavedId, IdsInOrder
<1>5. IdsInOrder'
  BY DEF TypeOK, SingleLeader, IdsInOrder
<1>6. RoundsInOrder'
  BY DEF TypeOK, SingleLeader, IdsInOrder, RoundsInOrder
<1>7. WaitersSeeSavedId'
  BY DEF TypeOK, SingleLeader, IdsInOrder, RoundsInOrder,
         WaitersSeeSavedId
<1>8. ResolvedRows'
  BY DEF TypeOK, IdsInOrder, ResolvedRows
<1> QED BY <1>1, <1>2, <1>3, <1>4, <1>5, <1>6, <1>7, <1>8

(* A process ends: spawned keeps its id. *)
LEMMA CmdrClosedIInv ==
  ASSUME IInv, NEW s \in spawned, CmdrClosed(s)
  PROVE  IInv'
<1> USE DEF IInv, CmdrClosed, Update
<1>1. TypeOK'
  BY DEF TypeOK, Exits
<1>2. SingleLeader'
  BY DEF TypeOK, SingleLeader
<1>3. UniqueServerIds'
  BY DEF TypeOK, SingleLeader, UniqueServerIds, IdsInOrder
<1>4. WaiterGetsFreshServer'
  BY DEF TypeOK, WaiterGetsFreshServer, WaitersSeeSavedId, IdsInOrder
<1>5. IdsInOrder'
  BY DEF TypeOK, SingleLeader, IdsInOrder
<1>6. RoundsInOrder'
  BY DEF TypeOK, SingleLeader, IdsInOrder, RoundsInOrder
<1>7. WaitersSeeSavedId'
  BY DEF TypeOK, SingleLeader, IdsInOrder, RoundsInOrder,
         WaitersSeeSavedId
<1>8. ResolvedRows'
  BY DEF TypeOK, IdsInOrder, ResolvedRows
<1> QED BY <1>1, <1>2, <1>3, <1>4, <1>5, <1>6, <1>7, <1>8

(* Every step preserves the invariant. *)
LEMMA NextIInv ==
  IInv /\ [Next]_vars => IInv'
<1> SUFFICES ASSUME IInv, [Next]_vars PROVE IInv'
  OBVIOUS
<1>1. CASE UNCHANGED vars
  BY <1>1 DEF vars, IInv, TypeOK, SingleLeader, UniqueServerIds,
     WaiterGetsFreshServer, IdsInOrder, RoundsInOrder, WaitersSeeSavedId,
     ResolvedRows
<1>2. ASSUME NEW c \in Conns, ConnStep(c) PROVE IInv'
  BY <1>2, FoundBestServerIInv, NoBestServerIInv, StartWaitingIInv,
     AlreadyWaitingIInv, WaitGroupWaitIInv, WaitGroupWakeIInv,
     WaitGroupReturnIInv, ReadLastCreatedIInv, TakeIdIInv,
     SpawnServerIInv, SaveLastCreatedIInv, WaitForReadyIInv,
     StopWaitingIInv, GetConnectionStringIInv, NoConnectionStringIInv
     DEF ConnStep
<1>3. ASSUME NEW s \in spawned, ServerStep(s) PROVE IInv'
  BY <1>3, ServerReadyIInv, ServerUpdateIInv, CmdrClosedIInv DEF ServerStep
<1> QED BY <1>1, <1>2, <1>3 DEF Next

(* The inductive invariant is an invariant. *)
THEOREM Invariance ==
  Spec => []IInv
BY InitIInv, NextIInv, PTL DEF Spec

(***************************************************************************)
(* Rows are published by processes of this run, or left over from an       *)
(* earlier one; a connection that is done has read one.                    *)
(***************************************************************************)
PublishedRows ==
  /\ DOMAIN rows \subseteq up \cup down \cup OldIds
  /\ \A c \in Conns : pc[c] = "done" => HasRow(rows, gameId[c])

LEMMA NextPublishedRows ==
  ASSUME TypeOK, PublishedRows, [Next]_vars
  PROVE  PublishedRows'
<1> USE DEF TypeOK, PublishedRows
<1>1. ASSUME NEW c \in Conns, ConnStep(c) PROVE PublishedRows'
  <2>1. CASE GetConnectionString(c)
    BY <2>1 DEF GetConnectionString
  <2>2. CASE FoundBestServer(c) \/ NoBestServer(c) \/ StartWaiting(c)
             \/ AlreadyWaiting(c) \/ WaitGroupWait(c) \/ WaitGroupWake(c)
    BY <2>2 DEF FoundBestServer, NoBestServer, StartWaiting, AlreadyWaiting,
                WaitGroupWait, WaitGroupWake
  <2>3. CASE WaitGroupReturn(c) \/ ReadLastCreated(c) \/ TakeId(c)
             \/ SaveLastCreated(c) \/ WaitForReady(c) \/ StopWaiting(c)
             \/ NoConnectionString(c)
    BY <2>3 DEF WaitGroupReturn, ReadLastCreated, TakeId, SaveLastCreated,
                WaitForReady, StopWaiting, NoConnectionString
  <2>4. CASE SpawnServer(c)
    BY <2>4 DEF SpawnServer
  <2> QED BY <1>1, <2>1, <2>2, <2>3, <2>4 DEF ConnStep
<1>2. ASSUME NEW s \in spawned, ServerStep(s) PROVE PublishedRows'
  <2>1. CASE ServerReady(s)
    BY <2>1 DEF ServerReady, Update
  <2>2. CASE ServerUpdate(s)
    BY <2>2 DEF ServerUpdate, Update
  <2>3. CASE CmdrClosed(s)
    BY <2>3 DEF CmdrClosed
  <2> QED BY <1>2, <2>1, <2>2, <2>3 DEF ServerStep
<1>3. CASE UNCHANGED vars
  BY <1>3 DEF vars
<1> QED BY <1>1, <1>2, <1>3 DEF Next

(***************************************************************************)
(* WaitersAccountedFor is inductive together with the fact that waiters    *)
(* are registered only while a server is being created: the WaitGroup      *)
(* that startWaiting replaces has tokens to lose, but no waiter.           *)
(***************************************************************************)
NoWaiterBetweenRounds == ~waitingForServer => wait.waiters = 0

LEMMA OneMoreParked ==
  ASSUME NEW c \in Conns, c \notin Parked, Parked' = Parked \cup {c}
  PROVE  Cardinality(Parked') = Cardinality(Parked) + 1
<1>1. IsFiniteSet(Parked)
  BY ConstantsAssumption, FS_Subset DEF Parked
<1> QED BY <1>1, FS_AddElement

LEMMA OneLessParked ==
  ASSUME NEW c \in Conns, c \in Parked, Parked' = Parked \ {c}
  PROVE  Cardinality(Parked') = Cardinality(Parked) - 1
<1>1. IsFiniteSet(Parked)
  BY ConstantsAssumption, FS_Subset DEF Parked
<1> QED BY <1>1, FS_RemoveElement

(* A step that parks or wakes nobody leaves the account as it is. *)
LEMMA SameParked ==
  ASSUME WaitersAccountedFor, Parked' = Parked,
         wait'.waiters + wait'.sema + lost' = wait.waiters + wait.sema + lost
  PROVE  WaitersAccountedFor'
BY DEF WaitersAccountedFor

LEMMA NextAccounted ==
  ASSUME TypeOK, SingleLeader, WaitersAccountedFor, NoWaiterBetweenRounds,
         [Next]_vars
  PROVE  WaitersAccountedFor' /\ NoWaiterBetweenRounds'
<1>0. /\ wait \in [count : Nat, waiters : Nat, sema : Nat]
      /\ lost \in Nat
      /\ pc \in [Conns -> Steps]
  BY DEF TypeOK
<1>1. ASSUME NEW c \in Conns, ConnStep(c)
      PROVE  WaitersAccountedFor' /\ NoWaiterBetweenRounds'
  <2>1. CASE StartWaiting(c)
    <3>1. Parked' = Parked
      BY <1>0, <2>1 DEF StartWaiting, Parked
    <3>2. wait.waiters = 0
      BY <2>1 DEF StartWaiting, NoWaiterBetweenRounds
    <3>3. wait' = ZeroWaitGroup \/ wait' = [ZeroWaitGroup EXCEPT !.count = 1]
      BY <2>1 DEF StartWaiting
    <3>4. wait'.waiters = 0 /\ wait'.sema = 0 /\ lost' = lost + wait.sema
      BY <2>1, <3>3 DEF StartWaiting, ZeroWaitGroup
    <3> QED BY <1>0, <3>1, <3>2, <3>4, SameParked DEF NoWaiterBetweenRounds
  <2>2. CASE WaitGroupWait(c)
    <3>1. CASE wait.count = 0
      <4>1. Parked' = Parked /\ wait' = wait /\ lost' = lost
            /\ waitingForServer' = waitingForServer
        BY <1>0, <2>2, <3>1 DEF WaitGroupWait, Parked
      <4> QED BY <4>1, SameParked DEF NoWaiterBetweenRounds
    <3>2. CASE wait.count # 0
      <4>1. c \notin Parked /\ Parked' = Parked \cup {c}
        BY <1>0, <2>2, <3>2 DEF WaitGroupWait, Parked
      <4>2. /\ wait' = [wait EXCEPT !.waiters = @ + 1]
            /\ lost' = lost
            /\ waitingForServer' = waitingForServer
        BY <2>2, <3>2 DEF WaitGroupWait
      <4>3. Cardinality(Parked') = Cardinality(Parked) + 1
        BY <4>1, OneMoreParked
      <4>4. WaitersAccountedFor'
        BY <1>0, <4>2, <4>3 DEF WaitersAccountedFor
      <4> QED BY <3>2, <4>2, <4>4 DEF NoWaiterBetweenRounds, SingleLeader
    <3> QED BY <3>1, <3>2
  <2>3. CASE WaitGroupWake(c)
    <3>1. c \in Parked /\ Parked' = Parked \ {c}
      BY <1>0, <2>3 DEF WaitGroupWake, Parked
    <3>2. /\ wait.sema > 0
          /\ wait' = [wait EXCEPT !.sema = @ - 1]
          /\ lost' = lost
          /\ waitingForServer' = waitingForServer
      BY <2>3 DEF WaitGroupWake
    <3>3. Cardinality(Parked') = Cardinality(Parked) - 1
      BY <3>1, OneLessParked
    <3>4. WaitersAccountedFor'
      BY <1>0, <3>2, <3>3 DEF WaitersAccountedFor
    <3> QED BY <1>0, <3>2, <3>4 DEF NoWaiterBetweenRounds
  <2>4. CASE StopWaiting(c)
    <3>1. Parked' = Parked /\ lost' = lost
      BY <1>0, <2>4 DEF StopWaiting, Parked
    <3>2. waitingForServer
      BY <2>4 DEF StopWaiting, SingleLeader
    <3>3. wait' = [count |-> 0, waiters |-> 0, sema |-> wait.sema + wait.waiters]
      BY <2>4, <3>2 DEF StopWaiting, WaitGroupDone, SingleLeader
    <3>4. wait'.waiters + wait'.sema + lost' = wait.waiters + wait.sema + lost
      BY <1>0, <3>1, <3>3
    <3> QED BY <3>1, <3>3, <3>4, SameParked DEF NoWaiterBetweenRounds
  <2>5. ASSUME UNCHANGED <<waitingForServer, wait, lost>>, Parked' = Parked
        PROVE  WaitersAccountedFor' /\ NoWaiterBetweenRounds'
    BY <2>5, SameParked DEF NoWaiterBetweenRounds
  <2>6. CASE FoundBestServer(c) \/ NoBestServer(c) \/ AlreadyWaiting(c)
             \/ WaitGroupReturn(c) \/ ReadLastCreated(c) \/ TakeId(c)
    <3>1. UNCHANGED <<waitingForServer, wait, lost>> /\ Parked' = Parked
      BY <1>0, <2>6 DEF FoundBestServer, NoBestServer, AlreadyWaiting,
                        WaitGroupReturn, ReadLastCreated, TakeId, Parked
    <3> QED BY <2>5, <3>1
  <2>7. CASE SpawnServer(c) \/ SaveLastCreated(c) \/ WaitForReady(c)
             \/ GetConnectionString(c) \/ NoConnectionString(c)
    <3>1. UNCHANGED <<waitingForServer, wait, lost>> /\ Parked' = Parked
      BY <1>0, <2>7 DEF SpawnServer, SaveLastCreated, WaitForReady,
                        GetConnectionString, NoConnectionString, Parked
    <3> QED BY <2>5, <3>1
  <2> QED BY <1>1, <2>1, <2>2, <2>3, <2>4, <2>6, <2>7 DEF ConnStep
<1>2. ASSUME UNCHANGED <<pc, waitingForServer, wait, lost>>
      PROVE  WaitersAccountedFor' /\ NoWaiterBetweenRounds'
  BY <1>2, SameParked DEF Parked, NoWaiterBetweenRounds
<1>3. ASSUME NEW s \in spawned, ServerStep(s)
      PROVE  WaitersAccountedFor' /\ NoWaiterBetweenRounds'
  BY <1>2, <1>3 DEF ServerStep, ServerReady, ServerUpdate, CmdrClosed
<1>4. CASE UNCHANGED vars
  BY <1>2, <1>4 DEF vars
<1> QED BY <1>1, <1>3, <1>4 DEF Next

(* Type correctness of every variable of the matchmaking model. *)
THEOREM TypeCorrect ==
  Spec => []TypeOK
<1>1. IInv => TypeOK
  BY DEF IInv
<1> QED BY <1>1, Invariance, PTL

(* startWaiting and stopWaiting let one connection at a time create a server,
   and the WaitGroup counts exactly that one. *)
THEOREM OneLeader ==
  Spec => []SingleLeader
<1>1. IInv => SingleLeader
  BY DEF IInv
<1> QED BY <1>1, Invariance, PTL

(* CreateNewServer never hands out an id twice. *)
THEOREM ServerIdsUnique ==
  Spec => []UniqueServerIds
<1>1. IInv => UniqueServerIds
  BY DEF IInv
<1> QED BY <1>1, Invariance, PTL

(* createAndWait returns to a waiter an id that was created, and none older
   than the one it waited for. *)
THEOREM WaitersGetFreshServers ==
  Spec => []WaiterGetsFreshServer
<1>1. IInv => WaiterGetsFreshServer
  BY DEF IInv
<1> QED BY <1>1, Invariance, PTL

(* The row GetConnectionString needs can be missing only for a connection
   that waited. *)
THEOREM LeadersResolve ==
  Spec => []OnlyWaiterMissesRow
<1>1. IInv => OnlyWaiterMissesRow
  BY DEF IInv, ResolvedRows, OnlyWaiterMissesRow
<1> QED BY <1>1, Invariance, PTL

(* WaitForReady and GetConnectionString take nothing but a row of an earlier
   run for the row of a server that has not published one. *)
THEOREM OldRowsMislead ==
  Spec => []OnlyOldRowsMislead
<1>1. Init => PublishedRows
  BY DEF Init, PublishedRows
<1>2. IInv => TypeOK
  BY DEF IInv
<1>3. IInv /\ PublishedRows => OnlyOldRowsMislead
  BY DEF IInv, IdsInOrder, ResolvedRows, PublishedRows, OnlyOldRowsMislead
<1> QED BY <1>1, <1>2, <1>3, NextPublishedRows, Invariance, PTL DEF Spec

(* Whoever parked in Wait is registered, has a token to take, or stands for a
   token that a replaced WaitGroup took with it: for any number of
   connections. *)
THEOREM WaitersAccounted ==
  Spec => []WaitersAccountedFor
<1>1. Init => WaitersAccountedFor /\ NoWaiterBetweenRounds
  <2> SUFFICES ASSUME Init PROVE WaitersAccountedFor /\ NoWaiterBetweenRounds
    OBVIOUS
  <2>1. Parked = {}
    BY DEF Init, Parked
  <2>2. Cardinality(Parked) = 0
    BY <2>1, FS_EmptySet
  <2> QED BY <2>2 DEF Init, ZeroWaitGroup, WaitersAccountedFor,
                      NoWaiterBetweenRounds
<1>2. IInv => TypeOK /\ SingleLeader
  BY DEF IInv
<1> QED BY <1>1, <1>2, NextAccounted, Invariance, PTL DEF Spec
=============================================================================
