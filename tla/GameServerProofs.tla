--------------------------- MODULE GameServerProofs ---------------------------
(***************************************************************************)
(* The invariants of GameServer hold for every finite set of connections,  *)
(* and it implements CountedServer.                                        *)
(***************************************************************************)
EXTENDS GameServer, FiniteSetTheorems, TLAPS

(***************************************************************************)
(* g.mutex is held by the goroutine whose program counter says so.         *)
(***************************************************************************)
LockOwner ==
  /\ \A c \in Conns : h[c] \in {"inc", "dec"} <=> lock = c
  /\ lock = "run" <=> run \in {"idling", "closing", "readying"}

(***************************************************************************)
(* Each counter is the number of handlers that have passed its assignment; *)
(* this holds inside critical sections too.                                *)
(***************************************************************************)
Counted == {c \in Conns : h[c] \in {"inc", "active", "leaving"}}
Added == {c \in Conns : h[c] \in {"active", "leaving", "dec", "gone"}}
Removed == {c \in Conns : h[c] = "gone"}

CountersExact ==
  /\ stats.connections = Cardinality(Counted)
  /\ stats.added = Cardinality(Added)
  /\ stats.removed = Cardinality(Removed)

(***************************************************************************)
(* Closed is set only on the way out of the loop.                          *)
(***************************************************************************)
ClosedAtTheEnd ==
  run \in {"start", "publish", "loop", "idle", "idling", "close", "ready",
           "readying"} => stats.state # GSStateClosed

IInv == TypeOK /\ LockOwner /\ CountersExact /\ ClosedAtTheEnd

-----------------------------------------------------------------------------
USE DEF runVars, updVars, procVars, GSStates, GSStateReady, GSStateIdle,
        GSStateClosed

(* What a copy of g.stats is made of. *)
LEMMA CopiesAreStats ==
  ASSUME stats \in Stats, NEW copy \in Stats
  PROVE  /\ CopyHead(copy) \in Stats
         /\ CopyTail(copy) \in Stats
         /\ Counters(copy) \in [connections : Nat, added : Nat, removed : Nat]
         /\ NewStats \in Stats
BY DEF Stats, CopyHead, CopyTail, Counters, NewStats

(* Subsets of Conns are finite and have a size. *)
LEMMA ConnSets ==
  ASSUME NEW S \in SUBSET Conns
  PROVE  IsFiniteSet(S) /\ Cardinality(S) \in Nat
BY ConstantsAssumption, FS_Subset, FS_CardinalityType

(* A handler that passes the assignment of a counter joins one set. *)
LEMMA JoinSet ==
  ASSUME NEW S \in SUBSET Conns, NEW c \in Conns, c \notin S
  PROVE  Cardinality(S \cup {c}) = Cardinality(S) + 1
BY ConnSets, FS_AddElement

(* A handler that is counted off leaves one set, which was not empty. *)
LEMMA LeaveSet ==
  ASSUME NEW S \in SUBSET Conns, NEW c \in Conns, c \in S
  PROVE  /\ Cardinality(S \ {c}) = Cardinality(S) - 1
         /\ Cardinality(S) - 1 \in Nat
<1>1. Cardinality(S \ {c}) \in Nat
  BY ConnSets
<1> QED BY <1>1, ConnSets, FS_RemoveElement

(* The invariant holds initially. *)
LEMMA InitIInv ==
  Init => IInv
<1> SUFFICES ASSUME Init PROVE IInv
  OBVIOUS
<1> USE DEF Init
<1>1. TypeOK
  BY DEF TypeOK, Stats, NewStats, Counters, RunSteps, UpdSteps, ConnSteps, Exits
<1>2. LockOwner
  BY ConstantsAssumption DEF LockOwner
<1>3. CountersExact
  <2>1. Counted = {} /\ Added = {} /\ Removed = {}
    BY DEF Counted, Added, Removed
  <2> QED BY <2>1, FS_EmptySet DEF CountersExact, NewStats
<1>4. ClosedAtTheEnd
  BY DEF ClosedAtTheEnd, NewStats
<1> QED BY <1>1, <1>2, <1>3, <1>4 DEF IInv

(***************************************************************************)
(* A step that moves no handler in or out of the counters' sets and does   *)
(* not write them keeps the counters exact.                                *)
(***************************************************************************)
LEMMA CountersKept ==
  ASSUME CountersExact,
         UNCHANGED <<Counted, Added, Removed, Counters(stats)>>
  PROVE  CountersExact'
BY DEF CountersExact, Counters

(* Run and main. *)
LEMMA RunStepIInv ==
  ASSUME IInv, RunStep
  PROVE  IInv'
<1>1. CASE RunPublish
  <2> USE <1>1 DEF IInv, RunPublish
  <2>1. TypeOK'
    <3>1. stats' \in Stats
      BY DEF TypeOK, Stats
    <3> QED BY <3>1 DEF TypeOK, RunSteps
  <2>2. LockOwner'
    BY ConstantsAssumption DEF TypeOK, LockOwner
  <2>3. CountersExact'
    <3>1. UNCHANGED <<Counted, Added, Removed, Counters(stats)>>
      BY DEF Counted, Added, Removed, Counters, TypeOK, Stats
    <3> QED BY <3>1, CountersKept
  <2>4. ClosedAtTheEnd'
    BY DEF TypeOK, Stats, ClosedAtTheEnd
  <2> QED BY <2>1, <2>2, <2>3, <2>4
<1>2. CASE RunUpdate
  <2> USE <1>2 DEF IInv, RunUpdate, Commit, AfterUpdate
  <2>1. TypeOK'
    BY CopiesAreStats DEF TypeOK, RunSteps
  <2>2. LockOwner'
    BY ConstantsAssumption DEF TypeOK, LockOwner
  <2>3. CountersExact'
    <3>1. UNCHANGED <<Counted, Added, Removed, Counters(stats)>>
      BY DEF Counted, Added, Removed, Counters, TypeOK, Stats
    <3> QED BY <3>1, CountersKept
  <2>4. ClosedAtTheEnd'
    BY DEF TypeOK, Stats, ClosedAtTheEnd
  <2> QED BY <2>1, <2>2, <2>3, <2>4
<1>3. CASE RunUpdateFails
  <2> USE <1>3 DEF IInv, RunUpdateFails, CommitFails
  <2>1. TypeOK'
    BY DEF TypeOK, RunSteps, Exits
  <2>2. LockOwner'
    BY ConstantsAssumption DEF TypeOK, LockOwner
  <2>3. CountersExact'
    <3>1. UNCHANGED <<Counted, Added, Removed, Counters(stats)>>
      BY DEF Counted, Added, Removed, Counters, TypeOK, Stats
    <3> QED BY <3>1, CountersKept
  <2>4. ClosedAtTheEnd'
    BY DEF TypeOK, Stats, ClosedAtTheEnd
  <2> QED BY <2>1, <2>2, <2>3, <2>4
<1>4. CASE RunTimer
  <2> USE <1>4 DEF IInv, RunTimer
  <2>1. TypeOK'
    BY DEF TypeOK, RunSteps
  <2>2. LockOwner'
    BY ConstantsAssumption DEF TypeOK, LockOwner
  <2>3. CountersExact'
    <3>1. UNCHANGED <<Counted, Added, Removed, Counters(stats)>>
      BY DEF Counted, Added, Removed, Counters, TypeOK, Stats
    <3> QED BY <3>1, CountersKept
  <2>4. ClosedAtTheEnd'
    BY DEF TypeOK, Stats, ClosedAtTheEnd
  <2> QED BY <2>1, <2>2, <2>3, <2>4
<1>5. CASE RunIdle
  <2> USE <1>5 DEF IInv, RunIdle, SetState
  <2>1. TypeOK'
    <3>1. stats' \in Stats
      BY DEF TypeOK, Stats
    <3> QED BY <3>1 DEF TypeOK, RunSteps
  <2>2. LockOwner'
    BY ConstantsAssumption DEF TypeOK, LockOwner
  <2>3. CountersExact'
    <3>1. UNCHANGED <<Counted, Added, Removed, Counters(stats)>>
      BY DEF Counted, Added, Removed, Counters, TypeOK, Stats
    <3> QED BY <3>1, CountersKept
  <2>4. ClosedAtTheEnd'
    BY DEF TypeOK, Stats, ClosedAtTheEnd
  <2> QED BY <2>1, <2>2, <2>3, <2>4
<1>6. CASE RunCloseDown
  <2> USE <1>6 DEF IInv, RunCloseDown, SetState
  <2>1. TypeOK'
    <3>1. stats' \in Stats
      BY DEF TypeOK, Stats
    <3> QED BY <3>1 DEF TypeOK, RunSteps
  <2>2. LockOwner'
    BY ConstantsAssumption DEF TypeOK, LockOwner
  <2>3. CountersExact'
    <3>1. UNCHANGED <<Counted, Added, Removed, Counters(stats)>>
      BY DEF Counted, Added, Removed, Counters, TypeOK, Stats
    <3> QED BY <3>1, CountersKept
  <2>4. ClosedAtTheEnd'
    BY DEF TypeOK, Stats, ClosedAtTheEnd
  <2> QED BY <2>1, <2>2, <2>3, <2>4
<1>7. CASE RunReady
  <2> USE <1>7 DEF IInv, RunReady, SetState
  <2>1. TypeOK'
    <3>1. stats' \in Stats
      BY DEF TypeOK, Stats
    <3> QED BY <3>1 DEF TypeOK, RunSteps
  <2>2. LockOwner'
    BY ConstantsAssumption DEF TypeOK, LockOwner
  <2>3. CountersExact'
    <3>1. UNCHANGED <<Counted, Added, Removed, Counters(stats)>>
      BY DEF Counted, Added, Removed, Counters, TypeOK, Stats
    <3> QED BY <3>1, CountersKept
  <2>4. ClosedAtTheEnd'
    BY DEF TypeOK, Stats, ClosedAtTheEnd
  <2> QED BY <2>1, <2>2, <2>3, <2>4
<1>8. CASE RunCancel
  <2> USE <1>8 DEF IInv, RunCancel
  <2>1. TypeOK'
    BY DEF TypeOK, RunSteps
  <2>2. LockOwner'
    BY ConstantsAssumption DEF TypeOK, LockOwner
  <2>3. CountersExact'
    <3>1. UNCHANGED <<Counted, Added, Removed, Counters(stats)>>
      BY DEF Counted, Added, Removed, Counters, TypeOK, Stats
    <3> QED BY <3>1, CountersKept
  <2>4. ClosedAtTheEnd'
    BY DEF TypeOK, Stats, ClosedAtTheEnd
  <2> QED BY <2>1, <2>2, <2>3, <2>4
<1>9. ASSUME NEW c \in Conns, RunConnection(c) PROVE IInv'
  <2> USE <1>9 DEF IInv, RunConnection
  <2>1. TypeOK'
    BY DEF TypeOK, RunSteps, ConnSteps
  <2>2. LockOwner'
    BY ConstantsAssumption DEF TypeOK, LockOwner
  <2>3. CountersExact'
    <3>1. UNCHANGED <<Counted, Added, Removed, Counters(stats)>>
      BY DEF Counted, Added, Removed, Counters, TypeOK, Stats
    <3> QED BY <3>1, CountersKept
  <2>4. ClosedAtTheEnd'
    BY DEF TypeOK, Stats, ClosedAtTheEnd
  <2> QED BY <2>1, <2>2, <2>3, <2>4
<1>10. ASSUME NEW c \in Conns, RunConnectionWhenClosed(c) PROVE IInv'
  <2> USE <1>10 DEF IInv, RunConnectionWhenClosed
  <2>1. TypeOK'
    BY DEF TypeOK, RunSteps, Exits
  <2>2. LockOwner'
    BY ConstantsAssumption DEF TypeOK, LockOwner
  <2>3. CountersExact'
    <3>1. UNCHANGED <<Counted, Added, Removed, Counters(stats)>>
      BY DEF Counted, Added, Removed, Counters, TypeOK, Stats
    <3> QED BY <3>1, CountersKept
  <2>4. ClosedAtTheEnd'
    BY DEF TypeOK, Stats, ClosedAtTheEnd
  <2> QED BY <2>1, <2>2, <2>3, <2>4
<1>11. CASE RunDone
  <2> USE <1>11 DEF IInv, RunDone
  <2>1. TypeOK'
    BY DEF TypeOK, RunSteps
  <2>2. LockOwner'
    BY ConstantsAssumption DEF TypeOK, LockOwner
  <2>3. CountersExact'
    <3>1. UNCHANGED <<Counted, Added, Removed, Counters(stats)>>
      BY DEF Counted, Added, Removed, Counters, TypeOK, Stats
    <3> QED BY <3>1, CountersKept
  <2>4. ClosedAtTheEnd'
    BY DEF TypeOK, Stats, ClosedAtTheEnd
  <2> QED BY <2>1, <2>2, <2>3, <2>4
<1>12. CASE RunFinalState
  <2> USE <1>12 DEF IInv, RunFinalState
  <2>1. TypeOK'
    <3>1. stats' \in Stats
      BY DEF TypeOK, Stats
    <3>2. runCopy' \in Stats
      BY CopiesAreStats DEF TypeOK, Stats
    <3> QED BY <3>1, <3>2 DEF TypeOK, RunSteps
  <2>2. LockOwner'
    BY ConstantsAssumption DEF TypeOK, LockOwner
  <2>3. CountersExact'
    <3>1. UNCHANGED <<Counted, Added, Removed, Counters(stats)>>
      BY DEF Counted, Added, Removed, Counters, TypeOK, Stats
    <3> QED BY <3>1, CountersKept
  <2>4. ClosedAtTheEnd'
    BY DEF TypeOK, Stats, ClosedAtTheEnd
  <2> QED BY <2>1, <2>2, <2>3, <2>4
<1>13. CASE RunFinalCopy
  <2> USE <1>13 DEF IInv, RunFinalCopy
  <2>1. TypeOK'
    BY CopiesAreStats DEF TypeOK, RunSteps
  <2>2. LockOwner'
    BY ConstantsAssumption DEF TypeOK, LockOwner
  <2>3. CountersExact'
    <3>1. UNCHANGED <<Counted, Added, Removed, Counters(stats)>>
      BY DEF Counted, Added, Removed, Counters, TypeOK, Stats
    <3> QED BY <3>1, CountersKept
  <2>4. ClosedAtTheEnd'
    BY DEF TypeOK, Stats, ClosedAtTheEnd
  <2> QED BY <2>1, <2>2, <2>3, <2>4
<1>14. CASE RunReturn
  <2> USE <1>14 DEF IInv, RunReturn
  <2>1. TypeOK'
    BY DEF TypeOK, RunSteps
  <2>2. LockOwner'
    BY ConstantsAssumption DEF TypeOK, LockOwner
  <2>3. CountersExact'
    <3>1. UNCHANGED <<Counted, Added, Removed, Counters(stats)>>
      BY DEF Counted, Added, Removed, Counters, TypeOK, Stats
    <3> QED BY <3>1, CountersKept
  <2>4. ClosedAtTheEnd'
    BY DEF TypeOK, Stats, ClosedAtTheEnd
  <2> QED BY <2>1, <2>2, <2>3, <2>4
<1>15. CASE MainCancel
  <2> USE <1>15 DEF IInv, MainCancel
  <2>1. TypeOK'
    BY DEF TypeOK, RunSteps
  <2>2. LockOwner'
    BY ConstantsAssumption DEF TypeOK, LockOwner
  <2>3. CountersExact'
    <3>1. UNCHANGED <<Counted, Added, Removed, Counters(stats)>>
      BY DEF Counted, Added, Removed, Counters, TypeOK, Stats
    <3> QED BY <3>1, CountersKept
  <2>4. ClosedAtTheEnd'
    BY DEF TypeOK, Stats, ClosedAtTheEnd
  <2> QED BY <2>1, <2>2, <2>3, <2>4
<1>16. CASE MainExit
  <2> USE <1>16 DEF IInv, MainExit
  <2>1. TypeOK'
    BY DEF TypeOK, RunSteps, Exits
  <2>2. LockOwner'
    BY ConstantsAssumption DEF TypeOK, LockOwner
  <2>3. CountersExact'
    <3>1. UNCHANGED <<Counted, Added, Removed, Counters(stats)>>
      BY DEF Counted, Added, Removed, Counters, TypeOK, Stats
    <3> QED BY <3>1, CountersKept
  <2>4. ClosedAtTheEnd'
    BY DEF TypeOK, Stats, ClosedAtTheEnd
  <2> QED BY <2>1, <2>2, <2>3, <2>4
<1> QED BY <1>1, <1>2, <1>3, <1>4, <1>5, <1>6, <1>7, <1>8, <1>9, <1>10, <1>11, <1>12, <1>13, <1>14, <1>15, <1>16 DEF RunStep

(* handleStatUpdating. *)
LEMMA UpdStepIInv ==
  ASSUME IInv, UpdStep
  PROVE  IInv'
<1>1. CASE UpdStart
  <2> USE <1>1 DEF IInv, UpdStart
  <2>1. TypeOK'
    <3>1. prev' \in [connections : Nat, added : Nat, removed : Nat]
      BY DEF TypeOK, Stats
    <3>2. UNCHANGED <<stats, lock, row, run, runCopy, next, written, h, outer,
                      ctxDone, dbOpen, exit>> /\ upd' \in UpdSteps
      BY DEF UpdSteps
    <3> QED BY <3>1, <3>2 DEF TypeOK
  <2>2. LockOwner'
    BY ConstantsAssumption DEF TypeOK, LockOwner
  <2>3. CountersExact'
    <3>1. UNCHANGED <<Counted, Added, Removed, Counters(stats)>>
      BY DEF Counted, Added, Removed, Counters, TypeOK, Stats
    <3> QED BY <3>1, CountersKept
  <2>4. ClosedAtTheEnd'
    BY DEF TypeOK, Stats, ClosedAtTheEnd
  <2> QED BY <2>1, <2>2, <2>3, <2>4
<1>0. CASE UpdStarted
  <2> USE <1>0 DEF IInv, UpdStarted
  <2>1. TypeOK'
    <3>1. prev' \in [connections : Nat, added : Nat, removed : Nat]
      BY DEF TypeOK, Stats
    <3>2. UNCHANGED <<stats, lock, row, run, runCopy, next, written, h, outer,
                      ctxDone, dbOpen, exit>> /\ upd' \in UpdSteps
      BY DEF UpdSteps
    <3> QED BY <3>1, <3>2 DEF TypeOK
  <2>2. LockOwner'
    BY ConstantsAssumption DEF TypeOK, LockOwner
  <2>3. CountersExact'
    <3>1. UNCHANGED <<Counted, Added, Removed, Counters(stats)>>
      BY DEF Counted, Added, Removed, Counters, TypeOK, Stats
    <3> QED BY <3>1, CountersKept
  <2>4. ClosedAtTheEnd'
    BY DEF TypeOK, Stats, ClosedAtTheEnd
  <2> QED BY <2>1, <2>2, <2>3, <2>4
<1>2. CASE UpdTick
  <2> USE <1>2 DEF IInv, UpdTick
  <2>1. TypeOK'
    BY CopiesAreStats DEF TypeOK, UpdSteps
  <2>2. LockOwner'
    BY ConstantsAssumption DEF TypeOK, LockOwner
  <2>3. CountersExact'
    <3>1. UNCHANGED <<Counted, Added, Removed, Counters(stats)>>
      BY DEF Counted, Added, Removed, Counters, TypeOK, Stats
    <3> QED BY <3>1, CountersKept
  <2>4. ClosedAtTheEnd'
    BY DEF TypeOK, Stats, ClosedAtTheEnd
  <2> QED BY <2>1, <2>2, <2>3, <2>4
<1>3. CASE UpdCompare
  <2> USE <1>3 DEF IInv, UpdCompare
  <2>1. TypeOK'
    BY CopiesAreStats DEF TypeOK, UpdSteps
  <2>2. LockOwner'
    BY ConstantsAssumption DEF TypeOK, LockOwner
  <2>3. CountersExact'
    <3>1. UNCHANGED <<Counted, Added, Removed, Counters(stats)>>
      BY DEF Counted, Added, Removed, Counters, TypeOK, Stats
    <3> QED BY <3>1, CountersKept
  <2>4. ClosedAtTheEnd'
    BY DEF TypeOK, Stats, ClosedAtTheEnd
  <2> QED BY <2>1, <2>2, <2>3, <2>4
<1>4. CASE UpdWrite
  <2> USE <1>4 DEF IInv, UpdWrite, Commit
  <2>1. TypeOK'
    BY CopiesAreStats DEF TypeOK, UpdSteps
  <2>2. LockOwner'
    BY ConstantsAssumption DEF TypeOK, LockOwner
  <2>3. CountersExact'
    <3>1. UNCHANGED <<Counted, Added, Removed, Counters(stats)>>
      BY DEF Counted, Added, Removed, Counters, TypeOK, Stats
    <3> QED BY <3>1, CountersKept
  <2>4. ClosedAtTheEnd'
    BY DEF TypeOK, Stats, ClosedAtTheEnd
  <2> QED BY <2>1, <2>2, <2>3, <2>4
<1>5. CASE UpdWriteFails
  <2> USE <1>5 DEF IInv, UpdWriteFails, CommitFails
  <2>1. TypeOK'
    BY DEF TypeOK, UpdSteps, Exits
  <2>2. LockOwner'
    BY ConstantsAssumption DEF TypeOK, LockOwner
  <2>3. CountersExact'
    <3>1. UNCHANGED <<Counted, Added, Removed, Counters(stats)>>
      BY DEF Counted, Added, Removed, Counters, TypeOK, Stats
    <3> QED BY <3>1, CountersKept
  <2>4. ClosedAtTheEnd'
    BY DEF TypeOK, Stats, ClosedAtTheEnd
  <2> QED BY <2>1, <2>2, <2>3, <2>4
<1>6. CASE UpdStop
  <2> USE <1>6 DEF IInv, UpdStop
  <2>1. TypeOK'
    BY DEF TypeOK, UpdSteps
  <2>2. LockOwner'
    BY ConstantsAssumption DEF TypeOK, LockOwner
  <2>3. CountersExact'
    <3>1. UNCHANGED <<Counted, Added, Removed, Counters(stats)>>
      BY DEF Counted, Added, Removed, Counters, TypeOK, Stats
    <3> QED BY <3>1, CountersKept
  <2>4. ClosedAtTheEnd'
    BY DEF TypeOK, Stats, ClosedAtTheEnd
  <2> QED BY <2>1, <2>2, <2>3, <2>4
<1> QED BY <1>0, <1>1, <1>2, <1>3, <1>4, <1>5, <1>6 DEF UpdStep

(* The connections: the four halves of incConnections move a handler in or
   out of exactly one set, and change the counter of that set by one. *)
LEMMA ConnStepIInv ==
  ASSUME IInv, NEW c \in Conns, Dial(c) \/ HandlerStep(c) \/ ClientClose(c)
  PROVE  IInv'
<1>1. CASE Dial(c)
  <2> USE <1>1 DEF IInv, Dial
  <2>1. TypeOK'
    BY DEF TypeOK, ConnSteps
  <2>2. LockOwner'
    BY ConstantsAssumption DEF TypeOK, LockOwner
  <2>3. CountersExact'
    <3>1. UNCHANGED <<Counted, Added, Removed, Counters(stats)>>
      BY DEF Counted, Added, Removed, Counters, TypeOK, Stats
    <3> QED BY <3>1, CountersKept
  <2>4. ClosedAtTheEnd'
    BY DEF TypeOK, Stats, ClosedAtTheEnd
  <2> QED BY <2>1, <2>2, <2>3, <2>4
<1>2. CASE Accept(c)
  <2> USE <1>2 DEF IInv, Accept
  <2>1. TypeOK'
    BY DEF TypeOK, ConnSteps
  <2>2. LockOwner'
    BY ConstantsAssumption DEF TypeOK, LockOwner
  <2>3. CountersExact'
    <3>1. UNCHANGED <<Counted, Added, Removed, Counters(stats)>>
      BY DEF Counted, Added, Removed, Counters, TypeOK, Stats
    <3> QED BY <3>1, CountersKept
  <2>4. ClosedAtTheEnd'
    BY DEF TypeOK, Stats, ClosedAtTheEnd
  <2> QED BY <2>1, <2>2, <2>3, <2>4
<1>3. CASE ClientClose(c)
  <2> USE <1>3 DEF IInv, ClientClose
  <2>1. TypeOK'
    BY DEF TypeOK, ConnSteps
  <2>2. LockOwner'
    BY ConstantsAssumption DEF TypeOK, LockOwner
  <2>3. CountersExact'
    <3>1. UNCHANGED <<Counted, Added, Removed, Counters(stats)>>
      BY DEF Counted, Added, Removed, Counters, TypeOK, Stats
    <3> QED BY <3>1, CountersKept
  <2>4. ClosedAtTheEnd'
    BY DEF TypeOK, Stats, ClosedAtTheEnd
  <2> QED BY <2>1, <2>2, <2>3, <2>4
<1>4. CASE HandlerDone(c)
  <2> USE <1>4 DEF IInv, HandlerDone, ClientClose
  <2>1. TypeOK'
    BY DEF TypeOK, ConnSteps
  <2>2. LockOwner'
    BY ConstantsAssumption DEF TypeOK, LockOwner
  <2>3. CountersExact'
    <3>1. UNCHANGED <<Counted, Added, Removed, Counters(stats)>>
      BY DEF Counted, Added, Removed, Counters, TypeOK, Stats
    <3> QED BY <3>1, CountersKept
  <2>4. ClosedAtTheEnd'
    BY DEF TypeOK, Stats, ClosedAtTheEnd
  <2> QED BY <2>1, <2>2, <2>3, <2>4
<1>5. CASE HandlerEnter(c)
  <2> USE <1>5 DEF IInv, HandlerEnter, IncBegin
  <2>1. Counted' = Counted \cup {c} /\ c \notin Counted
    BY DEF Counted, TypeOK
  <2>2. UNCHANGED <<Added, Removed>>
    BY DEF Counted, Added, Removed, TypeOK
  <2>3. Counted \in SUBSET Conns
    BY DEF Counted
  <2>4. CountersExact'
    BY <2>1, <2>2, <2>3, JoinSet DEF CountersExact, TypeOK, Stats
  <2>5. TypeOK'
    <3>1. stats' \in Stats
      BY <2>1, <2>3, JoinSet DEF TypeOK, Stats, CountersExact
    <3> QED BY <3>1 DEF TypeOK, ConnSteps
  <2>6. LockOwner'
    BY ConstantsAssumption DEF TypeOK, LockOwner
  <2>7. ClosedAtTheEnd'
    BY DEF TypeOK, Stats, ClosedAtTheEnd
  <2> QED BY <2>4, <2>5, <2>6, <2>7
<1>6. CASE HandlerEntered(c)
  <2> USE <1>6 DEF IInv, HandlerEntered, IncEnd
  <2>1. Added' = Added \cup {c} /\ c \notin Added
    BY DEF Added, TypeOK
  <2>2. UNCHANGED <<Counted, Removed>>
    BY DEF Counted, Added, Removed, TypeOK
  <2>3. Added \in SUBSET Conns
    BY DEF Added
  <2>4. CountersExact'
    BY <2>1, <2>2, <2>3, JoinSet DEF CountersExact, TypeOK, Stats
  <2>5. TypeOK'
    <3>1. stats' \in Stats
      BY <2>1, <2>3, JoinSet DEF TypeOK, Stats, CountersExact
    <3> QED BY <3>1 DEF TypeOK, ConnSteps
  <2>6. LockOwner'
    BY ConstantsAssumption DEF TypeOK, LockOwner
  <2>7. ClosedAtTheEnd'
    BY DEF TypeOK, Stats, ClosedAtTheEnd
  <2> QED BY <2>4, <2>5, <2>6, <2>7
<1>7. CASE HandlerLeave(c)
  <2> USE <1>7 DEF IInv, HandlerLeave, IncBegin
  <2>1. Counted' = Counted \ {c} /\ c \in Counted
    BY DEF Counted, TypeOK
  <2>2. UNCHANGED <<Added, Removed>>
    BY DEF Counted, Added, Removed, TypeOK
  <2>3. Counted \in SUBSET Conns
    BY DEF Counted
  <2>4. CountersExact'
    BY <2>1, <2>2, <2>3, LeaveSet DEF CountersExact, TypeOK, Stats
  <2>5. TypeOK'
    <3>1. stats' \in Stats
      BY <2>1, <2>3, LeaveSet DEF TypeOK, Stats, CountersExact
    <3> QED BY <3>1 DEF TypeOK, ConnSteps
  <2>6. LockOwner'
    BY ConstantsAssumption DEF TypeOK, LockOwner
  <2>7. ClosedAtTheEnd'
    BY DEF TypeOK, Stats, ClosedAtTheEnd
  <2> QED BY <2>4, <2>5, <2>6, <2>7
<1>8. CASE HandlerLeft(c)
  <2> USE <1>8 DEF IInv, HandlerLeft, IncEnd
  <2>1. Removed' = Removed \cup {c} /\ c \notin Removed
    BY DEF Removed, TypeOK
  <2>2. UNCHANGED <<Counted, Added>>
    BY DEF Counted, Added, Removed, TypeOK
  <2>3. Removed \in SUBSET Conns
    BY DEF Removed
  <2>4. CountersExact'
    BY <2>1, <2>2, <2>3, JoinSet DEF CountersExact, TypeOK, Stats
  <2>5. TypeOK'
    <3>1. stats' \in Stats
      BY <2>1, <2>3, JoinSet DEF TypeOK, Stats, CountersExact
    <3> QED BY <3>1 DEF TypeOK, ConnSteps
  <2>6. LockOwner'
    BY ConstantsAssumption DEF TypeOK, LockOwner
  <2>7. ClosedAtTheEnd'
    BY DEF TypeOK, Stats, ClosedAtTheEnd
  <2> QED BY <2>4, <2>5, <2>6, <2>7
<1> QED BY <1>1, <1>2, <1>3, <1>4, <1>5, <1>6, <1>7, <1>8 DEF HandlerStep

(* Interruption. *)
LEMMA ProcessStepIInv ==
  ASSUME IInv, Interrupt \/ Killed \/ CloseDb
  PROVE  IInv'
<1>1. CASE Interrupt
  <2> USE <1>1 DEF IInv, Interrupt
  <2>1. TypeOK'
    BY DEF TypeOK
  <2>2. LockOwner'
    BY ConstantsAssumption DEF TypeOK, LockOwner
  <2>3. CountersExact'
    <3>1. UNCHANGED <<Counted, Added, Removed, Counters(stats)>>
      BY DEF Counted, Added, Removed, Counters, TypeOK, Stats
    <3> QED BY <3>1, CountersKept
  <2>4. ClosedAtTheEnd'
    BY DEF TypeOK, Stats, ClosedAtTheEnd
  <2> QED BY <2>1, <2>2, <2>3, <2>4
<1>2. CASE Killed
  <2> USE <1>2 DEF IInv, Killed
  <2>1. TypeOK'
    BY DEF TypeOK, Exits
  <2>2. LockOwner'
    BY ConstantsAssumption DEF TypeOK, LockOwner
  <2>3. CountersExact'
    <3>1. UNCHANGED <<Counted, Added, Removed, Counters(stats)>>
      BY DEF Counted, Added, Removed, Counters, TypeOK, Stats
    <3> QED BY <3>1, CountersKept
  <2>4. ClosedAtTheEnd'
    BY DEF TypeOK, Stats, ClosedAtTheEnd
  <2> QED BY <2>1, <2>2, <2>3, <2>4
<1>3. CASE CloseDb
  <2> USE <1>3 DEF IInv, CloseDb
  <2>1. TypeOK'
    BY DEF TypeOK
  <2>2. LockOwner'
    BY ConstantsAssumption DEF TypeOK, LockOwner
  <2>3. CountersExact'
    <3>1. UNCHANGED <<Counted, Added, Removed, Counters(stats)>>
      BY DEF Counted, Added, Removed, Counters, TypeOK, Stats
    <3> QED BY <3>1, CountersKept
  <2>4. ClosedAtTheEnd'
    BY DEF TypeOK, Stats, ClosedAtTheEnd
  <2> QED BY <2>1, <2>2, <2>3, <2>4
<1> QED BY <1>1, <1>2, <1>3

(* Every step preserves the invariant. *)
LEMMA NextIInv ==
  IInv /\ [Next]_vars => IInv'
<1> SUFFICES ASSUME IInv, [Next]_vars PROVE IInv'
  OBVIOUS
<1>1. CASE UNCHANGED vars
  <2>1. TypeOK' /\ LockOwner' /\ ClosedAtTheEnd'
    BY <1>1 DEF vars, IInv, TypeOK, LockOwner, ClosedAtTheEnd
  <2>2. CountersExact'
    BY <1>1 DEF vars, IInv, CountersExact, Counted, Added, Removed
  <2> QED BY <2>1, <2>2 DEF IInv
<1>2. CASE Next
  BY <1>2, RunStepIInv, UpdStepIInv, ConnStepIInv, ProcessStepIInv DEF Next
<1> QED BY <1>1, <1>2

(* The inductive invariant is an invariant. *)
THEOREM Invariance ==
  Spec => []IInv
BY InitIInv, NextIInv, PTL DEF Spec

(* Type correctness; in particular no counter ever becomes negative. *)
THEOREM TypeCorrect ==
  Spec => []TypeOK
<1>1. IInv => TypeOK
  BY DEF IInv
<1> QED BY <1>1, Invariance, PTL

(* Whenever g.mutex is free the three counters agree with each other and with
   the handlers that run. *)
THEOREM CountersMatch ==
  Spec => []CountersMatchHandlers
<1>1. IInv => CountersMatchHandlers
  <2> SUFFICES ASSUME IInv, lock = "free" PROVE
        /\ stats.connections = Cardinality(Serving)
        /\ stats.connections = stats.added - stats.removed
    BY DEF CountersMatchHandlers
  <2>1. \A c \in Conns : h[c] \notin {"inc", "dec"}
    BY ConstantsAssumption DEF IInv, LockOwner
  <2>2. Counted = Serving
    BY <2>1 DEF Counted, Serving
  <2>3. Added = Serving \cup Removed /\ Serving \cap Removed = {}
    BY <2>1 DEF Added, Serving, Removed
  <2>4. Serving \in SUBSET Conns /\ Removed \in SUBSET Conns
    BY DEF Serving, Removed
  <2>5. Cardinality(Added) = Cardinality(Serving) + Cardinality(Removed)
    <3>1. IsFiniteSet(Serving) /\ IsFiniteSet(Removed)
      BY <2>4, ConnSets
    <3>2. Cardinality(Serving) \in Nat /\ Cardinality(Removed) \in Nat
      BY <2>4, ConnSets
    <3>3. Cardinality(Serving \cup Removed)
            = Cardinality(Serving) + Cardinality(Removed) - Cardinality({})
      BY <2>3, <3>1, FS_Union
    <3> QED BY <2>3, <3>2, <3>3, FS_EmptySet
  <2> QED BY <2>2, <2>4, <2>5, ConnSets DEF IInv, CountersExact
<1> QED BY <1>1, Invariance, PTL

(* The assertion "i should never get to this position" of Run's timer case
   cannot fail. *)
THEOREM NeverInThatPosition ==
  Spec => []NeverPosition
<1>1. IInv => NeverPosition
  BY DEF IInv, ClosedAtTheEnd, NeverPosition
<1> QED BY <1>1, Invariance, PTL

(* No step takes a Closed server back to Ready or Idle. *)
THEOREM ClosedStaysClosed ==
  Spec => ClosedIsFinal
<1>1. IInv /\ [Next]_vars =>
        [stats.state = GSStateClosed => stats'.state = GSStateClosed]_vars
  <2> SUFFICES ASSUME IInv, Next, stats.state = GSStateClosed
      PROVE  stats'.state = GSStateClosed
    OBVIOUS
  <2> USE DEF IInv, TypeOK, Stats, ClosedAtTheEnd
  <2>1. CASE RunStep
    BY <2>1 DEF RunStep, RunPublish, RunUpdate, RunUpdateFails, RunTimer,
       RunIdle, RunCloseDown, RunReady, SetState, RunCancel, RunConnection,
       RunConnectionWhenClosed, RunDone, RunFinalState, RunFinalCopy,
       RunReturn, MainCancel, MainExit
  <2>2. CASE UpdStep
    BY <2>2 DEF UpdStep, UpdStart, UpdStarted, UpdTick, UpdCompare, UpdWrite,
       UpdWriteFails, UpdStop
  <2>3. ASSUME NEW c \in Conns, Dial(c) \/ HandlerStep(c) \/ ClientClose(c)
        PROVE  stats'.state = GSStateClosed
    BY <2>3 DEF Dial, HandlerStep, ClientClose, Accept, HandlerEnter,
       HandlerEntered, HandlerDone, HandlerLeave, HandlerLeft, IncBegin, IncEnd
  <2>4. CASE Interrupt \/ Killed \/ CloseDb
    BY <2>4 DEF Interrupt, Killed, CloseDb
  <2> QED BY <2>1, <2>2, <2>3, <2>4 DEF Next
<1> QED BY <1>1, Invariance, PTL DEF Spec, ClosedIsFinal

-----------------------------------------------------------------------------
(***************************************************************************)
(* GameServer implements CountedServer, for every finite set of            *)
(* connections: what is copied from g.stats, in one piece or torn, early   *)
(* or late, is never ahead of what the mapping shows.                      *)
(***************************************************************************)

(* A copy of g.stats is of the past, and a whole one shows at most one     *)
(* connection that has not been added yet.                                 *)
Behind(copy) ==
  /\ copy.added <= stats.added
  /\ copy.removed <= stats.removed
  /\ Abstract!NotAfter(copy.state, stats.state)

Whole(copy) == copy.connections <= copy.added + 1

CopiesBehind ==
  /\ Behind(runCopy) /\ Behind(next)
  /\ run \in DOMAIN AfterUpdate => Whole(runCopy)
  /\ run = "finalCopy" => runCopy.connections <= stats.added + 1
  /\ upd = "copy" => next.connections <= stats.added + 1
  /\ upd = "write" => Whole(next)

(* Run sets Closed once more before it leaves. *)
ClosedOnTheWayOut ==
  run \in {"finalCopy", "finalWrite", "finished", "returned", "exiting"} =>
    stats.state = GSStateClosed

(* Publishing the row changes no state. *)
ReadyAtFirst == run = "start" => stats.state = GSStateReady

RInv ==
  IInv /\ CopiesBehind /\ ClosedOnTheWayOut /\ ReadyAtFirst /\ Abstract!Balanced

Stutter == UNCHANGED <<stats.state, CompletedCounters, row, exit>>

-----------------------------------------------------------------------------
USE DEF runVars, updVars, procVars, GSStates, GSStateReady, GSStateIdle,
        GSStateClosed, Abstract!GSStates, Abstract!GSStateReady,
        Abstract!GSStateIdle, Abstract!GSStateClosed, Abstract!NotAfter

(* With the mutex free, no incConnections is halfway. *)
LEMMA NobodyMidway ==
  ASSUME LockOwner, lock = "free"
  PROVE  /\ \A c \in Conns : h[c] \notin {"inc", "dec"}
         /\ Midway("inc") = 0 /\ Midway("dec") = 0
BY ConstantsAssumption DEF LockOwner, Midway

(* With the mutex held by a handler, that one is halfway and no other. *)
LEMMA OneMidway ==
  ASSUME LockOwner, NEW c \in Conns, h[c] \in {"inc", "dec"}
  PROVE  \A d \in Conns : h[d] \in {"inc", "dec"} => d = c
BY DEF LockOwner

(* A handler enters: the two counters change as one. *)
LEMMA EnterSimulation ==
  ASSUME RInv, NEW c \in Conns, HandlerEnter(c), exit = "none"
  PROVE  Abstract!Enter
<1> USE DEF RInv, IInv, HandlerEnter, IncBegin
<1>1. Midway("inc") = 0 /\ Midway("dec") = 0
  BY NobodyMidway
<1>2. Midway("inc")' = 1
  BY DEF TypeOK, Midway
<1>3. Midway("dec")' = 0
  <2>1. \A d \in Conns : h'[d] # "dec"
    BY NobodyMidway DEF TypeOK
  <2> QED BY <2>1 DEF Midway
<1>4. stats' = [stats EXCEPT !.connections = @ + 1]
  OBVIOUS
<1>5. CompletedCounters = Counters(stats)
  BY <1>1 DEF CompletedCounters, Counters, TypeOK, Stats
<1>6. CompletedCounters' = [connections |-> stats.connections + 1,
                            added |-> stats.added + 1,
                            removed |-> stats.removed]
  BY <1>2, <1>3, <1>4 DEF CompletedCounters, TypeOK, Stats
<1>7. UNCHANGED <<stats.state, row, exit>>
  BY <1>4 DEF TypeOK, Stats
<1> QED BY <1>5, <1>6, <1>7 DEF Counters, Abstract!Enter

(* A handler leaves: it was counted, so there is something to subtract. *)
LEMMA LeaveSimulation ==
  ASSUME RInv, NEW c \in Conns, HandlerLeave(c), exit = "none"
  PROVE  Abstract!Leave
<1> USE DEF RInv, IInv, HandlerLeave, IncBegin
<1>1. Midway("inc") = 0 /\ Midway("dec") = 0
  BY NobodyMidway
<1>2. Midway("dec")' = 1
  BY DEF TypeOK, Midway
<1>3. Midway("inc")' = 0
  <2>1. \A d \in Conns : h'[d] # "inc"
    BY NobodyMidway DEF TypeOK
  <2> QED BY <2>1 DEF Midway
<1>4. stats' = [stats EXCEPT !.connections = @ - 1]
  BY DEF TypeOK, Stats
<1>5. stats.connections > 0
  <2>1. c \in Counted /\ Counted \in SUBSET Conns
    BY DEF Counted
  <2>2. Cardinality(Counted) - 1 \in Nat
    BY <2>1, LeaveSet
  <2> QED BY <2>2 DEF CountersExact, TypeOK, Stats
<1>6. CompletedCounters = Counters(stats)
  BY <1>1 DEF CompletedCounters, Counters, TypeOK, Stats
<1>7. CompletedCounters' = [connections |-> stats.connections - 1,
                            added |-> stats.added,
                            removed |-> stats.removed + 1]
  BY <1>2, <1>3, <1>4 DEF CompletedCounters, TypeOK, Stats
<1>8. UNCHANGED <<stats.state, row, exit>>
  BY <1>4 DEF TypeOK, Stats
<1>9. CompletedCounters.connections > 0
  BY <1>5, <1>6 DEF Counters
<1> QED BY <1>6, <1>7, <1>8, <1>9 DEF Counters, Abstract!Leave

(* The second halves of incConnections are stutters. *)
LEMMA EnteredSimulation ==
  ASSUME RInv, NEW c \in Conns, HandlerEntered(c)
  PROVE  Stutter
<1> USE DEF RInv, IInv, HandlerEntered, IncEnd
<1>1. Midway("inc") = 1 /\ Midway("dec") = 0
  BY OneMidway DEF Midway
<1>2. Midway("inc")' = 0 /\ Midway("dec")' = 0
  <2>1. \A d \in Conns : h'[d] \notin {"inc", "dec"}
    BY OneMidway DEF TypeOK
  <2> QED BY <2>1 DEF Midway
<1>3. stats' = [stats EXCEPT !.added = @ + 1]
  OBVIOUS
<1> QED BY <1>1, <1>2, <1>3 DEF Stutter, CompletedCounters, TypeOK, Stats

LEMMA LeftSimulation ==
  ASSUME RInv, NEW c \in Conns, HandlerLeft(c)
  PROVE  Stutter
<1> USE DEF RInv, IInv, HandlerLeft, IncEnd
<1>1. Midway("inc") = 0 /\ Midway("dec") = 1
  BY OneMidway DEF Midway
<1>2. Midway("inc")' = 0 /\ Midway("dec")' = 0
  <2>1. \A d \in Conns : h'[d] \notin {"inc", "dec"}
    BY OneMidway DEF TypeOK
  <2> QED BY <2>1 DEF Midway
<1>3. stats' = [stats EXCEPT !.removed = @ + 1]
  BY DEF TypeOK, Stats
<1> QED BY <1>1, <1>2, <1>3 DEF Stutter, CompletedCounters, TypeOK, Stats

-----------------------------------------------------------------------------
(***************************************************************************)
(* The steps that move no connection through incConnections.               *)
(***************************************************************************)
LEMMA SameCounters ==
  ASSUME UNCHANGED Counters(stats),
         \A d \in Conns : (h'[d] = "inc") = (h[d] = "inc"),
         \A d \in Conns : (h'[d] = "dec") = (h[d] = "dec")
  PROVE  UNCHANGED CompletedCounters
<1>1. Midway("inc")' = Midway("inc")
  <2>1. CASE \E d \in Conns : h[d] = "inc"
    BY <2>1 DEF Midway
  <2>2. CASE ~ \E d \in Conns : h[d] = "inc"
    BY <2>2 DEF Midway
  <2> QED BY <2>1, <2>2
<1>2. Midway("dec")' = Midway("dec")
  <2>1. CASE \E d \in Conns : h[d] = "dec"
    BY <2>1 DEF Midway
  <2>2. CASE ~ \E d \in Conns : h[d] = "dec"
    BY <2>2 DEF Midway
  <2> QED BY <2>1, <2>2
<1> QED BY <1>1, <1>2 DEF CompletedCounters, Counters

(* g.stats itself shows at most one connection it has not added. *)
LEMMA WholeStats ==
  ASSUME TypeOK, Abstract!Balanced
  PROVE  stats.connections <= stats.added + 1
<1>1. Midway("inc") \in {0, 1} /\ Midway("dec") \in {0, 1}
  BY DEF Midway
<1> QED BY <1>1 DEF Abstract!Balanced, CompletedCounters, TypeOK, Stats

(* What Balanced says is kept by every step of CountedServer. *)
LEMMA StepBalanced ==
  ASSUME TypeOK, Abstract!Balanced, Abstract!Step \/ Stutter
  PROVE  Abstract!Balanced'
<1>1. CompletedCounters \in [connections : Nat, added : Nat, removed : Nat]
  <2>1. Midway("inc") \in Nat /\ Midway("dec") \in Nat
    BY DEF Midway
  <2> QED BY <2>1 DEF CompletedCounters, TypeOK, Stats
<1>2. CASE Abstract!Enter
  BY <1>1, <1>2 DEF Abstract!Enter, Abstract!Balanced
<1>3. CASE Abstract!Leave
  BY <1>1, <1>3 DEF Abstract!Leave, Abstract!Balanced
<1>4. CASE UNCHANGED CompletedCounters
  BY <1>4 DEF Abstract!Balanced
<1> QED BY <1>2, <1>3, <1>4
        DEF Abstract!Step, Abstract!ChangeState, Abstract!WriteRow,
            Abstract!End, Stutter

(* Copies nobody touches stay behind counters that only grow. *)
LEMMA CopiesKept ==
  ASSUME TypeOK, TypeOK', CopiesBehind,
         stats.added <= stats'.added, stats.removed <= stats'.removed,
         UNCHANGED <<stats.state, runVars, updVars>>
  PROVE  CopiesBehind'
BY DEF TypeOK, Stats, NewStats, CopiesBehind, Behind, Whole, AfterUpdate

-----------------------------------------------------------------------------
(***************************************************************************)
(* How the other steps of CountedServer are taken.                         *)
(***************************************************************************)
LEMMA WriteSimulation ==
  ASSUME TypeOK, exit = "none", NEW copy \in Stats, Behind(copy), Whole(copy),
         row' = copy, UNCHANGED <<stats, h, exit>>
  PROVE  Abstract!Step
<1>1. UNCHANGED CompletedCounters
  BY SameCounters DEF Counters
<1>2. copy.added <= CompletedCounters.added
      /\ copy.removed <= CompletedCounters.removed
  <2>1. Midway("inc") \in Nat /\ Midway("dec") \in Nat
    BY DEF Midway
  <2> QED BY <2>1 DEF CompletedCounters, Behind, TypeOK, Stats
<1>3. Abstract!Promised(row')
  BY <1>2 DEF Abstract!Promised, Behind, Whole
<1> QED BY <1>1, <1>3 DEF Abstract!Step, Abstract!WriteRow, Stats

LEMMA StateSimulation ==
  ASSUME exit = "none", stats.state \in GSStates, stats'.state \in GSStates,
         Abstract!NotAfter(stats.state, stats'.state),
         UNCHANGED <<CompletedCounters, row, exit>>
  PROVE  Abstract!Step \/ Stutter
BY DEF Abstract!Step, Abstract!ChangeState, Stutter

LEMMA EndSimulation ==
  ASSUME exit = "none", exit' \in Exits \ {"none"},
         exit' = "clean" => stats.state = GSStateClosed,
         UNCHANGED <<stats, h, row>>
  PROVE  Abstract!Step
<1>1. UNCHANGED CompletedCounters
  BY SameCounters DEF Counters
<1> QED BY <1>1 DEF Abstract!Step, Abstract!End, Exits

(* Everybody else stutters. *)
LEMMA StutterSimulation ==
  ASSUME UNCHANGED <<stats, h, row, exit>>
  PROVE  Stutter
<1>1. UNCHANGED CompletedCounters
  BY SameCounters DEF Counters
<1> QED BY <1>1 DEF Stutter

-----------------------------------------------------------------------------
(***************************************************************************)
(* One step of GameServer: it is a step of CountedServer or a stutter, and *)
(* the copies stay behind.                                                 *)
(***************************************************************************)
Refines ==
  /\ Abstract!Step \/ Stutter
  /\ CopiesBehind' /\ ClosedOnTheWayOut' /\ ReadyAtFirst'

(* A step that makes no copy and writes no counter. *)
LEMMA CopiesUntouched ==
  ASSUME CopiesBehind, TypeOK, TypeOK',
         UNCHANGED <<stats, runCopy, upd, next>>,
         run' \notin DOMAIN AfterUpdate, run' # "finalCopy"
  PROVE  CopiesBehind'
BY DEF CopiesBehind, Behind, Whole, TypeOK, Stats, NewStats

LEMMA CopiesStill ==
  ASSUME CopiesBehind, UNCHANGED <<stats, run, runCopy, upd, next>>
  PROVE  CopiesBehind'
BY DEF CopiesBehind, Behind, Whole

(* Run and main. *)
LEMMA RunStepRefines ==
  ASSUME RInv, IInv', exit = "none", RunStep
  PROVE  Refines
<1> USE DEF RInv, IInv, Refines
<1>1. CASE RunPublish
  <2> USE <1>1 DEF RunPublish
  <2>1. Abstract!Step \/ Stutter
    <3>1. UNCHANGED CompletedCounters
      BY SameCounters DEF Counters, TypeOK, Stats
    <3> QED BY <3>1, StateSimulation DEF TypeOK, Stats, ReadyAtFirst
  <2>2. CopiesBehind'
    <3>1. stats' = stats /\ runCopy' = stats
      BY DEF TypeOK, Stats, ReadyAtFirst
    <3>2. Behind(stats)
      BY DEF Behind, TypeOK, Stats
    <3> QED BY <3>1, <3>2, WholeStats DEF CopiesBehind, Behind, Whole
  <2> QED BY <2>1, <2>2 DEF ClosedOnTheWayOut, ReadyAtFirst
<1>2. CASE RunUpdate
  <2> USE <1>2 DEF RunUpdate, Commit
  <2>1. Abstract!Step
    BY WriteSimulation DEF TypeOK, CopiesBehind
  <2>2. CopiesBehind'
    BY DEF CopiesBehind, Behind, Whole, TypeOK, Stats, NewStats,
       AfterUpdate
  <2>3. ClosedOnTheWayOut' /\ ReadyAtFirst'
    BY DEF ClosedOnTheWayOut, ReadyAtFirst, AfterUpdate
  <2> QED BY <2>1, <2>2, <2>3
<1>3. CASE RunUpdateFails
  <2> USE <1>3 DEF RunUpdateFails, CommitFails
  <2>1. Abstract!Step
    BY EndSimulation DEF Exits
  <2>2. CopiesBehind'
    BY CopiesStill
  <2> QED BY <2>1, <2>2 DEF ClosedOnTheWayOut, ReadyAtFirst
<1>4. CASE RunTimer
  <2> USE <1>4 DEF RunTimer
  <2>1. CopiesBehind'
    BY CopiesUntouched DEF AfterUpdate
  <2> QED BY <2>1, StutterSimulation DEF ClosedOnTheWayOut, ReadyAtFirst
<1>5. ASSUME NEW from \in {"idle", "close", "ready"},
             NEW to \in {"idling", "closing", "readying"},
             NEW state \in {GSStateIdle, GSStateClosed},
             SetState(from, to, state)
      PROVE  Refines
  <2> USE <1>5 DEF SetState
  <2>1. stats.state # GSStateClosed
    BY DEF ClosedAtTheEnd
  <2>2. Abstract!Step \/ Stutter
    <3>1. UNCHANGED CompletedCounters
      BY SameCounters DEF Counters, TypeOK, Stats
    <3> QED BY <2>1, <3>1, StateSimulation DEF TypeOK, Stats
  <2>3. CopiesBehind'
    BY <2>1, WholeStats DEF CopiesBehind, Behind, Whole, TypeOK, Stats,
       NewStats
  <2> QED BY <2>2, <2>3 DEF ClosedOnTheWayOut, ReadyAtFirst
<1>6. CASE RunIdle \/ RunCloseDown \/ RunReady
  BY <1>5, <1>6 DEF RunIdle, RunCloseDown, RunReady
<1>7. CASE RunCancel
  <2> USE <1>7 DEF RunCancel
  <2>1. CopiesBehind'
    BY CopiesUntouched DEF AfterUpdate
  <2> QED BY <2>1, StutterSimulation DEF ClosedOnTheWayOut, ReadyAtFirst
<1>8. ASSUME NEW c \in Conns, RunConnection(c) PROVE Refines
  <2> USE <1>8 DEF RunConnection
  <2>1. CopiesBehind'
    BY CopiesUntouched DEF AfterUpdate
  <2>2. UNCHANGED CompletedCounters
    BY SameCounters DEF Counters, TypeOK
  <2> QED BY <2>1, <2>2 DEF Stutter, ClosedOnTheWayOut, ReadyAtFirst
<1>9. ASSUME NEW c \in Conns, RunConnectionWhenClosed(c) PROVE Refines
  <2> USE <1>9 DEF RunConnectionWhenClosed
  <2>1. Abstract!Step
    BY EndSimulation DEF Exits
  <2>2. CopiesBehind'
    BY CopiesStill
  <2> QED BY <2>1, <2>2 DEF ClosedOnTheWayOut, ReadyAtFirst
<1>10. CASE RunDone
  <2> USE <1>10 DEF RunDone
  <2>1. CopiesBehind'
    BY CopiesUntouched DEF AfterUpdate
  <2> QED BY <2>1, StutterSimulation DEF ClosedOnTheWayOut, ReadyAtFirst
<1>11. CASE RunFinalState
  <2> USE <1>11 DEF RunFinalState
  <2>1. UNCHANGED CompletedCounters
    BY SameCounters DEF Counters, TypeOK, Stats
  <2>2. Abstract!Step \/ Stutter
    BY <2>1, StateSimulation DEF TypeOK, Stats
  <2>3. CopiesBehind'
    BY WholeStats DEF CopiesBehind, Behind, Whole, TypeOK, Stats,
       NewStats, CopyHead, AfterUpdate
  <2>4. ClosedOnTheWayOut' /\ ReadyAtFirst'
    BY DEF ClosedOnTheWayOut, ReadyAtFirst,
           TypeOK, Stats
  <2> QED BY <2>2, <2>3, <2>4
<1>12. CASE RunFinalCopy
  <2> USE <1>12 DEF RunFinalCopy
  <2>1. CopiesBehind'
    BY DEF CopiesBehind, Behind, Whole, TypeOK, Stats, NewStats,
       CopyTail
  <2> QED BY <2>1, StutterSimulation DEF ClosedOnTheWayOut, ReadyAtFirst
<1>13. CASE RunReturn \/ MainCancel
  <2> USE <1>13 DEF RunReturn, MainCancel
  <2>1. CopiesBehind'
    BY CopiesUntouched DEF AfterUpdate
  <2> QED BY <2>1, StutterSimulation DEF ClosedOnTheWayOut, ReadyAtFirst
<1>14. CASE MainExit
  <2> USE <1>14 DEF MainExit
  <2>1. Abstract!Step
    BY EndSimulation DEF Exits, ClosedOnTheWayOut, ReadyAtFirst
  <2>2. CopiesBehind'
    BY CopiesKept DEF TypeOK, Stats
  <2> QED BY <2>1, <2>2 DEF ClosedOnTheWayOut, ReadyAtFirst
<1> QED BY <1>1, <1>2, <1>3, <1>4, <1>6, <1>7, <1>8, <1>9, <1>10, <1>11,
           <1>12, <1>13, <1>14 DEF RunStep

(* handleStatUpdating. *)
LEMMA UpdStepRefines ==
  ASSUME RInv, IInv', exit = "none", UpdStep
  PROVE  Refines
<1> USE DEF RInv, IInv, Refines
<1>1. CASE UpdStart \/ UpdStarted \/ UpdStop
  <2> USE <1>1 DEF UpdStart, UpdStarted, UpdStop
  <2>1. CopiesBehind'
    BY DEF CopiesBehind, Behind, Whole, TypeOK, Stats, NewStats
  <2> QED BY <2>1, StutterSimulation DEF ClosedOnTheWayOut, ReadyAtFirst
<1>2. CASE UpdTick
  <2> USE <1>2 DEF UpdTick
  <2>1. CopiesBehind'
    BY WholeStats DEF CopiesBehind, Behind, Whole, TypeOK, Stats,
       NewStats, CopyHead
  <2> QED BY <2>1, StutterSimulation DEF ClosedOnTheWayOut, ReadyAtFirst
<1>3. CASE UpdCompare
  <2> USE <1>3 DEF UpdCompare
  <2>1. CopiesBehind'
    <3>1. next' \in {NewStats, CopyTail(next)} /\ upd' \in {"tick", "write"}
          /\ (upd' = "write" => next' = CopyTail(next))
      OBVIOUS
    <3>2. Behind(next)' /\ (upd' = "write" => Whole(next)')
      <4>1. CASE next' = NewStats /\ upd' = "tick"
        BY <4>1 DEF CopiesBehind, Behind, TypeOK, Stats, NewStats
      <4>2. CASE next' = CopyTail(next)
        BY <4>2 DEF CopiesBehind, Behind, Whole, TypeOK, Stats, CopyTail
      <4> QED BY <3>1, <4>1, <4>2
    <3>3. Behind(runCopy)'
      BY DEF CopiesBehind, Behind, Whole
    <3> QED BY <3>1, <3>2, <3>3 DEF CopiesBehind, Whole
  <2> QED BY <2>1, StutterSimulation DEF ClosedOnTheWayOut, ReadyAtFirst
<1>4. CASE UpdWrite
  <2> USE <1>4 DEF UpdWrite, Commit
  <2>1. Abstract!Step
    BY WriteSimulation DEF TypeOK, CopiesBehind
  <2>2. CopiesBehind'
    BY DEF CopiesBehind, Behind, Whole, TypeOK, Stats, NewStats
  <2> QED BY <2>1, <2>2 DEF ClosedOnTheWayOut, ReadyAtFirst
<1>5. CASE UpdWriteFails
  <2> USE <1>5 DEF UpdWriteFails, CommitFails
  <2>1. Abstract!Step
    BY EndSimulation DEF Exits
  <2>2. CopiesBehind'
    BY CopiesStill
  <2> QED BY <2>1, <2>2 DEF ClosedOnTheWayOut, ReadyAtFirst
<1> QED BY <1>1, <1>2, <1>3, <1>4, <1>5 DEF UpdStep

(* The connections. *)
LEMMA ConnStepRefines ==
  ASSUME RInv, IInv', exit = "none",
         NEW c \in Conns, Dial(c) \/ HandlerStep(c) \/ ClientClose(c)
  PROVE  Refines
<1> USE DEF RInv, IInv, Refines
<1>1. CASE Dial(c) \/ Accept(c) \/ ClientClose(c) \/ HandlerDone(c)
  <2> USE <1>1 DEF Dial, Accept, ClientClose, HandlerDone
  <2>1. UNCHANGED CompletedCounters
    BY SameCounters DEF Counters, TypeOK
  <2>2. CopiesBehind'
    BY CopiesKept DEF TypeOK, Stats
  <2> QED BY <2>1, <2>2 DEF Stutter, ClosedOnTheWayOut, ReadyAtFirst
<1>2. CASE HandlerEnter(c)
  <2>1. Abstract!Step
    BY <1>2, EnterSimulation DEF Abstract!Step
  <2>2. CopiesBehind' /\ ClosedOnTheWayOut' /\ ReadyAtFirst'
    BY <1>2, CopiesKept
       DEF HandlerEnter, IncBegin, ClosedOnTheWayOut, ReadyAtFirst,
           TypeOK, Stats
  <2> QED BY <2>1, <2>2
<1>3. CASE HandlerEntered(c)
  <2>1. Stutter
    BY <1>3, EnteredSimulation
  <2>2. CopiesBehind' /\ ClosedOnTheWayOut' /\ ReadyAtFirst'
    BY <1>3, CopiesKept
       DEF HandlerEntered, IncEnd, ClosedOnTheWayOut, ReadyAtFirst,
           TypeOK, Stats
  <2> QED BY <2>1, <2>2
<1>4. CASE HandlerLeave(c)
  <2>1. Abstract!Step
    BY <1>4, LeaveSimulation DEF Abstract!Step
  <2>2. CopiesBehind' /\ ClosedOnTheWayOut' /\ ReadyAtFirst'
    BY <1>4, CopiesKept
       DEF HandlerLeave, IncBegin, ClosedOnTheWayOut, ReadyAtFirst,
           TypeOK, Stats
  <2> QED BY <2>1, <2>2
<1>5. CASE HandlerLeft(c)
  <2>1. Stutter
    BY <1>5, LeftSimulation
  <2>2. CopiesBehind' /\ ClosedOnTheWayOut' /\ ReadyAtFirst'
    BY <1>5, CopiesKept
       DEF HandlerLeft, IncEnd, ClosedOnTheWayOut, ReadyAtFirst,
           TypeOK, Stats
  <2> QED BY <2>1, <2>2
<1> QED BY <1>1, <1>2, <1>3, <1>4, <1>5 DEF HandlerStep

(* Interruption. *)
LEMMA ProcessStepRefines ==
  ASSUME RInv, IInv', exit = "none", Interrupt \/ Killed \/ CloseDb
  PROVE  Refines
<1> USE DEF RInv, IInv, Refines
<1>1. CopiesBehind' /\ ClosedOnTheWayOut' /\ ReadyAtFirst'
  BY CopiesKept
     DEF Interrupt, Killed, CloseDb, ClosedOnTheWayOut, ReadyAtFirst, TypeOK,
         Stats
<1>2. CASE Killed
  BY <1>1, <1>2, EndSimulation DEF Killed, Exits
<1>3. CASE Interrupt \/ CloseDb
  BY <1>1, <1>3, StutterSimulation DEF Interrupt, CloseDb
<1> QED BY <1>2, <1>3

-----------------------------------------------------------------------------
LEMMA InitStart ==
  Init => RInv /\ Abstract!Start
<1> SUFFICES ASSUME Init PROVE RInv /\ Abstract!Start
  OBVIOUS
<1>1. Midway("inc") = 0 /\ Midway("dec") = 0
  BY DEF Init, Midway
<1>2. CompletedCounters = [connections |-> 0, added |-> 0, removed |-> 0]
  BY <1>1 DEF Init, NewStats, CompletedCounters
<1>3. Abstract!Start
  BY <1>2 DEF Init, NewStats, NoRow, Abstract!Start, Abstract!Zero
<1>4. Abstract!Balanced
  BY <1>2 DEF Abstract!Balanced
<1>5. CopiesBehind /\ ClosedOnTheWayOut /\ ReadyAtFirst
  BY DEF Init, NewStats, CopiesBehind, Behind, Whole, AfterUpdate,
     ClosedOnTheWayOut, ReadyAtFirst
<1> QED BY <1>3, <1>4, <1>5, InitIInv DEF RInv

(* Every step is one of CountedServer or leaves its variables alone. *)
LEMMA NextRefines ==
  ASSUME RInv, [Next]_vars
  PROVE  RInv' /\ (Abstract!Step \/ Stutter)
<1>1. IInv'
  BY NextIInv DEF RInv
<1>2. CASE UNCHANGED vars
  <2>1. Stutter
    BY <1>2, StutterSimulation DEF vars
  <2>2. CopiesBehind' /\ ClosedOnTheWayOut' /\ ReadyAtFirst'
    BY <1>2, CopiesStill DEF vars, RInv, ClosedOnTheWayOut, ReadyAtFirst
  <2> QED BY <1>1, <2>1, <2>2, StepBalanced DEF RInv, IInv
<1>3. CASE Next
  <2>1. Refines
    BY <1>1, <1>3, RunStepRefines, UpdStepRefines, ConnStepRefines,
       ProcessStepRefines DEF Next
  <2> QED BY <1>1, <2>1, StepBalanced DEF Refines, RInv, IInv
<1> QED BY <1>2, <1>3

(* A game server, seen through its row, behaves as CountedServer. *)
THEOREM Refinement ==
  Spec => ImplementsCountedServer
<1>1. Init => RInv /\ Abstract!Start
  BY InitStart
<1>2. RInv /\ [Next]_vars => RInv'
  BY NextRefines
<1>3. RInv /\ [Next]_vars => [Abstract!Step]_(Abstract!abstractVars)
  BY NextRefines DEF Stutter, Abstract!abstractVars
<1> QED BY <1>1, <1>2, <1>3, PTL
        DEF Spec, ImplementsCountedServer, Abstract!Behaviour

-----------------------------------------------------------------------------
(***************************************************************************)
(* The database closes only after main cancels its context, which without  *)
(* ctrl-C is the last thing it does.                                       *)
(***************************************************************************)
DbClosesLast ==
  /\ ~dbOpen => outer
  /\ outer => MayCancel \/ run = "exiting"
  /\ OnlyLateWriteFails

LEMMA DbClosesLastKept ==
  ASSUME DbClosesLast, UNCHANGED <<outer, dbOpen>>,
         run = "exiting" => run' = "exiting",
         exit' # "update failed"
  PROVE  DbClosesLast'
BY DEF DbClosesLast, OnlyLateWriteFails

(* A write fails only on a database that does, after ctrl-C, or in the
   updater while main is leaving. *)
THEOREM LateWrites ==
  Spec => []OnlyLateWriteFails
<1>1. Init => DbClosesLast
  BY DEF Init, DbClosesLast, OnlyLateWriteFails
<1>2. DbClosesLast /\ [Next]_vars => DbClosesLast'
  <2> SUFFICES ASSUME DbClosesLast, [Next]_vars PROVE DbClosesLast'
    OBVIOUS
  <2>1. CASE UNCHANGED vars
    BY <2>1 DEF vars, DbClosesLast, OnlyLateWriteFails
  <2>2. ASSUME exit = "none", RunStep PROVE DbClosesLast'
    <3>1. CASE RunUpdateFails
      BY <3>1 DEF RunUpdateFails, CommitFails, AfterUpdate, DbClosesLast,
         OnlyLateWriteFails
    <3>2. CASE MainCancel
      BY <2>2, <3>2 DEF MainCancel, DbClosesLast, OnlyLateWriteFails
    <3>3. CASE RunPublish \/ RunUpdate \/ RunTimer \/ RunIdle \/ RunCloseDown
               \/ RunReady
      BY <2>2, <3>3, DbClosesLastKept DEF RunPublish, RunUpdate, Commit,
         AfterUpdate, RunTimer, RunIdle, RunCloseDown, RunReady, SetState
    <3>4. CASE RunCancel \/ RunDone \/ RunFinalState \/ RunFinalCopy
               \/ RunReturn \/ MainExit
      BY <2>2, <3>4, DbClosesLastKept DEF RunCancel, RunDone, RunFinalState,
         RunFinalCopy, RunReturn, MainExit
    <3>5. ASSUME NEW c \in Conns,
                 RunConnection(c) \/ RunConnectionWhenClosed(c)
          PROVE  DbClosesLast'
      BY <2>2, <3>5, DbClosesLastKept
         DEF RunConnection, RunConnectionWhenClosed
    <3> QED BY <2>2, <3>1, <3>2, <3>3, <3>4, <3>5 DEF RunStep
  <2>3. ASSUME exit = "none", UpdStep PROVE DbClosesLast'
    <3>1. CASE UpdWriteFails
      BY <3>1 DEF UpdWriteFails, CommitFails, DbClosesLast, OnlyLateWriteFails
    <3>2. CASE UpdStart \/ UpdStarted \/ UpdTick \/ UpdCompare
               \/ UpdWrite \/ UpdStop
      BY <2>3, <3>2, DbClosesLastKept
         DEF UpdStart, UpdStarted, UpdTick, UpdCompare, UpdWrite, Commit, UpdStop
    <3> QED BY <2>3, <3>1, <3>2 DEF UpdStep
  <2>4. ASSUME exit = "none", NEW c \in Conns,
               Dial(c) \/ HandlerStep(c) \/ ClientClose(c)
        PROVE  DbClosesLast'
    BY <2>4, DbClosesLastKept
       DEF Dial, HandlerStep, ClientClose, Accept, HandlerEnter,
           HandlerEntered, HandlerDone, HandlerLeave, HandlerLeft, IncBegin,
           IncEnd
  <2>5. ASSUME exit = "none", Interrupt \/ Killed \/ CloseDb
        PROVE  DbClosesLast'
    BY <2>5 DEF Interrupt, Killed, CloseDb, DbClosesLast, OnlyLateWriteFails
  <2> QED BY <2>1, <2>2, <2>3, <2>4, <2>5 DEF Next
<1>3. DbClosesLast => OnlyLateWriteFails
  BY DEF DbClosesLast
<1> QED BY <1>1, <1>2, <1>3, PTL DEF Spec
=============================================================================
