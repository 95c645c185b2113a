----------------------------- MODULE CountedServer -----------------------------
(***************************************************************************)
(* What a game server promises to those who only see its row: an abstract  *)
(* specification of pkg/api/server.go that GameServer implements.          *)
(*                                                                         *)
(* Clients are counted in and out in one step each, whatever the handlers  *)
(* and the mutex do.  The row is written at any time with some earlier     *)
(* counters, possibly of different times, and an earlier state; but it is  *)
(* never ahead of them and shows at most one connection it has not added.  *)
(* A server that has been Idle is never Ready again, and Closed is final.  *)
(***************************************************************************)
EXTENDS GameServerStats

VARIABLES
  state,     \* the server's state
  counters,  \* Connections, ConnectionsAdded and ConnectionsRemoved
  row,       \* the row in the table
  exit       \* "none", "clean" or "crash"

abstractVars == <<state, counters, row, exit>>

Zero == [connections |-> 0, added |-> 0, removed |-> 0]

Start ==
  /\ state = GSStateReady
  /\ counters = Zero
  /\ row = [state |-> "none", connections |-> 0, added |-> 0, removed |-> 0]
  /\ exit = "none"

Enter ==
  /\ counters' = [connections |-> counters.connections + 1,
                  added |-> counters.added + 1,
                  removed |-> counters.removed]
  /\ UNCHANGED <<state, row, exit>>

Leave ==
  /\ counters.connections > 0
  /\ counters' = [connections |-> counters.connections - 1,
                  added |-> counters.added,
                  removed |-> counters.removed + 1]
  /\ UNCHANGED <<state, row, exit>>

(* A server goes from Ready to Idle to Closed and never back: ready()
   stores Idle, whatever it logs. *)
NotAfter(s, t) == s \in {GSStateReady, t} \/ t = GSStateClosed

ChangeState ==
  /\ state' \in GSStates \ {state}
  /\ NotAfter(state, state')
  /\ UNCHANGED <<counters, row, exit>>

(* What the row may be made to show. *)
Promised(r) ==
  /\ r.added <= counters.added
  /\ r.removed <= counters.removed
  /\ r.connections <= r.added + 1
  /\ NotAfter(r.state, state)

WriteRow ==
  /\ row' \in [state : GSStates, connections : Nat, added : Nat, removed : Nat]
  /\ Promised(row')
  /\ UNCHANGED <<state, counters, exit>>

(* A server that ends by itself is closed; the others crash. *)
End ==
  /\ \/ exit' = "clean" /\ state = GSStateClosed
     \/ exit' = "crash"
  /\ UNCHANGED <<state, counters, row>>

Step ==
  /\ exit = "none"
  /\ Enter \/ Leave \/ ChangeState \/ WriteRow \/ End

(* The counters agree with each other; every step keeps it so. *)
Balanced == counters.connections = counters.added - counters.removed

Behaviour == Start /\ [][Step]_abstractVars
=============================================================================
