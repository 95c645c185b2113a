-------------------------- MODULE GameServerStats --------------------------
(***************************************************************************)
(* The table GameServerConfigs that every process of the system shares:    *)
(* pkg/game-server-stats.  A table is a function from the primary key (the *)
(* server's id) to a row; a row is a record with at least the fields state *)
(* and load.  Host, port and the timestamp of a row are left out: they are *)
(* copied through unchanged and no decision of the program reads them.     *)
(***************************************************************************)
EXTENDS Integers

(***************************************************************************)
(* The states a row is ever written with.  GSStateInitializing is declared *)
(* by stats.go too, but cmd/api-server creates its configuration as Ready. *)
(***************************************************************************)
GSStateReady == "ready"
GSStateIdle == "idle"
GSStateClosed == "closed"
GSStates == {GSStateReady, GSStateIdle, GSStateClosed}

(***************************************************************************)
(* INSERT OR REPLACE: Sqlite.Update.                                       *)
(***************************************************************************)
Update(rows, id, stat) ==
  [i \in DOMAIN rows \cup {id} |-> IF i = id THEN stat ELSE rows[i]]

(***************************************************************************)
(* Sqlite.GetById finds a row.  A failed query and a missing row look the  *)
(* same to its callers (nil); the failure is the callers' choice.          *)
(***************************************************************************)
HasRow(rows, id) == id \in DOMAIN rows

(***************************************************************************)
(* SELECT ... WHERE load < ? AND state == ready, Sqlite's                  *)
(* GetServersByUtilization, and the rows that may come first under         *)
(* ORDER BY load DESC: those with the highest load, ties in any order.     *)
(***************************************************************************)
ServersByUtilization(rows, maxLoad) ==
  {i \in DOMAIN rows : rows[i].load < maxLoad /\ rows[i].state = GSStateReady}

FirstByUtilization(rows, maxLoad) ==
  {i \in ServersByUtilization(rows, maxLoad) :
     \A j \in ServersByUtilization(rows, maxLoad) : rows[j].load =< rows[i].load}
=============================================================================
