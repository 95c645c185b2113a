---------------------------- MODULE MCGameServer ----------------------------
(***************************************************************************)
(* Small instances of GameServer.  Connections are interchangeable.        *)
(***************************************************************************)
EXTENDS GameServer, TLC

Symmetry == Permutations(Conns)
=============================================================================
