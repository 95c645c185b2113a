---------------------------- MODULE MCMatchMaking ----------------------------
(***************************************************************************)
(* Small instances of MatchMaking.  Connections are interchangeable.       *)
(***************************************************************************)
EXTENDS MatchMaking, TLC

Symmetry == Permutations(Conns)
=============================================================================
