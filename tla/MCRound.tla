------------------------------- MODULE MCRound -------------------------------
(***************************************************************************)
(* Round for TLC: the users are interchangeable.                           *)
(***************************************************************************)
EXTENDS RoundRefinement, TLC

Symmetry == Permutations(Users)
=============================================================================
