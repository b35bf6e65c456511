------------------------------ MODULE MCRoyalty ------------------------------
(***************************************************************************)
(* Royalty for TLC: the users who may stake are interchangeable, where all *)
(* of them are among Mixers and Voters.                                    *)
(***************************************************************************)
EXTENDS RoyaltyRefinement, TLC

Symmetry == Permutations(Users \ {Owner, Host})
=============================================================================
