---------------------------- MODULE MCSellerStatus ----------------------------
(***************************************************************************)
(* Instances of SellerStatus for TLC.                                      *)
(***************************************************************************)
EXTENDS SellerStatus, TLC

Symmetry == Permutations(Threads) \cup Permutations(Reqs) \cup Permutations(Users)
=============================================================================
