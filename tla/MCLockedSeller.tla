---------------------------- MODULE MCLockedSeller ----------------------------
(***************************************************************************)
(* Instances of LockedSeller for TLC.                                      *)
(***************************************************************************)
EXTENDS LockedSeller, TLC

Symmetry == Permutations(Threads) \cup Permutations(Reqs) \cup Permutations(Users)
=============================================================================
