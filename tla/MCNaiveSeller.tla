---------------------------- MODULE MCNaiveSeller ----------------------------
(***************************************************************************)
(* Instances of NaiveSeller for TLC.                                       *)
(***************************************************************************)
EXTENDS NaiveSeller, TLC

Symmetry == Permutations(Threads) \cup Permutations(Reqs)
=============================================================================
