------------------------------- MODULE MCCon3 -------------------------------
(* What the model checker needs for Con3.                                    *)
EXTENDS Con3, TLC

(* The searchers are alike, and so are the inserters. *)
Alike == Permutations(Searchers) \cup Permutations(Inserters)
=============================================================================
