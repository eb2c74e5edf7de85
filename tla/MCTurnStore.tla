---------------------------- MODULE MCTurnStore ----------------------------
(* Sessions, writers and words are interchangeable. *)
EXTENDS TurnStore, TLC

Symmetry == Permutations(Sessions) \cup Permutations(Writers) \cup Permutations(Words)
=============================================================================
