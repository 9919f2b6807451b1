----------------------------- MODULE MCLTMemory -----------------------------
(* Finite instances of LTMemory for TLC.                                   *)
EXTENDS LTMemory

(* Conversations are interchangeable in the safety properties.             *)
Symmetry == Permutations(Conv) \cup Permutations(Worker)
=============================================================================
