--------------------------- MODULE MCFamilyMemory ---------------------------
(* Finite instances of FamilyMemory for TLC.                               *)
EXTENDS FamilyMemory

(* Members and turns are interchangeable in the safety properties.         *)
Symmetry == Permutations(User) \cup Permutations(Turn)
=============================================================================
