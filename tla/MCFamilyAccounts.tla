-------------------------- MODULE MCFamilyAccounts --------------------------
(* Finite instances of FamilyAccounts for TLC.                             *)
EXTENDS FamilyAccounts, TLC

(* Identities are interchangeable in the safety properties.                *)
Symmetry ==
  Permutations(Thread) \cup Permutations(Email) \cup Permutations(User)
    \cup Permutations(Family)
=============================================================================
