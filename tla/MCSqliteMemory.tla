--------------------------- MODULE MCSqliteMemory ---------------------------
(* Finite instances of SqliteMemory for TLC.                               *)
EXTENDS SqliteMemory, TLC

(* Messages and threads are interchangeable in the safety properties.      *)
Symmetry == Permutations(Msg) \cup Permutations(Thread)
=============================================================================
