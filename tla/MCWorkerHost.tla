---------------------------- MODULE MCWorkerHost ----------------------------
(* Finite instances of WorkerHost for TLC.                                 *)
EXTENDS WorkerHost, TLC

(* Workers, types and requests are interchangeable in the safety           *)
(* properties.                                                             *)
Symmetry == Permutations(Client) \cup Permutations(Type) \cup Permutations(Request)
=============================================================================
