------------------------------ MODULE MCGate ------------------------------
(* The gate for TLC: the threads are interchangeable. *)
EXTENDS Gate, TLC

Interchangeable == Permutations(Calls)
=============================================================================
