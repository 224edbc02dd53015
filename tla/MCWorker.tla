------------------------------ MODULE MCWorker ------------------------------
(***************************************************************************)
(* A small instance of the state of a worker.                              *)
(***************************************************************************)
EXTENDS Worker, TLC

Symmetry == Permutations(Threads) \union Permutations(Kids)
=============================================================================
