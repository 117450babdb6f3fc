-------------------------- MODULE MCReconciliation --------------------------
(* Values for Reconciliation's constants; the .cfg files choose the instance. *)
EXTENDS Reconciliation, TLC

Interchangeable == Permutations(Caller) \cup Permutations(Task)
=============================================================================
