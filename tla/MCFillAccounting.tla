-------------------------- MODULE MCFillAccounting --------------------------
(* Values for FillAccounting's constants; the .cfg files choose the instance. *)
EXTENDS FillAccounting, TLC

Threads == Permutations(Thread)
=============================================================================
