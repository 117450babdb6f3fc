-------------------------- MODULE MCOrderLifecycle --------------------------
(* Small instances of the lifecycle registry for TLC. *)
EXTENDS OrderLifecycle, TLC

\* Workers and order ids are interchangeable, and so are lifecycles.
Interchangeable == Permutations(Worker) \cup Permutations(OrderId) \cup Permutations(Lifecycle)
=============================================================================
