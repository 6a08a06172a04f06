---------------------------- MODULE MCRedelivery ----------------------------
(* Instances of Redelivery for TLC. *)
EXTENDS Redelivery, TLC

\* Processes are interchangeable.
WorkerSymmetry == Permutations(Workers)
=============================================================================
