------------------------- MODULE MCOutboxProcessing -------------------------
(* Instances of OutboxProcessing for TLC. *)
EXTENDS OutboxProcessing, TLC

\* Processes are interchangeable.
WorkerSymmetry == Permutations(Workers)
=============================================================================
