--------------------------- MODULE MCOutboxSystem ---------------------------
(* Instances of OutboxSystem for TLC. *)
EXTENDS OutboxSystem, TLC

CONSTANTS w1, w2

\* The examples without a dead letter queue beside a process built with one.
Deployment ==
    (w1 :> {DeduplicationExample})
    @@ (w2 :> {Service, InMemoryExample})
=============================================================================
