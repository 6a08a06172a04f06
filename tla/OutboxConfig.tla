---------------------------- MODULE OutboxConfig ----------------------------
(***************************************************************************)
(* The settings of OutboxConfig that the storage, the counters and the     *)
(* processing loops read, the actors of a deployment, and the bounds of    *)
(* the model.  Intervals and timeouts are in ticks of one clock.           *)
(***************************************************************************)
EXTENDS Integers, FiniteSets

CONSTANTS
    Events,       \* the ids the producers will ever draw (UUIDs are never reused)
    BatchSize,    \* batch_size
    LockTimeout,  \* lock_timeout_mins
    Retention,    \* retention_days
    Threshold     \* dlq_threshold

CONSTANTS
    GcLimit,      \* the LIMIT of one garbage collection, 5000 in the SQL
    Horizon,      \* bound: how long ago two expired leases are told apart
    MaxFailures   \* bound: a failure counter stops there

ASSUME ConfigAssumption ==
    /\ BatchSize \in Nat
    /\ LockTimeout \in Nat
    /\ Retention \in Nat
    /\ Threshold \in Nat
    /\ GcLimit \in Nat
    /\ Horizon \in Nat
    /\ MaxFailures \in Nat
=============================================================================
