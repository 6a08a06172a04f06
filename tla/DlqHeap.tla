------------------------------ MODULE DlqHeap ------------------------------
(***************************************************************************)
(* The failure counters of the dead letter queue: one Redis sorted set     *)
(* shared by every process, with one command or script per operation.      *)
(***************************************************************************)
EXTENDS OutboxConfig

VARIABLE heap     \* the score of each member, 0 when it is not in the set

HeapTypeOK == heap \in [Events -> 0..MaxFailures]

HeapInit == heap = [e \in Events |-> 0]

\* One more failure, up to the bound.
CountUp(n) == IF n < MaxFailures THEN n + 1 ELSE n

\* ZINCRBY 1
RecordFailure(e) == heap' = [heap EXCEPT ![e] = CountUp(heap[e])]

\* ZREM
RecordSuccess(e) == heap' = [heap EXCEPT ![e] = 0]

\* Mutant: one failure too early.
ExceededEarly == {e \in Events : heap[e] > 0 /\ heap[e] + 1 >= Threshold}

\* ZRANGEBYSCORE threshold +inf: a member's score is at least 1, so that a
\* threshold of 0 is a threshold of 1.
Exceeded == {e \in Events : heap[e] > 0 /\ heap[e] >= Threshold}

\* What the script returns: the count of every member it selects.
DrainedEntries == [e \in Events |-> IF e \in Exceeded THEN heap[e] ELSE 0]

\* The ZREMRANGEBYSCORE of the same script.
DrainExceeded == heap' = [e \in Events |-> IF e \in Exceeded THEN 0 ELSE heap[e]]
=============================================================================
