---------------------- MODULE OutboxProcessing_proofs ----------------------
(***************************************************************************)
(* Proofs about OutboxProcessing, for any number of events and processes,  *)
(* any settings, any faults, and any values of the bounds.                 *)
(***************************************************************************)
EXTENDS OutboxProcessing, TLAPS

USE ConfigAssumption, ProcessingAssumption

-----------------------------------------------------------------------------
(* Type correctness. *)

\* The empty table and the empty set of counters are well typed.
LEMMA InitTypeOK == Init => TypeOK
BY DEF Init, TableInit, HeapInit, TypeOK, TableTypeOK, HeapTypeOK, Statuses,
       OldestLock, Epoch, TooOld, NoEntries

\* Each statement on the tables keeps their types.
LEMMA ClaimType ==
  ASSUME TableTypeOK, NEW S, Claim(S) PROVE TableTypeOK'
BY DEF TableTypeOK, Claim, Statuses, Epoch, OldestLock, TooOld

\* INSERT.
LEMMA InsertType ==
  ASSUME TableTypeOK, NEW e, InsertEvent(e) PROVE TableTypeOK'
BY DEF TableTypeOK, InsertEvent, Statuses

\* update_status.
LEMMA UpdateStatusType ==
  ASSUME TableTypeOK, NEW ids, UpdateStatus(ids) PROVE TableTypeOK'
BY DEF TableTypeOK, UpdateStatus, Statuses

\* delete_garbage.
LEMMA DeleteGarbageType ==
  ASSUME TableTypeOK, DeleteGarbage PROVE TableTypeOK'
BY DEF TableTypeOK, DeleteGarbage, Statuses

\* quarantine_events, for counts that are natural numbers.
LEMMA QuarantineType ==
  ASSUME TableTypeOK, NEW entries \in [Events -> Nat], QuarantineEvents(entries)
  PROVE TableTypeOK'
BY DEF TableTypeOK, QuarantineEvents, Statuses

\* The clock: lease and age stop at their bounds.
LEMMA PassTimeType ==
  ASSUME TableTypeOK, PassTime PROVE TableTypeOK'
BY DEF TableTypeOK, PassTime, Statuses, Epoch, OldestLock, TooOld

\* ... and each operation on the counters keeps theirs.
LEMMA RecordType ==
  ASSUME HeapTypeOK, NEW w, CountOutcome(w) PROVE HeapTypeOK'
BY DEF HeapTypeOK, CountOutcome, RecordSuccess, RecordFailure, CountUp

\* drain_exceeded hands over counts of the counters' type.
LEMMA DrainType ==
  ASSUME HeapTypeOK, DrainExceeded
  PROVE HeapTypeOK' /\ DrainedEntries \in [Events -> 0..MaxFailures]
BY DEF HeapTypeOK, DrainExceeded, DrainedEntries

\* Every step of every process keeps the types.
LEMMA StepTypeOK == TypeOK /\ [Next]_vars => TypeOK'
<1> SUFFICES ASSUME TypeOK, [Next]_vars PROVE TypeOK'
  OBVIOUS
<1> USE DEF TypeOK
<1>1. CASE UNCHANGED vars
  BY <1>1 DEF vars, tableVars, workerVars, TableTypeOK, HeapTypeOK, Statuses
<1>2. ASSUME NEW e \in Events, Insert(e) PROVE TypeOK'
  BY <1>2, InsertType DEF Insert, workerVars, HeapTypeOK
<1>3. ASSUME NEW w \in Workers, Fetch(w) PROVE TypeOK'
  <2>1. PICK S \in Batches(w) :
          /\ Claim(S)
          /\ todo' = [todo EXCEPT ![w] = S]
          /\ pc' = [pc EXCEPT ![w] = IF S = {} THEN "idle" ELSE "publish"]
          /\ lease' = [lease EXCEPT ![w] = IF S = {} THEN @ ELSE LockTimeout]
    BY <1>3 DEF Fetch
  <2>2. S \subseteq Events
    BY DEF Batches, Oldest, Claimable
  <2>3. TableTypeOK'
    BY <2>1, ClaimType
  <2> QED
    BY <1>3, <2>1, <2>2, <2>3 DEF Fetch, HeapTypeOK
<1>4. ASSUME NEW w \in Workers, PublishOk(w) PROVE TypeOK'
  BY <1>4 DEF PublishOk, Acknowledged, EndPublish, After, tableVars, TableTypeOK, HeapTypeOK
<1>5. ASSUME NEW w \in Workers, PublishErr(w) PROVE TypeOK'
  BY <1>5 DEF PublishErr, Unacknowledged, Acknowledged, EndPublish, After, CountUp,
              tableVars, TableTypeOK, HeapTypeOK
<1>6. ASSUME NEW w \in Workers, Record(w) PROVE TypeOK'
  BY <1>6, RecordType DEF Record, After, tableVars, TableTypeOK
<1>7. ASSUME NEW w \in Workers, Mark(w) PROVE TypeOK'
  BY <1>7, UpdateStatusType DEF Mark, DropBatch, HeapTypeOK
<1>8. ASSUME NEW w \in Workers, Drain(w) PROVE TypeOK'
  BY <1>8, DrainType DEF Drain, workerVars, tableVars, TableTypeOK
<1>9. ASSUME NEW w \in Workers, Quarantine(w) PROVE TypeOK'
  <2>1. drained[w] \in [Events -> Nat]
    OBVIOUS
  <2>2. TableTypeOK'
    BY <1>9, <2>1, QuarantineType DEF Quarantine
  <2> QED
    BY <1>9, <2>2 DEF Quarantine, workerVars, HeapTypeOK, NoEntries
<1>10. ASSUME NEW w \in Workers, Break(w) PROVE TypeOK'
  <2>1. faults' \in 0..MaxFaults
    BY <1>10 DEF Break, FetchFails, RecordFails, MarkFails, DrainFails, QuarantineFails,
                 Crash, Leave, Fault, Possible
  <2>2. CASE FetchFails(w)
    <3>1. TableTypeOK'
      BY <2>2, ClaimType DEF FetchFails
    <3> QED
      BY <2>1, <2>2, <3>1 DEF FetchFails, workerVars, HeapTypeOK
  <2>3. CASE RecordFails(w)
    <3>1. HeapTypeOK'
      BY <2>3, RecordType DEF RecordFails, HeapTypeOK
    <3> QED
      BY <2>1, <2>3, <3>1 DEF RecordFails, DropBatch, tableVars, TableTypeOK
  <2>4. CASE MarkFails(w)
    <3>1. TableTypeOK'
      BY <2>4, UpdateStatusType DEF MarkFails, tableVars, TableTypeOK
    <3> QED
      BY <2>1, <2>4, <3>1 DEF MarkFails, DropBatch, HeapTypeOK
  <2>5. CASE DrainFails(w)
    <3>1. HeapTypeOK'
      BY <2>5, DrainType DEF DrainFails, HeapTypeOK
    <3> QED
      BY <2>1, <2>5, <3>1 DEF DrainFails, workerVars, tableVars, TableTypeOK
  <2>6. CASE QuarantineFails(w)
    <3>1. drained[w] \in [Events -> Nat]
      OBVIOUS
    <3>2. TableTypeOK'
      BY <2>6, <3>1, QuarantineType DEF QuarantineFails, tableVars, TableTypeOK
    <3> QED
      BY <2>1, <2>6, <3>2 DEF QuarantineFails, workerVars, HeapTypeOK, NoEntries
  <2>7. CASE Abandon(w)
    BY <2>1, <2>7 DEF Abandon, DropBatch, tableVars, TableTypeOK, HeapTypeOK, NoEntries
  <2> QED
    BY <1>10, <2>2, <2>3, <2>4, <2>5, <2>6, <2>7 DEF Break, Crash, Leave
<1>11. ASSUME CollectGarbage PROVE TypeOK'
  BY <1>11, DeleteGarbageType DEF CollectGarbage, workerVars, HeapTypeOK
<1>12. ASSUME Tick PROVE TypeOK'
  BY <1>12, PassTimeType DEF Tick, HeapTypeOK
<1> QED
  BY <1>1, <1>2, <1>3, <1>4, <1>5, <1>6, <1>7, <1>8, <1>9, <1>10, <1>11, <1>12
     DEF Next, Work, Reap

\* Every variable keeps its type, through every call that fails half way.
THEOREM TypeCorrect == Spec => []TypeOK
BY InitTypeOK, StepTypeOK, PTL DEF Spec

-----------------------------------------------------------------------------
(* The inductive invariant, one action at a time. *)

\* Nothing is recorded, held or counted at first.
LEMMA InitInv == Init => Inv
<1> SUFFICES ASSUME Init PROVE Inv
  OBVIOUS
<1>1. TypeOK
  BY InitTypeOK
<1> QED
  BY <1>1 DEF Init, TableInit, HeapInit, Inv, RowsInv, NoLoss, SentIsDelivered, OneHome,
              HandsInv, LeaseInv, LeaseExclusion, Held, CountsInv, NoEntries

\* A new row was in nobody's hands before.
LEMMA InsertInv ==
  ASSUME Inv, TypeOK', NEW e \in Events, Insert(e) PROVE Inv'
<1> USE DEF Inv
<1>1. RowsInv'
  BY DEF RowsInv, NoLoss, SentIsDelivered, OneHome, TypeOK, TableTypeOK, HeapTypeOK,
         Insert, InsertEvent, workerVars
<1>2. HandsInv'
  BY DEF HandsInv, Held, TypeOK, TableTypeOK, HeapTypeOK, Insert, InsertEvent,
         workerVars
<1>3. LeaseInv'
  BY DEF LeaseInv, LeaseExclusion, Held, TypeOK, TableTypeOK, HeapTypeOK, HandsInv,
         Insert, InsertEvent, workerVars
<1>4. CountsInv'
  BY DEF CountsInv, TypeOK, TableTypeOK, HeapTypeOK, Insert, InsertEvent, workerVars
<1> QED
  BY <1>1, <1>2, <1>3, <1>4

\* A claim takes only rows that no unexpired lease covers.
LEMMA FetchInv ==
  ASSUME Inv, TypeOK', NEW w \in Workers, Fetch(w) PROVE Inv'
<1> USE DEF Inv
<1>1. RowsInv'
  BY DEF RowsInv, NoLoss, SentIsDelivered, OneHome, Fetch, Claim, Batches, Oldest,
         Claimable
<1>2. HandsInv'
  BY DEF HandsInv, Held, TypeOK, TableTypeOK, HeapTypeOK, Fetch, Claim, Batches,
         Oldest, Claimable
<1>3. LeaseInv'
  <2>1. PICK S \in Batches(w) :
          /\ Claim(S)
          /\ todo' = [todo EXCEPT ![w] = S]
          /\ lease' = [lease EXCEPT ![w] = IF S = {} THEN @ ELSE LockTimeout]
    BY DEF Fetch
  <2>2. S \subseteq Claimable
    BY DEF Batches, Oldest
  <2>3. \A v \in Workers : \A e \in S \cap Held(v) : lease[v] < 0
    <3> SUFFICES ASSUME NEW v \in Workers, NEW e \in S \cap Held(v), ~(lease[v] < 0)
                 PROVE FALSE
      OBVIOUS
    <3>1. e \in Events /\ status[e] = "Processing" /\ lock[e] < 0
      BY <2>2 DEF Claimable, HandsInv
    <3>2. lease[v] >= 0
      BY DEF TypeOK
    <3>3. lock[e] = lease[v]
      BY <3>1, <3>2 DEF LeaseInv
    <3> QED
      BY <3>1, <3>2, <3>3
  <2>4. Held(w)' = S
    BY <2>1 DEF Fetch, HandsInv, Held, TypeOK
  <2>5. \A v \in Workers \ {w} : Held(v)' = Held(v) /\ lease'[v] = lease[v]
    BY <2>1 DEF Fetch, Held, TypeOK
  <2>6. LeaseExclusion'
    BY <2>3, <2>4, <2>5 DEF LeaseInv, LeaseExclusion
  <2>7. ASSUME NEW v \in Workers, NEW e \in Held(v)', lease'[v] >= 0, status'[e] = "Processing"
        PROVE lock'[e] = lease'[v]
    <3>1. CASE v = w
      BY <3>1, <2>1, <2>4, <2>7 DEF Claim, Batches, Oldest, Claimable, TypeOK
    <3>2. CASE v # w
      <4>1. e \in Held(v) /\ e \notin S /\ lease[v] >= 0
        BY <3>2, <2>3, <2>5, <2>7 DEF TypeOK
      <4> QED
        BY <4>1, <3>2, <2>1, <2>5, <2>7 DEF Claim, LeaseInv, Held, TypeOK, TableTypeOK
    <3> QED
      BY <3>1, <3>2
  <2> QED
    BY <2>6, <2>7 DEF LeaseInv
<1>4. CountsInv'
  BY DEF CountsInv, TypeOK, TableTypeOK, HeapTypeOK, Fetch, Claim, Batches, Oldest,
         Claimable
<1> QED
  BY <1>1, <1>2, <1>3, <1>4

\* success_ids grows by what the broker has just accepted.
LEMMA PublishOkInv ==
  ASSUME Inv, TypeOK', NEW w \in Workers, PublishOk(w) PROVE Inv'
<1> USE DEF Inv
<1>1. RowsInv'
  BY DEF RowsInv, NoLoss, SentIsDelivered, OneHome, TypeOK, TableTypeOK, HeapTypeOK,
         PublishOk, Acknowledged, EndPublish, After, tableVars
<1>2. HandsInv'
  BY DEF HandsInv, Held, TypeOK, TableTypeOK, HeapTypeOK, PublishOk, Acknowledged, EndPublish,
         After, tableVars
<1>3. LeaseInv'
  BY DEF LeaseInv, LeaseExclusion, Held, TypeOK, TableTypeOK, HeapTypeOK, PublishOk, Acknowledged,
         EndPublish, After, tableVars
<1>4. CountsInv'
  BY DEF CountsInv, PublishOk, Acknowledged, EndPublish, After, tableVars
<1> QED
  BY <1>1, <1>2, <1>3, <1>4

\* A publish that failed adds nothing to success_ids.
LEMMA PublishErrInv ==
  ASSUME Inv, TypeOK', NEW w \in Workers, PublishErr(w) PROVE Inv'
<1> USE DEF Inv
<1>1. RowsInv'
  BY DEF RowsInv, NoLoss, SentIsDelivered, OneHome, TypeOK, TableTypeOK, HeapTypeOK,
         PublishErr, Unacknowledged, Acknowledged, EndPublish, After, tableVars
<1>2. HandsInv'
  BY DEF HandsInv, Held, TypeOK, TableTypeOK, HeapTypeOK, PublishErr, Unacknowledged,
         Acknowledged, EndPublish,
         After, tableVars
<1>3. LeaseInv'
  BY DEF LeaseInv, LeaseExclusion, Held, TypeOK, TableTypeOK, HeapTypeOK,
         PublishErr, Unacknowledged, Acknowledged, EndPublish, After, tableVars
<1>4. CountsInv'
  BY DEF CountsInv, PublishErr, Unacknowledged, Acknowledged, EndPublish, After, tableVars
<1> QED
  BY <1>1, <1>2, <1>3, <1>4

\* Counting the outcome touches no row, and counts claimed rows only.
LEMMA RecordInv ==
  ASSUME Inv, TypeOK', NEW w \in Workers, Record(w) PROVE Inv'
<1> USE DEF Inv
<1>1. RowsInv'
  BY DEF RowsInv, NoLoss, SentIsDelivered, OneHome, Record, After, CountOutcome,
         RecordSuccess, RecordFailure, CountUp, tableVars
<1>2. HandsInv'
  BY DEF HandsInv, Held, TypeOK, TableTypeOK, HeapTypeOK, Record, After,
         CountOutcome, RecordSuccess, RecordFailure, CountUp, tableVars
<1>3. LeaseInv'
  BY DEF LeaseInv, LeaseExclusion, Held, TypeOK, TableTypeOK, HeapTypeOK, Record,
         After, CountOutcome, RecordSuccess, RecordFailure, CountUp, tableVars
<1>4. CountsInv'
  <2>1. PICK e \in counting[w] : RecordSuccess(e) \/ RecordFailure(e)
    BY DEF Record, CountOutcome
  <2>2. e \in Held(w) /\ status[e] \notin {"New", "Pending"}
    BY <2>1 DEF HandsInv, Held
  <2>3. \A f \in Events : heap'[f] > 0 => heap[f] > 0 \/ f = e
    BY <2>1 DEF RecordSuccess, RecordFailure, CountUp, TypeOK, HeapTypeOK
  <2> QED
    BY <2>2, <2>3 DEF CountsInv, Record, tableVars
<1> QED
  BY <1>1, <1>2, <1>3, <1>4

\* Only delivered events are marked.
LEMMA MarkInv ==
  ASSUME Inv, TypeOK', NEW w \in Workers, Mark(w) PROVE Inv'
<1> USE DEF Inv
<1>1. RowsInv'
  BY DEF RowsInv, NoLoss, SentIsDelivered, OneHome, TypeOK, TableTypeOK, HeapTypeOK,
         HandsInv, Mark, DropBatch, UpdateStatus, InTable
<1>2. HandsInv'
  BY DEF HandsInv, Held, TypeOK, TableTypeOK, HeapTypeOK, Mark, DropBatch,
         UpdateStatus, InTable
<1>3. LeaseInv'
  BY DEF LeaseInv, LeaseExclusion, Held, TypeOK, TableTypeOK, HeapTypeOK, Mark,
         DropBatch, UpdateStatus, InTable
<1>4. CountsInv'
  BY DEF CountsInv, TypeOK, TableTypeOK, HeapTypeOK, Mark, DropBatch, UpdateStatus,
         InTable
<1> QED
  BY <1>1, <1>2, <1>3, <1>4

\* What the reaper takes over has reached the threshold.
LEMMA DrainInv ==
  ASSUME Inv, TypeOK', NEW w \in Workers, Drain(w) PROVE Inv'
<1> USE DEF Inv
<1>1. RowsInv'
  BY DEF RowsInv, NoLoss, SentIsDelivered, OneHome, Drain, DrainExceeded,
         DrainedEntries, Exceeded, tableVars, workerVars
<1>2. HandsInv'
  BY DEF HandsInv, Held, TypeOK, TableTypeOK, Drain, DrainExceeded, DrainedEntries,
         Exceeded, tableVars, workerVars
<1>3. LeaseInv'
  BY DEF LeaseInv, LeaseExclusion, Held, Drain, DrainExceeded, DrainedEntries,
         Exceeded, tableVars, workerVars
<1>4. CountsInv'
  BY DEF CountsInv, TypeOK, TableTypeOK, HeapTypeOK, Drain, DrainExceeded,
         DrainedEntries, Exceeded, tableVars, workerVars
<1> QED
  BY <1>1, <1>2, <1>3, <1>4

\* A row that leaves by quarantine leaves a dead letter.
LEMMA QuarantineInv ==
  ASSUME Inv, TypeOK', NEW w \in Workers, Quarantine(w) PROVE Inv'
<1> USE DEF Inv
<1>1. RowsInv'
  BY DEF RowsInv, NoLoss, SentIsDelivered, OneHome, TypeOK, TableTypeOK, HeapTypeOK,
         CountsInv, Quarantine, QuarantineEvents, InTable, NoEntries, workerVars
<1>2. HandsInv'
  BY DEF HandsInv, Held, TypeOK, TableTypeOK, Quarantine, QuarantineEvents, InTable,
         NoEntries, workerVars
<1>3. LeaseInv'
  BY DEF LeaseInv, LeaseExclusion, Held, TypeOK, TableTypeOK, HeapTypeOK,
         Quarantine, QuarantineEvents, InTable, NoEntries, workerVars
<1>4. CountsInv'
  BY DEF CountsInv, TypeOK, TableTypeOK, HeapTypeOK, Quarantine, QuarantineEvents,
         InTable, NoEntries, workerVars
<1> QED
  BY <1>1, <1>2, <1>3, <1>4

\* Rows claimed for nobody.
LEMMA FetchFailsInv ==
  ASSUME Inv, TypeOK', NEW w \in Workers, FetchFails(w) PROVE Inv'
<1> USE DEF Inv
<1>1. RowsInv'
  BY DEF RowsInv, NoLoss, SentIsDelivered, OneHome, FetchFails, Claim, Batches,
         Oldest, Claimable, workerVars
<1>2. HandsInv'
  BY DEF HandsInv, Held, TypeOK, TableTypeOK, FetchFails, Claim, Batches, Oldest,
         Claimable, workerVars
<1>3. LeaseInv'
  BY DEF LeaseInv, LeaseExclusion, Held, TypeOK, TableTypeOK, HeapTypeOK, HandsInv,
         FetchFails, Claim, Batches, Oldest, Claimable, workerVars
<1>4. CountsInv'
  BY DEF CountsInv, FetchFails, Claim, Batches, Oldest, Claimable, workerVars
<1> QED
  BY <1>1, <1>2, <1>3, <1>4

\* A batch dropped on a counter error leaves its rows as they were claimed.
LEMMA RecordFailsInv ==
  ASSUME Inv, TypeOK', NEW w \in Workers, RecordFails(w) PROVE Inv'
<1> USE DEF Inv
<1>1. RowsInv'
  BY DEF RowsInv, NoLoss, SentIsDelivered, OneHome, RecordFails, DropBatch,
         CountOutcome, RecordSuccess, RecordFailure, CountUp, tableVars
<1>2. HandsInv'
  BY DEF HandsInv, Held, TypeOK, TableTypeOK, HeapTypeOK, RecordFails, DropBatch,
         CountOutcome, RecordSuccess, RecordFailure, CountUp, tableVars
<1>3. LeaseInv'
  BY DEF LeaseInv, LeaseExclusion, Held, TypeOK, TableTypeOK, HeapTypeOK,
         RecordFails, DropBatch, CountOutcome, RecordSuccess, RecordFailure,
         CountUp, tableVars
<1>4. CountsInv'
  <2>1. CASE UNCHANGED heap
    BY <2>1 DEF CountsInv, RecordFails, tableVars
  <2>2. CASE CountOutcome(w)
    BY <2>2 DEF CountsInv, HandsInv, Held, RecordFails, CountOutcome, RecordSuccess,
                RecordFailure, CountUp, tableVars, TypeOK, HeapTypeOK
  <2> QED
    BY <2>1, <2>2 DEF RecordFails
<1> QED
  BY <1>1, <1>2, <1>3, <1>4

\* update_status failed, before or after it was applied.
LEMMA MarkFailsInv ==
  ASSUME Inv, TypeOK', NEW w \in Workers, MarkFails(w) PROVE Inv'
<1> USE DEF Inv
<1>1. RowsInv'
  <2>1. CASE UNCHANGED tableVars
    BY <2>1 DEF RowsInv, NoLoss, SentIsDelivered, OneHome, MarkFails, tableVars
  <2>2. CASE UpdateStatus(successes[w])
    BY <2>2 DEF RowsInv, NoLoss, SentIsDelivered, OneHome, HandsInv, MarkFails,
                UpdateStatus, InTable, TypeOK, TableTypeOK
  <2> QED
    BY <2>1, <2>2 DEF MarkFails
<1>2. HandsInv'
  BY DEF HandsInv, Held, TypeOK, TableTypeOK, HeapTypeOK, MarkFails, DropBatch,
         UpdateStatus, InTable, tableVars
<1>3. LeaseInv'
  BY DEF LeaseInv, LeaseExclusion, Held, TypeOK, TableTypeOK, HeapTypeOK, MarkFails,
         DropBatch, UpdateStatus, InTable, tableVars
<1>4. CountsInv'
  BY DEF CountsInv, TypeOK, TableTypeOK, HeapTypeOK, MarkFails, DropBatch,
         UpdateStatus, InTable, tableVars
<1> QED
  BY <1>1, <1>2, <1>3, <1>4

\* Counters that were drained in vain are gone, and nothing else.
LEMMA DrainFailsInv ==
  ASSUME Inv, TypeOK', NEW w \in Workers, DrainFails(w) PROVE Inv'
<1> USE DEF Inv
<1>1. RowsInv'
  BY DEF RowsInv, NoLoss, SentIsDelivered, OneHome, DrainFails, DrainExceeded,
         Exceeded, tableVars, workerVars
<1>2. HandsInv'
  BY DEF HandsInv, Held, TypeOK, TableTypeOK, DrainFails, DrainExceeded, Exceeded,
         tableVars, workerVars
<1>3. LeaseInv'
  BY DEF LeaseInv, LeaseExclusion, Held, DrainFails, DrainExceeded, Exceeded,
         tableVars, workerVars
<1>4. CountsInv'
  BY DEF CountsInv, TypeOK, TableTypeOK, HeapTypeOK, DrainFails, DrainExceeded,
         Exceeded, tableVars, workerVars
<1> QED
  BY <1>1, <1>2, <1>3, <1>4

\* quarantine_events failed, before or after it was applied.
LEMMA QuarantineFailsInv ==
  ASSUME Inv, TypeOK', NEW w \in Workers, QuarantineFails(w) PROVE Inv'
<1> USE DEF Inv
<1>1. RowsInv'
  <2>1. CASE UNCHANGED tableVars
    BY <2>1 DEF RowsInv, NoLoss, SentIsDelivered, OneHome, QuarantineFails, tableVars
  <2>2. CASE QuarantineEvents(drained[w])
    BY <2>2 DEF RowsInv, NoLoss, SentIsDelivered, OneHome, CountsInv, QuarantineFails,
                QuarantineEvents, InTable, TypeOK, TableTypeOK
  <2> QED
    BY <2>1, <2>2 DEF QuarantineFails
<1>2. HandsInv'
  BY DEF HandsInv, Held, TypeOK, TableTypeOK, QuarantineFails, QuarantineEvents,
         InTable, NoEntries, workerVars, tableVars
<1>3. LeaseInv'
  BY DEF LeaseInv, LeaseExclusion, Held, TypeOK, TableTypeOK, HeapTypeOK,
         QuarantineFails, QuarantineEvents, InTable, NoEntries, workerVars,
         tableVars
<1>4. CountsInv'
  BY DEF CountsInv, TypeOK, TableTypeOK, HeapTypeOK, QuarantineFails,
         QuarantineEvents, InTable, NoEntries, workerVars, tableVars
<1> QED
  BY <1>1, <1>2, <1>3, <1>4

\* A process that dies or returns forgets what was in hand; the tables are as they were.
LEMMA AbandonInv ==
  ASSUME Inv, TypeOK', NEW w \in Workers, Abandon(w) PROVE Inv'
<1> USE DEF Inv
<1>1. RowsInv'
  BY DEF RowsInv, NoLoss, SentIsDelivered, OneHome, Abandon, DropBatch, NoEntries,
         tableVars
<1>2. HandsInv'
  BY DEF HandsInv, Held, TypeOK, TableTypeOK, HeapTypeOK, Abandon, DropBatch,
         NoEntries, tableVars
<1>3. LeaseInv'
  BY DEF LeaseInv, LeaseExclusion, Held, TypeOK, TableTypeOK, HeapTypeOK, Abandon,
         DropBatch, NoEntries, tableVars
<1>4. CountsInv'
  BY DEF CountsInv, TypeOK, TableTypeOK, HeapTypeOK, Abandon, DropBatch, NoEntries,
         tableVars
<1> QED
  BY <1>1, <1>2, <1>3, <1>4

\* Garbage is Sent, and what is Sent is delivered.
LEMMA CollectGarbageInv ==
  ASSUME Inv, TypeOK', CollectGarbage PROVE Inv'
<1> USE DEF Inv
<1>1. RowsInv'
  BY DEF RowsInv, NoLoss, SentIsDelivered, OneHome, CollectGarbage, DeleteGarbage,
         Garbage, workerVars
<1>2. HandsInv'
  BY DEF HandsInv, Held, TypeOK, TableTypeOK, CollectGarbage, DeleteGarbage,
         Garbage, workerVars
<1>3. LeaseInv'
  BY DEF LeaseInv, LeaseExclusion, Held, TypeOK, TableTypeOK, HeapTypeOK,
         CollectGarbage, DeleteGarbage, Garbage, workerVars
<1>4. CountsInv'
  BY DEF CountsInv, CollectGarbage, DeleteGarbage, Garbage, workerVars
<1> QED
  BY <1>1, <1>2, <1>3, <1>4

\* Both clocks, of the table and of the hand, run together.
LEMMA TickInv ==
  ASSUME Inv, TypeOK', Tick PROVE Inv'
<1> USE DEF Inv
<1>1. RowsInv'
  BY DEF RowsInv, NoLoss, SentIsDelivered, OneHome, Tick, PassTime, OldestLock
<1>2. HandsInv'
  BY DEF HandsInv, Held, TypeOK, TableTypeOK, Tick, PassTime, OldestLock
<1>3. LeaseInv'
  <2>1. \A v \in Workers : Held(v)' = Held(v)
    BY DEF Tick, Held
  <2>2. \A v \in Workers : lease'[v] >= 0 => lease[v] = lease'[v] + 1
    BY DEF Tick, TypeOK
  <2>3. LeaseExclusion'
    <3>1. ASSUME NEW v \in Workers, lease[v] < 0 PROVE lease'[v] < 0
      <4>1. lease[v] \in Int /\ lease'[v] \in Int
        BY DEF TypeOK
      <4>2. lease'[v] >= 0 => lease[v] = lease'[v] + 1
        BY <2>2
      <4> HIDE DEF Inv
      <4> QED
        BY <3>1, <4>1, <4>2
    <3> QED
      BY <2>1, <3>1 DEF LeaseInv, LeaseExclusion
  <2>4. ASSUME NEW v \in Workers, NEW e \in Held(v)', lease'[v] >= 0, status'[e] = "Processing"
        PROVE lock'[e] = lease'[v]
    <3>1. e \in Events /\ e \in Held(v) /\ status[e] = "Processing"
      BY <2>1, <2>4 DEF Tick, PassTime, Held, TypeOK
    <3>2. lock[e] = lease[v] /\ lease[v] >= 1
      BY <2>2, <2>4, <3>1 DEF LeaseInv, TypeOK
    <3>3. lock[e] > OldestLock
      BY <3>2 DEF OldestLock, TypeOK
    <3>4. lock'[e] = lock[e] - 1
      BY <3>1, <3>3 DEF Tick, PassTime
    <3>5. lease[v] = lease'[v] + 1 /\ lease'[v] \in Int
      BY <2>2, <2>4 DEF TypeOK
    <3> QED
      BY <3>2, <3>4, <3>5
  <2> QED
    BY <2>3, <2>4 DEF LeaseInv
<1>4. CountsInv'
  BY DEF CountsInv, TypeOK, TableTypeOK, HeapTypeOK, Tick, PassTime, OldestLock
<1> QED
  BY <1>1, <1>2, <1>3, <1>4

\* Every step of every process keeps the invariant.
LEMMA StepInv == Inv /\ [Next]_vars => Inv'
<1> SUFFICES ASSUME Inv, [Next]_vars PROVE Inv'
  OBVIOUS
<1>1. TypeOK'
  BY StepTypeOK DEF Inv
<1>2. CASE UNCHANGED vars
  BY <1>1, <1>2 DEF vars, tableVars, workerVars, Inv, RowsInv, NoLoss, SentIsDelivered, OneHome,
                    HandsInv, LeaseInv, LeaseExclusion, Held, CountsInv
<1>3. ASSUME NEW e \in Events, Insert(e) PROVE Inv'
  BY <1>1, <1>3, InsertInv
<1>4. ASSUME NEW w \in Workers, Work(w) PROVE Inv'
  BY <1>1, <1>4, FetchInv, PublishOkInv, PublishErrInv, RecordInv, MarkInv DEF Work
<1>5. ASSUME NEW w \in Workers, Reap(w) PROVE Inv'
  BY <1>1, <1>5, DrainInv, QuarantineInv DEF Reap
<1>6. ASSUME NEW w \in Workers, Break(w) PROVE Inv'
  BY <1>1, <1>6, FetchFailsInv, RecordFailsInv, MarkFailsInv, DrainFailsInv,
     QuarantineFailsInv, AbandonInv DEF Break, Crash, Leave
<1>7. ASSUME CollectGarbage \/ Tick PROVE Inv'
  BY <1>1, <1>7, CollectGarbageInv, TickInv
<1> QED
  BY <1>2, <1>3, <1>4, <1>5, <1>6, <1>7 DEF Next

\* The conjunction of the safety invariants is inductive: the tables, what each
\* process holds, its lease and the counters support one another.
THEOREM Invariant == Spec => []Inv
BY InitInv, StepInv, PTL DEF Spec

-----------------------------------------------------------------------------
(* The safety properties. *)

\* A recorded event is in the outbox, with the broker or in the dead letter
\* table, whatever calls fail and whatever processes die.
THEOREM NothingIsLost == Spec => []NoLoss
<1>1. Inv => NoLoss
  BY DEF Inv, RowsInv
<1> QED
  BY <1>1, Invariant, PTL

\* No row is Sent for an event that the broker has not accepted.
THEOREM SentMeansDelivered == Spec => []SentIsDelivered
<1>1. Inv => SentIsDelivered
  BY DEF Inv, RowsInv
<1> QED
  BY <1>1, Invariant, PTL

\* No event is in both tables.
THEOREM OneHomeOnly == Spec => []OneHome
<1>1. Inv => OneHome
  BY DEF Inv, RowsInv
<1> QED
  BY <1>1, Invariant, PTL

\* Two processes with the same event in hand do not both have an unexpired lease.
THEOREM LeasesExclude == Spec => []LeaseExclusion
<1>1. Inv => LeaseExclusion
  BY DEF Inv, LeaseInv
<1> QED
  BY <1>1, Invariant, PTL

-----------------------------------------------------------------------------
(* The steps of a row. *)

\* Under the invariant every step moves a row along its life, or not at all.
LEMMA StepLifecycle ==
  ASSUME Inv, [Next]_vars, NEW e \in Events
  PROVE RowStep(e)
<1> USE DEF RowStep, LegalSteps, Inv, TypeOK, TableTypeOK, Statuses
<1>1. CASE UNCHANGED vars
  BY <1>1 DEF vars, tableVars
<1>2. ASSUME NEW f \in Events, Insert(f)
      PROVE RowStep(e)
  BY <1>2 DEF Insert, InsertEvent
<1>3. ASSUME NEW w \in Workers, Fetch(w) \/ FetchFails(w)
      PROVE RowStep(e)
  BY <1>3 DEF Fetch, FetchFails, Claim, Batches, Oldest, Claimable
<1>4. ASSUME NEW w \in Workers, Mark(w) \/ MarkFails(w)
      PROVE RowStep(e)
  <2>1. \A f \in successes[w] : status[f] \notin {"New", "Pending"}
    BY DEF HandsInv, Held
  <2> QED
    BY <1>4, <2>1 DEF Mark, MarkFails, UpdateStatus, InTable, tableVars
<1>5. ASSUME NEW w \in Workers, Quarantine(w) \/ QuarantineFails(w)
      PROVE RowStep(e)
  <2>1. drained[w][e] > 0 => status[e] \notin {"New", "Pending"}
    BY DEF CountsInv
  <2>2. CASE QuarantineEvents(drained[w])
    BY <2>1, <2>2 DEF QuarantineEvents, InTable
  <2> QED
    BY <1>5, <2>2 DEF Quarantine, QuarantineFails, tableVars
<1>6. ASSUME CollectGarbage
      PROVE RowStep(e)
  BY <1>6 DEF CollectGarbage, DeleteGarbage, Garbage
<1>7. ASSUME NEW w \in Workers,
             \/ PublishOk(w) \/ PublishErr(w) \/ Record(w) \/ Drain(w)
             \/ RecordFails(w) \/ DrainFails(w) \/ Abandon(w)
      PROVE RowStep(e)
  BY <1>7 DEF PublishOk, PublishErr, Unacknowledged, Acknowledged, Record, Drain,
              RecordFails, DrainFails, Abandon, tableVars
<1>8. CASE Tick
  BY <1>8 DEF Tick, PassTime
<1> QED
  BY <1>1, <1>2, <1>3, <1>4, <1>5, <1>6, <1>7, <1>8
     DEF Next, Work, Reap, Break, Crash, Leave

\* A row takes only legal steps, in every interleaving.
THEOREM RowsLiveLegally == Spec => RowLifecycle
<1>1. Inv /\ [Next]_vars => [\A e \in Events : RowStep(e)]_vars
  BY StepLifecycle
<1> QED
  BY <1>1, Invariant, PTL DEF Spec, RowLifecycle

-----------------------------------------------------------------------------
(* The detailed system implements AtLeastOnce. *)

place == [e \in Events |-> PlaceOf(e)]

\* The empty table is the empty outbox of the abstract specification.
LEMMA InitPromise == Init => Promise!Init
BY DEF Init, TableInit, Promise!Init, PlaceOf

\* Every step is a step of AtLeastOnce or none of its business.
LEMMA StepPromise ==
  Inv /\ [Next]_vars => [Promise!Next]_<<place, delivered>>
<1> SUFFICES ASSUME Inv, [Next]_vars, ~ UNCHANGED <<place, delivered>> PROVE Promise!Next
  OBVIOUS
<1> USE DEF Inv, TypeOK, TableTypeOK, Statuses
<1>1. CASE UNCHANGED vars
  BY <1>1 DEF vars, tableVars, place, PlaceOf
<1>2. ASSUME NEW e \in Events, Insert(e) PROVE Promise!Next
  <2>1. PlaceOf(e) = "nowhere" /\ PlaceOf(e)' = "outbox"
    BY <1>2 DEF Insert, InsertEvent, PlaceOf
  <2>2. \A f \in Events \ {e} : PlaceOf(f)' = PlaceOf(f)
    BY <1>2 DEF Insert, InsertEvent, PlaceOf
  <2>3. place' = [place EXCEPT ![e] = "outbox"]
    BY <2>1, <2>2 DEF place
  <2>4. place[e] = "nowhere" /\ UNCHANGED delivered
    BY <1>2, <2>1 DEF place, Insert
  <2>5. Promise!Record(e)
    BY <2>3, <2>4 DEF Promise!Record, place
  <2> QED
    BY <2>5 DEF Promise!Next
<1>3. ASSUME NEW w \in Workers, PublishOk(w) \/ PublishErr(w) PROVE Promise!Next
  <2>1. UNCHANGED place
    BY <1>3 DEF PublishOk, PublishErr, Unacknowledged, Acknowledged, tableVars, place, PlaceOf
  <2>2. PICK e \in todo[w] : delivered' = delivered \cup {e}
    BY <1>3, <2>1 DEF PublishOk, PublishErr, Unacknowledged, Acknowledged
  <2>3. e \in Events /\ status[e] \notin {"New", "Pending"}
    BY <2>2 DEF HandsInv, Held
  <2>4. place[e] # "nowhere"
    BY <2>3 DEF place, PlaceOf
  <2>5. Promise!Deliver(e)
    BY <2>1, <2>2, <2>4 DEF Promise!Deliver, place
  <2> QED
    BY <2>3, <2>5 DEF Promise!Next
<1>4. ASSUME NEW w \in Workers, Fetch(w) \/ FetchFails(w) \/ Mark(w) \/ MarkFails(w)
      PROVE FALSE
  <2>1. UNCHANGED delivered
    BY <1>4 DEF Fetch, FetchFails, Mark, MarkFails
  <2>2. UNCHANGED dead
    BY <1>4 DEF Fetch, FetchFails, Mark, MarkFails, Claim, UpdateStatus, tableVars
  <2>3. \A e \in Events : PlaceOf(e)' = PlaceOf(e)
    <3> TAKE e \in Events
    <3>1. \/ status'[e] = status[e]
          \/ /\ status[e] \in {"Pending", "Processing"}
             /\ status'[e] \in {"Processing", "Sent"}
      BY <1>4, StepLifecycle DEF RowStep, Fetch, FetchFails, Mark, MarkFails, Claim,
         UpdateStatus,
         Batches, Oldest, Claimable, LegalSteps, InTable, tableVars
    <3> QED
      BY <2>2, <3>1 DEF PlaceOf
  <2> QED
    BY <2>1, <2>3 DEF place
<1>5. ASSUME NEW w \in Workers, Quarantine(w) \/ QuarantineFails(w) PROVE Promise!Next
  <2>1. UNCHANGED delivered
    BY <1>5 DEF Quarantine, QuarantineFails
  <2>2. QuarantineEvents(drained[w])
    BY <1>5, <2>1 DEF Quarantine, QuarantineFails, tableVars, place, PlaceOf
  <2> DEFINE S == {e \in InTable : drained[w][e] > 0}
  <2>3. Promise!Bury(S)
    <3>1. \A e \in S : PlaceOf(e) = "outbox"
      BY DEF InTable, PlaceOf
    <3>2. \A e \in Events : PlaceOf(e)' = IF e \in S THEN "deadLetters" ELSE PlaceOf(e)
      BY <2>2 DEF QuarantineEvents, InTable, PlaceOf
    <3> QED
      BY <2>1, <3>1, <3>2 DEF Promise!Bury, Promise!Move, InTable
  <2>4. S \in SUBSET Events
    BY DEF InTable
  <2> QED
    BY <2>3, <2>4 DEF Promise!Next
<1>6. ASSUME CollectGarbage PROVE Promise!Next
  <2>1. PICK S \in SUBSET Garbage :
          /\ status' = [e \in Events |-> IF e \in S THEN "Gone" ELSE status[e]]
          /\ UNCHANGED <<dead, delivered>>
    BY <1>6 DEF CollectGarbage, DeleteGarbage
  <2>2. S \subseteq delivered /\ \A e \in S : status[e] = "Sent" /\ dead[e] = 0
    <3> SUFFICES ASSUME NEW e \in S
                 PROVE  e \in delivered /\ status[e] = "Sent" /\ dead[e] = 0
      OBVIOUS
    <3>1. e \in Events /\ status[e] = "Sent"
      BY DEF Garbage
    <3>2. e \in delivered
      BY <3>1 DEF RowsInv, SentIsDelivered
    <3>3. dead[e] = 0
      BY <3>1 DEF RowsInv, OneHome
    <3> QED
      BY <3>1, <3>2, <3>3
  <2>3. \A e \in S : PlaceOf(e) = "outbox"
    BY <2>2 DEF PlaceOf
  <2>4. \A e \in Events : PlaceOf(e)' = IF e \in S THEN "forgotten" ELSE PlaceOf(e)
    BY <2>1, <2>2 DEF PlaceOf
  <2>5. Promise!Forget(S)
    BY <2>1, <2>2, <2>3, <2>4 DEF Promise!Forget, Promise!Move, Garbage
  <2> QED
    BY <2>5 DEF Promise!Next, Garbage
<1>7. ASSUME NEW w \in Workers,
             Record(w) \/ Drain(w) \/ RecordFails(w) \/ DrainFails(w) \/ Abandon(w)
      PROVE FALSE
  BY <1>7 DEF Record, Drain, RecordFails, DrainFails, Abandon, tableVars, place, PlaceOf
<1>8. CASE Tick
  BY <1>8 DEF Tick, PassTime, place, PlaceOf
<1> QED
  BY <1>1, <1>2, <1>3, <1>4, <1>5, <1>6, <1>7, <1>8
     DEF Next, Work, Reap, Break, Crash, Leave

\* The processes together implement AtLeastOnce, with any faults.
THEOREM ImplementsAtLeastOnce == Spec => KeepsPromise
<1>1. Init => Promise!Init
  BY InitPromise
<1>2. Inv /\ [Next]_vars => [Promise!Next]_<<[e \in Events |-> PlaceOf(e)], delivered>>
  BY StepPromise DEF place
<1> QED
  BY <1>1, <1>2, Invariant, PTL DEF Spec, KeepsPromise, Promise!Spec
=============================================================================
