------------------------- MODULE DeadLetters_proofs -------------------------
(***************************************************************************)
(* Proof that dead letters are justified: the failure count of a dead      *)
(* letter reached the threshold, and that many publish calls failed.  The  *)
(* invariant counts the processes that have a failure in hand, for any     *)
(* finite number of them.                                                  *)
(***************************************************************************)
EXTENDS OutboxProcessing_proofs, FiniteSetTheorems

USE ConfigAssumption, ProcessingAssumption, DeploymentAssumption

\* Whatever processes there are, those with an uncounted failure can be counted.
LEMMA UncountedFinite ==
  ASSUME NEW e
  PROVE  IsFiniteSet(Uncounted(e)) /\ Cardinality(Uncounted(e)) \in Nat
BY FS_Subset, FS_CardinalityType DEF Uncounted

\* Fewer processes with an uncounted failure, no more failures counted or held:
\* what most steps do.
LEMMA NothingCounted ==
  ASSUME TypeOK, TypeOK', FailuresInv,
         NEW e \in Events,
         Uncounted(e)' \subseteq Uncounted(e),
         heap'[e] <= heap[e],
         failed'[e] >= failed[e]
  PROVE  failed'[e] = MaxFailures \/ heap'[e] + Cardinality(Uncounted(e)') <= failed'[e]
<1>1. Cardinality(Uncounted(e)') <= Cardinality(Uncounted(e))
  BY UncountedFinite, FS_Subset
<1>2. Cardinality(Uncounted(e)) \in Nat /\ Cardinality(Uncounted(e)') \in Nat
  BY UncountedFinite, <1>1, FS_Subset, FS_CardinalityType
<1> DEFINE c == Cardinality(Uncounted(e))
           d == Cardinality(Uncounted(e)')
<1>3. heap[e] \in Nat /\ heap'[e] \in Nat /\ failed[e] \in Nat /\ failed'[e] \in Nat
      /\ failed'[e] <= MaxFailures
  BY DEF TypeOK, HeapTypeOK
<1>4. failed[e] = MaxFailures \/ heap[e] + c <= failed[e]
  BY DEF FailuresInv
<1>5. c \in Nat /\ d \in Nat /\ d <= c
  BY <1>1, <1>2
<1> HIDE DEF c, d
<1>6. failed'[e] = MaxFailures \/ heap'[e] + d <= failed'[e]
  BY <1>3, <1>4, <1>5
<1> QED
  BY <1>6 DEF d

\* A failure that is counted is not uncounted any more.
LEMMA OneCounted ==
  ASSUME TypeOK, TypeOK', FailuresInv,
         NEW e \in Events, NEW w \in Uncounted(e),
         Uncounted(e)' \subseteq Uncounted(e) \ {w},
         heap'[e] <= heap[e] + 1,
         failed'[e] = failed[e]
  PROVE  failed'[e] = MaxFailures \/ heap'[e] + Cardinality(Uncounted(e)') <= failed'[e]
<1>1. /\ IsFiniteSet(Uncounted(e) \ {w})
      /\ Cardinality(Uncounted(e) \ {w}) = Cardinality(Uncounted(e)) - 1
  BY UncountedFinite, FS_RemoveElement
<1>2. Cardinality(Uncounted(e)') <= Cardinality(Uncounted(e)) - 1
  BY <1>1, FS_Subset
<1>3. Cardinality(Uncounted(e)) \in Nat /\ Cardinality(Uncounted(e)') \in Nat
  BY UncountedFinite, <1>1, FS_Subset, FS_CardinalityType
<1> DEFINE c == Cardinality(Uncounted(e))
           d == Cardinality(Uncounted(e)')
<1>4. heap[e] \in Nat /\ heap'[e] \in Nat /\ failed[e] \in Nat
  BY DEF TypeOK, HeapTypeOK
<1>5. failed[e] = MaxFailures \/ heap[e] + c <= failed[e]
  BY DEF FailuresInv
<1>6. c \in Nat /\ d \in Nat /\ d <= c - 1
  BY <1>2, <1>3
<1> HIDE DEF c, d
<1>7. failed[e] = MaxFailures \/ heap'[e] + d <= failed[e]
  BY <1>4, <1>5, <1>6
<1> QED
  BY <1>7 DEF d

\* A publish call fails, and one more process has a failure to count.
LEMMA OneFailed ==
  ASSUME TypeOK, TypeOK', FailuresInv,
         NEW e \in Events, NEW w \in Workers,
         Uncounted(e)' \subseteq Uncounted(e) \cup {w},
         heap'[e] = heap[e],
         failed'[e] = CountUp(failed[e])
  PROVE  failed'[e] = MaxFailures \/ heap'[e] + Cardinality(Uncounted(e)') <= failed'[e]
<1>0. IsFiniteSet(Uncounted(e)) /\ Cardinality(Uncounted(e)) \in Nat
  BY UncountedFinite
<1>a. /\ IsFiniteSet(Uncounted(e) \cup {w})
      /\ Cardinality(Uncounted(e) \cup {w}) =
           IF w \in Uncounted(e) THEN Cardinality(Uncounted(e)) ELSE Cardinality(Uncounted(e)) + 1
  BY <1>0, FS_AddElement
<1>1. /\ IsFiniteSet(Uncounted(e) \cup {w})
      /\ Cardinality(Uncounted(e) \cup {w}) <= Cardinality(Uncounted(e)) + 1
  BY <1>0, <1>a
<1>2. Cardinality(Uncounted(e)') <= Cardinality(Uncounted(e) \cup {w})
  BY <1>1, FS_Subset
<1>3. /\ Cardinality(Uncounted(e)) \in Nat
      /\ Cardinality(Uncounted(e) \cup {w}) \in Nat
      /\ Cardinality(Uncounted(e)') \in Nat
  BY UncountedFinite, <1>1, FS_Subset, FS_CardinalityType
<1> DEFINE c == Cardinality(Uncounted(e))
           d == Cardinality(Uncounted(e)')
<1>4. heap[e] \in Nat /\ failed[e] \in Nat /\ failed[e] <= MaxFailures
  BY DEF TypeOK, HeapTypeOK
<1>5. failed[e] = MaxFailures \/ heap[e] + c <= failed[e]
  BY DEF FailuresInv
<1>6. c \in Nat /\ d \in Nat /\ d <= c + 1
  BY <1>1, <1>2, <1>3
<1> HIDE DEF c, d
<1>7. failed'[e] = MaxFailures \/ heap'[e] + d <= failed'[e]
  BY <1>4, <1>5, <1>6 DEF CountUp
<1> QED
  BY <1>7 DEF d

\* A counter never exceeds the failures there were.
LEMMA HeapWithinFailures ==
  ASSUME TypeOK, FailuresInv, NEW e \in Events PROVE heap[e] <= failed[e]
<1>1. Cardinality(Uncounted(e)) \in Nat
  BY UncountedFinite
<1> QED
  BY <1>1 DEF TypeOK, HeapTypeOK, FailuresInv

-----------------------------------------------------------------------------
(* The steps. *)

\* Steps that leave the counters, the hands, the entries and the dead letters alone,
\* or let go of what a process has in hand.
LEMMA Untouched ==
  ASSUME TypeOK, TypeOK', FailuresInv,
         \A e \in Events : Uncounted(e)' \subseteq Uncounted(e),
         \A e \in Events : heap'[e] <= heap[e],
         failed' = failed,
         \A w \in Workers, e \in Events : drained'[w][e] <= drained[w][e],
         dead' = dead
  PROVE  FailuresInv'
<1>1. \A e \in Events : failed[e] \in Nat /\ dead[e] \in Nat
  BY DEF TypeOK, TableTypeOK
<1>2. \A w \in Workers, e \in Events : drained[w][e] \in Nat /\ drained'[w][e] \in Nat
  BY DEF TypeOK
<1>3. ASSUME NEW e \in Events
      PROVE  failed'[e] = MaxFailures \/ heap'[e] + Cardinality(Uncounted(e)') <= failed'[e]
  BY <1>1, NothingCounted
<1> QED
  BY <1>1, <1>2, <1>3 DEF FailuresInv

\* Steps of a batch that publish and count nothing, and those of other actors.
LEMMA QuietSteps ==
  ASSUME TypeOK, TypeOK', FailuresInv, [Next]_vars,
         ~ \E w \in Workers : \/ PublishErr(w) \/ Record(w) \/ RecordFails(w)
                             \/ Drain(w) \/ Quarantine(w) \/ QuarantineFails(w)
  PROVE  FailuresInv'
<1> USE DEF Uncounted, TypeOK, TableTypeOK, HeapTypeOK
<1>1. CASE UNCHANGED vars
  BY <1>1, Untouched DEF vars, tableVars, workerVars
<1>2. ASSUME NEW e \in Events, Insert(e) PROVE FailuresInv'
  BY <1>2, Untouched DEF Insert, InsertEvent, workerVars
<1>3. ASSUME NEW w \in Workers, Fetch(w) \/ FetchFails(w) PROVE FailuresInv'
  BY <1>3, Untouched DEF Fetch, FetchFails, Claim, workerVars
<1>4. ASSUME NEW w \in Workers, PublishOk(w) PROVE FailuresInv'
  BY <1>4, Untouched DEF PublishOk, Acknowledged, EndPublish, tableVars
<1>5. ASSUME NEW w \in Workers, Mark(w) \/ MarkFails(w) PROVE FailuresInv'
  <2>1. dead' = dead /\ heap' = heap /\ failed' = failed /\ drained' = drained
    BY <1>5 DEF Mark, MarkFails, UpdateStatus, tableVars
  <2>2. counting' = [counting EXCEPT ![w] = {}] /\ successes' = [successes EXCEPT ![w] = {}]
    BY <1>5 DEF Mark, MarkFails, DropBatch
  <2>3. \A e \in Events : Uncounted(e)' \subseteq Uncounted(e)
    BY <2>2
  <2> QED
    BY <2>1, <2>3, Untouched
<1>6. ASSUME NEW w \in Workers, DrainFails(w) PROVE FailuresInv'
  <2>1. /\ dead' = dead /\ failed' = failed /\ drained' = drained
        /\ counting' = counting /\ successes' = successes
    BY <1>6 DEF DrainFails, tableVars, workerVars
  <2>2. \A e \in Events : heap'[e] <= heap[e]
    <3>1. \A e \in Events : heap'[e] = heap[e] \/ heap'[e] = 0
      BY <1>6 DEF DrainFails, DrainExceeded
    <3>2. \A e \in Events : heap[e] >= 0 /\ heap[e] \in Int
      OBVIOUS
    <3> HIDE DEF TypeOK, HeapTypeOK, TableTypeOK, Uncounted
    <3> QED
      BY <3>1, <3>2
  <2> QED
    BY <2>1, <2>2, Untouched
<1>7. ASSUME NEW w \in Workers, Abandon(w) PROVE FailuresInv'
  BY <1>7, Untouched DEF Abandon, DropBatch, NoEntries, tableVars
<1>8. CASE CollectGarbage
  BY <1>8, Untouched DEF CollectGarbage, DeleteGarbage, workerVars
<1>9. CASE Tick
  BY <1>9, Untouched DEF Tick, PassTime
<1> QED
  BY <1>1, <1>2, <1>3, <1>4, <1>5, <1>6, <1>7, <1>8, <1>9
     DEF Next, Work, Reap, Break, Crash, Leave

\* A failed publish is one more failure, and one more to count at most.
LEMMA PublishErrFailures ==
  ASSUME TypeOK, TypeOK', FailuresInv, NEW w \in Workers, PublishErr(w)
  PROVE  FailuresInv'
<1>1. PICK e \in todo[w] :
        EndPublish(w, e, successes[w]) /\ failed' = [failed EXCEPT ![e] = CountUp(failed[e])]
  BY DEF PublishErr, Unacknowledged, Acknowledged
<1>2. e \in Events
  BY DEF TypeOK
<1>3. Uncounted(e)' \subseteq Uncounted(e) \cup {w}
  BY <1>1 DEF EndPublish, Uncounted, TypeOK
<1>4. \A f \in Events \ {e} : Uncounted(f)' \subseteq Uncounted(f)
  BY <1>1 DEF EndPublish, Uncounted, TypeOK
<1>5. heap' = heap /\ drained' = drained /\ dead' = dead
  BY DEF PublishErr, Unacknowledged, Acknowledged, tableVars
<1>6. failed'[e] = CountUp(failed[e]) /\ \A f \in Events \ {e} : failed'[f] = failed[f]
  BY <1>1, <1>2 DEF TypeOK
<1>7. \A f \in Events : failed'[f] >= failed[f] /\ failed[f] \in Nat /\ failed'[f] \in Nat
  <2>1. \A f \in Events : failed[f] \in Nat
    BY DEF TypeOK
  <2>2. \A f \in Events \ {e} : failed'[f] >= failed[f] /\ failed'[f] \in Nat
    BY <1>6, <2>1
  <2>3. failed'[e] >= failed[e] /\ failed'[e] \in Nat
    BY <1>2, <1>6, <2>1 DEF CountUp
  <2> QED
    BY <2>1, <2>2, <2>3
<1>8. ASSUME NEW f \in Events
      PROVE  failed'[f] = MaxFailures \/ heap'[f] + Cardinality(Uncounted(f)') <= failed'[f]
  <2>1. CASE f = e
    BY <1>2, <1>3, <1>5, <1>6, <2>1, OneFailed
  <2>2. CASE f # e
    <3>1. Uncounted(f)' \subseteq Uncounted(f) /\ heap'[f] <= heap[f] /\ failed'[f] >= failed[f]
      BY <1>4, <1>5, <1>7, <2>2 DEF TypeOK, HeapTypeOK
    <3> QED
      BY <3>1, NothingCounted
  <2> QED
    BY <2>1, <2>2
<1>9. ASSUME NEW f \in Events
      PROVE  dead'[f] <= failed'[f] /\ \A v \in Workers : drained'[v][f] <= failed'[f]
  <2>1. dead[f] <= failed[f] /\ \A v \in Workers : drained[v][f] <= failed[f]
    BY DEF FailuresInv
  <2>2. dead[f] \in Nat /\ \A v \in Workers : drained[v][f] \in Nat
    BY DEF TypeOK, TableTypeOK
  <2> QED
    BY <1>5, <1>7, <2>1, <2>2
<1> QED
  BY <1>8, <1>9 DEF FailuresInv

\* The counters are told of an outcome, whether or not the call returns.
LEMMA CountFailures ==
  ASSUME TypeOK, TypeOK', FailuresInv,
         NEW w \in Workers, CountOutcome(w),
         counting' = [counting EXCEPT ![w] = {}],
         \A v \in Workers \ {w} : successes'[v] = successes[v],
         UNCHANGED <<failed, drained, dead>>
  PROVE  FailuresInv'
<1>1. PICK e \in counting[w] : IF e \in successes[w] THEN RecordSuccess(e) ELSE RecordFailure(e)
  BY DEF CountOutcome
<1>2. e \in Events
  BY DEF TypeOK
<1>3. \A f \in Events : Uncounted(f)' \subseteq Uncounted(f) \ {w}
  BY DEF Uncounted, TypeOK
<1>4. CASE e \in successes[w]
  <2>0. heap' = [heap EXCEPT ![e] = 0]
    BY <1>1, <1>4 DEF RecordSuccess
  <2>1. \A f \in Events : heap'[f] <= heap[f]
    BY <2>0 DEF TypeOK, HeapTypeOK
  <2>2. \A v \in Workers, f \in Events : drained'[v][f] <= drained[v][f]
    BY DEF TypeOK
  <2> QED
    BY <1>3, <2>1, <2>2, Untouched
<1>5. CASE e \notin successes[w]
  <2>1. heap'[e] <= heap[e] + 1 /\ \A f \in Events \ {e} : heap'[f] = heap[f]
    BY <1>1, <1>2, <1>5 DEF RecordFailure, CountUp, TypeOK, HeapTypeOK
  <2>2. w \in Uncounted(e)
    BY <1>5 DEF Uncounted
  <2>3. \A f \in Events : failed'[f] = failed[f] /\ failed[f] \in Nat
    BY DEF TypeOK
  <2>4. ASSUME NEW f \in Events
        PROVE  failed'[f] = MaxFailures \/ heap'[f] + Cardinality(Uncounted(f)') <= failed'[f]
    <3>1. CASE f = e
      BY <1>2, <1>3, <2>1, <2>2, <2>3, <3>1, OneCounted
    <3>2. CASE f # e
      <4>1. Uncounted(f)' \subseteq Uncounted(f) /\ heap'[f] <= heap[f] /\ failed'[f] >= failed[f]
        BY <1>3, <2>1, <2>3, <3>2 DEF TypeOK, HeapTypeOK
      <4> QED
        BY <4>1, NothingCounted
    <3> QED
      BY <3>1, <3>2
  <2> QED
    BY <2>3, <2>4 DEF FailuresInv
<1> QED
  BY <1>4, <1>5

\* What a reaper drains is what the counters held.
LEMMA DrainFailures ==
  ASSUME TypeOK, TypeOK', FailuresInv, NEW w \in Workers, Drain(w)
  PROVE  FailuresInv'
<1>1. /\ \A e \in Events : Uncounted(e)' = Uncounted(e)
      /\ \A e \in Events : heap'[e] <= heap[e]
      /\ failed' = failed /\ dead' = dead
  BY DEF Drain, DrainExceeded, Uncounted, workerVars, tableVars, TypeOK, HeapTypeOK
<1>2. ASSUME NEW e \in Events
      PROVE  failed'[e] = MaxFailures \/ heap'[e] + Cardinality(Uncounted(e)') <= failed'[e]
  <2>1. failed'[e] >= failed[e]
    BY <1>1 DEF TypeOK
  <2> QED
    BY <1>1, <2>1, NothingCounted
<1>3. ASSUME NEW v \in Workers, NEW e \in Events PROVE drained'[v][e] <= failed[e]
  <2>1. drained'[v][e] = drained[v][e] \/ drained'[v][e] = heap[e] \/ drained'[v][e] = 0
    BY DEF Drain, DrainedEntries, TypeOK
  <2>2. drained[v][e] <= failed[e] /\ failed[e] \in Nat
    BY DEF FailuresInv, TypeOK
  <2> QED
    BY <2>1, <2>2, HeapWithinFailures
<1> QED
  BY <1>1, <1>2, <1>3 DEF FailuresInv

\* A dead letter is written from the entries in hand.
LEMMA QuarantineFailures ==
  ASSUME TypeOK, TypeOK', FailuresInv, NEW w \in Workers, Quarantine(w) \/ QuarantineFails(w)
  PROVE  FailuresInv'
<1>1. /\ \A e \in Events : Uncounted(e)' = Uncounted(e)
      /\ heap' = heap /\ failed' = failed
      /\ drained' = [drained EXCEPT ![w] = NoEntries]
  BY DEF Quarantine, QuarantineFails, Uncounted, workerVars
<1>2. \A e \in Events : dead'[e] = dead[e] \/ dead'[e] = drained[w][e]
  BY DEF Quarantine, QuarantineFails, QuarantineEvents, tableVars, TypeOK, TableTypeOK
<1>3. ASSUME NEW e \in Events
      PROVE  failed'[e] = MaxFailures \/ heap'[e] + Cardinality(Uncounted(e)') <= failed'[e]
  <2>1. failed'[e] >= failed[e] /\ heap'[e] <= heap[e]
    BY <1>1 DEF TypeOK, HeapTypeOK
  <2> QED
    BY <1>1, <2>1, NothingCounted
<1>4. \A v \in Workers, e \in Events : drained'[v][e] = drained[v][e] \/ drained'[v][e] = 0
  BY <1>1 DEF NoEntries, TypeOK
<1>5. \A e \in Events : failed[e] \in Nat
  BY DEF TypeOK
<1> QED
  BY <1>1, <1>2, <1>3, <1>4, <1>5 DEF FailuresInv

\* Every step of every process keeps failures and counts in order.
LEMMA StepFailures == TypeOK /\ TypeOK' /\ FailuresInv /\ [Next]_vars => FailuresInv'
<1> SUFFICES ASSUME TypeOK, TypeOK', FailuresInv, [Next]_vars PROVE FailuresInv'
  OBVIOUS
<1>1. ASSUME NEW w \in Workers, PublishErr(w) PROVE FailuresInv'
  BY <1>1, PublishErrFailures
<1>2. ASSUME NEW w \in Workers, Record(w) PROVE FailuresInv'
  BY <1>2, CountFailures DEF Record, tableVars
<1>3. ASSUME NEW w \in Workers, RecordFails(w) PROVE FailuresInv'
  <2>1. CASE CountOutcome(w)
    BY <1>3, <2>1, CountFailures DEF RecordFails, DropBatch, tableVars, TypeOK
  <2>2. CASE UNCHANGED heap
    BY <1>3, <2>2, Untouched
       DEF RecordFails, DropBatch, tableVars, Uncounted, TypeOK, TableTypeOK, HeapTypeOK
  <2> QED
    BY <1>3, <2>1, <2>2 DEF RecordFails
<1>4. ASSUME NEW w \in Workers, Drain(w) PROVE FailuresInv'
  BY <1>4, DrainFailures
<1>5. ASSUME NEW w \in Workers, Quarantine(w) \/ QuarantineFails(w) PROVE FailuresInv'
  BY <1>5, QuarantineFailures
<1> QED
  BY <1>1, <1>2, <1>3, <1>4, <1>5, QuietSteps

\* Nothing failed, nothing was counted yet.
LEMMA InitFailures == Init => FailuresInv
<1> SUFFICES ASSUME Init, NEW e \in Events
             PROVE  heap[e] + Cardinality(Uncounted(e)) <= failed[e]
                    /\ dead[e] <= failed[e]
                    /\ \A w \in Workers : drained[w][e] <= failed[e]
  BY DEF FailuresInv
<1>1. Uncounted(e) = {}
  BY DEF Uncounted, Init
<1>2. Cardinality(Uncounted(e)) = 0
  BY <1>1, FS_EmptySet
<1> QED
  BY <1>2 DEF Init, HeapInit, TableInit, NoEntries
-----------------------------------------------------------------------------
\* Counters, entries in hand and dead letters stay within the failures there were.
THEOREM FailuresCounted == Spec => []FailuresInv
<1>1. Spec => []TypeOK
  BY TypeCorrect
<1> QED
  BY <1>1, InitFailures, StepFailures, PTL DEF Spec

\* An event is in the dead letter table only after the threshold was reached by
\* failures that happened, however many processes count, drain and quarantine.
THEOREM DeadLettersJustified == Spec => []DeadJustified
<1>1. Inv /\ FailuresInv => DeadJustified
  BY DEF Inv, RowsInv, FailuresInv, DeadJustified
<1> QED
  BY <1>1, Invariant, FailuresCounted, PTL
=============================================================================
