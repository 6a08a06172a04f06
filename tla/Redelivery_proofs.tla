-------------------------- MODULE Redelivery_proofs --------------------------
(***************************************************************************)
(* Proof that every copy has a cause, for any number of events and         *)
(* processes.  The invariant of OutboxProcessing is used at every step:    *)
(* that a live lease in hand is the lease in the table keeps claims off,   *)
(* and that live leases exclude each other keeps late updates off.         *)
(***************************************************************************)
EXTENDS Redelivery, OutboxProcessing_proofs

USE ConfigAssumption, ProcessingAssumption

\* CopyInv, by its parts, for one event.
NeverCounted(e) == heap[e] = 0 /\ \A w \in Workers : drained[w][e] = 0
HeldLive(e) == \A w \in Workers : e \in Held(w) => lease[w] >= 0 /\ status[e] = "Processing"
CountedOk(e) == \A w \in Workers : e \in counting[w] => e \in successes[w]
FirstTime(e) == \A w \in Workers : e \in todo[w] => e \notin delivered
Marked(e) ==
    e \in delivered => status[e] \in {"Sent", "Gone"} \/ \E w \in Workers : e \in successes[w]
Sound(e) == NeverCounted(e) /\ HeldLive(e) /\ CountedOk(e) /\ FirstTime(e) /\ Marked(e)

\* The invariant, event by event.
LEMMA CopyInvParts == CopyInv <=> \A e \in Events \ doubtful : Sound(e)
BY DEF CopyInv, Sound, NeverCounted, HeldLive, CountedOk, FirstTime, Marked

\* Nobody has anything in hand at first.
LEMMA InitCopy == RInit => CopyInv
BY DEF RInit, Init, HeapInit, NoEntries, Held, CopyInv

\* An event that nothing went wrong with, and that somebody holds, is neither
\* claimed nor marked by anybody else.
LEMMA OneHolder ==
  ASSUME Inv, NEW e \in Events, HeldLive(e),
         NEW v \in Workers, NEW w \in Workers, e \in Held(v), e \in Held(w)
  PROVE  v = w
BY DEF Inv, LeaseInv, LeaseExclusion, HeldLive, TypeOK

\* A row whose lease is alive is not handed out.
LEMMA NotClaimable ==
  ASSUME Inv, NEW e \in Events, HeldLive(e), NEW w \in Workers, e \in Held(w)
  PROVE  e \notin Claimable
BY DEF Inv, LeaseInv, HeldLive, Claimable, TypeOK, TableTypeOK

\* What is claimed for the first time is not delivered yet.
LEMMA ClaimedNotDelivered ==
  ASSUME Inv, NEW e \in Events, HeldLive(e), Marked(e), e \in Claimable
  PROVE  e \notin delivered /\ \A w \in Workers : e \notin Held(w)
<1>1. \A w \in Workers : e \notin Held(w)
  BY NotClaimable
<1> QED
  BY <1>1 DEF Held, Marked, Claimable

\* What it means that a step casts no doubt on e.
LEMMA NoDoubt ==
  ASSUME Doubt, NEW e \in Events, e \notin doubtful'
  PROVE  /\ e \notin doubtful
         /\ \A w \in Workers : ~PublishDoubt(w, e) /\ ~UnmarkedDoubt(w, e) /\ ~LateDoubt(w, e)
BY DEF Doubt

\* What a claim does to one row.
LEMMA ClaimedStatus ==
  ASSUME NEW S, S \subseteq Claimable, Claim(S), NEW e \in Events
  PROVE  status'[e] = status[e] \/ (e \in Claimable /\ status'[e] = "Processing")
<1>1. CASE e \in S
  <2>1. e \in Claimable
    BY <1>1
  <2> QED
    BY <1>1, <2>1 DEF Claim
<1>2. CASE e \notin S
  BY <1>2 DEF Claim
<1> QED
  BY <1>1, <1>2

-----------------------------------------------------------------------------
(* The steps of a batch. *)

\* The invariant is kept by a claim.
LEMMA FetchCopy ==
  ASSUME Inv, Inv', NEW e \in Events, Sound(e), NEW w \in Workers, Fetch(w)
  PROVE  Sound(e)'
<1> USE DEF Inv, TypeOK, TableTypeOK, Sound
<1>1. PICK S \in Batches(w) :
        /\ Claim(S)
        /\ todo' = [todo EXCEPT ![w] = S]
        /\ lease' = [lease EXCEPT ![w] = IF S = {} THEN @ ELSE LockTimeout]
  BY DEF Fetch
<1>2. S \subseteq Claimable
  BY DEF Batches, Oldest
<1>3. /\ UNCHANGED <<heap, counting, successes, drained, delivered>>
      /\ Held(w) = {} /\ todo[w] = {}
      /\ \A v \in Workers \ {w} : Held(v)' = Held(v) /\ lease'[v] = lease[v] /\ todo'[v] = todo[v]
      /\ Held(w)' = S /\ todo'[w] = S
  BY <1>1 DEF Fetch, HandsInv, Held
<1>4. NeverCounted(e)' /\ CountedOk(e)'
  BY <1>3 DEF NeverCounted, CountedOk
<1>5. CASE e \in S
  <2>1. e \notin delivered /\ \A v \in Workers : e \notin Held(v)
    BY <1>2, <1>5, ClaimedNotDelivered
  <2>2. lease'[w] = LockTimeout /\ status'[e] = "Processing"
    BY <1>1, <1>5 DEF Claim
  <2>3. HeldLive(e)'
    <3>1. SUFFICES ASSUME NEW v \in Workers, e \in Held(v)'
                   PROVE  lease'[v] >= 0 /\ status'[e] = "Processing"
      BY DEF HeldLive
    <3>2. v = w
      BY <1>3, <2>1, <3>1
    <3> QED
      BY <2>2, <3>2
  <2> QED
    BY <1>3, <1>4, <2>1, <2>3 DEF FirstTime, Marked
<1>6. CASE e \notin S
  <2>1. status'[e] = status[e]
    BY <1>1, <1>6 DEF Claim
  <2>2. \A v \in Workers : e \in Held(v)' => v # w /\ e \in Held(v) /\ lease'[v] = lease[v]
    BY <1>3, <1>6
  <2>4. HeldLive(e)'
    BY <2>1, <2>2 DEF HeldLive
  <2>3. FirstTime(e)' /\ Marked(e)'
    BY <1>3, <1>6, <2>1 DEF FirstTime, Marked
  <2> QED
    BY <1>4, <2>3, <2>4
<1> QED
  BY <1>5, <1>6

\* The invariant is kept by a claim that fails.
LEMMA FetchFailsCopy ==
  ASSUME Inv, Inv', NEW e \in Events, Sound(e), NEW w \in Workers, FetchFails(w)
  PROVE  Sound(e)'
<1> USE DEF Inv, TypeOK, TableTypeOK, Sound
<1>1. PICK S \in Batches(w) \cup {{}} : Claim(S)
  BY DEF FetchFails
<1>2. S \subseteq Claimable
  BY DEF Batches, Oldest
<1>3. /\ UNCHANGED <<heap, todo, counting, successes, lease, drained, delivered>>
      /\ \A v \in Workers : Held(v)' = Held(v)
  BY DEF FetchFails, workerVars, Held
<1>4. status'[e] = status[e] \/ (e \in Claimable /\ status'[e] = "Processing")
  BY <1>1, <1>2, ClaimedStatus
<1>5. HeldLive(e)'
  BY <1>3, <1>4, NotClaimable DEF HeldLive
<1>6. Marked(e)'
  BY <1>3, <1>4, ClaimedNotDelivered DEF Marked
<1> QED
  BY <1>3, <1>5, <1>6 DEF NeverCounted, CountedOk, FirstTime

\* The invariant is kept by a publish that succeeds.
LEMMA PublishOkCopy ==
  ASSUME Inv, Inv', NEW e \in Events, Sound(e), NEW w \in Workers, PublishOk(w)
  PROVE  Sound(e)'
<1> USE DEF Inv, TypeOK, TableTypeOK, Sound
<1>1. PICK f \in todo[w] \ Poison :
        /\ EndPublish(w, f, successes[w] \cup {f})
        /\ delivered' = delivered \cup {f}
  BY DEF PublishOk, Acknowledged
<1>2. /\ todo' = [todo EXCEPT ![w] = todo[w] \ {f}]
      /\ successes' = [successes EXCEPT ![w] = successes[w] \cup {f}]
      /\ counting'[w] \subseteq {f}
      /\ \A v \in Workers \ {w} : counting'[v] = counting[v]
      /\ UNCHANGED <<status, heap, lease, drained>>
  <2>1. UNCHANGED <<status, heap, lease, drained>>
    BY DEF PublishOk, tableVars
  <2>2. \A v \in Workers \ {w} : counting'[v] = counting[v]
    BY <1>1 DEF EndPublish
  <2>3. counting'[w] \subseteq {f}
    BY <1>1 DEF EndPublish
  <2> QED
    BY <1>1, <2>1, <2>2, <2>3 DEF EndPublish
<1>3. \A v \in Workers : Held(v)' \subseteq Held(v)
  BY <1>2 DEF Held
<1>4. NeverCounted(e)' /\ HeldLive(e)'
  BY <1>2, <1>3 DEF NeverCounted, HeldLive
<1>5. CountedOk(e)'
  BY <1>2 DEF CountedOk
<1>6. FirstTime(e)'
  <2>1. SUFFICES ASSUME NEW v \in Workers, e \in todo'[v], e = f PROVE FALSE
    BY <1>1, <1>2 DEF FirstTime
  <2>2. v # w /\ e \in Held(v) /\ e \in Held(w)
    BY <1>1, <1>2, <2>1 DEF Held
  <2> QED
    BY <2>2, OneHolder
<1>7. Marked(e)'
  BY <1>1, <1>2 DEF Marked
<1> QED
  BY <1>4, <1>5, <1>6, <1>7

\* The invariant is kept by a publish that fails.
LEMMA PublishErrCopy ==
  ASSUME Inv, Inv', Doubt, NEW e \in Events, e \notin doubtful', Sound(e),
         NEW w \in Workers, PublishErr(w)
  PROVE  Sound(e)'
<1> USE DEF Inv, TypeOK, TableTypeOK, Sound
<1>1. PICK f \in todo[w] :
        /\ EndPublish(w, f, successes[w])
        /\ delivered' = delivered \/ delivered' = delivered \cup {f}
  BY DEF PublishErr, Unacknowledged, Acknowledged
<1>2. /\ todo' = [todo EXCEPT ![w] = todo[w] \ {f}]
      /\ UNCHANGED <<status, heap, lease, drained, faults>>
      /\ successes' = [successes EXCEPT ![w] = successes[w]]
      /\ counting'[w] \subseteq {f}
      /\ \A v \in Workers \ {w} : counting'[v] = counting[v]
  <2>1. UNCHANGED <<status, heap, lease, drained, faults>>
    BY DEF PublishErr, tableVars
  <2>2. \A v \in Workers \ {w} : counting'[v] = counting[v]
    BY <1>1 DEF EndPublish
  <2>3. counting'[w] \subseteq {f}
    BY <1>1 DEF EndPublish
  <2> QED
    BY <1>1, <2>1, <2>2, <2>3 DEF EndPublish
<1>3. successes' = successes
  BY <1>2
<1>4. f # e
  BY <1>1, NoDoubt DEF PublishDoubt, EndPublish, Inv, TypeOK
<1>5. /\ \A v \in Workers : e \in todo'[v] <=> e \in todo[v]
      /\ \A v \in Workers : e \in counting'[v] => e \in counting[v]
      /\ e \in delivered' <=> e \in delivered
  BY <1>1, <1>2, <1>4
<1>6. \A v \in Workers : e \in Held(v)' => e \in Held(v)
  BY <1>3, <1>5 DEF Held
<1> QED
  BY <1>2, <1>3, <1>5, <1>6 DEF NeverCounted, HeldLive, CountedOk, FirstTime, Marked

\* The invariant is kept by a count.
LEMMA RecordCopy ==
  ASSUME Inv, Inv', NEW e \in Events, Sound(e), NEW w \in Workers, Record(w)
  PROVE  Sound(e)'
<1>1. PICK f \in counting[w] : IF f \in successes[w] THEN RecordSuccess(f) ELSE RecordFailure(f)
  BY DEF Record, CountOutcome
<1>2. /\ UNCHANGED <<status, todo, successes, lease, drained, delivered>>
      /\ counting' = [counting EXCEPT ![w] = {}]
  BY DEF Record, tableVars
<1>3. \A v \in Workers : counting'[v] \subseteq counting[v]
  BY <1>2 DEF Inv, TypeOK
<1>4. \A v \in Workers : Held(v)' \subseteq Held(v)
  BY <1>2, <1>3 DEF Held
<1>5. heap'[e] = 0
  <2>1. f = e => f \in successes[w]
    BY <1>1 DEF Sound, CountedOk
  <2>2. heap[e] = 0 /\ heap \in [Events -> 0..MaxFailures]
    BY DEF Sound, NeverCounted, Inv, TypeOK, HeapTypeOK
  <2> QED
    BY <1>1, <2>1, <2>2 DEF RecordSuccess, RecordFailure
<1> QED
  BY <1>2, <1>3, <1>4, <1>5 DEF Sound, NeverCounted, HeldLive, CountedOk, FirstTime, Marked

\* A batch that is dropped.
LEMMA DroppedHands ==
  ASSUME Inv, NEW w \in Workers, DropBatch(w)
  PROVE  /\ todo'[w] = {} /\ counting'[w] = {} /\ successes'[w] = {} /\ Held(w)' = {}
         /\ \A v \in Workers \ {w} :
              /\ todo'[v] = todo[v] /\ counting'[v] = counting[v] /\ successes'[v] = successes[v]
              /\ lease'[v] = lease[v] /\ Held(v)' = Held(v)
BY DEF Inv, TypeOK, DropBatch, Held

\* A fault that drops a batch leaves the others' hands, and takes nothing that
\* the broker has accepted out of its own, if it casts no doubt.
LEMMA DropCopy ==
  ASSUME Inv, NEW e \in Events, Sound(e), NEW w \in Workers, DropBatch(w),
         e \notin successes[w] \/ status'[e] \in {"Sent", "Gone"},
         status'[e] = status[e] \/ (e \in successes[w] /\ status'[e] = "Sent"),
         heap'[e] = 0, \A v \in Workers : drained'[v][e] = 0, delivered' = delivered
  PROVE  Sound(e)'
<1>1. \A v \in Workers : v # w /\ e \in Held(v) => e \notin Held(w)
  BY OneHolder DEF Sound
<1>2. HeldLive(e)'
  <2>1. SUFFICES ASSUME NEW v \in Workers, e \in Held(v)'
                 PROVE  lease'[v] >= 0 /\ status'[e] = "Processing"
    BY DEF HeldLive
  <2>2. v # w /\ e \in Held(v) /\ lease'[v] = lease[v]
    BY <2>1, DroppedHands
  <2>3. e \notin successes[w]
    BY <1>1, <2>2 DEF Held
  <2> QED
    BY <2>2, <2>3 DEF Sound, HeldLive
<1>3. CountedOk(e)'
  BY DroppedHands DEF Sound, CountedOk
<1>4. FirstTime(e)'
  BY DroppedHands DEF Sound, FirstTime
<1>5. Marked(e)'
  <2>1. SUFFICES ASSUME e \in delivered
                 PROVE  status'[e] \in {"Sent", "Gone"} \/ \E v \in Workers : e \in successes'[v]
    BY DEF Marked
  <2>2. CASE \E v \in Workers : e \in successes[v]
    BY <2>2, DroppedHands
  <2>3. CASE status[e] \in {"Sent", "Gone"}
    BY <2>3
  <2> QED
    BY <2>1, <2>2, <2>3 DEF Sound, Marked
<1> QED
  BY <1>2, <1>3, <1>4, <1>5 DEF Sound, NeverCounted

\* A fault counts.
LEMMA FaultCounts ==
  ASSUME Inv, NEW kind, Fault(kind)
  PROVE  faults' # faults
BY DEF Inv, TypeOK, Fault, Possible

\* The invariant is kept by a count that fails.
LEMMA RecordFailsCopy ==
  ASSUME Inv, Inv', Doubt, NEW e \in Events, e \notin doubtful', Sound(e),
         NEW w \in Workers, RecordFails(w)
  PROVE  Sound(e)'
<1>1. /\ DropBatch(w) /\ Fault("heap")
      /\ status' = status /\ drained' = drained /\ delivered' = delivered
  BY DEF RecordFails, tableVars
<1>2. e \notin successes[w]
  BY <1>1, NoDoubt, FaultCounts, DroppedHands DEF UnmarkedDoubt
<1>3. heap'[e] = 0
  <2>1. heap[e] = 0 /\ heap \in [Events -> 0..MaxFailures]
    BY DEF Sound, NeverCounted, Inv, TypeOK, HeapTypeOK
  <2>2. CASE heap' = heap
    BY <2>1, <2>2
  <2>3. CASE CountOutcome(w)
    <3>1. PICK f \in counting[w] :
            IF f \in successes[w] THEN RecordSuccess(f) ELSE RecordFailure(f)
      BY <2>3 DEF CountOutcome
    <3>2. f # e
      BY <1>2 DEF Sound, CountedOk
    <3> QED
      BY <2>1, <3>1, <3>2 DEF RecordSuccess, RecordFailure
  <2> QED
    BY <2>2, <2>3 DEF RecordFails
<1>4. \A v \in Workers : drained'[v][e] = 0
  BY <1>1 DEF Sound, NeverCounted
<1> QED
  BY <1>1, <1>2, <1>3, <1>4, DropCopy

\* What update_status does to one row.
LEMMA MarkedStatus ==
  ASSUME Inv, NEW ids, UpdateStatus(ids), NEW e \in Events
  PROVE  /\ status'[e] = status[e] \/ (e \in ids /\ status'[e] = "Sent")
         /\ e \in ids /\ status[e] = "Processing" => status'[e] = "Sent"
<1>1. status'[e] = IF e \in ids /\ e \in InTable THEN "Sent" ELSE status[e]
  BY DEF UpdateStatus
<1>2. status[e] = "Processing" => e \in InTable
  BY DEF InTable
<1> QED
  BY <1>1, <1>2

\* The invariant is kept by the mark of a batch.
LEMMA MarkCopy ==
  ASSUME Inv, Inv', NEW e \in Events, Sound(e), NEW w \in Workers, Mark(w)
  PROVE  Sound(e)'
<1>1. /\ DropBatch(w) /\ UpdateStatus(successes[w])
      /\ heap' = heap /\ drained' = drained /\ delivered' = delivered
  BY DEF Mark
<1>2. e \in successes[w] => status[e] = "Processing"
  BY DEF Sound, HeldLive, Held
<1> QED
  BY <1>1, <1>2, MarkedStatus, DropCopy DEF Sound, NeverCounted

\* The invariant is kept by a mark that fails.
LEMMA MarkFailsCopy ==
  ASSUME Inv, Inv', Doubt, NEW e \in Events, e \notin doubtful', Sound(e),
         NEW w \in Workers, MarkFails(w)
  PROVE  Sound(e)'
<1>1. /\ DropBatch(w) /\ Fault("mark")
      /\ heap' = heap /\ drained' = drained /\ delivered' = delivered
  BY DEF MarkFails
<1>2. e \notin successes[w]
  BY <1>1, NoDoubt, FaultCounts, DroppedHands DEF UnmarkedDoubt
<1>3. status'[e] = status[e]
  BY <1>2, MarkedStatus DEF MarkFails, tableVars
<1>4. heap'[e] = 0 /\ \A v \in Workers : drained'[v][e] = 0
  BY <1>1 DEF Sound, NeverCounted
<1> QED
  BY <1>1, <1>2, <1>3, <1>4, DropCopy

\* The invariant is kept when a process dies or returns.
LEMMA AbandonCopy ==
  ASSUME Inv, Inv', Doubt, NEW e \in Events, e \notin doubtful', Sound(e),
         NEW w \in Workers, Crash(w) \/ Leave(w)
  PROVE  Sound(e)'
<1>1. /\ DropBatch(w)
      /\ status' = status /\ heap' = heap /\ delivered' = delivered
      /\ drained' = [drained EXCEPT ![w] = NoEntries]
  BY DEF Crash, Leave, Abandon, tableVars
<1>2. faults' # faults \/ Leave(w)
  BY FaultCounts DEF Crash
<1>3. e \notin successes[w]
  BY <1>1, <1>2, NoDoubt, DroppedHands DEF UnmarkedDoubt
<1>4. \A v \in Workers : drained'[v][e] = 0
  BY <1>1 DEF Sound, NeverCounted, NoEntries, Inv, TypeOK
<1>5. heap'[e] = 0
  BY <1>1 DEF Sound, NeverCounted
<1> QED
  BY <1>1, <1>3, <1>4, <1>5, DropCopy

-----------------------------------------------------------------------------
(* The reaper, the collector, the producer and the clock. *)

\* A step that leaves the hands alone, and does not touch a row in Processing.
LEMMA RowsCopy ==
  ASSUME NEW e \in Events, Sound(e), UNCHANGED <<workerVars, delivered>>,
         heap'[e] = 0, \A v \in Workers : drained'[v][e] = 0,
         status[e] = "Processing" => status'[e] = status[e],
         status[e] \in {"Sent", "Gone"} => status'[e] \in {"Sent", "Gone"}
  PROVE  Sound(e)'
BY DEF Sound, NeverCounted, HeldLive, CountedOk, FirstTime, Marked, Held, workerVars

\* Nothing was counted for e, so that nothing is drained for it.
LEMMA NothingDrained ==
  ASSUME Inv, NEW e \in Events, heap[e] = 0
  PROVE  DrainedEntries[e] = 0 /\ (DrainExceeded => heap'[e] = 0)
BY DEF DrainedEntries, Exceeded, DrainExceeded

\* The invariant is kept by a drain.
LEMMA DrainCopy ==
  ASSUME Inv, NEW e \in Events, Sound(e), NEW w \in Workers, Drain(w) \/ DrainFails(w)
  PROVE  Sound(e)'
<1>1. /\ UNCHANGED <<status, workerVars, delivered>>
      /\ heap' = heap \/ DrainExceeded
      /\ drained' = drained \/ drained' = [drained EXCEPT ![w] = DrainedEntries]
  BY DEF Drain, DrainFails, tableVars
<1>2. heap[e] = 0 /\ \A v \in Workers : drained[v][e] = 0
  BY DEF Sound, NeverCounted
<1>3. heap'[e] = 0
  BY <1>1, <1>2, NothingDrained
<1>4. \A v \in Workers : drained'[v][e] = 0
  BY <1>1, <1>2, NothingDrained DEF Inv, TypeOK
<1> QED
  BY <1>1, <1>3, <1>4, RowsCopy

\* The invariant is kept by a quarantine.
LEMMA QuarantineCopy ==
  ASSUME Inv, NEW e \in Events, Sound(e), NEW w \in Workers, Quarantine(w) \/ QuarantineFails(w)
  PROVE  Sound(e)'
<1>1. /\ UNCHANGED <<heap, workerVars, delivered>>
      /\ status' = status \/ QuarantineEvents(drained[w])
      /\ drained' = [drained EXCEPT ![w] = NoEntries]
  BY DEF Quarantine, QuarantineFails, tableVars
<1>2. heap[e] = 0 /\ \A v \in Workers : drained[v][e] = 0
  BY DEF Sound, NeverCounted
<1>3. status'[e] = status[e]
  BY <1>1, <1>2 DEF QuarantineEvents
<1>4. \A v \in Workers : drained'[v][e] = 0
  BY <1>1, <1>2 DEF Inv, TypeOK, NoEntries
<1> QED
  BY <1>1, <1>2, <1>3, <1>4, RowsCopy

\* The invariant is kept by a collection.
LEMMA CollectCopy ==
  ASSUME NEW e \in Events, Sound(e), CollectGarbage
  PROVE  Sound(e)'
<1>1. UNCHANGED <<heap, drained, workerVars, delivered>>
  BY DEF CollectGarbage
<1>2. status'[e] = status[e] \/ (status[e] = "Sent" /\ status'[e] = "Gone")
  <2>1. PICK S \in SUBSET Garbage : status' = [f \in Events |-> IF f \in S THEN "Gone" ELSE status[f]]
    BY DEF CollectGarbage, DeleteGarbage
  <2> QED
    <3>1. CASE e \in S
      BY <2>1, <3>1 DEF Garbage
    <3>2. CASE e \notin S
      BY <2>1, <3>2
    <3> QED
      BY <3>1, <3>2
<1> QED
  BY <1>1, <1>2, RowsCopy DEF Sound, NeverCounted

\* The invariant is kept by an insert.
LEMMA InsertCopy ==
  ASSUME Inv, NEW e \in Events, Sound(e), NEW f \in Events, Insert(f)
  PROVE  Sound(e)'
<1>1. UNCHANGED <<heap, drained, workerVars, delivered>>
  BY DEF Insert
<1>2. status'[e] = status[e] \/ status[e] = "New"
  BY DEF Insert, InsertEvent, Inv, TypeOK, TableTypeOK
<1> QED
  BY <1>1, <1>2, RowsCopy DEF Sound, NeverCounted

\* The invariant is kept by the clock.
LEMMA TickCopy ==
  ASSUME Inv, Doubt, NEW e \in Events, e \notin doubtful', Sound(e), Tick
  PROVE  Sound(e)'
<1>1. /\ UNCHANGED <<status, heap, todo, counting, successes, drained, delivered>>
      /\ lease' = [w \in Workers |-> IF lease[w] >= 0 THEN lease[w] - 1 ELSE -1]
  BY DEF Tick, PassTime
<1>2. \A w \in Workers : Held(w)' = Held(w)
  BY <1>1 DEF Held
<1>3. HeldLive(e)'
  <2>1. SUFFICES ASSUME NEW w \in Workers, e \in Held(w) PROVE lease'[w] >= 0
    BY <1>1, <1>2 DEF HeldLive, Sound
  <2>2. lease[w] >= 0 /\ lease[w] \in -1..LockTimeout
    BY <2>1 DEF Sound, HeldLive, Inv, TypeOK
  <2>3. ~(lease'[w] < 0)
    BY <1>2, <2>1, <2>2, NoDoubt DEF LateDoubt
  <2>4. lease'[w] = lease[w] - 1
    BY <1>1, <2>2
  <2> QED
    BY <2>2, <2>3, <2>4
<1> QED
  BY <1>1, <1>3 DEF Sound, NeverCounted, CountedOk, FirstTime, Marked

-----------------------------------------------------------------------------
\* Every step keeps the invariant.
LEMMA StepCopy == Inv /\ Inv' /\ CopyInv /\ [RNext]_rvars => CopyInv'
<1>1. SUFFICES ASSUME Inv, Inv', CopyInv, [RNext]_rvars, NEW e \in Events, e \notin doubtful'
               PROVE  Sound(e)'
  <2>1. (\A e \in Events \ doubtful' : Sound(e)') => CopyInv'
    BY DEF CopyInv, Sound, NeverCounted, HeldLive, CountedOk, FirstTime, Marked
  <2> QED
    BY <2>1
<1>2. CASE UNCHANGED rvars
  <2>1. Sound(e)
    BY <1>1, <1>2, CopyInvParts DEF rvars
  <2> QED
    BY <1>2, <2>1 DEF rvars, vars, tableVars, workerVars, Sound, NeverCounted, HeldLive,
                      CountedOk, FirstTime, Marked, Held
<1>3. CASE RNext
  <2>1. Doubt /\ Next
    BY <1>3 DEF RNext
  <2>2. Sound(e)
    BY <1>1, <2>1, NoDoubt, CopyInvParts
  <2>3. CASE \E f \in Events : Insert(f)
    BY <1>1, <2>2, <2>3, InsertCopy
  <2>4. CASE \E w \in Workers : Work(w)
    BY <1>1, <2>1, <2>2, <2>4, FetchCopy, PublishOkCopy, PublishErrCopy, RecordCopy, MarkCopy DEF Work
  <2>5. CASE \E w \in Workers : Reap(w)
    BY <1>1, <2>2, <2>5, DrainCopy, QuarantineCopy DEF Reap
  <2>6. CASE \E w \in Workers : Break(w)
    BY <1>1, <2>1, <2>2, <2>6, FetchFailsCopy, RecordFailsCopy, MarkFailsCopy, DrainCopy,
       QuarantineCopy, AbandonCopy DEF Break
  <2>7. CASE CollectGarbage
    BY <2>2, <2>7, CollectCopy
  <2>8. CASE Tick
    BY <1>1, <2>1, <2>2, <2>8, TickCopy
  <2> QED
    BY <2>1, <2>3, <2>4, <2>5, <2>6, <2>7, <2>8 DEF Next
<1> QED
  BY <1>1, <1>2, <1>3

\* The record of what went wrong changes nothing: Inv holds here, too.
LEMMA ImplementsProcessing == RSpec => Spec
<1>1. RInit => Init
  BY DEF RInit
<1>2. [RNext]_rvars => [Next]_vars
  BY DEF RNext, rvars
<1> QED
  BY <1>1, <1>2, PTL DEF RSpec, Spec

\* What CopiesHaveACause rests on holds at every moment.
THEOREM CopiesSound == RSpec => []CopyInv
<1>1. RSpec => []Inv
  BY ImplementsProcessing, Invariant
<1> QED
  BY <1>1, InitCopy, StepCopy, PTL DEF RSpec

\* A step that adds e to success_ids is a publish of e that returned Ok.
LEMMA OnlyPublishDelivers ==
  ASSUME Inv, [RNext]_rvars, NEW w \in Workers, NEW e \in successes'[w] \ successes[w]
  PROVE  e \in todo[w]
<1>0. Inv => TypeOK
  BY DEF Inv
<1>1. CASE UNCHANGED successes
  BY <1>1
<1>2. CASE \E v \in Workers : DropBatch(v)
  BY <1>0, <1>2 DEF DropBatch, TypeOK
<1>3. CASE \E v \in Workers :
            Fetch(v) \/ Record(v) \/ Reap(v) \/ FetchFails(v) \/ DrainFails(v) \/ QuarantineFails(v)
  <2>1. UNCHANGED successes
    BY <1>3 DEF Fetch, Record, Reap, Drain, Quarantine, FetchFails, DrainFails, QuarantineFails,
                workerVars
  <2> QED
    BY <2>1
<1>4. CASE \E v \in Workers : PublishOk(v)
  <2>1. PICK v \in Workers : PublishOk(v)
    BY <1>4
  <2>2. PICK f \in todo[v] : EndPublish(v, f, successes[v] \cup {f})
    BY <2>1 DEF PublishOk, Acknowledged
  <2>3. successes' = [successes EXCEPT ![v] = successes[v] \cup {f}]
    BY <2>2 DEF EndPublish
  <2> QED
    BY <1>0, <2>2, <2>3 DEF TypeOK
<1>5. CASE \E v \in Workers : PublishErr(v)
  <2>1. PICK v \in Workers : successes' = [successes EXCEPT ![v] = successes[v]]
    BY <1>5 DEF PublishErr, Unacknowledged, Acknowledged, EndPublish
  <2> QED
    BY <1>0, <2>1 DEF TypeOK
<1>6. CASE (\E f \in Events : Insert(f)) \/ CollectGarbage \/ Tick \/ UNCHANGED rvars
  <2>1. UNCHANGED successes
    BY <1>6 DEF Insert, CollectGarbage, Tick, rvars, vars, workerVars
  <2> QED
    BY <2>1
<1> QED
  BY <1>2, <1>3, <1>4, <1>5, <1>6 DEF RNext, Next, Work, Reap, Break, Mark, MarkFails,
     RecordFails, Crash, Leave, Abandon

\* Nothing but a publish that returned an error, a fault or a return
\* between publish and mark, or a lease that ran out makes the broker get an event twice.
THEOREM CopiesExplained == RSpec => CopiesHaveACause
<1>1. RSpec => []Inv
  BY ImplementsProcessing, Invariant
<1>2. Inv /\ CopyInv /\ [RNext]_rvars =>
        [\A w \in Workers : \A e \in successes'[w] \ successes[w] :
            e \in delivered => e \in doubtful]_rvars
  <2>1. SUFFICES ASSUME Inv, CopyInv, [RNext]_rvars, NEW w \in Workers,
                        NEW e \in successes'[w] \ successes[w], e \in delivered
                 PROVE  e \in doubtful
    OBVIOUS
  <2>2. e \in todo[w]
    BY <2>1, OnlyPublishDelivers
  <2>3. e \in Events
    BY <2>1, <2>2 DEF Inv, TypeOK
  <2> QED
    BY <2>1, <2>2, <2>3 DEF CopyInv
<1> QED
  BY <1>1, <1>2, CopiesSound, PTL DEF RSpec, CopiesHaveACause
=============================================================================
