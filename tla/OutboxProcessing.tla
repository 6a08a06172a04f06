-------------------------- MODULE OutboxProcessing --------------------------
(***************************************************************************)
(* Several processes that share one outbox table, one broker and one set   *)
(* of failure counters.  Each process runs OutboxProcessor (fetch a batch, *)
(* publish it event by event, mark it), the DLQ reaper and the garbage     *)
(* collector.  Every call to the storage, the broker or the counters is a  *)
(* step of its own, and between two of them anything may happen elsewhere: *)
(* another process claims the same rows, the clock moves, a process dies.  *)
(***************************************************************************)
EXTENDS OutboxTable, DlqHeap

CONSTANTS
    Workers,       \* the processes
    DlqProcesses,  \* those of them built with the cargo feature `dlq`
    Poison,        \* the events the broker refuses for ever
    FaultKinds,    \* what may go wrong, a subset of AllFaults
    MaxFaults      \* bound: how many faults a behaviour has, returns aside

AllFaults == {"return", "crash", "fetch", "heap", "mark", "drain", "quarantine"}

ASSUME ProcessingAssumption ==
    /\ Poison \subseteq Events
    /\ FaultKinds \subseteq AllFaults
    /\ MaxFaults \in Nat

ASSUME DeploymentAssumption ==
    /\ IsFiniteSet(Workers)
    /\ DlqProcesses \subseteq Workers

VARIABLES
    pc,         \* the next call of process_pending_events
    todo,       \* the events of the batch still to publish
    counting,   \* the event just published whose outcome is not counted yet
    successes,  \* success_ids
    drained,    \* the entries the reaper holds between drain and quarantine
    delivered,  \* the events the broker has accepted at least once
    failed,     \* ghost: how many publish calls failed, of each event
    lease,      \* ghost: what is left of the lease of the batch in hand
    faults      \* ghost: how many faults happened

workerVars == <<pc, todo, counting, successes, lease>>
vars == <<tableVars, heap, workerVars, drained, delivered, failed, faults>>

NoEntries == [e \in Events |-> 0]

TypeOK ==
    /\ TableTypeOK
    /\ HeapTypeOK
    /\ pc \in [Workers -> {"idle", "publish", "record", "mark"}]
    /\ todo \in [Workers -> SUBSET Events]
    /\ counting \in [Workers -> SUBSET Events]
    /\ successes \in [Workers -> SUBSET Events]
    /\ drained \in [Workers -> [Events -> 0..MaxFailures]]
    /\ delivered \in SUBSET Events
    /\ failed \in [Events -> 0..MaxFailures]
    /\ lease \in [Workers -> -1..LockTimeout]
    /\ faults \in 0..MaxFaults

Init ==
    /\ TableInit
    /\ HeapInit
    /\ pc = [w \in Workers |-> "idle"]
    /\ todo = [w \in Workers |-> {}]
    /\ counting = [w \in Workers |-> {}]
    /\ successes = [w \in Workers |-> {}]
    /\ drained = [w \in Workers |-> NoEntries]
    /\ delivered = {}
    /\ failed = NoEntries
    /\ lease = [w \in Workers |-> -1]
    /\ faults = 0

\* The events process w has claimed and not yet disposed of.
Held(w) == todo[w] \cup counting[w] \cup successes[w]

\* A fault of this kind may still happen, and does.
Possible(kind) == kind \in FaultKinds /\ faults < MaxFaults
Fault(kind) == Possible(kind) /\ faults' = faults + 1

-----------------------------------------------------------------------------
(* The producer. *)

Insert(e) ==
    /\ InsertEvent(e)
    /\ UNCHANGED <<heap, workerVars, drained, delivered, failed, faults>>

-----------------------------------------------------------------------------
(* process_pending_events and event_publish, of process w. *)

\* Rows that FOR UPDATE SKIP LOCKED may find locked: those of an update_status
\* or of a quarantine that another process is executing, or of a claim that will
\* fail (one that succeeds may as well have come before).
LockedByOthers(w) ==
    {e \in Events : \E v \in Workers \ {w} :
        \/ pc[v] = "mark" /\ e \in successes[v]
        \/ drained[v][e] > 0
        \/ pc[v] = "idle" /\ Possible("fetch")}

\* The rows a claim of w may return.
Batches(w) ==
    UNION {Oldest(Claimable \ skipped) : skipped \in SUBSET (LockedByOthers(w) \cap Claimable)}

\* An empty batch is Ok(0): w goes back to waiting.
Fetch(w) ==
    /\ pc[w] = "idle"
    /\ \E S \in Batches(w) :
        /\ Claim(S)
        /\ todo' = [todo EXCEPT ![w] = S]
        /\ pc' = [pc EXCEPT ![w] = IF S = {} THEN "idle" ELSE "publish"]
        /\ lease' = [lease EXCEPT ![w] = IF S = {} THEN @ ELSE LockTimeout]
    /\ UNCHANGED <<heap, counting, successes, drained, delivered, failed, faults>>

\* The query fails; the rows may have been claimed and the answer lost.
FetchFails(w) ==
    /\ pc[w] = "idle"
    /\ Fault("fetch")
    /\ \E S \in Batches(w) \cup {{}} : Claim(S)
    /\ UNCHANGED <<heap, workerVars, drained, delivered, failed>>

\* Where the loop goes when the batch has `rest` left and `ok` published.
After(rest, ok) ==
    IF rest # {} THEN "publish" ELSE IF ok # {} THEN "mark" ELSE "idle"

\* Mutant: the id is pushed to success_ids whatever publish returned.
EndPublishAnyway(w, e, ok) ==
    /\ todo' = [todo EXCEPT ![w] = @ \ {e}]
    /\ successes' = [successes EXCEPT ![w] = ok \cup {e}]
    /\ counting' = [counting EXCEPT ![w] = IF w \in DlqProcesses THEN {e} ELSE {}]
    /\ pc' = [pc EXCEPT ![w] = IF w \in DlqProcesses THEN "record" ELSE After(todo[w] \ {e}, ok \cup {e})]

\* The end of one iteration of the loop, with `ok` the success_ids by then.
EndPublish(w, e, ok) ==
    /\ todo' = [todo EXCEPT ![w] = @ \ {e}]
    /\ successes' = [successes EXCEPT ![w] = ok]
    /\ counting' = [counting EXCEPT ![w] = IF w \in DlqProcesses THEN {e} ELSE {}]
    /\ pc' = [pc EXCEPT ![w] = IF w \in DlqProcesses THEN "record" ELSE After(todo[w] \ {e}, ok)]

\* The broker acknowledges a record: it has it.
Acknowledged(e) == e \notin Poison /\ delivered' = delivered \cup {e}

\* It refused the record, or never saw it, or its acknowledgement was lost or late.
Unacknowledged(e) == UNCHANGED delivered \/ Acknowledged(e)

\* publish returns Ok.
PublishOk(w) ==
    /\ pc[w] = "publish"
    /\ \E e \in todo[w] :
        /\ EndPublish(w, e, successes[w] \cup {e})
        /\ Acknowledged(e)
    /\ UNCHANGED <<tableVars, heap, lease, drained, failed, faults>>

\* publish returns Err; the broker may have the event all the same.
PublishErr(w) ==
    /\ pc[w] = "publish"
    /\ \E e \in todo[w] :
        /\ e \in Poison \/ failed[e] < MaxFailures
        /\ EndPublish(w, e, successes[w])
        /\ failed' = [failed EXCEPT ![e] = CountUp(failed[e])]
        /\ Unacknowledged(e)
    /\ UNCHANGED <<tableVars, heap, lease, drained, faults>>

\* Mutant: the outcome is not looked at.
CountAsFailure(w) == \E e \in counting[w] : RecordFailure(e)

\* record_success or record_failure, by the outcome of the publish.
CountOutcome(w) ==
    \E e \in counting[w] : IF e \in successes[w] THEN RecordSuccess(e) ELSE RecordFailure(e)

Record(w) ==
    /\ pc[w] = "record"
    /\ CountOutcome(w)
    /\ counting' = [counting EXCEPT ![w] = {}]
    /\ pc' = [pc EXCEPT ![w] = After(todo[w], successes[w])]
    /\ UNCHANGED <<tableVars, todo, successes, lease, drained, delivered, failed, faults>>

\* Mutant: success_ids survives into the next batch.
KeepIds(w) ==
    /\ pc' = [pc EXCEPT ![w] = "idle"]
    /\ todo' = [todo EXCEPT ![w] = {}]
    /\ counting' = [counting EXCEPT ![w] = {}]
    /\ lease' = [lease EXCEPT ![w] = -1]
    /\ UNCHANGED successes

\* process_pending_events returns Err: what it knew of the batch is dropped.
DropBatch(w) ==
    /\ pc' = [pc EXCEPT ![w] = "idle"]
    /\ todo' = [todo EXCEPT ![w] = {}]
    /\ counting' = [counting EXCEPT ![w] = {}]
    /\ successes' = [successes EXCEPT ![w] = {}]
    /\ lease' = [lease EXCEPT ![w] = -1]

\* The call to the counters fails (it may have been applied), and `?` returns.
RecordFails(w) ==
    /\ pc[w] = "record"
    /\ Fault("heap")
    /\ UNCHANGED heap \/ CountOutcome(w)
    /\ DropBatch(w)
    /\ UNCHANGED <<tableVars, drained, delivered, failed>>

Mark(w) ==
    /\ pc[w] = "mark"
    /\ UpdateStatus(successes[w])
    /\ DropBatch(w)
    /\ UNCHANGED <<heap, drained, delivered, failed, faults>>

MarkFails(w) ==
    /\ pc[w] = "mark"
    /\ Fault("mark")
    /\ UNCHANGED tableVars \/ UpdateStatus(successes[w])
    /\ DropBatch(w)
    /\ UNCHANGED <<heap, drained, delivered, failed>>

-----------------------------------------------------------------------------
(* One tick of DlqProcessor::run, of process w. *)

Drain(w) ==
    /\ w \in DlqProcesses
    /\ drained[w] = NoEntries
    /\ DrainExceeded
    /\ drained' = [drained EXCEPT ![w] = DrainedEntries]
    /\ UNCHANGED <<tableVars, workerVars, delivered, failed, faults>>

\* The script fails, or its answer is lost or does not parse.
DrainFails(w) ==
    /\ w \in DlqProcesses
    /\ drained[w] = NoEntries
    /\ Fault("drain")
    /\ UNCHANGED heap \/ DrainExceeded
    /\ UNCHANGED <<tableVars, workerVars, drained, delivered, failed>>

Quarantine(w) ==
    /\ drained[w] # NoEntries
    /\ QuarantineEvents(drained[w])
    /\ drained' = [drained EXCEPT ![w] = NoEntries]
    /\ UNCHANGED <<heap, workerVars, delivered, failed, faults>>

\* The statement fails, or its answer is lost: logged, and the entries are gone.
QuarantineFails(w) ==
    /\ drained[w] # NoEntries
    /\ Fault("quarantine")
    /\ UNCHANGED tableVars \/ QuarantineEvents(drained[w])
    /\ drained' = [drained EXCEPT ![w] = NoEntries]
    /\ UNCHANGED <<heap, workerVars, delivered, failed>>

-----------------------------------------------------------------------------
\* One tick of GarbageCollector::run, of any process; its errors are discarded.
CollectGarbage ==
    /\ DeleteGarbage
    /\ UNCHANGED <<heap, workerVars, drained, delivered, failed, faults>>

\* Nothing of the process survives but what it shared.
Abandon(w) ==
    /\ DropBatch(w)
    /\ drained' = [drained EXCEPT ![w] = NoEntries]
    /\ UNCHANGED <<tableVars, heap, delivered, failed>>

\* The process dies and is started again.
Crash(w) == Fault("crash") /\ Abandon(w)

\* Its main() returns: no fault, and as often as programs do.
Leave(w) == "return" \in FaultKinds /\ Abandon(w) /\ UNCHANGED faults

Tick ==
    /\ PassTime
    /\ lease' = [w \in Workers |-> IF lease[w] >= 0 THEN lease[w] - 1 ELSE -1]
    /\ UNCHANGED <<heap, pc, todo, counting, successes, drained, delivered, failed, faults>>

Work(w) == Fetch(w) \/ PublishOk(w) \/ PublishErr(w) \/ Record(w) \/ Mark(w)

Reap(w) == Drain(w) \/ Quarantine(w)

Break(w) ==
    \/ FetchFails(w) \/ RecordFails(w) \/ MarkFails(w)
    \/ DrainFails(w) \/ QuarantineFails(w) \/ Crash(w) \/ Leave(w)

Next ==
    \/ \E e \in Events : Insert(e)
    \/ \E w \in Workers : Work(w) \/ Reap(w) \/ Break(w)
    \/ CollectGarbage
    \/ Tick

Spec == Init /\ [][Next]_vars

-----------------------------------------------------------------------------
(* Safety. *)

\* An event whose insert was committed is never lost: it is in the outbox, or
\* the broker has it, or it lies in the dead letter table.  What could break it
\* is a row marked Sent for an event nobody delivered, or deleted before.
NoLoss ==
    \A e \in Events : status[e] = "Gone" => e \in delivered \/ dead[e] > 0

\* A row is marked Sent only when the broker has the event, through every
\* batch that failed half way and every event that two workers held.
SentIsDelivered ==
    \A e \in Events : status[e] = "Sent" => e \in delivered

\* quarantine_events moves: no event is both a row and a dead letter.
OneHome ==
    \A e \in Events : dead[e] > 0 => status[e] = "Gone"

\* Two processes hold the same event only when the lease of one of them has
\* run out: the claim is exclusive for as long as its lock lasts.
LeaseExclusion ==
    \A v, w \in Workers :
        v # w /\ Held(v) \cap Held(w) # {} => lease[v] < 0 \/ lease[w] < 0

\* A dead letter carries a count that reached the threshold, and at least that
\* many publish calls of the event really failed.
DeadJustified ==
    \A e \in Events : dead[e] > 0 => dead[e] >= Threshold /\ dead[e] <= failed[e]

(* The inductive invariant: what the properties above rest on. *)

\* The rows and dead letters, on their own.
RowsInv ==
    /\ NoLoss
    /\ SentIsDelivered
    /\ OneHome
    /\ \A e \in Events : dead[e] > 0 => dead[e] >= Threshold

\* What a process has in hand was claimed, success_ids holds nothing that the
\* broker refused, and between two batches a process has nothing in hand.
HandsInv ==
    /\ \A w \in Workers : \A e \in Held(w) : status[e] \notin {"New", "Pending"}
    /\ \A w \in Workers : successes[w] \subseteq delivered
    /\ \A w \in Workers : pc[w] = "idle" => Held(w) = {}

\* While it lasts, the lease in hand is the one in the table.
LeaseInv ==
    /\ LeaseExclusion
    /\ \A w \in Workers : \A e \in Held(w) :
        lease[w] >= 0 /\ status[e] = "Processing" => lock[e] = lease[w]

\* Only claimed rows are counted, and the reaper holds nothing under the threshold.
CountsInv ==
    /\ \A e \in Events : heap[e] > 0 => status[e] \notin {"New", "Pending"}
    /\ \A w \in Workers, e \in Events : drained[w][e] > 0 =>
        status[e] \notin {"New", "Pending"} /\ drained[w][e] >= Threshold

\* The processes with a failure of e that the counters have not been told of.
Uncounted(e) == {w \in Workers : e \in counting[w] \ successes[w]}

\* A failure is counted once at most, whoever counts it and whatever is lost: the
\* counter with what is still to be counted, the entries of the reapers and the
\* dead letter stay within the publish calls that failed.
FailuresInv ==
    \A e \in Events :
        /\ failed[e] = MaxFailures \/ heap[e] + Cardinality(Uncounted(e)) <= failed[e]
        /\ \A w \in Workers : drained[w][e] <= failed[e]
        /\ dead[e] <= failed[e]

Inv == TypeOK /\ RowsInv /\ HandsInv /\ LeaseInv /\ CountsInv

(* Steps. *)

\* The life of a row: claimed before anything else happens to it, never
\* released to Pending, never taken out of Sent but by its deletion, and never
\* back after that.
LegalSteps ==
    {<<"New", "Pending">>, <<"Pending", "Processing">>, <<"Processing", "Sent">>,
     <<"Processing", "Gone">>, <<"Sent", "Gone">>}

RowStep(e) == status'[e] = status[e] \/ <<status[e], status'[e]>> \in LegalSteps

RowLifecycle == [][\A e \in Events : RowStep(e)]_vars

\* A row that is Sent, an event the broker has accepted, leaves the outbox by
\* garbage collection only, never for the dead letter table.
SentLeavesByGc ==
    [][\A e \in Events : status[e] = "Sent" /\ status'[e] = "Gone" => dead'[e] = 0]_vars

\* A publish that failed does not stop the siblings of its batch: counting the
\* failure never sends the worker back to waiting with events left to publish.
SiblingsStillProcessed ==
    [][\A w \in Workers :
        pc[w] = "record" /\ counting[w] \cap successes[w] = {} /\ pc'[w] = "idle"
            => todo[w] = {}]_vars

-----------------------------------------------------------------------------
(* Liveness. *)

Fairness ==
    /\ \A w \in Workers :
        /\ WF_vars(Fetch(w))
        /\ WF_vars(PublishOk(w) \/ PublishErr(w))
        /\ WF_vars(Record(w))
        /\ WF_vars(Mark(w))
        /\ WF_vars(Drain(w))
        /\ WF_vars(Quarantine(w))
    /\ WF_vars(CollectGarbage)
    /\ WF_vars(Tick)

FairSpec == Spec /\ Fairness

\* Every recorded event leaves the outbox: published, marked and collected, or
\* quarantined, whatever batches were lost on the way.
OutboxDrains ==
    \A e \in Events : status[e] = "Pending" ~> status[e] = "Gone"

-----------------------------------------------------------------------------
(* Refinement. *)

\* Where AtLeastOnce sees an event, from its row and its dead letter.
PlaceOf(e) ==
    CASE status[e] = "New"                -> "nowhere"
      [] status[e] \in {"Pending", "Processing", "Sent"} -> "outbox"
      [] status[e] = "Gone" /\ dead[e] > 0 -> "deadLetters"
      [] status[e] = "Gone" /\ dead[e] = 0 -> "forgotten"

Promise ==
    INSTANCE AtLeastOnce WITH place <- [e \in Events |-> PlaceOf(e)], delivered <- delivered

\* The processes together keep the promise of AtLeastOnce: whatever they do to
\* the tables is recording, delivering, burying or forgetting events.
KeepsPromise == Promise!Spec
=============================================================================
