--------------------------- MODULE UnitTests_proofs ---------------------------
(***************************************************************************)
(* Proof that the assertions of the unit tests hold in every schedule, for *)
(* any batch size that takes the rows of a test, any threshold above one   *)
(* failure, any lease, retention and collection limit, and any number of   *)
(* processes beside the one under test.                                    *)
(***************************************************************************)
EXTENDS UnitTests, OutboxSystem_proofs

USE ConfigAssumption, ProcessingAssumption, TestsAssumption

-----------------------------------------------------------------------------
(* The invariant. *)

\* What the proof uses of the record of a test.
Worked == test.subject \in {"batch", "run"}

Shape(t) ==
    /\ t.subject \in {"batch", "run", "gc", "dlq", "build"}
    /\ t.rows \subseteq Events /\ t.later \subseteq Events /\ t.rows \cap t.later = {}
    /\ t.refused \subseteq t.rows
    /\ t.requested \in BOOLEAN /\ t.failures \in 0..MaxFailures
    /\ t.wired \subseteq FullyWired
    /\ t.sends.call \in {"fetch", "mark", "drain", "garbage"} /\ t.sends.nth \in Nat
    /\ t.subject \in {"batch", "run"} =>
        /\ t.failures = 0 /\ t.breaks \in {"none", "fetch", "mark"}
        /\ t.breaks = "fetch" => t.rows \cup t.later = {}
        /\ t.later # {} => t.refused = {} /\ t.subject = "run"
    /\ t.subject = "batch" => t.script = <<>> /\ ~t.requested
    /\ t.subject = "run" => t.script = <<"start", "shutdown">> /\ t.breaks \in {"none", "fetch"}
    /\ t.subject \in {"gc", "dlq"} => t.script = <<"shutdown">> /\ ~t.requested /\ t.later = {}
    /\ t.subject = "dlq" => t \in DlqTests /\ t.breaks \in {"none", "quarantine"}
    /\ t.subject = "build" => t.script = <<"start">>

\* The variables are well typed, those of the harness, too.
TestTypeOK ==
    /\ TypeOK /\ SysTypeOK
    /\ test \in Tests /\ mine \in Workers
    /\ test \in DlqTests => mine \in DlqProcesses
    /\ program = [w \in Workers |-> ProgramOf(test)]
    /\ arranged \in BOOLEAN
    /\ calls \in [{"fetch", "publish", "success", "failure", "mark",
                   "drain", "quarantine", "garbage"} -> 0..MaxCalls]

\* Nobody else is there, no time passes, and no lease runs out.
Alone ==
    /\ \A w \in Workers \ {mine} : pc[w] = "idle" /\ drained[w] = NoEntries
    /\ \A e \in Events : age[e] = 0
    /\ Poison \cap delivered = {}
    /\ \A e \in Events : status[e] = "Processing" => lock[e] >= 0

\* The events the worker has claimed, published and counted.
Claimed == {e \in Events : status[e] \in {"Processing", "Sent"}}
Published == Claimed \ todo[mine]
Tallied == Published \ counting[mine]

\* Marked, or given to the update that failed.
Unmarked == test.breaks = "mark" /\ faults > 0
Marked(e) == status[e] = "Sent" \/ (Unmarked /\ e \in Claimed \ test.refused)

One(b) == IF b THEN 1 ELSE 0
Size(S) == One(e1 \in S) + One(e2 \in S) + One(e3 \in S) + One(e4 \in S)

\* Before the test has arranged its mocks, nothing has happened.
Untouched ==
    /\ \A e \in Events : status[e] = "New" /\ heap[e] = 0 /\ dead[e] = 0
    /\ pc[mine] = "idle" /\ drained[mine] = NoEntries
    /\ todo[mine] = {} /\ counting[mine] = {} /\ successes[mine] = {}
    /\ at[mine] = 1 /\ main[mine] = "off" /\ tasks[mine] = {} /\ ~flag[mine]
    /\ faults = 0 /\ \A c \in DOMAIN calls : calls[c] = 0

\* Which rows there are, and which of them were claimed, by the number of claims.
Rows ==
    /\ \A e \in Events : status[e] \in {"New", "Pending", "Processing", "Sent"} /\ dead[e] = 0
    /\ \A e \in test.rows : status[e] # "New"
    /\ \A e \in Events : status[e] # "New" => e \in test.rows \cup test.later
    /\ \A e \in test.later : status[e] # "New" => calls["fetch"] > 0
    /\ calls["fetch"] = 0 => Claimed = {}
    /\ calls["fetch"] <= 1 => Claimed \cap test.later = {}
    /\ calls["fetch"] > 0 => test.rows \subseteq Claimed
    /\ calls["fetch"] > 1 => test.later \subseteq Claimed
    /\ Claimed \cap test.later # {} =>
        \A e \in test.rows \ test.refused : status[e] = "Sent"

\* What the worker has in hand: claimed rows, and among the published ones those
\* that the transport took.
InHand ==
    /\ \A e \in Held(mine) : status[e] = "Processing"
    /\ todo[mine] \cap successes[mine] = {} /\ successes[mine] \cap test.refused = {}
    /\ counting[mine] \subseteq Published
    /\ \A e \in Published \ test.refused :
        status[e] = "Sent" \/ e \in successes[mine] \/ Unmarked
    /\ \A e \in test.refused : status[e] # "Sent"

\* ... by the call it makes next.
AtCall ==
    /\ counting[mine] # {} => mine \in DlqProcesses /\ pc[mine] = "record"
    /\ pc[mine] = "idle" => todo[mine] = {} /\ successes[mine] = {}
    /\ pc[mine] = "publish" => todo[mine] # {}
    /\ pc[mine] = "record" => \E e \in Events : counting[mine] = {e}
    /\ pc[mine] = "mark" => todo[mine] = {} /\ successes[mine] # {}

\* A batch has all the rows there are, or all the later ones.
WholeBatch ==
    /\ (todo[mine] \cup successes[mine]) \cap test.rows # {} =>
        \A e \in test.rows : status[e] = "Processing"
    /\ (todo[mine] \cup successes[mine]) \cap test.later # {} =>
        \A e \in test.later : status[e] = "Processing"

\* Only the mock that is told to fails, and it does so the first time.
Broken ==
    /\ faults > 0 => test.breaks # "none"
    /\ test.breaks = "fetch" /\ faults = 0 => calls["fetch"] = 0
    /\ test.breaks = "mark" /\ faults = 0 => \A e \in Events : status[e] # "Sent"

Hands == InHand /\ AtCall /\ WholeBatch /\ Broken

\* How often each mock was called.
Tallies ==
    /\ calls["publish"] = Size(Published)
    /\ calls["success"] = IF mine \in DlqProcesses THEN Size(Tallied \ test.refused) ELSE 0
    /\ calls["failure"] = IF mine \in DlqProcesses THEN Size(Tallied \cap test.refused) ELSE 0
    /\ calls["mark"] =
        One(\E e \in test.rows : Marked(e)) + One(\E e \in test.later : Marked(e))
    /\ \A e \in Events : heap[e] = 0 \/ (heap[e] = 1 /\ e \in Tallied)
    /\ drained[mine] = NoEntries

\* Where the loop is, in a test of one batch and in one of run().
Loop ==
    /\ Unmarked => main[mine] = "waiting"
    /\ pc[mine] # "idle" => main[mine] = "batch"
    /\ test.subject = "batch" =>
        /\ tasks[mine] = {} /\ ~flag[mine] /\ at[mine] = 1 /\ calls["drain"] = 0
        /\ \/ main[mine] = "batch" /\ calls["fetch"] = One(pc[mine] # "idle")
           \/ main[mine] = "waiting" /\ pc[mine] = "idle" /\ calls["fetch"] = 1
    /\ test.subject = "run" =>
        /\ at[mine] = 1 => main[mine] = "off"
        /\ flag[mine] => test.requested \/ calls[test.sends.call] >= test.sends.nth
        /\ main[mine] = "stopped" => flag[mine]
        /\ test.requested => flag[mine] /\ main[mine] # "batch" /\ calls["fetch"] = 0

\* The tests of the worker.
WorkerInv == Rows /\ Hands /\ Tallies /\ Loop

\* The entries that the reaper takes, if there are any.
Entries == [e \in Events |-> IF e \in test.rows THEN test.failures ELSE 0]
Hot == test.failures >= Threshold /\ test.rows # {}

\* The tests of the reaper: it drains what reached the threshold, once.
ReaperInv ==
    /\ pc[mine] = "idle" /\ main[mine] = "off" /\ tasks[mine] \subseteq {"dlq"}
    /\ flag[mine] => calls[test.sends.call] >= test.sends.nth
    /\ \A e \in Events : status[e] \in {"New", "Pending", "Gone"}
    /\ \A e \in Events : status[e] # "New" <=> e \in test.rows
    /\ \A e \in Events : dead[e] > 0 => e \in test.rows
    /\ faults > 0 => test.breaks # "none"
    /\ IF Hot /\ calls["drain"] > 0
       THEN /\ heap = NoEntries
            /\ \/ /\ drained[mine] = Entries /\ "dlq" \in tasks[mine]
                  /\ calls["quarantine"] = 0 /\ \A e \in test.rows : status[e] = "Pending"
               \/ /\ drained[mine] = NoEntries /\ calls["quarantine"] = 1
                  /\ test.breaks = "none" => \A e \in test.rows : dead[e] > 0
       ELSE /\ heap = Entries /\ drained[mine] = NoEntries /\ calls["quarantine"] = 0
            /\ \A e \in test.rows : status[e] = "Pending"
            /\ \A e \in Events : dead[e] = 0

\* The tests of the builder.
BuildInv ==
    IF at[mine] = 1 THEN main[mine] = "off"
    ELSE main[mine] = "off" <=> ~(Required(mine) \subseteq test.wired)

TestInv ==
    /\ TestTypeOK /\ Alone
    /\ IF ~arranged THEN Untouched
       ELSE /\ Worked => WorkerInv
            /\ test.subject = "dlq" => ReaperInv
            /\ test.subject = "build" => BuildInv

-----------------------------------------------------------------------------
(* The tests. *)

\* The tests of one batch have the shape that the invariant counts on.
LEMMA BatchShapes ==
  /\ Shape(empty_batch_returns_zero_and_skips_status_update)
  /\ Shape(all_publishes_succeed_updates_status_with_all_ids)
  /\ Shape(partial_publish_failure_updates_only_successful)
  /\ Shape(all_publishes_fail_skips_status_update)
  /\ Shape(fetch_error_propagates_without_publishing)
  /\ Shape(update_status_error_propagates_after_publish)
<1> USE DEF Shape, FullyWired, Setters, OneBatch
<1>1. Shape(empty_batch_returns_zero_and_skips_status_update)
  BY DEF empty_batch_returns_zero_and_skips_status_update
<1>2. Shape(all_publishes_succeed_updates_status_with_all_ids)
  BY DEF all_publishes_succeed_updates_status_with_all_ids
<1>3. Shape(partial_publish_failure_updates_only_successful)
  BY DEF partial_publish_failure_updates_only_successful
<1>4. Shape(all_publishes_fail_skips_status_update)
  BY DEF all_publishes_fail_skips_status_update
<1>5. Shape(fetch_error_propagates_without_publishing)
  BY DEF fetch_error_propagates_without_publishing
<1>6. Shape(update_status_error_propagates_after_publish)
  BY DEF update_status_error_propagates_after_publish
<1> QED
  BY <1>1, <1>2, <1>3, <1>4, <1>5, <1>6

\* The tests of run() have the shape that the invariant counts on.
LEMMA RunShapes ==
  /\ Shape(test_event_send_success)
  /\ Shape(test_publish_failure)
  /\ Shape(shutdown_set_before_run_exits_without_fetch)
  /\ Shape(inner_loop_drains_until_empty_batch)
  /\ Shape(fetch_error_inside_loop_is_recoverable)
<1> USE DEF Shape, FullyWired, Setters, OneBatch, WholeRun
<1>1. Shape(test_event_send_success)
  BY DEF test_event_send_success
<1>2. Shape(test_publish_failure)
  BY DEF test_publish_failure
<1>3. Shape(shutdown_set_before_run_exits_without_fetch)
  BY DEF shutdown_set_before_run_exits_without_fetch
<1>4. Shape(inner_loop_drains_until_empty_batch)
  BY DEF inner_loop_drains_until_empty_batch
<1>5. Shape(fetch_error_inside_loop_is_recoverable)
  BY DEF fetch_error_inside_loop_is_recoverable
<1> QED
  BY <1>1, <1>2, <1>3, <1>4, <1>5

\* The tests of the spawned tasks have the shape that the invariant counts on.
LEMMA TaskShapes ==
  /\ Shape(gc_run_exits_when_shutdown_flag_is_set_to_true)
  /\ Shape(run_invokes_collect_garbage_on_each_interval_tick)
  /\ Shape(dlq_run_exits_when_shutdown_flag_is_set_to_true)
  /\ Shape(run_drains_heap_and_forwards_to_quarantine_events)
  /\ Shape(run_skips_quarantine_when_drain_returns_empty_batch)
  /\ Shape(run_swallows_quarantine_errors_and_keeps_running)
<1> USE DEF Shape, FullyWired, Setters, OneBatch, OneTask, DlqTests
<1>1. Shape(gc_run_exits_when_shutdown_flag_is_set_to_true)
  BY DEF gc_run_exits_when_shutdown_flag_is_set_to_true
<1>2. Shape(run_invokes_collect_garbage_on_each_interval_tick)
  BY DEF run_invokes_collect_garbage_on_each_interval_tick
<1>3. Shape(dlq_run_exits_when_shutdown_flag_is_set_to_true)
  BY DEF dlq_run_exits_when_shutdown_flag_is_set_to_true
<1>4. Shape(run_drains_heap_and_forwards_to_quarantine_events)
  BY DEF run_drains_heap_and_forwards_to_quarantine_events
<1>5. Shape(run_skips_quarantine_when_drain_returns_empty_batch)
  BY DEF run_skips_quarantine_when_drain_returns_empty_batch
<1>6. Shape(run_swallows_quarantine_errors_and_keeps_running)
  BY DEF run_swallows_quarantine_errors_and_keeps_running
<1> QED
  BY <1>1, <1>2, <1>3, <1>4, <1>5, <1>6

\* The tests of the builder have the shape that the invariant counts on.
LEMMA BuildShapes ==
  /\ Shape(test_success_build)
  /\ Shape(default_builder_fails_on_build_with_config_error)
  /\ Shape(build_fails_without_storage)
  /\ Shape(build_fails_without_publisher)
  /\ Shape(build_fails_without_config)
  /\ Shape(build_fails_without_shutdown_rx)
  /\ Shape(build_fails_without_dlq_heap)
<1> USE DEF Shape, FullyWired, Setters, OneBatch, Build
<1>1. Shape(test_success_build)
  BY DEF test_success_build
<1>2. Shape(default_builder_fails_on_build_with_config_error)
  BY DEF default_builder_fails_on_build_with_config_error
<1>3. Shape(build_fails_without_storage)
  BY DEF build_fails_without_storage
<1>4. Shape(build_fails_without_publisher)
  BY DEF build_fails_without_publisher
<1>5. Shape(build_fails_without_config)
  BY DEF build_fails_without_config
<1>6. Shape(build_fails_without_shutdown_rx)
  BY DEF build_fails_without_shutdown_rx
<1>7. Shape(build_fails_without_dlq_heap)
  BY DEF build_fails_without_dlq_heap
<1> QED
  BY <1>1, <1>2, <1>3, <1>4, <1>5, <1>6, <1>7

\* Every test has.
LEMMA TestShape == \A t \in Tests : Shape(t)
BY BatchShapes, RunShapes, TaskShapes, BuildShapes DEF Tests, DlqTests

-----------------------------------------------------------------------------
(* Types, and what the rest of the world does. *)

\* A step of a test is one of the system, but for the rows that mocks make.
LEMMA StepOfTest ==
  ASSUME test \in Tests, mine \in Workers, [TNext]_tvars
  PROVE  \/ Arrange
         \/ UNCHANGED testVars /\ UNCHANGED appVars /\ \E e \in Events : Insert(e)
         \/ [SNext]_svars /\ UNCHANGED <<test, mine, arranged>>
              /\ (UNCHANGED calls \/ \E c : Counted(c))
<1>1. CASE UNCHANGED tvars
  BY <1>1 DEF tvars, testVars
<1>2. CASE StartStep
  BY <1>2 DEF StartStep, SNext, Script, testVars
<1>3. CASE MockStep
  <2>1. CASE Shutdown(mine)
    BY <1>3, <2>1 DEF MockStep, SNext, Script, testVars
  <2>2. CASE \E e \in Arriving : Insert(e) /\ UNCHANGED appVars
    <3>1. Arriving \subseteq Events
      BY TestShape DEF Arriving, Shape
    <3> QED
      BY <1>3, <2>2, <3>1 DEF MockStep
  <2> QED
    BY <1>3, <2>1, <2>2 DEF MockStep
<1>4. CASE WorkerStep
  BY <1>4 DEF WorkerStep, Counted, SNext
<1>5. CASE LoopStep
  BY <1>5 DEF LoopStep, SNext, testVars
<1>6. CASE ReaperStep
  BY <1>6 DEF ReaperStep, Counted, SNext
<1>7. CASE CollectorStep
  BY <1>7 DEF CollectorStep, Counted, SNext
<1>8. CASE StopStep
  BY <1>8 DEF StopStep, SNext, testVars
<1> QED
  BY <1>1, <1>2, <1>3, <1>4, <1>5, <1>6, <1>7, <1>8 DEF TNext

\* The counters of the harness keep their type.
LEMMA CountedType ==
  ASSUME TestTypeOK, NEW c, Counted(c)
  PROVE  /\ calls' \in [{"fetch", "publish", "success", "failure", "mark",
                         "drain", "quarantine", "garbage"} -> 0..MaxCalls]
         /\ UNCHANGED <<test, mine, arranged>>
<1> DEFINE Mocks == {"fetch", "publish", "success", "failure", "mark",
                     "drain", "quarantine", "garbage"}
<1>1. calls \in [Mocks -> 0..MaxCalls]
  BY DEF TestTypeOK
<1>2. calls' = [calls EXCEPT ![c] = IF calls[c] < MaxCalls THEN calls[c] + 1 ELSE calls[c]]
  BY DEF Counted
<1>3. calls' \in [Mocks -> 0..MaxCalls]
  <2> HIDE DEF Mocks
  <2>1. calls' = [d \in Mocks |-> IF d = c
                     THEN IF calls[d] < MaxCalls THEN calls[d] + 1 ELSE calls[d] ELSE calls[d]]
    BY <1>1, <1>2, Zenon
  <2>2. \A d \in Mocks :
          (IF calls[d] < MaxCalls THEN calls[d] + 1 ELSE calls[d]) \in 0..MaxCalls
    BY <1>1 DEF MaxCalls
  <2> QED
    BY <1>1, <2>1, <2>2
<1> QED
  BY <1>3 DEF Counted

\* Every step of a test keeps the types.
LEMMA TestTypeStep == TestTypeOK /\ [TNext]_tvars => TestTypeOK'
<1> SUFFICES ASSUME TestTypeOK, [TNext]_tvars PROVE TestTypeOK'
  OBVIOUS
<1>0. test \in Tests /\ mine \in Workers /\ Shape(test)
  BY TestShape DEF TestTypeOK
<1>1. CASE Arrange
  <2> USE <1>0, <1>1 DEF Arrange
  <2>1. TypeOK'
    <3>1. TableTypeOK'
      BY DEF TestTypeOK, TypeOK, TableTypeOK, Statuses
    <3>2. HeapTypeOK'
      BY DEF HeapTypeOK, Shape
    <3> QED
      BY <3>1, <3>2 DEF TestTypeOK, TypeOK, workerVars
  <2>2. tasks' \in [Workers -> SUBSET {"gc", "dlq"}]
    BY DEF TestTypeOK, SysTypeOK
  <2>3. ASSUME NEW w \in Workers, "dlq" \in tasks'[w] PROVE w \in DlqProcesses
    BY <2>3 DEF TestTypeOK, SysTypeOK, Shape
  <2>4. SysTypeOK'
    BY <2>2, <2>3 DEF TestTypeOK, SysTypeOK, Shape
  <2> QED
    BY <2>1, <2>4 DEF TestTypeOK
<1>2. ASSUME NEW e \in Events, Insert(e), UNCHANGED appVars, UNCHANGED testVars PROVE TestTypeOK'
  <2>1. TypeOK'
    BY <1>2, StepTypeOK DEF TestTypeOK, Next
  <2> QED
    BY <1>2, <2>1 DEF TestTypeOK, SysTypeOK, appVars, testVars
<1>3. ASSUME [SNext]_svars, UNCHANGED <<test, mine, arranged>>,
             UNCHANGED calls \/ \E c : Counted(c)
      PROVE  TestTypeOK'
  <2>1. TypeOK'
    BY <1>3, StepProcessing, StepTypeOK DEF TestTypeOK
  <2>2. SysTypeOK'
    BY <1>3, StepSysTypeOK DEF TestTypeOK
  <2>3. program' = program
    BY <1>3, ProgramStays
  <2> QED
    BY <1>3, <2>1, <2>2, <2>3, CountedType DEF TestTypeOK
<1> QED
  BY <1>0, <1>1, <1>2, <1>3, StepOfTest

\* What a step of the process under test does to the tables, the broker and the counters.
LEMMA VarsOfTest ==
  ASSUME test \in Tests, mine \in Workers, [TNext]_tvars
  PROVE  \/ Arrange
         \/ \E e \in Events : Insert(e)
         \/ UNCHANGED vars
         \/ Work(mine) \/ FetchFails(mine) \/ RecordFails(mine) \/ MarkFails(mine)
         \/ Reap(mine) \/ DrainFails(mine) \/ QuarantineFails(mine) \/ CollectGarbage
<1>1. CASE StartStep \/ LoopStep \/ StopStep \/ UNCHANGED tvars
  BY <1>1 DEF StartStep, LoopStep, StopStep, Start, Wake, StopMain, StopTask, tvars, svars
<1>2. CASE MockStep
  <2>1. Arriving \subseteq Events
    BY TestShape DEF Arriving, Shape
  <2> QED
    BY <1>2, <2>1 DEF MockStep, Shutdown
<1>3. CASE WorkerStep
  BY <1>3 DEF WorkerStep, Batch, BatchFails
<1>4. CASE ReaperStep
  BY <1>4 DEF ReaperStep, Reaper, ReaperFails
<1>5. CASE CollectorStep
  BY <1>5 DEF CollectorStep, Collector
<1> QED
  BY <1>1, <1>2, <1>3, <1>4, <1>5 DEF TNext

\* The harness keeps its test and its build.
LEMMA TestStays ==
  ASSUME test \in Tests, mine \in Workers, [TNext]_tvars
  PROVE  UNCHANGED <<test, mine>> /\ (arranged => arranged')
<1>1. CASE Arrange
  BY <1>1 DEF Arrange
<1>2. CASE UNCHANGED <<test, mine, arranged>>
  BY <1>2
<1> QED
  BY <1>1, <1>2, StepOfTest DEF testVars

\* What a step of a process does to its claims and to what the broker has.
LEMMA LeaseSteps ==
  ASSUME TypeOK, NEW w \in Workers,
         \/ Work(w) \/ FetchFails(w) \/ RecordFails(w) \/ MarkFails(w)
         \/ Reap(w) \/ DrainFails(w) \/ QuarantineFails(w) \/ CollectGarbage
  PROVE  /\ age' = age
         /\ delivered' \ delivered \subseteq Events \ Poison
         /\ \A e \in Events : status'[e] = "Processing" =>
              lock'[e] = LockTimeout \/ (status[e] = "Processing" /\ lock'[e] = lock[e])
<1>1. CASE Fetch(w) \/ FetchFails(w)
  <2>1. PICK S : Claim(S)
    BY <1>1 DEF Fetch, FetchFails
  <2>2. UNCHANGED delivered
    BY <1>1 DEF Fetch, FetchFails
  <2> QED
    BY <2>1, <2>2 DEF Claim
<1>2. CASE PublishOk(w) \/ PublishErr(w)
  BY <1>2 DEF PublishOk, PublishErr, Acknowledged, Unacknowledged, EndPublish, tableVars, TypeOK
<1>3. CASE Record(w) \/ RecordFails(w) \/ Drain(w) \/ DrainFails(w)
  BY <1>3 DEF Record, RecordFails, Drain, DrainFails, tableVars
<1>4. CASE Mark(w) \/ MarkFails(w)
  BY <1>4 DEF Mark, MarkFails, UpdateStatus, tableVars
<1>5. CASE Quarantine(w) \/ QuarantineFails(w)
  BY <1>5 DEF Quarantine, QuarantineFails, QuarantineEvents, tableVars
<1>6. CASE CollectGarbage
  BY <1>6 DEF CollectGarbage, DeleteGarbage
<1> QED
  BY <1>1, <1>2, <1>3, <1>4, <1>5, <1>6 DEF Work, Reap

\* Nobody else acts, and no time passes.
LEMMA AloneStep == TestTypeOK /\ Alone /\ [TNext]_tvars => Alone'
<1> SUFFICES ASSUME TestTypeOK, Alone, [TNext]_tvars PROVE Alone'
  OBVIOUS
<1>0. test \in Tests /\ mine \in Workers /\ TypeOK
  BY DEF TestTypeOK
<1>1. mine' = mine
  BY <1>0, TestStays
<1>2. CASE Arrange
  BY <1>1, <1>2 DEF Alone, Arrange, workerVars
<1>3. CASE \E e \in Events : Insert(e)
  BY <1>0, <1>1, <1>3 DEF Alone, Insert, InsertEvent, workerVars, TypeOK, TableTypeOK
<1>4. CASE UNCHANGED vars
  BY <1>1, <1>4 DEF Alone, vars, tableVars, workerVars
<1>5. CASE \/ Work(mine) \/ FetchFails(mine) \/ RecordFails(mine) \/ MarkFails(mine)
           \/ Reap(mine) \/ DrainFails(mine) \/ QuarantineFails(mine) \/ CollectGarbage
  <2>1. \A w \in Workers \ {mine} : pc'[w] = pc[w] /\ drained'[w] = drained[w]
    BY <1>0, <1>5, ProcessSteps
  <2>2. LockTimeout >= 0
    BY DEF ConfigAssumption
  <2>3. age' = age /\ Poison \cap delivered' = {}
    BY <1>0, <1>5, LeaseSteps DEF Alone
  <2>4. ASSUME NEW e \in Events, status'[e] = "Processing" PROVE lock'[e] >= 0
    BY <1>0, <1>5, <2>2, <2>4, LeaseSteps DEF Alone
  <2> QED
    BY <1>1, <2>1, <2>3, <2>4 DEF Alone
<1> QED
  BY <1>0, <1>2, <1>3, <1>4, <1>5, VarsOfTest

-----------------------------------------------------------------------------
(* The collector of a test. *)

\* No time passes: there is nothing to collect.
LEMMA NoGarbage ==
  ASSUME TypeOK, Alone, CollectGarbage
  PROVE  UNCHANGED vars
<1>1. Garbage = {}
  BY DEF Alone, Garbage, ConfigAssumption
<1>2. PICK S \in SUBSET Garbage :
        status' = [e \in Events |-> IF e \in S THEN "Gone" ELSE status[e]]
  BY DEF CollectGarbage, DeleteGarbage
<1>3. status' = [e \in Events |-> status[e]]
  BY <1>1, <1>2
<1>4. status' = status
  BY <1>3 DEF TypeOK, TableTypeOK
<1> QED
  BY <1>4 DEF CollectGarbage, DeleteGarbage, vars, tableVars

-----------------------------------------------------------------------------
(* Counting. *)

\* A size is a number up to four.
LEMMA SizeType == \A S : Size(S) \in 0..MaxCalls
BY DEF Size, One, MaxCalls

\* A new element counts one more.
LEMMA SizeAdd ==
  ASSUME NEW S, NEW e \in Events, e \notin S
  PROVE  Size(S) < MaxCalls /\ Size(S \cup {e}) = Size(S) + 1
BY DEF Size, One, MaxCalls

\* What a mock that is called counts.
LEMMA CallsStep ==
  ASSUME TestTypeOK, NEW c, Counted(c)
  PROVE  /\ \A d \in DOMAIN calls \ {c} : calls'[d] = calls[d]
         /\ c \in DOMAIN calls => calls'[c] = IF calls[c] < MaxCalls THEN calls[c] + 1 ELSE calls[c]
         /\ \A d \in DOMAIN calls : calls'[d] >= calls[d] /\ calls[d] \in 0..MaxCalls
BY DEF TestTypeOK, Counted, MaxCalls

-----------------------------------------------------------------------------
(* The batches of a worker, one call at a time. *)

\* Where the calls of a batch start from.
Working ==
    /\ TestTypeOK /\ Alone /\ Worked
    /\ Rows /\ Hands /\ Tallies /\ ~Unmarked

\* A claim takes every pending row.
LEMMA FetchEffect ==
  ASSUME TestTypeOK, Fetch(mine), Storage
  PROVE  /\ status' = [e \in Events |->
                         IF status[e] = "Pending" THEN "Processing" ELSE status[e]]
         /\ todo'[mine] = {e \in Events : status[e] = "Pending"}
         /\ pc[mine] = "idle" /\ pc'[mine] = IF todo'[mine] = {} THEN "idle" ELSE "publish"
         /\ UNCHANGED <<dead, heap, counting, successes, drained, faults>>
<1>1. PICK S \in Batches(mine) :
        /\ Claim(S)
        /\ todo' = [todo EXCEPT ![mine] = S]
        /\ pc' = [pc EXCEPT ![mine] = IF S = {} THEN "idle" ELSE "publish"]
  BY DEF Fetch
<1>2. S = {e \in Events : status[e] = "Pending"}
  BY <1>1 DEF Storage, TestTypeOK, TypeOK
<1>3. status' = [e \in Events |-> IF status[e] = "Pending" THEN "Processing" ELSE status[e]]
  BY <1>1, <1>2 DEF Claim
<1>4. todo'[mine] = S /\ pc'[mine] = IF S = {} THEN "idle" ELSE "publish"
  BY <1>1 DEF TestTypeOK, TypeOK
<1> QED
  BY <1>1, <1>2, <1>3, <1>4 DEF Fetch, Claim

\* A claim keeps what the invariant says of the rows, the hands and the tallies.
LEMMA FetchKeeps ==
  ASSUME Working, Arriving = {}, Fetch(mine), Storage, Counted("fetch"),
         ~(test.breaks = "fetch" /\ faults = 0)
  PROVE  Rows' /\ Hands' /\ Tallies'
<1> DEFINE P == {e \in Events : status[e] = "Pending"}
<1>0. TestTypeOK /\ Alone /\ UNCHANGED <<test, mine>> /\ Shape(test)
  BY TestShape DEF Working, Counted, TestTypeOK
<1>1. /\ status' = [e \in Events |-> IF status[e] = "Pending" THEN "Processing" ELSE status[e]]
      /\ todo'[mine] = P /\ pc[mine] = "idle"
      /\ pc'[mine] = IF P = {} THEN "idle" ELSE "publish"
      /\ UNCHANGED <<dead, heap, counting, successes, drained, faults>>
  BY <1>0, FetchEffect
<1>2. todo[mine] = {} /\ successes[mine] = {} /\ counting[mine] = {}
  BY <1>1 DEF Working, Hands, AtCall
<1>3. /\ \A c \in DOMAIN calls \ {"fetch"} : calls'[c] = calls[c]
      /\ calls["fetch"] \in 0..MaxCalls /\ calls'["fetch"] \in 0..MaxCalls
      /\ calls'["fetch"] = IF calls["fetch"] < MaxCalls THEN calls["fetch"] + 1 ELSE MaxCalls
      /\ calls'["fetch"] > 0
  BY <1>0, CallsStep DEF TestTypeOK, MaxCalls
<1>4. Claimed' = Claimed \cup P /\ Claimed \cap P = {}
  BY <1>1 DEF Claimed
<1>5. Published' = Claimed /\ Published = Claimed
      /\ Tallied' = Tallied /\ Tallied = Claimed
  BY <1>0, <1>1, <1>2, <1>4 DEF Published, Tallied
<1>6. P \subseteq test.rows \cup test.later
  BY DEF Working, Rows
<1>7. calls["fetch"] = 0 => P = test.rows /\ Claimed = {}
  BY <1>0 DEF Working, Rows, Claimed, Shape
<1>8. calls["fetch"] > 0 => P \subseteq test.later /\ test.later \subseteq Claimed \cup P
  BY <1>0, <1>4, <1>6 DEF Working, Rows, Claimed, Arriving, Shape
<1>9. calls["fetch"] > 1 => P = {}
  BY <1>3, <1>4, <1>8 DEF Working, Rows
<1>10. P \cap test.later # {} =>
        \A e \in test.rows \ test.refused : status[e] = "Sent"
  BY <1>0, <1>2, <1>5, <1>7, <1>8 DEF Working, Rows, Hands, InHand, Shape
<1>11. Rows'
  <2>1. \A e \in Events : status'[e] \in {"New", "Pending", "Processing", "Sent"} /\ dead'[e] = 0
    BY <1>1 DEF Working, Rows
  <2>2. \A e \in Events : status'[e] = "New" <=> status[e] = "New"
    BY <1>1
  <2>3. \A e \in Events : status[e] = "Sent" => status'[e] = "Sent"
    BY <1>1
  <2>4. calls'["fetch"] <= 1 => Claimed' \cap test.later = {}
    <3>1. calls'["fetch"] <= 1 => calls["fetch"] = 0
      BY <1>3 DEF MaxCalls
    <3> QED
      BY <1>0, <1>4, <1>7, <3>1 DEF Shape
  <2>5. test.rows \subseteq Claimed'
    BY <1>4, <1>7, <1>3 DEF Working, Rows
  <2>6. calls'["fetch"] > 1 => test.later \subseteq Claimed'
    BY <1>3, <1>4, <1>8
  <2>7. Claimed' \cap test.later # {} =>
          \A e \in test.rows \ test.refused : status'[e] = "Sent"
    BY <1>0, <1>4, <1>10, <2>3 DEF Working, Rows, Shape
  <2> QED
    BY <1>0, <1>3, <2>1, <2>2, <2>4, <2>5, <2>6, <2>7 DEF Working, Rows, Shape
<1>12. Hands'
  <2>1. Held(mine)' = P /\ todo'[mine] = P /\ successes'[mine] = {} /\ counting'[mine] = {}
    BY <1>0, <1>1, <1>2 DEF Held
  <2>2. \A e \in P : status'[e] = "Processing"
    BY <1>1
  <2>3. \A e \in Events : status'[e] = "Sent" <=> status[e] = "Sent"
    BY <1>1
  <2>4. InHand'
    <3>1. \A e \in Claimed \ test.refused : status'[e] = "Sent"
      BY <1>2, <1>5, <2>3 DEF Working, Hands, InHand, Claimed
    <3>2. \A e \in test.refused : status'[e] # "Sent"
      BY <1>0, <2>3 DEF Working, Hands, InHand, Shape
    <3> QED
      BY <1>0, <1>5, <2>1, <2>2, <3>1, <3>2 DEF InHand
  <2>5. AtCall'
    BY <1>0, <1>1, <2>1 DEF AtCall
  <2>6. P \cap test.rows # {} => \A e \in test.rows : status'[e] = "Processing"
    BY <1>0, <1>3, <1>7, <1>8, <2>2 DEF Shape
  <2>7. P \cap test.later # {} => \A e \in test.later : status'[e] = "Processing"
    <3>1. P \cap test.later # {} => test.later \subseteq P
      BY <1>0, <1>3, <1>7, <1>8, <1>9 DEF Working, Rows, Shape
    <3> QED
      BY <2>2, <3>1
  <2>8. WholeBatch'
    BY <1>0, <2>1, <2>6, <2>7 DEF WholeBatch
  <2>9. Broken'
    BY <1>0, <1>1, <2>3 DEF Broken, Working, Hands
  <2> QED
    BY <2>4, <2>5, <2>8, <2>9 DEF Hands
<1>13. Tallies'
  <2>1. \A e \in Events : Marked(e)' <=> Marked(e)
    BY <1>0, <1>1 DEF Working, Marked, Unmarked
  <2>2. /\ calls'["publish"] = calls["publish"] /\ calls'["success"] = calls["success"]
        /\ calls'["failure"] = calls["failure"] /\ calls'["mark"] = calls["mark"]
    BY <1>0, <1>3 DEF TestTypeOK
  <2>3. test.rows \subseteq Events /\ test.later \subseteq Events
    BY <1>0 DEF Shape
  <2> QED
    BY <1>0, <1>1, <1>5, <2>1, <2>2, <2>3 DEF Working, Tallies
<1>. QED
  BY <1>11, <1>12, <1>13

\* The transport takes an event unless the test has it refused.
LEMMA PublishEffect ==
  ASSUME TestTypeOK, Alone, PublishOk(mine) \/ PublishErr(mine), Transport
  PROVE  /\ \E e \in todo[mine] :
              /\ todo'[mine] = todo[mine] \ {e}
              /\ successes'[mine] = IF e \in test.refused
                                    THEN successes[mine] ELSE successes[mine] \cup {e}
              /\ counting'[mine] = IF mine \in DlqProcesses THEN {e} ELSE {}
              /\ pc'[mine] = IF mine \in DlqProcesses
                             THEN "record" ELSE After(todo'[mine], successes'[mine])
         /\ pc[mine] = "publish"
         /\ UNCHANGED <<status, dead, heap, drained, faults>>
<1>0. TypeOK /\ mine \in Workers
  BY DEF TestTypeOK
<1>1. CASE PublishOk(mine)
  <2>1. PICK e \in todo[mine] : EndPublish(mine, e, successes[mine] \cup {e})
    BY <1>1 DEF PublishOk
  <2>2. todo'[mine] = todo[mine] \ {e} /\ e \in Events
    BY <1>0, <2>1 DEF EndPublish, TypeOK
  <2>3. e \notin test.refused
    <3>1. failed' = failed /\ failed[e] \in Int
      BY <1>0, <1>1, <2>2 DEF PublishOk, TypeOK
    <3> QED
      BY <2>2, <3>1 DEF Transport
  <2> QED
    BY <1>0, <1>1, <2>1, <2>2, <2>3 DEF EndPublish, TypeOK, PublishOk, tableVars
<1>2. CASE PublishErr(mine)
  <2>1. PICK e \in todo[mine] :
          /\ e \in Poison \/ failed[e] < MaxFailures
          /\ EndPublish(mine, e, successes[mine])
          /\ failed' = [failed EXCEPT ![e] = CountUp(failed[e])]
          /\ Unacknowledged(e)
    BY <1>2 DEF PublishErr
  <2>2. todo'[mine] = todo[mine] \ {e} /\ e \in Events
    BY <1>0, <2>1 DEF EndPublish, TypeOK
  <2>3. e \in test.refused
    <3>1. CASE failed[e] < MaxFailures
      BY <1>0, <2>1, <2>2, <3>1 DEF CountUp, TypeOK, Transport
    <3>2. CASE e \in Poison
      <4>1. delivered' = delivered /\ e \notin delivered
        BY <2>1, <3>2 DEF Alone, Unacknowledged, Acknowledged
      <4> QED
        BY <2>2, <4>1 DEF Transport
    <3> QED
      BY <2>1, <3>1, <3>2
  <2>4. pc[mine] = "publish" /\ UNCHANGED <<status, dead, heap, drained, faults>>
    BY <1>2 DEF PublishErr, tableVars
  <2>5. /\ successes'[mine] = successes[mine]
        /\ counting'[mine] = IF mine \in DlqProcesses THEN {e} ELSE {}
        /\ pc'[mine] = IF mine \in DlqProcesses
                       THEN "record" ELSE After(todo'[mine], successes'[mine])
    BY <1>0, <2>1, <2>2 DEF EndPublish, TypeOK
  <2> QED
    BY <2>2, <2>3, <2>4, <2>5
<1> QED
  BY <1>1, <1>2

\* So does the outcome of one publish.
LEMMA PublishKeeps ==
  ASSUME Working, PublishOk(mine) \/ PublishErr(mine), Transport, Counted("publish")
  PROVE  Rows' /\ Hands' /\ Tallies'
<1>0. TestTypeOK /\ Alone /\ UNCHANGED <<test, mine>> /\ Shape(test)
  BY TestShape DEF Working, Counted, TestTypeOK
<1>1. PICK e \in todo[mine] :
        /\ todo'[mine] = todo[mine] \ {e}
        /\ successes'[mine] = IF e \in test.refused
                              THEN successes[mine] ELSE successes[mine] \cup {e}
        /\ counting'[mine] = IF mine \in DlqProcesses THEN {e} ELSE {}
        /\ pc'[mine] = IF mine \in DlqProcesses
                       THEN "record" ELSE After(todo'[mine], successes'[mine])
  BY <1>0, PublishEffect
<1>2. pc[mine] = "publish" /\ UNCHANGED <<status, dead, heap, drained, faults>>
  BY <1>0, PublishEffect
<1>3. e \in Events /\ status[e] = "Processing" /\ counting[mine] = {}
  BY <1>0, <1>2 DEF Working, Hands, InHand, AtCall, Held, TestTypeOK, TypeOK
<1>4. e \in Claimed /\ e \notin Published /\ e \notin successes[mine]
  BY <1>3 DEF Claimed, Published, Working, Hands, InHand
<1>5. Claimed' = Claimed /\ Published' = Published \cup {e} /\ Tallied = Published
  BY <1>0, <1>1, <1>2, <1>3, <1>4 DEF Claimed, Published, Tallied
<1>6. mine \in DlqProcesses => Tallied' = Tallied
  BY <1>0, <1>1, <1>4, <1>5 DEF Tallied
<1>7. /\ \A c \in DOMAIN calls \ {"publish"} : calls'[c] = calls[c]
      /\ calls["publish"] = Size(Published) => calls'["publish"] = Size(Published) + 1
  BY <1>0, <1>3, <1>4, CallsStep, SizeAdd DEF TestTypeOK
<1>8. /\ calls'["fetch"] = calls["fetch"] /\ calls'["success"] = calls["success"]
      /\ calls'["failure"] = calls["failure"] /\ calls'["mark"] = calls["mark"]
  BY <1>0, <1>7 DEF TestTypeOK
<1>9. Rows'
  BY <1>0, <1>2, <1>5, <1>8 DEF Working, Rows
<1>10. Hands'
  <2>1. InHand'
    BY <1>0, <1>1, <1>2, <1>3, <1>4, <1>5 DEF Working, Hands, InHand, Held, Unmarked
  <2>2. AtCall'
    BY <1>0, <1>1, <1>3 DEF AtCall, After
  <2>3. WholeBatch'
    BY <1>0, <1>1, <1>2 DEF Working, Hands, WholeBatch
  <2>4. Broken'
    BY <1>0, <1>2, <1>8 DEF Working, Hands, Broken
  <2> QED
    BY <2>1, <2>2, <2>3, <2>4 DEF Hands
<1>11. Tallies'
  <2>1. \A f \in Events : Marked(f)' <=> Marked(f)
    BY <1>0, <1>2 DEF Working, Marked, Unmarked
  <2>2. test.rows \subseteq Events /\ test.later \subseteq Events
    BY <1>0 DEF Shape
  <2>3. Size(Published') = Size(Published) + 1
    BY <1>3, <1>4, <1>5, SizeAdd
  <2>4. \A f \in Events : heap[f] = 0 \/ (heap[f] = 1 /\ f \in Tallied')
    <3>1. Tallied \subseteq Tallied'
      BY <1>0, <1>1, <1>4, <1>5 DEF Tallied
    <3> QED
      BY <3>1 DEF Working, Tallies
  <2> QED
    BY <1>0, <1>2, <1>5, <1>6, <1>7, <1>8, <2>1, <2>2, <2>3, <2>4 DEF Working, Tallies
<1> QED
  BY <1>9, <1>10, <1>11

\* The outcome of a publish is counted where the event belongs, once.
LEMMA RecordKeeps ==
  ASSUME Working, Record(mine),
         Counted(IF counting[mine] \subseteq successes[mine] THEN "success" ELSE "failure")
  PROVE  Rows' /\ Hands' /\ Tallies'
<1>0. TestTypeOK /\ Alone /\ UNCHANGED <<test, mine>> /\ Shape(test)
  BY TestShape DEF Working, Counted, TestTypeOK
<1>1. /\ pc[mine] = "record" /\ UNCHANGED <<status, dead, todo, successes, drained, faults>>
      /\ counting'[mine] = {} /\ pc'[mine] = After(todo[mine], successes[mine])
  BY <1>0 DEF Record, TestTypeOK, TypeOK, tableVars
<1>2. PICK e \in Events : counting[mine] = {e}
  BY <1>1 DEF Working, Hands, AtCall
<1>3. mine \in DlqProcesses
  BY <1>1, <1>2 DEF Working, Hands, AtCall
<1>4. e \in Published /\ e \notin Tallied /\ status[e] = "Processing"
  BY <1>2 DEF Working, Hands, InHand, Held, Tallied
<1>5. e \in successes[mine] <=> e \notin test.refused
  BY <1>4 DEF Working, Hands, InHand
<1>6. Claimed' = Claimed /\ Published' = Published /\ Tallied' = Tallied \cup {e}
  BY <1>0, <1>1, <1>2, <1>4 DEF Claimed, Published, Tallied
<1>7. IF e \in successes[mine] THEN RecordSuccess(e) ELSE RecordFailure(e)
  BY <1>2 DEF Record, CountOutcome
<1>8. \A f \in Events : heap'[f] = 0 \/ (heap'[f] = 1 /\ f \in Tallied')
  <2>1. heap[e] = 0
    BY <1>4 DEF Working, Tallies
  <2>2. heap \in [Events -> 0..MaxFailures] /\ MaxFailures >= 2
    BY <1>0 DEF TestTypeOK, TypeOK, HeapTypeOK, TestsAssumption, ConfigAssumption
  <2>3. \A f \in Events \ {e} : heap'[f] = heap[f]
    BY <1>7, <2>2 DEF RecordSuccess, RecordFailure
  <2>4. heap'[e] \in {0, 1}
    BY <1>7, <2>1, <2>2 DEF RecordSuccess, RecordFailure, CountUp
  <2> QED
    BY <1>6, <2>3, <2>4 DEF Working, Tallies
<1>9. /\ calls["success"] = Size(Tallied \ test.refused)
      /\ calls["failure"] = Size(Tallied \cap test.refused)
  BY <1>3 DEF Working, Tallies
<1>10. /\ calls'["success"] = Size(Tallied' \ test.refused)
       /\ calls'["failure"] = Size(Tallied' \cap test.refused)
       /\ calls'["fetch"] = calls["fetch"] /\ calls'["publish"] = calls["publish"]
       /\ calls'["mark"] = calls["mark"]
  <2>1. CASE e \notin test.refused
    <3>1. Counted("success")
      BY <1>2, <1>5, <2>1
    <3>2. /\ Tallied' \ test.refused = (Tallied \ test.refused) \cup {e}
          /\ Tallied' \cap test.refused = Tallied \cap test.refused
      BY <1>6, <2>1
    <3>3. /\ Size(Tallied \ test.refused) < MaxCalls
          /\ Size((Tallied \ test.refused) \cup {e}) = Size(Tallied \ test.refused) + 1
      BY <1>4, SizeAdd
    <3> QED
      BY <1>0, <1>9, <3>1, <3>2, <3>3, CallsStep DEF TestTypeOK
  <2>2. CASE e \in test.refused
    <3>1. Counted("failure")
      BY <1>2, <1>5, <2>2
    <3>2. /\ Tallied' \ test.refused = Tallied \ test.refused
          /\ Tallied' \cap test.refused = (Tallied \cap test.refused) \cup {e}
      BY <1>6, <2>2
    <3>3. /\ Size(Tallied \cap test.refused) < MaxCalls
          /\ Size((Tallied \cap test.refused) \cup {e}) = Size(Tallied \cap test.refused) + 1
      BY <1>4, SizeAdd
    <3> QED
      BY <1>0, <1>9, <3>1, <3>2, <3>3, CallsStep DEF TestTypeOK
  <2> QED
    BY <2>1, <2>2
<1>11. Rows'
  BY <1>0, <1>1, <1>6, <1>10 DEF Working, Rows
<1>12. Hands'
  <2>1. InHand'
    BY <1>0, <1>1, <1>2, <1>6 DEF Working, Hands, InHand, Held, Unmarked
  <2>2. AtCall'
    BY <1>0, <1>1 DEF AtCall, After
  <2>3. WholeBatch' /\ Broken'
    BY <1>0, <1>1, <1>10 DEF Working, Hands, WholeBatch, Broken
  <2> QED
    BY <2>1, <2>2, <2>3 DEF Hands
<1>13. Tallies'
  <2>1. \A f \in Events : Marked(f)' <=> Marked(f)
    BY <1>0, <1>1 DEF Working, Marked, Unmarked
  <2>2. test.rows \subseteq Events /\ test.later \subseteq Events
    BY <1>0 DEF Shape
  <2> QED
    BY <1>0, <1>1, <1>3, <1>6, <1>8, <1>10, <2>1, <2>2 DEF Working, Tallies
<1> QED
  BY <1>11, <1>12, <1>13

\* The ids of a batch are those of claimed rows.
LEMMA MarkEffect ==
  ASSUME Working, pc[mine] = "mark", UpdateStatus(successes[mine])
  PROVE  /\ status' = [e \in Events |-> IF e \in successes[mine] THEN "Sent" ELSE status[e]]
         /\ UNCHANGED dead
<1>1. successes[mine] \subseteq InTable
  BY DEF Working, Hands, InHand, Held, InTable, TestTypeOK, TypeOK
<1> QED
  BY <1>1 DEF UpdateStatus

\* A batch is marked by one call, whatever it has.
LEMMA MarkKeeps ==
  ASSUME Working, Mark(mine), Counted("mark"), ~(test.breaks = "mark" /\ faults = 0)
  PROVE  Rows' /\ Hands' /\ Tallies'
<1>0. TestTypeOK /\ Alone /\ UNCHANGED <<test, mine>> /\ Shape(test)
  BY TestShape DEF Working, Counted, TestTypeOK
<1>1. /\ pc[mine] = "mark" /\ pc'[mine] = "idle" /\ UNCHANGED <<heap, drained, faults>>
      /\ counting'[mine] = {} /\ todo'[mine] = {} /\ successes'[mine] = {}
  BY <1>0 DEF Mark, DropBatch, TestTypeOK, TypeOK
<1>2. /\ status' = [e \in Events |-> IF e \in successes[mine] THEN "Sent" ELSE status[e]]
      /\ dead' = dead
  BY <1>1, MarkEffect DEF Mark
<1>3. todo[mine] = {} /\ successes[mine] # {} /\ counting[mine] = {}
  BY <1>1 DEF Working, Hands, AtCall
<1>4. \A e \in successes[mine] : e \in Events /\ status[e] = "Processing" /\ e \notin test.refused
  BY <1>0 DEF Working, Hands, InHand, Held, TestTypeOK, TypeOK
<1>5. Claimed' = Claimed /\ Published = Claimed /\ Published' = Claimed
      /\ Tallied = Claimed /\ Tallied' = Claimed
  BY <1>0, <1>1, <1>2, <1>3, <1>4 DEF Claimed, Published, Tallied
<1>6. /\ \A c \in DOMAIN calls \ {"mark"} : calls'[c] = calls[c]
      /\ calls'["fetch"] = calls["fetch"] /\ calls'["publish"] = calls["publish"]
      /\ calls'["success"] = calls["success"] /\ calls'["failure"] = calls["failure"]
      /\ calls["mark"] < MaxCalls => calls'["mark"] = calls["mark"] + 1
  BY <1>0, CallsStep DEF TestTypeOK
<1>7. Rows'
  BY <1>0, <1>2, <1>4, <1>5, <1>6 DEF Working, Rows, Shape
<1>8. Hands'
  <2>1. InHand'
    BY <1>0, <1>1, <1>2, <1>3, <1>4, <1>5
       DEF Working, Hands, InHand, Held, Claimed, Unmarked, Shape
  <2>2. AtCall' /\ WholeBatch'
    BY <1>0, <1>1 DEF AtCall, WholeBatch
  <2>3. Broken'
    BY <1>0, <1>1, <1>6 DEF Working, Hands, Broken
  <2> QED
    BY <2>1, <2>2, <2>3 DEF Hands
<1>9. \A e \in Events : /\ Marked(e) <=> status[e] = "Sent"
                        /\ Marked(e)' <=> status[e] = "Sent" \/ e \in successes[mine]
  BY <1>0, <1>1, <1>2 DEF Working, Marked, Unmarked
<1>10. calls'["mark"] = One(\E e \in test.rows : Marked(e)') + One(\E e \in test.later : Marked(e)')
  <2>1. calls["mark"] = One(\E e \in test.rows : Marked(e)) + One(\E e \in test.later : Marked(e))
    BY DEF Working, Tallies
  <2>2. calls'["mark"] = calls["mark"] + 1
    BY <1>6, <2>1 DEF One, MaxCalls
  <2>3. test.rows \subseteq Events /\ test.later \subseteq Events
    BY <1>0 DEF Shape
  <2>4. CASE successes[mine] \cap test.rows # {}
    <3>1. \A e \in test.rows : status[e] = "Processing"
      BY <2>4 DEF Working, Hands, WholeBatch
    <3>2. Claimed \cap test.later = {}
      BY <1>4, <2>4, <3>1 DEF Working, Rows
    <3>3. \A e \in test.later : status[e] # "Sent" /\ e \notin successes[mine]
      BY <1>4, <2>3, <3>2 DEF Claimed
    <3>4. ~(\E e \in test.rows : Marked(e)) /\ ~(\E e \in test.later : Marked(e))
      BY <1>9, <2>3, <3>1, <3>3
    <3>5. (\E e \in test.rows : Marked(e)') /\ ~(\E e \in test.later : Marked(e)')
      BY <1>9, <2>3, <2>4, <3>3
    <3> QED
      BY <2>1, <2>2, <3>4, <3>5 DEF One
  <2>5. CASE successes[mine] \cap test.rows = {}
    <3>1. successes[mine] \cap test.later # {}
      BY <1>3, <1>4, <2>5 DEF Working, Rows
    <3>2. \A e \in test.later : status[e] = "Processing"
      BY <3>1 DEF Working, Hands, WholeBatch
    <3>3. ~(\E e \in test.later : Marked(e)) /\ (\E e \in test.later : Marked(e)')
      BY <1>9, <2>3, <3>1, <3>2
    <3>4. (\E e \in test.rows : Marked(e)) <=> (\E e \in test.rows : Marked(e)')
      BY <1>9, <2>3, <2>5
    <3> QED
      BY <2>1, <2>2, <3>3, <3>4 DEF One
  <2> QED
    BY <2>4, <2>5
<1>11. Tallies'
  BY <1>0, <1>1, <1>5, <1>6, <1>10 DEF Working, Tallies
<1> QED
  BY <1>7, <1>8, <1>11

\* The update that fails is told of the batch, whether it marks the rows or not.
LEMMA MarkFailsKeeps ==
  ASSUME Working, MarkFails(mine), Counted("mark"), test.breaks = "mark", faults = 0
  PROVE  Rows' /\ Hands' /\ Tallies'
<1>0. TestTypeOK /\ Alone /\ UNCHANGED <<test, mine>> /\ Shape(test)
  BY TestShape DEF Working, Counted, TestTypeOK
<1>1. /\ pc[mine] = "mark" /\ pc'[mine] = "idle" /\ UNCHANGED <<heap, drained>>
      /\ counting'[mine] = {} /\ todo'[mine] = {} /\ successes'[mine] = {}
      /\ faults' = 1
  BY <1>0 DEF MarkFails, Fault, DropBatch, TestTypeOK, TypeOK
<1>2. dead' = dead /\ status' \in [Events -> Statuses]
      /\ \A e \in Events : \/ status'[e] = status[e]
                           \/ e \in successes[mine] /\ status'[e] = "Sent"
  <2>1. CASE UNCHANGED tableVars
    BY <1>0, <2>1 DEF tableVars, TestTypeOK, TypeOK, TableTypeOK
  <2>2. CASE UpdateStatus(successes[mine])
    BY <1>0, <1>1, <2>2, MarkEffect DEF TestTypeOK, TypeOK, TableTypeOK, Statuses
  <2> QED
    BY <2>1, <2>2 DEF MarkFails
<1>3. todo[mine] = {} /\ successes[mine] # {} /\ counting[mine] = {}
  BY <1>1 DEF Working, Hands, AtCall
<1>4. \A e \in successes[mine] : e \in Events /\ status[e] = "Processing" /\ e \notin test.refused
  BY <1>0 DEF Working, Hands, InHand, Held, TestTypeOK, TypeOK
<1>5. Claimed' = Claimed /\ Published = Claimed /\ Published' = Claimed
      /\ Tallied = Claimed /\ Tallied' = Claimed
  BY <1>0, <1>1, <1>2, <1>3, <1>4 DEF Claimed, Published, Tallied
<1>6. /\ \A c \in DOMAIN calls \ {"mark"} : calls'[c] = calls[c]
      /\ calls'["fetch"] = calls["fetch"] /\ calls'["publish"] = calls["publish"]
      /\ calls'["success"] = calls["success"] /\ calls'["failure"] = calls["failure"]
      /\ calls["mark"] < MaxCalls => calls'["mark"] = calls["mark"] + 1
  BY <1>0, CallsStep DEF TestTypeOK
<1>7. test.later = {}
  BY <1>0 DEF Working, Worked, Shape
<1>8. Rows'
  BY <1>0, <1>2, <1>4, <1>5, <1>6, <1>7 DEF Working, Rows, Shape
<1>9. Hands'
  <2>1. InHand'
    BY <1>0, <1>1, <1>2, <1>4, <1>5 DEF Working, Hands, InHand, Held, Unmarked, Shape
  <2>2. AtCall' /\ WholeBatch'
    BY <1>0, <1>1 DEF AtCall, WholeBatch
  <2>3. Broken'
    BY <1>0, <1>1, <1>6 DEF Working, Hands, Broken
  <2> QED
    BY <2>1, <2>2, <2>3 DEF Hands
<1>10. ~(\E e \in test.rows : Marked(e)) /\ ~(\E e \in test.later : Marked(e))
  BY <1>0, <1>7 DEF Working, Hands, Broken, Marked, Unmarked, Shape
<1>11. (\E e \in test.rows : Marked(e)') /\ ~(\E e \in test.later : Marked(e)')
  <2>1. PICK e \in successes[mine] : e \in test.rows /\ e \in Claimed \ test.refused
    BY <1>3, <1>4, <1>7 DEF Working, Rows, Claimed
  <2>2. Unmarked'
    BY <1>0, <1>1 DEF Unmarked
  <2>3. Marked(e)'
    BY <1>0, <1>5, <2>1, <2>2 DEF Marked
  <2> QED
    BY <1>7, <2>1, <2>3
<1>12. calls'["mark"] = 1
  BY <1>6, <1>10 DEF Working, Tallies, One, MaxCalls
<1>13. Tallies'
  BY <1>0, <1>1, <1>5, <1>6, <1>11, <1>12 DEF Working, Tallies, One
<1> QED
  BY <1>8, <1>9, <1>13

\* A claim that fails finds no row in the tests that have it fail.
LEMMA FetchFailsKeeps ==
  ASSUME Working, FetchFails(mine), Counted("fetch"), test.breaks = "fetch"
  PROVE  Rows' /\ Hands' /\ Tallies'
<1>0. TestTypeOK /\ Alone /\ UNCHANGED <<test, mine>> /\ Shape(test)
  BY TestShape DEF Working, Counted, TestTypeOK
<1>1. test.rows = {} /\ test.later = {}
  BY <1>0 DEF Working, Worked, Shape
<1>2. \A e \in Events : status[e] = "New"
  BY <1>1 DEF Working, Rows
<1>3. status' = status /\ dead' = dead
  <2>1. PICK S \in Batches(mine) \cup {{}} : Claim(S)
    BY DEF FetchFails
  <2>2. S = {}
    BY <1>2, <2>1 DEF Batches, Oldest, Claimable
  <2>3. status' = [e \in Events |-> status[e]]
    BY <2>1, <2>2 DEF Claim
  <2> QED
    BY <1>0, <2>1, <2>3 DEF Claim, TestTypeOK, TypeOK, TableTypeOK
<1>4. UNCHANGED <<heap, pc, todo, counting, successes, drained>> /\ faults' > 0
  BY <1>0 DEF FetchFails, Fault, Possible, workerVars, TestTypeOK, TypeOK, ProcessingAssumption
<1>5. /\ calls'["publish"] = calls["publish"] /\ calls'["mark"] = calls["mark"]
      /\ calls'["success"] = calls["success"] /\ calls'["failure"] = calls["failure"]
  BY <1>0, CallsStep DEF TestTypeOK
<1>6. Claimed = {} /\ Claimed' = {}
  BY <1>2, <1>3 DEF Claimed
<1>7. Rows'
  BY <1>0, <1>1, <1>2, <1>3, <1>6 DEF Working, Rows
<1>8. Hands'
  <2>1. Published' = Published
    BY <1>0, <1>4, <1>6 DEF Published
  <2>2. ~Unmarked'
    BY <1>0 DEF Unmarked
  <2>3. InHand'
    BY <1>0, <1>3, <1>4, <2>1, <2>2 DEF Working, Hands, InHand, Held, Unmarked
  <2>4. AtCall' /\ WholeBatch'
    BY <1>0, <1>1, <1>4 DEF Working, Hands, AtCall, WholeBatch
  <2>5. Broken'
    BY <1>0, <1>4 DEF Broken, TestTypeOK, TypeOK
  <2> QED
    BY <2>3, <2>4, <2>5 DEF Hands
<1>9. Tallies'
  <2>1. Published' = Published /\ Tallied' = Tallied
    BY <1>0, <1>4, <1>6 DEF Published, Tallied
  <2> QED
    BY <1>0, <1>1, <1>4, <1>5, <2>1 DEF Working, Tallies
<1> QED
  BY <1>7, <1>8, <1>9

\* Every call of a batch keeps what the worker has in hand and what it has counted.
LEMMA WorkerKeeps ==
  ASSUME TestTypeOK, Alone, Worked, WorkerInv, WorkerStep
  PROVE  /\ Rows' /\ Hands' /\ Tallies'
         /\ faults' = faults \/ pc'[mine] = "idle"
         /\ Counted(IF pc[mine] = "idle" THEN "fetch" ELSE WorkerCall)
         /\ WorkerCall \in {"fetch", "publish", "success", "failure", "mark"}
         /\ pc[mine] # "idle" => WorkerCall # "fetch"
<1>0. Arriving = {} /\ main[mine] = "batch" /\ Shape(test)
  BY TestShape DEF WorkerStep, Answered, Batch, BatchFails, TestTypeOK
<1>1. Working
  BY <1>0 DEF Working, WorkerInv, Loop
<1>2. test.breaks \in {"none", "fetch", "mark"}
  BY <1>0 DEF Worked, Shape
<1>3. pc[mine] \in {"idle", "publish", "record", "mark"}
  BY DEF TestTypeOK, TypeOK
<1>4. IF Breaks(WorkerCall) THEN FetchFails(mine) \/ RecordFails(mine) \/ MarkFails(mine)
      ELSE Work(mine)
  BY DEF WorkerStep, Batch, BatchFails
<1>5. Counted(WorkerCall) /\ (pc[mine] = "publish" => Transport)
  BY DEF WorkerStep
<1>6. CASE pc[mine] = "idle"
  <2>1. WorkerCall = "fetch"
    BY <1>6 DEF WorkerCall
  <2>2. CASE Breaks("fetch")
    <3>1. FetchFails(mine) /\ test.breaks = "fetch"
      BY <1>4, <1>6, <2>1, <2>2 DEF Breaks, RecordFails, MarkFails
    <3> QED
      BY <1>1, <1>5, <1>6, <2>1, <3>1, FetchFailsKeeps DEF FetchFails, workerVars
  <2>3. CASE ~Breaks("fetch")
    <3>1. Fetch(mine)
      BY <1>4, <1>6, <2>1, <2>3 DEF Work, PublishOk, PublishErr, Record, Mark
    <3>2. Storage
      BY <1>6, <2>3 DEF WorkerStep
    <3> QED
      BY <1>0, <1>1, <1>5, <1>6, <2>1, <2>3, <3>1, <3>2, FetchKeeps DEF Breaks, Fetch
  <2> QED
    BY <2>2, <2>3
<1>7. CASE pc[mine] = "publish"
  <2>1. WorkerCall = "publish"
    BY <1>7 DEF WorkerCall
  <2>2. PublishOk(mine) \/ PublishErr(mine)
    BY <1>2, <1>4, <1>7, <2>1 DEF Breaks, Work, Fetch, Record, Mark
  <2> QED
    BY <1>1, <1>5, <1>7, <2>1, <2>2, PublishKeeps DEF PublishOk, PublishErr
<1>8. CASE pc[mine] = "record"
  <2>1. WorkerCall = IF counting[mine] \subseteq successes[mine] THEN "success" ELSE "failure"
    BY <1>8 DEF WorkerCall
  <2>2. Record(mine)
    BY <1>2, <1>4, <1>8, <2>1 DEF Breaks, Work, Fetch, PublishOk, PublishErr, Mark
  <2> QED
    BY <1>1, <1>5, <1>8, <2>1, <2>2, RecordKeeps DEF Record
<1>9. CASE pc[mine] = "mark"
  <2>1. WorkerCall = "mark"
    BY <1>9 DEF WorkerCall
  <2>2. CASE Breaks("mark")
    <3>1. MarkFails(mine) /\ test.breaks = "mark" /\ faults = 0
      BY <1>4, <1>9, <2>1, <2>2 DEF Breaks, FetchFails, RecordFails
    <3>2. pc'[mine] = "idle"
      BY <3>1 DEF MarkFails, DropBatch, TestTypeOK, TypeOK
    <3> QED
      BY <1>1, <1>5, <1>9, <2>1, <3>1, <3>2, MarkFailsKeeps
  <2>3. CASE ~Breaks("mark")
    <3>1. Mark(mine)
      BY <1>4, <1>9, <2>1, <2>3 DEF Work, Fetch, PublishOk, PublishErr, Record
    <3> QED
      BY <1>1, <1>5, <1>9, <2>1, <2>3, <3>1, MarkKeeps DEF Breaks, Mark
  <2> QED
    BY <2>2, <2>3
<1> QED
  BY <1>3, <1>6, <1>7, <1>8, <1>9

-----------------------------------------------------------------------------
(* The other steps of a worker's tests. *)

\* What the worker has in hand and what it has counted, as long as it does not move.
LEMMA CalmKeeps ==
  ASSUME TestTypeOK, Rows, Hands, Tallies,
         UNCHANGED <<test, mine, status, dead, heap, pc, todo, counting, successes, drained, faults>>,
         UNCHANGED calls \/ Counted("drain") \/ Counted("garbage")
  PROVE  Rows' /\ Hands' /\ Tallies'
<1>1. /\ calls'["fetch"] = calls["fetch"] /\ calls'["publish"] = calls["publish"]
      /\ calls'["success"] = calls["success"] /\ calls'["failure"] = calls["failure"]
      /\ calls'["mark"] = calls["mark"]
  BY CallsStep DEF TestTypeOK
<1>2. Claimed' = Claimed /\ Published' = Published /\ Tallied' = Tallied /\ Unmarked' = Unmarked
  BY DEF Claimed, Published, Tallied, Unmarked
<1>3. Rows'
  BY <1>1, <1>2 DEF Rows
<1>4. Hands'
  BY <1>1, <1>2 DEF Hands, InHand, AtCall, WholeBatch, Broken, Held
<1>5. Tallies'
  BY <1>1, <1>2 DEF Tallies, Marked
<1> QED
  BY <1>3, <1>4, <1>5

\* A row that arrives is a later one, before the second claim.
LEMMA InsertKeeps ==
  ASSUME TestTypeOK, Rows, Hands, Tallies, NEW e \in Arriving, Insert(e),
         UNCHANGED testVars
  PROVE  Rows' /\ Hands' /\ Tallies'
<1>0. Shape(test) /\ UNCHANGED <<test, mine, calls>>
  BY TestShape DEF TestTypeOK, testVars
<1>1. e \in test.later /\ e \in Events /\ status[e] = "New" /\ calls["fetch"] > 0
  BY <1>0 DEF Arriving, Shape
<1>2. /\ status' = [status EXCEPT ![e] = "Pending"]
      /\ UNCHANGED <<dead, heap, pc, todo, counting, successes, drained, faults>>
  BY DEF Insert, InsertEvent, workerVars
<1>3. \A f \in Events : status'[f] = IF f = e THEN "Pending" ELSE status[f]
  BY <1>2 DEF TestTypeOK, TypeOK, TableTypeOK
<1>4. Claimed' = Claimed /\ e \notin Claimed
  BY <1>1, <1>3 DEF Claimed
<1>5. Published' = Published /\ Tallied' = Tallied /\ Unmarked' = Unmarked
  BY <1>0, <1>2, <1>4 DEF Published, Tallied, Unmarked
<1>6. e \notin Held(mine) /\ Held(mine)' = Held(mine) /\ Held(mine) \subseteq Events
  BY <1>0, <1>1, <1>2 DEF Held, Hands, InHand, TestTypeOK, TypeOK
<1>7. Rows'
  BY <1>0, <1>1, <1>2, <1>3, <1>4 DEF Rows, Shape
<1>8. Hands'
  <2>1. InHand'
    BY <1>0, <1>1, <1>2, <1>3, <1>5, <1>6 DEF Hands, InHand, Shape, Published, Claimed
  <2>2. AtCall' /\ Broken'
    BY <1>0, <1>2, <1>3 DEF Hands, AtCall, Broken
  <2>3. WholeBatch'
    BY <1>0, <1>1, <1>2, <1>3 DEF Hands, WholeBatch, Shape
  <2> QED
    BY <2>1, <2>2, <2>3 DEF Hands
<1>9. \A f \in Events : Marked(f)' <=> Marked(f)
  BY <1>0, <1>1, <1>3, <1>4, <1>5 DEF Marked
<1>10. Tallies'
  BY <1>0, <1>2, <1>5, <1>9 DEF Tallies, Shape
<1> QED
  BY <1>7, <1>8, <1>10

\* No counter reaches the threshold in the tests of a worker.
LEMMA DrainsNothing ==
  ASSUME TestTypeOK, Worked, Tallies, ReaperStep
  PROVE  /\ UNCHANGED <<status, dead, heap, pc, todo, counting, successes, drained, faults>>
         /\ Counted("drain") /\ UNCHANGED appVars /\ "dlq" \in tasks[mine]
<1>0. drained[mine] = NoEntries /\ Shape(test) /\ TypeOK
  BY TestShape DEF Tallies, TestTypeOK
<1>1. ReaperCall = "drain" /\ ~Breaks(ReaperCall)
  BY <1>0 DEF ReaperCall, Breaks, Worked, Shape
<1>2. Drain(mine) /\ UNCHANGED appVars /\ "dlq" \in tasks[mine]
  BY <1>0, <1>1 DEF ReaperStep, Reaper, Reap, Quarantine
<1>3. \A e \in Events : heap[e] < Threshold
  BY DEF Tallies, TestsAssumption, ConfigAssumption
<1>4. Exceeded = {}
  BY <1>3 DEF Exceeded, ConfigAssumption, TestTypeOK, TypeOK, HeapTypeOK
<1>5. heap' = heap
  BY <1>0, <1>2, <1>4 DEF Drain, DrainExceeded, TypeOK, HeapTypeOK
<1>6. drained' = drained
  <2>1. DrainedEntries = NoEntries
    BY <1>4 DEF DrainedEntries, NoEntries
  <2> QED
    BY <1>0, <1>2, <2>1 DEF Drain, TypeOK
<1> QED
  BY <1>1, <1>2, <1>5, <1>6 DEF ReaperStep, Drain, tableVars, workerVars

\* Calls are counted, never taken back: what had been sent stays sent.
LEMMA SentStays ==
  ASSUME TestTypeOK, NEW c, Counted(c), calls[test.sends.call] >= test.sends.nth
  PROVE  calls'[test.sends.call] >= test.sends.nth
<1>1. test.sends.call \in DOMAIN calls /\ test.sends.nth \in Nat
  BY TestShape DEF TestTypeOK, Shape
<1>2. calls'[test.sends.call] >= calls[test.sends.call] /\ calls[test.sends.call] \in 0..MaxCalls
      /\ calls'[test.sends.call] \in 0..MaxCalls
  BY <1>1, CallsStep, CountedType DEF TestTypeOK
<1> QED
  BY <1>1, <1>2 DEF MaxCalls

\* A batch test has no script: nothing is started, nobody asks for shutdown.
LEMMA BatchHasNoScript ==
  ASSUME TestTypeOK, test.subject = "batch", at[mine] = 1
  PROVE  Call(mine) = "return"
<1>1. program[mine].script = <<>>
  BY TestShape DEF TestTypeOK, ProgramOf, Shape
<1> QED
  BY <1>1 DEF Call, Down

\* Where the loop is after a call of a batch.
LEMMA LoopOfWorker ==
  ASSUME TestTypeOK, Alone, Worked, WorkerInv, WorkerStep
  PROVE  Loop'
<1>0. /\ Shape(test) /\ UNCHANGED <<test, mine>> /\ mine \in Workers
      /\ main \in [Workers -> {"off", "waiting", "batch", "stopped"}]
  BY TestShape DEF TestTypeOK, SysTypeOK, WorkerStep, Counted
<1>1. /\ faults' = faults \/ pc'[mine] = "idle"
      /\ Counted(IF pc[mine] = "idle" THEN "fetch" ELSE WorkerCall)
      /\ WorkerCall \in {"fetch", "publish", "success", "failure", "mark"}
      /\ pc[mine] # "idle" => WorkerCall # "fetch"
  BY WorkerKeeps
<1>2. /\ main[mine] = "batch" /\ UNCHANGED <<at, flag, tasks>>
      /\ main'[mine] = IF pc'[mine] = "idle" THEN "waiting" ELSE "batch"
  BY <1>0 DEF WorkerStep, Batch, BatchFails, BatchEnds
<1>3. calls'["drain"] = calls["drain"]
  BY <1>1, CallsStep DEF TestTypeOK
<1>4. calls'["fetch"] = IF pc[mine] = "idle"
                        THEN IF calls["fetch"] < MaxCalls THEN calls["fetch"] + 1 ELSE calls["fetch"]
                        ELSE calls["fetch"]
  BY <1>1, CallsStep DEF TestTypeOK
<1>5. Unmarked' => main'[mine] = "waiting"
  BY <1>0, <1>1, <1>2 DEF Unmarked, WorkerInv, Loop
<1>6. test.subject = "batch" =>
        /\ tasks'[mine] = {} /\ ~flag'[mine] /\ at'[mine] = 1 /\ calls'["drain"] = 0
        /\ calls'["fetch"] = 1
  BY <1>2, <1>3, <1>4 DEF WorkerInv, Loop, One, MaxCalls
<1>7. test.subject = "run" =>
        /\ at'[mine] # 1 /\ ~test.requested
        /\ flag'[mine] => calls'[test.sends.call] >= test.sends.nth
  BY <1>1, <1>2, SentStays DEF WorkerInv, Loop
<1> QED
  BY <1>0, <1>2, <1>5, <1>6, <1>7 DEF Loop, One

\* ... after a step of main() or of a mock,
LEMMA LoopOfScript ==
  ASSUME TestTypeOK, Worked, WorkerInv, StartStep \/ MockStep
  PROVE  Loop'
<1>0. /\ Shape(test) /\ UNCHANGED <<test, mine, calls>> /\ mine \in Workers /\ SysTypeOK
      /\ main \in [Workers -> {"off", "waiting", "batch", "stopped"}]
      /\ at \in [Workers -> Nat] /\ flag \in [Workers -> BOOLEAN]
  BY TestShape DEF TestTypeOK, SysTypeOK, StartStep, MockStep, testVars
<1>1. ASSUME NEW e, Insert(e), UNCHANGED appVars PROVE Loop'
  BY <1>0, <1>1 DEF Insert, workerVars, appVars, WorkerInv, Loop, Unmarked
<1>2. CASE Start(mine)
  <2>1. test.subject = "run" /\ at[mine] = 1 /\ main[mine] = "off"
    BY <1>0, <1>2, OnlyFirst, BatchHasNoScript DEF Start, Worked, WorkerInv, Loop
  <2>2. at'[mine] # 1 /\ main'[mine] \in {"off", "waiting"}
    BY <1>0, <1>2, <2>1 DEF Start, Advance, Down
  <2>3. UNCHANGED <<pc, faults, flag>>
    BY <1>2 DEF Start, vars, workerVars
  <2> QED
    BY <1>0, <2>1, <2>2, <2>3 DEF WorkerInv, Loop, Unmarked
<1>3. CASE Sending /\ Shutdown(mine)
  <2>1. test.subject = "run"
    BY <1>3, BatchHasNoScript DEF Shutdown, Worked, WorkerInv, Loop
  <2>2. at[mine] # 0 /\ at'[mine] = at[mine] + 1
    BY <1>0, <1>3 DEF Shutdown, Call, Down, Advance
  <2>3. at'[mine] # 1
    BY <1>0, <2>2
  <2>4. UNCHANGED <<pc, faults, main>> /\ flag'[mine]
    BY <1>0, <1>3 DEF Shutdown, vars, workerVars
  <2>5. calls[test.sends.call] >= test.sends.nth
    BY <1>3 DEF Sending
  <2> QED
    BY <1>0, <2>1, <2>3, <2>4, <2>5 DEF WorkerInv, Loop, Unmarked
<1> QED
  BY <1>1, <1>2, <1>3 DEF StartStep, MockStep

\* ... after a step of run() itself,
LEMMA LoopOfLoop ==
  ASSUME TestTypeOK, Worked, WorkerInv, arranged, LoopStep
  PROVE  Loop'
<1>0. /\ Shape(test) /\ UNCHANGED <<test, mine, calls, at, flag, tasks>> /\ mine \in Workers
      /\ main \in [Workers -> {"off", "waiting", "batch", "stopped"}]
      /\ UNCHANGED <<pc, faults>> /\ main[mine] = "waiting"
  BY TestShape DEF TestTypeOK, SysTypeOK, LoopStep, Wake, StopMain, testVars, vars, workerVars
<1>1. test.subject = "run"
  BY <1>0 DEF LoopStep, Answered, Running, Over, Worked
<1>2. ~Unmarked /\ pc[mine] = "idle"
  BY <1>0, <1>1 DEF Unmarked, Shape, WorkerInv, Loop
<1>3. \/ main'[mine] = "batch" /\ ~flag[mine]
      \/ main'[mine] = "stopped" /\ flag[mine]
  BY <1>0 DEF LoopStep, Wake, StopMain
<1> QED
  BY <1>0, <1>1, <1>2, <1>3 DEF WorkerInv, Loop, Unmarked

\* ... and after one of the spawned tasks.
LEMMA LoopOfTasks ==
  ASSUME TestTypeOK, Alone, Worked, WorkerInv, ReaperStep \/ CollectorStep \/ StopStep
  PROVE  Loop'
<1>0. /\ Shape(test) /\ mine \in Workers
      /\ tasks \in [Workers -> SUBSET {"gc", "dlq"}]
  BY TestShape DEF TestTypeOK, SysTypeOK
<1>1. /\ UNCHANGED <<test, mine, pc, faults, main, flag, at>>
      /\ UNCHANGED calls \/ Counted("drain") \/ Counted("garbage")
      /\ \/ flag[mine]
         \/ "dlq" \in tasks[mine]
         \/ "gc" \in tasks[mine]
  <2>1. CASE ReaperStep
    BY <2>1, DrainsNothing DEF WorkerInv, appVars, Counted
  <2>2. CASE CollectorStep
    BY <2>2 DEF CollectorStep, Collector, CollectGarbage, workerVars, appVars, Counted
  <2>3. CASE StopStep
    BY <2>3 DEF StopStep, StopTask, vars, workerVars, testVars
  <2> QED
    BY <2>1, <2>2, <2>3
<1>2. test.subject = "run"
  BY <1>1 DEF Worked, WorkerInv, Loop
<1>3. calls'["fetch"] = calls["fetch"]
  BY <1>1, CallsStep DEF TestTypeOK
<1>4. calls[test.sends.call] >= test.sends.nth => calls'[test.sends.call] >= test.sends.nth
  BY <1>1, SentStays
<1> QED
  BY <1>1, <1>2, <1>3, <1>4 DEF WorkerInv, Loop, Unmarked

\* Every step of a worker's test keeps its invariant.
LEMMA WorkerInvStep ==
  ASSUME TestTypeOK, Alone, arranged, Worked, WorkerInv, [TNext]_tvars
  PROVE  WorkerInv'
<1>0. TypeOK /\ test \in Tests /\ mine \in Workers
  BY DEF TestTypeOK
<1>1. CASE UNCHANGED tvars
  <2>1. Rows' /\ Hands' /\ Tallies'
    BY <1>1, CalmKeeps DEF tvars, svars, vars, tableVars, workerVars, testVars, WorkerInv
  <2>2. Loop'
    BY <1>1 DEF tvars, svars, vars, appVars, workerVars, testVars, WorkerInv, Loop, Unmarked
  <2> QED
    BY <2>1, <2>2 DEF WorkerInv
<1>2. CASE StartStep \/ LoopStep \/ StopStep
  <2>1. UNCHANGED vars /\ UNCHANGED testVars
    BY <1>2 DEF StartStep, LoopStep, StopStep, Start, Wake, StopMain, StopTask
  <2>2. Rows' /\ Hands' /\ Tallies'
    BY <2>1, CalmKeeps DEF vars, tableVars, workerVars, testVars, WorkerInv
  <2> QED
    BY <1>2, <2>2, LoopOfScript, LoopOfLoop, LoopOfTasks DEF WorkerInv
<1>3. CASE MockStep
  <2>1. CASE Shutdown(mine)
    <3>1. UNCHANGED vars /\ UNCHANGED testVars
      BY <1>3, <2>1 DEF MockStep, Shutdown
    <3> QED
      BY <1>3, <3>1, CalmKeeps, LoopOfScript DEF vars, tableVars, workerVars, testVars, WorkerInv
  <2>2. CASE \E e \in Arriving : Insert(e)
    BY <1>3, <2>2, InsertKeeps, LoopOfScript DEF MockStep, WorkerInv
  <2> QED
    BY <1>3, <2>1, <2>2 DEF MockStep
<1>4. CASE WorkerStep
  BY <1>4, WorkerKeeps, LoopOfWorker DEF WorkerInv
<1>5. CASE ReaperStep
  BY <1>5, DrainsNothing, CalmKeeps, LoopOfTasks DEF WorkerInv, Counted
<1>6. CASE CollectorStep
  <2>1. UNCHANGED vars /\ Counted("garbage")
    BY <1>0, <1>6, NoGarbage DEF CollectorStep, Collector
  <2> QED
    BY <1>6, <2>1, CalmKeeps, LoopOfTasks DEF vars, tableVars, workerVars, WorkerInv, Counted
<1> QED
  BY <1>1, <1>2, <1>3, <1>4, <1>5, <1>6 DEF TNext, Arrange

-----------------------------------------------------------------------------
(* The tests of the spawned tasks and of the builder. *)

\* In a test of the reaper only the reaper moves, beside the request.
LEMMA StepOfReaper ==
  ASSUME TestTypeOK, Alone, arranged, test.subject = "dlq", ReaperInv, [TNext]_tvars
  PROVE  \/ ReaperStep
         \/ /\ UNCHANGED <<vars, test, mine, main, calls>>
            /\ \/ UNCHANGED <<tasks, flag>>
               \/ Sending /\ UNCHANGED tasks
               \/ StopTask(mine)
<1>0. Shape(test) /\ mine \in Workers /\ TypeOK
  BY TestShape DEF TestTypeOK
<1>1. Call(mine) # "start"
  <2>1. program[mine].script = <<"shutdown">>
    BY <1>0 DEF TestTypeOK, ProgramOf, Shape
  <2>2. Len(<<"shutdown">>) = 1 /\ <<"shutdown">>[1] = "shutdown" /\ at[mine] \in Nat
    BY <1>0 DEF TestTypeOK, SysTypeOK
  <2> QED
    BY <2>1, <2>2 DEF Call, Down
<1>2. Arriving = {}
  BY <1>0 DEF Arriving, Shape
<1>3. ~Arrange /\ ~StartStep /\ ~WorkerStep /\ ~LoopStep /\ ~CollectorStep
  BY <1>1 DEF Arrange, StartStep, Start, WorkerStep, Batch, BatchFails, LoopStep, Wake, StopMain,
              CollectorStep, Collector, ReaperInv
<1>4. CASE UNCHANGED tvars
  BY <1>4 DEF tvars, svars, appVars, testVars
<1>5. CASE MockStep
  BY <1>2, <1>5 DEF MockStep, Shutdown, testVars
<1>6. CASE StopStep
  BY <1>6 DEF StopStep, StopTask, testVars
<1> QED
  BY <1>3, <1>4, <1>5, <1>6 DEF TNext

\* It drains what has reached the threshold, and nothing after that.
LEMMA DrainKeeps ==
  ASSUME TestTypeOK, test.subject = "dlq", ReaperInv, ReaperStep, drained[mine] = NoEntries
  PROVE  ReaperInv'
<1>0. Shape(test) /\ mine \in Workers /\ TypeOK
  BY TestShape DEF TestTypeOK
<1>1. Drain(mine) /\ Counted("drain") /\ UNCHANGED appVars /\ "dlq" \in tasks[mine]
  BY <1>0 DEF ReaperStep, ReaperCall, Breaks, Shape, Reaper, Reap, Quarantine
<1>2. /\ UNCHANGED <<test, mine, main, tasks, flag, pc, status, dead, faults>>
      /\ calls'["quarantine"] = calls["quarantine"] /\ calls'["drain"] > 0
  BY <1>0, <1>1, CallsStep DEF Counted, Drain, tableVars, workerVars, appVars, TestTypeOK, MaxCalls
<1>3. flag'[mine] => calls'[test'.sends.call] >= test'.sends.nth
  BY <1>1, <1>2, SentStays DEF ReaperInv
<1>4. /\ heap' = [e \in Events |-> IF e \in Exceeded THEN 0 ELSE heap[e]]
      /\ drained'[mine] = [e \in Events |-> IF e \in Exceeded THEN heap[e] ELSE 0]
  BY <1>0, <1>1 DEF Drain, DrainExceeded, DrainedEntries, TypeOK
<1>5. Entries' = Entries /\ (Hot' <=> Hot)
  BY <1>2 DEF Entries, Hot
<1>6. heap \in [Events -> 0..MaxFailures] /\ test.failures \in 0..MaxFailures
      /\ Threshold >= 2 /\ test.rows \subseteq Events
  BY <1>0 DEF TypeOK, HeapTypeOK, Shape, ConfigAssumption, TestsAssumption
<1>7. CASE Hot /\ calls["drain"] = 0
  <2>1. heap = Entries
    BY <1>7 DEF ReaperInv
  <2>2. Exceeded = test.rows
    BY <1>6, <1>7, <2>1 DEF Exceeded, Entries, Hot
  <2>3. heap' = NoEntries /\ drained'[mine] = Entries
    BY <1>4, <1>6, <2>1, <2>2 DEF Entries, NoEntries
  <2> QED
    BY <1>1, <1>2, <1>3, <1>5, <1>7, <2>3 DEF ReaperInv
<1>8. CASE ~(Hot /\ calls["drain"] = 0)
  <2>1. Exceeded = {}
    <3>1. calls["drain"] \in 0..MaxCalls
      BY DEF TestTypeOK
    <3>2. heap = NoEntries \/ (heap = Entries /\ ~Hot)
      BY <1>8, <3>1 DEF ReaperInv
    <3>3. heap = NoEntries => Exceeded = {}
      BY DEF NoEntries, Exceeded
    <3>4. heap = Entries /\ ~Hot => Exceeded = {}
      BY <1>6 DEF Entries, Hot, Exceeded
    <3> QED
      BY <3>2, <3>3, <3>4
  <2>2. heap' = heap /\ drained'[mine] = NoEntries
    BY <1>4, <1>6, <2>1 DEF NoEntries
  <2>3. calls["drain"] > 0 \/ ~Hot
    BY <1>8 DEF TestTypeOK
  <2>4. drained[mine] # Entries \/ ~Hot
    BY <1>6 DEF Entries, NoEntries, Hot
  <2> QED
    BY <1>2, <1>3, <1>5, <2>2, <2>3, <2>4 DEF ReaperInv
<1> QED
  BY <1>7, <1>8

\* ... and hands it over once, whether that fails or not.
LEMMA QuarantineKeeps ==
  ASSUME TestTypeOK, test.subject = "dlq", ReaperInv, ReaperStep, drained[mine] # NoEntries
  PROVE  ReaperInv'
<1>0. Shape(test) /\ mine \in Workers /\ TypeOK
  BY TestShape DEF TestTypeOK
<1>1. /\ Counted("quarantine") /\ UNCHANGED appVars
      /\ Quarantine(mine) \/ (QuarantineFails(mine) /\ test.breaks # "none")
  BY DEF ReaperStep, ReaperCall, Breaks, Reaper, ReaperFails, Reap, Drain, DrainFails
<1>2. /\ UNCHANGED <<test, mine, main, tasks, flag, pc, heap>>
      /\ calls'["drain"] = calls["drain"]
      /\ calls["quarantine"] = 0 => calls'["quarantine"] = 1
  <2>1. UNCHANGED <<test, mine, main, tasks, flag>>
    BY <1>1 DEF Counted, appVars
  <2>2. UNCHANGED <<pc, heap>>
    BY <1>1 DEF Quarantine, QuarantineFails, workerVars
  <2>3. /\ calls'["drain"] = calls["drain"]
        /\ calls["quarantine"] = 0 => calls'["quarantine"] = 1
    <3>1. "drain" \in DOMAIN calls \ {"quarantine"} /\ "quarantine" \in DOMAIN calls
      BY DEF TestTypeOK
    <3> QED
      BY <1>1, <3>1, CallsStep DEF MaxCalls
  <2> QED
    BY <2>1, <2>2, <2>3
<1>3. flag'[mine] => calls'[test'.sends.call] >= test'.sends.nth
  <2>1. Counted("quarantine")
    BY <1>1
  <2> QED
    BY <1>2, <2>1, SentStays DEF ReaperInv
<1>4. Entries' = Entries /\ (Hot' <=> Hot)
  BY <1>2 DEF Entries, Hot
<1>5. /\ Hot /\ calls["drain"] > 0 /\ heap = NoEntries /\ drained[mine] = Entries
      /\ calls["quarantine"] = 0 /\ \A e \in test.rows : status[e] = "Pending"
  BY DEF ReaperInv
<1>6. drained'[mine] = NoEntries
  BY <1>0, <1>1 DEF Quarantine, QuarantineFails, TypeOK
<1>7. test.rows \subseteq Events /\ test.failures \in 0..MaxFailures /\ test.failures > 0
  BY <1>0, <1>5 DEF Shape, Hot, ConfigAssumption, TestsAssumption
<1>8. QuarantineEvents(drained[mine]) =>
        /\ \A e \in Events : status'[e] = IF e \in test.rows THEN "Gone" ELSE status[e]
        /\ \A e \in Events : dead'[e] = IF e \in test.rows THEN test.failures ELSE dead[e]
  <2>1. {e \in InTable : Entries[e] > 0} = test.rows
    BY <1>5, <1>7 DEF InTable, Entries, ReaperInv
  <2> QED
    BY <1>5, <1>7, <2>1 DEF QuarantineEvents, Entries
<1>9. /\ \A e \in Events : status'[e] \in {"New", "Pending", "Gone"}
      /\ \A e \in Events : status'[e] # "New" <=> e \in test.rows
      /\ \A e \in Events : dead'[e] > 0 => e \in test.rows
      /\ test.breaks = "none" => \A e \in test.rows : dead'[e] > 0
      /\ faults' > 0 => test.breaks # "none"
  <2>1. CASE Quarantine(mine)
    BY <1>7, <1>8, <2>1 DEF Quarantine, ReaperInv
  <2>2. CASE QuarantineFails(mine) /\ test.breaks # "none"
    BY <1>7, <1>8, <2>2 DEF QuarantineFails, ReaperInv, tableVars
  <2> QED
    BY <1>1, <2>1, <2>2
<1> QED
  BY <1>2, <1>3, <1>4, <1>5, <1>6, <1>9 DEF ReaperInv

\* Every step of a reaper's test keeps its invariant.
LEMMA ReaperInvStep ==
  ASSUME TestTypeOK, Alone, arranged, test.subject = "dlq", ReaperInv, [TNext]_tvars
  PROVE  ReaperInv'
<1>0. Shape(test) /\ mine \in Workers /\ tasks \in [Workers -> SUBSET {"gc", "dlq"}]
  BY TestShape DEF TestTypeOK, SysTypeOK
<1>1. CASE ReaperStep
  BY <1>1, DrainKeeps, QuarantineKeeps
<1>2. ASSUME UNCHANGED <<vars, test, mine, main, calls>>,
             \/ UNCHANGED <<tasks, flag>>
             \/ Sending /\ UNCHANGED tasks
             \/ StopTask(mine)
      PROVE  ReaperInv'
  <2>1. Entries' = Entries /\ (Hot' <=> Hot)
    BY <1>2 DEF Entries, Hot
  <2>2. UNCHANGED <<status, dead, heap, pc, drained, faults>>
    BY <1>2 DEF vars, tableVars, workerVars
  <2>3. flag'[mine] => calls[test.sends.call] >= test.sends.nth
    BY <1>2 DEF ReaperInv, Sending, StopTask
  <2>4. tasks'[mine] \subseteq {"dlq"}
        /\ ("dlq" \in tasks[mine] /\ drained[mine] # NoEntries => "dlq" \in tasks'[mine])
    BY <1>0, <1>2 DEF ReaperInv, StopTask
  <2>5. Entries # NoEntries \/ ~Hot
    BY <1>0 DEF Entries, NoEntries, Hot, Shape, TestsAssumption, ConfigAssumption
  <2> QED
    BY <1>2, <2>1, <2>2, <2>3, <2>4, <2>5 DEF ReaperInv
<1> QED
  BY <1>1, <1>2, StepOfReaper

\* build() is called once; after that a test of the builder is over.
LEMMA BuildInvStep ==
  ASSUME TestTypeOK, arranged, test.subject = "build", BuildInv, [TNext]_tvars
  PROVE  BuildInv'
<1>0. /\ Shape(test) /\ mine \in Workers
      /\ main \in [Workers -> {"off", "waiting", "batch", "stopped"}]
      /\ at \in [Workers -> Nat] /\ UNCHANGED <<test, mine>>
  BY TestShape, TestStays DEF TestTypeOK, SysTypeOK
<1>1. CASE UNCHANGED <<at, main>>
  BY <1>0, <1>1 DEF BuildInv, Required
<1>2. CASE StartStep
  <2>1. at[mine] = 1 /\ main[mine] = "off"
    BY <1>2 DEF StartStep, Running, Over, BuildInv
  <2>2. program[mine].wired = test.wired
    BY <1>0 DEF TestTypeOK, ProgramOf
  <2>3. IF Required(mine) \subseteq test.wired
        THEN main'[mine] = "waiting" /\ at'[mine] = 2
        ELSE main'[mine] = "off" /\ at'[mine] = 0
    BY <1>0, <1>2, <2>1, <2>2 DEF StartStep, Start, Advance, Down
  <2> QED
    BY <1>0, <2>3 DEF BuildInv, Required
<1>3. CASE MockStep \/ WorkerStep \/ LoopStep
  <2>1. at[mine] = 1 /\ main[mine] = "off"
    BY <1>3 DEF MockStep, WorkerStep, LoopStep, Answered, Running, Over, BuildInv
  <2>2. Call(mine) # "shutdown"
    <3>1. program[mine].script = <<"start">>
      BY <1>0 DEF TestTypeOK, ProgramOf, Shape
    <3>2. Len(<<"start">>) = 1 /\ <<"start">>[1] = "start"
      OBVIOUS
    <3> QED
      BY <2>1, <3>1, <3>2 DEF Call, Down
  <2> QED
    BY <1>1, <1>3, <2>1, <2>2
       DEF MockStep, Sending, WorkerStep, Batch, BatchFails, LoopStep, Wake, StopMain, appVars
<1>4. CASE ReaperStep \/ CollectorStep \/ StopStep \/ UNCHANGED tvars
  BY <1>1, <1>4 DEF ReaperStep, Reaper, ReaperFails, CollectorStep, Collector, StopStep, StopTask,
                    appVars, tvars, svars
<1> QED
  BY <1>2, <1>3, <1>4 DEF TNext, Arrange

-----------------------------------------------------------------------------
(* The whole invariant. *)

\* The rows and mocks that a test arranges.
LEMMA ArrangeWorker ==
  ASSUME TestTypeOK, Untouched, Arrange, Worked
  PROVE  WorkerInv'
<1>0. /\ Shape(test) /\ mine \in Workers /\ UNCHANGED <<test, mine, calls, at>>
      /\ UNCHANGED <<pc, todo, counting, successes, drained, dead, faults>>
      /\ main \in [Workers -> {"off", "waiting", "batch", "stopped"}]
      /\ flag \in [Workers -> BOOLEAN] /\ tasks \in [Workers -> SUBSET {"gc", "dlq"}]
  BY TestShape DEF TestTypeOK, SysTypeOK, Arrange, workerVars
<1>1. \A e \in Events : /\ status'[e] = IF e \in test.rows THEN "Pending" ELSE "New"
                        /\ heap'[e] = 0
  BY <1>0 DEF Arrange, Worked, Shape
<1>2. /\ calls["fetch"] = 0 /\ calls["publish"] = 0 /\ calls["success"] = 0
      /\ calls["failure"] = 0 /\ calls["mark"] = 0 /\ calls["drain"] = 0
  BY DEF Untouched, TestTypeOK
<1>3. Claimed' = {} /\ Published' = {} /\ Tallied' = {} /\ ~Unmarked'
  BY <1>0, <1>1 DEF Claimed, Published, Tallied, Unmarked, Untouched
<1>4. Held(mine)' = {}
  BY <1>0 DEF Held, Untouched
<1>5. Rows'
  BY <1>0, <1>1, <1>2, <1>3 DEF Rows, Untouched, Shape
<1>6. Hands'
  BY <1>0, <1>1, <1>2, <1>3, <1>4 DEF Hands, InHand, AtCall, WholeBatch, Broken, Untouched, Shape
<1>7. Tallies'
  <2>1. \A e \in Events : ~Marked(e)'
    BY <1>1, <1>3 DEF Marked
  <2>2. Size({}) = 0
    BY DEF Size, One
  <2> QED
    BY <1>0, <1>1, <1>2, <1>3, <2>1, <2>2 DEF Tallies, Untouched, Shape, One
<1>8. Loop'
  <2>1. /\ main'[mine] = IF test.subject = "batch" THEN "batch" ELSE "off"
        /\ tasks'[mine] = {} /\ flag'[mine] = test.requested
    BY <1>0 DEF Arrange, Worked
  <2> QED
    BY <1>0, <1>2, <1>3, <2>1 DEF Loop, Untouched, Shape, One
<1> QED
  BY <1>5, <1>6, <1>7, <1>8 DEF WorkerInv

\* Arranging a test of the reaper or of the builder establishes its invariant.
LEMMA ArrangeOthers ==
  ASSUME TestTypeOK, Untouched, Arrange
  PROVE  /\ test.subject = "dlq" => ReaperInv'
         /\ test.subject = "build" => BuildInv'
<1>0. /\ Shape(test) /\ mine \in Workers /\ UNCHANGED <<test, mine, calls, at>>
      /\ UNCHANGED <<pc, drained, dead, faults>>
      /\ main \in [Workers -> {"off", "waiting", "batch", "stopped"}]
      /\ flag \in [Workers -> BOOLEAN] /\ tasks \in [Workers -> SUBSET {"gc", "dlq"}]
  BY TestShape DEF TestTypeOK, SysTypeOK, Arrange, workerVars
<1>1. \A e \in Events : status'[e] = IF e \in test.rows THEN "Pending" ELSE "New"
  BY DEF Arrange
<1>2. heap' = Entries' /\ calls["drain"] = 0 /\ calls["quarantine"] = 0
  BY <1>0 DEF Arrange, Entries, Untouched, TestTypeOK
<1>3. test.subject = "dlq" => main'[mine] = "off" /\ tasks'[mine] = {"dlq"} /\ ~flag'[mine]
  BY <1>0 DEF Arrange, Shape
<1>4. test.subject = "build" => main'[mine] = "off"
  BY <1>0 DEF Arrange
<1>5. test.rows \subseteq Events
  BY <1>0 DEF Shape
<1> QED
  BY <1>0, <1>1, <1>2, <1>3, <1>4, <1>5 DEF ReaperInv, BuildInv, Untouched

\* At first nothing has happened.
LEMMA InitTestInv == TInit => TestInv
<1> SUFFICES ASSUME TInit PROVE TestInv
  OBVIOUS
<1>1. TypeOK /\ SysTypeOK /\ mine \in Workers /\ Init
  BY InitTypeOK, InitSysTypeOK DEF TInit, SInit
<1>2. TestTypeOK
  <2>1. calls \in [{"fetch", "publish", "success", "failure", "mark",
                   "drain", "quarantine", "garbage"} -> 0..MaxCalls]
    BY DEF TInit, MaxCalls
  <2> QED
    BY <1>1, <2>1 DEF TInit, TestTypeOK
<1>3. Alone
  BY <1>1 DEF Init, TableInit, Alone
<1>4. Untouched
  BY <1>1 DEF Init, TableInit, HeapInit, TInit, SInit, Untouched
<1> QED
  BY <1>2, <1>3, <1>4 DEF TInit, TestInv

\* Every step of the harness keeps the invariant.
LEMMA TestInvStep == TestInv /\ [TNext]_tvars => TestInv'
<1> SUFFICES ASSUME TestInv, [TNext]_tvars PROVE TestInv'
  OBVIOUS
<1>1. TestTypeOK' /\ Alone'
  BY TestTypeStep, AloneStep DEF TestInv
<1>2. UNCHANGED <<test, mine>> /\ TestTypeOK
  BY TestStays DEF TestInv, TestTypeOK
<1>3. CASE arranged
  <2>1. arranged'
    BY <1>3, TestStays DEF TestInv, TestTypeOK
  <2>2. Worked => WorkerInv'
    BY <1>3, WorkerInvStep DEF TestInv
  <2>3. test.subject = "dlq" => ReaperInv'
    BY <1>3, ReaperInvStep DEF TestInv
  <2>4. test.subject = "build" => BuildInv'
    BY <1>3, BuildInvStep DEF TestInv
  <2> QED
    BY <1>1, <1>2, <2>1, <2>2, <2>3, <2>4 DEF TestInv, Worked
<1>4. CASE ~arranged
  <2>1. Arrange \/ UNCHANGED tvars
    BY <1>4 DEF TNext, StartStep, MockStep, WorkerStep, LoopStep, ReaperStep, CollectorStep,
                StopStep, Answered, Running
  <2>2. CASE Arrange
    BY <1>1, <1>2, <1>4, <2>2, ArrangeWorker, ArrangeOthers DEF TestInv, Worked, Arrange
  <2>3. CASE UNCHANGED tvars
    BY <1>1, <1>2, <1>4, <2>3
       DEF TestInv, Untouched, tvars, svars, vars, appVars, tableVars, workerVars, testVars
  <2> QED
    BY <2>1, <2>2, <2>3
<1> QED
  BY <1>3, <1>4

\* The invariant of the tests, in every schedule.
LEMMA TestInvariant == TSpec => []TestInv
BY InitTestInv, TestInvStep, PTL DEF TSpec

-----------------------------------------------------------------------------
(* What the tests assert. *)

\* A test that is over has arranged its mocks.
LEMMA OverArranged == TestInv /\ Over => arranged
BY DEF TestInv, Untouched, Over

\* The tests, by what they call.
LEMMA BatchSubjects ==
  \A t \in {empty_batch_returns_zero_and_skips_status_update,
            all_publishes_succeed_updates_status_with_all_ids,
            partial_publish_failure_updates_only_successful,
            all_publishes_fail_skips_status_update,
            fetch_error_propagates_without_publishing,
            update_status_error_propagates_after_publish} : t.subject = "batch"
<1>1. empty_batch_returns_zero_and_skips_status_update.subject = "batch"
  BY DEF OneBatch, empty_batch_returns_zero_and_skips_status_update
<1>2. all_publishes_succeed_updates_status_with_all_ids.subject = "batch"
  BY DEF OneBatch, all_publishes_succeed_updates_status_with_all_ids
<1>3. partial_publish_failure_updates_only_successful.subject = "batch"
  BY DEF OneBatch, partial_publish_failure_updates_only_successful
<1>4. all_publishes_fail_skips_status_update.subject = "batch"
  BY DEF OneBatch, all_publishes_fail_skips_status_update
<1>5. fetch_error_propagates_without_publishing.subject = "batch"
  BY DEF OneBatch, fetch_error_propagates_without_publishing
<1>6. update_status_error_propagates_after_publish.subject = "batch"
  BY DEF OneBatch, update_status_error_propagates_after_publish
<1> QED
  BY <1>1, <1>2, <1>3, <1>4, <1>5, <1>6

\* The tests of run() are about run().
LEMMA RunSubjects ==
  \A t \in {test_event_send_success, test_publish_failure,
            shutdown_set_before_run_exits_without_fetch, inner_loop_drains_until_empty_batch,
            fetch_error_inside_loop_is_recoverable} : t.subject = "run"
<1>1. test_event_send_success.subject = "run"
  BY DEF OneBatch, WholeRun, test_event_send_success
<1>2. test_publish_failure.subject = "run"
  BY DEF OneBatch, WholeRun, test_publish_failure
<1>3. shutdown_set_before_run_exits_without_fetch.subject = "run"
  BY DEF OneBatch, WholeRun, shutdown_set_before_run_exits_without_fetch
<1>4. inner_loop_drains_until_empty_batch.subject = "run"
  BY DEF OneBatch, WholeRun, inner_loop_drains_until_empty_batch
<1>5. fetch_error_inside_loop_is_recoverable.subject = "run"
  BY DEF OneBatch, WholeRun, fetch_error_inside_loop_is_recoverable
<1> QED
  BY <1>1, <1>2, <1>3, <1>4, <1>5

\* The tests of the collector are about the collector.
LEMMA GcSubjects ==
  \A t \in {gc_run_exits_when_shutdown_flag_is_set_to_true,
            run_invokes_collect_garbage_on_each_interval_tick} : t.subject = "gc"
BY DEF OneBatch, OneTask, gc_run_exits_when_shutdown_flag_is_set_to_true,
       run_invokes_collect_garbage_on_each_interval_tick

\* The tests of the reaper are about the reaper.
LEMMA ReaperSubjects ==
  \A t \in {dlq_run_exits_when_shutdown_flag_is_set_to_true,
            run_drains_heap_and_forwards_to_quarantine_events,
            run_skips_quarantine_when_drain_returns_empty_batch,
            run_swallows_quarantine_errors_and_keeps_running} : t.subject = "dlq"
<1>1. dlq_run_exits_when_shutdown_flag_is_set_to_true.subject = "dlq"
  BY DEF OneBatch, OneTask, dlq_run_exits_when_shutdown_flag_is_set_to_true
<1>2. run_drains_heap_and_forwards_to_quarantine_events.subject = "dlq"
  BY DEF OneBatch, OneTask, run_drains_heap_and_forwards_to_quarantine_events
<1>3. run_skips_quarantine_when_drain_returns_empty_batch.subject = "dlq"
  BY DEF OneBatch, OneTask, run_skips_quarantine_when_drain_returns_empty_batch
<1>4. run_swallows_quarantine_errors_and_keeps_running.subject = "dlq"
  BY DEF OneBatch, OneTask, run_swallows_quarantine_errors_and_keeps_running
<1> QED
  BY <1>1, <1>2, <1>3, <1>4

\* The tests of the builder are about the builder.
LEMMA BuildSubjects ==
  \A t \in {test_success_build, default_builder_fails_on_build_with_config_error,
            build_fails_without_storage, build_fails_without_publisher,
            build_fails_without_config, build_fails_without_shutdown_rx,
            build_fails_without_dlq_heap} : t.subject = "build"
<1>1. test_success_build.subject = "build"
  BY DEF OneBatch, Build, test_success_build
<1>2. default_builder_fails_on_build_with_config_error.subject = "build"
  BY DEF OneBatch, Build, default_builder_fails_on_build_with_config_error
<1>3. build_fails_without_storage.subject = "build"
  BY DEF OneBatch, Build, build_fails_without_storage
<1>4. build_fails_without_publisher.subject = "build"
  BY DEF OneBatch, Build, build_fails_without_publisher
<1>5. build_fails_without_config.subject = "build"
  BY DEF OneBatch, Build, build_fails_without_config
<1>6. build_fails_without_shutdown_rx.subject = "build"
  BY DEF OneBatch, Build, build_fails_without_shutdown_rx
<1>7. build_fails_without_dlq_heap.subject = "build"
  BY DEF OneBatch, Build, build_fails_without_dlq_heap
<1> QED
  BY <1>1, <1>2, <1>3, <1>4, <1>5, <1>6, <1>7

\* ... each of which calls one thing.
LEMMA TestsBySubject ==
  ASSUME NEW t \in Tests
  PROVE  /\ t.subject = "batch" =>
              t \in {empty_batch_returns_zero_and_skips_status_update,
                     all_publishes_succeed_updates_status_with_all_ids,
                     partial_publish_failure_updates_only_successful,
                     all_publishes_fail_skips_status_update,
                     fetch_error_propagates_without_publishing,
                     update_status_error_propagates_after_publish}
         /\ t.subject = "run" =>
              t \in {test_event_send_success, test_publish_failure,
                     shutdown_set_before_run_exits_without_fetch,
                     inner_loop_drains_until_empty_batch, fetch_error_inside_loop_is_recoverable}
         /\ t.subject = "gc" =>
              t \in {gc_run_exits_when_shutdown_flag_is_set_to_true,
                     run_invokes_collect_garbage_on_each_interval_tick}
         /\ t.subject = "dlq" =>
              t \in {dlq_run_exits_when_shutdown_flag_is_set_to_true,
                     run_drains_heap_and_forwards_to_quarantine_events,
                     run_skips_quarantine_when_drain_returns_empty_batch,
                     run_swallows_quarantine_errors_and_keeps_running}
         /\ t.subject = "build" =>
              t \in {test_success_build, default_builder_fails_on_build_with_config_error,
                     build_fails_without_storage, build_fails_without_publisher,
                     build_fails_without_config, build_fails_without_shutdown_rx,
                     build_fails_without_dlq_heap}
BY BatchSubjects, RunSubjects, GcSubjects, ReaperSubjects, BuildSubjects DEF Tests, DlqTests

\* What a test of the worker has counted when it is over.
LEMMA WorkerOver ==
  ASSUME TestInv, Over, Worked
  PROVE  /\ \A e \in Events : dead[e] = 0
         /\ Claimed \subseteq test.rows \cup test.later
         /\ calls["fetch"] = 0 => Claimed = {}
         /\ calls["fetch"] > 0 => test.rows \subseteq Claimed
         /\ calls["fetch"] > 1 => test.later \subseteq Claimed
         /\ calls["publish"] = Size(Claimed)
         /\ mine \in DlqProcesses => /\ calls["success"] = Size(Claimed \ test.refused)
                                     /\ calls["failure"] = Size(Claimed \cap test.refused)
         /\ test.breaks # "mark" =>
              /\ {e \in Events : status[e] = "Sent"} = Claimed \ test.refused
              /\ calls["mark"] = One(Claimed \cap (test.rows \ test.refused) # {})
                                 + One(Claimed \cap (test.later \ test.refused) # {})
         /\ test.breaks = "none" => faults = 0
<1>0. WorkerInv /\ Shape(test) /\ TestTypeOK
  BY OverArranged, TestShape DEF TestInv, TestTypeOK
<1>1. main[mine] # "batch"
  BY <1>0 DEF Over, Worked
<1>2. pc[mine] = "idle" /\ todo[mine] = {} /\ successes[mine] = {} /\ counting[mine] = {}
  BY <1>0, <1>1 DEF WorkerInv, Loop, Hands, AtCall
<1>3. Published = Claimed /\ Tallied = Claimed
  BY <1>2 DEF Published, Tallied
<1>4. test.breaks = "none" => faults = 0
  BY <1>0 DEF WorkerInv, Hands, Broken, TestTypeOK, TypeOK, ProcessingAssumption
<1>5. ASSUME test.breaks # "mark"
      PROVE  {e \in Events : status[e] = "Sent"} = Claimed \ test.refused
  BY <1>0, <1>2, <1>3, <1>5 DEF WorkerInv, Hands, InHand, Unmarked, Claimed, Shape
<1>6. ASSUME test.breaks # "mark"
      PROVE  calls["mark"] = One(Claimed \cap (test.rows \ test.refused) # {})
                             + One(Claimed \cap (test.later \ test.refused) # {})
  <2>1. \A e \in Events : Marked(e) <=> e \in Claimed \ test.refused
    BY <1>5, <1>6 DEF Marked, Unmarked
  <2>2. test.rows \subseteq Events /\ test.later \subseteq Events
    BY <1>0 DEF Shape
  <2>3. (\E e \in test.rows : Marked(e)) <=> Claimed \cap (test.rows \ test.refused) # {}
    BY <2>1, <2>2
  <2>4. (\E e \in test.later : Marked(e)) <=> Claimed \cap (test.later \ test.refused) # {}
    BY <2>1, <2>2
  <2> QED
    BY <1>0, <2>3, <2>4 DEF WorkerInv, Tallies, One
<1>7. Claimed \subseteq test.rows \cup test.later
  BY <1>0 DEF WorkerInv, Rows, Claimed
<1> QED
  BY <1>0, <1>3, <1>4, <1>5, <1>6, <1>7 DEF WorkerInv, Rows, Tallies

\* The tests of process_pending_events.
LEMMA BatchAsserts ==
  ASSUME TestInv, Over, test.subject = "batch"
  PROVE  AssertionsHold
<1>0. Worked /\ Shape(test) /\ TestTypeOK /\ arranged /\ WorkerInv
  BY OverArranged, TestShape DEF TestInv, Worked, TestTypeOK
<1>1. /\ \A e \in Events : dead[e] = 0
      /\ Claimed = test.rows
      /\ calls["fetch"] = 1 /\ calls["drain"] = 0
      /\ calls["publish"] = Size(test.rows)
      /\ mine \in DlqProcesses => /\ calls["success"] = Size(test.rows \ test.refused)
                                  /\ calls["failure"] = Size(test.rows \cap test.refused)
      /\ test.breaks # "mark" =>
           /\ {e \in Events : status[e] = "Sent"} = test.rows \ test.refused
           /\ calls["mark"] = One(test.rows \ test.refused # {})
      /\ test.breaks = "none" => faults = 0
  <2>1. test.later = {} /\ main[mine] = "waiting"
    BY <1>0 DEF Shape, Over
  <2>2. calls["fetch"] = 1 /\ calls["drain"] = 0
    BY <1>0, <2>1 DEF WorkerInv, Loop
  <2>3. Claimed = test.rows
    <3>1. /\ Claimed \subseteq test.rows \cup test.later
          /\ calls["fetch"] > 0 => test.rows \subseteq Claimed
      BY <1>0, WorkerOver
    <3>2. test.rows \subseteq Claimed
      BY <2>2, <3>1
    <3> QED
      BY <2>1, <3>1, <3>2
  <2>4. /\ Claimed \cap (test.rows \ test.refused) = test.rows \ test.refused
        /\ Claimed \cap (test.later \ test.refused) = {}
    BY <2>1, <2>3
  <2> QED
    BY <1>0, <2>2, <2>3, <2>4, WorkerOver DEF One
<1>2. test.breaks = "fetch" => faults > 0
  BY <1>0, <1>1 DEF WorkerInv, Hands, Broken, TestTypeOK, TypeOK, ProcessingAssumption
<1>3. ASSUME test.breaks = "mark", e1 \in test.rows \ test.refused, test.later = {}
      PROVE  faults > 0 /\ calls["mark"] = 1
  <2>1. pc[mine] = "idle" /\ todo[mine] = {} /\ successes[mine] = {}
    BY <1>0 DEF Over, WorkerInv, Loop, Hands, AtCall
  <2>2. e1 \in Published \ test.refused /\ e1 \in Events
    BY <1>1, <1>3, <2>1 DEF Published, TestsAssumption
  <2>3. status[e1] = "Sent" \/ Unmarked
    BY <1>0, <2>1, <2>2 DEF WorkerInv, Hands, InHand
  <2>4. faults > 0
    BY <1>0, <1>3, <2>2, <2>3
       DEF WorkerInv, Hands, Broken, Unmarked, TestTypeOK, TypeOK, ProcessingAssumption
  <2>5. Marked(e1)
    BY <1>1, <1>3, <2>3 DEF Marked
  <2> QED
    BY <1>0, <1>3, <2>4, <2>5 DEF WorkerInv, Tallies, One
<1>4. Outcome = IF faults > 0 THEN "Err" ELSE "Ok"
  BY DEF Outcome
<1> USE DEF AssertionsHold, OneBatch, Size, One, TestsAssumption
<1>5. CASE test = empty_batch_returns_zero_and_skips_status_update
  BY <1>1, <1>4, <1>5 DEF empty_batch_returns_zero_and_skips_status_update
<1>6. CASE test = all_publishes_succeed_updates_status_with_all_ids
  BY <1>1, <1>4, <1>6 DEF all_publishes_succeed_updates_status_with_all_ids
<1>7. CASE test = partial_publish_failure_updates_only_successful
  BY <1>1, <1>4, <1>7 DEF partial_publish_failure_updates_only_successful
<1>8. CASE test = all_publishes_fail_skips_status_update
  BY <1>1, <1>4, <1>8 DEF all_publishes_fail_skips_status_update
<1>9. CASE test = fetch_error_propagates_without_publishing
  BY <1>1, <1>2, <1>4, <1>9 DEF fetch_error_propagates_without_publishing
<1>10. CASE test = update_status_error_propagates_after_publish
  BY <1>1, <1>3, <1>4, <1>10 DEF update_status_error_propagates_after_publish
<1> QED
  BY <1>0, <1>5, <1>6, <1>7, <1>8, <1>9, <1>10, TestsBySubject DEF TestTypeOK

\* The tests of run().
LEMMA RunAsserts ==
  ASSUME TestInv, Over, test.subject = "run"
  PROVE  AssertionsHold
<1>0. Worked /\ Shape(test) /\ TestTypeOK /\ arranged /\ WorkerInv
  BY OverArranged, TestShape DEF TestInv, Worked, TestTypeOK
<1>1. /\ \A e \in Events : dead[e] = 0
      /\ Claimed \subseteq test.rows \cup test.later
      /\ calls["fetch"] = 0 => Claimed = {}
      /\ calls["fetch"] > 0 => test.rows \subseteq Claimed
      /\ calls["fetch"] > 1 => test.later \subseteq Claimed
      /\ calls["publish"] = Size(Claimed)
      /\ {e \in Events : status[e] = "Sent"} = Claimed \ test.refused
      /\ calls["mark"] = One(Claimed \cap (test.rows \ test.refused) # {})
                         + One(Claimed \cap (test.later \ test.refused) # {})
  BY <1>0, WorkerOver DEF Shape
<1>2. /\ test.requested => calls["fetch"] = 0
      /\ test.requested \/ calls[test.sends.call] >= test.sends.nth
      /\ calls["fetch"] \in 0..MaxCalls
  BY <1>0 DEF WorkerInv, Loop, Over, TestTypeOK
<1>3. Outcome = "Ok"
  BY DEF Outcome
<1> USE DEF AssertionsHold, OneBatch, WholeRun, Size, One, MaxCalls, TestsAssumption
<1>4. CASE test = test_event_send_success
  BY <1>1, <1>2, <1>3, <1>4 DEF test_event_send_success
<1>5. CASE test = test_publish_failure
  BY <1>1, <1>2, <1>3, <1>5 DEF test_publish_failure
<1>6. CASE test = shutdown_set_before_run_exits_without_fetch
  BY <1>1, <1>2, <1>3, <1>6 DEF shutdown_set_before_run_exits_without_fetch
<1>7. CASE test = inner_loop_drains_until_empty_batch
  BY <1>1, <1>2, <1>3, <1>7 DEF inner_loop_drains_until_empty_batch
<1>8. CASE test = fetch_error_inside_loop_is_recoverable
  BY <1>1, <1>2, <1>3, <1>8 DEF fetch_error_inside_loop_is_recoverable
<1> QED
  BY <1>0, <1>4, <1>5, <1>6, <1>7, <1>8, TestsBySubject DEF TestTypeOK

\* The tests of the collector assert that they end.
LEMMA GcAsserts ==
  ASSUME TestInv, test.subject = "gc"
  PROVE  AssertionsHold
<1>1. CASE test = gc_run_exits_when_shutdown_flag_is_set_to_true
  BY <1>1 DEF gc_run_exits_when_shutdown_flag_is_set_to_true, OneBatch, OneTask,
              AssertionsHold, Outcome
<1>2. CASE test = run_invokes_collect_garbage_on_each_interval_tick
  BY <1>2 DEF run_invokes_collect_garbage_on_each_interval_tick, OneBatch, OneTask,
              AssertionsHold, Outcome
<1> QED
  BY <1>1, <1>2, TestsBySubject DEF TestInv, TestTypeOK

\* The tests of the reaper.
LEMMA ReaperAsserts ==
  ASSUME TestInv, Over, test.subject = "dlq"
  PROVE  AssertionsHold
<1>0. ReaperInv /\ TestTypeOK /\ flag[mine] /\ tasks[mine] = {}
  BY OverArranged DEF TestInv, Over
<1>1. /\ calls[test.sends.call] >= test.sends.nth /\ calls["drain"] \in 0..MaxCalls
      /\ {e \in Events : status[e] = "Sent"} = {}
      /\ IF Hot /\ calls["drain"] > 0
         THEN /\ calls["quarantine"] = 1
              /\ test.breaks = "none" => \A e \in test.rows : dead[e] > 0
         ELSE calls["quarantine"] = 0
      /\ \A e \in Events : dead[e] > 0 => e \in test.rows
  BY <1>0 DEF ReaperInv, TestTypeOK
<1>2. Outcome = "Ok"
  BY DEF Outcome
<1> USE DEF AssertionsHold, OneBatch, OneTask, Hot, TestsAssumption, ConfigAssumption
<1>3. CASE test = dlq_run_exits_when_shutdown_flag_is_set_to_true
  BY <1>2, <1>3 DEF dlq_run_exits_when_shutdown_flag_is_set_to_true
<1>4. CASE test = run_drains_heap_and_forwards_to_quarantine_events
  BY <1>1, <1>2, <1>4 DEF run_drains_heap_and_forwards_to_quarantine_events
<1>5. CASE test = run_skips_quarantine_when_drain_returns_empty_batch
  BY <1>1, <1>2, <1>5 DEF run_skips_quarantine_when_drain_returns_empty_batch
<1>6. CASE test = run_swallows_quarantine_errors_and_keeps_running
  BY <1>1, <1>2, <1>6 DEF run_swallows_quarantine_errors_and_keeps_running
<1> QED
  BY <1>0, <1>3, <1>4, <1>5, <1>6, TestsBySubject DEF TestTypeOK

\* The tests of the builder.
LEMMA BuildAsserts ==
  ASSUME TestInv, Over, test.subject = "build"
  PROVE  AssertionsHold
<1>0. BuildInv /\ TestTypeOK /\ at[mine] # 1
  BY OverArranged DEF TestInv, Over
<1>1. Outcome = IF Required(mine) \subseteq test.wired THEN "Ok" ELSE "Err"
  BY <1>0 DEF Outcome, BuildInv
<1>2. /\ Setters \subseteq Required(mine) /\ Required(mine) \subseteq FullyWired
      /\ test \in DlqTests => "dlq_heap" \in Required(mine)
  BY <1>0 DEF Required, FullyWired, TestTypeOK
<1> USE DEF AssertionsHold, OneBatch, Build
<1>3. CASE test = test_success_build
  BY <1>1, <1>2, <1>3 DEF test_success_build
<1>4. CASE test = default_builder_fails_on_build_with_config_error
  BY <1>1, <1>2, <1>4 DEF default_builder_fails_on_build_with_config_error, Setters
<1>5. CASE test = build_fails_without_storage
  BY <1>1, <1>2, <1>5 DEF build_fails_without_storage, Setters
<1>6. CASE test = build_fails_without_publisher
  BY <1>1, <1>2, <1>6 DEF build_fails_without_publisher, Setters
<1>7. CASE test = build_fails_without_config
  BY <1>1, <1>2, <1>7 DEF build_fails_without_config, Setters
<1>8. CASE test = build_fails_without_shutdown_rx
  BY <1>1, <1>2, <1>8 DEF build_fails_without_shutdown_rx, Setters
<1>9. CASE test = build_fails_without_dlq_heap
  BY <1>1, <1>2, <1>9 DEF build_fails_without_dlq_heap, Setters, DlqTests
<1> QED
  BY <1>0, <1>3, <1>4, <1>5, <1>6, <1>7, <1>8, <1>9, TestsBySubject DEF TestTypeOK

\* Whatever the schedule of the loop and the tasks, in a build with the dead letter
\* queue or without, with any batch size that takes all the rows, any threshold above
\* one failure and whatever the other settings: every test that ends finds what it asserts.
THEOREM TestsPass == TSpec => []AssertionsHold
<1>1. TestInv => AssertionsHold
  <2> SUFFICES ASSUME TestInv, Over PROVE AssertionsHold
    BY DEF AssertionsHold
  <2>1. test.subject \in {"batch", "run", "gc", "dlq", "build"}
    BY TestShape DEF TestInv, TestTypeOK, Shape
  <2> QED
    BY <2>1, BatchAsserts, RunAsserts, GcAsserts, ReaperAsserts, BuildAsserts
<1> QED
  BY <1>1, TestInvariant, PTL
=============================================================================
