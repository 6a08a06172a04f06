------------------------------ MODULE UnitTests ------------------------------
(***************************************************************************)
(* The unit tests of outbox-core, replayed on OutboxSystem: each test is   *)
(* the rows, mocks and calls it arranges with what it asserts.  A test of  *)
(* the crate sees the one schedule its runtime takes; here every schedule  *)
(* of the loop, the reaper and the collector is taken, in a build with the *)
(* dead letter queue and in one without.  Mocks answer as they are told,   *)
(* no time passes and nobody else is there.                                *)
(*                                                                         *)
(* Tests of the select! arms themselves (a dropped sender, a value of      *)
(* false, a failing listener) and those that only count the calls of one   *)
(* line are left out.                                                      *)
(***************************************************************************)
EXTENDS OutboxSystem

CONSTANTS e1, e2, e3, e4

\* A batch takes all the rows of a test (batch_size is 100 there), and more than one
\* failure makes a dead letter.
ASSUME TestsAssumption ==
    /\ Events = {e1, e2, e3, e4}
    /\ e1 \notin {e2, e3, e4} /\ e2 \notin {e3, e4} /\ e3 # e4
    /\ BatchSize >= 4
    /\ Threshold \in 2..MaxFailures

VARIABLES
    test,     \* the test that runs
    mine,     \* the build it runs in
    arranged, \* it has made its mocks
    calls     \* how often each mock was called

testVars == <<test, mine, arranged, calls>>
tvars == <<svars, testVars>>

MaxCalls == 4   \* bound: calls are counted up to there

-----------------------------------------------------------------------------
(* The tests.  `calls` has the calls a test counts, with the counts it     *)
(* accepts; `sends` the call that sends true, and which one of them.       *)

FullyWired == Setters \cup {"dlq_heap"}

\* One call of process_pending_events.
OneBatch ==
    [subject |-> "batch", script |-> <<>>, wired |-> FullyWired, requested |-> FALSE,
     rows |-> {}, later |-> {}, refused |-> {}, failures |-> 0, breaks |-> "none",
     sends |-> [call |-> "fetch", nth |-> 1],
     result |-> "Ok", sent |-> {}, buried |-> {}, calls |-> <<>>]

\* process_pending_events, of processor.rs.
empty_batch_returns_zero_and_skips_status_update ==
    [OneBatch EXCEPT !.calls = [fetch |-> {1}, mark |-> {0}, publish |-> {0},
                                success |-> {0}, failure |-> {0}, drain |-> {0}]]

all_publishes_succeed_updates_status_with_all_ids ==
    [OneBatch EXCEPT !.rows = {e1, e2, e3}, !.sent = {e1, e2, e3},
        !.calls = [fetch |-> {1}, mark |-> {1}, publish |-> {3}, success |-> {3}, failure |-> {0}]]

partial_publish_failure_updates_only_successful ==
    [OneBatch EXCEPT !.rows = {e1, e2, e3}, !.refused = {e2}, !.sent = {e1, e3},
        !.calls = [fetch |-> {1}, mark |-> {1}, publish |-> {3}, success |-> {2}, failure |-> {1}]]

all_publishes_fail_skips_status_update ==
    [OneBatch EXCEPT !.rows = {e1, e2}, !.refused = {e1, e2},
        !.calls = [fetch |-> {1}, mark |-> {0}, publish |-> {2}, success |-> {0}, failure |-> {2}]]

fetch_error_propagates_without_publishing ==
    [OneBatch EXCEPT !.breaks = "fetch", !.result = "Err",
        !.calls = [fetch |-> {1}, mark |-> {0}, publish |-> {0}, success |-> {0}, failure |-> {0}]]

update_status_error_propagates_after_publish ==
    [OneBatch EXCEPT !.rows = {e1}, !.breaks = "mark", !.result = "Err",
        !.calls = [fetch |-> {1}, mark |-> {1}, publish |-> {1}, success |-> {1}]]

\* build() and run(), of manager.rs; the request comes from inside a mock.
WholeRun == [OneBatch EXCEPT !.subject = "run", !.script = <<"start", "shutdown">>]

test_event_send_success ==
    [WholeRun EXCEPT !.rows = {e1, e2, e3, e4}, !.sent = {e1, e2, e3, e4},
        !.calls = [publish |-> {4}, mark |-> {1}]]

test_publish_failure ==
    [WholeRun EXCEPT !.rows = {e1, e2, e3, e4}, !.refused = {e3}, !.sent = {e1, e2, e4},
        !.sends = [call |-> "mark", nth |-> 1], !.calls = [publish |-> {4}]]

shutdown_set_before_run_exits_without_fetch ==
    [WholeRun EXCEPT !.requested = TRUE, !.calls = [fetch |-> {0}, mark |-> {0}]]

inner_loop_drains_until_empty_batch ==
    [WholeRun EXCEPT !.rows = {e1, e2}, !.later = {e3}, !.sent = {e1, e2, e3},
        !.sends = [call |-> "fetch", nth |-> 3], !.calls = [mark |-> {2}, publish |-> {3}]]

fetch_error_inside_loop_is_recoverable ==
    [WholeRun EXCEPT !.breaks = "fetch",
        !.sends = [call |-> "fetch", nth |-> 2], !.calls = [mark |-> {0}]]

\* GarbageCollector::run and DlqProcessor::run on their own, of gc.rs and
\* dlq/processor.rs.  In gc.rs the second tick comes before the request.
OneTask(t) == [OneBatch EXCEPT !.subject = t, !.script = <<"shutdown">>]

gc_run_exits_when_shutdown_flag_is_set_to_true ==
    [OneTask("gc") EXCEPT !.sends.nth = 0]

run_invokes_collect_garbage_on_each_interval_tick ==
    [OneTask("gc") EXCEPT !.sends = [call |-> "garbage", nth |-> 2]]

dlq_run_exits_when_shutdown_flag_is_set_to_true ==
    [OneTask("dlq") EXCEPT !.sends.nth = 0]

run_drains_heap_and_forwards_to_quarantine_events ==
    [OneTask("dlq") EXCEPT !.rows = {e1}, !.failures = Threshold, !.buried = {e1},
        !.sends = [call |-> "drain", nth |-> 1], !.calls = [quarantine |-> {1}]]

run_skips_quarantine_when_drain_returns_empty_batch ==
    [OneTask("dlq") EXCEPT !.rows = {e1}, !.failures = Threshold - 1,
        !.sends = [call |-> "drain", nth |-> 1], !.calls = [quarantine |-> {0}]]

run_swallows_quarantine_errors_and_keeps_running ==
    [OneTask("dlq") EXCEPT !.rows = {e1}, !.failures = Threshold, !.breaks = "quarantine",
        !.sends = [call |-> "drain", nth |-> 2], !.calls = [quarantine |-> {1}]]

\* build(), of builder.rs.
Build(wired) ==
    [OneBatch EXCEPT !.subject = "build", !.script = <<"start">>, !.wired = wired]

test_success_build == Build(FullyWired)
default_builder_fails_on_build_with_config_error == [Build({}) EXCEPT !.result = "Err"]
build_fails_without_storage == [Build(FullyWired \ {"storage"}) EXCEPT !.result = "Err"]
build_fails_without_publisher == [Build(FullyWired \ {"publisher"}) EXCEPT !.result = "Err"]
build_fails_without_config == [Build(FullyWired \ {"config"}) EXCEPT !.result = "Err"]
build_fails_without_shutdown_rx == [Build(FullyWired \ {"shutdown_rx"}) EXCEPT !.result = "Err"]
build_fails_without_dlq_heap == [Build(Setters) EXCEPT !.result = "Err"]

\* The tests behind #[cfg(feature = "dlq")].
DlqTests ==
    {dlq_run_exits_when_shutdown_flag_is_set_to_true,
     run_drains_heap_and_forwards_to_quarantine_events,
     run_skips_quarantine_when_drain_returns_empty_batch,
     run_swallows_quarantine_errors_and_keeps_running, build_fails_without_dlq_heap}

Tests == DlqTests \cup
    {empty_batch_returns_zero_and_skips_status_update,
     all_publishes_succeed_updates_status_with_all_ids,
     partial_publish_failure_updates_only_successful, all_publishes_fail_skips_status_update,
     fetch_error_propagates_without_publishing, update_status_error_propagates_after_publish,
     test_event_send_success, test_publish_failure, shutdown_set_before_run_exits_without_fetch,
     inner_loop_drains_until_empty_batch, fetch_error_inside_loop_is_recoverable,
     gc_run_exits_when_shutdown_flag_is_set_to_true,
     run_invokes_collect_garbage_on_each_interval_tick,
     test_success_build, default_builder_fails_on_build_with_config_error,
     build_fails_without_storage, build_fails_without_publisher, build_fails_without_config,
     build_fails_without_shutdown_rx}

\* The main() of a test, for Programs.
ProgramOf(t) == [script |-> t.script, wired |-> t.wired]
TestPrograms == [w \in Workers |-> {ProgramOf(t) : t \in Tests}]

-----------------------------------------------------------------------------
(* The harness. *)

TInit ==
    /\ SInit
    /\ test \in Tests
    /\ mine \in Workers
    /\ test \in DlqTests => mine \in DlqProcesses
    /\ program = [w \in Workers |-> ProgramOf(test)]
    /\ arranged = FALSE
    /\ calls = [c \in {"fetch", "publish", "success", "failure", "mark",
                       "drain", "quarantine", "garbage"} |-> 0]

\* The rows and counters of the mocks, and the calls made before the first step.
Arrange ==
    /\ ~arranged /\ arranged' = TRUE
    /\ status' = [e \in Events |-> IF e \in test.rows THEN "Pending" ELSE "New"]
    /\ heap' = [e \in Events |-> IF e \in test.rows THEN test.failures ELSE 0]
    /\ flag' = [flag EXCEPT ![mine] = test.requested]
    /\ main' = [main EXCEPT ![mine] = IF test.subject = "batch" THEN "batch" ELSE "off"]
    /\ tasks' = [tasks EXCEPT ![mine] = {test.subject} \cap {"gc", "dlq"}]
    /\ UNCHANGED <<lock, age, dead, workerVars, drained, delivered, failed, faults,
                   program, at, test, mine, calls>>

Counted(c) ==
    /\ calls' = [calls EXCEPT ![c] = IF @ < MaxCalls THEN @ + 1 ELSE @]
    /\ UNCHANGED <<test, mine, arranged>>

\* The call the worker makes next, and the one the reaper makes.
WorkerCall ==
    CASE pc[mine] = "idle"    -> "fetch"
      [] pc[mine] = "publish" -> "publish"
      [] pc[mine] = "record"  -> IF counting[mine] \subseteq successes[mine]
                                 THEN "success" ELSE "failure"
      [] pc[mine] = "mark"    -> "mark"

ReaperCall == IF drained[mine] = NoEntries THEN "drain" ELSE "quarantine"

\* A mock that is told to fails, the first time.
Breaks(c) == c = test.breaks /\ faults = 0

\* The transport refuses what it is told to, and delivers the rest.
Transport ==
    \A e \in todo[mine] \ todo'[mine] :
        /\ e \in delivered' <=> e \notin test.refused
        /\ failed'[e] > failed[e] <=> e \in test.refused

\* What a test waits for.
Over ==
    CASE test.subject = "batch" -> arranged /\ main[mine] = "waiting"
      [] test.subject = "run"   -> main[mine] = "stopped"
      [] test.subject = "build" -> at[mine] # 1
      [] OTHER                  -> flag[mine] /\ tasks[mine] = {}

\* What mocks do before they answer: one sends true, another has one more row.
Sending == Call(mine) = "shutdown" /\ calls[test.sends.call] >= test.sends.nth
Arriving == {e \in test.later : status[e] = "New" /\ calls["fetch"] > 0}

Running == arranged /\ ~Over
Answered == Running /\ ~Sending /\ Arriving = {}

StartStep == Running /\ Start(mine) /\ UNCHANGED testVars

MockStep ==
    /\ Running
    /\ \/ Sending /\ Shutdown(mine)
       \/ \E e \in Arriving : Insert(e) /\ UNCHANGED appVars
    /\ UNCHANGED testVars

\* The storage hands out all the rows it has, in one batch.
Storage == todo'[mine] = {e \in Events : status[e] = "Pending"}

WorkerStep ==
    /\ Answered
    /\ IF Breaks(WorkerCall) THEN BatchFails(mine) ELSE Batch(mine)
    /\ pc[mine] = "idle" /\ ~Breaks("fetch") => Storage
    /\ pc[mine] = "publish" => Transport
    /\ Counted(WorkerCall)

LoopStep == Answered /\ (Wake(mine) \/ StopMain(mine)) /\ UNCHANGED testVars

ReaperStep ==
    /\ Answered
    /\ IF Breaks(ReaperCall) THEN ReaperFails(mine) ELSE Reaper(mine)
    /\ Counted(ReaperCall)

CollectorStep == Answered /\ Collector(mine) /\ Counted("garbage")

StopStep == Answered /\ StopTask(mine) /\ UNCHANGED testVars

TNext ==
    \/ Arrange \/ StartStep \/ MockStep
    \/ WorkerStep \/ LoopStep \/ ReaperStep \/ CollectorStep \/ StopStep

\* The runtime of a test schedules its tasks; select! picks among its arms at random.
TSpec ==
    /\ TInit /\ [][TNext]_tvars
    /\ WF_tvars(Arrange \/ StartStep \/ MockStep)
    /\ WF_tvars(WorkerStep \/ LoopStep)
    /\ WF_tvars(ReaperStep) /\ WF_tvars(CollectorStep) /\ SF_tvars(StopStep)

-----------------------------------------------------------------------------
(* Properties. *)

Outcome ==
    IF \/ test.subject = "batch" /\ faults > 0
       \/ test.subject = "build" /\ main[mine] = "off"
    THEN "Err" ELSE "Ok"

\* What a test asserts holds when it is over, in every schedule: the result, the
\* rows that were marked or buried, and how often each mock was called, those of
\* the counters only in a build that has them.
AssertionsHold ==
    Over =>
        /\ Outcome = test.result
        /\ test.sent \cup test.buried # {} =>
            /\ {e \in Events : status[e] = "Sent"} = test.sent
            /\ {e \in Events : dead[e] > 0} = test.buried
        /\ \A c \in DOMAIN test.calls :
            \/ calls[c] \in test.calls[c]
            \/ c \in {"success", "failure"} /\ mine \notin DlqProcesses

\* Every test ends: no schedule keeps run() or a task from stopping in time, and
\* the call a test waits for before it sends comes.
TestsEnd == <>Over
=============================================================================
