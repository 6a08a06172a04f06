# Oxide Outbox: a TLA+ model of the library

This directory specifies the outbox library in TLA+, checks the specifications
with TLC on small instances, and proves the main safety properties with TLAPS
for every value of the constants. All line numbers refer to the repository's
sources.

## 1. The system

A service writes events into a table in its own database transaction. Worker
processes claim rows of that table, publish them to a broker and mark them.
Several services and several workers share one Postgres and one Redis.

| Part | Code | State it keeps | Operations |
|---|---|---|---|
| Outbox table | `outbox-postgres/src/lib.rs`, `migrations/` | `outbox_events` (status, `locked_until`, `created_at`, token), `outbox_dead_letters` | insert, claim, `update_status`, `delete_garbage`, `quarantine_events` |
| Failure counters | `outbox-redis/src/dlq.rs` | a Redis sorted set, failures by event | `record_failure`, `record_success`, `drain_exceeded` |
| Worker | `outbox-core/src/processor.rs` | the batch in hand, `success_ids` | `process_pending_events` |
| Reaper | `outbox-core/src/dlq/processor.rs` | the entries in hand between two calls | drain, quarantine |
| Collector | `outbox-core/src/gc.rs` | none | `collect_garbage` |
| Worker loop | `outbox-core/src/manager.rs` | where it waits; the listener; the watch channel | `run` |
| Notifications | trigger in `migrations/`, `wait_for_notification` | notifications not handed out yet | connect, receive, fail |
| Producer | `outbox-core/src/service.rs`, `idempotency/` | its locals | `add_event` |
| Reservations | `outbox-redis/src/lib.rs` | a key with a ttl per token; a Moka cache per process | `try_reserve` |
| Transport | `outbox-kafka/src/lib.rs` | none | `publish` |
| Builder | `outbox-core/src/builder.rs` | which setters were called | setters, `build` |
| Programs | `example/`, the documentation of `run` | where `main` is, the tasks of the runtime | start, write, request shutdown, await, return, die |

They meet in the shared state only: workers never talk to each other, and the
only thing that keeps two of them off one row is `status` with `locked_until`.
A worker's calls to the database, the broker and the counters are separated by
an `await`, and anything may happen between them.

What is hard here: leases that run out under a batch that is still going on;
updates by id alone, with no look at status or lease; errors that drop a batch
half way; the reaper's gap between taking counters and moving rows; answers
that are lost after the call took effect; wake-ups that are lost; a shutdown
that comes between a check and a claim; programs that return with a batch in
hand, and programs of two builds over one table; a reservation and an insert that are
two steps in two stores. `PROJECT.json` lists them one by one, each with its
line and the properties that watch it.

## 2. Modules

| Module | What it models | State, and where it is in the code |
|---|---|---|
| `OutboxConfig` | the settings the loops read, and the bounds | constants only |
| `OutboxTable` | the SQL statements, one atomic action each | `status`, `lock` (`locked_until - NOW()`), `age` (`NOW() - created_at`), `dead` (`failure_count`) |
| `DlqHeap` | the Redis commands and the Lua script | `heap`, the scores |
| `OutboxProcessing` | several processes, each with worker, reaper and collector, on both of the above | `pc`, `todo`, `counting`, `successes` (`success_ids`), `drained` (the reaper's entries), `delivered` (the broker) |
| `AtLeastOnce` | what the library promises: abstract specification | `place`, `delivered` |
| `Reservation` | what the reservation of a token promises: abstract specification | `life`, `holds`, `known`, `refused` |
| `RunLifecycle` | when `run()` begins a batch, and when it and its tasks may stop: abstract specification | `flag`, `alive`, `main`, `tasks`, `reaping` |
| `Redelivery` | why an event is delivered twice: `OutboxProcessing` with a record of what went wrong | `doubtful` (ghost) |
| `Inflow` | `OutboxProcessing` with producers that never stop writing | as there |
| `ManagerLoop` | `OutboxManager::run` and the tasks it spawns | `main`, `task`, `flag`, `seen`, `senderAlive` (watch channel), `listening`, `notices` (PgListener), counts of rows |
| `OutboxSystem` | whole programs: builder, `main()`, the tasks of the runtime, over the shared table | `program`, `at` (where `main()` is), `flag`, `main` (the task of `run`), `tasks` (what it spawned) |
| `UnitTests` | unit tests of `outbox-core`, replayed on `OutboxSystem` | `test`, `mine` (its build), `calls` (of each mock) |
| `IdempotentProducer` | `add_event` with reservations and caches | `pc`, `token`, `redis`, `cache`, `row` (unique index) |
| `*_proofs` | theorems about the module of that name; `DeadLetters_proofs`: about dead letters in `OutboxProcessing` | |
| `MC*` | values for TLC: symmetry, homes of callers, what programs a process runs | |

`OutboxProcessing` extends `OutboxTable` and `DlqHeap`; an action of a process
is one statement or command together with what the process does with its
answer. `Redelivery`, `Inflow` and `OutboxSystem` extend it, `UnitTests` extends
`OutboxSystem`. Four refinements (`INSTANCE ... WITH`, the abstract specification as a
property) tie them to the abstract modules: `OutboxProcessing` and so `OutboxSystem`
to `AtLeastOnce` (`KeepsPromise`), `IdempotentProducer` to `Reservation`
(`KeepsReservation`), and both `ManagerLoop`, with one process, and `OutboxSystem`,
with many, to `RunLifecycle` (`KeepsLifecycle`), where these two meet: what
`OutboxSystem` takes the loop for is what `ManagerLoop` shows it to be.

`failed`, `lease` and `faults` in `OutboxProcessing`, `doubtful` in `Redelivery`,
`late` in `ManagerLoop`, and `recorded`, `granted`, `under`, `used`, `refused`,
`faults` in `IdempotentProducer` are ghosts: no guard of the code reads them
(`failed` and `faults` bound how often something goes wrong).

Operators whose comment says *Mutant* are mistaken versions of the definition
that follows them. Nothing uses them; `PROJECT.json` names, for each property,
the one that property must reject when it takes the place of the definition.

### How actions correspond to code

`OutboxProcessing`, in the order of `process_pending_events`:

* `Fetch`: the claim. `Batches` are what `ORDER BY locked_until LIMIT` may
  return, with any of the rows that others have locked at that moment skipped
  (`LockedByOthers`): by an `update_status`, by a quarantine, or by a claim that will
  fail, which may lock any row. A claim that succeeds is one step earlier or later.
  `FetchFails`: the query fails, or its answer is lost after it claimed rows.
* `PublishOk`, `PublishErr`: one iteration of the loop up to the outcome of
  `publish`. An error may be a refusal, a record that never left the process, or a
  timeout after delivery (`Unacknowledged`). `Poison` events are refused always.
* `Record`, `RecordFails`: in a process of `DlqProcesses`, those built with the
  feature `dlq`, `record_success` or `record_failure`; the `?` behind them drops the batch (`DropBatch`).
* `Mark`, `MarkFails`: `update_status`, by id, if `success_ids` is not empty.
* `Drain`, `DrainFails`, `Quarantine`, `QuarantineFails`: a tick of the reaper.
* `CollectGarbage`, `Tick`: the collector, the clock of the database.
* `Crash`, `Leave`: a process dies and is started again, or its `main()` returns. Both
  abandon what is in hand (`Abandon`); only the first is a fault, which `MaxFaults`
  bounds, a program may return any number of times.

A call that fails is always two alternatives: it had no effect, or it had its
effect and the answer was lost.

`ManagerLoop` has one action per arm of the `select!`, one per step of the drain
loop, and for the tasks a tick, the return of a call and the shutdown arm. The
database is a count of rows there; a claim or an update that fails had no effect
or had all of it, the notification of the trigger included (`FetchFails`,
`PublishFails`). `seen[r]` is the version a watch receiver
has seen; a clone of a receiver inherits it, so that `Init` has both values.

`OutboxSystem` says when a process may take the steps of `OutboxProcessing`. A
program is a script of calls; `Start` is `build()` and the spawn of `run()`, or a
`ConfigError`; `Add`, `Shutdown` and `Join` are the other calls; `Exit` is the end
of `main()`, with which the runtime drops `run()` and its tasks wherever they are:
for the table that is a `Leave` if anything is in hand. `Wake`, `StopMain`, `Batch` and `BatchFails` are
the loop, `Reaper`, `Collector` and `StopTask` the spawned tasks, `Kill` the death
of the process. What wakes the loop is left to `ManagerLoop`.

`UnitTests` describes each test by what it arranges (rows, a mock that refuses or
fails, the call from which the request for shutdown is sent) and asserts (the
result, the rows marked or buried, how often a mock was called), under the test's
name. `Arrange`, `MockStep` and the guards of the other steps are the mocks: `Storage`
hands out every row it has, `Transport` refuses what it is told to.

`IdempotentProducer` has the steps of `try_reserve` (`LookUp`, `Reserve`,
`Duplicate`, `Remember`) and of `add_event` (`AddEvent`, `Insert`, `Collide`,
`InsertFails`); `StoreRow` is the unique index, where NULLs do not collide.

### Abstractions

* Times are relative to now, in ticks, and saturate: a lease over for longer
  than `Horizon` is only known to be that old, an age past the retention is
  `Retention + 1`. A new row has the Unix epoch, below all of these. The age
  starts with the commit; a row that is older when it is committed is one that
  is collected earlier, once it is Sent.
* Payloads, event types, keys, headers and error texts are left out. The
  failure count is a number; its conversions (`f64`, `u32`, `i32`) lose nothing
  below 2^31.
* Event ids are never reused. A token in `IdempotentProducer` stands for one
  logical event of a client.
* In `OutboxSystem`, a `main()` whose `add_event` returns an error that it passes
  on with `?` is one that is killed there.
* One SQL statement, one Redis command and one script is one step.

## 3. Runs

Each property of a passing run is also run against a mutant that breaks it.

| Run | Bounds | What it shows |
|---|---|---|
| `leases` | 3 events, 2 workers, batches of 2, lease of 1 tick, one fault and any number of returns, no `dlq` | `LeaseExclusion`: two processes hold an event only when a lease ran out. `SentIsDelivered`, `RowLifecycle`: whatever the late one does with its batch, Sent means delivered and no row goes back |
| `dead_letters` | 2 events, 2 workers with reapers, threshold 2, one fault of any of six kinds and any number of returns | `NoLoss`, `OneHome`, `DeadJustified`; `FailuresInv`: no failure is counted twice; `CopiesHaveACause`: a copy is delivered only after an error, a fault, a return or a late lease; the inductive invariants `Inv` and `CopyInv`; and that `OutboxProcessing` implements `AtLeastOnce` |
| `drains` | 2 events (one poison), 2 workers, one fault: a crash, or a failed count, drain or quarantine | `OutboxDrains`: every recorded event leaves the outbox |
| `manager_loop` | 2 rows, batches of 1, both tasks, 1 error, 1 waiting notification, 2 sends | `AllPublished` although notifications are lost; `WakeUpsDieOut` although the trigger fires on the worker's own updates; `OneLateBatch`, `NoRequestLost`, `ShutdownStopsMain`, `ShutdownStopsTasks` whenever and however shutdown is requested; `KeepsLifecycle`: the loop and its tasks implement `RunLifecycle` |
| `system` | 1 event, the deduplication example without `dlq` beside the documented service or the in-memory example with it, threshold 1, one fault of four kinds and any number of returns | `StoppedHoldsNothing`: when the handle of `run` is ready nothing is in hand; `SystemDrains`: one process that stays up finishes what the others left; `ShutdownCompletes`; `KeepsLifecycle`: in each process `run()` lives as `RunLifecycle` says |
| `unit_tests` | 24 tests, each in a build without `dlq` and in one with it (5 of them in the second only) | `AssertionsHold`: what a test asserts holds in every schedule; `TestsEnd`: it ends in every fair one |
| `producer_redis` | 3 callers in 2 processes, 1 token, ttl 2, 2 faults, all strategies | `ReservationExclusion`, `RefusedWasUsed`, `RecordedOncePerReservation`, `ReservationsLapse`, the inductive invariant, and `KeepsReservation`: it implements `Reservation` |
| `siblings`, `sent_to_dead_letters`, `inflow`, `producer_fail_open`, `producer_retry` | smallest instances | the disagreements of section 5 |

Why the bounds are enough to be of interest. Two workers and a batch of two
with three events give a batch that loses one of its rows to another worker
while it keeps the other; a lease of one tick can run out before, between and
after any two calls. One fault in a run means one at every possible place,
combined with any number of expired leases, refused publishes and returns of
programs, which are not faults; the theorems drop this bound. A threshold of 2 distinguishes a counter
that is cleared from one that goes on. Three callers in two processes give a
race inside a process, with its cache, and one between processes. `drains` uses
`LockTimeout = 0`, the smallest lease there is, to leave room for the temporal
check; `MaxFailures` equals the threshold, so that what is cut off is only by
how much a counter exceeds it. `system` has one event because its programs differ in
who holds it, and each may take the whole of its life; the in-memory example in a
build with `dlq` is the one whose `build()` fails. The events of `unit_tests` are
those the tests name, and no time passes there, as in the tests.

### Fairness

* `OutboxProcessing`: every process calls fetch again and again (poll interval,
  restart after a crash), each call returns, the reaper and the collector tick,
  time passes. A collector with `GcLimit = 1` shows that a bounded collection is
  enough. An event that is not poison is refused at most `MaxFailures` times:
  this is the only thing assumed of the broker.
* `ManagerLoop`: sleeps end and calls return (weak fairness). `select!` picks
  at random among the arms that are ready, so that an arm that is ready again
  and again is taken: strong fairness of `PollTick`, `Notified`, `MainChanged`
  and `TaskChanged`. Nothing is assumed of the listener, the owner of the
  channel or the producers.
* `OutboxSystem`: the tasks of a runtime are scheduled, their calls return, the loop
  polls, and `main()` goes on, except that nothing makes a signal come. `SystemDrains`
  assumes one process that stays up, as its antecedent says.
* `Inflow`: as `OutboxProcessing`; nothing makes producers write.
* `UnitTests`: the runtime of a test schedules its tasks; `StopStep` has strong
  fairness, as `select!` picks at random among the arms that are ready.
* `IdempotentProducer`: a call in flight goes on, and time passes. Nothing makes
  a client call or stop calling.

`CHECK_DEADLOCK FALSE` for `ManagerLoop`, where the system really stops after a
shutdown, and for `UnitTests`, where a test ends.

## 4. Proofs

For any number of events, workers, tokens, callers and processes, any settings
and any bounds; from `ConfigAssumption`, `ProcessingAssumption`,
`DeploymentAssumption`, `ProgramsAssumption`, `LoopAssumption`,
`ProducerAssumption` and, for the unit tests, `TestsAssumption` only, which TLC
evaluates in the runs. Every invariant and every action property of a passing run is a
theorem, and so are the four refinements.

`OutboxProcessing_proofs`: `TypeCorrect`, `Invariant`, `NothingIsLost`,
`SentMeansDelivered`, `OneHomeOnly`, `LeasesExclude`, `RowsLiveLegally` and
`ImplementsAtLeastOnce`. None of the safety properties is inductive by itself.
`Inv` has four parts beyond types:

* `HandsInv`: what a process has in hand was claimed once, `success_ids` is
  within `delivered`, and an idle process has nothing in hand. It is why a late
  `update_status` by id alone is harmless: the rows it names are Processing,
  Sent or deleted, and the broker has them.
* `LeaseInv`: as long as the lease of a batch lasts, its rows that are still
  Processing have exactly that lease in the table. It is why a claim, which
  takes Pending rows and rows with `locked_until < NOW()`, cannot take them.
* `CountsInv`: only claimed rows are counted, and the reaper's entries have
  reached the threshold. It is why a quarantine never hits a Pending row.
* `RowsInv`: the properties of rows and dead letters.

`StepInv` has one lemma per action. The action property `RowLifecycle` and the
refinement follow from `Inv` step by step: every action maps to `Record`,
`Deliver`, `Bury`, `Forget` or a stutter of `AtLeastOnce`.

`DeadLetters_proofs`: `FailuresCounted` and `DeadLettersJustified`, for any finite
number of processes. What the counter of an event has, plus the number of
processes with a failure of it that is not counted yet (`Uncounted`), is at most
the number of publish calls that failed, unless that number has reached the bound
of the model; drained entries and dead letters were counters. A publish that fails
adds one to both sides, a count moves one from `Uncounted` to the counter, and
everything else only takes away.

`Redelivery_proofs`: `CopiesSound` and `CopiesExplained`, that copies have a cause.
For an event nothing went wrong with, `CopyInv` has a row in Processing with a
live lease for everyone who holds it, no counter, and a mark that was made or is
on its way once the broker has it. So nobody else can claim it (`Inv` gives the
lock of the row), and who publishes it is the first.

`OutboxSystem_proofs`: `ProgramsImplementProcessing`, by which whole programs have
every theorem of `OutboxProcessing` (`ProgramsKeepPromise` and
`ProgramsLeasesExclude` are two of them), for any programs that start one
manager; `SysTypeCorrect`; `StoppedLoopHoldsNothing`, from an invariant that a
process outside a batch has nothing in hand and has not started when its script
has not; and `ProgramsKeepLifecycle`, by which a request never
cuts a batch or drained counts short, only the end of the process does. Its step has
one case per action of `OutboxSystem`; that a script which has started `run()` does not
start it twice (`StartsOnce`) is what the case of `Start` needs.

`ManagerLoop_proofs`: `TypeCorrect`; `AtMostOneLateBatch` from `LateInv` (after a late
batch the loop is not about to claim as long as the request stands);
`RequestsReachEverybody`, which is the safety part of `ShutdownStopsMain` and
`ShutdownStopsTasks`: a receiver is refreshed only in the arm that also stops its
owner when the flag is set, so that nobody who goes on has seen a standing request;
and `ImplementsLifecycle`.

`IdempotentProducer_proofs`: `Invariant` (types, `GrantInv`: a reservation that was
granted lasts as long as the key in Redis, and `UnderInv`: so does one that an
event was recorded under), `ReservationsExclude` (`SET NX` finds the key gone only
when every earlier grant ran out), `RecordedOnce` (by `UnderInv`, a call with a
live reservation is the first to record under it), `RefusalsAreFounded`, and
`ImplementsReservation`: every step maps to a grant, a grant nobody learns of, the end
of calls, a refusal, the passing of time or a stutter. `GrantInv` makes the abstract
token of a caller (`Held`) lapse with the key and a free key mean that nobody holds the
token; that keys and cache entries are those of used tokens (`GrantInv`,
`RefusedWasUsed`) gives the refusals. The local cache has no place in the abstract
state: it refuses, and it grants nothing.

`UnitTests_proofs`: `TestsPass`, that whatever the scheduler does each test finds what
it asserts, for any batch size of at least 4 (the rows of the largest test), any
threshold from 2 to the bound on failures, any lease, retention and collection limit, and any
processes beside the one under test. An assertion is about the end of a test, so that
the invariant has to say at each point what was done so far. `TestInv` has:

* `TestTypeOK` and `Alone`: nobody else takes a step and no time passes, so that no
  lease runs out and nothing is collected. That a claim returns exactly the rows that
  are Pending is the mock (`Storage`).
* `Rows`: by the number of claims made, which rows are claimed; the later rows of
  `inner_loop_drains_until_empty_batch` come with the second claim only.
* `Hands`: what the worker holds by the call it makes next; a batch has all the
  rows of the test or all the later ones; a mock fails the first time and never again.
* `Tallies`: each mock was called as often as rows were published, counted and marked.
* `Loop`: a claim of the loop comes before its request for shutdown was seen.
* `ReaperInv`, `BuildInv`: the same for the tests of the reaper and of `build()`.

There is one lemma per call of the worker, per step of the loop and per kind of test;
those of the collector assert nothing but that they end with `Ok(())`.

Only model-checked, as liveness under fairness is out of the prover's reach:
`OutboxDrains`, `AllPublished`, `WakeUpsDieOut`, `ShutdownStopsMain`,
`ShutdownStopsTasks`, `SystemDrains`, `ShutdownCompletes`, `ReservationsLapse` and
`TestsEnd`. The five properties of section 5 are refuted by their runs.

## 5. Where the code and its documents disagree

1. `siblings`: an error of the failure counters ends the batch
   (`processor.rs:114`, `:135`), while `processor.rs:71-73` and
   `publisher.rs:38-41` say that the rest of the batch continues. Nothing is
   lost by it (`NoLoss` and `OutboxDrains` hold), but delivery waits for the
   lease, and published rows are published again.
2. `sent_to_dead_letters`: `quarantine_events` deletes by id
   (`outbox-postgres/src/lib.rs:162`) and can move a row that became Sent after
   the counters were drained; `model.rs:105-106` has it removed by the collector.
3. `producer_fail_open`: an error of the reservation is returned
   (`service.rs:153`); no configuration lets the event through, as
   `README.md:68` has it.
4. `producer_retry`: a reservation is not released when the insert fails
   (`service.rs:151-159`), so that a retry is answered `DuplicateEvent` until
   the ttl ends, with nothing recorded; `error.rs:33-34` calls the error "often
   retryable by the caller".

5. `inflow`: rows that were never claimed come before every expired lease
   (`outbox-postgres/src/lib.rs:60`, `model.rs:63-77`), so that an event whose
   publish failed once waits for as long as new rows fill the batches;
   `outbox-kafka/README.md:8` promises that every event is eventually published,
   `publisher.rs:38-39` that it is retried when its lock expires. `OutboxDrains`
   holds, for producers that stop.

Noted without a run: `outbox-core/README.md:157` calls the end of its example a
graceful shutdown, and the in-memory and deduplication examples end the same way:
`main` returns without awaiting `run()`, so that a batch in hand is abandoned
until its lease ends. `run()` does not join the tasks it spawns
(`manager.rs:164`, `:177`), so that awaiting its handle does not save the reaper
either, while `dlq/processor.rs:96-97` calls every shutdown path graceful. `dlq`
being a feature, `cargo build --workspace` turns it on for all examples
(`dlq-example/Cargo.toml:15`), and those that set no `dlq_heap` end with a
`ConfigError`. `model.rs:99-101` counts rows whose lock expired as Pending; they
stay Processing. `dlq-example/src/main.rs:119` names the table
`dead_letter_outbox_events`, which the migration calls `outbox_dead_letters`. `local_cache_capacity` is never read
(`outbox-redis/src/config.rs:8`); the publish counter is not incremented when
the failure counters return an error; `manager.rs:119-123` speaks of a returned
error on shutdown where `run` returns `Ok(())`.

## 6. Not modelled

* Metrics, the newtypes, default settings, build files, serialisation and the
  contents of Kafka messages: no behaviour that another part reads.
* `dlq-example` and `metrics-example`: they read tables and counters on a terminal.
* Intervals of 0, with which `tokio::time::interval` panics, and a reservation ttl
  below one second, which Redis refuses: fixed outcomes of one setting. The panic of
  `Custom` without an event comes before any state changes.
* The order of events with one key: no code keeps it, and `Fetch` hands out a batch
  in any order.
* Unit tests of single `select!` arms, of a failing listener, of newtypes, defaults
  and error texts, and those of `service.rs`, which are one call with one mock each.
* `created_at` is the producer's clock and is compared with the database's; see
  Abstractions for what a difference means.

## 7. Plan

Done: the inventory, the core (`OutboxTable`, `DlqHeap`, `OutboxProcessing`), the
worker loop, the producer, mixed deployments, the causes of copies, whole programs, the
inflow, the unit tests, the abstract specifications of delivery, of reservations and of
the life of `run()` with the refinements of section 2, and the theorems of section 4,
which leave no invariant, action property or refinement of the runs unproved. What is left:

1. The step conditions behind the liveness properties, as far as they are safety: that
   a row that is not published always has a wake-up to come or a poll to wait for
   (`AllPublished`), and that a notification of the loop's own update is spent with it
   (`WakeUpsDieOut`).
2. What a reservation means for the table: that one client event has one row, from
   `Reservation` and the unique index together, for producers over `OutboxProcessing`.
3. The order of events with one key, should the code come to promise it.
