----------------------------- MODULE ManagerLoop -----------------------------
(***************************************************************************)
(* OutboxManager::run in one process: the worker loop with its wake-ups    *)
(* (notification, poll interval, shutdown), its inner drain loop, and the  *)
(* two tasks it spawns, the garbage collector and the DLQ reaper, all      *)
(* stopped through one tokio watch channel.                                *)
(*                                                                         *)
(* The outbox is only counted here: rows that a claim would return, rows   *)
(* whose publish failed and whose lease must run out, rows that are done.  *)
(* OutboxProcessing has what happens inside a batch.                       *)
(***************************************************************************)
EXTENDS Naturals

CONSTANTS
    BatchSize,    \* config.batch_size
    Background,   \* the spawned tasks: "gc", and "dlq" with the feature
    MaxRows,      \* bound: rows ever inserted
    MaxErrors,    \* bound: how often a batch, or an event of it, fails
    MaxSends,     \* bound: how often the owner of the channel sends
    MaxNotices    \* bound: notifications that can wait in the listener

ASSUME LoopAssumption ==
    /\ BatchSize \in Nat
    /\ Background \subseteq {"gc", "dlq"}
    /\ MaxRows \in Nat
    /\ MaxErrors \in Nat
    /\ MaxSends \in Nat
    /\ MaxNotices \in Nat

VARIABLES
    flag,         \* the watched value: shutdown requested
    senderAlive,  \* the sending half of the watch channel is not dropped
    seen,         \* seen[r]: receiver r has seen the latest value
    sends,        \* how often a value was sent
    main,         \* what the worker loop waits for
    task,         \* what each spawned task waits for
    listening,    \* the PgListener is connected
    notices,      \* notifications it has not handed out yet
    ready,        \* rows that a claim would return
    batch,        \* rows of the batch in hand
    leased,       \* rows left in Processing, their lease not run out
    done,         \* rows marked Sent
    errors,       \* how many failures happened
    late          \* ghost: batches claimed since shutdown was last requested

channelVars == <<flag, senderAlive, seen, sends>>
rowVars == <<ready, batch, leased, done>>
vars == <<channelVars, main, task, listening, notices, rowVars, errors, late>>

Receivers == {"main"} \cup Background

MainStates ==
    {"select", "listenSleep", "check", "fetch", "publish", "errorSleep", "stopped"}
TaskStates == {"select", "collect", "drain", "quarantine", "stopped"}

\* The rows there are, wherever they are.
inserted == ready + batch + leased + done

TypeOK ==
    /\ flag \in BOOLEAN
    /\ senderAlive \in BOOLEAN
    /\ seen \in [Receivers -> BOOLEAN]
    /\ sends \in 0..MaxSends
    /\ main \in MainStates
    /\ task \in [Background -> TaskStates]
    /\ listening \in BOOLEAN
    /\ notices \in 0..MaxNotices
    /\ ready \in Nat /\ batch \in Nat /\ leased \in Nat /\ done \in Nat
    /\ inserted <= MaxRows
    /\ errors \in 0..MaxErrors
    /\ late \in Nat

\* run() clones the receiver it was given, which may already have seen the
\* value: `subscribe` after a send gives such a receiver.
Init ==
    /\ flag \in BOOLEAN
    /\ senderAlive = TRUE
    /\ \E s \in BOOLEAN : seen = [r \in Receivers |-> s]
    /\ sends = 0
    /\ main = "select"
    /\ task = [t \in Background |-> "select"]
    /\ listening = FALSE
    /\ notices = 0
    /\ ready = 0
    /\ batch = 0
    /\ leased = 0
    /\ done = 0
    /\ errors = 0
    /\ late = 0

-----------------------------------------------------------------------------
(* The watch channel. *)

\* The owner sends a value, true to shut down.
Send(v) ==
    /\ senderAlive
    /\ sends < MaxSends
    /\ flag' = v
    /\ seen' = [r \in Receivers |-> FALSE]
    /\ sends' = sends + 1
    /\ late' = IF flag /\ v THEN late ELSE 0
    /\ UNCHANGED <<senderAlive, main, task, listening, notices, rowVars, errors>>

DropSender ==
    /\ senderAlive
    /\ senderAlive' = FALSE
    /\ UNCHANGED <<flag, seen, sends, main, task, listening, notices, rowVars, errors, late>>

\* Mutant: a dropped sender goes unnoticed.
ChangedBySend(r) ==
    /\ ~seen[r]
    /\ seen' = [seen EXCEPT ![r] = TRUE]
    /\ UNCHANGED <<flag, senderAlive, sends>>

\* `changed()` resolves for receiver r, and marks the value as seen.
Changed(r) ==
    /\ ~seen[r] \/ ~senderAlive
    /\ seen' = [seen EXCEPT ![r] = TRUE]
    /\ UNCHANGED <<flag, senderAlive, sends>>

\* What a receiver decides then: a dropped sender is a shutdown.
Ends == ~senderAlive \/ flag

-----------------------------------------------------------------------------
(* The database, as the loop sees it. *)

\* Mutant: a trigger of the statement, that fires without any row.
NotifyAlways(written) ==
    notices' = IF listening /\ notices < MaxNotices THEN notices + 1 ELSE notices

\* pg_notify('outbox_event', 'ping') of a statement that wrote at least one
\* row: it reaches this process only while its listener is connected.
Notify(written) ==
    notices' = IF written > 0 /\ listening /\ notices < MaxNotices
               THEN notices + 1 ELSE notices

\* A producer commits a row.
InsertRow ==
    /\ inserted < MaxRows
    /\ ready' = ready + 1
    /\ Notify(1)
    /\ UNCHANGED <<channelVars, main, task, listening, batch, leased, done, errors, late>>

\* The lease of a row that was not marked runs out.
LeaseExpires ==
    /\ leased > 0
    /\ leased' = leased - 1
    /\ ready' = ready + 1
    /\ UNCHANGED <<channelVars, main, task, listening, notices, batch, done, errors, late>>

\* The connection of the listener breaks and is re-established: what was sent
\* in between is lost without an error.
LoseNotices ==
    /\ notices > 0
    /\ notices' = 0
    /\ UNCHANGED <<channelVars, main, task, listening, rowVars, errors, late>>

-----------------------------------------------------------------------------
(* The arms of the select! of run(). *)

\* wait_for_notification connects; it goes on waiting.
Connect ==
    /\ main = "select"
    /\ ~listening
    /\ listening' = TRUE
    /\ UNCHANGED <<channelVars, main, task, notices, rowVars, errors, late>>

\* wait_for_notification fails, in connecting or receiving: the listener is
\* dropped, and the loop sleeps for 5 seconds.
ListenFails ==
    /\ main = "select"
    /\ main' = "listenSleep"
    /\ listening' = FALSE
    /\ notices' = 0
    /\ UNCHANGED <<channelVars, task, rowVars, errors, late>>

Notified ==
    /\ main = "select"
    /\ listening
    /\ notices > 0
    /\ notices' = notices - 1
    /\ main' = "check"
    /\ UNCHANGED <<channelVars, task, listening, rowVars, errors, late>>

\* Mutant: the loop connects its listener before it polls.
PollWhenListening ==
    /\ main = "select"
    /\ listening
    /\ main' = "check"
    /\ UNCHANGED <<channelVars, task, listening, notices, rowVars, errors, late>>

PollTick ==
    /\ main = "select"
    /\ main' = "check"
    /\ UNCHANGED <<channelVars, task, listening, notices, rowVars, errors, late>>

\* A value of false falls through to the drain loop like any wake-up.
MainChanged ==
    /\ main = "select"
    /\ Changed("main")
    /\ main' = IF Ends THEN "stopped" ELSE "check"
    /\ UNCHANGED <<task, listening, notices, rowVars, errors, late>>

\* The two sleeps, after which the loop goes back to the select.
WakeUp ==
    /\ main \in {"listenSleep", "errorSleep"}
    /\ main' = "select"
    /\ UNCHANGED <<channelVars, task, listening, notices, rowVars, errors, late>>

-----------------------------------------------------------------------------
(* The drain loop. *)

\* Mutant: the drain loop runs until it is done.
CheckNothing ==
    /\ main = "check"
    /\ main' = "fetch"
    /\ UNCHANGED <<channelVars, task, listening, notices, rowVars, errors, late>>

\* The watched value is read, not marked as seen, before every batch.
Check ==
    /\ main = "check"
    /\ main' = IF flag THEN "stopped" ELSE "fetch"
    /\ UNCHANGED <<channelVars, task, listening, notices, rowVars, errors, late>>

\* The claim of n rows, which the trigger tells everybody about.
Claim(n) ==
    /\ ready' = ready - n
    /\ late' = IF flag /\ n > 0 THEN late + 1 ELSE late
    /\ Notify(n)

\* How many rows a claim finds.
Due == IF ready < BatchSize THEN ready ELSE BatchSize

\* fetch_next_to_process; Ok(0) ends the drain loop.
FetchBatch ==
    /\ main = "fetch"
    /\ Claim(Due)
    /\ batch' = Due
    /\ main' = IF Due = 0 THEN "select" ELSE "publish"
    /\ UNCHANGED <<channelVars, task, listening, leased, done, errors>>

\* The query fails; the rows may have been claimed and the answer lost.
FetchFails ==
    /\ main = "fetch"
    /\ errors < MaxErrors
    /\ errors' = errors + 1
    /\ \E n \in {0, Due} : Claim(n) /\ leased' = leased + n
    /\ main' = "errorSleep"
    /\ UNCHANGED <<channelVars, task, listening, batch, done>>

\* event_publish returns Ok: n rows are marked, the failed ones keep their lease.
PublishBatch ==
    /\ main = "publish"
    /\ \E n \in 0..batch :
        /\ errors + (batch - n) <= MaxErrors
        /\ errors' = errors + (batch - n)
        /\ done' = done + n
        /\ leased' = leased + (batch - n)
        /\ Notify(n)
    /\ batch' = 0
    /\ main' = "check"
    /\ UNCHANGED <<channelVars, task, listening, ready, late>>

\* Mutant: the batch is still in hand after it failed.
KeepBatch ==
    /\ main = "publish"
    /\ errors < MaxErrors
    /\ errors' = errors + 1
    /\ leased' = leased + batch
    /\ main' = "errorSleep"
    /\ UNCHANGED <<channelVars, task, listening, notices, ready, batch, done, late>>

\* event_publish returns Err, from the counters or from update_status; n rows may
\* have been marked and the answer lost.
PublishFails ==
    /\ main = "publish"
    /\ errors < MaxErrors
    /\ errors' = errors + 1
    /\ \E n \in 0..batch :
        /\ done' = done + n
        /\ leased' = leased + (batch - n)
        /\ Notify(n)
    /\ batch' = 0
    /\ main' = "errorSleep"
    /\ UNCHANGED <<channelVars, task, listening, ready, late>>

-----------------------------------------------------------------------------
(* The spawned tasks. *)

\* The tick arm: the collector deletes garbage, the reaper drains the counters.
TaskTick(t) ==
    /\ task[t] = "select"
    /\ task' = [task EXCEPT ![t] = IF t = "gc" THEN "collect" ELSE "drain"]
    /\ UNCHANGED <<channelVars, main, listening, notices, rowVars, errors, late>>

\* Mutant: the receiver is refreshed after a call, whatever was sent during it.
TaskCallRefreshes(t) ==
    /\ \/ task[t] \in {"collect", "quarantine"} /\ task' = [task EXCEPT ![t] = "select"]
       \/ task[t] = "drain" /\ \E s \in {"quarantine", "select"} : task' = [task EXCEPT ![t] = s]
    /\ seen' = [seen EXCEPT ![t] = TRUE]
    /\ UNCHANGED <<flag, senderAlive, sends, main, listening, notices, rowVars, errors, late>>

\* The call returns; entries that were drained are quarantined.  Errors of
\* either call leave the task where success does.
TaskCall(t) ==
    /\ \/ task[t] \in {"collect", "quarantine"} /\ task' = [task EXCEPT ![t] = "select"]
       \/ task[t] = "drain" /\ \E s \in {"quarantine", "select"} : task' = [task EXCEPT ![t] = s]
    /\ UNCHANGED <<channelVars, main, listening, notices, rowVars, errors, late>>

\* Mutant: only the value counts, a dropped sender does not end the task.
TaskChangedByValue(t) ==
    /\ task[t] = "select"
    /\ Changed(t)
    /\ task' = [task EXCEPT ![t] = IF flag THEN "stopped" ELSE "select"]
    /\ UNCHANGED <<main, listening, notices, rowVars, errors, late>>

\* The shutdown arm; a value of false is seen and ignored.
TaskChanged(t) ==
    /\ task[t] = "select"
    /\ Changed(t)
    /\ task' = [task EXCEPT ![t] = IF Ends THEN "stopped" ELSE "select"]
    /\ UNCHANGED <<main, listening, notices, rowVars, errors, late>>

-----------------------------------------------------------------------------
Environment ==
    \/ \E v \in BOOLEAN : Send(v)
    \/ DropSender \/ InsertRow \/ LeaseExpires \/ LoseNotices

MainStep ==
    \/ Connect \/ ListenFails \/ Notified \/ PollTick \/ MainChanged \/ WakeUp
    \/ Check \/ FetchBatch \/ FetchFails \/ PublishBatch \/ PublishFails

TaskStep(t) == TaskTick(t) \/ TaskCall(t) \/ TaskChanged(t)

Next == Environment \/ MainStep \/ \E t \in Background : TaskStep(t)

(***************************************************************************)
(* Calls return and sleeps end.  select! picks among the arms that are     *)
(* ready at random, so that an arm that is ready again and again is taken; *)
(* the poll interval keeps its schedule across iterations.  Nothing makes  *)
(* the listener connect, a producer insert or the owner send.              *)
(***************************************************************************)
Fairness ==
    /\ WF_vars(WakeUp) /\ WF_vars(Check)
    /\ WF_vars(FetchBatch \/ FetchFails)
    /\ WF_vars(PublishBatch \/ PublishFails)
    /\ SF_vars(PollTick) /\ SF_vars(Notified) /\ SF_vars(MainChanged)
    /\ WF_vars(LeaseExpires)
    /\ \A t \in Background : WF_vars(TaskCall(t)) /\ SF_vars(TaskChanged(t))

Spec == Init /\ [][Next]_vars /\ Fairness

-----------------------------------------------------------------------------
(* Properties. *)

\* At most one batch is claimed after shutdown was requested: the one whose
\* check came before the request, whatever woke the loop up.
OneLateBatch == late <= 1

\* Its inductive form: after a late batch the loop does not claim again, as long
\* as the request stands.
LateInv == late = 0 \/ (late = 1 /\ flag /\ main # "fetch")

Stopped(r) == IF r = "main" THEN main = "stopped" ELSE task[r] = "stopped"

\* A request that was sent after run() was called is lost on nobody: as long as it
\* stands, the loop and each task have either stopped or still to see it, whatever
\* they were waiting for when it came and whichever arm of the select! they took.
NoRequestLost == flag /\ sends > 0 => \A r \in Receivers : seen[r] => Stopped(r)

\* A row is published even if its notification was lost, the listener never
\* connects and some batches fail, unless the process was stopped first.
AllPublished == inserted > done ~> inserted = done \/ main = "stopped"

\* A shutdown that stays requested stops the worker loop, even if the receiver
\* had seen the value before run() was called, and so does a dropped sender.
ShutdownStopsMain == <>[]Ends => <>(main = "stopped")

\* A spawned task stops after a request that came after run() was called,
\* whatever call it was waiting for, and when the sender is dropped.
ShutdownStopsTasks ==
    \A t \in Background : [](((~seen[t] /\ []flag) \/ ~senderAlive) => <>(task[t] = "stopped"))

\* The loop wakes itself up with the notifications of its own updates, but not
\* for ever: they stop when there is nothing left to claim.
WakeUpsDieOut == <>[](notices = 0 \/ main = "stopped")

-----------------------------------------------------------------------------
(* Refinement. *)

This(x) == [p \in {"run"} |-> x]

LifeMain ==
    IF main \in {"fetch", "publish"} THEN "batch"
    ELSE IF main = "stopped" THEN "stopped" ELSE "waiting"

LifeTasks == {t \in Background : task[t] # "stopped"}
LifeReaping == "dlq" \in Background /\ task["dlq"] = "quarantine"

Life == INSTANCE RunLifecycle WITH
    Processes <- {"run"},
    flag <- This(flag),
    alive <- This(senderAlive),
    main <- This(LifeMain),
    tasks <- This(LifeTasks),
    reaping <- This(LifeReaping)

\* The loop and its tasks live as RunLifecycle says, which is also what OutboxSystem
\* takes them for: whatever wakes them up, no batch begins while shutdown is
\* requested, none is cut short, and only who was asked to stop stops.
KeepsLifecycle == Life!Spec
=============================================================================
