---------------------------- MODULE OutboxSystem ----------------------------
(***************************************************************************)
(* Whole programs: a main() builds an OutboxManager, spawns run() on the   *)
(* tokio runtime, writes events, asks for shutdown through the watch       *)
(* channel, and returns.  run() claims and publishes in its own task, with *)
(* the collector and the reaper in two more that nobody joins; when main() *)
(* returns the runtime goes, and all three with it, wherever they are.     *)
(*                                                                         *)
(* The processing steps are those of OutboxProcessing; this module says    *)
(* when a process may take them.  ManagerLoop has what wakes the loop up.  *)
(***************************************************************************)
EXTENDS OutboxProcessing, Sequences

CONSTANT Programs   \* Programs[w]: what process w may have been deployed with

\* A program is a script of calls and the setters it calls on its builder; it
\* starts one manager.
ASSUME ProgramsAssumption ==
    \A w \in Workers : \A p \in Programs[w] :
        /\ p \in [script : Seq(STRING), wired : SUBSET STRING]
        /\ \A i \in 2..Len(p.script) : p.script[i] # "start"

VARIABLES
    program,  \* the main() of a process
    at,       \* where it is in its script; Down once it has returned
    flag,     \* the watched value of its shutdown channel
    main,     \* the task that runs OutboxManager::run
    tasks     \* the tasks that run() has spawned and that still run

appVars == <<program, at, flag, main, tasks>>
svars == <<vars, appVars>>

Down == 0

-----------------------------------------------------------------------------
(* The builder and the programs of the repository. *)

Setters == {"storage", "publisher", "config", "shutdown_rx"}

\* What build() misses when it was not set, in a process of this build.
Required(w) == Setters \cup (IF w \in DlqProcesses THEN {"dlq_heap"} ELSE {})

\* example/outbox-in-memory: nothing waits for run() after the request.
InMemoryExample == [script |-> <<"start", "add", "add", "shutdown">>, wired |-> Setters]

\* example/distributed-deduplication: its second add_event is refused.
DeduplicationExample == [script |-> <<"start", "add", "shutdown">>, wired |-> Setters]

\* The documented use of run(): on a signal, shut down and await the handle.
Service ==
    [script |-> <<"start", "signal", "join">>, wired |-> Setters \cup {"dlq_heap"}]

\* The call that the main() of w makes next.
Call(w) ==
    IF at[w] = Down THEN "none"
    ELSE IF at[w] > Len(program[w].script) THEN "return" ELSE program[w].script[at[w]]

SysTypeOK ==
    /\ program \in [Workers -> UNION {Programs[w] : w \in Workers}]
    /\ at \in [Workers -> Nat]
    /\ \A w \in Workers : at[w] <= Len(program[w].script) + 1
    /\ flag \in [Workers -> BOOLEAN]
    /\ main \in [Workers -> {"off", "waiting", "batch", "stopped"}]
    /\ tasks \in [Workers -> SUBSET {"gc", "dlq"}]
    /\ \A w \in Workers : "dlq" \in tasks[w] => w \in DlqProcesses

SInit ==
    /\ Init
    /\ program \in [Workers -> UNION {Programs[w] : w \in Workers}]
    /\ \A w \in Workers : program[w] \in Programs[w]
    /\ at = [w \in Workers |-> 1]
    /\ flag = [w \in Workers |-> FALSE]
    /\ main = [w \in Workers |-> "off"]
    /\ tasks = [w \in Workers |-> {}]

\* Mutant: a call is skipped.
SkipCall(w) == at' = [at EXCEPT ![w] = @ + 2]

\* main() goes on to its next call.
Advance(w) == at' = [at EXCEPT ![w] = @ + 1]

-----------------------------------------------------------------------------
(* main(). *)

\* build()?, and tokio::spawn of run(), which spawns the collector and, with the
\* feature, the reaper.  A missing setter is a ConfigError that main() returns.
Start(w) ==
    /\ Call(w) = "start"
    /\ IF Required(w) \subseteq program[w].wired
       THEN /\ main' = [main EXCEPT ![w] = "waiting"]
            /\ tasks' = [tasks EXCEPT ![w] =
                            {"gc"} \cup (IF w \in DlqProcesses THEN {"dlq"} ELSE {})]
            /\ Advance(w)
       ELSE /\ at' = [at EXCEPT ![w] = Down]
            /\ UNCHANGED <<main, tasks>>
    /\ UNCHANGED <<vars, program, flag>>

\* add_event; there is nothing left to add when the bound on Events is reached.
Add(w) ==
    /\ Call(w) = "add"
    /\ \/ \E e \in Events : Insert(e)
       \/ (\A e \in Events : status[e] # "New") /\ UNCHANGED vars
    /\ Advance(w)
    /\ UNCHANGED <<program, flag, main, tasks>>

\* shutdown_tx.send(true), after the sleep of the examples or on a signal.
Shutdown(w) ==
    /\ Call(w) \in {"shutdown", "signal"}
    /\ flag' = [flag EXCEPT ![w] = TRUE]
    /\ Advance(w)
    /\ UNCHANGED <<vars, program, main, tasks>>

\* The handle of run() is awaited.
Join(w) ==
    /\ Call(w) = "join"
    /\ main[w] = "stopped"
    /\ Advance(w)
    /\ UNCHANGED <<vars, program, flag, main, tasks>>

\* Nothing of process w runs any more.
Cease(w, next) ==
    /\ at' = [at EXCEPT ![w] = next]
    /\ flag' = [flag EXCEPT ![w] = FALSE]
    /\ main' = [main EXCEPT ![w] = "off"]
    /\ tasks' = [tasks EXCEPT ![w] = {}]
    /\ UNCHANGED program

\* main() returns, and the runtime is dropped.  A batch or drained entries in
\* hand are abandoned.
Exit(w) ==
    /\ Call(w) = "return"
    /\ IF pc[w] = "idle" /\ drained[w] = NoEntries
       THEN UNCHANGED vars
       ELSE Leave(w)
    /\ Cease(w, Down)

\* The process dies, and its supervisor starts it again.
Kill(w) ==
    /\ at[w] # Down
    /\ Crash(w)
    /\ Cease(w, 1)

-----------------------------------------------------------------------------
(* The task of run(). *)

\* Mutant: the value is not read.
WakeAnyway(w) ==
    /\ main[w] = "waiting"
    /\ main' = [main EXCEPT ![w] = "batch"]
    /\ UNCHANGED <<vars, program, at, flag, tasks>>

\* Something wakes the loop up, or the last batch was not empty; the watched
\* value is false when the loop reads it.
Wake(w) ==
    /\ main[w] = "waiting"
    /\ ~flag[w]
    /\ main' = [main EXCEPT ![w] = "batch"]
    /\ UNCHANGED <<vars, program, at, flag, tasks>>

\* Mutant: the select! of run() also covers the processing of a batch.
StopAnywhere(w) ==
    /\ main[w] \in {"waiting", "batch"}
    /\ flag[w]
    /\ main' = [main EXCEPT ![w] = "stopped"]
    /\ UNCHANGED <<vars, program, at, flag, tasks>>

\* run() returns: the value is true, in the select! or before the next batch.
StopMain(w) ==
    /\ main[w] = "waiting"
    /\ flag[w]
    /\ main' = [main EXCEPT ![w] = "stopped"]
    /\ UNCHANGED <<vars, program, at, flag, tasks>>

\* After the last call of a batch the loop goes back.
BatchEnds(w) == main' = [main EXCEPT ![w] = IF pc'[w] = "idle" THEN "waiting" ELSE "batch"]

Batch(w) ==
    /\ main[w] = "batch"
    /\ Work(w)
    /\ BatchEnds(w)
    /\ UNCHANGED <<program, at, flag, tasks>>

\* process_pending_events returns Err: logged, and a sleep later the loop goes on.
BatchFails(w) ==
    /\ main[w] = "batch"
    /\ FetchFails(w) \/ RecordFails(w) \/ MarkFails(w)
    /\ BatchEnds(w)
    /\ UNCHANGED <<program, at, flag, tasks>>

-----------------------------------------------------------------------------
(* The spawned tasks. *)

Reaper(w) ==
    /\ "dlq" \in tasks[w]
    /\ Reap(w)
    /\ UNCHANGED appVars

ReaperFails(w) ==
    /\ "dlq" \in tasks[w]
    /\ DrainFails(w) \/ QuarantineFails(w)
    /\ UNCHANGED appVars

Collector(w) ==
    /\ "gc" \in tasks[w]
    /\ CollectGarbage
    /\ UNCHANGED appVars

\* Mutant: the shutdown arm is raced against the two calls of a tick.
CancelTask(w) ==
    /\ flag[w]
    /\ \E t \in tasks[w] : tasks' = [tasks EXCEPT ![w] = @ \ {t}]
    /\ UNCHANGED <<vars, program, at, flag, main>>

\* A spawned task sees the request in its select!, not between two calls.
StopTask(w) ==
    /\ flag[w]
    /\ \E t \in tasks[w] :
        /\ t = "dlq" => drained[w] = NoEntries
        /\ tasks' = [tasks EXCEPT ![w] = @ \ {t}]
    /\ UNCHANGED <<vars, program, at, flag, main>>

Clock == Tick /\ UNCHANGED appVars

-----------------------------------------------------------------------------
Script(w) == Start(w) \/ Add(w) \/ Shutdown(w) \/ Join(w) \/ Exit(w)

SNext ==
    \/ \E w \in Workers :
        \/ Script(w) \/ Kill(w)
        \/ Wake(w) \/ StopMain(w) \/ Batch(w) \/ BatchFails(w)
        \/ Reaper(w) \/ ReaperFails(w) \/ Collector(w) \/ StopTask(w)
    \/ Clock

SSpec == SInit /\ [][SNext]_svars

(***************************************************************************)
(* The tasks of a runtime are scheduled, calls return, sleeps end and the  *)
(* loop polls.  Nothing makes a signal come.                               *)
(***************************************************************************)
SFairness ==
    /\ \A w \in Workers :
        /\ WF_svars(Script(w) /\ Call(w) # "signal")
        /\ WF_svars(Wake(w) \/ StopMain(w) \/ Batch(w))
        /\ WF_svars(Reaper(w))
        /\ WF_svars(Collector(w))
    /\ WF_svars(Clock)

FairSSpec == SSpec /\ SFairness

-----------------------------------------------------------------------------
(* Properties. *)

\* A worker loop that is not in the middle of a batch has no event in hand: when
\* the handle of run() is ready, every event it claimed was disposed of, whenever
\* the request came, and a program that is started again begins with nothing.
StoppedHoldsNothing ==
    \A w \in Workers : main[w] # "batch" => Held(w) = {} /\ pc[w] = "idle"

\* One process that stays up is enough: every event leaves the outbox, also those
\* that programs which returned or died had claimed, and those whose failures
\* they had drained.
Serving(w) == main[w] \in {"waiting", "batch"} /\ tasks[w] = {"gc", "dlq"} /\ ~flag[w]

SystemDrains == (\E w \in DlqProcesses : <>[]Serving(w)) => OutboxDrains

\* Who asks for shutdown gets it: the program comes to its end.
ShutdownCompletes == \A w \in Workers : flag[w] ~> ~flag[w]

-----------------------------------------------------------------------------
(* Refinement. *)

\* The programs keep the sending half of the channel as long as they live.
Alive == [w \in Workers |-> TRUE]
Reaping == [w \in Workers |-> drained[w] # NoEntries]

Life == INSTANCE RunLifecycle WITH Processes <- Workers, alive <- Alive, reaping <- Reaping

\* In every process, run() and its tasks live as RunLifecycle says: programs take
\* run() for what ManagerLoop shows it to be, and whatever they do, only the end of
\* the process, and never a request, cuts a batch or drained counts short.
KeepsLifecycle == Life!Spec
=============================================================================
