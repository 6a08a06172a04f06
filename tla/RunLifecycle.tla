---------------------------- MODULE RunLifecycle ----------------------------
(***************************************************************************)
(* The life of OutboxManager::run and of the tasks it spawns, in one or    *)
(* more processes, with no table, listener, timer or program in sight:     *)
(* when a batch may begin, when the loop and the tasks may end, and what   *)
(* they may not leave behind.                                              *)
(***************************************************************************)
CONSTANT Processes

VARIABLES
    flag,       \* flag[p]: shutdown is requested
    alive,      \* alive[p]: somebody can still request it
    main,       \* main[p]: the loop is off, waiting, in a batch or stopped
    tasks,      \* tasks[p]: the spawned tasks that run
    reaping     \* reaping[p]: the reaper has drained counts to quarantine

vars == <<flag, alive, main, tasks, reaping>>

AllTasks == {"gc", "dlq"}

\* run() has not been called yet, or has just been.
Init ==
    /\ flag \in [Processes -> BOOLEAN]
    /\ alive = [p \in Processes |-> TRUE]
    /\ main \in [Processes -> {"off", "waiting"}]
    /\ tasks \in [Processes -> SUBSET AllTasks]
    /\ \A p \in Processes : main[p] = "off" => tasks[p] = {}
    /\ reaping = [p \in Processes |-> FALSE]

Start(p) ==
    /\ main[p] = "off"
    /\ main' = [main EXCEPT ![p] = "waiting"]
    /\ \E ts \in SUBSET AllTasks : tasks' = [tasks EXCEPT ![p] = ts]
    /\ UNCHANGED <<flag, alive, reaping>>

\* The owner of the channel requests shutdown, or takes the request back.
Request(p, v) ==
    /\ alive[p]
    /\ flag' = [flag EXCEPT ![p] = v]
    /\ UNCHANGED <<alive, main, tasks, reaping>>

Disown(p) ==
    /\ alive' = [alive EXCEPT ![p] = FALSE]
    /\ UNCHANGED <<flag, main, tasks, reaping>>

\* A batch does not begin while shutdown is requested.
BeginBatch(p) ==
    /\ main[p] = "waiting"
    /\ ~flag[p]
    /\ main' = [main EXCEPT ![p] = "batch"]
    /\ UNCHANGED <<flag, alive, tasks, reaping>>

EndBatch(p) ==
    /\ main[p] = "batch"
    /\ main' = [main EXCEPT ![p] = "waiting"]
    /\ UNCHANGED <<flag, alive, tasks, reaping>>

Asked(p) == flag[p] \/ ~alive[p]

\* The loop ends because it was asked to, and not in the middle of a batch.
Stop(p) ==
    /\ main[p] = "waiting"
    /\ Asked(p)
    /\ main' = [main EXCEPT ![p] = "stopped"]
    /\ UNCHANGED <<flag, alive, tasks, reaping>>

\* So do the tasks, the reaper not with counts in hand.
StopTask(p, t) ==
    /\ t \in tasks[p]
    /\ Asked(p)
    /\ t = "dlq" => ~reaping[p]
    /\ tasks' = [tasks EXCEPT ![p] = @ \ {t}]
    /\ UNCHANGED <<flag, alive, main, reaping>>

\* Counts are drained, or are disposed of, by a reaper that runs.
Reap(p) ==
    /\ "dlq" \in tasks[p]
    /\ reaping' = [reaping EXCEPT ![p] = ~@]
    /\ UNCHANGED <<flag, alive, main, tasks>>

\* The process is gone, and all of it at once.
Cease(p) ==
    /\ flag' = [flag EXCEPT ![p] = FALSE]
    /\ alive' = [alive EXCEPT ![p] = TRUE]
    /\ main' = [main EXCEPT ![p] = "off"]
    /\ tasks' = [tasks EXCEPT ![p] = {}]
    /\ reaping' = [reaping EXCEPT ![p] = FALSE]

Next ==
    \E p \in Processes :
        \/ Start(p) \/ Disown(p) \/ Cease(p)
        \/ \E v \in BOOLEAN : Request(p, v)
        \/ BeginBatch(p) \/ EndBatch(p) \/ Stop(p)
        \/ Reap(p) \/ \E t \in AllTasks : StopTask(p, t)

Spec == Init /\ [][Next]_vars
=============================================================================
