------------------------- MODULE OutboxSystem_proofs -------------------------
(***************************************************************************)
(* Proofs about whole programs, for any programs and any number of         *)
(* processes: they implement OutboxProcessing, so that what is proved      *)
(* there holds of them, and a loop or a task that stops holds nothing.     *)
(***************************************************************************)
EXTENDS OutboxSystem, OutboxProcessing_proofs

\* What a program does to the tables, the broker and the counters is a step of
\* OutboxProcessing, or nothing; an exit in the middle of a batch leaves it.
LEMMA StepProcessing == [SNext]_svars => [Next]_vars
<1> SUFFICES ASSUME [SNext]_svars PROVE [Next]_vars
  OBVIOUS
<1>1. CASE UNCHANGED svars
  BY <1>1 DEF svars
<1>2. CASE Clock
  BY <1>2 DEF Clock, Next
<1>3. CASE \E w \in Workers : Script(w)
  BY <1>3 DEF Script, Start, Add, Shutdown, Join, Exit, Next, Break
<1>4. CASE \E w \in Workers :
             Kill(w) \/ Batch(w) \/ BatchFails(w) \/ Reaper(w) \/ ReaperFails(w) \/ Collector(w)
  BY <1>4 DEF Kill, Batch, BatchFails, Reaper, ReaperFails, Collector, Next, Break
<1>5. CASE \E w \in Workers : Wake(w) \/ StopMain(w) \/ StopTask(w)
  BY <1>5 DEF Wake, StopMain, StopTask
<1> QED
  BY <1>1, <1>2, <1>3, <1>4, <1>5 DEF SNext

\* Programs implement OutboxProcessing.
THEOREM ProgramsImplementProcessing == SSpec => Spec
<1>1. SInit => Init
  BY DEF SInit
<1> QED
  BY <1>1, StepProcessing, PTL DEF SSpec, Spec

\* Whatever programs are deployed, in whatever mixture of builds, and wherever
\* they return or die: the promise of AtLeastOnce is kept.
THEOREM ProgramsKeepPromise == SSpec => KeepsPromise
BY ProgramsImplementProcessing, ImplementsAtLeastOnce

\* Whatever programs are deployed, a lease excludes the others while it lasts.
THEOREM ProgramsLeasesExclude == SSpec => []LeaseExclusion
BY ProgramsImplementProcessing, LeasesExclude

-----------------------------------------------------------------------------
\* Every process runs a program, as the assumption has it.
LEMMA ScriptOf ==
  ASSUME program \in [Workers -> UNION {Programs[w] : w \in Workers}], NEW w \in Workers
  PROVE  /\ program[w] \in [script : Seq(STRING), wired : SUBSET STRING]
         /\ Len(program[w].script) \in Nat
         /\ \A i \in 2..Len(program[w].script) : program[w].script[i] # "start"
<1>1. PICK v \in Workers : program[w] \in Programs[v]
  OBVIOUS
<1>2. program[w] \in [script : Seq(STRING), wired : SUBSET STRING]
  BY <1>1, ProgramsAssumption
<1>3. program[w].script \in Seq(STRING)
  BY <1>2
<1>4. Len(program[w].script) \in Nat
  BY <1>3
<1> QED
  BY <1>1, <1>2, <1>4, ProgramsAssumption

\* main() is at a call of its script.
LEMMA CallInScript ==
  ASSUME SysTypeOK, NEW w \in Workers, Call(w) \notin {"none", "return"}
  PROVE  at[w] + 1 <= Len(program[w].script) + 1
<1>1. Len(program[w].script) \in Nat
  BY ScriptOf DEF SysTypeOK
<1> QED
  BY <1>1 DEF Call, SysTypeOK

\* What at has to satisfy, when one process goes on to n.
LEMMA AtType ==
  ASSUME SysTypeOK, NEW w \in Workers, NEW n \in Nat, n <= Len(program[w].script) + 1,
         at' = [at EXCEPT ![w] = n], program' = program
  PROVE  /\ at' \in [Workers -> Nat]
         /\ \A v \in Workers : at'[v] <= Len(program'[v].script) + 1
BY DEF SysTypeOK

\* The rest of the state of a program.
TasksTypeOK ==
    /\ flag \in [Workers -> BOOLEAN]
    /\ main \in [Workers -> {"off", "waiting", "batch", "stopped"}]
    /\ tasks \in [Workers -> SUBSET {"gc", "dlq"}]
    /\ \A w \in Workers : "dlq" \in tasks[w] => w \in DlqProcesses

\* Spawned tasks keep their types.
LEMMA TasksStep == TasksTypeOK /\ [SNext]_svars => TasksTypeOK'
<1> SUFFICES ASSUME TasksTypeOK, [SNext]_svars PROVE TasksTypeOK'
  OBVIOUS
<1> USE DEF TasksTypeOK
<1>1. CASE UNCHANGED appVars
  BY <1>1 DEF appVars
<1>2. ASSUME NEW w \in Workers, Start(w) PROVE TasksTypeOK'
  BY <1>2 DEF Start
<1>3. ASSUME NEW w \in Workers, Add(w) \/ Shutdown(w) \/ Join(w) PROVE TasksTypeOK'
  BY <1>3 DEF Add, Shutdown, Join
<1>4. ASSUME NEW w \in Workers, Exit(w) \/ Kill(w) PROVE TasksTypeOK'
  BY <1>4 DEF Exit, Kill, Cease
<1>5. ASSUME NEW w \in Workers, Wake(w) \/ StopMain(w) \/ Batch(w) \/ BatchFails(w)
      PROVE TasksTypeOK'
  BY <1>5 DEF Wake, StopMain, Batch, BatchFails, BatchEnds
<1>6. ASSUME NEW w \in Workers, StopTask(w) PROVE TasksTypeOK'
  BY <1>6 DEF StopTask
<1>7. CASE Clock \/ \E w \in Workers : Reaper(w) \/ ReaperFails(w) \/ Collector(w)
  BY <1>1, <1>7 DEF Clock, Reaper, ReaperFails, Collector
<1> QED
  BY <1>1, <1>2, <1>3, <1>4, <1>5, <1>6, <1>7 DEF SNext, Script, svars, appVars

\* A process keeps its program, also when it is started again.
LEMMA ProgramStays == [SNext]_svars => program' = program
BY DEF SNext, svars, appVars, Script, Start, Add, Shutdown, Join, Exit, Kill, Cease, Wake,
       StopMain, Batch, BatchFails, Reaper, ReaperFails, Collector, StopTask, Clock

\* Every step keeps the types.
LEMMA StepSysTypeOK == SysTypeOK /\ [SNext]_svars => SysTypeOK'
<1> SUFFICES ASSUME SysTypeOK, [SNext]_svars PROVE SysTypeOK'
  OBVIOUS
<1>1. TasksTypeOK'
  BY TasksStep DEF SysTypeOK, TasksTypeOK
<1>2. program' = program
  BY ProgramStays
<1>3. CASE UNCHANGED at
  BY <1>1, <1>2, <1>3 DEF SysTypeOK, TasksTypeOK
<1>4. CASE \E w \in Workers, n \in Nat :
             n <= Len(program[w].script) + 1 /\ at' = [at EXCEPT ![w] = n]
  BY <1>1, <1>2, <1>4, AtType DEF SysTypeOK, TasksTypeOK
<1>5. ASSUME NEW w \in Workers, Advance(w), Call(w) \notin {"none", "return"} PROVE SysTypeOK'
  <2>1. at[w] + 1 \in Nat /\ at[w] + 1 <= Len(program[w].script) + 1
    BY <1>5, CallInScript DEF SysTypeOK
  <2> QED
    BY <1>4, <1>5, <2>1 DEF Advance
<1>6. ASSUME NEW w \in Workers, NEW n \in {0, 1}, at' = [at EXCEPT ![w] = n] PROVE SysTypeOK'
  <2>1. Len(program[w].script) \in Nat
    BY ScriptOf DEF SysTypeOK
  <2>2. n \in Nat /\ n <= Len(program[w].script) + 1
    BY <2>1
  <2> QED
    BY <1>4, <1>6, <2>2
<1>7. ASSUME NEW w \in Workers, Script(w) \/ Kill(w) PROVE SysTypeOK'
  <2>1. CASE Start(w)
    BY <1>5, <1>6, <2>1 DEF Start, Down
  <2>2. CASE Add(w) \/ Shutdown(w) \/ Join(w)
    BY <1>5, <2>2 DEF Add, Shutdown, Join
  <2>3. CASE Exit(w) \/ Kill(w)
    BY <1>6, <2>3 DEF Exit, Kill, Cease, Down
  <2> QED
    BY <1>7, <2>1, <2>2, <2>3 DEF Script
<1> QED
  BY <1>3, <1>7 DEF SNext, svars, appVars, Wake, StopMain, Batch, BatchFails, Reaper, ReaperFails,
                    Collector, StopTask, Clock

\* Every process starts at the first call of its program.
LEMMA InitSysTypeOK == SInit => SysTypeOK
<1> SUFFICES ASSUME SInit PROVE SysTypeOK
  OBVIOUS
<1>1. \A w \in Workers : Len(program[w].script) \in Nat
  BY ScriptOf DEF SInit
<1> QED
  BY <1>1 DEF SInit, SysTypeOK

\* The state of a program is well typed, and main() never runs past its script.
THEOREM SysTypeCorrect == SSpec => []SysTypeOK
BY InitSysTypeOK, StepSysTypeOK, PTL DEF SSpec

-----------------------------------------------------------------------------
(* Who stops holds nothing. *)

\* The inductive part: outside of a batch the processor is idle, and main() has
\* started nothing before its first call.
IdleOutside == \A w \in Workers : main[w] # "batch" => pc[w] = "idle"
StartsOnce == \A w \in Workers : at[w] <= 1 => main[w] = "off"

\* What a step of a process leaves alone.
LEMMA ProcessSteps ==
  ASSUME TypeOK, NEW w \in Workers
  PROVE  /\ Work(w) \/ FetchFails(w) \/ RecordFails(w) \/ MarkFails(w) =>
              UNCHANGED drained /\ \A v \in Workers \ {w} : pc'[v] = pc[v]
         /\ Abandon(w) => /\ drained'[w] = NoEntries /\ pc'[w] = "idle"
                          /\ \A v \in Workers \ {w} : pc'[v] = pc[v] /\ drained'[v] = drained[v]
         /\ Reap(w) \/ DrainFails(w) \/ QuarantineFails(w) =>
              UNCHANGED pc /\ \A v \in Workers \ {w} : drained'[v] = drained[v]
         /\ CollectGarbage \/ Tick => UNCHANGED <<pc, drained>>
<1>1. ASSUME Work(w) \/ FetchFails(w) \/ RecordFails(w) \/ MarkFails(w)
      PROVE  UNCHANGED drained /\ \A v \in Workers \ {w} : pc'[v] = pc[v]
  BY <1>1 DEF TypeOK, Work, Fetch, PublishOk, PublishErr, Unacknowledged, Acknowledged,
              EndPublish, Record, Mark,
              FetchFails, RecordFails, MarkFails, DropBatch, workerVars
<1>2. ASSUME Abandon(w)
      PROVE  /\ drained'[w] = NoEntries /\ pc'[w] = "idle"
             /\ \A v \in Workers \ {w} : pc'[v] = pc[v] /\ drained'[v] = drained[v]
  BY <1>2 DEF TypeOK, Abandon, DropBatch
<1>3. ASSUME Reap(w) \/ DrainFails(w) \/ QuarantineFails(w)
      PROVE  UNCHANGED pc /\ \A v \in Workers \ {w} : drained'[v] = drained[v]
  BY <1>3 DEF TypeOK, Reap, Drain, Quarantine, DrainFails, QuarantineFails, workerVars
<1>4. CollectGarbage \/ Tick => UNCHANGED <<pc, drained>>
  BY DEF CollectGarbage, Tick, workerVars
<1> QED
  BY <1>1, <1>2, <1>3, <1>4

\* The steps of main() leave the processor and the reaper alone, but for an exit.
LEMMA ScriptSteps ==
  ASSUME TypeOK, NEW w \in Workers, Start(w) \/ Add(w) \/ Shutdown(w) \/ Join(w)
  PROVE  UNCHANGED <<pc, drained>>
BY DEF Start, Add, Shutdown, Join, Insert, vars, workerVars

\* The end of a process: with nothing in hand, or abandoning it.
LEMMA EndSteps ==
  ASSUME TypeOK, NEW w \in Workers, Exit(w) \/ Kill(w)
  PROVE  /\ drained'[w] = NoEntries
         /\ pc'[w] = "idle"
         /\ \A v \in Workers \ {w} : pc'[v] = pc[v] /\ drained'[v] = drained[v]
         /\ \E next \in {0, 1} : Cease(w, next)
<1>1. CASE Abandon(w)
  BY <1>1, ProcessSteps DEF Exit, Kill, Down
<1>2. CASE ~Abandon(w)
  BY <1>2 DEF Exit, Kill, Crash, Leave, Down, vars, workerVars
<1> QED
  BY <1>1, <1>2

\* A program starts its manager by its first call.
LEMMA OnlyFirst ==
  ASSUME SysTypeOK, NEW w \in Workers, Start(w)
  PROVE  at[w] = 1
<1>1. /\ Len(program[w].script) \in Nat
      /\ \A i \in 2..Len(program[w].script) : program[w].script[i] # "start"
  BY ScriptOf DEF SysTypeOK
<1>2. at[w] # Down /\ ~(at[w] > Len(program[w].script)) /\ program[w].script[at[w]] = "start"
  BY DEF Start, Call
<1>3. at[w] \in Nat
  BY DEF SysTypeOK
<1> QED
  BY <1>1, <1>2, <1>3 DEF Down

\* A script that has started run() does not start it again.
LEMMA StepStartsOnce == SysTypeOK /\ StartsOnce /\ [SNext]_svars => StartsOnce'
<1> SUFFICES ASSUME SysTypeOK, StartsOnce, [SNext]_svars, NEW v \in Workers, at'[v] <= 1
             PROVE  main'[v] = "off"
  BY DEF StartsOnce
<1>1. CASE UNCHANGED <<at, main>>
  BY <1>1 DEF StartsOnce
<1>2. ASSUME NEW w \in Workers, Start(w) \/ Add(w) \/ Shutdown(w) \/ Join(w) PROVE main'[v] = "off"
  <2>1. \/ Advance(w) /\ (main' = main \/ main' = [main EXCEPT ![w] = "waiting"])
        \/ UNCHANGED main /\ at[w] = 1 /\ at' = [at EXCEPT ![w] = 0]
    BY <1>2, OnlyFirst DEF Start, Add, Shutdown, Join, Down
  <2>2. at[w] >= 1
    BY <1>2 DEF Start, Add, Shutdown, Join, Call, Down, SysTypeOK
  <2>3. CASE UNCHANGED main /\ at[w] = 1 /\ at' = [at EXCEPT ![w] = 0]
    BY <2>3 DEF SysTypeOK, StartsOnce
  <2>4. CASE Advance(w) /\ (main' = main \/ main' = [main EXCEPT ![w] = "waiting"])
    <3>1. at'[w] = at[w] + 1 /\ at[w] \in Nat
      BY <2>4 DEF Advance, SysTypeOK
    <3>2. v # w
      BY <2>2, <3>1
    <3> QED
      BY <2>4, <3>2 DEF Advance, SysTypeOK, StartsOnce
  <2> QED
    BY <2>1, <2>3, <2>4
<1>3. ASSUME NEW w \in Workers, Exit(w) \/ Kill(w) PROVE main'[v] = "off"
  BY <1>3 DEF Exit, Kill, Cease, SysTypeOK, StartsOnce
<1>4. ASSUME NEW w \in Workers, Wake(w) \/ StopMain(w) \/ Batch(w) \/ BatchFails(w)
      PROVE  main'[v] = "off"
  <2>1. at' = at /\ main[w] # "off" /\ \A u \in Workers \ {w} : main'[u] = main[u]
    BY <1>4 DEF Wake, StopMain, Batch, BatchFails, BatchEnds, SysTypeOK
  <2> QED
    BY <2>1 DEF StartsOnce
<1> QED
  BY <1>1, <1>2, <1>3, <1>4 DEF SNext, Script, svars, appVars, Reaper, ReaperFails, Collector,
                                StopTask, Clock

\* Outside a batch a worker has nothing in hand, after every step.
LEMMA StepIdle == TypeOK /\ SysTypeOK /\ StartsOnce /\ IdleOutside /\ [SNext]_svars => IdleOutside'
<1> SUFFICES ASSUME TypeOK, SysTypeOK, StartsOnce, IdleOutside, [SNext]_svars, NEW v \in Workers,
                    main'[v] # "batch"
             PROVE  pc'[v] = "idle"
  BY DEF IdleOutside
<1>1. CASE UNCHANGED <<pc, main>>
  BY <1>1 DEF IdleOutside
<1>2. ASSUME NEW w \in Workers, Start(w) PROVE pc'[v] = "idle"
  <2>1. at[w] = 1
    BY <1>2, OnlyFirst
  <2>2. main[w] = "off" /\ \A u \in Workers \ {w} : main'[u] = main[u]
    <3>1. main[w] = "off"
      BY <2>1 DEF StartsOnce
    <3>2. \A u \in Workers \ {w} : main'[u] = main[u]
      BY <1>2 DEF Start, SysTypeOK
    <3> QED
      BY <3>1, <3>2
  <2>3. UNCHANGED pc
    BY <1>2, ScriptSteps
  <2> QED
    BY <2>2, <2>3 DEF IdleOutside
<1>3. ASSUME NEW w \in Workers, Add(w) \/ Shutdown(w) \/ Join(w) PROVE pc'[v] = "idle"
  BY <1>1, <1>3, ScriptSteps DEF Add, Shutdown, Join
<1>4. ASSUME NEW w \in Workers, Exit(w) \/ Kill(w) PROVE pc'[v] = "idle"
  BY <1>4, EndSteps DEF Cease, IdleOutside, SysTypeOK
<1>5. ASSUME NEW w \in Workers, Wake(w) \/ StopMain(w) PROVE pc'[v] = "idle"
  <2>1. UNCHANGED pc /\ main[w] = "waiting" /\ \A u \in Workers \ {w} : main'[u] = main[u]
    BY <1>5 DEF Wake, StopMain, SysTypeOK, vars, workerVars
  <2> QED
    BY <2>1 DEF IdleOutside
<1>6. ASSUME NEW w \in Workers, Batch(w) \/ BatchFails(w) PROVE pc'[v] = "idle"
  <2>1. \A u \in Workers \ {w} : pc'[u] = pc[u] /\ main'[u] = main[u]
    BY <1>6, ProcessSteps DEF Batch, BatchFails, BatchEnds, SysTypeOK
  <2>2. main'[w] # "batch" => pc'[w] = "idle"
    BY <1>6 DEF Batch, BatchFails, BatchEnds, SysTypeOK
  <2> QED
    BY <2>1, <2>2 DEF IdleOutside
<1>7. CASE Clock \/ \E w \in Workers :
             Reaper(w) \/ ReaperFails(w) \/ Collector(w) \/ StopTask(w)
  BY <1>1, <1>7, ProcessSteps DEF Clock, Reaper, ReaperFails, Collector, StopTask, appVars, vars,
     workerVars
<1> QED
  BY <1>1, <1>2, <1>3, <1>4, <1>5, <1>6, <1>7 DEF SNext, Script, svars, appVars, vars, workerVars

\* Outside of a batch the processor is idle, at every moment.
LEMMA IdleOutsideBatches == SSpec => []IdleOutside
<1>1. SInit => StartsOnce /\ IdleOutside
  BY DEF SInit, Init, StartsOnce, IdleOutside
<1>2. SSpec => []TypeOK
  BY ProgramsImplementProcessing, TypeCorrect, PTL
<1> QED
  BY <1>1, <1>2, SysTypeCorrect, StepStartsOnce, StepIdle, PTL DEF SSpec

\* When run() has returned, or nothing runs, no event is in hand: a shutdown that
\* is waited for abandons no batch, whenever it is requested.
THEOREM StoppedLoopHoldsNothing == SSpec => []StoppedHoldsNothing
<1>1. SSpec => []Inv
  BY ProgramsImplementProcessing, Invariant, PTL
<1>2. Inv /\ IdleOutside => StoppedHoldsNothing
  BY DEF Inv, HandsInv, IdleOutside, StoppedHoldsNothing
<1> QED
  BY <1>1, <1>2, IdleOutsideBatches, PTL

-----------------------------------------------------------------------------
(* Refinement of RunLifecycle. *)

\* The reaper of one process moves: RunLifecycle sees whether it has counts in hand.
LEMMA ReapingStep ==
  ASSUME NEW w \in Workers, \A v \in Workers \ {w} : drained'[v] = drained[v]
  PROVE  /\ Reaping' = [Reaping EXCEPT ![w] = (drained'[w] # NoEntries)]
         /\ Reaping' = Reaping \/ Reaping' = [Reaping EXCEPT ![w] = ~@]
BY DEF Reaping

\* The steps of main() and the end of its process.
LEMMA ScriptRefines ==
  ASSUME TypeOK, SysTypeOK, StartsOnce, NEW w \in Workers, Script(w) \/ Kill(w)
  PROVE  Life!Next \/ UNCHANGED Life!vars
<1>1. CASE Start(w)
  <2>1. UNCHANGED <<Alive, Reaping, flag>>
    BY <1>1, ScriptSteps DEF Start, Alive, Reaping
  <2>2. CASE UNCHANGED <<main, tasks>>
    BY <2>1, <2>2 DEF Life!vars
  <2>3. CASE /\ main' = [main EXCEPT ![w] = "waiting"]
             /\ tasks' = [tasks EXCEPT ![w] =
                             {"gc"} \cup (IF w \in DlqProcesses THEN {"dlq"} ELSE {})]
    <3>1. main[w] = "off"
      BY <1>1, OnlyFirst DEF StartsOnce
    <3>2. {"gc"} \cup (IF w \in DlqProcesses THEN {"dlq"} ELSE {}) \in SUBSET Life!AllTasks
      BY DEF Life!AllTasks
    <3>3. Life!Start(w)
      BY <2>1, <2>3, <3>1, <3>2 DEF Life!Start
    <3> QED
      BY <3>3 DEF Life!Next
  <2> QED
    BY <1>1, <2>2, <2>3 DEF Start
<1>2. CASE Add(w) \/ Join(w)
  BY <1>2, ScriptSteps DEF Add, Join, Life!vars, Alive, Reaping
<1>3. CASE Shutdown(w)
  <2>1. UNCHANGED <<Alive, Reaping>> /\ Alive[w]
    BY <1>3, ScriptSteps DEF Alive, Reaping
  <2>2. Life!Request(w, TRUE)
    BY <1>3, <2>1 DEF Shutdown, Life!Request
  <2> QED
    BY <2>2 DEF Life!Next
<1>4. CASE Exit(w) \/ Kill(w)
  <2>1. Reaping' = [Reaping EXCEPT ![w] = FALSE] /\ Alive' = [Alive EXCEPT ![w] = TRUE]
    BY <1>4, EndSteps, ReapingStep DEF Alive
  <2>2. Life!Cease(w)
    BY <1>4, <2>1, EndSteps DEF Cease, Life!Cease
  <2> QED
    BY <2>2 DEF Life!Next
<1> QED
  BY <1>1, <1>2, <1>3, <1>4 DEF Script

\* The task of run(): a batch begins unless shutdown is requested, and goes to its end.
LEMMA RunRefines ==
  ASSUME TypeOK, SysTypeOK, NEW w \in Workers,
         Wake(w) \/ StopMain(w) \/ Batch(w) \/ BatchFails(w)
  PROVE  Life!Next \/ UNCHANGED Life!vars
<1>1. UNCHANGED <<flag, tasks, Alive, Reaping>>
  BY ProcessSteps DEF Wake, StopMain, Batch, BatchFails, Alive, Reaping, vars
<1>2. CASE Wake(w)
  BY <1>1, <1>2 DEF Wake, Life!Next, Life!BeginBatch
<1>3. CASE StopMain(w)
  BY <1>1, <1>3 DEF StopMain, Life!Next, Life!Stop, Life!Asked
<1>4. CASE Batch(w) \/ BatchFails(w)
  <2>1. /\ main[w] = "batch"
        /\ main' = [main EXCEPT ![w] = "waiting"] \/ main' = [main EXCEPT ![w] = "batch"]
    BY <1>4 DEF Batch, BatchFails, BatchEnds
  <2>2. CASE main' = [main EXCEPT ![w] = "waiting"]
    BY <1>1, <2>1, <2>2 DEF Life!Next, Life!EndBatch
  <2>3. CASE main' = [main EXCEPT ![w] = "batch"]
    <3>1. main' = main
      BY <2>1, <2>3 DEF SysTypeOK
    <3> QED
      BY <1>1, <3>1 DEF Life!vars
  <2> QED
    BY <2>1, <2>2, <2>3
<1> QED
  BY <1>2, <1>3, <1>4

\* The spawned tasks: the reaper is not stopped with counts in hand.
LEMMA TasksRefine ==
  ASSUME TypeOK, SysTypeOK, NEW w \in Workers,
         Reaper(w) \/ ReaperFails(w) \/ Collector(w) \/ StopTask(w)
  PROVE  Life!Next \/ UNCHANGED Life!vars
<1>1. UNCHANGED Alive
  BY DEF Alive
<1>2. CASE Reaper(w) \/ ReaperFails(w)
  <2>1. UNCHANGED <<flag, main, tasks>> /\ "dlq" \in tasks[w]
    BY <1>2 DEF Reaper, ReaperFails, appVars
  <2>2. Reaping' = Reaping \/ Reaping' = [Reaping EXCEPT ![w] = ~@]
    BY <1>2, ProcessSteps, ReapingStep DEF Reaper, ReaperFails
  <2> QED
    BY <1>1, <2>1, <2>2 DEF Life!vars, Life!Next, Life!Reap
<1>3. CASE Collector(w)
  BY <1>1, <1>3, ProcessSteps DEF Collector, appVars, Life!vars, Reaping
<1>4. CASE StopTask(w)
  <2>1. PICK t \in tasks[w] :
          /\ t = "dlq" => drained[w] = NoEntries
          /\ tasks' = [tasks EXCEPT ![w] = @ \ {t}]
    BY <1>4 DEF StopTask
  <2>2. t \in Life!AllTasks /\ (t = "dlq" => ~Reaping[w])
    BY <2>1 DEF SysTypeOK, Life!AllTasks, Reaping
  <2>3. UNCHANGED <<flag, main, Reaping>> /\ flag[w]
    BY <1>4 DEF StopTask, vars, Reaping
  <2>4. Life!StopTask(w, t)
    BY <1>1, <2>1, <2>2, <2>3 DEF Life!StopTask, Life!Asked
  <2> QED
    BY <2>2, <2>4 DEF Life!Next
<1> QED
  BY <1>2, <1>3, <1>4

\* In every process, run() and its tasks live as RunLifecycle says, as they do in
\* ManagerLoop: only the end of a process cuts a batch or drained counts short.
THEOREM ProgramsKeepLifecycle == SSpec => KeepsLifecycle
<1>1. SInit => Life!Init /\ StartsOnce
  <2> SUFFICES ASSUME SInit PROVE Life!Init /\ StartsOnce
    OBVIOUS
  <2>1. StartsOnce
    BY DEF SInit, StartsOnce
  <2>2. Alive = [w \in Workers |-> TRUE] /\ Reaping = [w \in Workers |-> FALSE]
    BY DEF SInit, Init, Alive, Reaping
  <2>3. /\ flag \in [Workers -> BOOLEAN]
        /\ main \in [Workers -> {"off", "waiting"}]
        /\ tasks \in [Workers -> SUBSET Life!AllTasks]
        /\ \A w \in Workers : tasks[w] = {}
    BY DEF SInit
  <2> QED
    BY <2>1, <2>2, <2>3 DEF Life!Init
<1>2. TypeOK /\ SysTypeOK /\ StartsOnce /\ [SNext]_svars => [Life!Next]_Life!vars
  <2> SUFFICES ASSUME TypeOK, SysTypeOK, StartsOnce, [SNext]_svars
               PROVE  Life!Next \/ UNCHANGED Life!vars
    OBVIOUS
  <2>1. CASE Clock \/ UNCHANGED svars
    BY <2>1, ProcessSteps DEF Clock, svars, appVars, vars, Life!vars, Alive, Reaping
  <2> QED
    BY <2>1, ScriptRefines, RunRefines, TasksRefine DEF SNext
<1>3. SSpec => []TypeOK
  BY ProgramsImplementProcessing, TypeCorrect, PTL
<1> QED
  BY <1>1, <1>2, <1>3, SysTypeCorrect, StepStartsOnce, PTL
     DEF SSpec, KeepsLifecycle, Life!Spec
=============================================================================
