------------------------- MODULE ManagerLoop_proofs -------------------------
(***************************************************************************)
(* Proofs about ManagerLoop, for any batch size and any values of the      *)
(* bounds.                                                                 *)
(***************************************************************************)
EXTENDS ManagerLoop, TLAPS

USE LoopAssumption

\* run() starts well typed, whatever receiver it was given.
LEMMA InitTypeOK == Init => TypeOK
<1> SUFFICES ASSUME Init PROVE TypeOK
  OBVIOUS
<1>1. inserted = 0
  BY DEF Init, inserted
<1>2. task \in [Background -> TaskStates] /\ main \in MainStates
  BY DEF Init, MainStates, TaskStates
<1>3. seen \in [Receivers -> BOOLEAN]
  BY DEF Init
<1>4. 0 \in 0..MaxSends /\ 0 \in 0..MaxErrors /\ 0 \in 0..MaxNotices /\ 0 <= MaxRows
  OBVIOUS
<1> QED
  BY <1>1, <1>2, <1>3, <1>4 DEF Init, TypeOK

\* A notification never overfills the listener.
LEMMA NotifyType ==
  ASSUME notices \in 0..MaxNotices, NEW n, Notify(n) PROVE notices' \in 0..MaxNotices
BY DEF Notify

\* A claim takes no more rows than there are, and tells of them.
LEMMA ClaimType ==
  ASSUME TypeOK, NEW n \in {0, Due}, Claim(n)
  PROVE  /\ n \in 0..ready /\ ready' = ready - n /\ notices' \in 0..MaxNotices
         /\ late' \in Nat
<1>1. n \in 0..ready
  BY DEF TypeOK, Due
<1>2. notices' \in 0..MaxNotices
  BY NotifyType DEF Claim, TypeOK
<1> QED
  BY <1>1, <1>2 DEF Claim, TypeOK

\* Every step keeps the types, and moves rows without making or losing one.
LEMMA StepTypeOK == TypeOK /\ [Next]_vars => TypeOK'
<1> SUFFICES ASSUME TypeOK, [Next]_vars PROVE TypeOK'
  OBVIOUS
<1> USE DEF TypeOK, MainStates, TaskStates, channelVars, rowVars, inserted
<1>1. CASE UNCHANGED vars
  BY <1>1 DEF vars
<1>2. ASSUME NEW v \in BOOLEAN, Send(v) PROVE TypeOK'
  BY <1>2 DEF Send
<1>11. CASE DropSender
  BY <1>11 DEF DropSender
<1>3. CASE InsertRow
  BY <1>3, NotifyType DEF InsertRow
<1>4. CASE LeaseExpires \/ LoseNotices
  BY <1>4 DEF LeaseExpires, LoseNotices
<1>5. CASE Connect
  BY <1>5 DEF Connect
<1>13. CASE ListenFails
  <2>1. 0 \in 0..MaxNotices
    OBVIOUS
  <2> QED
    BY <1>13, <2>1 DEF ListenFails
<1>14. CASE Notified
  BY <1>14 DEF Notified
<1>12. CASE PollTick \/ WakeUp \/ Check
  BY <1>12 DEF PollTick, WakeUp, Check
<1>6. CASE MainChanged
  BY <1>6 DEF MainChanged, Changed
<1>7. CASE FetchBatch
  <2>1. /\ Due \in 0..ready /\ ready' = ready - Due /\ notices' \in 0..MaxNotices
        /\ late' \in Nat
    BY <1>7, ClaimType DEF FetchBatch
  <2> QED
    BY <1>7, <2>1 DEF FetchBatch
<1>8. CASE FetchFails
  <2>1. PICK n \in {0, Due} : Claim(n) /\ leased' = leased + n
    BY <1>8 DEF FetchFails
  <2>2. n \in 0..ready /\ ready' = ready - n /\ notices' \in 0..MaxNotices /\ late' \in Nat
    BY <2>1, ClaimType
  <2> QED
    BY <1>8, <2>1, <2>2 DEF FetchFails
<1>15. CASE PublishFails
  <2>1. PICK n \in 0..batch :
          done' = done + n /\ leased' = leased + (batch - n) /\ Notify(n)
    BY <1>15 DEF PublishFails
  <2>2. notices' \in 0..MaxNotices
    BY <2>1, NotifyType
  <2> QED
    BY <1>15, <2>1, <2>2 DEF PublishFails
<1>9. CASE PublishBatch
  <2>1. PICK n \in 0..batch :
          /\ errors + (batch - n) <= MaxErrors
          /\ errors' = errors + (batch - n)
          /\ done' = done + n
          /\ leased' = leased + (batch - n)
          /\ Notify(n)
    BY <1>9 DEF PublishBatch
  <2>2. notices' \in 0..MaxNotices
    BY <2>1, NotifyType
  <2> QED
    BY <1>9, <2>1, <2>2 DEF PublishBatch
<1>10. ASSUME NEW t \in Background, TaskStep(t) PROVE TypeOK'
  <2>1. CASE TaskTick(t)
    BY <2>1 DEF TaskTick
  <2>2. CASE TaskCall(t)
    BY <2>2 DEF TaskCall
  <2>3. CASE TaskChanged(t)
    BY <2>3 DEF TaskChanged, Changed
  <2> QED
    BY <1>10, <2>1, <2>2, <2>3 DEF TaskStep
<1> QED
  BY <1>1, <1>2, <1>3, <1>4, <1>5, <1>6, <1>7, <1>8, <1>9, <1>10, <1>11, <1>12,
     <1>13, <1>14, <1>15 DEF Next, Environment, MainStep

\* Every variable keeps its type; in particular no row is lost or counted twice.
THEOREM TypeCorrect == Spec => []TypeOK
BY InitTypeOK, StepTypeOK, PTL DEF Spec

\* A batch that is claimed after the request was checked before it.
LEMMA StepLate == TypeOK /\ LateInv /\ [Next]_vars => LateInv'
<1> SUFFICES ASSUME TypeOK, LateInv, [Next]_vars PROVE LateInv'
  OBVIOUS
<1> USE DEF LateInv
<1>1. CASE UNCHANGED vars
  BY <1>1 DEF vars, channelVars
<1>2. CASE Environment
  BY <1>2 DEF Environment, Send, DropSender, InsertRow, LeaseExpires, LoseNotices,
              channelVars, TypeOK
<1>3. CASE Check
  BY <1>3 DEF Check, channelVars
<1>4. CASE FetchBatch \/ FetchFails
  <2>1. main = "fetch" /\ main' # "fetch" /\ UNCHANGED flag /\ late = 0
    BY <1>4 DEF FetchBatch, FetchFails, channelVars
  <2>2. \E n \in {0, Due} : Claim(n)
    BY <1>4 DEF FetchBatch, FetchFails
  <2> QED
    BY <2>1, <2>2 DEF Claim, TypeOK
<1>5. CASE MainStep /\ ~Check /\ ~FetchBatch /\ ~FetchFails
  BY <1>5 DEF MainStep, Connect, ListenFails, Notified, PollTick, MainChanged, Changed,
              WakeUp, PublishBatch, PublishFails, channelVars
<1>6. ASSUME NEW t \in Background, TaskStep(t) PROVE LateInv'
  BY <1>6 DEF TaskStep, TaskTick, TaskCall, TaskChanged, Changed, channelVars
<1> QED
  BY <1>1, <1>2, <1>3, <1>4, <1>5, <1>6 DEF Next

\* Shutdown cuts the drain loop after at most one more batch.
THEOREM AtMostOneLateBatch == Spec => []OneLateBatch
<1>1. Init => LateInv
  BY DEF Init, LateInv
<1>2. LateInv => OneLateBatch
  BY DEF LateInv, OneLateBatch
<1> QED
  BY <1>1, <1>2, TypeCorrect, StepLate, PTL DEF Spec

-----------------------------------------------------------------------------
\* Nothing but the arm that ends a receiver marks the request as seen by it.
LEMMA StepRequest == TypeOK /\ NoRequestLost /\ [Next]_vars => NoRequestLost'
<1> SUFFICES ASSUME TypeOK, NoRequestLost, [Next]_vars PROVE NoRequestLost'
  OBVIOUS
<1> USE DEF NoRequestLost, Stopped
<1>1. CASE UNCHANGED <<channelVars, main, task>>
  BY <1>1 DEF channelVars
<1>2. ASSUME NEW v \in BOOLEAN, Send(v) PROVE NoRequestLost'
  BY <1>2 DEF Send
<1>3. CASE DropSender
  BY <1>3 DEF DropSender
<1>4. CASE MainChanged
  <2>1. /\ UNCHANGED <<flag, sends, task>>
        /\ seen' = [seen EXCEPT !["main"] = TRUE]
        /\ flag => main' = "stopped"
    BY <1>4 DEF MainChanged, Changed, Ends
  <2> QED
    BY <2>1 DEF TypeOK, Receivers
<1>5. CASE UNCHANGED <<channelVars, task>> /\ main # "stopped"
  BY <1>5 DEF channelVars
<1>6. ASSUME NEW t \in Background, TaskStep(t) PROVE NoRequestLost'
  <2>1. CASE TaskTick(t) \/ TaskCall(t)
    <3>1. /\ UNCHANGED <<channelVars, main>> /\ task[t] # "stopped"
          /\ \A u \in Background \ {t} : task'[u] = task[u]
      BY <2>1 DEF TaskTick, TaskCall, TypeOK
    <3> QED
      BY <3>1 DEF channelVars, Receivers
  <2>2. CASE TaskChanged(t)
    <3>1. /\ UNCHANGED <<flag, sends, main>>
          /\ seen' = [seen EXCEPT ![t] = TRUE]
          /\ flag => task' = [task EXCEPT ![t] = "stopped"]
      BY <2>2 DEF TaskChanged, Changed, Ends
    <3> QED
      BY <3>1, LoopAssumption DEF TypeOK, Receivers
  <2> QED
    BY <1>6, <2>1, <2>2 DEF TaskStep
<1>7. CASE InsertRow \/ LeaseExpires \/ LoseNotices \/ Connect \/ UNCHANGED vars
  BY <1>1, <1>7 DEF InsertRow, LeaseExpires, LoseNotices, Connect, vars
<1>8. CASE MainStep /\ ~Connect /\ ~MainChanged
  BY <1>5, <1>8 DEF MainStep, ListenFails, Notified, PollTick, WakeUp, Check, FetchBatch,
                    FetchFails, PublishBatch, PublishFails
<1> QED
  BY <1>2, <1>3, <1>4, <1>6, <1>7, <1>8 DEF Next, Environment, MainStep

\* A request for shutdown that comes while run() runs is seen by the loop and by
\* every task: none of them drops it in a call, a sleep or another arm.
THEOREM RequestsReachEverybody == Spec => []NoRequestLost
<1>1. Init => NoRequestLost
  BY DEF Init, NoRequestLost
<1> QED
  BY <1>1, StepRequest, TypeCorrect, PTL DEF Spec

-----------------------------------------------------------------------------
(* Refinement of RunLifecycle. *)

\* What RunLifecycle sees of one process changes like a single value.
LEMMA OneProcess ==
  ASSUME NEW x, NEW y PROVE [This(x) EXCEPT !["run"] = y] = This(y) /\ This(x)["run"] = x
BY DEF This

\* A step that RunLifecycle does not see.
LEMMA Unseen ==
  ASSUME UNCHANGED <<flag, senderAlive, LifeMain, LifeTasks, LifeReaping>>
  PROVE  UNCHANGED Life!vars
BY DEF Life!vars, This

\* The loop begins a batch at the end of a check that saw no request.
LEMMA MainRefines ==
  ASSUME TypeOK, MainStep PROVE Life!Next \/ UNCHANGED Life!vars
<1>1. UNCHANGED <<flag, senderAlive, LifeTasks, LifeReaping>>
  BY DEF MainStep, Connect, ListenFails, Notified, PollTick, MainChanged, Changed, WakeUp,
         Check, FetchBatch, FetchFails, PublishBatch, PublishFails, channelVars, LifeTasks,
         LifeReaping
<1>2. \/ LifeMain' = LifeMain
      \/ LifeMain = "waiting" /\ LifeMain' = "batch" /\ ~flag
      \/ LifeMain = "batch" /\ LifeMain' = "waiting"
      \/ LifeMain = "waiting" /\ LifeMain' = "stopped" /\ Ends
  <2>1. CASE Connect \/ ListenFails \/ Notified \/ PollTick \/ WakeUp
    BY <2>1 DEF Connect, ListenFails, Notified, PollTick, WakeUp, LifeMain
  <2>2. CASE MainChanged \/ Check
    BY <2>2 DEF MainChanged, Check, Ends, LifeMain
  <2>3. CASE FetchBatch \/ FetchFails \/ PublishBatch \/ PublishFails
    BY <2>3 DEF FetchBatch, FetchFails, PublishBatch, PublishFails, LifeMain
  <2> QED
    BY <2>1, <2>2, <2>3 DEF MainStep
<1>3. CASE LifeMain' = LifeMain
  BY <1>1, <1>3, Unseen
<1>4. CASE LifeMain = "waiting" /\ LifeMain' = "batch" /\ ~flag
  BY <1>1, <1>4, OneProcess DEF Life!Next, Life!BeginBatch
<1>5. CASE LifeMain = "batch" /\ LifeMain' = "waiting"
  BY <1>1, <1>5, OneProcess DEF Life!Next, Life!EndBatch
<1>6. CASE LifeMain = "waiting" /\ LifeMain' = "stopped" /\ Ends
  BY <1>1, <1>6, OneProcess DEF Life!Next, Life!Stop, Life!Asked, Ends
<1> QED
  BY <1>2, <1>3, <1>4, <1>5, <1>6

\* A task stops in its select!, where the reaper has nothing in hand.
LEMMA TaskRefines ==
  ASSUME TypeOK, NEW t \in Background, TaskStep(t)
  PROVE  Life!Next \/ UNCHANGED Life!vars
<1>1. UNCHANGED <<flag, senderAlive, LifeMain>> /\ t \in {"gc", "dlq"}
  BY DEF TaskStep, TaskTick, TaskCall, TaskChanged, Changed, channelVars, LifeMain
<1>2. CASE TaskTick(t)
  <2>1. UNCHANGED <<LifeTasks, LifeReaping>>
    BY <1>2 DEF TaskTick, TypeOK, LifeTasks, LifeReaping
  <2> QED
    BY <1>1, <2>1, Unseen
<1>3. CASE TaskCall(t)
  <2>1. UNCHANGED LifeTasks
    BY <1>3 DEF TaskCall, TypeOK, LifeTasks
  <2>2. CASE UNCHANGED LifeReaping
    BY <1>1, <2>1, <2>2, Unseen
  <2>3. CASE LifeReaping' # LifeReaping
    <3>1. t = "dlq" /\ "dlq" \in LifeTasks
      BY <1>3, <2>3 DEF TaskCall, TypeOK, LifeTasks, LifeReaping
    <3>2. LifeReaping' = ~LifeReaping
      BY <2>3 DEF LifeReaping
    <3>3. Life!Reap("run")
      BY <1>1, <2>1, <3>1, <3>2, OneProcess DEF Life!Reap
    <3> QED
      BY <3>3 DEF Life!Next
  <2> QED
    BY <2>2, <2>3
<1>4. CASE TaskChanged(t) /\ ~Ends
  <2>1. UNCHANGED <<LifeTasks, LifeReaping>>
    BY <1>4 DEF TaskChanged, TypeOK, LifeTasks, LifeReaping
  <2> QED
    BY <1>1, <2>1, Unseen
<1>5. CASE TaskChanged(t) /\ Ends
  <2>1. task' = [task EXCEPT ![t] = "stopped"] /\ task[t] = "select"
    BY <1>5 DEF TaskChanged
  <2>2. t \in LifeTasks /\ LifeTasks' = LifeTasks \ {t}
    BY <2>1 DEF TypeOK, LifeTasks
  <2>3. UNCHANGED LifeReaping /\ (t = "dlq" => ~LifeReaping)
    BY <2>1 DEF TypeOK, LifeReaping
  <2>4. Life!StopTask("run", t)
    BY <1>1, <1>5, <2>2, <2>3, OneProcess DEF Life!StopTask, Life!Asked, Ends
  <2> QED
    BY <1>1, <2>4 DEF Life!Next, Life!AllTasks
<1> QED
  BY <1>2, <1>3, <1>4, <1>5 DEF TaskStep

\* Of the rest of the world only the owner of the channel matters.
LEMMA EnvironmentRefines ==
  ASSUME TypeOK, Environment PROVE Life!Next \/ UNCHANGED Life!vars
<1>1. UNCHANGED <<LifeMain, LifeTasks, LifeReaping>>
  BY DEF Environment, Send, DropSender, InsertRow, LeaseExpires, LoseNotices, LifeMain,
         LifeTasks, LifeReaping
<1>2. ASSUME NEW v \in BOOLEAN, Send(v) PROVE Life!Next
  <2>1. Life!Request("run", v)
    BY <1>1, <1>2, OneProcess DEF Send, Life!Request
  <2> QED
    BY <2>1 DEF Life!Next
<1>3. CASE DropSender
  <2>1. Life!Disown("run")
    BY <1>1, <1>3, OneProcess DEF DropSender, Life!Disown
  <2> QED
    BY <2>1 DEF Life!Next
<1>4. CASE UNCHANGED <<flag, senderAlive>>
  BY <1>1, <1>4, Unseen
<1> QED
  BY <1>2, <1>3, <1>4 DEF Environment, InsertRow, LeaseExpires, LoseNotices, channelVars

\* The loop of one process and its tasks live as RunLifecycle says, whatever wakes
\* them up, fails, or is requested and withdrawn.
THEOREM ImplementsLifecycle == Spec => KeepsLifecycle
<1>1. Init => Life!Init
  <2> SUFFICES ASSUME Init PROVE Life!Init
    OBVIOUS
  <2>1. LifeMain = "waiting" /\ LifeTasks = Background /\ ~LifeReaping
    BY DEF Init, LifeMain, LifeTasks, LifeReaping
  <2>2. flag \in BOOLEAN /\ senderAlive = TRUE /\ Background \in SUBSET Life!AllTasks
    BY DEF Init, Life!AllTasks
  <2>3. \A x, S : x \in S => This(x) \in [{"run"} -> S]
    BY DEF This
  <2>4. /\ This(flag) \in [{"run"} -> BOOLEAN]
        /\ This(LifeTasks) \in [{"run"} -> SUBSET Life!AllTasks]
    BY <2>1, <2>2, <2>3
  <2>5. This(LifeMain) \in [{"run"} -> {"off", "waiting"}] /\ This(LifeMain)["run"] # "off"
    BY <2>1, <2>3, OneProcess
  <2>6. /\ This(senderAlive) = [p \in {"run"} |-> TRUE]
        /\ This(LifeReaping) = [p \in {"run"} |-> FALSE]
    BY <2>1, <2>2 DEF This, LifeReaping
  <2> QED
    BY <2>4, <2>5, <2>6 DEF Life!Init
<1>2. TypeOK /\ [Next]_vars => [Life!Next]_Life!vars
  <2> SUFFICES ASSUME TypeOK, [Next]_vars PROVE Life!Next \/ UNCHANGED Life!vars
    OBVIOUS
  <2>1. CASE UNCHANGED vars
    BY <2>1, Unseen DEF vars, channelVars, LifeMain, LifeTasks, LifeReaping
  <2> QED
    BY <2>1, EnvironmentRefines, MainRefines, TaskRefines DEF Next
<1> QED
  BY <1>1, <1>2, TypeCorrect, PTL DEF Spec, KeepsLifecycle, Life!Spec
=============================================================================
