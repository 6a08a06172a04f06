---------------------- MODULE IdempotentProducer_proofs ----------------------
(***************************************************************************)
(* Proofs about IdempotentProducer, for any tokens, callers, processes and *)
(* life of a token, with or without Redis and the local caches.            *)
(***************************************************************************)
EXTENDS IdempotentProducer, TLAPS

USE ProducerAssumption

\* Nothing is reserved or granted at first.
LEMMA InitInv == Init => TypeOK /\ GrantInv
BY DEF Init, TypeOK, Stages, GrantInv

\* Every step keeps the types; the keys it touches are real tokens.
LEMMA StepTypeOK == TypeOK /\ GrantInv /\ [Next]_vars => TypeOK'
<1> SUFFICES ASSUME TypeOK, GrantInv, [Next]_vars PROVE TypeOK'
  OBVIOUS
<1> USE DEF TypeOK, Stages
<1>1. CASE UNCHANGED vars
  BY <1>1 DEF vars
<1>2. ASSUME NEW c \in Callers, AddEvent(c) PROVE TypeOK'
  BY <1>2 DEF AddEvent, Invoke
<1>3. ASSUME NEW c \in Callers, LookUp(c) PROVE TypeOK'
  <2>1. CASE cache[Home[c]][token[c]] > 0
    <3>1. token[c] \in Tokens
      BY <1>3 DEF LookUp, GrantInv
    <3>2. Refuse(c) /\ UNCHANGED <<strategy, redis, cache, row, recorded, under, used, faults>>
      BY <1>3, <2>1 DEF LookUp
    <3> QED
      BY <3>1, <3>2 DEF Refuse, Return
  <2>2. CASE ~(cache[Home[c]][token[c]] > 0)
    BY <1>3, <2>2 DEF LookUp, GrantInv
  <2> QED
    BY <2>1, <2>2
<1>4. ASSUME NEW c \in Callers, Duplicate(c) PROVE TypeOK'
  BY <1>4 DEF Duplicate, Refuse, Return, GrantInv
<1>5. ASSUME NEW c \in Callers, Reserve(c) PROVE TypeOK'
  BY <1>5 DEF Reserve, SetKey, GrantInv
<1>6. ASSUME NEW c \in Callers, ReserveFails(c) PROVE TypeOK'
  <2>1. token[c] \in Tokens
    BY <1>6 DEF ReserveFails, GrantInv
  <2>2. redis' \in [Tokens -> 0..Ttl] /\ used' \subseteq Tokens
    <3>1. SetKey(token[c]) \/ UNCHANGED <<redis, used>>
      BY <1>6 DEF ReserveFails
    <3>2. CASE SetKey(token[c])
      BY <2>1, <3>2 DEF SetKey
    <3>3. CASE UNCHANGED <<redis, used>>
      BY <3>3
    <3> QED
      BY <3>1, <3>2, <3>3
  <2>3. faults' \in 0..MaxFaults
    BY <1>6 DEF ReserveFails, Fault
  <2>4. /\ UNCHANGED <<strategy, cache, row, recorded, under, refused>>
        /\ Return(c)
    BY <1>6 DEF ReserveFails
  <2> QED
    BY <2>2, <2>3, <2>4 DEF Return
<1>7. ASSUME NEW c \in Callers, Remember(c) PROVE TypeOK'
  <2> DEFINE mine == [cache[Home[c]] EXCEPT ![token[c]] = Ttl]
  <2>1. mine \in [Tokens -> 0..Ttl]
    <3>1. cache[Home[c]] \in [Tokens -> 0..Ttl] /\ Ttl \in 0..Ttl
      OBVIOUS
    <3> QED
      BY <3>1
  <2>2. cache' = [cache EXCEPT ![Home[c]] = mine]
    BY <1>7 DEF Remember
  <2>3. cache' \in [Processes -> [Tokens -> 0..Ttl]]
    BY <2>1, <2>2
  <2> QED
    BY <1>7, <2>3 DEF Remember
<1>8. ASSUME NEW c \in Callers, Insert(c) PROVE TypeOK'
  BY <1>8 DEF Insert, StoreRow, RecordUnder, Return
<1>9. ASSUME NEW c \in Callers, Collide(c) PROVE TypeOK'
  BY <1>9 DEF Collide, Return
<1>10. ASSUME NEW c \in Callers, InsertFails(c) PROVE TypeOK'
  BY <1>10 DEF InsertFails, StoreRow, RecordUnder, Fault, Return
<1>11. ASSUME NEW t \in Tokens, RemoveRow(t) PROVE TypeOK'
  BY <1>11 DEF RemoveRow
<1>12. ASSUME NEW p \in Processes, Crash(p) PROVE TypeOK'
  BY <1>12 DEF Crash, Fault
<1>13. CASE Tick
  BY <1>13 DEF Tick, Less
<1> QED
  BY <1>1, <1>2, <1>3, <1>4, <1>5, <1>6, <1>7, <1>8, <1>9, <1>10, <1>11, <1>12, <1>13
     DEF Next, Step

\* A key is only ever set when it is not there: whoever still has a reservation
\* of that token has one that ran out.
LEMMA StepGrant == TypeOK /\ GrantInv /\ [Next]_vars => GrantInv'
<1> SUFFICES ASSUME TypeOK, GrantInv, [Next]_vars PROVE GrantInv'
  OBVIOUS
<1> USE DEF TypeOK, Stages, GrantInv
<1>1. CASE UNCHANGED vars
  BY <1>1 DEF vars
<1>2. ASSUME NEW c \in Callers, AddEvent(c) PROVE GrantInv'
  <2>1. PICK provided \in Tokens \cup {NoToken}, derived \in Tokens :
          \E t \in Invoke(provided, derived) :
            /\ token' = [token EXCEPT ![c] = t]
            /\ pc' = [pc EXCEPT ![c] = IF ~UseRedis \/ t = NoToken THEN "insert"
                                       ELSE IF UseMoka THEN "cache" ELSE "reserve"]
    BY <1>2 DEF AddEvent
  <2>2. PICK t \in Tokens \cup {NoToken} :
          /\ token' = [token EXCEPT ![c] = t]
          /\ pc' = [pc EXCEPT ![c] = IF ~UseRedis \/ t = NoToken THEN "insert"
                                     ELSE IF UseMoka THEN "cache" ELSE "reserve"]
    BY <2>1 DEF Invoke
  <2>3. pc[c] = "idle" /\ UNCHANGED <<redis, granted, under, used>>
    BY <1>2 DEF AddEvent
  <2> QED
    BY <2>2, <2>3
<1>3. ASSUME NEW c \in Callers, LookUp(c) PROVE GrantInv'
  <2>1. CASE cache[Home[c]][token[c]] > 0
    <3>1. Refuse(c) /\ UNCHANGED <<redis, under, used>>
      BY <1>3, <2>1 DEF LookUp
    <3> QED
      BY <3>1 DEF Refuse, Return
  <2>2. CASE ~(cache[Home[c]][token[c]] > 0)
    BY <1>3, <2>2 DEF LookUp
  <2> QED
    BY <2>1, <2>2
<1>4. ASSUME NEW c \in Callers, Duplicate(c) PROVE GrantInv'
  BY <1>4 DEF Duplicate, Refuse, Return
<1>5. ASSUME NEW c \in Callers, Reserve(c) PROVE GrantInv'
  BY <1>5 DEF Reserve, SetKey
<1>6. ASSUME NEW c \in Callers, ReserveFails(c) PROVE GrantInv'
  BY <1>6 DEF ReserveFails, SetKey, Return
<1>7. ASSUME NEW c \in Callers, Remember(c) PROVE GrantInv'
  BY <1>7 DEF Remember
<1>8. ASSUME NEW c \in Callers, Insert(c) PROVE GrantInv'
  BY <1>8 DEF Insert, StoreRow, RecordUnder, Return
<1>9. ASSUME NEW c \in Callers, Collide(c) PROVE GrantInv'
  BY <1>9 DEF Collide, Return
<1>10. ASSUME NEW c \in Callers, InsertFails(c) PROVE GrantInv'
  BY <1>10 DEF InsertFails, StoreRow, RecordUnder, Return
<1>11. ASSUME NEW t \in Tokens, RemoveRow(t) PROVE GrantInv'
  BY <1>11 DEF RemoveRow
<1>12. ASSUME NEW p \in Processes, Crash(p) PROVE GrantInv'
  BY <1>12 DEF Crash
<1>13. CASE Tick
  BY <1>13 DEF Tick, Less
<1> QED
  BY <1>1, <1>2, <1>3, <1>4, <1>5, <1>6, <1>7, <1>8, <1>9, <1>10, <1>11, <1>12, <1>13
     DEF Next, Step

\* Types and grants support each other, without the other invariants.
LEMMA GrantsLast == Spec => [](TypeOK /\ GrantInv)
BY InitInv, StepTypeOK, StepGrant, PTL DEF Spec

\* A call that is granted a reservation finds no other alive: the key was not there.
LEMMA StepExclusion ==
  TypeOK /\ GrantInv /\ ReservationExclusion /\ [Next]_vars => ReservationExclusion'
<1> SUFFICES ASSUME TypeOK, GrantInv, ReservationExclusion, [Next]_vars
             PROVE ReservationExclusion'
  OBVIOUS
<1> USE DEF TypeOK, ReservationExclusion
<1>1. CASE UNCHANGED <<token, granted>>
  BY <1>1
<1>2. ASSUME NEW c \in Callers, AddEvent(c) PROVE ReservationExclusion'
  BY <1>2 DEF AddEvent, GrantInv
<1>3. ASSUME NEW c \in Callers, Return(c) PROVE ReservationExclusion'
  BY <1>3 DEF Return
<1>4. ASSUME NEW c \in Callers, Reserve(c) PROVE ReservationExclusion'
  <2>1. \A d \in Callers : token[d] = token[c] => granted[d] = 0
    BY <1>4 DEF Reserve, SetKey, GrantInv
  <2> QED
    BY <1>4, <2>1 DEF Reserve
<1>5. ASSUME NEW c \in Callers, Step(c) \/ ReserveFails(c) \/ InsertFails(c)
      PROVE UNCHANGED <<token, granted>> \/ Return(c) \/ Reserve(c)
  BY <1>5 DEF Step, LookUp, Duplicate, Remember, Insert, Collide, ReserveFails, InsertFails,
              Refuse
<1>6. ASSUME NEW p \in Processes, Crash(p) PROVE ReservationExclusion'
  BY <1>6 DEF Crash
<1>7. CASE Tick
  BY <1>7 DEF Tick, Less
<1>8. ASSUME NEW t \in Tokens, RemoveRow(t) PROVE UNCHANGED <<token, granted>>
  BY <1>8 DEF RemoveRow
<1> QED
  BY <1>1, <1>2, <1>3, <1>4, <1>5, <1>6, <1>7, <1>8 DEF Next, vars

\* Of the calls let through with one token, at most one has a live reservation.
THEOREM ReservationsExclude == Spec => []ReservationExclusion
<1>1. Init => ReservationExclusion
  BY DEF Init, ReservationExclusion
<1> QED
  BY <1>1, StepExclusion, GrantsLast, PTL DEF Spec

\* A call that records a token under a live reservation has the only one, and gives
\* it up; a key that is set anew was not there, and so was no earlier recording's.
LEMMA StepUnder ==
  TypeOK /\ GrantInv /\ ReservationExclusion /\ UnderInv /\ [Next]_vars => UnderInv'
<1> SUFFICES ASSUME TypeOK, GrantInv, ReservationExclusion, UnderInv, [Next]_vars
             PROVE UnderInv'
  OBVIOUS
<1> USE DEF TypeOK, UnderInv
<1>1. CASE UNCHANGED <<token, granted, redis, under>>
  BY <1>1
<1>2. ASSUME NEW c \in Callers, AddEvent(c) PROVE UnderInv'
  BY <1>2 DEF AddEvent, GrantInv
<1>3. ASSUME NEW c \in Callers, Return(c), UNCHANGED <<redis, under>> PROVE UnderInv'
  BY <1>3 DEF Return
<1>4. ASSUME NEW c \in Callers, SetKey(token[c]), token[c] \in Tokens, UNCHANGED under,
             \/ token' = token /\ granted' = [granted EXCEPT ![c] = Ttl]
             \/ Return(c)
      PROVE UnderInv'
  BY <1>4 DEF SetKey, Return
<1>5. ASSUME NEW c \in Callers, RecordUnder(c), Return(c), UNCHANGED redis
      PROVE UnderInv'
  <2>1. ASSUME NEW t \in Tokens, under'[t] > 0
        PROVE redis'[t] = under'[t] /\ \A d \in Callers : token'[d] = t => granted'[d] = 0
    <3>1. CASE t = token[c] /\ granted[c] > 0
      BY <1>5, <3>1 DEF RecordUnder, Return, GrantInv, ReservationExclusion
    <3>2. CASE ~(t = token[c] /\ granted[c] > 0)
      BY <1>5, <2>1, <3>2 DEF RecordUnder, Return
    <3> QED
      BY <3>1, <3>2
  <2> QED
    BY <2>1
<1>6. ASSUME NEW c \in Callers, Insert(c) \/ InsertFails(c) PROVE UnderInv'
  BY <1>6, <1>3, <1>5 DEF Insert, InsertFails
<1>7. ASSUME NEW c \in Callers, Reserve(c) \/ ReserveFails(c) PROVE UnderInv'
  BY <1>7, <1>3, <1>4 DEF Reserve, ReserveFails, GrantInv
<1>8. ASSUME NEW c \in Callers, LookUp(c) \/ Duplicate(c) \/ Remember(c) \/ Collide(c)
      PROVE UNCHANGED <<redis, under>> /\ (Return(c) \/ UNCHANGED <<token, granted>>)
  BY <1>8 DEF LookUp, Duplicate, Remember, Collide, Refuse
<1>9. ASSUME NEW p \in Processes, Crash(p) PROVE UnderInv'
  BY <1>9 DEF Crash
<1>10. CASE Tick
  BY <1>10 DEF Tick, Less
<1>11. ASSUME NEW t \in Tokens, RemoveRow(t) PROVE UNCHANGED <<token, granted, redis, under>>
  BY <1>11 DEF RemoveRow
<1>12. CASE UNCHANGED vars
  BY <1>12 DEF vars
<1> QED
  BY <1>1, <1>2, <1>3, <1>6, <1>7, <1>8, <1>9, <1>10, <1>11, <1>12 DEF Next, Step

\* Every variable keeps its type, and a reservation that was granted, or that a
\* token was recorded under, lasts as long as the key in Redis.
THEOREM Invariant == Spec => []Inv
<1>1. Init => UnderInv
  BY DEF Init, UnderInv
<1> QED
  BY <1>1, StepUnder, GrantsLast, ReservationsExclude, PTL DEF Spec, Inv

\* While the reservation that a token was recorded under is alive, no call with a
\* live reservation records it again, whatever became of its row.
THEOREM RecordedOnce == Spec => RecordedOncePerReservation
<1>1. TypeOK /\ GrantInv /\ UnderInv /\ [Next]_vars =>
        [\A c \in Callers :
           token[c] \in row' \ row /\ pc'[c] # pc[c] /\ granted[c] > 0
             => under[token[c]] = 0]_vars
  <2> SUFFICES ASSUME TypeOK, UnderInv, TypeOK',
                      NEW c \in Callers, token[c] \in row', granted[c] > 0
               PROVE  under[token[c]] = 0
    BY StepTypeOK
  <2>1. token[c] \in Tokens /\ under[token[c]] \in Nat /\ granted[c] # 0
    BY DEF TypeOK
  <2>2. ~(under[token[c]] > 0)
    BY <2>1 DEF UnderInv
  <2> QED
    BY <2>1, <2>2
<1> QED
  BY <1>1, Invariant, PTL DEF Spec, Inv, RecordedOncePerReservation

\* Redis and the local caches know a token only from a call that used it.
LEMMA StepRefused ==
  TypeOK /\ GrantInv /\ RefusedWasUsed /\ [Next]_vars => RefusedWasUsed'
<1> SUFFICES ASSUME TypeOK, GrantInv, RefusedWasUsed, [Next]_vars PROVE RefusedWasUsed'
  OBVIOUS
<1> USE DEF RefusedWasUsed
<1>1. CASE UNCHANGED <<refused, used, cache>>
  BY <1>1
<1>2. ASSUME NEW c \in Callers, LookUp(c) PROVE RefusedWasUsed'
  <2>1. CASE cache[Home[c]][token[c]] > 0
    <3>1. token[c] \in used
      BY <1>2, <2>1 DEF LookUp, GrantInv
    <3>2. Refuse(c) /\ UNCHANGED <<used, cache>>
      BY <1>2, <2>1 DEF LookUp
    <3> QED
      BY <3>1, <3>2 DEF Refuse
  <2>2. CASE ~(cache[Home[c]][token[c]] > 0)
    BY <1>2, <2>2 DEF LookUp
  <2> QED
    BY <2>1, <2>2
<1>3. ASSUME NEW c \in Callers, Duplicate(c) PROVE RefusedWasUsed'
  <2>1. token[c] \in used
    BY <1>3 DEF Duplicate, GrantInv
  <2> QED
    BY <1>3, <2>1 DEF Duplicate, Refuse
<1>4. ASSUME NEW c \in Callers, Remember(c) PROVE RefusedWasUsed'
  <2>1. token[c] \in used
    BY <1>4 DEF Remember, GrantInv
  <2>2. ASSUME NEW p \in Processes, NEW t \in Tokens, cache'[p][t] > 0
        PROVE t \in used
    BY <1>4, <2>1, <2>2 DEF Remember, TypeOK
  <2> QED
    BY <1>4, <2>2 DEF Remember
<1>5. ASSUME UNCHANGED <<refused, cache>>, used \subseteq used' PROVE RefusedWasUsed'
  BY <1>5
<1>6. ASSUME NEW c \in Callers,
             Reserve(c) \/ ReserveFails(c) \/ Insert(c) \/ InsertFails(c)
      PROVE UNCHANGED <<refused, cache>> /\ used \subseteq used'
  BY <1>6 DEF Reserve, ReserveFails, Insert, InsertFails, SetKey, StoreRow
<1>7. ASSUME NEW p \in Processes, Crash(p) PROVE RefusedWasUsed'
  BY <1>7 DEF Crash, TypeOK
<1>8. CASE Tick
  BY <1>8 DEF Tick, Less, TypeOK
<1>9. ASSUME NEW c \in Callers, AddEvent(c) \/ Collide(c)
      PROVE UNCHANGED <<refused, used, cache>>
  BY <1>9 DEF AddEvent, Collide
<1>10. ASSUME NEW t \in Tokens, RemoveRow(t) PROVE UNCHANGED <<refused, used, cache>>
  BY <1>10 DEF RemoveRow
<1>11. CASE UNCHANGED vars
  BY <1>11 DEF vars
<1> QED
  BY <1>1, <1>2, <1>3, <1>4, <1>5, <1>6, <1>7, <1>8, <1>9, <1>10, <1>11 DEF Next, Step

\* Nobody is told DuplicateEvent, by Redis or by a local cache, for a token that
\* was not used before.
THEOREM RefusalsAreFounded == Spec => []RefusedWasUsed
<1>1. Init => RefusedWasUsed
  BY DEF Init, RefusedWasUsed
<1>2. TypeOK /\ GrantInv /\ RefusedWasUsed /\ [Next]_vars => RefusedWasUsed'
  BY StepRefused
<1> QED
  BY <1>1, <1>2, GrantsLast, PTL DEF Spec

-----------------------------------------------------------------------------
(* Refinement of Reservation. *)

\* A token that nobody has reserved in Redis is held by nobody.
LEMMA FreeToken ==
  ASSUME TypeOK, GrantInv, NEW t \in Tokens, redis[t] = 0 PROVE Promise!Free(t)
BY DEF Promise!Free, Held, TypeOK, GrantInv

\* A step that sets a key grants a reservation, or leaves one without a holder.
LEMMA ReserveRefines ==
  ASSUME TypeOK, GrantInv, NEW c \in Callers
  PROVE  /\ Reserve(c) => Promise!Grant(c, token[c]) /\ token[c] \in Tokens
         /\ ReserveFails(c) => Promise!Next \/ UNCHANGED Promise!vars
<1> USE DEF TypeOK, Held
<1>1. ASSUME pc[c] = "reserve" PROVE token[c] \in Tokens /\ granted[c] = 0
  BY <1>1 DEF GrantInv
<1>2. ASSUME Reserve(c) PROVE Promise!Grant(c, token[c])
  <2>1. Promise!Free(token[c]) /\ Held[c] = NoToken
    BY <1>1, <1>2, FreeToken DEF Reserve, SetKey
  <2>2. /\ UNCHANGED token /\ granted'[c] = Ttl
        /\ \A d \in Callers \ {c} : granted'[d] = granted[d]
    BY <1>2 DEF Reserve
  <2>3. \A d \in Callers : Held'[d] = IF d = c THEN token[c] ELSE Held[d]
    BY <2>2
  <2>4. Held' = [Held EXCEPT ![c] = token[c]]
    BY <2>3
  <2> QED
    BY <1>2, <2>1, <2>4 DEF Reserve, SetKey, Promise!Grant
<1>3. ASSUME ReserveFails(c) PROVE Promise!Next \/ UNCHANGED Promise!vars
  <2>1. Held' = Held /\ refused' = refused
    BY <1>1, <1>3 DEF ReserveFails, Return
  <2>2. CASE SetKey(token[c])
    <3>1. Promise!Orphan(token[c])
      BY <1>1, <1>3, <2>1, <2>2, FreeToken DEF ReserveFails, SetKey, Promise!Orphan
    <3> QED
      BY <1>1, <1>3, <3>1 DEF ReserveFails, Promise!Next
  <2>3. CASE UNCHANGED <<redis, used>>
    BY <2>1, <2>3 DEF Promise!vars
  <2> QED
    BY <1>3, <2>2, <2>3 DEF ReserveFails
<1> QED
  BY <1>1, <1>2, <1>3 DEF Reserve

\* A call that returns gives up what it held, and nothing else.
LEMMA ReturnHeld ==
  ASSUME TypeOK, NEW c \in Callers, Return(c)
  PROVE  Held' = [d \in Callers |-> IF d \in {c} THEN NoToken ELSE Held[d]]
BY DEF TypeOK, Held, Return

\* Who is refused, by the cache or by Redis, held nothing and named a used token.
LEMMA RefuseRefines ==
  ASSUME TypeOK, GrantInv, RefusedWasUsed, NEW c \in Callers, LookUp(c) \/ Duplicate(c)
  PROVE  Promise!Next \/ UNCHANGED Promise!vars
<1>1. token[c] \in Tokens /\ granted[c] = 0
  BY DEF LookUp, Duplicate, GrantInv, TypeOK
<1>2. CASE Refuse(c) /\ UNCHANGED <<redis, used>>
  <2>1. token[c] \in used
    BY <1>1, <1>2 DEF LookUp, Duplicate, GrantInv, RefusedWasUsed, Refuse, Return, TypeOK,
                      Stages
  <2>2. Held' = Held
    BY <1>1, <1>2, ReturnHeld DEF Refuse, Held
  <2>3. Promise!Refuse(token[c])
    BY <1>2, <2>1, <2>2 DEF Refuse, Promise!Refuse
  <2> QED
    BY <1>1, <2>3 DEF Promise!Next
<1>3. CASE UNCHANGED <<redis, token, granted, used, refused>>
  BY <1>3 DEF Promise!vars, Held
<1> QED
  BY <1>2, <1>3 DEF LookUp, Duplicate

\* A call that is done, whatever came of it, and calls that died with their process.
LEMMA FinishRefines ==
  ASSUME TypeOK, GrantInv
  PROVE  /\ \A c \in Callers : Insert(c) \/ InsertFails(c) \/ Collide(c) => Promise!Next
         /\ \A p \in Processes : Crash(p) => Promise!Next
<1>1. ASSUME NEW c \in Callers, Insert(c) \/ InsertFails(c) \/ Collide(c) PROVE Promise!Next
  <2>1. PICK ts \in SUBSET Tokens : used' = used \cup ts
    <3>1. CASE StoreRow(token[c])
      BY <3>1 DEF StoreRow
    <3>2. CASE UNCHANGED used
      <4>1. {} \in SUBSET Tokens /\ used' = used \cup {}
        BY <3>2
      <4> QED
        BY <4>1
    <3> QED
      BY <1>1, <3>1, <3>2 DEF Insert, InsertFails, Collide
  <2>2. Return(c) /\ UNCHANGED <<redis, refused>>
    BY <1>1 DEF Insert, InsertFails, Collide
  <2>3. Promise!Finish({c}, ts)
    BY <2>1, <2>2, ReturnHeld DEF Promise!Finish
  <2> QED
    BY <2>3 DEF Promise!Next
<1>2. ASSUME NEW p \in Processes, Crash(p) PROVE Promise!Next
  <2> DEFINE dead == {c \in Callers : Home[c] = p}
  <2>1. Held' = [c \in Callers |-> IF c \in dead THEN NoToken ELSE Held[c]]
    BY <1>2 DEF Crash, Held, TypeOK
  <2>2. Promise!Finish(dead, {})
    BY <1>2, <2>1 DEF Crash, Promise!Finish
  <2> QED
    BY <2>2 DEF Promise!Next
<1> QED
  BY <1>1, <1>2

\* A call loses its reservation at the tick at which Redis drops the key.
LEMMA LapseRefines == ASSUME TypeOK, GrantInv, Tick PROVE Promise!Lapse
<1>1. ASSUME NEW c \in Callers
      PROVE  Held'[c] = IF Held[c] \in Tokens /\ redis[Held[c]] > 1 THEN Held[c] ELSE NoToken
  <2>1. granted[c] \in Nat /\ token'[c] = token[c] /\ granted'[c] = Less(granted[c])
    BY DEF Tick, TypeOK
  <2>2. CASE granted[c] = 0
    BY <2>1, <2>2 DEF Held, Less
  <2>3. CASE granted[c] > 0
    <3>1. token[c] \in Tokens /\ redis[token[c]] = granted[c] /\ Held[c] = token[c]
      BY <2>3 DEF GrantInv, Held
    <3>2. Held'[c] = IF granted[c] > 1 THEN token[c] ELSE NoToken
      BY <2>1, <2>3 DEF Held, Less
    <3> QED
      BY <3>1, <3>2
  <2> QED
    BY <2>1, <2>2, <2>3
<1>2. Held' = [c \in Callers |->
                 IF Held[c] \in Tokens /\ redis[Held[c]] > 1 THEN Held[c] ELSE NoToken]
  BY <1>1 DEF Held
<1> QED
  BY <1>2 DEF Promise!Lapse, Tick, Less

\* Redis, the local caches and the calls implement Reservation: what a token's
\* reservation promises holds whatever call fails and whatever process dies.
THEOREM ImplementsReservation == Spec => KeepsReservation
<1>1. Init => Promise!Init
  BY DEF Init, Promise!Init, Held
<1>2. TypeOK /\ GrantInv /\ RefusedWasUsed /\ [Next]_vars => [Promise!Next]_Promise!vars
  <2> SUFFICES ASSUME TypeOK, GrantInv, RefusedWasUsed, [Next]_vars
               PROVE  Promise!Next \/ UNCHANGED Promise!vars
    OBVIOUS
  <2>1. CASE UNCHANGED <<redis, token, granted, used, refused>>
    BY <2>1 DEF Promise!vars, Held
  <2>2. ASSUME NEW c \in Callers, AddEvent(c) PROVE UNCHANGED Promise!vars
    <3>1. granted[c] = 0 /\ UNCHANGED <<redis, granted, used, refused>>
      BY <2>2 DEF AddEvent, GrantInv, TypeOK
    <3>2. \A d \in Callers \ {c} : token'[d] = token[d]
      BY <2>2 DEF AddEvent, TypeOK
    <3> QED
      BY <3>1, <3>2 DEF Promise!vars, Held
  <2>3. ASSUME NEW c \in Callers, LookUp(c) \/ Duplicate(c)
        PROVE  Promise!Next \/ UNCHANGED Promise!vars
    BY <2>3, RefuseRefines
  <2>4. ASSUME NEW c \in Callers, Reserve(c) \/ ReserveFails(c)
        PROVE  Promise!Next \/ UNCHANGED Promise!vars
    BY <2>4, ReserveRefines DEF Promise!Next
  <2>5. ASSUME NEW c \in Callers, Insert(c) \/ InsertFails(c) \/ Collide(c)
        PROVE  Promise!Next
    BY <2>5, FinishRefines
  <2>6. ASSUME NEW p \in Processes, Crash(p) PROVE Promise!Next
    BY <2>6, FinishRefines
  <2>7. CASE Tick
    BY <2>7, LapseRefines DEF Promise!Next
  <2>8. ASSUME NEW c \in Callers, Remember(c)
        PROVE  UNCHANGED <<redis, token, granted, used, refused>>
    BY <2>8 DEF Remember
  <2>9. ASSUME NEW t \in Tokens, RemoveRow(t)
        PROVE  UNCHANGED <<redis, token, granted, used, refused>>
    BY <2>9 DEF RemoveRow
  <2>10. CASE UNCHANGED vars
    BY <2>1, <2>10 DEF vars
  <2> QED
    BY <2>1, <2>2, <2>3, <2>4, <2>5, <2>6, <2>7, <2>8, <2>9, <2>10 DEF Next, Step
<1> QED
  BY <1>1, <1>2, GrantsLast, RefusalsAreFounded, PTL DEF Spec, KeepsReservation, Promise!Spec
=============================================================================
