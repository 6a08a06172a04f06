------------------------- MODULE IdempotentProducer -------------------------
(***************************************************************************)
(* OutboxService::add_event, called by many request handlers in several    *)
(* processes, with the Redis reservation of tokens, the Moka cache each    *)
(* process may keep in front of it, and the unique index on                *)
(* outbox_events.idempotency_token behind it.                              *)
(*                                                                         *)
(* A token stands for one logical event: a client that retries sends the   *)
(* same token to any process.                                              *)
(***************************************************************************)
EXTENDS Naturals

CONSTANTS
    Tokens,       \* idempotency tokens
    NoToken,      \* no token: provided_token is None, or the row's is NULL
    Strategies,   \* the settings of idempotency_strategy to look at
    Callers,      \* the calls of add_event that may be in flight
    Processes,    \* the processes they run in
    Home,         \* Home[c] is the process of caller c
    UseRedis,     \* built by with_idempotency, not by new
    UseMoka,      \* the cargo feature `moka` of outbox-redis
    Ttl,          \* ttl of a token, in ticks
    FaultKinds,   \* the calls that may fail
    MaxFaults     \* bound: how many do

AllFaults == {"reserve", "insert", "crash"}

ASSUME ProducerAssumption ==
    /\ NoToken \notin Tokens
    /\ Strategies \subseteq {"Provided", "Custom", "Uuid", "None"}
    /\ Home \in [Callers -> Processes]
    /\ UseRedis \in BOOLEAN
    /\ UseMoka \in BOOLEAN
    /\ Ttl \in Nat \ {0}
    /\ FaultKinds \subseteq AllFaults
    /\ MaxFaults \in Nat

VARIABLES
    strategy,   \* config.idempotency_strategy
    pc,         \* the next call of each add_event
    token,      \* the token it resolved
    redis,      \* what is left of the life of each key, 0 when there is none
    cache,      \* cache[p][t]: the same, in the Moka cache of process p
    row,        \* the tokens in the unique index
    recorded,   \* ghost: the tokens of events that were ever recorded
    granted,    \* ghost: what is left of the reservation a call was granted
    under,      \* ghost: what is left of the live one a token was recorded under
    used,       \* ghost: the tokens that were ever reserved or stored
    refused,    \* ghost: the tokens of calls answered DuplicateEvent
    faults      \* ghost: how many faults happened

vars == <<strategy, pc, token, redis, cache, row, recorded, granted, under, used, refused, faults>>

Stages == {"idle", "cache", "reserve", "remember", "insert"}

TypeOK ==
    /\ strategy \in Strategies
    /\ pc \in [Callers -> Stages]
    /\ token \in [Callers -> Tokens \cup {NoToken}]
    /\ redis \in [Tokens -> 0..Ttl]
    /\ cache \in [Processes -> [Tokens -> 0..Ttl]]
    /\ row \subseteq Tokens /\ recorded \subseteq Tokens
    /\ used \subseteq Tokens /\ refused \subseteq Tokens
    /\ granted \in [Callers -> 0..Ttl] /\ under \in [Tokens -> 0..Ttl]
    /\ faults \in 0..MaxFaults

Init ==
    /\ strategy \in Strategies
    /\ pc = [c \in Callers |-> "idle"]
    /\ token = [c \in Callers |-> NoToken]
    /\ redis = [t \in Tokens |-> 0]
    /\ cache = [p \in Processes |-> [t \in Tokens |-> 0]]
    /\ row = {}
    /\ recorded = {}
    /\ granted = [c \in Callers |-> 0]
    /\ under = [t \in Tokens |-> 0]
    /\ used = {}
    /\ refused = {}
    /\ faults = 0

Fault(kind) ==
    /\ kind \in FaultKinds
    /\ faults < MaxFaults
    /\ faults' = faults + 1

-----------------------------------------------------------------------------
(* Calls. *)

\* IdempotencyStrategy::invoke, for a token the client provided and the one the
\* Custom function derives from the event: what the token may be.  A UUID v7
\* is one that nobody has drawn before.
Invoke(provided, derived) ==
    CASE strategy = "Provided" -> {provided}
      [] strategy = "Custom"   -> {derived}
      [] strategy = "Uuid"     -> Tokens \ (used \cup {token[c] : c \in Callers})
      [] strategy = "None"     -> {NoToken}

\* The call returns; its locals are gone.
Return(c) ==
    /\ pc' = [pc EXCEPT ![c] = "idle"]
    /\ token' = [token EXCEPT ![c] = NoToken]
    /\ granted' = [granted EXCEPT ![c] = 0]

\* Without a provider, and without a token, nothing is reserved.
AddEvent(c) ==
    /\ pc[c] = "idle"
    /\ \E provided \in Tokens \cup {NoToken}, derived \in Tokens :
        \E t \in Invoke(provided, derived) :
            /\ token' = [token EXCEPT ![c] = t]
            /\ pc' = [pc EXCEPT ![c] = IF ~UseRedis \/ t = NoToken THEN "insert"
                                       ELSE IF UseMoka THEN "cache" ELSE "reserve"]
    /\ UNCHANGED <<strategy, redis, cache, row, recorded, granted, under, used, refused, faults>>

\* Err(DuplicateEvent)
Refuse(c) == refused' = refused \cup {token[c]} /\ Return(c)

\* Mutant: get-or-insert, so that a miss is remembered before Redis is asked.
LookUpOrInsert(c) ==
    /\ pc[c] = "cache"
    /\ IF cache[Home[c]][token[c]] > 0
       THEN Refuse(c) /\ UNCHANGED cache
       ELSE /\ pc' = [pc EXCEPT ![c] = "reserve"]
            /\ cache' = [cache EXCEPT ![Home[c]][token[c]] = Ttl]
            /\ UNCHANGED <<token, granted, refused>>
    /\ UNCHANGED <<strategy, redis, row, recorded, under, used, faults>>

\* try_reserve: a hit in the local cache is a duplicate without asking Redis.
LookUp(c) ==
    /\ pc[c] = "cache"
    /\ IF cache[Home[c]][token[c]] > 0
       THEN Refuse(c)
       ELSE pc' = [pc EXCEPT ![c] = "reserve"] /\ UNCHANGED <<token, granted, refused>>
    /\ UNCHANGED <<strategy, redis, cache, row, recorded, under, used, faults>>

\* Mutant: SET without NX.
SetKeyAnyway(t) ==
    /\ redis' = [redis EXCEPT ![t] = Ttl]
    /\ used' = used \cup {t}

\* SET key 1 NX EX ttl, on a key that is not there.
SetKey(t) ==
    /\ redis[t] = 0
    /\ redis' = [redis EXCEPT ![t] = Ttl]
    /\ used' = used \cup {t}

Reserve(c) ==
    /\ pc[c] = "reserve"
    /\ SetKey(token[c])
    /\ granted' = [granted EXCEPT ![c] = Ttl]
    /\ pc' = [pc EXCEPT ![c] = IF UseMoka THEN "remember" ELSE "insert"]
    /\ UNCHANGED <<strategy, token, cache, row, recorded, under, refused, faults>>

\* Mutant: a duplicate renews the life of the key.
DuplicateRenews(c) ==
    /\ pc[c] = "reserve"
    /\ redis[token[c]] > 0
    /\ redis' = [redis EXCEPT ![token[c]] = Ttl]
    /\ Refuse(c)
    /\ UNCHANGED <<strategy, cache, row, recorded, under, used, faults>>

\* The key is there, and stays as it is: no life is added, nothing is cached.
Duplicate(c) ==
    /\ pc[c] = "reserve"
    /\ redis[token[c]] > 0
    /\ Refuse(c)
    /\ UNCHANGED <<strategy, redis, cache, row, recorded, under, used, faults>>

\* Redis fails, before or after it set the key: add_event returns the error.
ReserveFails(c) ==
    /\ pc[c] = "reserve"
    /\ Fault("reserve")
    /\ SetKey(token[c]) \/ UNCHANGED <<redis, used>>
    /\ Return(c)
    /\ UNCHANGED <<strategy, cache, row, recorded, under, refused>>

\* The key was set: the local cache learns it.
Remember(c) ==
    /\ pc[c] = "remember"
    /\ cache' = [cache EXCEPT ![Home[c]][token[c]] = Ttl]
    /\ pc' = [pc EXCEPT ![c] = "insert"]
    /\ UNCHANGED <<strategy, token, redis, row, recorded, granted, under, used, refused, faults>>

\* The row of a token enters the index, where NULLs do not collide.
StoreRow(t) ==
    LET ts == {t} \cap Tokens
    IN  /\ ts \cap row = {}
        /\ row' = row \cup ts
        /\ recorded' = recorded \cup ts
        /\ used' = used \cup ts

\* A call records a token under its reservation, if that is still alive.
RecordUnder(c) ==
    under' = [t \in Tokens |-> IF t = token[c] /\ granted[c] > 0 THEN granted[c] ELSE under[t]]

Insert(c) ==
    /\ pc[c] = "insert"
    /\ StoreRow(token[c])
    /\ RecordUnder(c)
    /\ Return(c)
    /\ UNCHANGED <<strategy, redis, cache, refused, faults>>

\* A violation of the unique index: a DatabaseError like any other.
Collide(c) ==
    /\ pc[c] = "insert"
    /\ token[c] \in row
    /\ Return(c)
    /\ UNCHANGED <<strategy, redis, cache, row, recorded, under, used, refused, faults>>

\* The INSERT fails, the caller's transaction is rolled back after it, or it is
\* committed and the answer lost.  Nothing releases the reservation.
InsertFails(c) ==
    /\ pc[c] = "insert"
    /\ Fault("insert")
    /\ \/ StoreRow(token[c]) /\ RecordUnder(c)
       \/ UNCHANGED <<row, recorded, under, used>>
    /\ Return(c)
    /\ UNCHANGED <<strategy, redis, cache, refused>>

-----------------------------------------------------------------------------
(* The rest of the world. *)

\* Garbage collection or quarantine deletes the row, and with it the token.
RemoveRow(t) ==
    /\ t \in row
    /\ row' = row \ {t}
    /\ UNCHANGED <<strategy, pc, token, redis, cache, recorded, granted, under, used, refused, faults>>

\* A process dies with its calls and its cache.
Crash(p) ==
    /\ Fault("crash")
    /\ pc' = [c \in Callers |-> IF Home[c] = p THEN "idle" ELSE pc[c]]
    /\ token' = [c \in Callers |-> IF Home[c] = p THEN NoToken ELSE token[c]]
    /\ granted' = [c \in Callers |-> IF Home[c] = p THEN 0 ELSE granted[c]]
    /\ cache' = [cache EXCEPT ![p] = [t \in Tokens |-> 0]]
    /\ UNCHANGED <<strategy, redis, row, recorded, under, used, refused>>

Less(n) == IF n > 0 THEN n - 1 ELSE 0

Tick ==
    /\ redis' = [t \in Tokens |-> Less(redis[t])]
    /\ cache' = [p \in Processes |-> [t \in Tokens |-> Less(cache[p][t])]]
    /\ granted' = [c \in Callers |-> Less(granted[c])]
    /\ under' = [t \in Tokens |-> Less(under[t])]
    /\ UNCHANGED <<strategy, pc, token, row, recorded, used, refused, faults>>

Step(c) ==
    \/ LookUp(c) \/ Reserve(c) \/ Duplicate(c) \/ Remember(c) \/ Insert(c) \/ Collide(c)

Next ==
    \/ \E c \in Callers : AddEvent(c) \/ Step(c) \/ ReserveFails(c) \/ InsertFails(c)
    \/ \E t \in Tokens : RemoveRow(t)
    \/ \E p \in Processes : Crash(p)
    \/ Tick

Spec == Init /\ [][Next]_vars

\* A call in flight goes on, and time passes.
FairSpec == Spec /\ (\A c \in Callers : WF_vars(Step(c))) /\ WF_vars(Tick)

-----------------------------------------------------------------------------
(* Properties. *)

\* Two calls that were both let through with one token do not both hold a live
\* reservation: processes with caches of their own share one "claim if absent".
ReservationExclusion ==
    \A c, d \in Callers :
        c # d /\ token[c] = token[d] /\ granted[c] > 0 => granted[d] = 0

\* A reservation covers one recording: when a token was recorded under one that is
\* still alive, no call with a live reservation records it again, also when its row
\* was collected or quarantined meanwhile and the unique index has forgotten it.
RecordedOncePerReservation ==
    [][\A c \in Callers :
        token[c] \in row' \ row /\ pc'[c] # pc[c] /\ granted[c] > 0 => under[token[c]] = 0]_vars

\* What a process caches was reserved: a hit never refuses a token that nobody
\* has used.  Together with the answers of Redis, a call is told DuplicateEvent
\* only if its token was used by an earlier call.
RefusedWasUsed ==
    /\ refused \subseteq used
    /\ \A p \in Processes, t \in Tokens : cache[p][t] > 0 => t \in used

\* What both rest on: a call that is past AddEvent with a token has a real one
\* until it returns, only a call in flight has a reservation, and a reservation
\* that was granted lasts as long as the key in Redis.
GrantInv ==
    /\ \A c \in Callers : pc[c] \in {"cache", "reserve", "remember"} => token[c] \in Tokens
    /\ \A c \in Callers : granted[c] > 0 =>
        token[c] \in Tokens /\ pc[c] \in {"remember", "insert"} /\ redis[token[c]] = granted[c]
    /\ \A c \in Callers : pc[c] = "remember" => token[c] \in used
    /\ \A t \in Tokens : redis[t] > 0 => t \in used

\* A reservation that a token was recorded under lasts as long as the key, too,
\* and is spent: no call has another one.
UnderInv ==
    \A t \in Tokens : under[t] > 0 =>
        redis[t] = under[t] /\ \A c \in Callers : token[c] = t => granted[c] = 0

Inv == TypeOK /\ GrantInv /\ UnderInv

\* The token that a call may proceed with, while its reservation lasts.
Held == [c \in Callers |-> IF granted[c] > 0 THEN token[c] ELSE NoToken]

Promise == INSTANCE Reservation WITH life <- redis, holds <- Held, known <- used

\* Redis, the caches and the calls implement the reservation of a token as
\* Reservation promises it: one holder at a time, no prolonged life, no second grant
\* before the first has run out, no refusal without a use, whatever fails or crashes.
KeepsReservation == Promise!Spec

\* However often clients retry, a reservation lapses: a token is not blocked for
\* ever by a call that failed after it was reserved.
ReservationsLapse == \A t \in Tokens : redis[t] > 0 ~> redis[t] = 0

\* When the reservation backend is unreachable, the event is not turned away
\* but left to the unique index.
FailOpen ==
    [][\A c \in Callers :
        pc[c] = "reserve" /\ pc'[c] = "idle" => redis[token[c]] > 0]_vars

\* A call that failed in the database can be retried: DuplicateEvent is told
\* only to a client whose event was recorded, or is being recorded.
RefusedMeansRecorded ==
    \A t \in refused : t \in recorded \/ \E c \in Callers : token[c] = t
=============================================================================
