---------------------------- MODULE Reservation ----------------------------
(***************************************************************************)
(* What the reservation of a token promises to the callers of add_event,   *)
(* with no Redis, cache, row or process in sight: a reservation has one    *)
(* holder, lasts a fixed time that nothing prolongs, is spent when its     *)
(* holder is done, whatever came of the call, and is not granted again     *)
(* before it has run out.  Who is refused named a token that was used.     *)
(***************************************************************************)
EXTENDS Naturals

CONSTANTS
    Tokens,     \* what can be reserved
    Callers,    \* who may hold a reservation
    NoToken,    \* what a caller without a reservation holds
    Ttl         \* how long a reservation lasts, in ticks

VARIABLES
    life,       \* life[t]: what is left of the reservation of t
    holds,      \* holds[c]: the token that c may proceed with
    known,      \* the tokens that were ever reserved or recorded
    refused     \* the tokens that callers were refused

vars == <<life, holds, known, refused>>

Init ==
    /\ life = [t \in Tokens |-> 0]
    /\ holds = [c \in Callers |-> NoToken]
    /\ known = {}
    /\ refused = {}

\* The reservation of t is over and nobody proceeds with it.
Free(t) == life[t] = 0 /\ \A c \in Callers : holds[c] # t

Grant(c, t) ==
    /\ Free(t)
    /\ holds[c] = NoToken
    /\ life' = [life EXCEPT ![t] = Ttl]
    /\ holds' = [holds EXCEPT ![c] = t]
    /\ known' = known \cup {t}
    /\ UNCHANGED refused

\* A reservation whose holder never learns of it.
Orphan(t) ==
    /\ Free(t)
    /\ life' = [life EXCEPT ![t] = Ttl]
    /\ known' = known \cup {t}
    /\ UNCHANGED <<holds, refused>>

\* Callers are done, successful or not; what was reserved stays reserved.  A
\* recording without a reservation makes a token known, too.
Finish(done, recorded) ==
    /\ holds' = [c \in Callers |-> IF c \in done THEN NoToken ELSE holds[c]]
    /\ known' = known \cup recorded
    /\ UNCHANGED <<life, refused>>

Refuse(t) ==
    /\ t \in known
    /\ refused' = refused \cup {t}
    /\ UNCHANGED <<life, holds, known>>

\* Time passes; who has held a reservation to its end holds it no longer.
Lapse ==
    /\ life' = [t \in Tokens |-> IF life[t] > 0 THEN life[t] - 1 ELSE 0]
    /\ holds' = [c \in Callers |->
                    IF holds[c] \in Tokens /\ life[holds[c]] > 1 THEN holds[c] ELSE NoToken]
    /\ UNCHANGED <<known, refused>>

Next ==
    \/ \E t \in Tokens :
        Orphan(t) \/ Refuse(t) \/ \E c \in Callers : Grant(c, t)
    \/ \E done \in SUBSET Callers, recorded \in SUBSET Tokens : Finish(done, recorded)
    \/ Lapse

Spec == Init /\ [][Next]_vars
=============================================================================
