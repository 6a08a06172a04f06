----------------------------- MODULE Redelivery -----------------------------
(***************************************************************************)
(* Why an event is delivered twice.  At-least-once delivery has copies;    *)
(* this module adds to OutboxProcessing a record of what went wrong with   *)
(* each event, so that copies without a cause can be told apart: those     *)
(* that a claim, a late update or another process would make by itself.    *)
(***************************************************************************)
EXTENDS OutboxProcessing

VARIABLE doubtful   \* ghost: events that something went wrong with

rvars == <<vars, doubtful>>

\* publish returned an error for e, which the broker may have taken all the same.
PublishDoubt(w, e) ==
    /\ PublishErr(w)
    /\ e \in todo[w] /\ e \notin todo'[w]

\* A fault, or a return, took e out of the hands of w after the broker had accepted it.
UnmarkedDoubt(w, e) ==
    /\ faults' # faults \/ Leave(w)
    /\ e \in successes[w] /\ e \notin successes'[w]

\* The lease of w ran out with e in hand.
LateDoubt(w, e) ==
    /\ lease[w] >= 0 /\ lease'[w] < 0
    /\ e \in Held(w) /\ e \in Held(w)'

Doubt ==
    doubtful' = doubtful \cup
        {e \in Events : \E w \in Workers :
            PublishDoubt(w, e) \/ UnmarkedDoubt(w, e) \/ LateDoubt(w, e)}

RInit == Init /\ doubtful = {}

RNext == Next /\ Doubt

RSpec == RInit /\ [][RNext]_rvars

-----------------------------------------------------------------------------
\* The broker acknowledges an event that it already had only if an earlier
\* publish of it returned an error, a fault or a return came between its publish and
\* its mark, or a lease ran out on it: with two or more processes claiming,
\* publishing, marking, collecting and quarantining, nothing else makes a copy.
CopiesHaveACause ==
    [][\A w \in Workers : \A e \in successes'[w] \ successes[w] :
        e \in delivered => e \in doubtful]_rvars

\* What it rests on, for an event nothing went wrong with: nobody has counted a
\* failure of it, who holds it has a live lease on a row in Processing, and when
\* the broker has it, it was marked or is about to be.
CopyInv ==
    \A e \in Events \ doubtful :
        /\ heap[e] = 0 /\ \A w \in Workers : drained[w][e] = 0
        /\ \A w \in Workers : e \in Held(w) => lease[w] >= 0 /\ status[e] = "Processing"
        /\ \A w \in Workers : e \in counting[w] => e \in successes[w]
        /\ \A w \in Workers : e \in todo[w] => e \notin delivered
        /\ e \in delivered => status[e] \in {"Sent", "Gone"} \/ \E w \in Workers : e \in successes[w]
=============================================================================
