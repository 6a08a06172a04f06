---------------------------- MODULE AtLeastOnce ----------------------------
(***************************************************************************)
(* What the outbox promises its producers, with no table, lease, worker or *)
(* counter in sight: an event that was recorded stays in the outbox until  *)
(* the broker has it or it is put aside as a dead letter.  Delivery may be *)
(* repeated, and may still happen after the event has left the outbox.     *)
(***************************************************************************)
CONSTANT Events

VARIABLES
    place,      \* where each event is
    delivered   \* the events the broker has accepted at least once

Places == {"nowhere", "outbox", "deadLetters", "forgotten"}

TypeOK ==
    /\ place \in [Events -> Places]
    /\ delivered \in SUBSET Events

Init ==
    /\ place = [e \in Events |-> "nowhere"]
    /\ delivered = {}

\* The producer's transaction commits.
Record(e) ==
    /\ place[e] = "nowhere"
    /\ place' = [place EXCEPT ![e] = "outbox"]
    /\ UNCHANGED delivered

\* The broker accepts an event, for the first time or once more.
Deliver(e) ==
    /\ place[e] # "nowhere"
    /\ delivered' = delivered \cup {e}
    /\ UNCHANGED place

\* Events leave the outbox together, all to the same place.
Move(S, to) ==
    /\ \A e \in S : place[e] = "outbox"
    /\ place' = [e \in Events |-> IF e \in S THEN to ELSE place[e]]
    /\ UNCHANGED delivered

Bury(S) == Move(S, "deadLetters")

Forget(S) == S \subseteq delivered /\ Move(S, "forgotten")

Next ==
    \/ \E e \in Events : Record(e) \/ Deliver(e)
    \/ \E S \in SUBSET Events : Bury(S) \/ Forget(S)

Spec == Init /\ [][Next]_<<place, delivered>>
=============================================================================
