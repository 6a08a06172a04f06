------------------------ MODULE MCIdempotentProducer ------------------------
(* Instances of IdempotentProducer for TLC. *)
EXTENDS IdempotentProducer, TLC

CONSTANTS c1, c2, c3, p1, p2

\* Three calls: two in one process, which share its cache, and one elsewhere.
ThreeCallers == (c1 :> p1) @@ (c2 :> p1) @@ (c3 :> p2)
TwoCallers == (c1 :> p1) @@ (c2 :> p1)
=============================================================================
