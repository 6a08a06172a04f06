------------------------------- MODULE Inflow -------------------------------
(***************************************************************************)
(* OutboxProcessing under producers that never stop writing.  The ids of   *)
(* the model are finite: one that nothing refers to any more is given out  *)
(* again, for another event; the bound on failures is one on all the       *)
(* events of an id.                                                        *)
(***************************************************************************)
EXTENDS OutboxProcessing

\* Nothing is left of the event that had this id.
Forgotten(e) ==
    /\ status[e] = "Gone"
    /\ heap[e] = 0
    /\ \A w \in Workers : e \notin Held(w) /\ drained[w][e] = 0

\* A new event: Event::new writes the Unix epoch into locked_until.
InsertAnother(e) ==
    /\ Forgotten(e)
    /\ status' = [status EXCEPT ![e] = "Pending"]
    /\ lock' = [lock EXCEPT ![e] = Epoch]
    /\ age' = [age EXCEPT ![e] = 0]
    /\ dead' = [dead EXCEPT ![e] = 0]
    /\ delivered' = delivered \ {e}
    /\ UNCHANGED <<heap, workerVars, drained, failed, faults>>

INext == Next \/ \E e \in Events : InsertAnother(e)

\* The processes are scheduled as in OutboxProcessing; nothing makes producers write.
IFairSpec == Init /\ [][INext]_vars /\ Fairness

-----------------------------------------------------------------------------
\* Every event saved in the outbox is published in the end, or quarantined,
\* however many others are saved after it: a failed one is taken up again when
\* its lease has run out, also while new rows keep coming.
EventuallyPublished ==
    \A e \in Events : status[e] = "Pending" ~> e \in delivered \/ dead[e] > 0
=============================================================================
