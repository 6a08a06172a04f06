---------------------------- MODULE OutboxTable ----------------------------
(***************************************************************************)
(* The Postgres tables `outbox_events` and `outbox_dead_letters`, and the  *)
(* SQL statements of outbox-postgres.  One statement is one atomic step.   *)
(*                                                                         *)
(* Times are relative to NOW(): lock[e] is `locked_until - NOW()` and      *)
(* age[e] is `NOW() - created_at`, in ticks of one clock.                  *)
(***************************************************************************)
EXTENDS OutboxConfig

VARIABLES
    status,  \* "New": not inserted yet; "Gone": the row was deleted
    lock,
    age,
    dead     \* failure_count of the dead letter, 0 when there is none

tableVars == <<status, lock, age, dead>>

Statuses == {"New", "Pending", "Processing", "Sent", "Gone"}

\* The rows of outbox_events.
InTable == {e \in Events : status[e] \in {"Pending", "Processing", "Sent"}}

\* A lease that ran out longer ago than Horizon is only known to be that old;
\* Event::new writes the Unix epoch, which is before all of them.
OldestLock == -(Horizon + 1)
Epoch == OldestLock - 1
TooOld == Retention + 1

TableTypeOK ==
    /\ status \in [Events -> Statuses]
    /\ lock \in [Events -> Epoch..LockTimeout]
    /\ age \in [Events -> 0..TooOld]
    /\ dead \in [Events -> Nat]

TableInit ==
    /\ status = [e \in Events |-> "New"]
    /\ lock = [e \in Events |-> Epoch]
    /\ age = [e \in Events |-> 0]
    /\ dead = [e \in Events |-> 0]

\* `INSERT INTO outbox_events`, committed with the producer's transaction.
InsertEvent(e) ==
    /\ status[e] = "New"
    /\ status' = [status EXCEPT ![e] = "Pending"]
    /\ UNCHANGED <<lock, age, dead>>

\* Mutant: `locked_until <= NOW()`.
ClaimableAtExpiry ==
    {e \in Events : status[e] = "Pending" \/ (status[e] = "Processing" /\ lock[e] <= 0)}

\* Mutant: rows in Processing are never taken over.
ClaimableOnce == {e \in Events : status[e] = "Pending"}

\* The WHERE clause of the claim: `locked_until < NOW()` is strict.
Claimable ==
    {e \in Events : \/ status[e] = "Pending"
                    \/ status[e] = "Processing" /\ lock[e] < 0}

\* ORDER BY locked_until ASC LIMIT: ties come in any order.
Oldest(rows) ==
    {S \in SUBSET rows :
        /\ Cardinality(S) <= BatchSize
        /\ Cardinality(S) < BatchSize => S = rows
        /\ \A e \in S, f \in rows \ S : lock[e] <= lock[f]}

\* Mutant: a lease that is one tick too long.
ClaimForLonger(S) ==
    /\ status' = [e \in Events |-> IF e \in S THEN "Processing" ELSE status[e]]
    /\ lock' = [e \in Events |-> IF e \in S THEN LockTimeout + 1 ELSE lock[e]]
    /\ UNCHANGED <<age, dead>>

\* The UPDATE ... RETURNING of a claim, for the rows S its subquery selected.
Claim(S) ==
    /\ status' = [e \in Events |-> IF e \in S THEN "Processing" ELSE status[e]]
    /\ lock' = [e \in Events |-> IF e \in S THEN LockTimeout ELSE lock[e]]
    /\ UNCHANGED <<age, dead>>

\* update_status(ids, Sent): by id alone, whatever the row's status and lease.
UpdateStatus(ids) ==
    /\ status' = [e \in Events |-> IF e \in ids \cap InTable THEN "Sent" ELSE status[e]]
    /\ UNCHANGED <<lock, age, dead>>

\* Mutant: the status is not looked at.
OldRows == {e \in InTable : age[e] > Retention}

Garbage == {e \in Events : status[e] = "Sent" /\ age[e] > Retention}

\* delete_garbage: at most GcLimit rows, in no particular order.
DeleteGarbage ==
    \E S \in SUBSET Garbage :
        /\ Cardinality(S) <= GcLimit
        /\ Cardinality(S) < GcLimit => S = Garbage
        /\ status' = [e \in Events |-> IF e \in S THEN "Gone" ELSE status[e]]
        /\ UNCHANGED <<lock, age, dead>>

\* Mutant: the rows are copied, and stay.
CopyToDeadLetters(entries) ==
    /\ dead' = [e \in Events |-> IF e \in InTable /\ entries[e] > 0 THEN entries[e] ELSE dead[e]]
    /\ UNCHANGED <<status, lock, age>>

\* Mutant: the rows are deleted, and the dead letters are not inserted.
DropPoison(entries) ==
    /\ status' = [e \in Events |-> IF e \in InTable /\ entries[e] > 0 THEN "Gone" ELSE status[e]]
    /\ UNCHANGED <<lock, age, dead>>

\* quarantine_events: entries[e] is the failure count handed over for e, 0 when
\* e is not among the entries.  DELETE ... RETURNING joined into the INSERT.
QuarantineEvents(entries) ==
    LET moved == {e \in InTable : entries[e] > 0}
    IN  /\ status' = [e \in Events |-> IF e \in moved THEN "Gone" ELSE status[e]]
        /\ dead' = [e \in Events |-> IF e \in moved THEN entries[e] ELSE dead[e]]
        /\ UNCHANGED <<lock, age>>

\* A tick of the database clock.
PassTime ==
    /\ lock' = [e \in Events |-> IF lock[e] > OldestLock THEN lock[e] - 1 ELSE lock[e]]
    /\ age' = [e \in Events |-> IF e \in InTable /\ age[e] < TooOld
                                THEN age[e] + 1 ELSE age[e]]
    /\ UNCHANGED <<status, dead>>
=============================================================================
