---------------------------- MODULE ConnectionLock ----------------------------
(***************************************************************************)
(* The lock of one connector connection: the sub-document "lock" of its    *)
(* Mongo document, the same lock as a connection object carries it, and    *)
(* what saving and loading do to the moment its lease ends.                *)
(* Sources: distributed_lock.py, gmail_models.py, gmail_store.py.          *)
(***************************************************************************)
EXTENDS Naturals

CONSTANTS
    Job,        \* the runs of a connector's sync job, each with its own job id
    Nobody      \* no job

ASSUME NobodyIsNoJob == Nobody \notin Job

\* The end of a lease: a date to come, a date past, or a text or nothing, which Mongo
\* compares with no date.
Lease == {"date", "past", "undated"}
Lock == [by : Job \cup {Nobody}, lease : Lease]

NoLock == [by |-> Nobody, lease |-> "undated"]
Held(lock) == lock.by # Nobody
TakenBy(j) == [by |-> j, lease |-> "date"]

\* The filter of the compare-and-set; Mongo compares a date with dates only.
\* The variant takes everything that is not a date to come for expired.
LooselyGrantable(lock, j) == ~Held(lock) \/ lock.lease # "date" \/ lock.by = j
Grantable(lock, j) == ~Held(lock) \/ lock.lease = "past" \/ lock.by = j

\* Is the connection locked, as the database answers.
KnownLocked(lock) == Held(lock) /\ lock.lease = "date"

\* to_dict writes the end of the lease as a text, and from_dict reads only such a text.
Undated(lock) == [lock EXCEPT !.lease = "undated"]

\* release_lock with a job id frees only that job's lock; the variant frees none.
StillHeld(lock, j) == IF lock.by = j THEN Undated(lock) ELSE lock
FreedBy(lock, j) == IF lock.by = j THEN NoLock ELSE lock

\* A heartbeat of the holder dates the lease again.
Beaten(lock, j) == IF lock.by = j THEN [lock EXCEPT !.lease = "date"] ELSE lock

\* Nobody renews the lease and its end passes.
RunOut(lock) == [lock EXCEPT !.lease = IF @ = "date" THEN "past" ELSE @]

=============================================================================
