--------------------------- MODULE WorkspaceOutbox ---------------------------
(***************************************************************************)
(* How one session of the sales agent shows in the workspace: the recorder *)
(* appends what happened to an outbox, and workers of several processes    *)
(* send it on, one at a time and in order, as upserts of the session's     *)
(* context, its tasks and its notes.  Requests fail, are refused, arrive   *)
(* although nobody waits for them any more, and workers die.               *)
(* Sources: sales-agent-engine db/repositories/outbox.py,                  *)
(* engine/workspace_record.py and platform/workspace_client.py.            *)
(***************************************************************************)
EXTENDS Naturals, Sequences, FiniteSetsExt

CONSTANTS
    Worker,         \* the sync workers
    MaxAttempts,    \* attempts to deliver a record
    MaxNotFound,    \* attempts when the record's context is not there
    Batch,          \* records a worker reads at once
    MaxRecords,     \* bound: records of the session
    MaxFailures      \* bound: failed requests and enqueues, and crashes

VARIABLES
    outbox,     \* the records, in the order of seq
    written,    \* how often the run has recorded each target
    mirror,     \* what the workspace service shows of each target, 0 for nothing
    holder,     \* who holds the session's advisory lock
    work,       \* what each worker has read and is about to do
    adrift,     \* requests that may still arrive, with nobody waiting for them
    strayed,    \* targets that had such a request
    failures    \* failed requests and enqueues, and crashes

vars == <<outbox, written, mirror, holder, work, adrift, strayed, failures>>

Target == {"context", "task", "note"}
Nobody == "nobody"

-----------------------------------------------------------------------------
(* The recorder *)

Record(t, n) == [target |-> t, value |-> n, status |-> "PENDING", attempts |-> 0, due |-> TRUE]
Pending(i) == outbox[i].status = "PENDING"

\* session_updated, action_awaiting_approval, action_finished with its note, answer_recorded.
Batches == {<<"context">>, <<"task">>, <<"task", "note">>, <<"note">>}

\* A run records its session first. Batches become visible whole, and in the order of seq: the
\* one run that holds the session's lease awaits each before the next (runner.py, _drive), and a
\* write is alone in its batch (orchestrator.py, _next_batch). A failing enqueue is logged and
\* forgotten.
Enqueue ==
    /\ \E b \in Batches :
        /\ Len(outbox) + Len(b) <= MaxRecords
        /\ written["context"] = 0 => b = <<"context">>
        /\ written' = [t \in Target |-> written[t] + IF \E i \in DOMAIN b : b[i] = t THEN 1 ELSE 0]
        /\ \/ /\ outbox' = outbox \o [i \in DOMAIN b |-> Record(b[i], written'[b[i]])]
              /\ UNCHANGED failures
           \/ /\ failures < MaxFailures /\ failures' = failures + 1
              /\ UNCHANGED outbox
    /\ UNCHANGED <<mirror, holder, work, adrift, strayed>>

-----------------------------------------------------------------------------
(* A worker *)

\* items are the records that were read and are still to be done, in the order of seq; late
\* says that the lock's connection is gone.
Idle == [pc |-> "idle", items |-> {}, late |-> FALSE, outcome |-> "none"]

Unsettled == {i \in DOMAIN outbox : Pending(i)}
Heads == {i \in Unsettled : Cardinality({k \in Unsettled : k < i}) < Batch}

\* Mutant: sessions are not locked.
AnyoneMay(w) == TRUE
MayLock(w) == holder = Nobody

\* due_sessions and the start of deliver_session. The session is due when its first record is.
Locks(w) ==
    /\ work[w] = Idle
    /\ Unsettled # {} /\ outbox[Min(Unsettled)].due
    /\ MayLock(w)
    /\ holder' = w
    /\ work' = [work EXCEPT ![w] = [Idle EXCEPT !.pc = "going", !.items = Heads]]
    /\ UNCHANGED <<outbox, written, mirror, adrift, strayed, failures>>

Item(w) == Min(work[w].items)
Rest(w) == work[w].items \ {Item(w)}
Unlocks(w) ==
    /\ work' = [work EXCEPT ![w] = Idle]
    /\ holder' = IF holder = w THEN Nobody ELSE holder
Goes(w) == work' = [work EXCEPT ![w].pc = "going", ![w].items = Rest(w), ![w].outcome = "none"] /\ UNCHANGED holder

\* At the end, or at a record that waits out its backoff, the session is let go.
Stops(w) ==
    /\ work[w].pc = "going"
    /\ work[w].items # {} => ~outbox[Item(w)].due
    /\ Unlocks(w)
    /\ UNCHANGED <<outbox, written, mirror, adrift, strayed, failures>>

\* Mutant: any later record of the target stands for this one.
AnyLater(w) == \E k \in Rest(w) : outbox[k].target = outbox[Item(w)].target
NextIsSame(w) == Rest(w) # {} /\ outbox[Min(Rest(w))].target = outbox[Item(w)].target

\* The very next record is of the same target: this one is skipped.
Skips(w) ==
    /\ work[w].pc = "going" /\ work[w].items # {} /\ outbox[Item(w)].due
    /\ NextIsSame(w)
    /\ outbox' = [outbox EXCEPT ![Item(w)].status = "DELIVERED"]
    /\ Goes(w)
    /\ UNCHANGED <<written, mirror, adrift, strayed, failures>>

Sends(w) ==
    /\ work[w].pc = "going" /\ work[w].items # {} /\ outbox[Item(w)].due
    /\ ~NextIsSame(w)
    /\ work' = [work EXCEPT ![w].pc = "sending"]
    /\ UNCHANGED <<outbox, written, mirror, holder, adrift, strayed, failures>>

Put(t, n) == mirror' = [mirror EXCEPT ![t] = n]
HasContext(t) == t = "context" \/ mirror["context"] > 0
Hears(w, outcome) == work' = [work EXCEPT ![w].pc = "heard", ![w].outcome = outcome]

\* The service takes the record, or does not know its context.
IsAnswered(w) ==
    /\ work[w].pc = "sending"
    /\ LET r == outbox[Item(w)] IN
       IF HasContext(r.target) THEN Put(r.target, r.value) /\ Hears(w, "DELIVERED")
       ELSE Hears(w, "NOT FOUND") /\ UNCHANGED mirror
    /\ UNCHANGED <<outbox, written, holder, adrift, strayed, failures>>

Fault == failures < MaxFailures /\ failures' = failures + 1

\* Refused, not served, or sent without an answer: then it is out of the worker's hands.
IsNotTaken(w) ==
    /\ work[w].pc = "sending"
    /\ Fault
    /\ \/ Hears(w, "REJECTED") /\ UNCHANGED <<adrift, strayed>>
       \/ Hears(w, "RETRY") /\ UNCHANGED <<adrift, strayed>>
       \/ /\ Hears(w, "RETRY")
          /\ adrift' = adrift \cup {[target |-> outbox[Item(w)].target, value |-> outbox[Item(w)].value]}
          /\ strayed' = strayed \cup {outbox[Item(w)].target}
    /\ UNCHANGED <<outbox, written, mirror, holder>>

ArrivesLate ==
    /\ \E q \in adrift :
        /\ HasContext(q.target)
        /\ Put(q.target, q.value)
        /\ adrift' = adrift \ {q}
    /\ UNCHANGED <<outbox, written, holder, work, strayed, failures>>

\* The outcome is committed. A record that is to be tried again stops the session.
Settles(w) ==
    /\ work[w].pc = "heard" /\ ~work[w].late
    /\ LET r == outbox[Item(w)]
           limit == IF work[w].outcome = "NOT FOUND" THEN MaxNotFound ELSE MaxAttempts
       IN  IF work[w].outcome = "DELIVERED" THEN outbox' = [outbox EXCEPT ![Item(w)].status = "DELIVERED"] /\ Goes(w)
           ELSE IF work[w].outcome = "REJECTED" \/ r.attempts + 1 >= limit
           THEN outbox' = [outbox EXCEPT ![Item(w)].status = "FAILED", ![Item(w)].attempts = @ + 1] /\ Goes(w)
           ELSE outbox' = [outbox EXCEPT ![Item(w)].attempts = @ + 1, ![Item(w)].due = FALSE] /\ Unlocks(w)
    /\ UNCHANGED <<written, mirror, adrift, strayed, failures>>

\* The connection that holds the lock breaks while the worker waits for its answer.
LosesLock(w) ==
    /\ work[w].pc \in {"sending", "heard"} /\ ~work[w].late
    /\ Fault
    /\ holder' = IF holder = w THEN Nobody ELSE holder
    /\ work' = [work EXCEPT ![w].late = TRUE]
    /\ strayed' = strayed \cup {outbox[Item(w)].target}
    /\ UNCHANGED <<outbox, written, mirror, adrift>>

\* Nothing can be committed then: the pass ends with an error.
GivesUp(w) ==
    /\ work[w].pc = "heard" /\ work[w].late
    /\ work' = [work EXCEPT ![w] = Idle]
    /\ UNCHANGED <<outbox, written, mirror, holder, adrift, strayed, failures>>

\* The worker's process ends, and with it its lock. A request on its way may still arrive.
Dies(w) ==
    /\ work[w] # Idle
    /\ Fault
    /\ Unlocks(w)
    /\ IF work[w].pc = "sending"
       THEN /\ adrift' \in {adrift, adrift \cup {[target |-> outbox[Item(w)].target, value |-> outbox[Item(w)].value]}}
            /\ strayed' = strayed \cup {outbox[Item(w)].target}
       ELSE UNCHANGED <<adrift, strayed>>
    /\ UNCHANGED <<outbox, written, mirror>>

BackoffEnds ==
    /\ \E i \in DOMAIN outbox : Pending(i) /\ ~outbox[i].due /\ outbox' = [outbox EXCEPT ![i].due = TRUE]
    /\ UNCHANGED <<written, mirror, holder, work, adrift, strayed, failures>>

-----------------------------------------------------------------------------
(* Specification *)

Init ==
    /\ outbox = <<>>
    /\ written = [t \in Target |-> 0]
    /\ mirror = [t \in Target |-> 0]
    /\ holder = Nobody
    /\ work = [w \in Worker |-> Idle]
    /\ adrift = {} /\ strayed = {}
    /\ failures = 0

Goon(w) == Stops(w) \/ Skips(w) \/ Sends(w) \/ IsAnswered(w) \/ Settles(w) \/ GivesUp(w)

Next ==
    \/ Enqueue \/ ArrivesLate \/ BackoffEnds
    \/ \E w \in Worker : Locks(w) \/ Goon(w) \/ IsNotTaken(w) \/ LosesLock(w) \/ Dies(w)

Spec == Init /\ [][Next]_vars

-----------------------------------------------------------------------------
(* Properties *)

OutboxTyped ==
    /\ \A i \in DOMAIN outbox : outbox[i].target \in Target /\ outbox[i].status \in {"PENDING", "DELIVERED", "FAILED"}
                                /\ outbox[i].attempts \in 0 .. MaxAttempts + MaxNotFound
    /\ holder \in Worker \cup {Nobody}
    /\ \A w \in Worker : work[w].pc \in {"idle", "going", "sending", "heard"}

(* What is marked delivered is in the workspace, or a later record of its  *)
(* target that stands for it is. A record that stands for others and is    *)
(* refused takes them with it, and a request that outlived its worker may  *)
(* bring back an older state: both are excepted.                           *)
DeliveredIsShown ==
    \A i \in DOMAIN outbox :
        outbox[i].status = "DELIVERED" /\ outbox[i].target \notin strayed =>
            \/ mirror[outbox[i].target] >= outbox[i].value
            \/ i < Len(outbox) /\ outbox[i + 1].target = outbox[i].target

(* What the workspace shows of a session only moves forward, whichever     *)
(* workers take turns with its records, repeat them or leave them out.     *)
MirrorGoesForward == \A t \in Target : t \in strayed \/ mirror'[t] >= mirror[t]
=============================================================================
