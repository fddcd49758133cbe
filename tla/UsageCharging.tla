--------------------------- MODULE UsageCharging ---------------------------
(***************************************************************************)
(* Reporting usage to billing-service: the clients of sales-agent-engine   *)
(* and data-pipeline post each charge once the work is done, queue in the  *)
(* shared Redis list what billing could not take, and each service's       *)
(* retrier sends the other's entries again.                                *)
(*                                                                         *)
(* A post nobody answered in time may still be processed, at any later     *)
(* moment.  Billing is what CreditLedger is shown to be: an idempotency    *)
(* key is charged once.  A service may be killed at any step, and any      *)
(* command may fail at Redis, before or after Redis has carried it out.    *)
(* Entries nobody can read are left out: no client writes one.             *)
(***************************************************************************)
EXTENDS Naturals, Sequences, SequencesExt

CONSTANTS
    Charges,        \* operations whose usage is reported
    Malformed,      \* the charges billing answers with 400 or 422
    Drainers,       \* the retriers that share the list
    PendingMax,     \* BILLING_PENDING_MAX
    MaxAttempts     \* BILLING_RETRY_MAX_ATTEMPTS

ASSUME MalformedAssumption == Malformed \subseteq Charges
ASSUME PendingMaxAssumption == PendingMax \in Nat \ {0}
ASSUME MaxAttemptsAssumption == MaxAttempts \in Nat \ {0}

VARIABLES
    step,       \* per charge: where charge() is
    pending,    \* billing:pending_usage, its head first
    phase,      \* per drainer: where drain_pending is
    hand,       \* per drainer: the entry it took and is sending
    requeue,    \* per drainer: the entries it will put back
    late,       \* reports whose sender gave up waiting
    keys,       \* billing: the idempotency keys it has charged
    lines,      \* billing: USAGE lines per charge
    gone        \* charges refused, given up or lost: one copy of their report ended there

services == <<step, phase, hand, requeue>>
billing == <<keys, lines>>
chargeVars == <<services, pending, late, billing, gone>>

Steps == {"new", "sending", "measuring", "pushing", "done"}

(* The body is the charge and the key it is reported under: the key chosen *)
(* for it, number 0.  An entry that has had its MaxAttempts is not kept,   *)
(* but a first one always is.                                              *)
Body == [charge : Charges, key : Nat]
BodyOf(c) == [charge |-> c, key |-> 0]
Attempts == {n \in 1 .. MaxAttempts : n = 1 \/ n < MaxAttempts}
Entry == [body : Body, attempts : Attempts]
NoEntry == [body |-> [charge |-> "none", key |-> 0], attempts |-> 0]

ChargeTypes ==
    /\ step \in [Charges -> Steps]
    /\ pending \in Seq(Entry)
    /\ phase \in [Drainers -> {"idle", "draining", "returning"}]
    /\ hand \in [Drainers -> Entry \cup {NoEntry}]
    /\ requeue \in [Drainers -> Seq(Entry)]
    /\ late \subseteq Body
    /\ keys \subseteq Body
    /\ lines \in [Charges -> Nat]
    /\ gone \subseteq Charges

ChargeInit ==
    /\ step = [c \in Charges |-> "new"]
    /\ pending = <<>>
    /\ phase = [d \in Drainers |-> "idle"]
    /\ hand = [d \in Drainers |-> NoEntry]
    /\ requeue = [d \in Drainers |-> <<>>]
    /\ late = {}
    /\ keys = {}
    /\ lines = [c \in Charges |-> 0]
    /\ gone = {}

-----------------------------------------------------------------------------
(* billing-service's /usage. *)
Record(b) ==
    /\ keys' = keys \cup {b}
    /\ lines' = [lines EXCEPT ![b.charge] = IF b \in keys THEN @ ELSE @ + 1]

(* _deliver / _post_usage: the answer, or none.                            *)
Accepted(b) == b.charge \notin Malformed /\ Record(b) /\ UNCHANGED late
RefusedReport(b) == b.charge \in Malformed /\ UNCHANGED <<billing, late>>
Busy(b) == UNCHANGED <<billing, late>>
Unanswered(b) == late' = late \cup {b} /\ UNCHANGED billing

BillLate ==
    \E b \in late :
        /\ b.charge \notin Malformed
        /\ Record(b)
        /\ UNCHANGED <<services, pending, late, gone>>

Forget(c) == gone' = gone \cup {c}

-----------------------------------------------------------------------------
(* charge: the post, and _queue when billing could not take it.            *)
Goto(c, s) == step' = [step EXCEPT ![c] = s]

Report(c) ==
    /\ step[c] = "new"
    /\ Goto(c, "sending")
    /\ UNCHANGED <<pending, phase, hand, requeue, late, billing, gone>>

ChargeSettled(c) ==
    /\ step[c] = "sending"
    /\ \/ Accepted(BodyOf(c)) /\ UNCHANGED gone
       \/ RefusedReport(BodyOf(c)) /\ Forget(c)
    /\ Goto(c, "done")
    /\ UNCHANGED <<pending, phase, hand, requeue>>

(* Billing is busy, answers too late or not at all, or the service is      *)
(* shutting down (CancelledError).                                         *)
ChargeUnsettled(c) ==
    /\ step[c] = "sending"
    /\ Busy(BodyOf(c)) \/ Unanswered(BodyOf(c))
    /\ Goto(c, "measuring")
    /\ UNCHANGED <<pending, phase, hand, requeue, gone>>

Measure(c) ==
    /\ step[c] = "measuring"
    /\ IF Len(pending) >= PendingMax
       THEN Goto(c, "done") /\ Forget(c)
       ELSE Goto(c, "pushing") /\ UNCHANGED gone
    /\ UNCHANGED <<pending, phase, hand, requeue, late, billing>>

Pushed(c) == pending' = <<[body |-> BodyOf(c), attempts |-> 1]>> \o pending

Push(c) ==
    /\ step[c] = "pushing"
    /\ Pushed(c)
    /\ Goto(c, "done")
    /\ UNCHANGED <<phase, hand, requeue, late, billing, gone>>

QueueFails(c) ==
    /\ step[c] \in {"measuring", "pushing"}
    /\ \/ step[c] = "pushing" /\ Pushed(c)
       \/ UNCHANGED pending
    /\ Goto(c, "done")
    /\ Forget(c)
    /\ UNCHANGED <<phase, hand, requeue, late, billing>>

ChargeKilled(c) ==
    /\ step[c] \notin {"new", "done"}
    /\ IF step[c] = "sending" THEN Unanswered(BodyOf(c)) ELSE UNCHANGED <<billing, late>>
    /\ Goto(c, "done")
    /\ Forget(c)
    /\ UNCHANGED <<pending, phase, hand, requeue>>

-----------------------------------------------------------------------------
(* drain_pending: it takes entries off the tail, sends each, and puts back *)
(* what did not go through.                                                *)
Hold(d, e) == hand' = [hand EXCEPT ![d] = e]
Enter(d, p) == phase' = [phase EXCEPT ![d] = p]

Take(d) ==
    /\ phase[d] \in {"idle", "draining"}
    /\ hand[d] = NoEntry
    /\ pending # <<>>
    /\ Hold(d, Last(pending))
    /\ pending' = Front(pending)
    /\ Enter(d, "draining")
    /\ UNCHANGED <<step, requeue, late, billing, gone>>

(* RPOP was carried out and its answer lost: the pass ends.                *)
TakeFails(d) ==
    /\ phase[d] \in {"idle", "draining"}
    /\ hand[d] = NoEntry
    /\ pending # <<>>
    /\ pending' = Front(pending)
    /\ Forget(Last(pending).body.charge)
    /\ Enter(d, "returning")
    /\ UNCHANGED <<step, hand, requeue, late, billing>>

(* The list is empty, the pass has taken its 200, or RPOP failed.          *)
StopPass(d) ==
    /\ phase[d] = "draining"
    /\ hand[d] = NoEntry
    /\ Enter(d, "returning")
    /\ UNCHANGED <<step, pending, hand, requeue, late, billing, gone>>

Sent(d) ==
    /\ hand[d] # NoEntry
    /\ \/ Accepted(hand[d].body) /\ UNCHANGED gone
       \/ RefusedReport(hand[d].body) /\ Forget(hand[d].body.charge)
    /\ Hold(d, NoEntry)
    /\ UNCHANGED <<step, pending, phase, requeue>>

(* An entry sent in vain: under the same key, one attempt older.  The      *)
(* variants are a retrier that does not count and one that makes a new key.*)
Uncounted(e) == e
Rekeyed(e) == [e EXCEPT !.attempts = @ + 1, !.body.key = @ + 1]
Retried(e) == [e EXCEPT !.attempts = @ + 1]

OneTooMany(d) == Retried(hand[d]).attempts > MaxAttempts
OutOfAttempts(d) == Retried(hand[d]).attempts >= MaxAttempts

GiveUp(d) ==
    /\ hand[d] # NoEntry
    /\ Busy(hand[d].body) \/ Unanswered(hand[d].body)
    /\ OutOfAttempts(d)
    /\ Forget(hand[d].body.charge)
    /\ Hold(d, NoEntry)
    /\ UNCHANGED <<step, pending, phase, requeue>>

(* The entries to put back once e has been kept too, and a retrier that    *)
(* stops without keeping the entry that stopped it.                        *)
Unkept(d, e) == requeue
Kept(d, e) == [requeue EXCEPT ![d] = Append(@, e)]

(* Billing is there but busy: the pass goes on.                            *)
KeepForLater(d) ==
    /\ hand[d] # NoEntry
    /\ Busy(hand[d].body)
    /\ ~ OutOfAttempts(d)
    /\ requeue' = Kept(d, Retried(hand[d]))
    /\ Hold(d, NoEntry)
    /\ UNCHANGED <<step, pending, phase, gone>>

(* No answer: the pass ends here.                                          *)
Unreachable(d) ==
    /\ hand[d] # NoEntry
    /\ Unanswered(hand[d].body)
    /\ ~ OutOfAttempts(d)
    /\ requeue' = Kept(d, Retried(hand[d]))
    /\ Hold(d, NoEntry)
    /\ Enter(d, "returning")
    /\ UNCHANGED <<step, pending, gone>>

(* The service shuts down in the middle of a post: the attempt does not    *)
(* count.                                                                  *)
Cancel(d) ==
    /\ hand[d] # NoEntry
    /\ Unanswered(hand[d].body)
    /\ requeue' = Kept(d, hand[d])
    /\ Hold(d, NoEntry)
    /\ Enter(d, "returning")
    /\ UNCHANGED <<step, pending, gone>>

(* The finally block: the entries in reverse, each back to the tail.       *)
PutBack(d) ==
    /\ phase[d] = "returning"
    /\ requeue[d] # <<>>
    /\ pending' = Append(pending, Last(requeue[d]))
    /\ requeue' = [requeue EXCEPT ![d] = Front(@)]
    /\ UNCHANGED <<step, phase, hand, late, billing, gone>>

PutBackFails(d) ==
    /\ phase[d] = "returning"
    /\ requeue[d] # <<>>
    /\ pending' \in {pending, Append(pending, Last(requeue[d]))}
    /\ requeue' = [requeue EXCEPT ![d] = Front(@)]
    /\ Forget(Last(requeue[d]).body.charge)
    /\ UNCHANGED <<step, phase, hand, late, billing>>

EndPass(d) ==
    /\ phase[d] = "returning"
    /\ requeue[d] = <<>>
    /\ Enter(d, "idle")
    /\ UNCHANGED <<step, pending, hand, requeue, late, billing, gone>>

(* The service is killed: what the drainer holds exists nowhere else.      *)
Held(d) == {e.body.charge : e \in ToSet(requeue[d]) \cup ({hand[d]} \ {NoEntry})}

Kill(d) ==
    /\ phase[d] # "idle"
    /\ gone' = gone \cup Held(d)
    /\ IF hand[d] # NoEntry THEN Unanswered(hand[d].body) ELSE UNCHANGED <<billing, late>>
    /\ Hold(d, NoEntry)
    /\ requeue' = [requeue EXCEPT ![d] = <<>>]
    /\ Enter(d, "idle")
    /\ UNCHANGED <<step, pending>>

-----------------------------------------------------------------------------
Answer(d) == Sent(d) \/ GiveUp(d) \/ KeepForLater(d) \/ Unreachable(d)

ChargeNext ==
    \/ BillLate
    \/ \E c \in Charges :
          \/ Report(c) \/ ChargeSettled(c) \/ ChargeUnsettled(c)
          \/ Measure(c) \/ Push(c) \/ QueueFails(c) \/ ChargeKilled(c)
    \/ \E d \in Drainers :
          \/ Take(d) \/ TakeFails(d) \/ StopPass(d) \/ Answer(d) \/ Cancel(d)
          \/ PutBack(d) \/ PutBackFails(d) \/ EndPass(d) \/ Kill(d)

ChargeSpec == ChargeInit /\ [][ChargeNext]_chargeVars

(* Posts time out after three seconds, Redis answers or fails, and the     *)
(* retriers run every 30 seconds: a service is not shut down in the middle *)
(* of every post.  Billing may be out for ever.                            *)
FairChargeSpec ==
    /\ ChargeSpec
    /\ \A c \in Charges :
          WF_chargeVars(ChargeSettled(c) \/ ChargeUnsettled(c) \/ Measure(c) \/ Push(c))
    /\ \A d \in Drainers :
          /\ SF_chargeVars(Answer(d))
          /\ WF_chargeVars(Take(d) \/ StopPass(d) \/ PutBack(d) \/ EndPass(d))
    /\ SF_chargeVars(\E d \in Drainers : Take(d))

-----------------------------------------------------------------------------
(* However often a charge is reported, by whichever service, and however   *)
(* late an unanswered report is processed, it is charged at most once:     *)
(* every resend carries the key of the first.                              *)
ChargedOnce == \A c \in Charges : lines[c] <= 1

(* Once its caller is through with it, a charge has been charged, still    *)
(* waits in the list or in a drainer's hands, or is gone for a reason that *)
(* is logged with its body (refused, list full, Redis down, out of         *)
(* attempts), the exceptions being a kill and an RPOP whose answer is lost.*)
Waits(c) ==
    \/ c \in {e.body.charge : e \in ToSet(pending)}
    \/ \E d \in Drainers : c \in Held(d)

NoneForgotten ==
    \A c \in Charges :
        step[c] = "done" => lines[c] > 0 \/ c \in gone \/ Waits(c)

(* Every charge reported comes to an end, even if billing never answers    *)
(* again: the attempts of an entry run out.                                *)
Settles ==
    \A c \in Charges : step[c] = "sending" ~> lines[c] > 0 \/ c \in gone
=============================================================================
