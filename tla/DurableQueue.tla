---------------------------- MODULE DurableQueue ----------------------------
(***************************************************************************)
(* data-pipeline's staging queue for ingestion work: jobs wait in a Redis  *)
(* list, move to the in-flight list of the process that runs them, come    *)
(* back through a retry set after a failure, and end in a list of dead     *)
(* letters that an operator may replay.  A process that starts reclaims    *)
(* the in-flight lists of those that died (DurableQueue, QueueWorker).     *)
(*                                                                         *)
(* Processes crash at any step, and any Redis command may fail, before or  *)
(* after Redis has carried it out.  What a handler does to documents is    *)
(* left out: it succeeds, raises, or is cut off.  So are the mode without  *)
(* Redis, which keeps jobs in memory and promises nothing, the counters,   *)
(* and on_dead, which reports to the document registry.                    *)
(***************************************************************************)
EXTENDS Naturals, Sequences, SequencesExt

CONSTANTS
    Jobs,           \* units of ingestion work
    Consumers,      \* consumer ids: a process each, with one worker
    Tenants, Tenant,    \* workspaces; job -> the one it belongs to
    MaxAttempts,    \* INGEST_QUEUE_MAX_ATTEMPTS
    MaxFaults,      \* bound: crashes of processes, and commands that fail on a job
    NoConsumer, NoTenant

ASSUME TenantAssumption == Tenant \in [Jobs -> Tenants]
ASSUME MaxAttemptsAssumption == MaxAttempts \in Nat \ {0}
ASSUME MaxFaultsAssumption == MaxFaults \in Nat
ASSUME NullsAssumption == NoConsumer \notin Consumers /\ NoTenant \notin Tenants

VARIABLES
    pending, retry, dead, inflight,     \* the Redis lists and the retry set
    beating,                            \* consumers whose heartbeat key exists
    pc, hand,                           \* per process: its step, the entry it works on
    toScan, from,                       \* per process: lists left to inspect, list it empties
    replaying, popped, skipped,         \* replay_dead_letters: for whom, and what it holds
    accepted, done, lost, strayed, taken,   \* what became of the jobs
    faults

redis == <<pending, retry, dead, inflight, beating>>
starting == <<toScan, from>>
processes == <<pc, hand, starting>>
desk == <<replaying, popped, skipped>>
fate == <<accepted, done, lost, strayed, taken>>
vars == <<redis, processes, desk, fate, faults>>

Entry == [job : Jobs, attempts : 0 .. MaxAttempts]
NoEntry == [job |-> "none", attempts |-> 0]
Waiting == {e \in Entry : e.attempts < MaxAttempts}
Steps == {"down", "scanning", "reclaiming", "idle", "reserving", "due", "promoted",
          "working"}

TypeOK ==
    /\ pending \in Seq(Waiting)
    /\ retry \subseteq {e \in Waiting : e.attempts > 0}
    /\ dead \in Seq(Entry \ Waiting)
    /\ inflight \in [Consumers -> Seq(Waiting)]
    /\ beating \subseteq Consumers
    /\ pc \in [Consumers -> Steps]
    /\ hand \in [Consumers -> Waiting \cup {NoEntry}]
    /\ toScan \in [Consumers -> SUBSET Consumers]
    /\ from \in [Consumers -> Consumers \cup {NoConsumer}]
    /\ replaying \in Tenants \cup {NoTenant}
    /\ popped \in (Entry \ Waiting) \cup {NoEntry}
    /\ skipped \in Seq(Entry \ Waiting)
    /\ \A jobs \in {accepted, done, lost, strayed, taken} : jobs \subseteq Jobs
    /\ faults \in 0 .. MaxFaults

Init ==
    /\ pending = <<>> /\ retry = {} /\ dead = <<>>
    /\ inflight = [c \in Consumers |-> <<>>]
    /\ beating = {}
    /\ pc = [c \in Consumers |-> "down"]
    /\ hand = [c \in Consumers |-> NoEntry]
    /\ toScan = [c \in Consumers |-> {}]
    /\ from = [c \in Consumers |-> NoConsumer]
    /\ replaying = NoTenant /\ popped = NoEntry /\ skipped = <<>>
    /\ accepted = {} /\ done = {} /\ lost = {} /\ strayed = {} /\ taken = {}
    /\ faults = 0

-----------------------------------------------------------------------------
Goto(c, step) == pc' = [pc EXCEPT ![c] = step]
Hold(c, e) == hand' = [hand EXCEPT ![c] = e]
Push(e) == pending' = Cons(e, pending)
Fault == faults < MaxFaults /\ faults' = faults + 1

(* What became of a job: lost to Redis (only a process's memory still has  *)
(* it, if that), or strayed into the in-flight list of a living process    *)
(* that has stopped working on it.                                         *)
Lose(e) == lost' = lost \cup {e.job} /\ UNCHANGED <<accepted, done, strayed, taken>>
Stray(e) == strayed' = strayed \cup {e.job} /\ UNCHANGED <<accepted, done, lost, taken>>

(* enqueue: LPUSH.  When it fails the job stays in the memory of the       *)
(* process, where reserve does not look while it has a Redis client.       *)
Enqueue(j) ==
    LET e == [job |-> j, attempts |-> 0] IN
    /\ j \notin accepted
    /\ accepted' = accepted \cup {j}
    /\ \/ Push(e) /\ UNCHANGED <<lost, faults>>
       \/ (Push(e) \/ UNCHANGED pending) /\ lost' = lost \cup {j} /\ Fault
    /\ UNCHANGED <<retry, dead, inflight, beating, processes, desk, done, strayed, taken>>

-----------------------------------------------------------------------------
(* start: reclaim_stale inspects every in-flight list, the process's own   *)
(* included, and empties those without a heartbeat into pending.  An empty *)
(* list is no key, and the scan may skip it: inspecting it only adds       *)
(* interleavings.                                                          *)
Boot(c) ==
    /\ pc[c] = "down"
    /\ Goto(c, "scanning")
    /\ toScan' = [toScan EXCEPT ![c] = Consumers]
    /\ UNCHANGED <<redis, hand, from, desk, fate, faults>>

Beats(c, k) == k \in beating
StillAlive(c, k) == k # c /\ k \in beating

Inspect(c, k) ==
    /\ pc[c] = "scanning"
    /\ k \in toScan[c]
    /\ toScan' = [toScan EXCEPT ![c] = @ \ {k}]
    /\ IF StillAlive(c, k)
       THEN UNCHANGED <<pc, from>>
       ELSE Goto(c, "reclaiming") /\ from' = [from EXCEPT ![c] = k]
    /\ UNCHANGED <<redis, hand, desk, fate, faults>>

(* One RPOPLPUSH.  The heartbeat is not looked at again: the owner may     *)
(* have started meanwhile, and it may be alive but slower than its beat.   *)
(* Bound: this happens once to a job.                                      *)
WorksOn(k, e) == pc[k] = "working" /\ hand[k] = e

Reclaim(c) ==
    /\ pc[c] = "reclaiming"
    /\ inflight[from[c]] # <<>>
    /\ LET e == Last(inflight[from[c]]) IN
       /\ WorksOn(from[c], e) => e.job \notin taken
       /\ Push(e)
       /\ taken' = IF WorksOn(from[c], e) THEN taken \cup {e.job} ELSE taken
    /\ inflight' = [inflight EXCEPT ![from[c]] = Front(@)]
    /\ UNCHANGED <<retry, dead, beating, processes, desk, accepted, done, lost, strayed, faults>>

Reclaimed(c) ==
    /\ pc[c] = "reclaiming"
    /\ inflight[from[c]] = <<>>
    /\ Goto(c, "scanning")
    /\ from' = [from EXCEPT ![c] = NoConsumer]
    /\ UNCHANGED <<redis, hand, toScan, desk, fate, faults>>

(* All inspected; or Redis failed, and the rest is left where it is.       *)
Started(c) ==
    /\ pc[c] = "scanning"
    /\ toScan[c] = {}
    /\ Goto(c, "idle")
    /\ UNCHANGED <<redis, hand, starting, desk, fate, faults>>

ReclaimFails(c) ==
    /\ pc[c] \in {"scanning", "reclaiming"} /\ Fault
    /\ Goto(c, "idle")
    /\ toScan' = [toScan EXCEPT ![c] = {}]
    /\ from' = [from EXCEPT ![c] = NoConsumer]
    /\ strayed' = strayed \cup {e.job : e \in UNION {ToSet(inflight[k]) : k \in Consumers}}
    /\ UNCHANGED <<redis, hand, desk, accepted, done, lost, taken>>

-----------------------------------------------------------------------------
(* reserve: beat, promote_due_retries, BRPOPLPUSH.                         *)
Beat(c) ==
    /\ pc[c] = "idle"
    /\ Goto(c, "reserving")
    /\ beating' \in {beating, beating \cup {c}}
    /\ UNCHANGED <<pending, retry, dead, inflight, hand, starting, desk, fate, faults>>

(* A retry whose backoff has elapsed is read, removed and requeued; "only  *)
(* the mover requeues it", that is the process whose ZREM removed it.      *)
AnyoneMoves(e) == TRUE
Moves(e) == e \in retry

ReadDue(c) ==
    /\ pc[c] = "reserving"
    /\ \E e \in retry : Hold(c, e)
    /\ Goto(c, "due")
    /\ UNCHANGED <<redis, starting, desk, fate, faults>>

RemoveDue(c) ==
    /\ pc[c] = "due"
    /\ retry' = retry \ {hand[c]}
    /\ IF Moves(hand[c])
       THEN Goto(c, "promoted") /\ UNCHANGED hand
       ELSE Goto(c, "reserving") /\ Hold(c, NoEntry)
    /\ UNCHANGED <<pending, dead, inflight, beating, starting, desk, fate, faults>>

Requeue(c) ==
    /\ pc[c] = "promoted"
    /\ Push(hand[c])
    /\ Goto(c, "reserving")
    /\ Hold(c, NoEntry)
    /\ UNCHANGED <<retry, dead, inflight, beating, starting, desk, fate, faults>>

PromoteFails(c) ==
    /\ pc[c] \in {"due", "promoted"} /\ Fault
    /\ \/ pc[c] = "due" /\ UNCHANGED <<pending, retry, fate>>
       \/ /\ pc[c] = "due" /\ hand[c] \in retry
          /\ retry' = retry \ {hand[c]} /\ Lose(hand[c]) /\ UNCHANGED pending
       \/ /\ pc[c] = "promoted"
          /\ (Push(hand[c]) \/ UNCHANGED pending) /\ Lose(hand[c]) /\ UNCHANGED retry
    /\ Goto(c, "reserving")
    /\ Hold(c, NoEntry)
    /\ UNCHANGED <<dead, inflight, beating, starting, desk>>

(* BRPOPLPUSH keeps the job in Redis while it is worked on; a plain pop    *)
(* would not.                                                              *)
Popped(c, e) == inflight
Moved(c, e) == [inflight EXCEPT ![c] = Cons(e, @)]

Take(c) ==
    /\ pc[c] = "reserving"
    /\ pending # <<>>
    /\ pending' = Front(pending)
    /\ inflight' = Moved(c, Last(pending))
    /\ Hold(c, Last(pending))
    /\ Goto(c, "working")
    /\ UNCHANGED <<retry, dead, beating, starting, desk, fate, faults>>

(* Nothing waits, or Redis failed, perhaps after it moved a job.           *)
TakeNothing(c) ==
    /\ pc[c] = "reserving"
    /\ \/ UNCHANGED <<pending, inflight, fate, faults>>
       \/ /\ Fault /\ pending # <<>>
          /\ pending' = Front(pending)
          /\ inflight' = Moved(c, Last(pending))
          /\ Stray(Last(pending))
    /\ Goto(c, "idle")
    /\ UNCHANGED <<retry, dead, beating, hand, starting, desk>>

-----------------------------------------------------------------------------
(* The handler returns, and the job is acknowledged; or it raises, and the *)
(* job fails.                                                              *)
Finished(c) ==
    /\ pc[c] = "working"
    /\ Goto(c, "idle")
    /\ Hold(c, NoEntry)
    /\ UNCHANGED <<pending, beating, starting, desk, accepted, lost, taken>>

Removed(c) == [inflight EXCEPT ![c] = RemoveFirst(@, hand[c])]

Ack(c) ==
    /\ Finished(c)
    /\ done' = done \cup {hand[c].job}
    /\ \/ inflight' = Removed(c) /\ UNCHANGED <<strayed, faults>>
       \/ UNCHANGED inflight /\ strayed' = strayed \cup {hand[c].job} /\ Fault
    /\ UNCHANGED <<retry, dead>>

Older(e) == [e EXCEPT !.attempts = @ + 1]
OneMore(e) == Older(e).attempts <= MaxAttempts
Retryable(e) == Older(e).attempts < MaxAttempts

(* A pipeline: both commands or neither, which leaves the job in flight    *)
(* and a copy of it in memory.                                             *)
Fail(c) ==
    /\ Finished(c)
    /\ inflight' = Removed(c)
    /\ IF Retryable(hand[c])
       THEN retry' = retry \cup {Older(hand[c])} /\ UNCHANGED dead
       ELSE dead' = Cons(Older(hand[c]), dead) /\ UNCHANGED retry
    /\ UNCHANGED <<done, strayed, faults>>

FailFails(c) ==
    /\ Finished(c) /\ Fault
    /\ strayed' = strayed \cup {hand[c].job}
    /\ UNCHANGED <<retry, dead, inflight, done>>

-----------------------------------------------------------------------------
(* The key's time to live runs out: the process is dead or has just come   *)
(* back, or it works longer than a heartbeat lasts, for only reserve beats.*)
HeartbeatExpires(c) ==
    /\ c \in beating
    /\ pc[c] \in {"down", "scanning", "reclaiming", "working"}
    /\ beating' = beating \ {c}
    /\ UNCHANGED <<pending, retry, dead, inflight, processes, desk, fate, faults>>

(* The process stops or is killed, perhaps after its handler was through.  *)
Crash(c) ==
    /\ pc[c] # "down"
    /\ Fault
    /\ Goto(c, "down")
    /\ Hold(c, NoEntry)
    /\ toScan' = [toScan EXCEPT ![c] = {}]
    /\ from' = [from EXCEPT ![c] = NoConsumer]
    /\ IF pc[c] = "promoted" THEN Lose(hand[c])
       ELSE \/ UNCHANGED fate
            \/ /\ pc[c] = "working"
               /\ done' = done \cup {hand[c].job}
               /\ UNCHANGED <<accepted, lost, strayed, taken>>
    /\ UNCHANGED <<redis, desk>>

-----------------------------------------------------------------------------
(* replay_dead_letters: pops dead letters, requeues those of the caller's  *)
(* workspace with no attempts, and puts the others back at the end.        *)
BeginReplay(t) ==
    /\ replaying = NoTenant /\ skipped = <<>>
    /\ dead # <<>>
    /\ replaying' = t
    /\ UNCHANGED <<redis, processes, popped, skipped, fate, faults>>

PopDead ==
    /\ replaying # NoTenant /\ popped = NoEntry
    /\ dead # <<>>
    /\ dead' = Front(dead)
    /\ IF Tenant[Last(dead).job] = replaying
       THEN popped' = Last(dead) /\ UNCHANGED skipped
       ELSE skipped' = Append(skipped, Last(dead)) /\ UNCHANGED popped
    /\ UNCHANGED <<pending, retry, inflight, beating, processes, replaying, fate, faults>>

Replay ==
    /\ popped # NoEntry
    /\ Push([popped EXCEPT !.attempts = 0])
    /\ popped' = NoEntry
    /\ UNCHANGED <<retry, dead, inflight, beating, processes, replaying, skipped, fate, faults>>

(* No dead letter is left, or the limit is reached.                        *)
StopReplay ==
    /\ replaying # NoTenant /\ popped = NoEntry
    /\ replaying' = NoTenant
    /\ UNCHANGED <<redis, processes, popped, skipped, fate, faults>>

PutBackSkipped ==
    /\ replaying = NoTenant
    /\ skipped # <<>>
    /\ dead' = Append(dead, Head(skipped))
    /\ skipped' = Tail(skipped)
    /\ UNCHANGED <<pending, retry, inflight, beating, processes, replaying, popped, fate, faults>>

(* A command fails or the process dies: what it holds exists nowhere else. *)
ReplayFails ==
    /\ popped # NoEntry \/ skipped # <<>>
    /\ Fault
    /\ lost' = lost \cup {e.job : e \in ToSet(skipped) \cup ({popped} \ {NoEntry})}
    /\ replaying' = NoTenant /\ popped' = NoEntry /\ skipped' = <<>>
    /\ UNCHANGED <<redis, processes, accepted, done, strayed, taken>>

-----------------------------------------------------------------------------
Promote(c) == ReadDue(c) \/ RemoveDue(c) \/ Requeue(c)

Run(c) ==
    \/ \E k \in Consumers : Inspect(c, k)
    \/ Reclaim(c) \/ Reclaimed(c) \/ Started(c)
    \/ Beat(c) \/ Promote(c) \/ Take(c) \/ TakeNothing(c)
    \/ Ack(c) \/ Fail(c)

Step ==
    \/ \E j \in Jobs : Enqueue(j)
    \/ \E c \in Consumers : Boot(c) \/ Run(c) \/ HeartbeatExpires(c) \/ Crash(c)
    \/ \E t \in Tenants : BeginReplay(t)
    \/ PopDead \/ Replay \/ StopReplay \/ PutBackSkipped

Next ==
    \/ Step
    \/ \E c \in Consumers : ReclaimFails(c) \/ PromoteFails(c) \/ FailFails(c)
    \/ ReplayFails

Spec == Init /\ [][Next]_vars

(* The worker loop never stops, handlers end, backoffs elapse, reserve     *)
(* does not time out every time a job waits, and a replay request runs to  *)
(* its end.                                                                *)
Working ==
    /\ \A c \in Consumers : WF_vars(Run(c))
    /\ SF_vars(\E c \in Consumers : Take(c)) /\ SF_vars(\E c \in Consumers : ReadDue(c))
    /\ WF_vars(PopDead \/ Replay \/ StopReplay \/ PutBackSkipped)

(* Every container is restarted under its name: "the hostname keeps it     *)
(* stable across restarts of the same container".                          *)
RestartedSpec ==
    Init /\ [][Next]_vars /\ Working /\ \A c \in Consumers : WF_vars(Boot(c))

(* A container is only replaced: some process always runs.                 *)
Revive(c) == Boot(c) /\ \A d \in Consumers : pc[d] = "down"

ReplacedSpec ==
    /\ Init /\ [][Next]_vars /\ Working
    /\ WF_vars(\E c \in Consumers : Revive(c))
    /\ \A c \in Consumers : WF_vars(pc[c] = "down" /\ HeartbeatExpires(c))

-----------------------------------------------------------------------------
(* An accepted job that has not been done is still in Redis or in the      *)
(* hands of a step that will put it there, whatever crashed meanwhile; the *)
(* exceptions are the windows that Lose and ReplayFails name.              *)
Stored ==
    retry \cup ToSet(pending) \cup ToSet(dead) \cup ToSet(skipped)
    \cup ({popped} \ {NoEntry}) \cup (UNION {ToSet(inflight[c]) : c \in Consumers})
    \cup {hand[c] : c \in {d \in Consumers : pc[d] = "promoted"}}

NoneForgotten == accepted \subseteq done \cup lost \cup {e.job : e \in Stored}

(* Two processes never work on the same job at the same time, unless one   *)
(* of them was taken for dead by the other's start: not by promoting the   *)
(* same retry, nor by a replay, nor after a crash or a failed command.     *)
WorkedAlone ==
    \A c, d \in Consumers :
        /\ c # d
        /\ pc[c] = "working" /\ pc[d] = "working"
        /\ hand[c].job = hand[d].job
        => hand[c].job \in taken

(* Every accepted job is done or dead-lettered in the end, whichever step  *)
(* a process crashes at, provided each comes back under its name and no    *)
(* Redis command failed on the job.                                        *)
Settles ==
    \A j \in Jobs :
        j \in accepted ~> j \in done \cup lost \cup strayed \cup {e.job : e \in ToSet(dead)}

(* "each consumer heartbeats, and work belonging to a consumer whose       *)
(* heartbeat has expired is reclaimed and retried" (durable_queue.py).     *)
ExpiredIsReclaimed ==
    \A c \in Consumers :
        c \notin beating /\ pc[c] = "down" /\ inflight[c] # <<>>
            ~> inflight[c] = <<>> \/ pc[c] # "down"
=============================================================================
