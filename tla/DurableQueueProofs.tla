------------------------- MODULE DurableQueueProofs -------------------------
(***************************************************************************)
(* DurableQueue, proved for any jobs, processes, tenants, attempts and     *)
(* number of faults: whatever crashes, and whichever command fails, an     *)
(* accepted job is done, is stored, or was lost in one of the windows the  *)
(* model names.                                                            *)
(***************************************************************************)
EXTENDS DurableQueue, CollectionFacts

-----------------------------------------------------------------------------
(* The invariant *)

(* TypeOK part by part, and that a process that works on an entry, moves   *)
(* one or empties a list has one.                                          *)
RedisInv ==
    /\ pending \in Seq(Waiting)
    /\ retry \subseteq {e \in Waiting : e.attempts > 0}
    /\ dead \in Seq(Entry \ Waiting)
    /\ inflight \in [Consumers -> Seq(Waiting)]
    /\ beating \subseteq Consumers

ProcessInv ==
    /\ pc \in [Consumers -> Steps]
    /\ hand \in [Consumers -> Waiting \cup {NoEntry}]
    /\ toScan \in [Consumers -> SUBSET Consumers]
    /\ from \in [Consumers -> Consumers \cup {NoConsumer}]
    /\ \A c \in Consumers :
           /\ pc[c] \in {"due", "promoted", "working"} => hand[c] \in Waiting
           /\ pc[c] = "reclaiming" => from[c] \in Consumers

DeskInv ==
    /\ replaying \in Tenants \cup {NoTenant}
    /\ popped \in (Entry \ Waiting) \cup {NoEntry}
    /\ skipped \in Seq(Entry \ Waiting)

FateInv ==
    /\ accepted \subseteq Jobs /\ done \subseteq Jobs /\ lost \subseteq Jobs
    /\ strayed \subseteq Jobs /\ taken \subseteq Jobs
    /\ faults \in 0 .. MaxFaults

QueueInv == RedisInv /\ ProcessInv /\ DeskInv /\ FateInv

-----------------------------------------------------------------------------
(* Entries *)

LEMMA EntryFacts ==
    /\ Waiting \subseteq Entry
    /\ NoEntry \notin Entry \ Waiting
    /\ \A e \in Entry : e.job \in Jobs
    /\ \A j \in Jobs : [job |-> j, attempts |-> 0] \in Waiting
    /\ \A e \in Entry : [e EXCEPT !.attempts = 0] \in Waiting /\ [e EXCEPT !.attempts = 0].job = e.job
<1>1. NoEntry \notin Entry \ Waiting
  BY MaxAttemptsAssumption DEF NoEntry, Entry, Waiting
<1>2. \A j \in Jobs : [job |-> j, attempts |-> 0] \in Waiting
  BY MaxAttemptsAssumption DEF Entry, Waiting
<1>3. \A e \in Entry : [e EXCEPT !.attempts = 0] = [job |-> e.job, attempts |-> 0]
  BY DEF Entry
<1> QED
  BY <1>1, <1>2, <1>3 DEF Entry, Waiting

LEMMA OlderEntry ==
    ASSUME NEW e \in Waiting
    PROVE  /\ Older(e).job = e.job
           /\ Retryable(e) => Older(e) \in Waiting /\ Older(e).attempts > 0
           /\ ~ Retryable(e) => Older(e) \in Entry \ Waiting
<1>1. Older(e) = [job |-> e.job, attempts |-> e.attempts + 1]
  BY DEF Older, Waiting, Entry
<1>2. e.job \in Jobs /\ e.attempts \in Nat /\ e.attempts < MaxAttempts
  BY DEF Waiting, Entry
<1> QED
  BY <1>1, <1>2, MaxAttemptsAssumption DEF Retryable, Waiting, Entry

-----------------------------------------------------------------------------
(* Where a job is: NoneForgotten, place by place *)

At(e) ==
    \/ e \in retry \/ e \in ToSet(pending) \/ e \in ToSet(dead) \/ e \in ToSet(skipped)
    \/ (e = popped /\ e # NoEntry)
    \/ \E c \in Consumers : e \in ToSet(inflight[c])
    \/ \E c \in Consumers : pc[c] = "promoted" /\ e = hand[c]

Known(j) == j \in done \/ j \in lost \/ \E e : At(e) /\ e.job = j

LEMMA StoredByPlace == NoneForgotten <=> \A j \in accepted : Known(j)
<1>1. ASSUME NEW e PROVE e \in Stored <=> At(e)
  <2>1. e \in UNION {ToSet(inflight[c]) : c \in Consumers} <=> \E c \in Consumers : e \in ToSet(inflight[c])
    OBVIOUS
  <2>2. e \in {hand[c] : c \in {d \in Consumers : pc[d] = "promoted"}}
            <=> \E c \in Consumers : pc[c] = "promoted" /\ e = hand[c]
    OBVIOUS
  <2> QED
    BY <2>1, <2>2, Zenon DEF Stored, At
<1>2. \A j : j \in {e.job : e \in Stored} <=> \E e : e \in Stored /\ e.job = j
  OBVIOUS
<1>3. \A j : Known(j) <=> j \in done \cup lost \cup {e.job : e \in Stored}
  BY <1>1, <1>2 DEF Known
<1> QED
  BY <1>3 DEF NoneForgotten

(* A step keeps to the invariant, leaves every entry's job known, and      *)
(* accepts no other.                                                       *)
NoneDropped ==
    /\ done \subseteq done' /\ lost \subseteq lost'
    /\ \A e : At(e) => Known(e.job)'
    /\ \A j \in accepted' : j \in accepted \/ Known(j)'

LEMMA StillKnown ==
    ASSUME NoneForgotten, NoneDropped
    PROVE  NoneForgotten'
<1>1. ASSUME NEW j \in accepted PROVE Known(j)'
  <2>1. Known(j)
    BY StoredByPlace
  <2>2. CASE j \in done \cup lost
    BY <2>2 DEF Known, NoneDropped
  <2>3. CASE \E e : At(e) /\ e.job = j
    BY <2>3 DEF NoneDropped
  <2> QED
    BY <2>1, <2>2, <2>3 DEF Known
<1>2. \A j \in accepted' : Known(j)'
  BY <1>1 DEF NoneDropped
<1>3. (NoneForgotten <=> \A j \in accepted : Known(j))'
  BY StoredByPlace, PTL
<1> QED
  BY <1>2, <1>3

(* An entry is somewhere else than in hand, or it is in the hand of a      *)
(* process that moves it.                                                  *)
Resting(e) ==
    \/ e \in retry \/ e \in ToSet(pending) \/ e \in ToSet(dead) \/ e \in ToSet(skipped)
    \/ (e = popped /\ e # NoEntry)
    \/ \E c \in Consumers : e \in ToSet(inflight[c])
Moving(c) == pc[c] = "promoted"

LEMMA AtByResting == \A e : At(e) <=> Resting(e) \/ \E c \in Consumers : Moving(c) /\ e = hand[c]
  BY DEF At, Resting, Moving

(* Of the steps of one process: who moves what among the others stays.     *)
LEMMA OneProcess ==
    ASSUME NEW c \in Consumers,
           \A d \in Consumers \ {c} : pc'[d] = pc[d] /\ hand'[d] = hand[d],
           \A e : Resting(e) => Known(e.job)',
           \A e : Moving(c) /\ e = hand[c] => Known(e.job)' \/ (Moving(c)' /\ hand'[c] = e),
           done \subseteq done', lost \subseteq lost',
           \A j \in accepted' : j \in accepted \/ Known(j)'
    PROVE  NoneDropped
<1>1. ASSUME NEW e, At(e) PROVE Known(e.job)'
  <2>1. CASE Resting(e)
    BY <2>1
  <2>2. CASE \E d \in Consumers : Moving(d) /\ e = hand[d]
    <3>1. PICK d \in Consumers : Moving(d) /\ e = hand[d]
      BY <2>2
    <3>2. ASSUME pc'[d] = "promoted", hand'[d] = e PROVE Known(e.job)'
      BY <3>2 DEF At, Known
    <3>3. CASE d # c
      BY <3>1, <3>2, <3>3 DEF Moving
    <3>4. CASE d = c
      <4>1. Known(e.job)' \/ (pc'[d] = "promoted" /\ hand'[d] = e)
        BY <3>1, <3>4 DEF Moving
      <4> QED
        BY <3>2, <4>1
    <3> QED
      BY <3>3, <3>4
  <2> QED
    BY <1>1, <2>1, <2>2, AtByResting
<1> QED
  BY <1>1 DEF NoneDropped

(* What stays where it is is known; so is whatever a place has gained.     *)
LEMMA RestingIsKnown == \A e : Resting(e)' => Known(e.job)'
  BY DEF Resting, Known, At

-----------------------------------------------------------------------------
(* The sequences of the queue *)

LEMMA Pushed ==
    ASSUME pending \in Seq(Waiting), NEW e \in Waiting, Push(e)
    PROVE  pending' \in Seq(Waiting) /\ ToSet(pending') = ToSet(pending) \cup {e}
  BY Prepended DEF Push, Cons

LEMMA MovedTo ==
    ASSUME inflight \in [Consumers -> Seq(Waiting)], NEW c \in Consumers, NEW e \in Waiting
    PROVE  /\ Moved(c, e) \in [Consumers -> Seq(Waiting)]
           /\ ToSet(Moved(c, e)[c]) = ToSet(inflight[c]) \cup {e}
           /\ \A d \in Consumers \ {c} : Moved(c, e)[d] = inflight[d]
<1>1. Cons(e, inflight[c]) \in Seq(Waiting) /\ ToSet(Cons(e, inflight[c])) = ToSet(inflight[c]) \cup {e}
  BY Prepended DEF Cons
<1> QED
  BY <1>1 DEF Moved

LEMMA RemovedFrom ==
    ASSUME inflight \in [Consumers -> Seq(Waiting)], NEW c \in Consumers
    PROVE  /\ Removed(c) \in [Consumers -> Seq(Waiting)]
           /\ ToSet(inflight[c]) \subseteq ToSet(Removed(c)[c]) \cup {hand[c]}
           /\ \A d \in Consumers \ {c} : Removed(c)[d] = inflight[d]
<1>1. /\ RemoveFirst(inflight[c], hand[c]) \in Seq(Waiting)
      /\ ToSet(inflight[c]) \subseteq ToSet(RemoveFirst(inflight[c], hand[c])) \cup {hand[c]}
  BY FirstRemoved
<1> QED
  BY <1>1 DEF Removed

-----------------------------------------------------------------------------
(* enqueue and start *)

Keeps == QueueInv' /\ NoneDropped

LEMMA EnqueueKeeps ==
    ASSUME QueueInv, NEW j \in Jobs, Enqueue(j)
    PROVE  Keeps
<1> DEFINE e == [job |-> j, attempts |-> 0]
<1>1. e \in Waiting /\ e.job = j
  BY EntryFacts
<1> HIDE DEF e
<1>2. Push(e) => pending' \in Seq(Waiting) /\ ToSet(pending') = ToSet(pending) \cup {e}
  BY <1>1, Pushed DEF QueueInv, RedisInv
<1>3. /\ Push(e) \/ UNCHANGED pending
      /\ Push(e) \/ j \in lost'
      /\ lost \subseteq lost' /\ lost' \subseteq lost \cup {j} /\ accepted' = accepted \cup {j}
      /\ faults' \in 0 .. MaxFaults
      /\ UNCHANGED <<retry, dead, inflight, beating, processes, desk, done, strayed, taken>>
  BY MaxFaultsAssumption DEF Enqueue, e, Fault, QueueInv, FateInv
<1>4. pending' \in Seq(Waiting) /\ ToSet(pending) \subseteq ToSet(pending')
  BY <1>2, <1>3 DEF QueueInv, RedisInv
<1>5. QueueInv'
  BY <1>3, <1>4 DEF QueueInv, RedisInv, ProcessInv, DeskInv, FateInv, processes, starting, desk
<1>6. \A x : At(x) => At(x)'
  BY <1>3, <1>4 DEF At, processes, desk
<1>7. Known(j)'
  <2>1. CASE j \in lost'
    BY <2>1 DEF Known
  <2>2. CASE Push(e)
    BY <1>1, <1>2, <2>2 DEF Known, At
  <2> QED
    BY <1>3, <2>1, <2>2
<1> QED
  BY <1>3, <1>5, <1>6, <1>7 DEF Keeps, NoneDropped, Known

LEMMA StartKeeps ==
    ASSUME QueueInv, NEW c \in Consumers,
           \/ Boot(c) \/ (\E k \in Consumers : Inspect(c, k)) \/ Reclaim(c) \/ Reclaimed(c)
           \/ Started(c) \/ ReclaimFails(c) \/ HeartbeatExpires(c)
    PROVE  Keeps
<1> USE DEF QueueInv
<1>1. CASE Boot(c) \/ (\E k \in Consumers : Inspect(c, k)) \/ Reclaimed(c) \/ Started(c) \/ HeartbeatExpires(c)
  <2>1. /\ UNCHANGED <<pending, retry, dead, inflight, hand, desk, fate, faults>>
        /\ beating' \subseteq Consumers
        /\ \A d \in Consumers \ {c} : pc'[d] = pc[d]
        /\ ~ Moving(c) \/ UNCHANGED pc
    BY <1>1 DEF Boot, Inspect, Reclaimed, Started, HeartbeatExpires, redis, starting, processes,
                Goto, RedisInv, ProcessInv, Moving
  <2>2. ProcessInv'
    <3>1. CASE Boot(c)
      BY <3>1 DEF Boot, Goto, ProcessInv, Steps
    <3>2. CASE \E k \in Consumers : Inspect(c, k)
      <4>1. PICK k \in Consumers : Inspect(c, k)
        BY <3>2
      <4>2. CASE StillAlive(c, k)
        BY <4>1, <4>2 DEF Inspect, ProcessInv
      <4>3. CASE ~ StillAlive(c, k)
        BY <4>1, <4>3 DEF Inspect, Goto, ProcessInv, Steps
      <4> QED
        BY <4>2, <4>3
    <3>3. CASE Reclaimed(c) \/ Started(c)
      BY <3>3 DEF Reclaimed, Started, Goto, ProcessInv, Steps, starting
    <3>4. CASE HeartbeatExpires(c)
      BY <3>4 DEF HeartbeatExpires, ProcessInv, processes, starting
    <3> QED
      BY <1>1, <3>1, <3>2, <3>3, <3>4
  <2>3. RedisInv' /\ DeskInv' /\ FateInv'
    BY <2>1 DEF RedisInv, DeskInv, FateInv, desk, fate
  <2>4. \A e : Resting(e) => Known(e.job)'
    BY <2>1 DEF Resting, Known, At, desk
  <2>5. NoneDropped
    BY <2>1, <2>4, OneProcess DEF fate, Moving
  <2> QED
    BY <2>2, <2>3, <2>5 DEF Keeps
<1>2. CASE Reclaim(c)
  <2> DEFINE k == from[c]
  <2>1. k \in Consumers /\ inflight[k] \in Seq(Waiting) /\ inflight[k] # <<>>
    BY <1>2 DEF Reclaim, ProcessInv, RedisInv
  <2> DEFINE e == Last(inflight[k])
  <2>2. /\ e \in Waiting /\ Front(inflight[k]) \in Seq(Waiting)
        /\ ToSet(inflight[k]) = ToSet(Front(inflight[k])) \cup {e}
    BY <2>1, LastAndFront
  <2>3. /\ Push(e) /\ inflight' = [inflight EXCEPT ![k] = Front(@)]
        /\ taken' \subseteq taken \cup {e.job}
        /\ UNCHANGED <<retry, dead, beating, processes, desk, accepted, done, lost, strayed, faults>>
    BY <1>2 DEF Reclaim
  <2> HIDE DEF e, k
  <2>4. pending' \in Seq(Waiting) /\ ToSet(pending') = ToSet(pending) \cup {e}
    BY <2>2, <2>3, Pushed DEF RedisInv
  <2>5. QueueInv'
    <3>1. inflight' \in [Consumers -> Seq(Waiting)]
      BY <2>1, <2>2, <2>3 DEF RedisInv
    <3>2. RedisInv'
      BY <2>3, <2>4, <3>1 DEF RedisInv
    <3>3. e.job \in Jobs
      BY <2>2, EntryFacts
    <3>4. ProcessInv' /\ DeskInv'
      BY <2>3 DEF ProcessInv, DeskInv, processes, starting, desk
    <3> QED
      BY <2>3, <3>2, <3>3, <3>4 DEF FateInv
  <2>6. \A x : Resting(x) => Resting(x)'
    BY <2>1, <2>2, <2>3, <2>4 DEF Resting, RedisInv, desk
  <2>7. \A x : Resting(x) => Known(x.job)'
    BY <2>6, RestingIsKnown
  <2> QED
    BY <2>3, <2>5, <2>7, OneProcess DEF Keeps, processes, Moving
<1>3. CASE ReclaimFails(c)
  <2>1. /\ Goto(c, "idle") /\ toScan' = [toScan EXCEPT ![c] = {}] /\ from' = [from EXCEPT ![c] = NoConsumer]
        /\ pc[c] # "promoted" /\ faults' \in 0 .. MaxFaults
        /\ UNCHANGED <<redis, hand, desk, accepted, done, lost, taken>>
    BY <1>3, MaxFaultsAssumption DEF ReclaimFails, Fault, FateInv
  <2>2. \A k \in Consumers : \A e \in ToSet(inflight[k]) : e.job \in Jobs
    BY EntryFacts DEF RedisInv, ToSet
  <2>3. strayed' \subseteq Jobs
    BY <1>3, <2>2 DEF ReclaimFails, FateInv
  <2>4. QueueInv'
    BY <2>1, <2>3 DEF RedisInv, ProcessInv, DeskInv, FateInv, Goto, Steps, redis, desk
  <2>5. \A x : Resting(x) => Known(x.job)'
    BY <2>1 DEF Resting, Known, At, desk, redis
  <2>6. \A d \in Consumers \ {c} : pc'[d] = pc[d] /\ hand'[d] = hand[d]
    BY <2>1 DEF Goto, ProcessInv
  <2> QED
    BY <2>1, <2>4, <2>5, <2>6, OneProcess DEF Keeps, Moving
<1> QED
  BY <1>1, <1>2, <1>3

-----------------------------------------------------------------------------
(* reserve *)

LEMMA ReserveKeeps ==
    ASSUME QueueInv, NEW c \in Consumers,
           \/ Beat(c) \/ ReadDue(c) \/ RemoveDue(c) \/ Requeue(c) \/ PromoteFails(c)
           \/ Take(c) \/ TakeNothing(c)
    PROVE  Keeps
<1> USE DEF QueueInv
<1>1. CASE Beat(c) \/ ReadDue(c)
  <2>1. /\ UNCHANGED <<pending, retry, dead, inflight, starting, desk, fate, faults>>
        /\ beating' \subseteq Consumers
        /\ \A d \in Consumers \ {c} : pc'[d] = pc[d] /\ hand'[d] = hand[d]
        /\ ~ Moving(c)
    BY <1>1 DEF Beat, ReadDue, redis, Goto, Hold, RedisInv, ProcessInv, Moving
  <2>2. ProcessInv'
    <3>1. CASE Beat(c)
      BY <3>1 DEF Beat, Goto, ProcessInv, Steps, starting
    <3>2. CASE ReadDue(c)
      BY <3>2 DEF ReadDue, Goto, Hold, ProcessInv, RedisInv, Steps, starting
    <3> QED
      BY <1>1, <3>1, <3>2
  <2>3. RedisInv' /\ DeskInv' /\ FateInv'
    BY <2>1 DEF RedisInv, DeskInv, FateInv, desk, fate
  <2>4. \A e : Resting(e) => Known(e.job)'
    BY <2>1 DEF Resting, Known, At, desk
  <2>5. NoneDropped
    BY <2>1, <2>4, OneProcess DEF fate
  <2> QED
    BY <2>2, <2>3, <2>5 DEF Keeps
<1>2. CASE RemoveDue(c)
  <2> DEFINE h == hand[c]
  <2>0. h \in Waiting
    BY <1>2 DEF RemoveDue, ProcessInv
  <2>1. /\ retry' = retry \ {h}
        /\ UNCHANGED <<pending, dead, inflight, beating, starting, desk, fate, faults>>
        /\ ~ Moving(c)
        /\ \A d \in Consumers \ {c} : pc'[d] = pc[d] /\ hand'[d] = hand[d]
        /\ h \in retry => pc'[c] = "promoted" /\ hand'[c] = h
        /\ h \notin retry => pc'[c] = "reserving" /\ hand'[c] = NoEntry
    BY <1>2 DEF RemoveDue, Moves, Goto, Hold, ProcessInv, Moving
  <2>2. ProcessInv'
    <3>1. CASE h \in retry
      BY <1>2, <2>0, <3>1 DEF RemoveDue, Moves, Goto, ProcessInv, Steps, starting
    <3>2. CASE h \notin retry
      BY <1>2, <2>0, <3>2 DEF RemoveDue, Moves, Goto, Hold, ProcessInv, Steps, starting
    <3> QED
      BY <3>1, <3>2
  <2>3. RedisInv' /\ DeskInv' /\ FateInv'
    BY <2>1 DEF RedisInv, DeskInv, FateInv, desk, fate
  <2> HIDE DEF h
  <2>4. ASSUME NEW e, Resting(e) PROVE Known(e.job)'
    <3>1. CASE e # h \/ e \notin retry
      BY <2>1, <2>4, <3>1 DEF Resting, Known, At, desk
    <3>2. CASE e = h /\ e \in retry
      BY <2>1, <3>2 DEF Known, At
    <3> QED
      BY <3>1, <3>2
  <2>5. NoneDropped
    BY <2>1, <2>4, OneProcess DEF fate
  <2> QED
    BY <2>2, <2>3, <2>5 DEF Keeps
<1>3. CASE Requeue(c) \/ PromoteFails(c)
  <2>0. PICK h : h = hand[c]
    OBVIOUS
  <2>1. h \in Waiting
    BY <1>3, <2>0 DEF Requeue, PromoteFails, ProcessInv
  <2>2. Push(h) => pending' \in Seq(Waiting) /\ ToSet(pending') = ToSet(pending) \cup {h}
    BY <2>1, Pushed DEF RedisInv
  <2>3. /\ Goto(c, "reserving") /\ Hold(c, NoEntry)
        /\ UNCHANGED <<dead, inflight, beating, starting, desk>>
        /\ Push(h) \/ UNCHANGED pending
        /\ retry' \subseteq retry /\ \A e \in retry : e \in retry' \/ (e = h /\ h.job \in lost')
        /\ Moving(c) => Push(h) \/ h.job \in lost'
        /\ done' = done /\ lost \subseteq lost' /\ lost' \subseteq lost \cup {h.job}
        /\ UNCHANGED <<accepted, strayed, taken>>
        /\ faults' \in 0 .. MaxFaults
    <3>1. CASE Requeue(c)
      BY <2>0, <3>1 DEF Requeue, FateInv, fate
    <3>2. CASE PromoteFails(c)
      BY <2>0, <3>2, MaxFaultsAssumption DEF PromoteFails, FateInv, fate, Fault, Lose, Moving
    <3> QED
      BY <1>3, <3>1, <3>2
  <2>4. pending' \in Seq(Waiting) /\ ToSet(pending) \subseteq ToSet(pending')
    BY <2>2, <2>3 DEF RedisInv
  <2>5. RedisInv' /\ DeskInv'
    BY <2>3, <2>4 DEF RedisInv, DeskInv, desk
  <2>6. ProcessInv'
    BY <2>3 DEF Goto, Hold, ProcessInv, Steps, starting
  <2>7. FateInv'
    BY <2>1, <2>3, EntryFacts DEF FateInv
  <2>8. ASSUME NEW e, Resting(e) PROVE Known(e.job)'
    <3>1. CASE e \in retry /\ e \notin retry'
      BY <2>3, <3>1 DEF Known
    <3>2. CASE ~ (e \in retry /\ e \notin retry')
      BY <2>3, <2>4, <2>8, <3>2 DEF Resting, Known, At, desk
    <3> QED
      BY <3>1, <3>2
  <2>9. Moving(c) => Known(h.job)'
    BY <2>2, <2>3 DEF Known, At
  <2>10. \A d \in Consumers \ {c} : pc'[d] = pc[d] /\ hand'[d] = hand[d]
    BY <2>3 DEF Goto, Hold, ProcessInv
  <2>11. NoneDropped
    BY <2>0, <2>3, <2>8, <2>9, <2>10, OneProcess
  <2> QED
    BY <2>5, <2>6, <2>7, <2>11 DEF Keeps
<1>4. CASE (TakeNothing(c) /\ UNCHANGED <<pending, inflight, fate, faults>>)
  <2>1. Goto(c, "idle") /\ pc[c] = "reserving" /\ UNCHANGED <<retry, dead, beating, hand, starting, desk>>
    BY <1>4 DEF TakeNothing
  <2>2. ProcessInv'
    BY <2>1 DEF Goto, ProcessInv, Steps, starting
  <2>3. RedisInv' /\ DeskInv' /\ FateInv'
    BY <1>4, <2>1 DEF RedisInv, DeskInv, FateInv, desk, fate
  <2>4. \A e : Resting(e) => Known(e.job)'
    BY <1>4, <2>1 DEF Resting, Known, At, desk
  <2>5. \A d \in Consumers \ {c} : pc'[d] = pc[d] /\ hand'[d] = hand[d]
    BY <2>1 DEF Goto, ProcessInv
  <2>6. NoneDropped
    BY <1>4, <2>1, <2>4, <2>5, OneProcess DEF fate, Moving
  <2> QED
    BY <2>2, <2>3, <2>6 DEF Keeps
<1>5. CASE Take(c) \/ (TakeNothing(c) /\ ~ UNCHANGED <<pending, inflight, fate, faults>>)
  <2>0. pending # <<>> /\ pc[c] = "reserving"
    BY <1>5 DEF Take, TakeNothing
  <2> DEFINE e == Last(pending)
  <2>1. e \in Waiting /\ Front(pending) \in Seq(Waiting) /\ ToSet(pending) = ToSet(Front(pending)) \cup {e}
    BY <2>0, LastAndFront DEF RedisInv
  <2>2. /\ pending' = Front(pending) /\ inflight' = Moved(c, e)
        /\ UNCHANGED <<retry, dead, beating, starting, desk, accepted, done, lost, taken>>
        /\ strayed' \subseteq strayed \cup {e.job} /\ faults' \in 0 .. MaxFaults
    <3>1. CASE Take(c)
      BY <3>1 DEF Take, fate, FateInv
    <3>2. CASE TakeNothing(c) /\ ~ UNCHANGED <<pending, inflight, fate, faults>>
      BY <3>2, MaxFaultsAssumption DEF TakeNothing, fate, FateInv, Fault, Stray
    <3> QED
      BY <1>5, <3>1, <3>2
  <2>3. ProcessInv'
    <3>1. CASE Take(c)
      BY <2>1, <3>1 DEF Take, Goto, Hold, ProcessInv, Steps, starting
    <3>2. CASE TakeNothing(c)
      BY <2>0, <3>2 DEF TakeNothing, Goto, ProcessInv, Steps, starting
    <3> QED
      BY <1>5, <3>1, <3>2
  <2>4. \A d \in Consumers \ {c} : pc'[d] = pc[d] /\ hand'[d] = hand[d]
    BY <1>5 DEF Take, TakeNothing, Goto, Hold, ProcessInv
  <2> HIDE DEF e
  <2>5. /\ inflight' \in [Consumers -> Seq(Waiting)]
        /\ ToSet(inflight'[c]) = ToSet(inflight[c]) \cup {e}
        /\ \A d \in Consumers \ {c} : inflight'[d] = inflight[d]
    BY <2>1, <2>2, MovedTo DEF RedisInv
  <2>6. RedisInv' /\ DeskInv' /\ FateInv'
    <3>1. RedisInv'
      BY <2>1, <2>2, <2>5 DEF RedisInv
    <3>2. e.job \in Jobs
      BY <2>1, EntryFacts
    <3> QED
      BY <2>2, <3>1, <3>2 DEF DeskInv, FateInv, desk
  <2>7. \A x : Resting(x) => Resting(x)'
    BY <2>1, <2>2, <2>5 DEF Resting, desk
  <2>8. NoneDropped
    BY <2>0, <2>2, <2>4, <2>7, RestingIsKnown, OneProcess DEF Moving
  <2> QED
    BY <2>3, <2>6, <2>8 DEF Keeps
<1> QED
  BY <1>1, <1>2, <1>3, <1>4, <1>5

-----------------------------------------------------------------------------
(* ack, fail, crash *)

LEMMA EndKeeps ==
    ASSUME QueueInv, NEW c \in Consumers, Ack(c) \/ Fail(c) \/ FailFails(c) \/ Crash(c)
    PROVE  Keeps
<1> USE DEF QueueInv
<1>1. CASE Ack(c) \/ Fail(c) \/ FailFails(c)
  <2>0. PICK h : h = hand[c]
    OBVIOUS
  <2>1. h \in Waiting /\ h.job \in Jobs /\ pc[c] = "working"
    BY <1>1, <2>0, EntryFacts DEF Ack, Fail, FailFails, Finished, ProcessInv
  <2>2. /\ Goto(c, "idle") /\ Hold(c, NoEntry)
        /\ UNCHANGED <<pending, beating, starting, desk, accepted, lost, taken>>
    BY <1>1 DEF Ack, Fail, FailFails, Finished
  <2>3. /\ Removed(c) \in [Consumers -> Seq(Waiting)]
        /\ ToSet(inflight[c]) \subseteq ToSet(Removed(c)[c]) \cup {h}
        /\ \A d \in Consumers \ {c} : Removed(c)[d] = inflight[d]
    BY <2>0, RemovedFrom DEF RedisInv
  <2>4. /\ inflight' \in {inflight, Removed(c)}
        /\ inflight' # inflight => h.job \in done' \/ Older(h) \in retry' \/ Older(h) \in ToSet(dead')
        /\ retry \subseteq retry' /\ retry' \subseteq {e \in Waiting : e.attempts > 0}
        /\ dead' \in Seq(Entry \ Waiting) /\ ToSet(dead) \subseteq ToSet(dead')
        /\ done \subseteq done' /\ done' \subseteq done \cup {h.job}
        /\ strayed' \subseteq strayed \cup {h.job} /\ faults' \in 0 .. MaxFaults
    <3>1. CASE Ack(c)
      BY <2>0, <3>1, MaxFaultsAssumption DEF Ack, FateInv, Fault, RedisInv
    <3>2. CASE FailFails(c)
      BY <2>0, <3>2, MaxFaultsAssumption DEF FailFails, FateInv, Fault, RedisInv
    <3>3. CASE Fail(c) /\ Retryable(h)
      <4>1. Older(h) \in Waiting /\ Older(h).attempts > 0
        BY <2>1, <3>3, OlderEntry
      <4> QED
        BY <2>0, <3>3, <4>1 DEF Fail, FateInv, RedisInv
    <3>4. CASE Fail(c) /\ ~ Retryable(h)
      <4>1. Older(h) \in Entry \ Waiting
        BY <2>1, <3>4, OlderEntry
      <4>2. /\ Cons(Older(h), dead) \in Seq(Entry \ Waiting)
            /\ ToSet(Cons(Older(h), dead)) = ToSet(dead) \cup {Older(h)}
        BY <4>1, Prepended DEF Cons, RedisInv
      <4> QED
        BY <2>0, <3>4, <4>2 DEF Fail, FateInv, RedisInv
    <3> QED
      BY <1>1, <3>1, <3>2, <3>3, <3>4
  <2>5. RedisInv'
    BY <2>2, <2>3, <2>4 DEF RedisInv
  <2>6. ProcessInv'
    BY <2>2 DEF Goto, Hold, ProcessInv, Steps, starting
  <2>7. DeskInv' /\ FateInv'
    BY <2>1, <2>2, <2>4 DEF DeskInv, FateInv, desk
  <2>8. inflight' # inflight => Known(h.job)'
    <3>1. Older(h).job = h.job
      BY <2>1, OlderEntry
    <3> QED
      BY <2>4, <3>1 DEF Known, At
  <2>9. ASSUME NEW e, Resting(e) PROVE Known(e.job)'
    <3>1. CASE e = h /\ inflight' # inflight
      BY <2>8, <3>1
    <3>2. CASE inflight' = inflight
      BY <2>2, <2>4, <2>9, <3>2 DEF Resting, Known, At, desk
    <3>3. CASE e # h /\ inflight' = Removed(c)
      <4>1. \A d \in Consumers : e \in ToSet(inflight[d]) => e \in ToSet(inflight'[d])
        BY <2>3, <3>3
      <4> QED
        BY <2>2, <2>4, <2>9, <4>1 DEF Resting, Known, At, desk
    <3> QED
      BY <2>4, <3>1, <3>2, <3>3
  <2>10. \A d \in Consumers \ {c} : pc'[d] = pc[d] /\ hand'[d] = hand[d]
    BY <2>2 DEF Goto, Hold, ProcessInv
  <2>11. NoneDropped
    BY <2>1, <2>2, <2>4, <2>9, <2>10, OneProcess DEF Moving
  <2> QED
    BY <2>5, <2>6, <2>7, <2>11 DEF Keeps
<1>2. CASE Crash(c)
  <2>0. PICK h : h = hand[c]
    OBVIOUS
  <2>1. pc[c] \in {"promoted", "working"} => h.job \in Jobs
    BY <2>0, EntryFacts DEF ProcessInv
  <2>2. /\ Goto(c, "down") /\ Hold(c, NoEntry)
        /\ toScan' = [toScan EXCEPT ![c] = {}] /\ from' = [from EXCEPT ![c] = NoConsumer]
        /\ UNCHANGED <<redis, desk, accepted, strayed, taken>>
        /\ faults' \in 0 .. MaxFaults
    BY <1>2, MaxFaultsAssumption DEF Crash, Fault, FateInv, fate, Lose
  <2>3. /\ pc[c] = "promoted" => h.job \in lost'
        /\ done \subseteq done' /\ lost \subseteq lost' /\ done' \subseteq Jobs /\ lost' \subseteq Jobs
    <3>1. CASE pc[c] = "promoted"
      BY <1>2, <2>0, <2>1, <3>1 DEF Crash, Lose, FateInv
    <3>2. CASE pc[c] # "promoted"
      BY <1>2, <2>0, <2>1, <3>2 DEF Crash, FateInv, fate
    <3> QED
      BY <3>1, <3>2
  <2>4. RedisInv' /\ DeskInv' /\ FateInv'
    BY <2>2, <2>3 DEF RedisInv, DeskInv, FateInv, redis, desk
  <2>5. ProcessInv'
    BY <2>2 DEF Goto, Hold, ProcessInv, Steps
  <2>6. \A e : Resting(e) => Known(e.job)'
    BY <2>2 DEF Resting, Known, At, redis, desk
  <2>7. Moving(c) => Known(h.job)'
    BY <2>3 DEF Moving, Known
  <2>8. \A d \in Consumers \ {c} : pc'[d] = pc[d] /\ hand'[d] = hand[d]
    BY <2>2 DEF Goto, Hold, ProcessInv
  <2>9. NoneDropped
    BY <2>0, <2>2, <2>3, <2>6, <2>7, <2>8, OneProcess
  <2> QED
    BY <2>4, <2>5, <2>9 DEF Keeps
<1> QED
  BY <1>1, <1>2

-----------------------------------------------------------------------------
(* replay_dead_letters *)

(* What a replay does leaves the processes and their lists alone.          *)
LEMMA DeskStep ==
    ASSUME QueueInv, UNCHANGED <<retry, inflight, beating, processes>>,
           UNCHANGED <<accepted, done, strayed, taken>>,
           pending' \in Seq(Waiting), dead' \in Seq(Entry \ Waiting), DeskInv',
           lost \subseteq lost', lost' \subseteq Jobs, faults' \in 0 .. MaxFaults,
           ToSet(pending) \subseteq ToSet(pending'),
           \A e : e \in ToSet(dead) \cup ToSet(skipped) \cup ({popped} \ {NoEntry}) => Known(e.job)'
    PROVE  Keeps
<1>1. QueueInv'
  BY DEF QueueInv, RedisInv, ProcessInv, FateInv, processes, starting
<1>2. ASSUME NEW e, At(e) PROVE Known(e.job)'
  <2>1. CASE e \in ToSet(dead) \cup ToSet(skipped) \cup ({popped} \ {NoEntry})
    BY <2>1
  <2>2. CASE e \notin ToSet(dead) \cup ToSet(skipped) \cup ({popped} \ {NoEntry})
    BY <1>2, <2>2 DEF At, Known, processes
  <2> QED
    BY <2>1, <2>2
<1> QED
  BY <1>1, <1>2 DEF Keeps, NoneDropped

LEMMA ReplayKeeps ==
    ASSUME QueueInv,
           \/ \E t \in Tenants : BeginReplay(t)
           \/ PopDead \/ Replay \/ StopReplay \/ PutBackSkipped \/ ReplayFails
    PROVE  Keeps
<1> USE DEF QueueInv
<1> DEFINE Letter == Entry \ Waiting
           Held(e) == e \in ToSet(dead) \cup ToSet(skipped) \cup ({popped} \ {NoEntry})
<1>0. /\ pending \in Seq(Waiting) /\ dead \in Seq(Letter) /\ skipped \in Seq(Letter)
      /\ popped \in Letter \cup {NoEntry} /\ replaying \in Tenants \cup {NoTenant}
      /\ lost \subseteq Jobs /\ faults \in 0 .. MaxFaults
  BY DEF RedisInv, DeskInv, FateInv
<1>1. CASE (\E t \in Tenants : BeginReplay(t)) \/ StopReplay
  <2>1. UNCHANGED <<redis, processes, popped, skipped, fate, faults>> /\ replaying' \in Tenants \cup {NoTenant}
    BY <1>1 DEF BeginReplay, StopReplay
  <2>2. DeskInv'
    BY <1>0, <2>1 DEF DeskInv
  <2>3. \A e : Held(e) => Known(e.job)'
    BY <2>1 DEF Known, At, redis
  <2> QED
    BY <1>0, <2>1, <2>2, <2>3, DeskStep DEF redis, fate
<1>2. CASE PopDead
  <2>0. dead # <<>> /\ popped = NoEntry
    BY <1>2 DEF PopDead
  <2>1. PICK l \in Letter : l = Last(dead) /\ Front(dead) \in Seq(Letter) /\ ToSet(dead) = ToSet(Front(dead)) \cup {l}
    BY <1>0, <2>0, LastAndFront
  <2>2. dead' = Front(dead) /\ UNCHANGED <<pending, retry, inflight, beating, processes, replaying, fate, faults>>
    BY <1>2 DEF PopDead
  <2>3. Append(skipped, l) \in Seq(Letter) /\ ToSet(Append(skipped, l)) = ToSet(skipped) \cup {l}
    BY <1>0, Appended
  <2>4. DeskInv' /\ ToSet(skipped) \subseteq ToSet(skipped') /\ (l = popped' \/ l \in ToSet(skipped'))
    <3>1. CASE Tenant[l.job] = replaying
      BY <1>0, <1>2, <2>1, <2>2, <3>1 DEF PopDead, DeskInv
    <3>2. CASE Tenant[l.job] # replaying
      BY <1>0, <1>2, <2>1, <2>2, <2>3, <3>2 DEF PopDead, DeskInv
    <3> QED
      BY <3>1, <3>2
  <2>5. l # NoEntry
    BY <2>1, EntryFacts
  <2>6. ASSUME NEW e, Held(e) PROVE Known(e.job)'
    <3>1. \/ e \in ToSet(dead') \/ e \in ToSet(skipped') \/ (e = popped' /\ e # NoEntry)
      BY <2>0, <2>1, <2>2, <2>4, <2>5, <2>6
    <3> QED
      BY <3>1 DEF Known, At
  <2> QED
    BY <1>0, <2>1, <2>2, <2>4, <2>6, DeskStep DEF fate
<1>3. CASE Replay
  <2>1. PICK p : p = popped
    OBVIOUS
  <2>2. p \in Letter
    BY <1>0, <1>3, <2>1 DEF Replay
  <2>3. PICK e \in Waiting : e = [p EXCEPT !.attempts = 0] /\ e.job = p.job
    BY <2>2, EntryFacts
  <2>4. /\ Push(e) /\ popped' = NoEntry
        /\ UNCHANGED <<retry, dead, inflight, beating, processes, replaying, skipped, fate, faults>>
    BY <1>3, <2>1, <2>3 DEF Replay
  <2>5. pending' \in Seq(Waiting) /\ ToSet(pending') = ToSet(pending) \cup {e}
    BY <1>0, <2>4, Pushed
  <2>6. DeskInv'
    BY <1>0, <2>4 DEF DeskInv
  <2>7. ASSUME NEW x, Held(x) PROVE Known(x.job)'
    <3>1. CASE x = p
      BY <2>3, <2>5, <3>1 DEF Known, At
    <3>2. CASE x # p
      BY <2>1, <2>4, <2>7, <3>2 DEF Known, At
    <3> QED
      BY <3>1, <3>2
  <2> QED
    BY <1>0, <2>4, <2>5, <2>6, <2>7, DeskStep DEF fate
<1>4. CASE PutBackSkipped
  <2>0. skipped # <<>>
    BY <1>4 DEF PutBackSkipped
  <2>1. PICK l \in Letter : l = Head(skipped) /\ Tail(skipped) \in Seq(Letter) /\ ToSet(skipped) = ToSet(Tail(skipped)) \cup {l}
    BY <1>0, <2>0, HeadAndTail
  <2>2. /\ dead' = Append(dead, l) /\ skipped' = Tail(skipped)
        /\ UNCHANGED <<pending, retry, inflight, beating, processes, replaying, popped, fate, faults>>
    BY <1>4, <2>1 DEF PutBackSkipped
  <2>3. dead' \in Seq(Letter) /\ ToSet(dead') = ToSet(dead) \cup {l}
    BY <1>0, <2>2, Appended
  <2>4. DeskInv'
    BY <1>0, <2>1, <2>2 DEF DeskInv
  <2>5. ASSUME NEW e, Held(e) PROVE Known(e.job)'
    <3>1. \/ e \in ToSet(dead') \/ e \in ToSet(skipped') \/ (e = popped' /\ e # NoEntry)
      BY <2>1, <2>2, <2>3, <2>5
    <3> QED
      BY <3>1 DEF Known, At
  <2> QED
    BY <1>0, <2>2, <2>3, <2>4, <2>5, DeskStep DEF fate
<1>5. CASE ReplayFails
  <2> DEFINE Gone == ToSet(skipped) \cup ({popped} \ {NoEntry})
  <2>1. /\ lost' = lost \cup {e.job : e \in Gone}
        /\ replaying' = NoTenant /\ popped' = NoEntry /\ skipped' = <<>>
        /\ UNCHANGED <<redis, processes, accepted, done, strayed, taken>>
        /\ faults' \in 0 .. MaxFaults
    BY <1>0, <1>5, MaxFaultsAssumption DEF ReplayFails, Fault
  <2>2. \A e \in Gone : e \in Entry
    BY <1>0 DEF ToSet
  <2>3. lost' \subseteq Jobs
    BY <1>0, <2>1, <2>2, EntryFacts
  <2>4. DeskInv'
    BY <2>1 DEF DeskInv
  <2>5. ASSUME NEW e, Held(e) PROVE Known(e.job)'
    <3>1. CASE e \in Gone
      BY <2>1, <3>1 DEF Known
    <3>2. CASE e \in ToSet(dead)
      BY <2>1, <3>2 DEF Known, At, redis
    <3> QED
      BY <2>5, <3>1, <3>2
  <2> QED
    BY <1>0, <2>1, <2>3, <2>4, <2>5, DeskStep DEF redis
<1> QED
  BY <1>1, <1>2, <1>3, <1>4, <1>5

-----------------------------------------------------------------------------
(* Every step *)

LEMMA StepKeeps ==
    ASSUME QueueInv, [Next]_vars
    PROVE  Keeps
<1>1. CASE UNCHANGED vars
  <2>1. QueueInv'
    BY <1>1 DEF QueueInv, RedisInv, ProcessInv, DeskInv, FateInv, vars, redis, processes, starting, desk, fate
  <2>2. NoneDropped
    BY <1>1 DEF NoneDropped, Known, At, vars, redis, processes, desk, fate
  <2> QED
    BY <2>1, <2>2 DEF Keeps
<1>2. CASE \E j \in Jobs : Enqueue(j)
  BY <1>2, EnqueueKeeps
<1>3. CASE \E c \in Consumers : \/ Boot(c) \/ Run(c) \/ HeartbeatExpires(c) \/ Crash(c)
                                 \/ ReclaimFails(c) \/ PromoteFails(c) \/ FailFails(c)
  <2>1. PICK c \in Consumers : \/ Boot(c) \/ Run(c) \/ HeartbeatExpires(c) \/ Crash(c)
                               \/ ReclaimFails(c) \/ PromoteFails(c) \/ FailFails(c)
    BY <1>3
  <2>2. \/ Boot(c) \/ (\E k \in Consumers : Inspect(c, k)) \/ Reclaim(c) \/ Reclaimed(c)
        \/ Started(c) \/ ReclaimFails(c) \/ HeartbeatExpires(c)
        \/ Beat(c) \/ ReadDue(c) \/ RemoveDue(c) \/ Requeue(c) \/ PromoteFails(c)
        \/ Take(c) \/ TakeNothing(c)
        \/ Ack(c) \/ Fail(c) \/ FailFails(c) \/ Crash(c)
    BY <2>1 DEF Run, Promote
  <2> QED
    BY <2>2, StartKeeps, ReserveKeeps, EndKeeps
<1>4. CASE \/ \E t \in Tenants : BeginReplay(t)
           \/ PopDead \/ Replay \/ StopReplay \/ PutBackSkipped \/ ReplayFails
  BY <1>4, ReplayKeeps
<1> QED
  BY <1>1, <1>2, <1>3, <1>4 DEF Next, Step

LEMMA InitHolds == Init => QueueInv /\ NoneForgotten
<1> SUFFICES ASSUME Init PROVE QueueInv /\ NoneForgotten
  OBVIOUS
<1>1. RedisInv
  BY DEF Init, RedisInv
<1>2. ProcessInv
  BY DEF Init, ProcessInv, Steps
<1>3. DeskInv /\ FateInv
  BY MaxFaultsAssumption DEF Init, DeskInv, FateInv
<1> QED
  BY <1>1, <1>2, <1>3 DEF Init, QueueInv, NoneForgotten

(* The lists hold entries that may still be tried, the dead letters those  *)
(* that may not, and no process, reclaim or replay is in a step without    *)
(* what that step works on: durable_queue.py never moves a None.           *)
THEOREM TypeCorrect == Spec => []TypeOK
<1>1. QueueInv => TypeOK
  BY Zenon DEF QueueInv, RedisInv, ProcessInv, DeskInv, FateInv, TypeOK
<1>2. Init => QueueInv
  BY InitHolds
<1>3. QueueInv /\ [Next]_vars => QueueInv'
  BY StepKeeps DEF Keeps
<1> QED
  BY <1>1, <1>2, <1>3, PTL DEF Spec

(* An accepted job is done, or in a Redis list or set, or in the hands of  *)
(* a promotion or a replay, or was lost where the model says a job can be  *)
(* lost: none is forgotten by enqueue, reserve, ack, fail, reclaim_stale,  *)
(* promote_due_retries or replay_dead_letters, whatever crashes between.   *)
THEOREM NothingForgotten == Spec => []NoneForgotten
<1>1. Init => QueueInv /\ NoneForgotten
  BY InitHolds
<1>2. QueueInv /\ NoneForgotten /\ [Next]_vars => QueueInv' /\ NoneForgotten'
  BY StepKeeps, StillKnown DEF Keeps
<1> QED
  BY <1>1, <1>2, PTL DEF Spec

-----------------------------------------------------------------------------
(* Copies of a job: one job has one entry, in one place, and a process     *)
(* works on what its own list holds; but for a job taken from a process    *)
(* that was alive.                                                         *)

Has(s, j) == \E i \in 1 .. Len(s) : s[i].job = j
Once(s, j) == \A i, k \in 1 .. Len(s) : s[i].job = j /\ s[k].job = j => i = k

Kinds == {"pending", "retry", "dead", "skipped", "popped", "inflight", "promoted"}
Spots == Consumers \cup {NoConsumer}

Holding(k, c, j) ==
    \/ k = "pending" /\ c = NoConsumer /\ Has(pending, j)
    \/ k = "retry" /\ c = NoConsumer /\ \E e \in retry : e.job = j
    \/ k = "dead" /\ c = NoConsumer /\ Has(dead, j)
    \/ k = "skipped" /\ c = NoConsumer /\ Has(skipped, j)
    \/ k = "popped" /\ c = NoConsumer /\ popped # NoEntry /\ popped.job = j
    \/ k = "inflight" /\ c \in Consumers /\ Has(inflight[c], j)
    \/ k = "promoted" /\ c \in Consumers /\ pc[c] = "promoted" /\ hand[c].job = j

InOnePlace(j) ==
    \A k, l \in Kinds : \A c, d \in Spots :
        Holding(k, c, j) /\ Holding(l, d, j) => k = l /\ c = d

OnceThere(j) ==
    /\ Once(pending, j) /\ Once(dead, j) /\ Once(skipped, j)
    /\ \A c \in Consumers : Once(inflight[c], j)
    /\ \A e, f \in retry : e.job = j /\ f.job = j => e = f

WorksFromList(j) ==
    \A c \in Consumers : pc[c] = "working" /\ hand[c].job = j => hand[c] \in ToSet(inflight[c])

OnlyAccepted(j) == \A k \in Kinds : \A c \in Spots : Holding(k, c, j) => j \in accepted

OneCopy(j) == InOnePlace(j) /\ OnceThere(j) /\ WorksFromList(j) /\ OnlyAccepted(j)

CopiesInv == \A j \in Jobs \ taken : OneCopy(j)

LEMMA OneCopyIsEnough ==
    ASSUME ProcessInv, RedisInv, CopiesInv
    PROVE  WorkedAlone
<1> SUFFICES ASSUME NEW c \in Consumers, NEW d \in Consumers, c # d,
                    pc[c] = "working", pc[d] = "working", hand[c].job = hand[d].job,
                    hand[c].job \notin taken
             PROVE  FALSE
  BY DEF WorkedAlone
<1>1. PICK e \in Waiting : e = hand[c]
  BY DEF ProcessInv
<1>2. e.job \in Jobs \ taken
  BY <1>1, EntryFacts
<1>3. PICK j \in Jobs \ taken : j = e.job
  BY <1>2
<1>4. OneCopy(j)
  BY DEF CopiesInv
<1>5. hand[c] \in ToSet(inflight[c]) /\ hand[d] \in ToSet(inflight[d])
  BY <1>1, <1>3, <1>4 DEF OneCopy, WorksFromList
<1>6. inflight[c] \in Seq(Waiting) /\ inflight[d] \in Seq(Waiting)
  BY DEF RedisInv
<1>7. Has(inflight[c], j) /\ Has(inflight[d], j)
  BY <1>1, <1>3, <1>5, <1>6 DEF Has, ToSet
<1>8. Holding("inflight", c, j) /\ Holding("inflight", d, j)
  BY <1>7 DEF Holding
<1> QED
  BY <1>4, <1>8 DEF OneCopy, InOnePlace, Kinds, Spots

-----------------------------------------------------------------------------
(* One copy in a sequence *)

(* With one more element at either end.                                    *)
LEMMA CopiesAdded ==
    ASSUME NEW S, NEW s \in Seq(S), NEW e \in S, NEW t \in {<<e>> \o s, Append(s, e)}, NEW j
    PROVE  /\ Has(t, j) <=> Has(s, j) \/ e.job = j
           /\ Once(s, j) /\ (e.job = j => ~ Has(s, j)) => Once(t, j)
<1>1. CASE t = <<e>> \o s
  <2>1. t \in Seq(S) /\ Len(t) = Len(s) + 1 /\ t[1] = e /\ Len(s) \in Nat
    BY <1>1
  <2>2. \A i \in 1 .. Len(s) : i + 1 \in 1 .. Len(t) /\ t[i + 1] = s[i]
    BY <1>1
  <2>3. \A i \in 1 .. Len(t) : i = 1 \/ \E m \in 1 .. Len(s) : i = m + 1 /\ t[i] = s[m]
    <3>1. \A i \in 1 .. Len(t) : i # 1 => i - 1 \in 1 .. Len(s) /\ (i - 1) + 1 = i
      BY <2>1
    <3> QED
      BY <2>2, <3>1
  <2>4. Has(t, j) <=> Has(s, j) \/ e.job = j
    <3>1. 1 \in 1 .. Len(t)
      BY <2>1
    <3> QED
      BY <2>1, <2>2, <2>3, <3>1 DEF Has
  <2>5. ASSUME Once(s, j), e.job = j => ~ Has(s, j) PROVE Once(t, j)
    <3> SUFFICES ASSUME NEW i \in 1 .. Len(t), NEW k \in 1 .. Len(t), t[i].job = j, t[k].job = j
                 PROVE  i = k
      BY DEF Once
    <3>1. ASSUME i # 1, k # 1 PROVE i = k
      <4>1. PICK m \in 1 .. Len(s) : i = m + 1 /\ t[i] = s[m]
        BY <2>3, <3>1
      <4>2. PICK n \in 1 .. Len(s) : k = n + 1 /\ t[k] = s[n]
        BY <2>3, <3>1
      <4> QED
        BY <2>5, <4>1, <4>2 DEF Once
    <3>2. e.job = j => i = 1 /\ k = 1
      BY <2>3, <2>5 DEF Has
    <3>3. i = 1 \/ k = 1 => e.job = j
      BY <2>1
    <3> QED
      BY <3>1, <3>2, <3>3
  <2> QED
    BY <2>4, <2>5
<1>2. CASE t = Append(s, e)
  <2>1. t \in Seq(S) /\ Len(t) = Len(s) + 1 /\ t[Len(t)] = e /\ Len(s) \in Nat
    BY <1>2
  <2>2. \A i \in 1 .. Len(s) : i \in 1 .. Len(t) /\ t[i] = s[i]
    BY <1>2
  <2>3. \A i \in 1 .. Len(t) : i = Len(t) \/ (i \in 1 .. Len(s) /\ t[i] = s[i])
    BY <2>1, <2>2
  <2>4. Has(t, j) <=> Has(s, j) \/ e.job = j
    BY <2>1, <2>2, <2>3 DEF Has
  <2>5. ASSUME Once(s, j), e.job = j => ~ Has(s, j) PROVE Once(t, j)
    <3> SUFFICES ASSUME NEW i \in 1 .. Len(t), NEW k \in 1 .. Len(t), t[i].job = j, t[k].job = j
                 PROVE  i = k
      BY DEF Once
    <3> QED
      BY <2>1, <2>3, <2>5 DEF Has, Once
  <2> QED
    BY <2>4, <2>5
<1> QED
  BY <1>1, <1>2

(* Without the element at one place: the sequence t has the other ones.    *)
LEMMA CopiesWithout ==
    ASSUME NEW S, NEW s \in Seq(S), NEW t \in Seq(S), NEW k \in 1 .. Len(s), NEW j,
           Len(t) = Len(s) - 1,
           \A i \in 1 .. k - 1 : t[i] = s[i],
           \A i \in k .. Len(s) - 1 : t[i] = s[i + 1]
    PROVE  /\ Has(t, j) => Has(s, j)
           /\ Once(s, j) => Once(t, j)
           /\ Once(s, j) /\ s[k].job = j => ~ Has(t, j)
<1> DEFINE Was(i) == IF i < k THEN i ELSE i + 1
<1>1. \A i \in 1 .. Len(t) : Was(i) \in 1 .. Len(s) /\ Was(i) # k /\ t[i] = s[Was(i)]
  OBVIOUS
<1>2. \A i, m \in 1 .. Len(t) : Was(i) = Was(m) => i = m
  OBVIOUS
<1>3. k \in 1 .. Len(s)
  OBVIOUS
<1> HIDE DEF Was
<1>4. Has(t, j) => Has(s, j)
  BY <1>1 DEF Has
<1>5. ASSUME Once(s, j) PROVE Once(t, j)
  <2> SUFFICES ASSUME NEW i \in 1 .. Len(t), NEW m \in 1 .. Len(t), t[i].job = j, t[m].job = j
               PROVE  i = m
    BY DEF Once
  <2>1. Was(i) = Was(m)
    BY <1>1, <1>5 DEF Once
  <2> QED
    BY <1>2, <2>1
<1>6. ASSUME Once(s, j), s[k].job = j, NEW i \in 1 .. Len(t), t[i].job = j PROVE FALSE
  <2>1. Was(i) = k
    BY <1>1, <1>3, <1>6 DEF Once
  <2> QED
    BY <1>1, <2>1
<1> QED
  BY <1>4, <1>5, <1>6 DEF Has

LEMMA CopiesInFront ==
    ASSUME NEW S, NEW s \in Seq(S), s # <<>>, NEW j
    PROVE  /\ Has(Front(s), j) => Has(s, j)
           /\ Once(s, j) => Once(Front(s), j)
           /\ Last(s).job = j => Has(s, j)
           /\ Once(s, j) /\ Last(s).job = j => ~ Has(Front(s), j)
<1>1. /\ Len(s) \in 1 .. Len(s) /\ Last(s) = s[Len(s)]
      /\ Front(s) \in Seq(S) /\ Len(Front(s)) = Len(s) - 1
      /\ \A i \in 1 .. Len(s) - 1 : Front(s)[i] = s[i]
      /\ \A i \in Len(s) .. Len(s) - 1 : Front(s)[i] = s[i + 1]
  BY FrontByPlace
<1>2. /\ Has(Front(s), j) => Has(s, j)
      /\ Once(s, j) => Once(Front(s), j)
      /\ Once(s, j) /\ s[Len(s)].job = j => ~ Has(Front(s), j)
  BY <1>1, CopiesWithout
<1> QED
  BY <1>1, <1>2 DEF Has

LEMMA CopiesInTail ==
    ASSUME NEW S, NEW s \in Seq(S), s # <<>>, NEW j
    PROVE  /\ Has(Tail(s), j) => Has(s, j)
           /\ Once(s, j) => Once(Tail(s), j)
           /\ Head(s).job = j => Has(s, j)
           /\ Once(s, j) /\ Head(s).job = j => ~ Has(Tail(s), j)
<1>1. /\ 1 \in 1 .. Len(s) /\ Head(s) = s[1]
      /\ Tail(s) \in Seq(S) /\ Len(Tail(s)) = Len(s) - 1
      /\ \A i \in 1 .. 1 - 1 : Tail(s)[i] = s[i]
      /\ \A i \in 1 .. Len(s) - 1 : Tail(s)[i] = s[i + 1]
  OBVIOUS
<1>2. /\ Has(Tail(s), j) => Has(s, j)
      /\ Once(s, j) => Once(Tail(s), j)
      /\ Once(s, j) /\ s[1].job = j => ~ Has(Tail(s), j)
  BY <1>1, CopiesWithout
<1> QED
  BY <1>1, <1>2 DEF Has

LEMMA CopiesAfterRemoval ==
    ASSUME NEW S, NEW s \in Seq(S), NEW e, NEW j
    PROVE  /\ Has(RemoveFirst(s, e), j) => Has(s, j)
           /\ Once(s, j) => Once(RemoveFirst(s, e), j)
           /\ Once(s, j) /\ e \in ToSet(s) /\ e.job = j => Has(s, j) /\ ~ Has(RemoveFirst(s, e), j)
<1>1. PICK t \in Seq(S) : t = RemoveFirst(s, e)
  BY RemovedByPlace
<1>2. e \in ToSet(s) => \E i \in 1 .. Len(s) : s[i] = e
  BY DEF ToSet
<1>3. CASE t = s /\ \A i \in 1 .. Len(s) : s[i] # e
  BY <1>1, <1>2, <1>3
<1>4. CASE /\ Len(t) = Len(s) - 1
           /\ \E k \in 1 .. Len(s) : /\ s[k] = e
                                     /\ \A i \in 1 .. k - 1 : t[i] = s[i]
                                     /\ \A i \in k .. Len(s) - 1 : t[i] = s[i + 1]
  <2>1. PICK k \in 1 .. Len(s) : /\ s[k] = e
                                 /\ \A i \in 1 .. k - 1 : t[i] = s[i]
                                 /\ \A i \in k .. Len(s) - 1 : t[i] = s[i + 1]
    BY <1>4
  <2>2. /\ Has(t, j) => Has(s, j)
        /\ Once(s, j) => Once(t, j)
        /\ Once(s, j) /\ s[k].job = j => ~ Has(t, j)
    BY <1>4, <2>1, CopiesWithout
  <2> QED
    BY <1>1, <2>1, <2>2 DEF Has
<1> QED
  BY <1>1, <1>3, <1>4, RemovedByPlace

-----------------------------------------------------------------------------
(* What a step may do to the copies of one job                             *)

(* They stay where they are or go: no place has a job it did not have.     *)
CopiesStay(j) ==
    /\ \A k \in Kinds : \A c \in Spots : Holding(k, c, j)' => Holding(k, c, j)
    /\ accepted \subseteq accepted'

(* Or the copy is found in one place only, the job having been accepted.   *)
CopyMoves(j) ==
    /\ \E l \in Kinds : \E d \in Spots :
           \A k \in Kinds : \A c \in Spots : Holding(k, c, j)' => k = l /\ c = d
    /\ j \in accepted'

LEMMA PlacesKeep ==
    ASSUME NEW j, InOnePlace(j), OnlyAccepted(j), CopiesStay(j) \/ CopyMoves(j)
    PROVE  InOnePlace(j)' /\ OnlyAccepted(j)'
<1>1. CASE CopiesStay(j)
  BY <1>1 DEF CopiesStay, InOnePlace, OnlyAccepted
<1>2. CASE CopyMoves(j)
  BY <1>2 DEF CopyMoves, InOnePlace, OnlyAccepted
<1> QED
  BY <1>1, <1>2

(* A job that is in one place is in no other.                              *)
LEMMA NowhereElse ==
    ASSUME NEW j, InOnePlace(j), NEW l \in Kinds, NEW d \in Spots, Holding(l, d, j)
    PROVE  \A k \in Kinds : \A c \in Spots : Holding(k, c, j) => k = l /\ c = d
  BY DEF InOnePlace

(* A copy that only one place can lose, and only one gain, moves.          *)
LEMMA CopyMoved ==
    ASSUME NEW j, InOnePlace(j), OnlyAccepted(j), accepted \subseteq accepted',
           NEW l \in Kinds, NEW b \in Spots, Holding(l, b, j), ~ Holding(l, b, j)',
           NEW m \in Kinds, NEW d \in Spots,
           \A k \in Kinds : \A c \in Spots : Holding(k, c, j)' => Holding(k, c, j) \/ (k = m /\ c = d)
    PROVE  CopyMoves(j)
<1>1. \A k \in Kinds : \A c \in Spots : Holding(k, c, j) => k = l /\ c = b
  BY NowhereElse
<1>2. \A k \in Kinds : \A c \in Spots : Holding(k, c, j)' => k = m /\ c = d
  BY <1>1
<1>3. j \in accepted'
  BY DEF OnlyAccepted
<1> QED
  BY <1>2, <1>3 DEF CopyMoves

(* Each place read off its kind.                                           *)
LEMMA HoldingByKind ==
    ASSUME NEW c, NEW j
    PROVE  /\ Holding("pending", c, j) <=> c = NoConsumer /\ Has(pending, j)
           /\ Holding("retry", c, j) <=> c = NoConsumer /\ \E e \in retry : e.job = j
           /\ Holding("dead", c, j) <=> c = NoConsumer /\ Has(dead, j)
           /\ Holding("skipped", c, j) <=> c = NoConsumer /\ Has(skipped, j)
           /\ Holding("popped", c, j) <=> c = NoConsumer /\ popped # NoEntry /\ popped.job = j
           /\ Holding("inflight", c, j) <=> c \in Consumers /\ Has(inflight[c], j)
           /\ Holding("promoted", c, j) <=> c \in Consumers /\ pc[c] = "promoted" /\ hand[c].job = j
  BY DEF Holding

(* The copy of job i, if j is that job, leaves one place and may come to   *)
(* another.                                                                *)
Leaves(j, i, l, b) == i = j => Holding(l, b, j) /\ ~ Holding(l, b, j)'
ComesTo(j, i, m, d) ==
    \A k \in Kinds : \A c \in Spots :
        Holding(k, c, j)' => Holding(k, c, j) \/ (i = j /\ k = m /\ c = d)

LEMMA MoveKeeps ==
    ASSUME NEW j, OneCopy(j), accepted \subseteq accepted', NEW i,
           NEW l \in Kinds, NEW b \in Spots, Leaves(j, i, l, b),
           NEW m \in Kinds, NEW d \in Spots, ComesTo(j, i, m, d),
           OnceThere(j)', WorksFromList(j)'
    PROVE  OneCopy(j)'
<1>1. CASE i = j
  <2>1. CopyMoves(j)
    BY <1>1, CopyMoved DEF OneCopy, Leaves, ComesTo
  <2> QED
    BY <2>1, PlacesKeep DEF OneCopy
<1>2. CASE i # j
  <2>1. CopiesStay(j)
    BY <1>2 DEF CopiesStay, ComesTo
  <2> QED
    BY <2>1, PlacesKeep DEF OneCopy
<1> QED
  BY <1>1, <1>2

(* No process starts to work, and none loses what it works on.             *)
LEMMA WorkersKeep ==
    ASSUME NEW j, WorksFromList(j),
           \A c \in Consumers : pc'[c] = "working" =>
               /\ pc[c] = "working" /\ hand'[c] = hand[c]
               /\ ToSet(inflight[c]) \subseteq ToSet(inflight'[c])
    PROVE  WorksFromList(j)'
  BY DEF WorksFromList

(* A step that touches no list and moves no entry.                         *)
LEMMA QuietKeeps ==
    ASSUME CopiesInv, UNCHANGED <<pending, retry, dead, skipped, popped, inflight>>,
           taken \subseteq taken', accepted \subseteq accepted',
           \A c \in Consumers : pc'[c] \in {"promoted", "working"} => pc'[c] = pc[c] /\ hand'[c] = hand[c]
    PROVE  CopiesInv'
<1> SUFFICES ASSUME NEW j \in Jobs \ taken' PROVE OneCopy(j)'
  BY DEF CopiesInv
<1>1. OneCopy(j)
  BY DEF CopiesInv
<1>2. CopiesStay(j)
  BY DEF CopiesStay, Holding
<1>3. OnceThere(j)'
  BY <1>1 DEF OneCopy, OnceThere
<1>4. WorksFromList(j)'
  BY <1>1, WorkersKeep DEF OneCopy
<1> QED
  BY <1>1, <1>2, <1>3, <1>4, PlacesKeep DEF OneCopy

-----------------------------------------------------------------------------
(* The steps, one by one *)

LEMMA EnqueueCopies ==
    ASSUME QueueInv, CopiesInv, NEW i \in Jobs, Enqueue(i)
    PROVE  CopiesInv'
<1> DEFINE e == [job |-> i, attempts |-> 0]
<1>1. e \in Waiting /\ e.job = i
  BY EntryFacts
<1> HIDE DEF e
<1>2. /\ pending' = <<e>> \o pending \/ pending' = pending
      /\ i \notin accepted /\ accepted' = accepted \cup {i}
      /\ UNCHANGED <<retry, dead, skipped, popped, inflight, pc, hand, taken>>
  BY DEF Enqueue, e, Push, Cons, processes, desk
<1> SUFFICES ASSUME NEW j \in Jobs \ taken' PROVE OneCopy(j)'
  BY DEF CopiesInv
<1>3. OneCopy(j)
  BY <1>2 DEF CopiesInv
<1>4. i = j => \A k \in Kinds : \A c \in Spots : ~ Holding(k, c, j)
  BY <1>2, <1>3 DEF OneCopy, OnlyAccepted
<1>5. i = j => ~ Has(pending, j)
  BY <1>4 DEF Holding, Kinds, Spots
<1>6. (Has(pending, j)' => Has(pending, j) \/ i = j) /\ Once(pending, j)'
  <2>0. Once(pending, j) /\ pending \in Seq(Waiting)
    BY <1>3 DEF OneCopy, OnceThere, QueueInv, RedisInv
  <2>1. PICK t \in {<<e>> \o pending, Append(pending, e)} : t = <<e>> \o pending
    OBVIOUS
  <2>2. (Has(t, j) <=> Has(pending, j) \/ i = j) /\ Once(t, j)
    BY <1>1, <1>5, <2>0, CopiesAdded
  <2>3. CASE pending' = t
    BY <2>2, <2>3
  <2>4. CASE pending' = pending
    BY <2>0, <2>4
  <2> QED
    BY <1>2, <2>1, <2>3, <2>4
<1>7. CopiesStay(j) \/ CopyMoves(j)
  <2>1. \A k \in Kinds : \A c \in Spots :
            Holding(k, c, j)' => Holding(k, c, j) \/ (i = j /\ k = "pending" /\ c = NoConsumer)
    BY <1>2, <1>6 DEF Holding
  <2>2. CASE i = j
    BY <1>2, <1>4, <2>1, <2>2 DEF CopyMoves, Kinds, Spots
  <2>3. CASE i # j
    BY <1>2, <2>1, <2>3 DEF CopiesStay
  <2> QED
    BY <2>2, <2>3
<1>8. OnceThere(j)'
  BY <1>2, <1>3, <1>6 DEF OneCopy, OnceThere
<1>9. WorksFromList(j)'
  BY <1>2, <1>3 DEF OneCopy, WorksFromList
<1> QED
  BY <1>3, <1>7, <1>8, <1>9, PlacesKeep DEF OneCopy

(* LPUSH onto pending.                                                     *)
LEMMA PushCopies ==
    ASSUME pending \in Seq(Waiting), NEW e \in Waiting, Push(e), NEW j
    PROVE  /\ Has(pending, j)' <=> Has(pending, j) \/ e.job = j
           /\ Once(pending, j) /\ (e.job = j => ~ Has(pending, j)) => Once(pending, j)'
<1>1. PICK t \in {<<e>> \o pending, Append(pending, e)} : t = <<e>> \o pending
  OBVIOUS
<1>2. pending' = t
  BY <1>1 DEF Push, Cons
<1> QED
  BY <1>2, CopiesAdded

(* RPOPLPUSH from the list of a consumer to pending: its owner, if it      *)
(* works on the entry, has its job taken.                                  *)
LEMMA ReclaimCopies ==
    ASSUME QueueInv, CopiesInv, NEW c \in Consumers, Reclaim(c)
    PROVE  CopiesInv'
<1>1. PICK k \in Consumers : k = from[c]
  BY DEF Reclaim, QueueInv, ProcessInv
<1>2. inflight[k] \in Seq(Waiting) /\ inflight[k] # <<>> /\ pending \in Seq(Waiting) /\ inflight \in [Consumers -> Seq(Waiting)]
  BY <1>1 DEF Reclaim, QueueInv, RedisInv
<1>3. PICK e \in Waiting : e = Last(inflight[k])
  BY <1>2, LastAndFront
<1>4. /\ Push(e) /\ inflight' = [inflight EXCEPT ![k] = Front(@)]
      /\ taken' = IF WorksOn(k, e) THEN taken \cup {e.job} ELSE taken
      /\ UNCHANGED <<retry, dead, skipped, popped, pc, hand, accepted>>
  BY <1>1, <1>3 DEF Reclaim, processes, desk
<1>5. inflight'[k] = Front(inflight[k]) /\ \A d \in Consumers \ {k} : inflight'[d] = inflight[d]
  BY <1>2, <1>4
<1> SUFFICES ASSUME NEW j \in Jobs, j \notin taken' PROVE OneCopy(j)'
  BY DEF CopiesInv
<1>6. OneCopy(j)
  BY <1>4 DEF CopiesInv
<1>7. /\ Has(Front(inflight[k]), j) => Has(inflight[k], j)
      /\ Once(inflight[k], j) => Once(Front(inflight[k]), j)
      /\ e.job = j => Has(inflight[k], j)
      /\ Once(inflight[k], j) /\ e.job = j => ~ Has(Front(inflight[k]), j)
  BY <1>2, <1>3, CopiesInFront
<1>8. \A d \in Consumers : Once(inflight[d], j)
  BY <1>6 DEF OneCopy, OnceThere
<1>9. e.job = j => Holding("inflight", k, j) /\ ~ Has(pending, j)
  <2> SUFFICES ASSUME e.job = j PROVE Holding("inflight", k, j) /\ ~ Has(pending, j)
    OBVIOUS
  <2>1. Holding("inflight", k, j)
    BY <1>7, HoldingByKind
  <2>2. ~ Holding("pending", NoConsumer, j)
    BY <1>6, <2>1, NowhereElse DEF OneCopy, Kinds, Spots
  <2> QED
    BY <2>1, <2>2, HoldingByKind
<1>10. (Has(pending, j)' => Has(pending, j) \/ e.job = j) /\ Once(pending, j)'
  <2>1. Once(pending, j)
    BY <1>6 DEF OneCopy, OnceThere
  <2> QED
    BY <1>2, <1>4, <1>9, <2>1, PushCopies
<1>11. Leaves(j, e.job, "inflight", k)
  BY <1>5, <1>7, <1>8, <1>9 DEF Leaves, Holding
<1>12. ComesTo(j, e.job, "pending", NoConsumer)
  BY <1>4, <1>5, <1>7, <1>10 DEF ComesTo, Holding
<1>13. OnceThere(j)'
  <2>1. \A d \in Consumers : Once(inflight'[d], j)
    BY <1>5, <1>7, <1>8
  <2> QED
    BY <1>4, <1>6, <1>10, <2>1 DEF OneCopy, OnceThere
<1>14. WorksFromList(j)'
  <2> SUFFICES ASSUME NEW d \in Consumers, pc[d] = "working", hand[d].job = j
               PROVE  hand[d] \in ToSet(inflight'[d])
    BY <1>4 DEF WorksFromList
  <2>1. hand[d] \in ToSet(inflight[d])
    BY <1>6 DEF OneCopy, WorksFromList
  <2>2. CASE d # k
    BY <1>5, <2>1, <2>2
  <2>3. CASE d = k
    <3>1. hand[k] \in ToSet(Front(inflight[k])) \cup {e}
      BY <1>2, <1>3, <2>1, <2>3, LastAndFront
    <3>2. hand[k] # e
      BY <1>4, <2>3 DEF WorksOn
    <3> QED
      BY <1>5, <2>3, <3>1, <3>2
  <2> QED
    BY <2>2, <2>3
<1> QED
  BY <1>4, <1>6, <1>11, <1>12, <1>13, <1>14, MoveKeeps DEF Kinds, Spots

(* ZREM by a process that has read the retry: it moves the entry if it was *)
(* still there, with other processes about to do the same.                 *)
LEMMA RemoveDueCopies ==
    ASSUME QueueInv, CopiesInv, NEW c \in Consumers,
           RemoveDue(c) \/ (PromoteFails(c) /\ pc[c] = "due")
    PROVE  CopiesInv'
<1>1. PICK e \in Waiting : e = hand[c]
  BY DEF RemoveDue, PromoteFails, QueueInv, ProcessInv
<1>2. /\ UNCHANGED <<pending, dead, skipped, popped, inflight, accepted, taken>>
      /\ retry' = retry \ {e} \/ (retry' = retry /\ pc'[c] # "promoted")
      /\ pc'[c] = "promoted" => e \in retry /\ hand'[c] = e /\ retry' = retry \ {e}
      /\ pc'[c] \in {"promoted", "reserving"}
      /\ \A d \in Consumers \ {c} : pc'[d] = pc[d] /\ hand'[d] = hand[d]
  <2>1. CASE RemoveDue(c)
    BY <1>1, <2>1 DEF RemoveDue, Moves, Goto, Hold, desk, fate, QueueInv, ProcessInv
  <2>2. CASE PromoteFails(c) /\ pc[c] = "due"
    BY <1>1, <2>2 DEF PromoteFails, Lose, Goto, Hold, desk, fate, QueueInv, ProcessInv
  <2> QED
    BY <2>1, <2>2
<1>3. CASE pc'[c] # "promoted"
  <2> SUFFICES ASSUME NEW j \in Jobs \ taken' PROVE OneCopy(j)'
    BY DEF CopiesInv
  <2>1. OneCopy(j)
    BY <1>2 DEF CopiesInv
  <2>2. CopiesStay(j)
    BY <1>2, <1>3 DEF CopiesStay, Holding
  <2>3. OnceThere(j)'
    BY <1>2, <2>1 DEF OneCopy, OnceThere
  <2>4. WorksFromList(j)'
    BY <1>2, <2>1, WorkersKeep DEF OneCopy
  <2> QED
    BY <2>1, <2>2, <2>3, <2>4, PlacesKeep DEF OneCopy
<1>4. CASE pc'[c] = "promoted"
  <2> SUFFICES ASSUME NEW j \in Jobs \ taken' PROVE OneCopy(j)'
    BY DEF CopiesInv
  <2>1. OneCopy(j)
    BY <1>2 DEF CopiesInv
  <2>2. \A f \in retry : f.job = j /\ e.job = j => f = e
    BY <1>2, <1>4, <2>1 DEF OneCopy, OnceThere
  <2>3. Leaves(j, e.job, "retry", NoConsumer)
    BY <1>2, <1>4, <2>2 DEF Leaves, Holding
  <2>4. ComesTo(j, e.job, "promoted", c)
    BY <1>2, <1>4 DEF ComesTo, Holding
  <2>5. OnceThere(j)'
    BY <1>2, <2>1 DEF OneCopy, OnceThere
  <2>6. WorksFromList(j)'
    BY <1>2, <2>1, WorkersKeep DEF OneCopy
  <2> QED
    BY <1>2, <2>1, <2>3, <2>4, <2>5, <2>6, MoveKeeps DEF Kinds, Spots
<1> QED
  BY <1>3, <1>4

(* LPUSH of a promoted entry, which the process then lets go of; or not,   *)
(* when the command has failed.                                            *)
LEMMA RequeueCopies ==
    ASSUME QueueInv, CopiesInv, NEW c \in Consumers,
           Requeue(c) \/ (PromoteFails(c) /\ pc[c] = "promoted")
    PROVE  CopiesInv'
<1>1. PICK e \in Waiting : e = hand[c]
  BY DEF Requeue, PromoteFails, QueueInv, ProcessInv
<1>2. /\ UNCHANGED <<retry, dead, skipped, popped, inflight, accepted, taken>>
      /\ Push(e) \/ pending' = pending
      /\ pc[c] = "promoted" /\ pc'[c] = "reserving"
      /\ \A d \in Consumers \ {c} : pc'[d] = pc[d] /\ hand'[d] = hand[d]
  <2>1. CASE Requeue(c)
    BY <1>1, <2>1 DEF Requeue, Goto, Hold, desk, fate, QueueInv, ProcessInv
  <2>2. CASE PromoteFails(c) /\ pc[c] = "promoted"
    BY <1>1, <2>2 DEF PromoteFails, Lose, Goto, Hold, desk, fate, QueueInv, ProcessInv
  <2> QED
    BY <2>1, <2>2
<1> SUFFICES ASSUME NEW j \in Jobs \ taken' PROVE OneCopy(j)'
  BY DEF CopiesInv
<1>3. OneCopy(j)
  BY <1>2 DEF CopiesInv
<1>4. e.job = j => Holding("promoted", c, j) /\ ~ Has(pending, j)
  <2> SUFFICES ASSUME e.job = j PROVE Holding("promoted", c, j) /\ ~ Has(pending, j)
    OBVIOUS
  <2>1. Holding("promoted", c, j)
    BY <1>1, <1>2, HoldingByKind
  <2>2. ~ Holding("pending", NoConsumer, j)
    BY <1>3, <2>1, NowhereElse DEF OneCopy, Kinds, Spots
  <2> QED
    BY <2>1, <2>2, HoldingByKind
<1>5. (Has(pending, j)' => Has(pending, j) \/ e.job = j) /\ Once(pending, j)'
  <2>1. Once(pending, j) /\ pending \in Seq(Waiting)
    BY <1>3 DEF OneCopy, OnceThere, QueueInv, RedisInv
  <2>2. CASE Push(e)
    BY <1>4, <2>1, <2>2, PushCopies
  <2>3. CASE pending' = pending
    BY <2>1, <2>3
  <2> QED
    BY <1>2, <2>2, <2>3
<1>6. Leaves(j, e.job, "promoted", c)
  BY <1>2, <1>4 DEF Leaves, Holding
<1>7. ComesTo(j, e.job, "pending", NoConsumer)
  BY <1>2, <1>5 DEF ComesTo, Holding
<1>8. OnceThere(j)'
  BY <1>2, <1>3, <1>5 DEF OneCopy, OnceThere
<1>9. WorksFromList(j)'
  BY <1>2, <1>3, WorkersKeep DEF OneCopy
<1> QED
  BY <1>2, <1>3, <1>6, <1>7, <1>8, <1>9, MoveKeeps DEF Kinds, Spots

(* BRPOPLPUSH: the entry is in the list of the process before it works on  *)
(* it, or stays there when the answer was lost.                            *)
LEMMA TakeCopies ==
    ASSUME QueueInv, CopiesInv, NEW c \in Consumers,
           Take(c) \/ (TakeNothing(c) /\ ~ (inflight' = inflight /\ pending' = pending))
    PROVE  CopiesInv'
<1>1. pending # <<>> /\ pending \in Seq(Waiting) /\ inflight \in [Consumers -> Seq(Waiting)]
  BY DEF Take, TakeNothing, QueueInv, RedisInv
<1>2. PICK e \in Waiting : e = Last(pending)
  BY <1>1, LastAndFront
<1>3. /\ pending' = Front(pending) /\ inflight' = Moved(c, e)
      /\ UNCHANGED <<retry, dead, skipped, popped, accepted, taken>>
      /\ pc'[c] = "working" => hand'[c] = e
      /\ pc'[c] \in {"working", "idle"} /\ pc[c] = "reserving"
      /\ \A d \in Consumers \ {c} : pc'[d] = pc[d] /\ hand'[d] = hand[d]
  BY <1>2 DEF Take, TakeNothing, Stray, Goto, Hold, desk, fate, QueueInv, ProcessInv
<1>4. PICK t : t = <<e>> \o inflight[c] /\ t \in {<<e>> \o inflight[c], Append(inflight[c], e)}
  OBVIOUS
<1>5. /\ inflight'[c] = t /\ \A d \in Consumers \ {c} : inflight'[d] = inflight[d]
      /\ ToSet(t) = ToSet(inflight[c]) \cup {e}
  <2>1. inflight' = [inflight EXCEPT ![c] = Cons(e, @)]
    BY <1>3 DEF Moved
  <2>2. inflight'[c] = Cons(e, inflight[c])
    BY <1>1, <2>1
  <2>3. ToSet(<<e>> \o inflight[c]) = ToSet(inflight[c]) \cup {e}
    BY <1>1, Prepended
  <2> QED
    BY <1>1, <1>4, <2>1, <2>2, <2>3 DEF Cons
<1> SUFFICES ASSUME NEW j \in Jobs \ taken' PROVE OneCopy(j)'
  BY DEF CopiesInv
<1>6. OneCopy(j)
  BY <1>3 DEF CopiesInv
<1>7. Once(pending, j) /\ \A d \in Consumers : Once(inflight[d], j)
  BY <1>6 DEF OneCopy, OnceThere
<1>8. /\ Has(Front(pending), j) => Has(pending, j)
      /\ Once(pending, j) => Once(Front(pending), j)
      /\ e.job = j => Has(pending, j)
      /\ Once(pending, j) /\ e.job = j => ~ Has(Front(pending), j)
  BY <1>1, <1>2, CopiesInFront
<1>9. e.job = j => Holding("pending", NoConsumer, j) /\ ~ Has(inflight[c], j)
  <2> SUFFICES ASSUME e.job = j PROVE Holding("pending", NoConsumer, j) /\ ~ Has(inflight[c], j)
    OBVIOUS
  <2>1. Holding("pending", NoConsumer, j)
    BY <1>8, HoldingByKind
  <2>2. ~ Holding("inflight", c, j)
    BY <1>6, <2>1, NowhereElse DEF OneCopy, Kinds, Spots
  <2> QED
    BY <2>1, <2>2, HoldingByKind
<1>10. (Has(t, j) => Has(inflight[c], j) \/ e.job = j) /\ Once(t, j)
  <2>1. inflight[c] \in Seq(Waiting)
    BY <1>1
  <2> QED
    BY <1>4, <1>7, <1>9, <2>1, CopiesAdded
<1>11. Leaves(j, e.job, "pending", NoConsumer)
  BY <1>3, <1>7, <1>8, <1>9 DEF Leaves, Holding
<1>12. ComesTo(j, e.job, "inflight", c)
  BY <1>3, <1>5, <1>8, <1>10 DEF ComesTo, Holding
<1>13. OnceThere(j)'
  <2>1. \A d \in Consumers : Once(inflight'[d], j)
    BY <1>5, <1>7, <1>10
  <2> QED
    BY <1>3, <1>6, <1>7, <1>8, <2>1 DEF OneCopy, OnceThere
<1>14. WorksFromList(j)'
  <2> SUFFICES ASSUME NEW d \in Consumers, pc'[d] = "working", hand'[d].job = j
               PROVE  hand'[d] \in ToSet(inflight'[d])
    BY DEF WorksFromList
  <2>1. CASE d = c
    BY <1>3, <1>5, <2>1
  <2>2. CASE d # c
    BY <1>3, <1>5, <1>6, <2>2 DEF OneCopy, WorksFromList
  <2> QED
    BY <2>1, <2>2
<1> QED
  BY <1>3, <1>6, <1>11, <1>12, <1>13, <1>14, MoveKeeps DEF Kinds, Spots

(* ack and fail: LREM takes the entry out of the process's own list, and   *)
(* fail puts it with the retries or the dead letters in the same pipeline. *)
LEMMA EndCopies ==
    ASSUME QueueInv, CopiesInv, NEW c \in Consumers,
           (Ack(c) /\ inflight' = Removed(c)) \/ Fail(c)
    PROVE  CopiesInv'
<1>1. PICK e \in Waiting : e = hand[c]
  BY DEF Ack, Fail, Finished, QueueInv, ProcessInv
<1>2. PICK o : o = Older(e)
  OBVIOUS
<1>3. o.job = e.job /\ (~ Retryable(e) => o \in Entry \ Waiting)
  BY <1>1, <1>2, OlderEntry
<1>4. /\ inflight' = Removed(c) /\ pc[c] = "working"
      /\ UNCHANGED <<pending, skipped, popped, accepted, taken>>
      /\ pc'[c] = "idle" /\ \A d \in Consumers \ {c} : pc'[d] = pc[d] /\ hand'[d] = hand[d]
  BY DEF Ack, Fail, Finished, Goto, Hold, desk, QueueInv, ProcessInv
<1>5. \/ dead' = dead /\ retry' \in {retry, retry \cup {o}}
      \/ ~ Retryable(e) /\ retry' = retry /\ dead' = <<o>> \o dead
  BY <1>1, <1>2 DEF Ack, Fail, Cons
<1>6. inflight \in [Consumers -> Seq(Waiting)] /\ dead \in Seq(Entry \ Waiting)
  BY DEF QueueInv, RedisInv
<1>7. inflight'[c] = RemoveFirst(inflight[c], e) /\ \A d \in Consumers \ {c} : inflight'[d] = inflight[d]
  BY <1>1, <1>4, <1>6 DEF Removed
<1> SUFFICES ASSUME NEW j \in Jobs \ taken' PROVE OneCopy(j)'
  BY DEF CopiesInv
<1>8. OneCopy(j)
  BY <1>4 DEF CopiesInv
<1>9. Once(dead, j) /\ \A d \in Consumers : Once(inflight[d], j)
  BY <1>8 DEF OneCopy, OnceThere
<1>10. e.job = j => e \in ToSet(inflight[c])
  BY <1>1, <1>4, <1>8 DEF OneCopy, WorksFromList
<1>11. /\ Has(RemoveFirst(inflight[c], e), j) => Has(inflight[c], j)
       /\ Once(RemoveFirst(inflight[c], e), j)
       /\ e.job = j => Has(inflight[c], j) /\ ~ Has(RemoveFirst(inflight[c], e), j)
  <2>1. inflight[c] \in Seq(Waiting)
    BY <1>6
  <2> QED
    BY <1>9, <1>10, <2>1, CopiesAfterRemoval
<1>12. e.job = j => Holding("inflight", c, j) /\ ~ Has(dead, j) /\ \A f \in retry : f.job # j
  <2> SUFFICES ASSUME e.job = j
               PROVE  Holding("inflight", c, j) /\ ~ Has(dead, j) /\ \A f \in retry : f.job # j
    OBVIOUS
  <2>1. Holding("inflight", c, j)
    BY <1>11, HoldingByKind
  <2>2. ~ Holding("dead", NoConsumer, j) /\ ~ Holding("retry", NoConsumer, j)
    BY <1>8, <2>1, NowhereElse DEF OneCopy, Kinds, Spots
  <2> QED
    BY <2>1, <2>2, HoldingByKind
<1>13. Leaves(j, e.job, "inflight", c)
  BY <1>7, <1>11, <1>12 DEF Leaves, Holding
<1>14. \A d \in Consumers : Once(inflight'[d], j)
  BY <1>7, <1>9, <1>11
<1>15. WorksFromList(j)'
  <2>1. \A d \in Consumers : pc'[d] = "working" =>
            pc[d] = "working" /\ hand'[d] = hand[d] /\ ToSet(inflight[d]) \subseteq ToSet(inflight'[d])
    BY <1>4, <1>7
  <2> QED
    BY <1>8, <2>1, WorkersKeep DEF OneCopy
<1>16. CASE dead' = dead /\ retry' \in {retry, retry \cup {o}}
  <2>1. ComesTo(j, e.job, "retry", NoConsumer)
    BY <1>3, <1>4, <1>7, <1>11, <1>16 DEF ComesTo, Holding
  <2>2. \A f, g \in retry' : f.job = j /\ g.job = j => f = g
    BY <1>3, <1>8, <1>12, <1>16 DEF OneCopy, OnceThere
  <2>3. OnceThere(j)'
    BY <1>4, <1>8, <1>14, <1>16, <2>2 DEF OneCopy, OnceThere
  <2> QED
    BY <1>4, <1>8, <1>13, <1>15, <2>1, <2>3, MoveKeeps DEF Kinds, Spots
<1>17. CASE ~ Retryable(e) /\ retry' = retry /\ dead' = <<o>> \o dead
  <2>1. PICK t : t = <<o>> \o dead /\ t \in {<<o>> \o dead, Append(dead, o)}
    OBVIOUS
  <2>2. (Has(t, j) <=> Has(dead, j) \/ e.job = j) /\ Once(t, j)
    BY <1>3, <1>6, <1>9, <1>12, <1>17, <2>1, CopiesAdded
  <2>3. ComesTo(j, e.job, "dead", NoConsumer)
    BY <1>4, <1>7, <1>11, <1>17, <2>1, <2>2 DEF ComesTo, Holding
  <2>4. OnceThere(j)'
    BY <1>4, <1>8, <1>14, <1>17, <2>1, <2>2 DEF OneCopy, OnceThere
  <2> QED
    BY <1>4, <1>8, <1>13, <1>15, <2>3, <2>4, MoveKeeps DEF Kinds, Spots
<1> QED
  BY <1>5, <1>16, <1>17

(* The steps that leave every list as it is.                               *)
LEMMA QuietCopies ==
    ASSUME QueueInv, CopiesInv, NEW c \in Consumers,
           \/ Boot(c) \/ (\E k \in Consumers : Inspect(c, k)) \/ Reclaimed(c) \/ Started(c)
           \/ ReclaimFails(c) \/ HeartbeatExpires(c) \/ Beat(c) \/ ReadDue(c)
           \/ (TakeNothing(c) /\ inflight' = inflight /\ pending' = pending)
           \/ (Ack(c) /\ inflight' = inflight) \/ FailFails(c) \/ Crash(c)
    PROVE  CopiesInv'
<1>1. UNCHANGED <<pending, retry, dead, skipped, popped, inflight, accepted, taken>>
  BY DEF Boot, Inspect, Reclaimed, Started, ReclaimFails, HeartbeatExpires, Beat, ReadDue, TakeNothing,
         Ack, FailFails, Crash, Finished, Lose, Stray, redis, desk, fate
<1>2. \A d \in Consumers : pc'[d] \in {"promoted", "working"} => pc'[d] = pc[d] /\ hand'[d] = hand[d]
  <2>1. \A d \in Consumers \ {c} : pc'[d] = pc[d] /\ hand'[d] = hand[d]
    BY DEF Boot, Inspect, Reclaimed, Started, ReclaimFails, HeartbeatExpires, Beat, ReadDue, TakeNothing,
           Ack, FailFails, Crash, Finished, Goto, Hold, processes, QueueInv, ProcessInv
  <2>2. pc'[c] \notin {"promoted", "working"} \/ (pc'[c] = pc[c] /\ hand'[c] = hand[c])
    BY DEF Boot, Inspect, Reclaimed, Started, ReclaimFails, HeartbeatExpires, Beat, ReadDue, TakeNothing,
           Ack, FailFails, Crash, Finished, Goto, Hold, processes, QueueInv, ProcessInv
  <2> QED
    BY <2>1, <2>2
<1> QED
  BY <1>1, <1>2, QuietKeeps

-----------------------------------------------------------------------------
(* The replay of dead letters, entry by entry                              *)

LEMMA PopDeadCopies ==
    ASSUME QueueInv, CopiesInv, PopDead
    PROVE  CopiesInv'
<1>1. dead # <<>> /\ popped = NoEntry /\ dead \in Seq(Entry \ Waiting) /\ skipped \in Seq(Entry \ Waiting)
  BY DEF PopDead, QueueInv, RedisInv, DeskInv
<1>2. PICK e \in Entry \ Waiting : e = Last(dead)
  BY <1>1, LastAndFront
<1>3. /\ dead' = Front(dead)
      /\ UNCHANGED <<pending, retry, inflight, pc, hand, accepted, taken>>
      /\ \/ popped' = e /\ skipped' = skipped
         \/ popped' = NoEntry /\ skipped' = Append(skipped, e)
  BY <1>1, <1>2 DEF PopDead, processes, fate
<1>4. e # NoEntry
  BY EntryFacts
<1> SUFFICES ASSUME NEW j \in Jobs \ taken' PROVE OneCopy(j)'
  BY DEF CopiesInv
<1>5. OneCopy(j)
  BY <1>3 DEF CopiesInv
<1>6. Once(dead, j) /\ Once(skipped, j)
  BY <1>5 DEF OneCopy, OnceThere
<1>7. /\ Has(Front(dead), j) => Has(dead, j)
      /\ Once(Front(dead), j)
      /\ e.job = j => Has(dead, j) /\ ~ Has(Front(dead), j)
  BY <1>1, <1>2, <1>6, CopiesInFront
<1>8. e.job = j => Holding("dead", NoConsumer, j) /\ ~ Has(skipped, j)
  <2> SUFFICES ASSUME e.job = j PROVE Holding("dead", NoConsumer, j) /\ ~ Has(skipped, j)
    OBVIOUS
  <2>1. Holding("dead", NoConsumer, j)
    BY <1>7, HoldingByKind
  <2>2. ~ Holding("skipped", NoConsumer, j)
    BY <1>5, <2>1, NowhereElse DEF OneCopy, Kinds, Spots
  <2> QED
    BY <2>1, <2>2, HoldingByKind
<1>9. Leaves(j, e.job, "dead", NoConsumer)
  BY <1>3, <1>7, <1>8 DEF Leaves, Holding
<1>10. WorksFromList(j)'
  BY <1>3, <1>5, WorkersKeep DEF OneCopy
<1>11. CASE popped' = e /\ skipped' = skipped
  <2>1. ComesTo(j, e.job, "popped", NoConsumer)
    BY <1>1, <1>3, <1>7, <1>11 DEF ComesTo, Holding
  <2>2. OnceThere(j)'
    BY <1>3, <1>5, <1>7, <1>11 DEF OneCopy, OnceThere
  <2> QED
    BY <1>3, <1>5, <1>9, <1>10, <2>1, <2>2, MoveKeeps DEF Kinds, Spots
<1>12. CASE popped' = NoEntry /\ skipped' = Append(skipped, e)
  <2>1. PICK t : t = Append(skipped, e) /\ t \in {<<e>> \o skipped, Append(skipped, e)}
    OBVIOUS
  <2>2. (Has(t, j) <=> Has(skipped, j) \/ e.job = j) /\ Once(t, j)
    BY <1>1, <1>2, <1>6, <1>8, <2>1, CopiesAdded
  <2>3. ComesTo(j, e.job, "skipped", NoConsumer)
    BY <1>3, <1>7, <1>12, <2>1, <2>2 DEF ComesTo, Holding
  <2>4. OnceThere(j)'
    BY <1>3, <1>5, <1>7, <1>12, <2>1, <2>2 DEF OneCopy, OnceThere
  <2> QED
    BY <1>3, <1>5, <1>9, <1>10, <2>3, <2>4, MoveKeeps DEF Kinds, Spots
<1> QED
  BY <1>3, <1>11, <1>12

LEMMA ReplayCopies ==
    ASSUME QueueInv, CopiesInv, Replay
    PROVE  CopiesInv'
<1>1. PICK p \in Entry \ Waiting : p = popped /\ p # NoEntry
  BY DEF Replay, QueueInv, DeskInv
<1>2. PICK e \in Waiting : e = [p EXCEPT !.attempts = 0] /\ e.job = p.job
  BY <1>1, EntryFacts
<1>3. /\ Push(e) /\ popped' = NoEntry
      /\ UNCHANGED <<retry, dead, skipped, inflight, pc, hand, accepted, taken>>
  BY <1>1, <1>2 DEF Replay, processes, fate
<1> SUFFICES ASSUME NEW j \in Jobs \ taken' PROVE OneCopy(j)'
  BY DEF CopiesInv
<1>4. OneCopy(j)
  BY <1>3 DEF CopiesInv
<1>5. e.job = j => Holding("popped", NoConsumer, j) /\ ~ Has(pending, j)
  <2> SUFFICES ASSUME e.job = j PROVE Holding("popped", NoConsumer, j) /\ ~ Has(pending, j)
    OBVIOUS
  <2>1. Holding("popped", NoConsumer, j)
    BY <1>1, <1>2, HoldingByKind
  <2>2. ~ Holding("pending", NoConsumer, j)
    BY <1>4, <2>1, NowhereElse DEF OneCopy, Kinds, Spots
  <2> QED
    BY <2>1, <2>2, HoldingByKind
<1>6. (Has(pending, j)' => Has(pending, j) \/ e.job = j) /\ Once(pending, j)'
  <2>1. Once(pending, j) /\ pending \in Seq(Waiting)
    BY <1>4 DEF OneCopy, OnceThere, QueueInv, RedisInv
  <2> QED
    BY <1>3, <1>5, <2>1, PushCopies
<1>7. Leaves(j, e.job, "popped", NoConsumer)
  BY <1>3, <1>5 DEF Leaves, Holding
<1>8. ComesTo(j, e.job, "pending", NoConsumer)
  BY <1>3, <1>6 DEF ComesTo, Holding
<1>9. OnceThere(j)'
  BY <1>3, <1>4, <1>6 DEF OneCopy, OnceThere
<1>10. WorksFromList(j)'
  BY <1>3, <1>4, WorkersKeep DEF OneCopy
<1> QED
  BY <1>3, <1>4, <1>7, <1>8, <1>9, <1>10, MoveKeeps DEF Kinds, Spots

LEMMA PutBackCopies ==
    ASSUME QueueInv, CopiesInv, PutBackSkipped
    PROVE  CopiesInv'
<1>1. skipped # <<>> /\ skipped \in Seq(Entry \ Waiting) /\ dead \in Seq(Entry \ Waiting)
  BY DEF PutBackSkipped, QueueInv, RedisInv, DeskInv
<1>2. PICK e \in Entry \ Waiting : e = Head(skipped)
  BY <1>1, HeadAndTail
<1>3. PICK t : t = Append(dead, e) /\ t \in {<<e>> \o dead, Append(dead, e)}
  OBVIOUS
<1>4. /\ dead' = t /\ skipped' = Tail(skipped)
      /\ UNCHANGED <<pending, retry, popped, inflight, pc, hand, accepted, taken>>
  BY <1>2, <1>3 DEF PutBackSkipped, processes, fate
<1> SUFFICES ASSUME NEW j \in Jobs \ taken' PROVE OneCopy(j)'
  BY DEF CopiesInv
<1>5. OneCopy(j)
  BY <1>4 DEF CopiesInv
<1>6. Once(dead, j) /\ Once(skipped, j)
  BY <1>5 DEF OneCopy, OnceThere
<1>7. /\ Has(Tail(skipped), j) => Has(skipped, j)
      /\ Once(Tail(skipped), j)
      /\ e.job = j => Has(skipped, j) /\ ~ Has(Tail(skipped), j)
  BY <1>1, <1>2, <1>6, CopiesInTail
<1>8. e.job = j => Holding("skipped", NoConsumer, j) /\ ~ Has(dead, j)
  <2> SUFFICES ASSUME e.job = j PROVE Holding("skipped", NoConsumer, j) /\ ~ Has(dead, j)
    OBVIOUS
  <2>1. Holding("skipped", NoConsumer, j)
    BY <1>7, HoldingByKind
  <2>2. ~ Holding("dead", NoConsumer, j)
    BY <1>5, <2>1, NowhereElse DEF OneCopy, Kinds, Spots
  <2> QED
    BY <2>1, <2>2, HoldingByKind
<1>9. (Has(t, j) <=> Has(dead, j) \/ e.job = j) /\ Once(t, j)
  BY <1>1, <1>2, <1>3, <1>6, <1>8, CopiesAdded
<1>10. Leaves(j, e.job, "skipped", NoConsumer)
  BY <1>4, <1>7, <1>8 DEF Leaves, Holding
<1>11. ComesTo(j, e.job, "dead", NoConsumer)
  BY <1>4, <1>7, <1>9 DEF ComesTo, Holding
<1>12. OnceThere(j)'
  BY <1>4, <1>5, <1>7, <1>9 DEF OneCopy, OnceThere
<1>13. WorksFromList(j)'
  BY <1>4, <1>5, WorkersKeep DEF OneCopy
<1> QED
  BY <1>4, <1>5, <1>10, <1>11, <1>12, <1>13, MoveKeeps DEF Kinds, Spots

LEMMA ReplayFailsCopies ==
    ASSUME CopiesInv, ReplayFails
    PROVE  CopiesInv'
<1>1. /\ popped' = NoEntry /\ skipped' = <<>>
      /\ UNCHANGED <<pending, retry, dead, inflight, pc, hand, accepted, taken>>
  BY DEF ReplayFails, redis, processes
<1> SUFFICES ASSUME NEW j \in Jobs \ taken' PROVE OneCopy(j)'
  BY DEF CopiesInv
<1>2. OneCopy(j)
  BY <1>1 DEF CopiesInv
<1>3. ~ Has(skipped', j) /\ Once(skipped', j)
  BY <1>1 DEF Has, Once
<1>4. CopiesStay(j)
  BY <1>1, <1>3 DEF CopiesStay, Holding
<1>5. OnceThere(j)'
  BY <1>1, <1>2, <1>3 DEF OneCopy, OnceThere
<1>6. WorksFromList(j)'
  BY <1>1, <1>2, WorkersKeep DEF OneCopy
<1> QED
  BY <1>2, <1>4, <1>5, <1>6, PlacesKeep DEF OneCopy

LEMMA StepCopies ==
    ASSUME QueueInv, CopiesInv, [Next]_vars
    PROVE  CopiesInv'
<1>1. CASE UNCHANGED vars \/ (\E t \in Tenants : BeginReplay(t)) \/ StopReplay
  BY <1>1, QuietKeeps DEF vars, BeginReplay, StopReplay, redis, processes, desk, fate
<1>2. CASE \E j \in Jobs : Enqueue(j)
  BY <1>2, EnqueueCopies
<1>3. CASE PopDead \/ Replay \/ PutBackSkipped \/ ReplayFails
  BY <1>3, PopDeadCopies, ReplayCopies, PutBackCopies, ReplayFailsCopies
<1>4. CASE \E c \in Consumers : \/ Boot(c) \/ Run(c) \/ HeartbeatExpires(c) \/ Crash(c)
                                 \/ ReclaimFails(c) \/ PromoteFails(c) \/ FailFails(c)
  <2>1. PICK c \in Consumers : \/ Boot(c) \/ Run(c) \/ HeartbeatExpires(c) \/ Crash(c)
                               \/ ReclaimFails(c) \/ PromoteFails(c) \/ FailFails(c)
    BY <1>4
  <2>2. CASE Reclaim(c) \/ RemoveDue(c) \/ Requeue(c) \/ Take(c) \/ Fail(c)
    BY <2>2, ReclaimCopies, RemoveDueCopies, RequeueCopies, TakeCopies, EndCopies
  <2>3. CASE PromoteFails(c)
    <3>1. pc[c] = "due" \/ pc[c] = "promoted"
      BY <2>3 DEF PromoteFails
    <3> QED
      BY <2>3, <3>1, RemoveDueCopies, RequeueCopies
  <2>4. CASE TakeNothing(c)
    BY <2>4, TakeCopies, QuietCopies
  <2>5. CASE Ack(c)
    <3>1. inflight' = Removed(c) \/ inflight' = inflight
      BY <2>5 DEF Ack
    <3> QED
      BY <2>5, <3>1, EndCopies, QuietCopies
  <2>6. CASE \/ Boot(c) \/ (\E k \in Consumers : Inspect(c, k)) \/ Reclaimed(c) \/ Started(c)
             \/ ReclaimFails(c) \/ HeartbeatExpires(c) \/ Beat(c) \/ ReadDue(c)
             \/ FailFails(c) \/ Crash(c)
    BY <2>6, QuietCopies
  <2> QED
    BY <2>1, <2>2, <2>3, <2>4, <2>5, <2>6 DEF Run, Promote
<1> QED
  BY <1>1, <1>2, <1>3, <1>4 DEF Next, Step

(* Two processes never work on one job at the same time, whichever of them *)
(* crash, are slow or see commands fail, unless reclaim_stale took the job *)
(* from one that was working on it: promote_due_retries, replay and the    *)
(* pipelines of ack and fail never leave a job in two places.              *)
THEOREM NobodyWorksTwice == Spec => []WorkedAlone
<1>1. Init => QueueInv /\ CopiesInv
  <2> SUFFICES ASSUME Init PROVE QueueInv /\ CopiesInv
    OBVIOUS
  <2>1. QueueInv
    BY InitHolds
  <2>2. ASSUME NEW j PROVE OneCopy(j)
    <3>1. \A k, c : ~ Holding(k, c, j)
      BY DEF Init, Holding, Has
    <3>2. OnceThere(j)
      BY DEF Init, OnceThere, Once
    <3>3. WorksFromList(j)
      BY DEF Init, WorksFromList
    <3> QED
      BY <3>1, <3>2, <3>3 DEF OneCopy, InOnePlace, OnlyAccepted
  <2> QED
    BY <2>1, <2>2 DEF CopiesInv
<1>2. QueueInv /\ CopiesInv /\ [Next]_vars => QueueInv' /\ CopiesInv'
  BY StepKeeps, StepCopies DEF Keeps
<1>3. QueueInv /\ CopiesInv => WorkedAlone
  BY OneCopyIsEnough DEF QueueInv
<1> QED
  BY <1>1, <1>2, <1>3, PTL DEF Spec
=============================================================================
