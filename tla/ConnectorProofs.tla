--------------------------- MODULE ConnectorProofs ---------------------------
(***************************************************************************)
(* What holds of a connection for any number of jobs, items and requests,  *)
(* whatever the connector: the types, that two jobs work at once only      *)
(* after a lost lock, that no lock stays behind, and that a backfill that  *)
(* says it is complete has every item.                                     *)
(***************************************************************************)
EXTENDS ConnectorSources, CollectionFacts

-----------------------------------------------------------------------------
(* The inductive invariant *)

(* Where an item is, or why it is nowhere.                                 *)
Covered == synced \cup InHand \cup excused

(* The items that a backfill which got so far has passed.                  *)
PageSize(v) == IF v = "gmail" THEN GmailPage ELSE Limit
Passed(v, fill) ==
    IF fill.phase = "done" THEN Item
    ELSE IF v = "calendar" THEN {m \in Future : fill.phase = "past" \/ m <= fill.cursor * Limit}
    ELSE {m \in Item : m <= fill.cursor * PageSize(v)}

(* A copy of the connection says nothing of a backfill that is not so, and *)
(* an object's lock has no date.                                           *)
Honest(c, v, covered) == c \in Connection /\ Passed(v, c.fill) \subseteq covered
HonestCopy(c, v, covered) == Honest(c, v, covered) /\ c.lock.lease = "undated"
CopiesAreHonest ==
    /\ Honest(db, provider, Covered)
    /\ objs \in [Ref -> Connection]
    /\ \A r \in Ref : HonestCopy(objs[r], provider, Covered)

JobState == [step : Steps, resync : BOOLEAN, conn : Ref \cup {NoRef}, stage : Stages, todo : SUBSET Item]
HookState == [step : {"none", "asked", "deleting"}, conn : Ref \cup {NoRef}, item : Item]
CallState == [kind : {"none", "status", "disconnect"}, conn : Ref \cup {NoRef}]

(* Whoever is at work has an object, and items only while it works.        *)
Sound(e) ==
    /\ e \in JobState
    /\ e.step \in {"discover", "work"} => e.conn \in Ref
    /\ e.step # "work" => e.todo = {}
JobsHold == jobs \in [Job -> JobState] /\ \A j \in Job : Sound(jobs[j])
RequestsHold ==
    /\ hook \in HookState /\ (hook.step # "none" => hook.conn \in Ref)
    /\ call \in CallState /\ (call.kind # "none" => call.conn \in Ref)

RestTyped ==
    /\ provider \in Provider
    /\ cached \in Ref \cup {NoRef}
    /\ memory \in Job \cup {Nobody} /\ beating \in Job \cup {Nobody}
    /\ synced \subseteq Item /\ failed \in BOOLEAN /\ excused \subseteq Item
    /\ requests \in 0 .. MaxRequests /\ faults \in 0 .. 1
    /\ dead \subseteq Job /\ robbed \subseteq Job /\ revived \subseteq Job

(* A job at work has the lock, unless it lost it.                          *)
LockIsKept ==
    \A j \in Job : Working(j) /\ j \notin robbed => db.lock.by = j /\ db.lock.lease # "past"

Inv ==
    /\ RestTyped /\ JobsHold /\ RequestsHold
    /\ CopiesAreHonest
    /\ LockIsKept /\ LockIsAccountedFor

-----------------------------------------------------------------------------
(* Constants and connections *)

(* The invariant has what TypeOK asks for.                                 *)
LEMMA Typing ==
    ASSUME Inv
    PROVE  TypeOK
<1> QED
  BY DEF Inv, RestTyped, JobsHold, RequestsHold, CopiesAreHonest, Honest, TypeOK, JobState, HookState, CallState

(* A set with one element more.                                            *)
LEMMA OneMore ==
    ASSUME NEW S, IsFiniteSet(S), NEW x, NEW n \in Nat, Cardinality(S) <= n
    PROVE  IsFiniteSet(S \cup {x}) /\ Cardinality(S \cup {x}) <= n + 1
<1>1. Cardinality(S) \in Nat
  BY FS_CardinalityType
<1>2. /\ IsFiniteSet(S \cup {x})
      /\ Cardinality(S \cup {x}) = IF x \in S THEN Cardinality(S) ELSE Cardinality(S) + 1
  BY FS_AddElement
<1> QED
  BY <1>1, <1>2

(* There are enough connection objects: one that nobody refers to.         *)
LEMMA FreshRefIsThere == FreshRef \in Ref
<1> DEFINE held == {jobs[j].conn : j \in Job}
           f == [j \in Job |-> jobs[j].conn]
           n == Cardinality(Job)
<1>1. n \in Nat /\ IsFiniteSet(Job)
  BY JobAssumption, FS_CardinalityType
<1>2. f \in Surjection(Job, held)
  BY DEF Surjection
<1>3. IsFiniteSet(held) /\ Cardinality(held) <= n /\ Cardinality(held) \in Nat
  <2> HIDE DEF f, held
  <2> QED
    BY <1>1, <1>2, FS_Surjection, FS_CardinalityType
<1> HIDE DEF held, n
<1> DEFINE n1 == n + 1
           n2 == n1 + 1
<1>4. n1 \in Nat /\ n2 \in Nat
  BY <1>1
<1>11. IsFiniteSet(held \cup {cached}) /\ Cardinality(held \cup {cached}) <= n1
  BY <1>1, <1>3, OneMore
<1>5. /\ IsFiniteSet((held \cup {cached}) \cup {hook.conn})
      /\ Cardinality((held \cup {cached}) \cup {hook.conn}) <= n2
  <2> HIDE DEF n1
  <2> QED
    BY <1>4, <1>11, OneMore
<1>6. /\ IsFiniteSet(((held \cup {cached}) \cup {hook.conn}) \cup {call.conn})
      /\ Cardinality(((held \cup {cached}) \cup {hook.conn}) \cup {call.conn}) <= n2 + 1
  <2> HIDE DEF n2
  <2> QED
    BY <1>4, <1>5, OneMore
<1>7. Referred = ((held \cup {cached}) \cup {hook.conn}) \cup {call.conn}
  BY DEF Referred, held
<1>8. Cardinality(Ref) = n + 4
  BY <1>1, FS_Interval DEF Ref, n
<1>9. ~ (Ref \subseteq Referred)
  <2>1. IsFiniteSet(Referred) /\ Cardinality(Referred) <= n + 3 /\ Cardinality(Referred) \in Nat
    BY <1>1, <1>6, <1>7, FS_CardinalityType
  <2> QED
    BY <2>1, <1>1, <1>8, FS_Subset
<1>10. Ref \ Referred # {} /\ Ref \ Referred \in SUBSET Nat
  BY <1>9 DEF Ref
<1>12. Min(Ref \ Referred) \in Ref \ Referred
  BY <1>10, LeastIsIn
<1> QED
  BY <1>12 DEF FreshRef, Min

(* What a change of one field of a connection leaves.                      *)
LEMMA Changed ==
    ASSUME NEW c \in Connection
    PROVE  /\ c.status \in Status /\ c.lock \in Lock /\ c.fill \in Fill
           /\ \A st \in Status : LET e == [c EXCEPT !.status = st] IN
                 e \in Connection /\ e.status = st /\ e.lock = c.lock /\ e.fill = c.fill
           /\ \A l \in Lock : LET e == [c EXCEPT !.lock = l] IN
                 e \in Connection /\ e.status = c.status /\ e.lock = l /\ e.fill = c.fill
           /\ \A p \in Fill : LET e == [c EXCEPT !.fill = p] IN
                 e \in Connection /\ e.status = c.status /\ e.lock = c.lock /\ e.fill = p
<1> QED
  BY DEF Connection

(* What becomes of locks.                                                  *)
LEMMA Locks ==
    ASSUME NEW l \in Lock
    PROVE  /\ l.by \in Job \cup {Nobody} /\ l.lease \in Lease
           /\ Undated(l) \in Lock /\ Undated(l).by = l.by /\ Undated(l).lease = "undated"
           /\ NoLock \in Lock /\ NoLock.by = Nobody /\ NoLock.lease = "undated"
           /\ \A j \in Job : /\ TakenBy(j) \in Lock /\ TakenBy(j).by = j
                             /\ Undated(TakenBy(j)) \in Lock /\ Undated(TakenBy(j)).by = j
                             /\ Undated(TakenBy(j)).lease = "undated"
                             /\ RunOut(TakenBy(j)) = [by |-> j, lease |-> "past"]
           /\ RunOut(l) \in Lock /\ RunOut(l).by = l.by
           /\ RunOut(l).lease = IF l.lease = "date" THEN "past" ELSE l.lease
<1> QED
  BY DEF Lock, Lease, Undated, NoLock, TakenBy, RunOut

(* What has got nowhere has passed nothing.                                *)
LEMMA NothingPassed ==
    /\ NewFill \in Fill /\ NewFill.phase = "new" /\ NewFill.cursor = 0
    /\ Blank \in Connection /\ Blank.lock.lease = "undated"
    /\ \A v : Passed(v, NewFill) = {} /\ Passed(v, Blank.fill) = {}
<1>1. 0 * Limit = 0 /\ 0 * (Limit + 1) = 0
  BY ItemsAssumption
<1>2. NewFill \in Fill /\ NewFill.phase = "new" /\ NewFill.cursor = 0 /\ Blank.fill = NewFill
  BY ItemsAssumption DEF NewFill, Fill, Blank
<1>3. ASSUME NEW v PROVE Passed(v, NewFill) = {}
  BY <1>1, <1>2 DEF Passed, Future, Item, PageSize, GmailPage
<1>4. Blank \in Connection /\ Blank.lock.lease = "undated"
  BY <1>2 DEF Blank, Connection, Status, Lock, Lease, NoLock
<1> QED
  BY <1>2, <1>3, <1>4

(* What is honest stays so as more is accounted for.                       *)
LEMMA StillHonest ==
    ASSUME NEW v, NEW covered, NEW more, covered \subseteq more, NEW c
    PROVE  /\ Honest(c, v, covered) => Honest(c, v, more)
           /\ HonestCopy(c, v, covered) => HonestCopy(c, v, more)
<1> QED
  BY DEF Honest, HonestCopy

-----------------------------------------------------------------------------
(* What steps do to the copies                                             *)

(* The copies are honest after a step that leaves the objects o.           *)
LEMMA Copies ==
    ASSUME NEW o \in [Ref -> Connection], Objects(o), provider' = provider,
           Honest(db', provider, Covered'), \A r \in Ref : HonestCopy(o[r], provider, Covered')
    PROVE  CopiesAreHonest'
<1>1. objs' = [r \in Ref |-> IF r \in Referred' THEN o[r] ELSE Blank]
  BY DEF Objects
<1>2. HonestCopy(Blank, provider, Covered')
  BY NothingPassed DEF HonestCopy, Honest
<1>3. objs' \in [Ref -> Connection] /\ \A r \in Ref : HonestCopy(objs'[r], provider, Covered')
  BY <1>1, <1>2, NothingPassed
<1> QED
  BY <1>3 DEF CopiesAreHonest, Honest, HonestCopy

(* One of the objects changed, and some more items are accounted for.      *)
LEMMA CopyChanged ==
    ASSUME CopiesAreHonest, provider' = provider, Covered \subseteq Covered',
           NEW r \in Ref, NEW c, HonestCopy(c, provider, Covered')
    PROVE  /\ [objs EXCEPT ![r] = c] \in [Ref -> Connection]
           /\ \A q \in Ref : HonestCopy([objs EXCEPT ![r] = c][q], provider, Covered')
           /\ [objs EXCEPT ![r] = c][r] = c
           /\ \A q \in Ref : HonestCopy(objs[q], provider, Covered')
           /\ Honest(db, provider, Covered')
<1>1. c \in Connection /\ objs \in [Ref -> Connection]
  BY DEF HonestCopy, Honest, CopiesAreHonest
<1>2. \A q \in Ref : HonestCopy(objs[q], provider, Covered')
  BY StillHonest DEF CopiesAreHonest
<1>3. Honest(db, provider, Covered')
  BY StillHonest DEF CopiesAreHonest
<1> QED
  BY <1>1, <1>2, <1>3

(* What is read of the document is an honest copy.                         *)
LEMMA ReadCopy ==
    ASSUME CopiesAreHonest
    PROVE  /\ HonestCopy(FromDoc(db), provider, Covered)
           /\ FromDoc(db).fill = db.fill /\ FromDoc(db).status = db.status
           /\ FromDoc(db).lock = Undated(db.lock)
<1>1. db \in Connection /\ Honest(db, provider, Covered)
  BY DEF CopiesAreHonest, Honest
<1>2. db.lock \in Lock /\ Undated(db.lock) \in Lock /\ Undated(db.lock).lease = "undated"
  BY <1>1, Changed, Locks
<1>3. FromDoc(db) = [db EXCEPT !.lock = Undated(db.lock)]
  BY DEF FromDoc
<1>4. /\ FromDoc(db) \in Connection /\ FromDoc(db).fill = db.fill /\ FromDoc(db).status = db.status
      /\ FromDoc(db).lock = Undated(db.lock)
  BY <1>1, <1>2, <1>3, Changed
<1> QED
  BY <1>1, <1>2, <1>4 DEF HonestCopy, Honest

-----------------------------------------------------------------------------
(* What steps do to the lock                                               *)

SameWorkers == dead' = dead /\ \A j \in Job : Working(j)' <=> Working(j)

(* Saving a copy: who loses the lock by it is robbed, and who gets it back *)
(* without being at work is known.                                         *)
LEMMA CopyWritten ==
    ASSUME Inv, NEW c \in Connection, c.lock.lease = "undated", Written(c), SameWorkers
    PROVE  LockIsKept' /\ LockIsAccountedFor' /\ robbed' \subseteq Job /\ revived' \subseteq Job
<1>1. /\ db' = c
      /\ robbed' = robbed \cup {j \in Job : Working(j) /\ db.lock.by = j /\ c.lock.by # j}
      /\ revived' = {j \in Job : ~Working(j) /\ c.lock.by = j /\ (db.lock.by # j \/ j \in revived)}
  BY DEF Written, Robbed, Revived
<1>2. c.lock \in Lock /\ c.lock.by \in Job \cup {Nobody}
  BY Changed, Locks
<1>3. LockIsKept'
  BY <1>1 DEF Inv, LockIsKept, SameWorkers
<1>4. LockIsAccountedFor'
  BY <1>1, <1>2 DEF Inv, LockIsAccountedFor, SameWorkers, Held
<1> QED
  BY <1>1, <1>3, <1>4 DEF Inv, RestTyped

LEMMA NothingWritten ==
    ASSUME Inv, UNCHANGED <<db, robbed, revived>>, SameWorkers
    PROVE  LockIsKept' /\ LockIsAccountedFor' /\ robbed' \subseteq Job /\ revived' \subseteq Job
<1>1. db.lock.by \in Job \cup {Nobody}
  BY Changed, Locks DEF Inv, CopiesAreHonest, Honest
<1>2. LockIsKept'
  BY DEF Inv, LockIsKept, SameWorkers
<1>3. LockIsAccountedFor'
  BY <1>1 DEF Inv, LockIsAccountedFor, SameWorkers, Held
<1> QED
  BY <1>2, <1>3 DEF Inv, RestTyped

-----------------------------------------------------------------------------
(* What steps do to the jobs                                               *)

(* A job that has not begun, is created, or is over.                       *)
LEMMA JobRows ==
    /\ NoWork \in JobState /\ NoWork.step = "none" /\ NoWork.todo = {}
    /\ LET e == [NoWork EXCEPT !.step = "over"] IN e \in JobState /\ e.step = "over" /\ e.todo = {}
    /\ \A b \in BOOLEAN : LET e == [NoWork EXCEPT !.step = "created", !.resync = b] IN
          e \in JobState /\ e.step = "created" /\ e.todo = {}
<1>1. PICK r : r = [step |-> "none", resync |-> FALSE, conn |-> NoRef, stage |-> "any", todo |-> {}]
  OBVIOUS
<1>2. NoWork = r
  BY <1>1 DEF NoWork
<1>3. /\ r \in JobState /\ r.step = "none" /\ r.todo = {}
  BY <1>1 DEF JobState, Steps, Stages
<1>4. [r EXCEPT !.step = "over"] \in JobState /\ [r EXCEPT !.step = "over"].step = "over"
      /\ [r EXCEPT !.step = "over"].todo = {}
  BY <1>3 DEF JobState, Steps
<1>5. ASSUME NEW b \in BOOLEAN
      PROVE  /\ [r EXCEPT !.step = "created", !.resync = b] \in JobState
             /\ [r EXCEPT !.step = "created", !.resync = b].step = "created"
             /\ [r EXCEPT !.step = "created", !.resync = b].todo = {}
  BY <1>3 DEF JobState, Steps
<1> QED
  BY <1>2, <1>3, <1>4, <1>5

(* One job changes, into what a job may be.                                *)
LEMMA JobTurns ==
    ASSUME JobsHold, NEW j \in Job, NEW e, Sound(e), jobs' = [jobs EXCEPT ![j] = e]
    PROVE  /\ JobsHold' /\ jobs'[j] = e /\ \A k \in Job : k # j => jobs'[k] = jobs[k]
<1>1. jobs' \in [Job -> JobState] /\ jobs'[j] = e /\ \A k \in Job : k # j => jobs'[k] = jobs[k]
  BY DEF JobsHold, Sound
<1> QED
  BY <1>1 DEF JobsHold, Sound

(* What is in hand when one job changes.                                   *)
LEMMA Hands ==
    ASSUME NEW j \in Job, \A k \in Job : k # j => jobs'[k] = jobs[k]
    PROVE  /\ InHand \ jobs[j].todo \subseteq InHand'
           /\ jobs'[j].todo \subseteq InHand' /\ InHand' \subseteq InHand \cup jobs'[j].todo
<1> QED
  BY DEF InHand

(* A new job, and one that ends, change nothing of what the others do.     *)
LEMMA JobIsCreated ==
    ASSUME Inv, NEW resync \in BOOLEAN, Created(resync)
    PROVE  /\ JobsHold' /\ InHand' = InHand /\ (\A k \in Job : Working(k)' <=> Working(k))
           /\ UNCHANGED <<provider, requests, faults>>
<1> DEFINE e == [NoWork EXCEPT !.step = "created", !.resync = resync]
<1>1. PICK j \in Job : jobs[j].step = "none" /\ jobs' = [jobs EXCEPT ![j] = e]
  BY DEF Created
<1>2. e \in JobState /\ e.step = "created" /\ e.todo = {}
  BY JobRows
<1> HIDE DEF e
<1>3. JobsHold' /\ jobs'[j] = e /\ \A k \in Job : k # j => jobs'[k] = jobs[k]
  BY <1>1, <1>2, JobTurns DEF Sound, Inv
<1>4. jobs[j].todo = {}
  BY <1>1 DEF Inv, JobsHold, Sound
<1>5. InHand' = InHand
  BY <1>2, <1>3, <1>4, Hands
<1>6. \A k \in Job : Working(k)' <=> Working(k)
  BY <1>1, <1>2, <1>3 DEF Working
<1> QED
  BY <1>3, <1>5, <1>6 DEF Created

(* So does one that is over with nothing left to do.                       *)
LEMMA JobIsOver ==
    ASSUME Inv, NEW j \in Job, jobs[j].todo = {}, jobs' = [jobs EXCEPT ![j] = [NoWork EXCEPT !.step = "over"]]
    PROVE  /\ JobsHold' /\ InHand' = InHand /\ jobs'[j].conn = NoRef
           /\ ~ Working(j)' /\ \A k \in Job : k # j => (Working(k)' <=> Working(k))
<1> DEFINE e == [NoWork EXCEPT !.step = "over"]
<1>1. jobs' = [jobs EXCEPT ![j] = e]
  OBVIOUS
<1>2. e \in JobState /\ e.step = "over" /\ e.todo = {}
  BY JobRows
<1>7. e.conn = NoRef
  BY DEF NoWork
<1> HIDE DEF e
<1>3. JobsHold' /\ jobs'[j] = e /\ \A k \in Job : k # j => jobs'[k] = jobs[k]
  BY <1>1, <1>2, JobTurns DEF Sound, Inv
<1>5. InHand' = InHand
  BY <1>2, <1>3, Hands
<1>6. ~ Working(j)' /\ \A k \in Job : k # j => (Working(k)' <=> Working(k))
  BY <1>2, <1>3 DEF Working
<1> QED
  BY <1>3, <1>5, <1>6, <1>7

(* A job that gets going, goes on and has an item less to do.              *)
LEMMA JobGoesOn ==
    ASSUME JobsHold, NEW j \in Job
    PROVE  /\ \A r \in Ref : jobs' = [jobs EXCEPT ![j].step = "discover", ![j].conn = r] /\ jobs[j].todo = {}
                 => /\ JobsHold' /\ jobs'[j].todo = {} /\ Working(j)'
                    /\ \A k \in Job : k # j => jobs'[k] = jobs[k]
           /\ \A step \in {"discover", "work"}, todo \in SUBSET Item, stage \in Stages :
                 /\ jobs' = [jobs EXCEPT ![j].step = step, ![j].todo = todo, ![j].stage = stage]
                 /\ step # "work" => todo = {}
                 /\ Working(j)
                 => /\ JobsHold' /\ jobs'[j].todo = todo /\ Working(j)'
                    /\ \A k \in Job : k # j => jobs'[k] = jobs[k]
           /\ \A m \in Item : jobs' = [jobs EXCEPT ![j].todo = @ \ {m}] /\ jobs[j].step = "work"
                 => /\ JobsHold' /\ jobs'[j].todo = jobs[j].todo \ {m} /\ Working(j)'
                    /\ \A k \in Job : k # j => jobs'[k] = jobs[k]
<1>1. PICK e : e = jobs[j]
  OBVIOUS
<1>2. e \in JobState /\ Sound(e) /\ jobs \in [Job -> JobState]
  BY <1>1 DEF JobsHold
<1>3. ASSUME NEW r \in Ref, jobs' = [jobs EXCEPT ![j].step = "discover", ![j].conn = r], e.todo = {}
      PROVE  JobsHold' /\ jobs'[j].todo = {} /\ Working(j)' /\ \A k \in Job : k # j => jobs'[k] = jobs[k]
  <2> DEFINE f == [e EXCEPT !.step = "discover", !.conn = r]
  <2>1. jobs' = [jobs EXCEPT ![j] = f]
    BY <1>1, <1>2, <1>3
  <2>2. f \in JobState /\ f.step = "discover" /\ f.conn = r /\ f.todo = {}
    BY <1>2, <1>3 DEF JobState, Steps
  <2> HIDE DEF f
  <2> QED
    BY <2>1, <2>2, JobTurns DEF Sound, Working
<1>4. ASSUME NEW step \in {"discover", "work"}, NEW todo \in SUBSET Item, NEW stage \in Stages,
             jobs' = [jobs EXCEPT ![j].step = step, ![j].todo = todo, ![j].stage = stage],
             step # "work" => todo = {}, Working(j)
      PROVE  JobsHold' /\ jobs'[j].todo = todo /\ Working(j)' /\ \A k \in Job : k # j => jobs'[k] = jobs[k]
  <2> DEFINE f == [e EXCEPT !.step = step, !.todo = todo, !.stage = stage]
  <2>1. jobs' = [jobs EXCEPT ![j] = f]
    BY <1>1, <1>2, <1>4
  <2>2. f \in JobState /\ f.step = step /\ f.conn = e.conn /\ f.todo = todo
    BY <1>2, <1>4 DEF JobState, Steps
  <2> HIDE DEF f
  <2> QED
    BY <1>1, <1>2, <1>4, <2>1, <2>2, JobTurns DEF Sound, Working
<1>5. ASSUME NEW m \in Item, jobs' = [jobs EXCEPT ![j].todo = @ \ {m}], e.step = "work"
      PROVE  /\ JobsHold' /\ jobs'[j].todo = e.todo \ {m} /\ Working(j)'
             /\ \A k \in Job : k # j => jobs'[k] = jobs[k]
  <2> DEFINE f == [e EXCEPT !.todo = e.todo \ {m}]
  <2>1. jobs' = [jobs EXCEPT ![j] = f]
    BY <1>1, <1>2, <1>5
  <2>2. f \in JobState /\ f.step = e.step /\ f.conn = e.conn /\ f.todo = e.todo \ {m}
    BY <1>2, <1>5 DEF JobState
  <2> HIDE DEF f
  <2> QED
    BY <1>1, <1>2, <1>5, <2>1, <2>2, JobTurns DEF Sound, Working
<1> QED
  BY <1>1, <1>3, <1>4, <1>5
-----------------------------------------------------------------------------
(* Requests                                                                *)

(* What the document, its copies and the lock are after a step.            *)
ConnectionHolds == /\ CopiesAreHonest /\ LockIsKept /\ LockIsAccountedFor
                   /\ cached \in Ref \cup {NoRef} /\ robbed \subseteq Job /\ revived \subseteq Job

(* The connection is read, or what was read is changed and saved.          *)
LEMMA ReadsWell ==
    ASSUME Inv, NEW c, HonestCopy(c, provider, Covered'), Objects([objs EXCEPT ![FreshRef] = c]),
           cached' = FreshRef, UNCHANGED <<db, robbed, revived>>, provider' = provider,
           Covered \subseteq Covered', SameWorkers
    PROVE  ConnectionHolds'
<1>1. FreshRef \in Ref
  BY FreshRefIsThere
<1> DEFINE o == [objs EXCEPT ![FreshRef] = c]
<1>3. /\ o \in [Ref -> Connection] /\ \A q \in Ref : HonestCopy(o[q], provider, Covered')
      /\ Honest(db, provider, Covered')
  BY <1>1, CopyChanged DEF Inv
<1>4. Objects(o)
  OBVIOUS
<1> HIDE DEF o
<1>5. CopiesAreHonest'
  BY <1>3, <1>4, Copies
<1>7. LockIsKept' /\ LockIsAccountedFor' /\ robbed' \subseteq Job /\ revived' \subseteq Job
  BY NothingWritten
<1> QED
  BY <1>1, <1>5, <1>7 DEF ConnectionHolds

LEMMA OnlyReadsWell ==
    ASSUME Inv, Reads, provider' = provider, Covered \subseteq Covered', SameWorkers
    PROVE  ConnectionHolds'
<1>1. HonestCopy(FromDoc(db), provider, Covered')
  BY ReadCopy, StillHonest DEF Inv
<1>2. Objects([objs EXCEPT ![FreshRef] = FromDoc(db)]) /\ cached' = FreshRef /\ UNCHANGED <<db, robbed, revived>>
  BY DEF Reads, WithFresh
<1> QED
  BY <1>1, <1>2, ReadsWell

LEMMA SavesWell ==
    ASSUME Inv, NEW c, HonestCopy(c, provider, Covered'), Saves(c), provider' = provider,
           Covered \subseteq Covered', SameWorkers
    PROVE  ConnectionHolds'
<1>1. FreshRef \in Ref
  BY FreshRefIsThere
<1> DEFINE o == [objs EXCEPT ![FreshRef] = c]
<1>3. o \in [Ref -> Connection] /\ \A q \in Ref : HonestCopy(o[q], provider, Covered')
  BY <1>1, CopyChanged DEF Inv
<1>4. Objects(o) /\ db' = c /\ Written(c) /\ cached' = FreshRef
  BY DEF Saves, Written
<1> HIDE DEF o
<1>5. CopiesAreHonest'
  BY <1>3, <1>4, Copies DEF HonestCopy
<1>7. LockIsKept' /\ LockIsAccountedFor' /\ robbed' \subseteq Job /\ revived' \subseteq Job
  BY <1>4, CopyWritten DEF HonestCopy, Honest
<1> QED
  BY <1>1, <1>4, <1>5, <1>7 DEF ConnectionHolds

(* An object is saved that someone holds, and may have been changed first. *)
LEMMA HeldIsSaved ==
    ASSUME Inv, NEW r \in Ref, NEW c, HonestCopy(c, provider, Covered'), Written(c), cached' = r,
           Objects([objs EXCEPT ![r] = c]) \/ (Objects(objs) /\ c = objs[r]),
           provider' = provider, Covered \subseteq Covered', SameWorkers
    PROVE  ConnectionHolds'
<1> DEFINE o == [objs EXCEPT ![r] = c]
<1>3. o \in [Ref -> Connection] /\ \A q \in Ref : HonestCopy(o[q], provider, Covered')
  BY CopyChanged DEF Inv
<1>4. Objects(o) /\ db' = c
  <2>1. c = objs[r] => o = objs
    BY DEF Inv, CopiesAreHonest
  <2> QED
    BY <2>1 DEF Written
<1> HIDE DEF o
<1>5. CopiesAreHonest'
  BY <1>3, <1>4, Copies DEF HonestCopy
<1>7. LockIsKept' /\ LockIsAccountedFor' /\ robbed' \subseteq Job /\ revived' \subseteq Job
  BY CopyWritten DEF HonestCopy, Honest
<1> QED
  BY <1>5, <1>7 DEF ConnectionHolds

(* Objects go that nobody refers to any more, and nothing else happens.    *)
LEMMA ObjectsGo ==
    ASSUME Inv, Objects(objs), UNCHANGED <<db, robbed, revived>>, cached' \in Ref \cup {NoRef},
           provider' = provider, Covered \subseteq Covered', SameWorkers
    PROVE  ConnectionHolds'
<1>1. /\ objs \in [Ref -> Connection] /\ Honest(db, provider, Covered')
      /\ \A q \in Ref : HonestCopy(objs[q], provider, Covered')
  BY StillHonest DEF Inv, CopiesAreHonest
<1>2. CopiesAreHonest'
  BY <1>1, Copies
<1> QED
  BY <1>2, NothingWritten DEF ConnectionHolds

(* A request counts, and is served for the same connector.                 *)
LEMMA AskedWell ==
    ASSUME Inv, Asked
    PROVE  requests' \in 0 .. MaxRequests /\ faults' \in 0 .. 1 /\ provider' = provider
<1> QED
  BY ItemsAssumption DEF Inv, RestTyped, Asked

(* What a step that leaves the jobs and the items alone need not show.     *)
LEMMA NobodyTurns ==
    ASSUME Inv, UNCHANGED <<jobs, dead, synced, excused>>
    PROVE  JobsHold' /\ SameWorkers /\ Covered' = Covered
<1> QED
  BY DEF Inv, JobsHold, Sound, SameWorkers, Working, Covered, InHand

(* Nor one that creates a job.                                             *)
LEMMA SomeoneIsCreated ==
    ASSUME Inv, NEW resync \in BOOLEAN, Created(resync), UNCHANGED <<dead, synced, excused>>
    PROVE  /\ JobsHold' /\ SameWorkers /\ Covered' = Covered
           /\ requests' \in 0 .. MaxRequests /\ faults' \in 0 .. 1 /\ provider' = provider
<1>1. JobsHold' /\ InHand' = InHand /\ (\A k \in Job : Working(k)' <=> Working(k))
      /\ UNCHANGED <<provider, requests, faults>>
  BY JobIsCreated
<1> QED
  BY <1>1 DEF Inv, RestTyped, SameWorkers, Covered

(* A request that asks nothing but the connection.                         *)
LEMMA Holds ==
    ASSUME Inv, ConnectionHolds', JobsHold', RequestsHold', provider' = provider,
           requests' \in 0 .. MaxRequests, faults' \in 0 .. 1,
           UNCHANGED <<memory, beating, synced, failed, dead, excused>>
    PROVE  Inv'
<1>1. RestTyped'
  BY DEF Inv, RestTyped, ConnectionHolds
<1> QED
  BY <1>1 DEF Inv, ConnectionHolds

(* A step that leaves requests and webhooks alone.                         *)
LEMMA SameRequests ==
    ASSUME Inv, UNCHANGED <<hook, call>>
    PROVE  RequestsHold'
<1> QED
  BY DEF Inv, RequestsHold

(* Saving the configuration, and the schedule.                             *)
LEMMA SavesAndStarts ==
    ASSUME Inv, NEW refused, NEW afresh, SaveAndStart(refused, afresh)
    PROVE  Inv'
<1> DEFINE c == [FromDoc(db) EXCEPT !.status = "syncing",
                                    !.fill = IF afresh /\ synced = {} THEN NewFill ELSE @]
<1>1. UNCHANGED <<memory, beating, hook, call, synced, failed, dead, excused>>
  BY DEF SaveAndStart
<1>2. RequestsHold'
  BY <1>1, SameRequests
<1>3. CASE Asked /\ UNCHANGED jobs /\ Reads
  <2>1. JobsHold' /\ SameWorkers /\ Covered' = Covered
    BY <1>1, <1>3, NobodyTurns
  <2>2. requests' \in 0 .. MaxRequests /\ faults' \in 0 .. 1 /\ provider' = provider
    BY <1>3, AskedWell
  <2>3. ConnectionHolds'
    BY <1>3, <2>1, <2>2, OnlyReadsWell
  <2> QED
    BY <1>1, <1>2, <2>1, <2>2, <2>3, Holds
<1>4. CASE Created(FALSE) /\ Saves(c)
  <2>1. /\ JobsHold' /\ SameWorkers /\ Covered' = Covered
        /\ requests' \in 0 .. MaxRequests /\ faults' \in 0 .. 1 /\ provider' = provider
    BY <1>1, <1>4, SomeoneIsCreated
  <2>2. HonestCopy(c, provider, Covered')
    <3>1. PICK d : d = FromDoc(db)
      OBVIOUS
    <3>2. d \in Connection /\ d.lock.lease = "undated" /\ Passed(provider, d.fill) \subseteq Covered
      BY <3>1, ReadCopy DEF Inv, HonestCopy, Honest
    <3>3. PICK p : p = IF afresh /\ synced = {} THEN NewFill ELSE d.fill
      OBVIOUS
    <3>4. p \in Fill /\ Passed(provider, p) \subseteq Covered
      BY <3>2, <3>3, NothingPassed, Changed
    <3>5. c = [d EXCEPT !.status = "syncing", !.fill = p]
      BY <3>1, <3>2, <3>3 DEF Connection
    <3>6. c \in Connection /\ c.lock = d.lock /\ c.fill = p
      BY <3>2, <3>4, <3>5 DEF Connection, Status
    <3> QED
      BY <2>1, <3>2, <3>4, <3>6 DEF HonestCopy, Honest
  <2> HIDE DEF c
  <2>3. ConnectionHolds'
    BY <1>4, <2>1, <2>2, SavesWell
  <2> QED
    BY <1>1, <1>2, <2>1, <2>3, Holds
<1> QED
  BY <1>3, <1>4 DEF SaveAndStart
(* The same for a step that changes memory, heartbeat or items.            *)
LEMMA HoldsAlso ==
    ASSUME Inv, ConnectionHolds', JobsHold', RequestsHold', provider' = provider,
           requests' \in 0 .. MaxRequests, faults' \in 0 .. 1,
           memory' \in Job \cup {Nobody}, beating' \in Job \cup {Nobody},
           synced' \subseteq Item, failed' \in BOOLEAN, excused' \subseteq Item, dead' \subseteq Job
    PROVE  Inv'
<1>1. RestTyped'
  BY DEF Inv, RestTyped, ConnectionHolds
<1> QED
  BY <1>1 DEF Inv, ConnectionHolds

LEMMA Reschedules ==
    ASSUME Inv, Reschedule
    PROVE  Inv'
<1>1. /\ Asked /\ UNCHANGED <<memory, beating, jobs, hook, call, synced, failed, dead, excused>>
      /\ Saves(FromDoc(db))
  BY DEF Reschedule, actors
<1>2. JobsHold' /\ SameWorkers /\ Covered' = Covered /\ RequestsHold'
  BY <1>1, NobodyTurns, SameRequests
<1>3. requests' \in 0 .. MaxRequests /\ faults' \in 0 .. 1 /\ provider' = provider
  BY <1>1, AskedWell
<1>4. HonestCopy(FromDoc(db), provider, Covered')
  BY <1>2, ReadCopy DEF Inv
<1>5. ConnectionHolds'
  BY <1>1, <1>2, <1>3, <1>4, SavesWell
<1> QED
  BY <1>1, <1>2, <1>3, <1>5, Holds

(* Where the lock can be had nobody is at work who has not lost it.        *)
LEMMA NobodyHasIt ==
    ASSUME Inv, NEW j \in Job \cup {Nobody}, Grantable(db.lock, j)
    PROVE  \A k \in Job : Working(k) => k \in robbed \/ k = j
<1> QED
  BY NobodyIsNoJob DEF Inv, LockIsKept, Grantable, Held

(* A job started after the lock was tried.                                 *)
LEMMA ProbesAndStarts ==
    ASSUME Inv, NEW resync \in BOOLEAN, ProbeAndStart(resync)
    PROVE  Inv'
<1>1. UNCHANGED <<hook, call, synced, failed, dead, excused>>
  BY DEF ProbeAndStart
<1>2. RequestsHold'
  BY <1>1, SameRequests
<1>3. CASE Asked /\ UNCHANGED <<jobs, memory, beating>> /\ Reads
  <2>1. JobsHold' /\ SameWorkers /\ Covered' = Covered
    BY <1>1, <1>3, NobodyTurns
  <2>2. requests' \in 0 .. MaxRequests /\ faults' \in 0 .. 1 /\ provider' = provider
    BY <1>3, AskedWell
  <2>3. ConnectionHolds'
    BY <1>3, <2>1, <2>2, OnlyReadsWell
  <2> QED
    BY <1>1, <1>2, <1>3, <2>1, <2>2, <2>3, Holds
<1>4. CASE /\ Grantable(db.lock, Nobody) /\ Created(resync) /\ cached' = FreshRef
           /\ db' = [db EXCEPT !.lock = NoLock] /\ memory' = Nobody /\ beating' = Nobody
           /\ Objects([WithFresh EXCEPT ![FreshRef].lock = NoLock])
           /\ revived' = {} /\ robbed' = robbed
  <2>1. /\ JobsHold' /\ SameWorkers /\ Covered' = Covered
        /\ requests' \in 0 .. MaxRequests /\ faults' \in 0 .. 1 /\ provider' = provider
    BY <1>1, <1>4, SomeoneIsCreated
  <2>2. PICK d \in Connection : d = FromDoc(db) /\ d.lock.lease = "undated" /\ HonestCopy(d, provider, Covered)
    BY ReadCopy DEF Inv, HonestCopy, Honest
  <2>3. PICK e : e = [d EXCEPT !.lock = NoLock]
    OBVIOUS
  <2>4. NoLock \in Lock /\ NoLock.by = Nobody /\ NoLock.lease = "undated"
    BY <2>2, Changed, Locks
  <2>5. e \in Connection /\ e.lock = NoLock /\ e.fill = d.fill
    BY <2>2, <2>3, <2>4, Changed
  <2>6. HonestCopy(e, provider, Covered')
    BY <2>1, <2>2, <2>4, <2>5 DEF HonestCopy, Honest
  <2>7. FreshRef \in Ref
    BY FreshRefIsThere
  <2>8. [WithFresh EXCEPT ![FreshRef].lock = NoLock] = [objs EXCEPT ![FreshRef] = e]
    BY <2>2, <2>3, <2>7 DEF WithFresh, Inv, CopiesAreHonest
  <2>9. PICK o : o = [objs EXCEPT ![FreshRef] = e]
    OBVIOUS
  <2>10. o \in [Ref -> Connection] /\ \A q \in Ref : HonestCopy(o[q], provider, Covered')
    BY <2>1, <2>6, <2>7, <2>9, CopyChanged DEF Inv
  <2>11. Honest(db', provider, Covered') /\ db'.lock = NoLock
    <3>1. db \in Connection /\ Passed(provider, db.fill) \subseteq Covered
      BY DEF Inv, CopiesAreHonest, Honest
    <3>2. db' \in Connection /\ db'.lock = NoLock /\ db'.fill = db.fill
      BY <1>4, <2>4, <3>1, Changed
    <3> QED
      BY <2>1, <3>1, <3>2 DEF Honest
  <2>12. CopiesAreHonest'
    BY <1>4, <2>1, <2>8, <2>9, <2>10, <2>11, Copies
  <2>13. LockIsAccountedFor'
    BY <2>4, <2>11 DEF LockIsAccountedFor, Held
  <2>14. LockIsKept'
    BY <1>4, <2>1, NobodyHasIt, NobodyIsNoJob DEF LockIsKept, SameWorkers
  <2>15. ConnectionHolds'
    BY <1>4, <2>7, <2>12, <2>13, <2>14 DEF ConnectionHolds, Inv, RestTyped
  <2> QED
    BY <1>1, <1>2, <1>4, <2>1, <2>15, HoldsAlso DEF Inv, RestTyped
<1> QED
  BY <1>3, <1>4 DEF ProbeAndStart

(* The other ways to start a job read the connection at most.              *)
LEMMA StartsReading ==
    ASSUME Inv,
           \/ \E resync \in BOOLEAN : AskAndStart(resync)
           \/ RetryAtOnce
           \/ \E due, caches \in BOOLEAN : Scheduled(due, caches)
    PROVE  Inv'
<1>1. UNCHANGED <<memory, beating, hook, call, synced, failed, dead, excused>>
  BY DEF AskAndStart, RetryAtOnce, Scheduled
<1>2. RequestsHold'
  BY <1>1, SameRequests
<1>3. (Asked /\ UNCHANGED jobs) \/ \E resync \in BOOLEAN : Created(resync)
  BY DEF AskAndStart, RetryAtOnce, Scheduled
<1>4. /\ JobsHold' /\ SameWorkers /\ Covered' = Covered
      /\ requests' \in 0 .. MaxRequests /\ faults' \in 0 .. 1 /\ provider' = provider
  BY <1>1, <1>3, NobodyTurns, AskedWell, SomeoneIsCreated
<1>5. Reads \/ UNCHANGED <<db, objs, cached, robbed, revived>>
  BY DEF AskAndStart, RetryAtOnce, Scheduled
<1>6. CASE Reads
  BY <1>1, <1>2, <1>4, <1>6, OnlyReadsWell, Holds
<1>7. CASE UNCHANGED <<db, objs, cached, robbed, revived>>
  <2>1. CopiesAreHonest'
    BY <1>4, <1>7 DEF Inv, CopiesAreHonest, Honest, HonestCopy
  <2>2. ConnectionHolds'
    BY <1>4, <1>7, <2>1, NothingWritten DEF ConnectionHolds, Inv, RestTyped
  <2> QED
    BY <1>1, <1>2, <1>4, <2>2, Holds
<1> QED
  BY <1>5, <1>6, <1>7
(* A request that asks Composio, and what it does with the answer.         *)
LEMMA CallReadsWell ==
    ASSUME Inv, StatusReads \/ DisconnectReads
    PROVE  Inv'
<1>1. PICK kind \in {"status", "disconnect"}, c \in {FromDoc(db), [FromDoc(db) EXCEPT !.status = "off"]} :
         CallReads(kind, c)
  BY DEF StatusReads, DisconnectReads
<1>2. /\ Asked /\ call' = [kind |-> kind, conn |-> FreshRef] /\ cached' = FreshRef
      /\ Objects([objs EXCEPT ![FreshRef] = c])
      /\ UNCHANGED <<db, memory, beating, jobs, hook, synced, failed, dead, robbed, revived, excused>>
  BY <1>1 DEF CallReads
<1>3. JobsHold' /\ SameWorkers /\ Covered' = Covered
  BY <1>2, NobodyTurns
<1>4. requests' \in 0 .. MaxRequests /\ faults' \in 0 .. 1 /\ provider' = provider
  BY <1>2, AskedWell
<1>5. HonestCopy(c, provider, Covered')
  <2>1. PICK d \in Connection : d = FromDoc(db) /\ HonestCopy(d, provider, Covered)
    BY ReadCopy DEF Inv, HonestCopy, Honest
  <2>2. PICK e : e = [d EXCEPT !.status = "off"]
    OBVIOUS
  <2>3. "off" \in Status
    BY DEF Status
  <2>4. HonestCopy(e, provider, Covered)
    BY <2>1, <2>2, <2>3, Changed DEF HonestCopy, Honest
  <2> QED
    BY <1>1, <1>3, <2>1, <2>2, <2>4
<1>6. ConnectionHolds'
  BY <1>2, <1>3, <1>4, <1>5, ReadsWell
<1>7. RequestsHold'
  BY <1>2, FreshRefIsThere DEF Inv, RequestsHold, CallState
<1> QED
  BY <1>2, <1>3, <1>4, <1>6, <1>7, Holds

LEMMA CallEnds ==
    ASSUME Inv, call' = NoCall, hook' = hook
    PROVE  RequestsHold'
<1> QED
  BY DEF Inv, RequestsHold, CallState, NoCall

LEMMA CallSavesWell ==
    ASSUME Inv, CallSaves
    PROVE  Inv'
<1> DEFINE r == call.conn
<1>1. /\ call.kind = "status" /\ cached' = r /\ call' = NoCall
      /\ UNCHANGED <<provider, memory, beating, jobs, hook, synced, failed, requests, faults, dead, excused>>
  BY DEF CallSaves
<1>2. r \in Ref /\ RequestsHold'
  BY <1>1, CallEnds DEF Inv, RequestsHold
<1>3. JobsHold' /\ SameWorkers /\ Covered' = Covered
  BY <1>1, NobodyTurns
<1>4. PICK d \in Connection : d = objs[r] /\ HonestCopy(d, provider, Covered)
  BY <1>2 DEF Inv, CopiesAreHonest
<1>5. PICK s \in StatusAfter(d.status) :
         LET c == [d EXCEPT !.status = s] IN Written(c) /\ Objects([objs EXCEPT ![r] = c])
  BY <1>4 DEF CallSaves
<1>6. s \in Status
  BY <1>5, Changed DEF StatusAfter, Status
<1>7. PICK c : c = [d EXCEPT !.status = s]
  OBVIOUS
<1>8. HonestCopy(c, provider, Covered')
  BY <1>3, <1>4, <1>6, <1>7, Changed DEF HonestCopy, Honest
<1>9. Written(c) /\ Objects([objs EXCEPT ![r] = c])
  BY <1>5, <1>7
<1> HIDE DEF r
<1>10. ConnectionHolds'
  BY <1>1, <1>2, <1>3, <1>8, <1>9, HeldIsSaved
<1> QED
  BY <1>1, <1>2, <1>3, <1>10, Holds DEF Inv, RestTyped

LEMMA CallChangesNothingWell ==
    ASSUME Inv, CallChangesNothing
    PROVE  Inv'
<1>1. /\ call' = NoCall /\ Objects(objs)
      /\ UNCHANGED <<provider, db, cached, memory, beating, jobs, hook, synced, failed, requests, faults>>
      /\ UNCHANGED <<dead, robbed, revived, excused>>
  BY DEF CallChangesNothing, marks
<1>2. RequestsHold' /\ JobsHold' /\ SameWorkers /\ Covered' = Covered
  BY <1>1, NobodyTurns, CallEnds
<1>3. ConnectionHolds'
  BY <1>1, <1>2, ObjectsGo DEF Inv, RestTyped
<1> QED
  BY <1>1, <1>2, <1>3, Holds DEF Inv, RestTyped

(* Disconnecting, after the call to Composio and around it.                *)
LEMMA DisconnectsAtOnce ==
    ASSUME Inv, DisconnectAtOnce
    PROVE  Inv'
<1> DEFINE c == [FromDoc(db) EXCEPT !.status = "off", !.lock = NoLock]
<1>1. /\ Asked /\ beating' = Nobody /\ Saves(c)
      /\ UNCHANGED <<memory, jobs, hook, call, synced, failed, dead, excused>>
  BY DEF DisconnectAtOnce, actors
<1>2. RequestsHold' /\ JobsHold' /\ SameWorkers /\ Covered' = Covered
  BY <1>1, NobodyTurns, SameRequests
<1>3. requests' \in 0 .. MaxRequests /\ faults' \in 0 .. 1 /\ provider' = provider
  BY <1>1, AskedWell
<1>4. PICK d \in Connection : d = FromDoc(db) /\ HonestCopy(d, provider, Covered)
  BY ReadCopy DEF Inv, HonestCopy, Honest
<1>5. HonestCopy(c, provider, Covered')
  <2>1. NoLock \in Lock /\ NoLock.lease = "undated"
    BY <1>4, Changed, Locks
  <2>2. c = [d EXCEPT !.status = "off", !.lock = NoLock]
    BY <1>4
  <2>3. c \in Connection /\ c.lock = NoLock /\ c.fill = d.fill
    BY <1>4, <2>1, <2>2 DEF Connection, Status
  <2> QED
    BY <1>2, <1>4, <2>1, <2>3 DEF HonestCopy, Honest
<1> HIDE DEF c
<1>6. ConnectionHolds'
  BY <1>1, <1>2, <1>3, <1>5, SavesWell
<1> QED
  BY <1>1, <1>2, <1>3, <1>6, HoldsAlso DEF Inv, RestTyped

LEMMA DisconnectSavesWell ==
    ASSUME Inv, DisconnectSaves
    PROVE  Inv'
<1> DEFINE r == call.conn
           freed == IF cached = NoRef THEN objs ELSE [objs EXCEPT ![cached].lock = NoLock]
<1>1. /\ call.kind = "disconnect" /\ memory' = Nobody /\ beating' = Nobody /\ cached' = r /\ call' = NoCall
      /\ UNCHANGED <<provider, jobs, hook, synced, failed, requests, faults, dead, excused>>
      /\ Written(freed[r]) /\ Objects(freed)
  BY DEF DisconnectSaves
<1>2. r \in Ref /\ RequestsHold'
  BY <1>1, CallEnds DEF Inv, RequestsHold
<1>3. JobsHold' /\ SameWorkers /\ Covered' = Covered
  BY <1>1, NobodyTurns
<1>4. objs \in [Ref -> Connection] /\ \A q \in Ref : HonestCopy(objs[q], provider, Covered')
  BY <1>3 DEF Inv, CopiesAreHonest
<1>5. freed \in [Ref -> Connection] /\ \A q \in Ref : HonestCopy(freed[q], provider, Covered')
  <2>1. CASE cached = NoRef
    BY <1>4, <2>1
  <2>2. CASE cached \in Ref
    <3>1. PICK d \in Connection : d = objs[cached]
      BY <1>4, <2>2
    <3>2. PICK e : e = [d EXCEPT !.lock = NoLock]
      OBVIOUS
    <3>3. NoLock \in Lock /\ NoLock.lease = "undated"
      BY Changed, Locks
    <3>4. HonestCopy(e, provider, Covered')
      BY <1>4, <2>2, <3>1, <3>2, <3>3, Changed DEF HonestCopy, Honest
    <3>5. freed = [objs EXCEPT ![cached] = e]
      BY <1>4, <2>2, <3>1, <3>2 DEF Ref, NoRef
    <3>6. provider' = provider /\ Covered \subseteq Covered'
      BY <1>1, <1>3
    <3>7. /\ [objs EXCEPT ![cached] = e] \in [Ref -> Connection]
          /\ \A q \in Ref : HonestCopy([objs EXCEPT ![cached] = e][q], provider, Covered')
      <4> HIDE DEF freed
      <4> QED
        BY <2>2, <3>4, <3>6, CopyChanged DEF Inv
    <3> QED
      BY <3>5, <3>7
  <2> QED
    BY <2>1, <2>2 DEF Inv, RestTyped
<1> HIDE DEF freed
<1>6. PICK d \in Connection : d = freed[r] /\ HonestCopy(d, provider, Covered')
  BY <1>2, <1>5
<1> HIDE DEF r
<1>7. CopiesAreHonest'
  <2>1. db' = d
    BY <1>1, <1>6 DEF Written
  <2> QED
    BY <1>1, <1>5, <1>6, <2>1, Copies DEF HonestCopy
<1>8. LockIsKept' /\ LockIsAccountedFor' /\ robbed' \subseteq Job /\ revived' \subseteq Job
  BY <1>1, <1>3, <1>6, CopyWritten DEF HonestCopy
<1>9. ConnectionHolds'
  BY <1>1, <1>2, <1>7, <1>8 DEF ConnectionHolds
<1> QED
  BY <1>1, <1>2, <1>3, <1>9, HoldsAlso DEF Inv, RestTyped
(* No backfill passes more than there is.                                  *)
LEMMA PassedIsItem == ASSUME NEW v, NEW fill PROVE Passed(v, fill) \subseteq Item
<1> QED
  BY DEF Passed, Future

(* A purge forgets every item, and whoever still holds an object may save  *)
(* again what the connection was: then nothing need be in its place.       *)
LEMMA PurgesWell ==
    ASSUME Inv, NEW status \in Status, NEW locks \in BOOLEAN, Purge(status, locks)
    PROVE  Inv'
<1> DEFINE granted == locks /\ Grantable(db.lock, Nobody)
           c == [FromDoc(db) EXCEPT !.fill = NewFill, !.status = status, !.lock = IF granted THEN NoLock ELSE @]
<1>1. /\ Asked /\ memory' = (IF granted THEN Nobody ELSE memory)
      /\ beating' = (IF locks THEN Nobody ELSE beating)
      /\ synced' = {} /\ failed' = FALSE /\ excused' = (IF SomeoneHolds THEN Item ELSE {})
      /\ UNCHANGED <<jobs, hook, call, dead>> /\ Saves(c)
  BY DEF Purge, actors
<1>2. JobsHold' /\ SameWorkers /\ RequestsHold'
  BY <1>1, SameRequests DEF Inv, JobsHold, Sound, SameWorkers, Working
<1>3. requests' \in 0 .. MaxRequests /\ faults' \in 0 .. 1 /\ provider' = provider
  BY <1>1, AskedWell
<1>4. c \in Connection /\ c.lock.lease = "undated" /\ c.fill = NewFill
  <2>1. PICK d \in Connection : d = FromDoc(db) /\ d.lock.lease = "undated"
    BY ReadCopy DEF Inv, HonestCopy, Honest
  <2>2. PICK l : l = IF granted THEN NoLock ELSE d.lock
    OBVIOUS
  <2>3. l \in Lock /\ l.lease = "undated"
    BY <2>1, <2>2, Changed, Locks
  <2>4. NewFill \in Fill
    BY NothingPassed
  <2>5. c = [d EXCEPT !.fill = NewFill, !.status = status, !.lock = l]
    BY <2>1, <2>2 DEF Connection
  <2> HIDE DEF c
  <2> QED
    BY <2>1, <2>3, <2>4, <2>5 DEF Connection
<1> HIDE DEF c, granted
<1>5. HonestCopy(c, provider, Covered')
  BY <1>4, NothingPassed DEF HonestCopy, Honest
<1>6. FreshRef \in Ref /\ cached' = FreshRef /\ Written(c) /\ db' = c /\ Objects([objs EXCEPT ![FreshRef] = c])
  BY <1>1, FreshRefIsThere DEF Saves, Written
<1>7. CopiesAreHonest'
  <2>1. CASE SomeoneHolds
    <3>1. Item \subseteq Covered'
      BY <1>1, <2>1 DEF Covered
    <3>2. objs \in [Ref -> Connection] /\ \A q \in Ref : HonestCopy(objs[q], provider, Covered')
      BY <3>1, PassedIsItem DEF Inv, CopiesAreHonest, HonestCopy, Honest
    <3> DEFINE o == [objs EXCEPT ![FreshRef] = c]
    <3>3. o \in [Ref -> Connection] /\ \A q \in Ref : HonestCopy(o[q], provider, Covered')
      BY <1>4, <1>5, <3>2
    <3> HIDE DEF o
    <3>4. Objects(o)
      BY <1>6 DEF o
    <3> QED
      BY <1>3, <1>5, <1>6, <3>3, <3>4, Copies DEF HonestCopy
  <2>2. CASE ~ SomeoneHolds
    <3> DEFINE o == [q \in Ref |-> IF q = FreshRef THEN c ELSE Blank]
    <3>1. HonestCopy(Blank, provider, Covered')
      BY NothingPassed DEF HonestCopy, Honest
    <3>2. o \in [Ref -> Connection] /\ \A q \in Ref : HonestCopy(o[q], provider, Covered')
      BY <1>4, <1>5, <3>1, NothingPassed
    <3>3. \A q \in Ref : q \in Referred' => q = FreshRef
      BY <1>1, <1>6, <2>2 DEF Referred, SomeoneHolds, Ref, NoRef
    <3>4. objs' = [q \in Ref |-> IF q \in Referred' THEN [objs EXCEPT ![FreshRef] = c][q] ELSE Blank]
      BY <1>6 DEF Objects
    <3>5. [objs EXCEPT ![FreshRef] = c][FreshRef] = c
      BY <1>6 DEF Inv, CopiesAreHonest
    <3>6. \A q \in Ref : q \in Referred' => [objs EXCEPT ![FreshRef] = c][q] = o[q]
      BY <3>3, <3>5
    <3>7. objs' = [q \in Ref |-> IF q \in Referred' THEN o[q] ELSE Blank]
      <4> HIDE DEF o
      <4> QED
        BY <3>4, <3>6
    <3>8. Objects(o)
      <4> HIDE DEF o
      <4> QED
        BY <3>7 DEF Objects
    <3> HIDE DEF o
    <3> QED
      BY <1>3, <1>5, <1>6, <3>2, <3>8, Copies DEF HonestCopy
  <2> QED
    BY <2>1, <2>2
<1>8. LockIsKept' /\ LockIsAccountedFor' /\ robbed' \subseteq Job /\ revived' \subseteq Job
  BY <1>2, <1>4, <1>6, CopyWritten
<1>9. ConnectionHolds'
  BY <1>6, <1>7, <1>8 DEF ConnectionHolds
<1>10. /\ memory' \in Job \cup {Nobody} /\ beating' \in Job \cup {Nobody}
       /\ synced' \subseteq Item /\ failed' \in BOOLEAN /\ excused' \subseteq Item /\ dead' \subseteq Job
  BY <1>1 DEF Inv, RestTyped
<1> QED
  BY <1>2, <1>3, <1>9, <1>10, HoldsAlso

-----------------------------------------------------------------------------
(* Webhooks                                                                *)

(* A webhook is read, saves the object it read, or is dropped.             *)
LEMMA HookEnds ==
    ASSUME Inv, hook' = NoHook, call' = call
    PROVE  RequestsHold'
<1> QED
  BY ItemsAssumption DEF Inv, RequestsHold, HookState, NoHook, Item

LEMMA HookReadsWell ==
    ASSUME Inv, NEW m \in Events, NEW again \in BOOLEAN, NEW step \in {"asked", "deleting"},
           HookReads(m, again, step)
    PROVE  Inv'
<1>1. /\ Asked /\ Reads
      /\ hook' = NoHook \/ hook' = [step |-> step, conn |-> FreshRef, item |-> m]
      /\ UNCHANGED <<memory, beating, jobs, call, synced, failed, dead, excused>>
  BY DEF HookReads
<1>2. JobsHold' /\ SameWorkers /\ Covered' = Covered
  BY <1>1, NobodyTurns
<1>3. requests' \in 0 .. MaxRequests /\ faults' \in 0 .. 1 /\ provider' = provider
  BY <1>1, AskedWell
<1>4. ConnectionHolds'
  BY <1>1, <1>2, <1>3, OnlyReadsWell
<1>5. RequestsHold'
  <2>1. m \in Item /\ FreshRef \in Ref
    BY ItemsAssumption, FreshRefIsThere DEF Item
  <2>2. CASE hook' = [step |-> step, conn |-> FreshRef, item |-> m]
    BY <1>1, <2>1, <2>2 DEF Inv, RequestsHold, HookState
  <2> QED
    BY <1>1, <2>2, HookEnds
<1> QED
  BY <1>1, <1>2, <1>3, <1>4, <1>5, Holds

LEMMA HookSavesWell ==
    ASSUME Inv, HookSaves
    PROVE  Inv'
<1> DEFINE r == hook.conn
<1>1. /\ hook.step = "asked" /\ synced' = synced \cup {hook.item} /\ excused' = excused \ {hook.item}
      /\ Written(objs[r]) /\ cached' = r /\ hook' = NoHook /\ Objects(objs)
      /\ UNCHANGED <<provider, memory, beating, jobs, call, failed, requests, faults, dead>>
  BY DEF HookSaves
<1>2. r \in Ref /\ hook.item \in Item /\ RequestsHold'
  BY <1>1, HookEnds DEF Inv, RequestsHold, HookState
<1>3. JobsHold' /\ SameWorkers /\ Covered \subseteq Covered'
  BY <1>1 DEF Inv, JobsHold, Sound, SameWorkers, Working, Covered, InHand
<1>4. HonestCopy(objs[r], provider, Covered')
  BY <1>2, <1>3, StillHonest DEF Inv, CopiesAreHonest
<1> HIDE DEF r
<1>5. ConnectionHolds'
  BY <1>1, <1>2, <1>3, <1>4, HeldIsSaved
<1> QED
  BY <1>1, <1>2, <1>3, <1>5, HoldsAlso DEF Inv, RestTyped

LEMMA HookGoes ==
    ASSUME Inv, HookDeletes \/ HookDrops
    PROVE  Inv'
<1>1. /\ hook' = NoHook /\ Objects(objs)
      /\ \/ synced' = synced \ {hook.item} /\ excused' = excused \cup {hook.item}
         \/ synced' = synced /\ excused' = excused
      /\ UNCHANGED <<provider, db, cached, memory, beating, jobs, call, failed, requests, faults>>
      /\ UNCHANGED <<dead, robbed, revived>>
  BY DEF HookDeletes, HookDrops, marks
<1>2. hook.item \in Item /\ RequestsHold'
  BY <1>1, HookEnds DEF Inv, RequestsHold, HookState
<1>3. JobsHold' /\ SameWorkers /\ Covered \subseteq Covered'
  BY <1>1 DEF Inv, JobsHold, Sound, SameWorkers, Working, Covered, InHand
<1>4. ConnectionHolds'
  BY <1>1, <1>3, ObjectsGo DEF Inv, RestTyped
<1> QED
  BY <1>1, <1>2, <1>3, <1>4, HoldsAlso DEF Inv, RestTyped
-----------------------------------------------------------------------------
(* Heartbeats, time and faults                                             *)

(* The document changes in its lock alone.                                 *)
LEMMA LockChanged ==
    ASSUME Inv, NEW l \in Lock, db' = [db EXCEPT !.lock = l], UNCHANGED <<provider, objs>>,
           Covered \subseteq Covered'
    PROVE  CopiesAreHonest' /\ db'.lock = l
<1>1. db \in Connection /\ Passed(provider, db.fill) \subseteq Covered
  BY DEF Inv, CopiesAreHonest, Honest
<1>2. db' \in Connection /\ db'.lock = l /\ db'.fill = db.fill
  BY <1>1, Changed
<1>3. Honest(db', provider, Covered')
  BY <1>1, <1>2 DEF Honest
<1>4. objs \in [Ref -> Connection] /\ \A r \in Ref : HonestCopy(objs[r], provider, Covered')
  BY StillHonest DEF Inv, CopiesAreHonest
<1> QED
  BY <1>2, <1>3, <1>4 DEF CopiesAreHonest, HonestCopy, Honest

(* A heartbeat dates the lease of the lock that is held.                   *)
LEMMA Beats ==
    ASSUME Inv, Beat
    PROVE  Inv'
<1> DEFINE l == Beaten(db.lock, beating)
<1>1. /\ beating # Nobody /\ db.lock.by = beating /\ db' = [db EXCEPT !.lock = l]
      /\ UNCHANGED <<provider, objs, cached, memory, beating, jobs, hook, call, synced, failed, requests, faults>>
      /\ UNCHANGED <<dead, robbed, revived, excused>>
  BY DEF Beat, process, actors, marks
<1>2. db.lock \in Lock /\ beating \in Job \cup {Nobody}
  BY Changed DEF Inv, RestTyped, CopiesAreHonest, Honest
<1>3. l \in Lock /\ l.by = db.lock.by /\ l.lease = "date"
  BY <1>1, <1>2 DEF Beaten, Lock, Lease
<1>4. JobsHold' /\ SameWorkers /\ Covered' = Covered /\ RequestsHold'
  BY <1>1, NobodyTurns, SameRequests
<1> HIDE DEF l
<1>5. CopiesAreHonest' /\ db'.lock = l
  BY <1>1, <1>3, <1>4, LockChanged
<1>6. LockIsKept'
  BY <1>1, <1>3, <1>4, <1>5 DEF Inv, LockIsKept, SameWorkers
<1>7. LockIsAccountedFor'
  BY <1>1, <1>2, <1>3, <1>4, <1>5 DEF Inv, LockIsAccountedFor, SameWorkers, Held
<1>8. ConnectionHolds'
  BY <1>1, <1>5, <1>6, <1>7 DEF ConnectionHolds, Inv, RestTyped
<1> QED
  BY <1>1, <1>4, <1>8, Holds DEF Inv, RestTyped

(* A lease that runs out robs whoever works under it.                      *)
LEMMA LeasesRunOut ==
    ASSUME Inv, LeaseRunsOut
    PROVE  Inv'
<1> DEFINE l == IF beating = db.lock.by THEN db.lock ELSE RunOut(db.lock)
<1>1. /\ db' = [db EXCEPT !.lock = l] /\ memory' = (IF beating = memory THEN memory ELSE Nobody)
      /\ robbed' = robbed \cup {j \in Job : Working(j) /\ db'.lock = RunOut(TakenBy(j))}
      /\ UNCHANGED <<provider, objs, cached, beating, jobs, hook, call, synced, failed, requests, faults>>
      /\ UNCHANGED <<dead, revived, excused>>
  BY DEF LeaseRunsOut, actors
<1>2. db.lock \in Lock /\ db.lock.by \in Job \cup {Nobody} /\ db.lock.lease \in Lease
  BY Changed, Locks DEF Inv, CopiesAreHonest, Honest
<1>3. l \in Lock /\ l.by = db.lock.by
  BY <1>2, Locks
<1>4. JobsHold' /\ SameWorkers /\ Covered' = Covered /\ RequestsHold'
  BY <1>1, NobodyTurns, SameRequests
<1> HIDE DEF l
<1>5. CopiesAreHonest' /\ db'.lock = l
  BY <1>1, <1>3, <1>4, LockChanged
<1>6. LockIsKept'
  <2>1. SUFFICES ASSUME NEW j \in Job, Working(j), j \notin robbed' PROVE l.by = j /\ l.lease # "past"
    BY <1>4, <1>5 DEF LockIsKept, SameWorkers
  <2>2. db.lock.by = j /\ j \notin robbed
    BY <1>1, <2>1 DEF Inv, LockIsKept
  <2>3. l # [by |-> j, lease |-> "past"]
    BY <1>1, <1>2, <1>5, <2>1, Locks
  <2>4. l.lease # "past"
    BY <1>3, <2>2, <2>3 DEF Lock
  <2> QED
    BY <1>3, <2>2, <2>4
<1>7. LockIsAccountedFor'
  BY <1>1, <1>2, <1>3, <1>4, <1>5 DEF Inv, LockIsAccountedFor, SameWorkers, Held
<1>8. ConnectionHolds'
  BY <1>1, <1>5, <1>6, <1>7 DEF ConnectionHolds, Inv, RestTyped
<1> QED
  BY <1>1, <1>4, <1>8, HoldsAlso DEF Inv, RestTyped

(* After a crash nobody works; what was in hand is excused.                *)
LEMMA Crashes ==
    ASSUME Inv, Crash
    PROVE  Inv'
<1>1. /\ faults' = 1 /\ cached' = NoRef /\ memory' = Nobody /\ beating' = Nobody
      /\ dead' = dead \cup {j \in Job : Working(j)} /\ excused' = excused \cup InHand
      /\ jobs' = [j \in Job |-> IF jobs[j].step = "none" THEN NoWork ELSE [NoWork EXCEPT !.step = "over"]]
      /\ hook' = NoHook /\ call' = NoCall /\ robbed' = {} /\ Objects(objs)
      /\ UNCHANGED <<provider, db, synced, failed, requests, revived>>
  BY DEF Crash
<1>2. PICK over : over = [NoWork EXCEPT !.step = "over"]
  OBVIOUS
<1>3. Sound(over) /\ over.step = "over" /\ Sound(NoWork) /\ NoWork.step = "none"
  BY <1>2, JobRows DEF Sound
<1>4. \A j \in Job : jobs'[j] \in {NoWork, over}
  BY <1>1, <1>2
<1>5. jobs' \in [Job -> JobState]
  BY <1>1, <1>2, <1>3 DEF Sound
<1>6. JobsHold' /\ \A j \in Job : ~ Working(j)'
  BY <1>3, <1>4, <1>5 DEF JobsHold, Sound, Working
<1>7. Covered \subseteq Covered' /\ InHand \subseteq Item
  <2>1. \A j \in Job : jobs[j].todo \subseteq Item
    BY DEF Inv, JobsHold, JobState
  <2> QED
    BY <1>1, <2>1 DEF Covered, InHand
<1>8. RequestsHold'
  BY <1>1, ItemsAssumption DEF RequestsHold, HookState, CallState, NoHook, NoCall, Item
<1>9. CopiesAreHonest'
  <2>1. /\ objs \in [Ref -> Connection] /\ Honest(db, provider, Covered')
        /\ \A q \in Ref : HonestCopy(objs[q], provider, Covered')
    BY <1>7, StillHonest DEF Inv, CopiesAreHonest
  <2> QED
    BY <1>1, <2>1, Copies
<1>10. LockIsKept'
  BY <1>6 DEF LockIsKept
<1>11. LockIsAccountedFor'
  <2>1. db.lock.by \in Job \cup {Nobody}
    BY Changed, Locks DEF Inv, CopiesAreHonest, Honest
  <2> QED
    BY <1>1, <2>1 DEF Inv, LockIsAccountedFor, Held
<1>12. ConnectionHolds'
  BY <1>1, <1>9, <1>10, <1>11 DEF ConnectionHolds, Inv, RestTyped
<1> QED
  BY <1>1, <1>6, <1>7, <1>8, <1>12, HoldsAlso DEF Inv, RestTyped
-----------------------------------------------------------------------------
(* Jobs                                                                    *)

(* A job gets the lock: in Mongo, or in memory where Mongo fails, or not.  *)
LEMMA JobStartsWell ==
    ASSUME Inv, NEW j \in Job, JobStarts(j)
    PROVE  Inv'
<1>1. PICK c : c = [objs[cached] EXCEPT !.status = "syncing", !.lock = Undated(TakenBy(j))]
  OBVIOUS
<1>2. /\ jobs[j].step = "created" /\ Grantable(db.lock, j) /\ cached # NoRef
      /\ db' = c /\ objs' = [objs EXCEPT ![cached] = c] /\ memory' = j /\ beating' = j
      /\ jobs' = [jobs EXCEPT ![j].step = "discover", ![j].conn = cached] /\ revived' = {}
      /\ UNCHANGED <<provider, cached, hook, call, synced, failed, requests, faults, dead, robbed, excused>>
  BY <1>1 DEF JobStarts
<1>3. cached \in Ref /\ jobs[j].todo = {}
  BY <1>2 DEF Inv, RestTyped, JobsHold, Sound
<1>4. JobsHold' /\ jobs'[j].todo = {} /\ Working(j)' /\ \A k \in Job : k # j => jobs'[k] = jobs[k]
  BY <1>2, <1>3, JobGoesOn DEF Inv
<1>5. Covered' = Covered
  BY <1>2, <1>3, <1>4, Hands DEF Covered
<1>6. PICK d \in Connection : d = objs[cached] /\ HonestCopy(d, provider, Covered)
  BY <1>3 DEF Inv, CopiesAreHonest
<1>7. HonestCopy(c, provider, Covered') /\ c.lock.by = j
  <2>1. d.lock \in Lock
    BY <1>6, Changed
  <2>2. Undated(TakenBy(j)) \in Lock /\ Undated(TakenBy(j)).by = j /\ Undated(TakenBy(j)).lease = "undated"
    BY <2>1, Locks
  <2>3. PICK l : l = Undated(TakenBy(j))
    OBVIOUS
  <2>4. c \in Connection /\ c.lock = l /\ c.fill = d.fill
    BY <1>1, <1>6, <2>2, <2>3 DEF Connection, Status
  <2> QED
    BY <1>5, <1>6, <2>2, <2>3, <2>4 DEF HonestCopy, Honest
<1>8. CopiesAreHonest'
  <2>1. provider' = provider /\ Covered \subseteq Covered'
    BY <1>2, <1>5
  <2>2. objs' \in [Ref -> Connection] /\ \A q \in Ref : HonestCopy(objs'[q], provider, Covered')
    BY <1>2, <1>3, <1>7, <2>1, CopyChanged DEF Inv
  <2> QED
    BY <1>2, <1>7, <2>1, <2>2 DEF CopiesAreHonest, HonestCopy, Honest
<1>9. \A k \in Job : k # j => (Working(k)' <=> Working(k))
  BY <1>4 DEF Working
<1>10. LockIsKept'
  BY <1>2, <1>7, <1>9, NobodyHasIt DEF LockIsKept, HonestCopy
<1>11. LockIsAccountedFor'
  BY <1>2, <1>4, <1>7 DEF LockIsAccountedFor
<1>12. ConnectionHolds' /\ RequestsHold'
  BY <1>2, <1>8, <1>10, <1>11, SameRequests DEF ConnectionHolds, Inv, RestTyped
<1> QED
  BY <1>2, <1>4, <1>12, HoldsAlso DEF Inv, RestTyped

LEMMA JobStartsWithoutMongoWell ==
    ASSUME Inv, NEW j \in Job, JobStartsWithoutMongo(j)
    PROVE  Inv'
<1>1. PICK c : c = [objs[cached] EXCEPT !.lock = Undated(TakenBy(j)), !.status = "syncing"]
  OBVIOUS
<1>2. /\ jobs[j].step = "created" /\ cached # NoRef /\ faults' = 1 /\ memory' = j /\ beating' = j
      /\ jobs' = [jobs EXCEPT ![j].step = "discover", ![j].conn = cached]
      /\ objs' = [objs EXCEPT ![cached].lock = Undated(TakenBy(j)), ![cached].status = "syncing"]
      /\ robbed' = robbed \cup {j}
      /\ UNCHANGED <<provider, db, cached, hook, call, synced, failed, requests, dead, revived, excused>>
  BY DEF JobStartsWithoutMongo
<1>3. cached \in Ref /\ jobs[j].todo = {}
  BY <1>2 DEF Inv, RestTyped, JobsHold, Sound
<1>4. JobsHold' /\ jobs'[j].todo = {} /\ Working(j)' /\ \A k \in Job : k # j => jobs'[k] = jobs[k]
  BY <1>2, <1>3, JobGoesOn DEF Inv
<1>5. Covered' = Covered
  BY <1>2, <1>3, <1>4, Hands DEF Covered
<1>6. PICK d \in Connection : d = objs[cached] /\ HonestCopy(d, provider, Covered)
  BY <1>3 DEF Inv, CopiesAreHonest
<1>7. HonestCopy(c, provider, Covered')
  <2>1. d.lock \in Lock
    BY <1>6, Changed
  <2>2. Undated(TakenBy(j)) \in Lock /\ Undated(TakenBy(j)).by = j /\ Undated(TakenBy(j)).lease = "undated"
    BY <2>1, Locks
  <2>3. PICK l : l = Undated(TakenBy(j))
    OBVIOUS
  <2>4. c \in Connection /\ c.lock = l /\ c.fill = d.fill
    BY <1>1, <1>6, <2>2, <2>3 DEF Connection, Status
  <2> QED
    BY <1>5, <1>6, <2>2, <2>3, <2>4 DEF HonestCopy, Honest
<1>8. CopiesAreHonest'
  <2>1. provider' = provider /\ Covered \subseteq Covered'
    BY <1>2, <1>5
  <2>2. objs' = [objs EXCEPT ![cached] = c]
    <3>1. PICK l : l = Undated(TakenBy(j))
      OBVIOUS
    <3>2. /\ objs' = [objs EXCEPT ![cached].lock = l, ![cached].status = "syncing"]
          /\ c = [objs[cached] EXCEPT !.lock = l, !.status = "syncing"]
          /\ objs \in [Ref -> Connection] /\ objs[cached] \in Connection
      BY <1>1, <1>2, <1>6, <3>1 DEF Inv, CopiesAreHonest
    <3> QED
      BY <1>3, <3>2 DEF Connection
  <2>3. objs' \in [Ref -> Connection] /\ \A q \in Ref : HonestCopy(objs'[q], provider, Covered')
    BY <1>3, <1>7, <2>1, <2>2, CopyChanged DEF Inv
  <2>4. Honest(db, provider, Covered')
    BY <2>1, StillHonest DEF Inv, CopiesAreHonest
  <2> QED
    BY <1>2, <2>3, <2>4 DEF CopiesAreHonest, HonestCopy, Honest
<1>9. \A k \in Job : k # j => (Working(k)' <=> Working(k))
  BY <1>4 DEF Working
<1>10. LockIsKept'
  BY <1>2, <1>9 DEF LockIsKept, Inv
<1>11. LockIsAccountedFor'
  <2>1. db.lock.by \in Job \cup {Nobody}
    BY Changed, Locks DEF Inv, CopiesAreHonest, Honest
  <2> QED
    BY <1>2, <1>4, <1>9, <2>1 DEF Inv, LockIsAccountedFor, Held
<1>12. ConnectionHolds' /\ RequestsHold'
  BY <1>2, <1>8, <1>10, <1>11, SameRequests DEF ConnectionHolds, Inv, RestTyped
<1> QED
  BY <1>2, <1>4, <1>12, HoldsAlso DEF Inv, RestTyped

LEMMA JobDoesNotStart ==
    ASSUME Inv, NEW j \in Job, JobFindsNoConnection(j) \/ JobIsRefused(j)
    PROVE  Inv'
<1>1. jobs[j].step = "created" /\ jobs' = [jobs EXCEPT ![j] = [NoWork EXCEPT !.step = "over"]]
      /\ UNCHANGED <<provider, objs, cached, hook, call, synced, failed, requests, faults, dead, robbed, excused>>
  BY DEF JobFindsNoConnection, JobIsRefused, process, marks
<1>2. jobs[j].todo = {} /\ ~ Working(j)
  BY <1>1 DEF Inv, JobsHold, Sound, Working
<1>3. JobsHold' /\ InHand' = InHand /\ \A k \in Job : Working(k)' <=> Working(k)
  BY <1>1, <1>2, JobIsOver
<1>4. SameWorkers /\ Covered' = Covered /\ RequestsHold'
  BY <1>1, <1>3, SameRequests DEF SameWorkers, Covered
<1>5. CASE JobFindsNoConnection(j)
  <2>1. /\ Grantable(db.lock, j) /\ db' = [db EXCEPT !.lock = NoLock] /\ memory' = Nobody /\ beating' = Nobody
        /\ revived' = {}
    BY <1>5 DEF JobFindsNoConnection
  <2>2. NoLock \in Lock /\ NoLock.by = Nobody
    BY Changed, Locks DEF Inv, CopiesAreHonest, Honest
  <2>3. CopiesAreHonest' /\ db'.lock = NoLock
    BY <1>1, <1>4, <2>1, <2>2, LockChanged
  <2>4. LockIsKept'
    BY <1>1, <1>2, <1>3, <2>1, NobodyHasIt DEF LockIsKept
  <2>5. LockIsAccountedFor'
    BY <2>2, <2>3 DEF LockIsAccountedFor, Held
  <2>6. ConnectionHolds'
    BY <1>1, <2>1, <2>3, <2>4, <2>5 DEF ConnectionHolds, Inv, RestTyped
  <2> QED
    BY <1>1, <1>3, <1>4, <2>1, <2>6, HoldsAlso DEF Inv, RestTyped
<1>6. CASE JobIsRefused(j)
  <2>1. UNCHANGED <<db, memory, beating, revived>>
    BY <1>6 DEF JobIsRefused, process, marks
  <2>2. CopiesAreHonest'
    BY <1>1, <1>4, <2>1 DEF Inv, CopiesAreHonest, Honest, HonestCopy
  <2>3. ConnectionHolds'
    BY <1>1, <1>4, <2>1, <2>2, NothingWritten DEF ConnectionHolds, Inv, RestTyped
  <2> QED
    BY <1>1, <1>3, <1>4, <2>1, <2>3, HoldsAlso DEF Inv, RestTyped
<1> QED
  BY <1>5, <1>6
(* A job that ends, with what its object says by then.                     *)
LEMMA JobEndsWell ==
    ASSUME Inv, NEW j \in Job, Working(j), jobs[j].todo = {}, NEW c, Ends(j, c),
           excused \subseteq excused', excused' \subseteq Item,
           HonestCopy(c, provider, synced \cup InHand \cup excused')
    PROVE  Inv'
<1> DEFINE r == jobs[j].conn
<1>1. PICK e : e = [c EXCEPT !.lock = FreedBy(@, j)]
  OBVIOUS
<1>2. /\ db' = e /\ robbed' = Robbed(c) \ {j} /\ revived' = Revived(c) /\ cached' = r
      /\ jobs' = [jobs EXCEPT ![j] = [NoWork EXCEPT !.step = "over"]]
      /\ memory' \in {memory, Nobody} /\ beating' = Nobody
      /\ UNCHANGED <<provider, hook, call, synced, failed, requests, faults, dead>>
      /\ Objects([objs EXCEPT ![r] = e])
  BY <1>1 DEF Ends
<1>3. /\ JobsHold' /\ InHand' = InHand
      /\ ~ Working(j)' /\ \A k \in Job : k # j => (Working(k)' <=> Working(k))
  BY <1>2, JobIsOver
<1>4. r \in Ref
  BY DEF Inv, JobsHold, Sound, Working
<1>5. Covered' = synced \cup InHand \cup excused' /\ Covered \subseteq Covered' /\ provider' = provider
  BY <1>2, <1>3 DEF Covered
<1>6. /\ c \in Connection /\ c.lock \in Lock /\ c.lock.lease = "undated" /\ c.lock.by \in Job \cup {Nobody}
      /\ HonestCopy(c, provider, Covered')
  BY <1>5, Changed, Locks DEF HonestCopy, Honest
<1>7. PICK l \in Lock : /\ l = FreedBy(c.lock, j) /\ l.lease = "undated"
                        /\ l.by = IF c.lock.by = j THEN Nobody ELSE c.lock.by
  <2>1. NoLock \in Lock /\ NoLock.by = Nobody /\ NoLock.lease = "undated"
    BY <1>6, Locks
  <2> QED
    BY <1>6, <2>1 DEF FreedBy
<1>8. e \in Connection /\ e.lock = l /\ e.fill = c.fill
  <2>1. e = [c EXCEPT !.lock = l]
    BY <1>1, <1>6, <1>7 DEF Connection
  <2> QED
    BY <1>6, <1>7, <2>1, Changed
<1>9. HonestCopy(e, provider, Covered')
  BY <1>6, <1>7, <1>8 DEF HonestCopy, Honest
<1> HIDE DEF r
<1> DEFINE o == [objs EXCEPT ![r] = e]
<1>10. o \in [Ref -> Connection] /\ \A q \in Ref : HonestCopy(o[q], provider, Covered')
  BY <1>4, <1>5, <1>9, CopyChanged DEF Inv
<1>11. Objects(o)
  BY <1>2
<1> HIDE DEF o
<1>12. CopiesAreHonest'
  BY <1>2, <1>5, <1>9, <1>10, <1>11, Copies DEF HonestCopy
<1>13. /\ robbed' = (robbed \cup {k \in Job : Working(k) /\ db.lock.by = k /\ c.lock.by # k}) \ {j}
       /\ revived' = {k \in Job : ~Working(k) /\ c.lock.by = k /\ (db.lock.by # k \/ k \in revived)}
  BY <1>2 DEF Robbed, Revived
<1>14. LockIsKept'
  BY <1>2, <1>3, <1>7, <1>8, <1>13 DEF Inv, LockIsKept
<1>15. LockIsAccountedFor'
  <2>1. SUFFICES ASSUME l.by # Nobody PROVE (Working(l.by))' \/ l.by \in dead \cup revived'
    BY <1>2, <1>8 DEF LockIsAccountedFor, Held
  <2>2. PICK k \in Job : k = l.by /\ k = c.lock.by /\ k # j
    BY <1>6, <1>7, <2>1
  <2>3. CASE Working(k)
    BY <1>3, <2>2, <2>3, <1>2, <1>8
  <2>4. CASE ~ Working(k) /\ k \notin revived'
    <3>1. db.lock.by = k /\ k \notin revived
      BY <1>13, <2>2, <2>4
    <3>2. k \in dead
      BY <2>1, <2>2, <2>4, <3>1 DEF Inv, LockIsAccountedFor, Held
    <3> QED
      BY <2>2, <3>2
  <2> QED
    BY <2>2, <2>3, <2>4
<1>16. ConnectionHolds' /\ RequestsHold'
  BY <1>2, <1>4, <1>12, <1>13, <1>14, <1>15, SameRequests DEF ConnectionHolds, Inv, RestTyped
<1> QED
  BY <1>2, <1>3, <1>16, HoldsAlso DEF Inv, RestTyped

(* A job that goes on with some items, or none, and what its object says   *)
(* then: of the backfill that it may have passed these items.              *)
LEMMA JobWorksWell ==
    ASSUME Inv, NEW j \in Job, Working(j), jobs[j].todo = {},
           NEW todo \in SUBSET Item, NEW stage \in Stages, NEW c, NEW before,
           \/ KeepsNothing
           \/ Keeps(j, before) /\ HonestCopy(before, provider, synced \cup InHand \cup todo \cup excused'),
           Works(j, todo, stage, c),
           excused \subseteq excused', excused' \subseteq Item,
           HonestCopy(c, provider, synced \cup InHand \cup todo \cup excused')
    PROVE  Inv'
<1> DEFINE r == jobs[j].conn
           step == IF todo = {} THEN "discover" ELSE "work"
<1>1. /\ jobs' = [jobs EXCEPT ![j].step = step, ![j].todo = todo, ![j].stage = stage]
      /\ UNCHANGED <<provider, memory, beating, hook, call, synced, failed, requests, faults, dead>>
      /\ Objects([objs EXCEPT ![r] = c])
  BY DEF Works
<1>2. step \in {"discover", "work"} /\ (step # "work" => todo = {})
  OBVIOUS
<1> HIDE DEF step
<1>3. JobsHold' /\ jobs'[j].todo = todo /\ Working(j)' /\ \A k \in Job : k # j => jobs'[k] = jobs[k]
  BY <1>1, <1>2, JobGoesOn DEF Inv
<1>4. Covered' = synced \cup InHand \cup todo \cup excused' /\ Covered \subseteq Covered' /\ provider' = provider
  BY <1>1, <1>3, Hands DEF Covered
<1>5. SameWorkers
  BY <1>1, <1>3 DEF SameWorkers, Working
<1>6. r \in Ref
  BY DEF Inv, JobsHold, Sound, Working
<1> HIDE DEF r
<1> DEFINE o == [objs EXCEPT ![r] = c]
<1>7. HonestCopy(c, provider, Covered')
  BY <1>4
<1>8. /\ o \in [Ref -> Connection] /\ \A q \in Ref : HonestCopy(o[q], provider, Covered')
      /\ Honest(db, provider, Covered')
  BY <1>4, <1>6, <1>7, CopyChanged DEF Inv
<1>9. Objects(o)
  BY <1>1
<1> HIDE DEF o
<1>10. ConnectionHolds'
  <2>1. CASE KeepsNothing
    <3>1. UNCHANGED <<db, cached, robbed, revived>>
      BY <2>1 DEF KeepsNothing
    <3>2. CopiesAreHonest'
      BY <1>4, <1>8, <1>9, <3>1, Copies
    <3> QED
      BY <1>5, <3>1, <3>2, NothingWritten DEF ConnectionHolds, Inv, RestTyped
  <2>2. CASE Keeps(j, before) /\ HonestCopy(before, provider, synced \cup InHand \cup todo \cup excused')
    <3>1. Written(before) /\ cached' = r /\ db' = before
      BY <2>2 DEF Keeps, Written, r
    <3>2. HonestCopy(before, provider, Covered')
      BY <1>4, <2>2
    <3>3. CopiesAreHonest'
      BY <1>4, <1>8, <1>9, <3>1, <3>2, Copies DEF HonestCopy
    <3>4. LockIsKept' /\ LockIsAccountedFor' /\ robbed' \subseteq Job /\ revived' \subseteq Job
      BY <1>5, <3>1, <3>2, CopyWritten DEF HonestCopy, Honest
    <3> QED
      BY <1>6, <3>1, <3>3, <3>4 DEF ConnectionHolds
  <2> QED
    BY <2>1, <2>2
<1>11. RequestsHold'
  BY <1>1, SameRequests
<1> QED
  BY <1>1, <1>3, <1>10, <1>11, HoldsAlso DEF Inv, RestTyped

(* An item that is through is recorded or excused.                         *)
LEMMA ItemIsThrough ==
    ASSUME Inv, NEW j \in Job, NEW m \in Item, JobSkips(j, m) \/ JobRecords(j, m) \/ JobLosesItem(j, m)
    PROVE  Inv'
<1> DEFINE r == jobs[j].conn
<1>1. /\ jobs[j].step = "work" /\ jobs' = [jobs EXCEPT ![j].todo = @ \ {m}]
      /\ Written(objs[r]) /\ cached' = r /\ Objects(objs)
      /\ UNCHANGED <<provider, memory, beating, hook, call, requests, faults, dead>>
  BY DEF JobSkips, JobRecords, JobLosesItem, JobIsThroughWith, Keeps
<1>2. /\ synced \subseteq synced' /\ synced' \subseteq Item /\ failed' \in BOOLEAN /\ excused' \subseteq Item
      /\ m \in synced' \cup excused' /\ excused \subseteq synced' \cup excused'
  BY DEF JobSkips, JobRecords, JobLosesItem, Inv, RestTyped
<1>3. /\ JobsHold' /\ jobs'[j].todo = jobs[j].todo \ {m} /\ Working(j)'
      /\ \A k \in Job : k # j => jobs'[k] = jobs[k]
  BY <1>1, JobGoesOn DEF Inv
<1>4. Covered \subseteq Covered'
  BY <1>2, <1>3, Hands DEF Covered
<1>5. SameWorkers
  BY <1>1, <1>3 DEF SameWorkers, Working
<1>6. r \in Ref
  BY <1>1 DEF Inv, JobsHold, Sound
<1>7. HonestCopy(objs[r], provider, Covered')
  BY <1>4, <1>6, StillHonest DEF Inv, CopiesAreHonest
<1> HIDE DEF r
<1>8. ConnectionHolds'
  BY <1>1, <1>4, <1>5, <1>6, <1>7, HeldIsSaved
<1>9. RequestsHold'
  BY <1>1, SameRequests
<1> QED
  BY <1>1, <1>2, <1>3, <1>8, <1>9, HoldsAlso DEF Inv, RestTyped
-----------------------------------------------------------------------------
(* Listings                                                                *)

(* Pages follow one another, and one more than all the items is past them. *)
LEMMA Pages ==
    ASSUME NEW size \in Nat \ {0}, NEW p \in Nat
    PROVE  /\ p * size \in Nat /\ (p + 1) * size = p * size + size
           /\ p <= p * size /\ 0 * size = 0
<1> DEFINE G == {n \in Nat : n <= n * size /\ n * size \in Nat}
<1>1. 0 \in G
  OBVIOUS
<1>2. ASSUME NEW n \in Nat, n \in G PROVE n + 1 \in G
  <2>1. (n + 1) * size = n * size + size
    OBVIOUS
  <2> QED
    BY <1>2, <2>1
<1> HIDE DEF G
<1>3. p \in G
  BY <1>1, <1>2, NaturalInduction
<1> QED
  BY <1>3 DEF G

(* The page after a page, and none only when the items end.                *)
LEMMA AfterPage ==
    ASSUME NEW size \in Nat \ {0}, NEW p \in Nat
    PROVE  /\ PageAfter(p, size) \in {0, p + 1} /\ PageAfter(p, size) \in 0 .. Items
           /\ PageAfter(p, size) = 0 => Items <= (p + 1) * size
<1>1. p + 1 <= (p + 1) * size /\ (p + 1) * size \in Nat
  BY Pages
<1> QED
  BY <1>1, ItemsAssumption DEF PageAfter

(* A job that looks for items has an honest object and nothing in hand.    *)
LEMMA Discovering ==
    ASSUME Inv, NEW j \in Job, PhaseIsOver(j)
    PROVE  /\ Working(j) /\ jobs[j].todo = {} /\ HonestCopy(Conn(j), provider, Covered)
           /\ Conn(j) \in Connection /\ Conn(j).fill \in Fill
<1>1. Working(j) /\ jobs[j].todo = {} /\ jobs[j].conn \in Ref
  BY DEF PhaseIsOver, Discovers, Emptied, Working, Inv, JobsHold, Sound
<1>2. HonestCopy(Conn(j), provider, Covered)
  BY <1>1 DEF Inv, CopiesAreHonest, Conn
<1> QED
  BY <1>1, <1>2, Changed DEF HonestCopy, Honest

(* An object with another backfill, and with another status.               *)
LEMMA Refilled ==
    ASSUME NEW v, NEW covered, NEW more, NEW c, HonestCopy(c, v, covered),
           NEW p \in Fill, Passed(v, p) \subseteq more, NEW st \in Status
    PROVE  /\ HonestCopy([c EXCEPT !.fill = p], v, more) /\ [c EXCEPT !.fill = p].fill = p
           /\ HonestCopy([[c EXCEPT !.fill = p] EXCEPT !.status = st], v, more)
           /\ HonestCopy([c EXCEPT !.status = st], v, covered)
<1>1. c \in Connection
  BY DEF HonestCopy, Honest
<1>2. PICK e : e = [c EXCEPT !.fill = p]
  OBVIOUS
<1>3. e \in Connection /\ e.fill = p /\ e.lock = c.lock
  BY <1>1, <1>2, Changed
<1>4. PICK f : f = [e EXCEPT !.status = st]
  OBVIOUS
<1>5. f \in Connection /\ f.fill = p /\ f.lock = c.lock
  BY <1>3, <1>4, Changed
<1>6. PICK g : g = [c EXCEPT !.status = st]
  OBVIOUS
<1>7. g \in Connection /\ g.fill = c.fill /\ g.lock = c.lock
  BY <1>1, <1>6, Changed
<1> QED
  BY <1>2, <1>3, <1>4, <1>5, <1>6, <1>7 DEF HonestCopy, Honest

(* What a job found, and where its backfill stands then.                   *)
LEMMA FindsWell ==
    ASSUME Inv, NEW j \in Job, Discovers(j),
           NEW todo \in SUBSET Item, NEW fill \in Fill, NEW missed \in SUBSET Item,
           Passed(provider, fill) \subseteq synced \cup InHand \cup todo \cup (excused \cup missed),
           GmailFinds(j, todo, fill, missed) \/ FindsUnsaved(j, todo, fill, missed)
    PROVE  Inv'
<1>1. PhaseIsOver(j)
  BY DEF PhaseIsOver
<1>2. Working(j) /\ jobs[j].todo = {} /\ HonestCopy(Conn(j), provider, Covered)
  BY <1>1, Discovering
<1> DEFINE c == [Conn(j) EXCEPT !.fill = fill]
<1>3. excused' = excused \cup missed /\ excused \subseteq Item
  BY DEF GmailFinds, FindsUnsaved, Inv, RestTyped
<1>4. /\ todo = {} => Ends(j, [c EXCEPT !.status = "ready"])
      /\ todo # {} => (KeepsNothing \/ Keeps(j, c)) /\ Works(j, todo, "end", c)
  BY DEF GmailFinds, FindsUnsaved
<1>5. /\ HonestCopy(c, provider, synced \cup InHand \cup todo \cup excused')
      /\ HonestCopy([c EXCEPT !.status = "ready"], provider, synced \cup InHand \cup todo \cup excused')
  BY <1>2, <1>3, Refilled DEF Status
<1> HIDE DEF c
<1>6. CASE todo = {}
  <2>1. HonestCopy([c EXCEPT !.status = "ready"], provider, synced \cup InHand \cup excused')
    BY <1>5, <1>6
  <2> QED
    BY <1>2, <1>3, <1>4, <1>6, <2>1, JobEndsWell
<1>7. CASE todo # {}
  BY <1>2, <1>3, <1>4, <1>5, <1>7, JobWorksWell DEF Stages
<1> QED
  BY <1>6, <1>7
(* The items before a page, where the backfill of a job goes on.           *)
LEMMA PassedBefore ==
    ASSUME Inv, NEW j \in Job, Discovers(j), Backfills(j), provider # "calendar",
           NEW from, from = IF jobs[j].resync THEN 0 ELSE Conn(j).fill.cursor
    PROVE  from \in 0 .. Items /\ from \in Nat /\ {m \in Item : m <= from * PageSize(provider)} \subseteq Covered
<1>1. Conn(j).fill \in Fill /\ Passed(provider, Conn(j).fill) \subseteq Covered
  BY Discovering DEF PhaseIsOver, HonestCopy, Honest
<1>2. PageSize(provider) \in Nat \ {0}
  BY ItemsAssumption DEF PageSize, GmailPage
<1>3. from \in 0 .. Items /\ from \in Nat
  BY <1>1, ItemsAssumption DEF Fill
<1>4. CASE jobs[j].resync
  <2>1. from * PageSize(provider) = 0
    BY <1>2, <1>4, Pages
  <2> QED
    BY <1>3, <2>1 DEF Item
<1>5. CASE ~ jobs[j].resync
  BY <1>1, <1>3, <1>5 DEF Backfills, Passed
<1> QED
  BY <1>4, <1>5

(* Gmail: the listing meets the budget, comes to its end, or breaks off.   *)
LEMMA GmailListsWell ==
    ASSUME Inv, provider = "gmail", NEW j \in Job, Discovers(j), NEW pages \in Guardrail,
           NEW from \in 0 .. Items, {m \in Item : m <= from * GmailPage} \subseteq Covered,
           GmailLists(j, from, pages)
    PROVE  Inv'
<1> DEFINE seen == {p \in from .. Items : p < from + pages /\ Beyond(p, GmailPage) # {}}
           upTo(p) == Unsynced({m \in Item : from * GmailPage < m /\ m <= (p + 1) * GmailPage})
           rest == Unsynced(Beyond(from, GmailPage))
           met == {p \in seen : Cardinality(upTo(p)) >= Limit}
           last == CHOOSE p \in met : \A q \in met : p <= q
           todo == Newest(upTo(last), Limit)
           still == IF Conn(j).fill.phase = "new" THEN Going(0) ELSE Conn(j).fill
<1>1. GmailPage \in Nat \ {0}
  BY ItemsAssumption DEF GmailPage
<1>2. \A p \in from .. Items : p \in Nat /\ (p + 1) * GmailPage \in Nat /\ p * GmailPage <= (p + 1) * GmailPage
  BY <1>1, ItemsAssumption, Pages
<1>3. from * GmailPage \in Nat
  BY <1>1, Pages
<1>4. \A m \in Item : m <= from * GmailPage => m \in synced \cup InHand \cup excused
  BY DEF Covered
<1>5. \A m \in Item, p \in from .. Items :
         m > from * GmailPage /\ m <= (p + 1) * GmailPage => m \in synced \/ m \in upTo(p)
  BY DEF Unsynced
<1>6. /\ \A p : upTo(p) \in SUBSET Item
      /\ rest \in SUBSET Item /\ \A m \in Item : m > from * GmailPage => m \in synced \/ m \in rest
  BY DEF Unsynced, Beyond
<1>7. Done \in Fill /\ Done.phase = "done" /\ Passed(provider, Done) = Item
  BY ItemsAssumption DEF Done, Fill, Passed
<1>12. ASSUME NEW m \in Item, NEW S, rest \subseteq S PROVE m \in synced \cup InHand \cup excused \cup S
  <2> HIDE DEF rest
  <2>1. m <= from * GmailPage \/ m > from * GmailPage
    BY <1>3 DEF Item
  <2> QED
    BY <1>4, <1>6, <1>12, <2>1
<1>8. \/ met # {} /\ \E next \in {PageAfter(last, GmailPage), last + 1} :
            GmailFinds(j, todo, Going(next), upTo(last) \ todo)
      \/ met # {} /\ GmailFinds(j, todo, Done, rest \ todo)
      \/ GmailFinds(j, rest, Done, {})
      \/ FindsUnsaved(j, upTo(from + pages - 1), still, {})
      \/ \E p \in seen : GmailFinds(j, upTo(p) \ Page(p, GmailPage), Done, Unsynced(Beyond(p, GmailPage)))
  BY Zenon DEF GmailLists
<1>13. ASSUME met # {}
       PROVE  /\ last \in from .. Items /\ last \in Nat /\ last + 1 \in 0 .. Items
              /\ todo \subseteq upTo(last)
  <2>1. last \in met
    <3>1. met \in SUBSET Nat
      BY <1>2
    <3> HIDE DEF met
    <3>2. Min(met) \in met
      BY <1>13, <3>1, LeastIsIn
    <3> QED
      BY <3>2 DEF Min
  <2>2. last \in from .. Items /\ last \in Nat /\ Beyond(last, GmailPage) # {}
    BY <1>2, <2>1
  <2>3. todo \subseteq upTo(last)
    BY DEF Newest
  <2> HIDE DEF todo, met, last, upTo
  <2>4. PICK m \in Item : last * GmailPage < m
    BY <2>2 DEF Beyond
  <2>5. last <= last * GmailPage /\ last * GmailPage \in Nat
    BY <1>1, <2>2, Pages
  <2>6. last < Items
    BY <2>2, <2>4, <2>5, ItemsAssumption DEF Item
  <2> QED
    BY <2>2, <2>3, <2>6, ItemsAssumption
<1>9. ASSUME met # {}, NEW next \in {PageAfter(last, GmailPage), last + 1},
             GmailFinds(j, todo, Going(next), upTo(last) \ todo)
      PROVE  Inv'
  <2>2. last \in from .. Items /\ last \in Nat /\ last + 1 \in 0 .. Items /\ todo \subseteq upTo(last)
    BY <1>9, <1>13
  <2> HIDE DEF todo, met, last, upTo, seen, rest, still
  <2> DEFINE fill == Going(next)
             missed == upTo(last) \ todo
  <2>4. /\ fill \in Fill /\ fill.phase = "going"
        /\ fill.cursor = next /\ fill.cursor \in {0, last + 1}
    BY <1>1, <1>9, <2>2, AfterPage DEF Going, Fill
  <2>5. Passed(provider, fill) = {m \in Item : m <= fill.cursor * GmailPage}
    BY <2>4 DEF Passed, PageSize
  <2>6. missed \in SUBSET Item /\ todo \in SUBSET Item /\ upTo(last) \subseteq todo \cup missed
    BY <1>6, <2>2
  <2> HIDE DEF fill, missed
  <2>7. ASSUME NEW m \in Passed(provider, fill)
        PROVE  m \in synced \cup InHand \cup todo \cup (excused \cup missed)
    <3>1. m \in Item /\ m <= fill.cursor * GmailPage
      BY <2>5, <2>7
    <3>2. fill.cursor = last + 1
      <4>1. 0 * GmailPage = 0
        BY <1>1, Pages
      <4> QED
        BY <2>4, <3>1, <4>1 DEF Item
    <3>3. m <= (last + 1) * GmailPage
      BY <3>1, <3>2
    <3>4. m <= from * GmailPage \/ m > from * GmailPage
      BY <1>3, <3>1 DEF Item
    <3> QED
      BY <1>4, <1>5, <2>2, <2>6, <3>1, <3>3, <3>4
  <2>8. GmailFinds(j, todo, fill, missed)
    BY <1>9 DEF fill, missed
  <2> QED
    BY <2>4, <2>6, <2>7, <2>8, FindsWell
<1>14. CASE met # {} /\ GmailFinds(j, todo, Done, rest \ todo)
  <2> DEFINE missed == rest \ todo
  <2>1. todo \in SUBSET Item /\ missed \in SUBSET Item
    BY <1>6, <1>13, <1>14
  <2>2. rest \subseteq todo \cup missed
    OBVIOUS
  <2> HIDE DEF todo, met, last, upTo, seen, rest, still
  <2>3. ASSUME NEW m \in Item PROVE m \in synced \cup InHand \cup todo \cup (excused \cup missed)
    BY <1>12, <2>2
  <2>4. GmailFinds(j, todo, Done, missed)
    BY <1>14
  <2> HIDE DEF missed
  <2> QED
    BY <1>7, <2>1, <2>3, <2>4, FindsWell
<1>10. CASE GmailFinds(j, rest, Done, {})
  <2> HIDE DEF todo, met, last, upTo, seen, rest, still
  <2>1. ASSUME NEW m \in Item PROVE m \in synced \cup InHand \cup rest \cup (excused \cup {})
    BY <1>12
  <2> QED
    BY <1>6, <1>7, <1>10, <2>1, FindsWell
<1>15. CASE FindsUnsaved(j, upTo(from + pages - 1), still, {})
  <2> DEFINE found == upTo(from + pages - 1)
  <2>1. found \in SUBSET Item /\ {} \in SUBSET Item
    BY <1>6
  <2>2. HonestCopy(Conn(j), provider, Covered) /\ Conn(j).fill \in Fill
    BY Discovering DEF PhaseIsOver
  <2>3. Going(0) \in Fill /\ Passed(provider, Going(0)) = {}
    <3>1. 0 * GmailPage = 0
      BY <1>1, Pages
    <3>2. Passed(provider, Going(0)) = {m \in Item : m <= 0 * GmailPage}
      BY DEF Going, Passed, PageSize
    <3> QED
      BY <3>1, <3>2, ItemsAssumption DEF Going, Fill, Item
  <2>4. still \in Fill /\ Passed(provider, still) \subseteq Covered
    BY <2>2, <2>3 DEF HonestCopy, Honest
  <2>5. FindsUnsaved(j, found, still, {})
    BY <1>15
  <2> HIDE DEF todo, met, last, upTo, seen, rest, still, found
  <2>6. Passed(provider, still) \subseteq synced \cup InHand \cup found \cup (excused \cup {})
    BY <2>4 DEF Covered
  <2> QED
    BY <2>1, <2>4, <2>5, <2>6, FindsWell
<1>11. ASSUME NEW p \in from .. Items,
              GmailFinds(j, upTo(p) \ Page(p, GmailPage), Done, Unsynced(Beyond(p, GmailPage)))
       PROVE  Inv'
  <2> DEFINE found == upTo(p) \ Page(p, GmailPage)
             missed == Unsynced(Beyond(p, GmailPage))
  <2>1. found \in SUBSET Item /\ missed \in SUBSET Item
    BY <1>6 DEF Unsynced, Beyond
  <2>2. ASSUME NEW m \in Item, m > p * GmailPage PROVE m \in synced \cup missed
    BY <2>2 DEF Unsynced, Beyond
  <2>3. ASSUME NEW m \in Item, m <= p * GmailPage PROVE m \notin Page(p, GmailPage)
    BY <1>2, <2>3, Pages, <1>1 DEF Page, Item
  <2> HIDE DEF upTo, met, missed, seen, rest, todo, last, still
  <2>4. ASSUME NEW m \in Item PROVE m \in synced \cup InHand \cup found \cup (excused \cup missed)
    <3>1. p * GmailPage \in Nat /\ m \in Nat
      BY <1>1, <1>2, Pages DEF Item
    <3>2. CASE m <= p * GmailPage
      <4>1. m <= (p + 1) * GmailPage
        BY <1>2, <3>1, <3>2
      <4>2. m <= from * GmailPage \/ m > from * GmailPage
        BY <1>3, <3>1
      <4>3. m \notin Page(p, GmailPage)
        BY <2>3, <3>2
      <4> QED
        BY <1>4, <1>5, <4>1, <4>2, <4>3
    <3>3. CASE m > p * GmailPage
      BY <2>2, <3>3
    <3> QED
      BY <3>1, <3>2, <3>3
  <2> HIDE DEF found
  <2>5. GmailFinds(j, found, Done, missed)
    BY <1>11 DEF found, missed
  <2> QED
    BY <1>7, <2>1, <2>4, <2>5, FindsWell
<1>16. seen \subseteq from .. Items
  OBVIOUS
<1> HIDE DEF todo, met, last, upTo, seen, rest, still
<1> QED
  BY <1>8, <1>9, <1>10, <1>11, <1>14, <1>15, <1>16
(* How any connector's job begins and ends, and the scheduler's turn.      *)
LEMMA AnyBegins ==
    ASSUME Inv, NEW j \in Job, Begins(j)
    PROVE  Inv'
<1> QED
  BY JobStartsWell, JobDoesNotStart, JobStartsWithoutMongoWell DEF Begins

LEMMA AnyEnds ==
    ASSUME Inv, NEW j \in Job, JobFails(j) \/ \E status \in Status : JobEnds(j, status)
    PROVE  Inv'
<1>1. PICK status \in Status : /\ PhaseIsOver(j) /\ excused' = excused
                               /\ Ends(j, [Conn(j) EXCEPT !.status = status])
  BY DEF JobFails, JobEnds, PhaseIsOver, Discovers, Emptied, Conn, Status
<1>2. /\ Working(j) /\ jobs[j].todo = {} /\ HonestCopy(Conn(j), provider, Covered)
      /\ Conn(j).fill \in Fill
  BY <1>1, Discovering
<1>3. HonestCopy([Conn(j) EXCEPT !.status = status], provider, Covered)
  BY <1>2, Refilled, PassedIsItem
<1>4. Covered = synced \cup InHand \cup excused' /\ excused' \subseteq Item
  BY <1>1 DEF Covered, Inv, RestTyped
<1> QED
  BY <1>1, <1>2, <1>3, <1>4, JobEndsWell

LEMMA CronRuns ==
    ASSUME Inv, NEW due, NEW caches \in BOOLEAN, Scheduled(due, caches)
    PROVE  Inv'
<1> QED
  BY StartsReading DEF Scheduled
(* The scheduled work of the connectors.                                   *)
LEMMA GmailActs ==
    ASSUME Inv, Gmail
    PROVE  Inv'
<1>1. provider = "gmail" /\ PageSize(provider) = GmailPage
  BY DEF Gmail, PageSize
<1>2. ASSUME NEW j \in Job, GmailDiscovers(j) PROVE Inv'
  <2>1. PICK from : /\ from = IF jobs[j].resync THEN 0 ELSE Conn(j).fill.cursor
                    /\ Discovers(j) /\ Backfills(j) /\ \E pages \in Guardrail : GmailLists(j, from, pages)
    BY <1>2 DEF GmailDiscovers
  <2>2. from \in 0 .. Items /\ {m \in Item : m <= from * GmailPage} \subseteq Covered
    BY <1>1, <2>1, PassedBefore
  <2> QED
    BY <1>1, <2>1, <2>2, GmailListsWell
<1>3. ASSUME NEW j \in Job, GmailGoesForward(j) PROVE Inv'
  <2>1. PICK todo : /\ todo \in SUBSET Item
                    /\ Discovers(j) /\ FindsUnsaved(j, todo, Conn(j).fill, {})
    BY <1>3 DEF GmailGoesForward, Newest, Unsynced, Page
  <2>2. HonestCopy(Conn(j), provider, Covered) /\ Conn(j).fill \in Fill
    BY <2>1, Discovering DEF PhaseIsOver
  <2>3. Passed(provider, Conn(j).fill) \subseteq synced \cup InHand \cup todo \cup (excused \cup {})
    BY <2>2 DEF HonestCopy, Honest, Covered
  <2>4. {} \in SUBSET Item
    OBVIOUS
  <2> QED
    BY <2>1, <2>2, <2>3, <2>4, FindsWell
<1>4. ASSUME NEW j \in Job, GmailEnds(j) PROVE Inv'
  BY <1>4, AnyEnds DEF GmailEnds, Status
<1>5. ASSUME NEW j \in Job, NEW m \in Item, GmailProcesses(j, m) PROVE Inv'
  BY <1>5, ItemIsThrough DEF GmailProcesses
<1>6. ASSUME GmailCron PROVE Inv'
  BY <1>6, CronRuns DEF GmailCron
<1>7. ASSUME NEW j \in Job, GmailBegins(j) PROVE Inv'
  BY <1>7, AnyBegins DEF GmailBegins
<1> QED
  BY <1>2, <1>3, <1>4, <1>5, <1>6, <1>7 DEF Gmail

LEMMA DriveActs ==
    ASSUME Inv, Drive
    PROVE  Inv'
<1>1. provider = "gdrive" /\ PageSize(provider) = Limit
  BY DEF Drive, PageSize
<1>2. ASSUME NEW j \in Job, DriveDiscovers(j) PROVE Inv'
  <2>1. PICK from, next :
           /\ from = IF jobs[j].resync THEN 0 ELSE Conn(j).fill.cursor
           /\ next = PageAfter(from, Limit)
           /\ Discovers(j) /\ Backfills(j)
           /\ \/ FindsUnsaved(j, Unsynced(Page(from, Limit)), IF next = 0 THEN Done ELSE Going(next), {})
              \/ FindsUnsaved(j, {}, Done, Unsynced(Beyond(from, Limit)))
    BY <1>2 DEF DriveDiscovers
  <2>2. from \in Nat /\ \A m \in Item : m <= from * Limit => m \in synced \cup InHand \cup excused
    BY <1>1, <2>1, PassedBefore DEF Covered
  <2>3. /\ from * Limit \in Nat /\ (from + 1) * Limit \in Nat /\ Limit \in Nat \ {0}
        /\ next \in {0, from + 1} /\ next \in 0 .. Items /\ (next = 0 => Items <= (from + 1) * Limit)
    <3>1. Limit \in Nat \ {0}
      BY ItemsAssumption
    <3>2. from * Limit \in Nat /\ (from + 1) * Limit = from * Limit + Limit
      BY <2>2, <3>1, Pages
    <3>3. /\ next \in {0, from + 1} /\ next \in 0 .. Items
          /\ next = 0 => Items <= (from + 1) * Limit
      BY <2>1, <2>2, <3>1, AfterPage
    <3> QED
      BY <3>1, <3>2, <3>3
  <2>4. Done \in Fill /\ Passed(provider, Done) = Item
    BY ItemsAssumption DEF Done, Fill, Passed
  <2>5. CASE FindsUnsaved(j, Unsynced(Page(from, Limit)), IF next = 0 THEN Done ELSE Going(next), {})
    <3> DEFINE todo == Unsynced(Page(from, Limit))
               fill == IF next = 0 THEN Done ELSE Going(next)
    <3>1. todo \in SUBSET Item /\ {} \in SUBSET Item
      BY DEF Unsynced, Page
    <3>2. ASSUME NEW m \in Item, m <= (from + 1) * Limit PROVE m \in synced \cup InHand \cup todo \cup excused
      BY <2>2, <2>3, <3>2 DEF Unsynced, Page, Item
    <3> HIDE DEF todo
    <3>3. CASE next = 0
      <4>1. \A m \in Item : m \in synced \cup InHand \cup todo \cup (excused \cup {})
        BY <2>3, <3>2, <3>3, ItemsAssumption DEF Item
      <4>2. FindsUnsaved(j, todo, Done, {})
        BY <2>5, <3>3 DEF todo
      <4> QED
        BY <2>1, <2>4, <3>1, <4>1, <4>2, FindsWell
    <3>4. CASE next # 0
      <4>1. Going(next) \in Fill /\ Going(next).phase = "going" /\ Going(next).cursor = from + 1
        BY <2>3, <3>4 DEF Going, Fill
      <4>2. Passed(provider, Going(next)) = {m \in Item : m <= (from + 1) * Limit}
        BY <1>1, <4>1 DEF Passed
      <4>3. Passed(provider, Going(next)) \subseteq synced \cup InHand \cup todo \cup (excused \cup {})
        BY <3>2, <4>2
      <4>4. FindsUnsaved(j, todo, Going(next), {})
        BY <2>5, <3>4 DEF todo
      <4> QED
        BY <2>1, <3>1, <4>1, <4>3, <4>4, FindsWell
    <3> QED
      BY <3>3, <3>4
  <2>6. CASE FindsUnsaved(j, {}, Done, Unsynced(Beyond(from, Limit)))
    <3> DEFINE missed == Unsynced(Beyond(from, Limit))
    <3>1. missed \in SUBSET Item /\ {} \in SUBSET Item
      BY DEF Unsynced, Beyond
    <3>2. ASSUME NEW m \in Item PROVE m \in synced \cup InHand \cup {} \cup (excused \cup missed)
      BY <2>2, <2>3, <3>2 DEF Unsynced, Beyond, Item
    <3> HIDE DEF missed
    <3>3. FindsUnsaved(j, {}, Done, missed)
      BY <2>6 DEF missed
    <3> QED
      BY <2>1, <2>4, <3>1, <3>2, <3>3, FindsWell
  <2> QED
    BY <2>1, <2>5, <2>6
<1>3. ASSUME NEW j \in Job, DriveGoesForward(j) PROVE Inv'
  <2>1. PICK todo : /\ todo \in SUBSET Item
                    /\ Discovers(j) /\ FindsUnsaved(j, todo, Conn(j).fill, {})
    BY <1>3 DEF DriveGoesForward, Unsynced, Page
  <2>2. HonestCopy(Conn(j), provider, Covered) /\ Conn(j).fill \in Fill
    BY <2>1, Discovering DEF PhaseIsOver
  <2>3. Passed(provider, Conn(j).fill) \subseteq synced \cup InHand \cup todo \cup (excused \cup {})
    BY <2>2 DEF HonestCopy, Honest, Covered
  <2>4. {} \in SUBSET Item
    OBVIOUS
  <2> QED
    BY <2>1, <2>2, <2>3, <2>4, FindsWell
<1>4. ASSUME NEW j \in Job, DriveEnds(j) PROVE Inv'
  BY <1>4, AnyEnds DEF DriveEnds, Status
<1>5. ASSUME NEW j \in Job, NEW m \in Item, DriveProcesses(j, m) PROVE Inv'
  BY <1>5, ItemIsThrough DEF DriveProcesses
<1>6. ASSUME DriveCron PROVE Inv'
  BY <1>6, CronRuns DEF DriveCron
<1>7. ASSUME NEW j \in Job, DriveBegins(j) PROVE Inv'
  BY <1>7, AnyBegins DEF DriveBegins
<1> QED
  BY <1>2, <1>3, <1>4, <1>5, <1>6, <1>7 DEF Drive
(* The calendar saves its object before it lists.                          *)
LEMMA CalendarFindsWell ==
    ASSUME Inv, NEW j \in Job, PhaseIsOver(j),
           NEW before, HonestCopy(before, provider, Covered),
           NEW todo \in SUBSET Item, NEW fill \in Fill, NEW missed \in SUBSET Item, NEW stage \in Stages,
           Passed(provider, fill) \subseteq synced \cup InHand \cup todo \cup (excused \cup missed),
           CalendarFinds(j, before, todo, fill, missed, stage)
    PROVE  Inv'
<1>1. Working(j) /\ jobs[j].todo = {}
  BY Discovering
<1> DEFINE c == [before EXCEPT !.fill = fill]
           all == synced \cup InHand \cup todo \cup excused'
<1>2. /\ excused' = excused \cup missed /\ excused \subseteq Item
      /\ Keeps(j, before) /\ Works(j, todo, stage, c)
  BY DEF CalendarFinds, Inv, RestTyped
<1>3. HonestCopy(c, provider, all)
  BY <1>2, Refilled DEF Status
<1>4. HonestCopy(before, provider, all)
  <2>1. Covered \subseteq all
    BY <1>2 DEF Covered
  <2> HIDE DEF all
  <2> QED
    BY <2>1, StillHonest
<1> HIDE DEF c
<1> QED
  BY <1>1, <1>2, <1>3, <1>4, JobWorksWell

(* Passing a page of what is to come.                                      *)
LEMMA FutureFacts ==
    /\ Cardinality(Future) = Items - 1 /\ Past \subseteq Item /\ Item = Past \cup Future
    /\ \A m \in Future : m \in Nat /\ 0 < m /\ m <= Items - 1
<1>1. Items \in Nat \ {0}
  BY ItemsAssumption
<1>2. Future = 1 .. (Items - 1) /\ Past \subseteq Item /\ Item = Past \cup Future
  BY <1>1 DEF Future, Past, Item
<1>3. Cardinality(1 .. (Items - 1)) = Items - 1
  BY <1>1, FS_Interval
<1> QED
  BY <1>1, <1>2, <1>3

(* What is to come, page by page, and the past.                            *)
LEMMA CalendarFutureWell ==
    ASSUME Inv, provider = "calendar", NEW j \in Job, CalendarFuture(j)
    PROVE  Inv'
<1>1. PICK before : before = IF jobs[j].resync THEN [Conn(j) EXCEPT !.fill = NewFill] ELSE Conn(j)
  OBVIOUS
<1>2. PICK cursor : cursor = before.fill.cursor
  OBVIOUS
<1>3. PICK last \in BOOLEAN : last <=> (cursor + 1) * Limit >= Cardinality(Future)
  <2> DEFINE b == (cursor + 1) * Limit >= Cardinality(Future)
  <2>1. b \in BOOLEAN
    BY DEF b
  <2> QED
    BY Zenon, <2>1
<1> DEFINE pastNext == [phase |-> "past", cursor |-> 0]
           todo == Unsynced(Page(cursor, Limit) \cap Future)
           missed == Unsynced(Future \cap Beyond(cursor, Limit))
           goingOn == [phase |-> "new", cursor |-> cursor + 1]
<1>4. /\ Discovers(j) /\ before.fill.phase = "new"
      /\ \/ /\ last
            /\ CalendarFinds(j, before, todo, pastNext, {}, "past")
         \/ /\ ~ last
            /\ CalendarFinds(j, before, todo, goingOn, {}, "end")
         \/ CalendarFinds(j, before, {}, pastNext, missed, "past")
  BY <1>1, <1>2, <1>3 DEF CalendarFuture
<1>5. PhaseIsOver(j)
  BY <1>4 DEF PhaseIsOver
<1>6. HonestCopy(before, provider, Covered) /\ before.fill \in Fill
  <2>1. HonestCopy(Conn(j), provider, Covered) /\ Conn(j).fill \in Fill
    BY <1>5, Discovering
  <2>2. NewFill \in Fill /\ Passed(provider, NewFill) \subseteq Covered
    BY NothingPassed
  <2>3. CASE jobs[j].resync
    <3>1. PICK c : c = Conn(j)
      OBVIOUS
    <3>2. /\ HonestCopy([c EXCEPT !.fill = NewFill], provider, Covered)
          /\ [c EXCEPT !.fill = NewFill].fill = NewFill
      BY <2>1, <2>2, <3>1, Changed DEF HonestCopy, Honest
    <3> QED
      BY <1>1, <2>2, <2>3, <3>1, <3>2
  <2>4. CASE ~ jobs[j].resync
    BY <1>1, <2>1, <2>4
  <2> QED
    BY <2>3, <2>4
<1>7. cursor \in 0 .. Items /\ cursor \in Nat /\ Limit \in Nat \ {0}
  BY <1>2, <1>6, ItemsAssumption DEF Fill
<1>8. \A m \in Future : m <= cursor * Limit => m \in synced \cup InHand \cup excused
  BY <1>2, <1>4, <1>6 DEF HonestCopy, Honest, Passed, Covered
<1>9. /\ cursor * Limit \in Nat /\ (cursor + 1) * Limit = cursor * Limit + Limit
      /\ cursor + 1 <= (cursor + 1) * Limit
  <2>1. cursor + 1 \in Nat
    BY <1>7
  <2> QED
    BY <1>7, <2>1, Pages
<1>10. /\ pastNext \in Fill /\ Passed(provider, pastNext) = Future
       /\ {} \in SUBSET Item /\ todo \in SUBSET Item /\ missed \in SUBSET Item
       /\ "past" \in Stages /\ "end" \in Stages
  BY ItemsAssumption DEF Fill, Passed, Unsynced, Page, Beyond, Stages, Future
<1>11. ASSUME NEW m \in Future, m <= (cursor + 1) * Limit PROVE m \in synced \cup InHand \cup todo \cup excused
  <2>1. m \in Item /\ m \in Nat
    BY FutureFacts DEF Future
  <2> QED
    BY <1>8, <1>9, <1>11, <2>1 DEF Unsynced, Page
<1>12. ASSUME NEW m \in Future PROVE m \in synced \cup InHand \cup {} \cup (excused \cup missed)
  <2>1. m \in Item /\ m \in Nat
    BY FutureFacts DEF Future
  <2> QED
    BY <1>8, <1>9, <2>1 DEF Unsynced, Beyond
<1> HIDE DEF todo, missed
<1>13. CASE last /\ CalendarFinds(j, before, todo, pastNext, {}, "past")
  <2>1. \A m \in Future : m <= (cursor + 1) * Limit
    BY <1>3, <1>9, <1>13, FutureFacts, ItemsAssumption
  <2>2. Passed(provider, pastNext) \subseteq synced \cup InHand \cup todo \cup (excused \cup {})
    BY <1>10, <1>11, <2>1
  <2> HIDE DEF pastNext
  <2> QED
    BY <1>5, <1>6, <1>10, <1>13, <2>2, CalendarFindsWell
<1>14. CASE ~ last /\ CalendarFinds(j, before, todo, goingOn, {}, "end")
  <2>1. (cursor + 1) * Limit < Items - 1
    BY <1>3, <1>7, <1>9, <1>14, FutureFacts, ItemsAssumption
  <2>2. cursor + 1 \in 0 .. Items
    BY <1>7, <1>9, <2>1, ItemsAssumption
  <2>3. goingOn \in Fill /\ Passed(provider, goingOn) = {m \in Future : m <= (cursor + 1) * Limit}
    BY <2>2 DEF Fill, Passed
  <2>4. Passed(provider, goingOn) \subseteq synced \cup InHand \cup todo \cup (excused \cup {})
    BY <1>11, <2>3
  <2> HIDE DEF goingOn
  <2> QED
    BY <1>5, <1>6, <1>10, <1>14, <2>3, <2>4, CalendarFindsWell
<1>15. CASE CalendarFinds(j, before, {}, pastNext, missed, "past")
  <2>1. Passed(provider, pastNext) \subseteq synced \cup InHand \cup {} \cup (excused \cup missed)
    BY <1>10, <1>12
  <2> HIDE DEF pastNext
  <2> QED
    BY <1>5, <1>6, <1>10, <1>15, <2>1, CalendarFindsWell
<1> QED
  BY <1>4, <1>13, <1>14, <1>15

LEMMA CalendarPastWell ==
    ASSUME Inv, provider = "calendar", NEW j \in Job, CalendarPast(j)
    PROVE  Inv'
<1>1. PICK stage \in Stages : /\ PhaseIsOver(j) /\ Conn(j).fill.phase = "past"
                              /\ \/ CalendarFinds(j, Conn(j), Unsynced(Past), Done, {}, stage)
                                 \/ CalendarFinds(j, Conn(j), {}, Done, Unsynced(Past), stage)
  BY DEF CalendarPast, Stages
<1>2. HonestCopy(Conn(j), provider, Covered)
  BY <1>1, Discovering
<1>3. Future \subseteq synced \cup InHand \cup excused
  BY <1>1, <1>2 DEF HonestCopy, Honest, Passed, Covered
<1> DEFINE old == Unsynced(Past)
<1>4. Past \subseteq synced \cup old /\ old \in SUBSET Item /\ {} \in SUBSET Item
  BY FutureFacts DEF Unsynced
<1> HIDE DEF old
<1>5. Done \in Fill /\ Passed(provider, Done) = Item
  BY ItemsAssumption DEF Done, Fill, Passed
<1>6. CASE CalendarFinds(j, Conn(j), old, Done, {}, stage)
  <2>1. Passed(provider, Done) \subseteq synced \cup InHand \cup old \cup (excused \cup {})
    BY <1>3, <1>4, <1>5, FutureFacts
  <2> QED
    BY <1>1, <1>2, <1>4, <1>5, <1>6, <2>1, CalendarFindsWell
<1>7. CASE CalendarFinds(j, Conn(j), {}, Done, old, stage)
  <2>1. Passed(provider, Done) \subseteq synced \cup InHand \cup {} \cup (excused \cup old)
    BY <1>3, <1>4, <1>5, FutureFacts
  <2> QED
    BY <1>1, <1>2, <1>4, <1>5, <1>7, <2>1, CalendarFindsWell
<1> QED
  BY <1>1, <1>6, <1>7 DEF old

(* Looking at the newest changes nothing of a backfill.                    *)
LEMMA LooksOn ==
    ASSUME Inv, NEW j \in Job, PhaseIsOver(j), NEW todo \in SUBSET Item, excused' = excused,
           \/ KeepsNothing /\ Works(j, todo, "end", Conn(j))
           \/ Ends(j, [Conn(j) EXCEPT !.status = "ready"])
    PROVE  Inv'
<1>1. /\ Working(j) /\ jobs[j].todo = {} /\ HonestCopy(Conn(j), provider, Covered)
      /\ Conn(j).fill \in Fill
  BY Discovering
<1>2. excused' \subseteq Item /\ excused \subseteq excused'
  BY DEF Inv, RestTyped
<1>3. CASE KeepsNothing /\ Works(j, todo, "end", Conn(j))
  <2> DEFINE all == synced \cup InHand \cup todo \cup excused'
  <2>1. HonestCopy(Conn(j), provider, all)
    <3>1. Covered \subseteq all
      BY DEF Covered
    <3> HIDE DEF all
    <3> QED
      BY <1>1, <3>1, StillHonest
  <2> QED
    BY <1>1, <1>2, <1>3, <2>1, JobWorksWell DEF Stages
<1>4. CASE Ends(j, [Conn(j) EXCEPT !.status = "ready"])
  <2>1. HonestCopy([Conn(j) EXCEPT !.status = "ready"], provider, Covered)
    BY <1>1, Refilled, PassedIsItem DEF Status
  <2>2. HonestCopy([Conn(j) EXCEPT !.status = "ready"], provider, synced \cup InHand \cup excused')
    BY <2>1 DEF Covered
  <2> QED
    BY <1>1, <1>2, <1>4, <2>2, JobEndsWell
<1> QED
  BY <1>3, <1>4

LEMMA CalendarActs ==
    ASSUME Inv, Calendar
    PROVE  Inv'
<1>1. provider = "calendar"
  BY DEF Calendar
<1>2. ASSUME NEW j \in Job, CalendarGoesForward(j) PROVE Inv'
  <2>1. PICK todo : /\ todo \in SUBSET Item /\ PhaseIsOver(j) /\ excused' = excused
                    /\ KeepsNothing /\ Works(j, todo, "end", Conn(j))
    BY <1>2 DEF CalendarGoesForward, Unsynced, Page
  <2> QED
    BY <2>1, LooksOn
<1>3. ASSUME NEW j \in Job, CalendarEnds(j) PROVE Inv'
  <2>1. CASE JobFails(j)
    BY <2>1, AnyEnds
  <2>2. CASE PhaseIsOver(j) /\ excused' = excused /\ Ends(j, [Conn(j) EXCEPT !.status = "ready"])
    <3>1. {} \in SUBSET Item
      OBVIOUS
    <3> QED
      BY <2>2, <3>1, LooksOn
  <2> QED
    BY <1>3, <2>1, <2>2 DEF CalendarEnds
<1>4. ASSUME NEW j \in Job, NEW m \in Item, CalendarProcesses(j, m) PROVE Inv'
  BY <1>4, ItemIsThrough DEF CalendarProcesses
<1>5. ASSUME CalendarCron PROVE Inv'
  BY <1>5, CronRuns DEF CalendarCron
<1>6. ASSUME NEW j \in Job, CalendarBegins(j) PROVE Inv'
  BY <1>6, AnyBegins DEF CalendarBegins
<1> QED
  BY <1>1, <1>2, <1>3, <1>4, <1>5, <1>6, CalendarFutureWell, CalendarPastWell DEF Calendar

(* Slack and Notion.                                                       *)
LEMMA TakesNewestWell ==
    ASSUME Inv, NEW j \in Job, NEW window \in SUBSET Item, TakesNewest(j, window)
    PROVE  Inv'
<1>1. PICK todo : /\ todo \in SUBSET Item /\ Discovers(j) /\ excused' = excused
                  /\ \/ Ends(j, [Conn(j) EXCEPT !.status = "ready"])
                     \/ KeepsNothing /\ Works(j, todo, "end", Conn(j))
  BY DEF TakesNewest, Newest, Unsynced
<1> QED
  BY <1>1, LooksOn DEF PhaseIsOver

LEMMA ChatActs ==
    ASSUME Inv, Slack \/ Notion
    PROVE  Inv'
<1>1. SlackWindow \in SUBSET Item /\ NotionWindow \in SUBSET Item
  BY DEF SlackWindow, NotionWindow, Page
<1>2. ASSUME NEW j \in Job, SlackDiscovers(j) \/ NotionDiscovers(j) PROVE Inv'
  BY <1>1, <1>2, TakesNewestWell DEF SlackDiscovers, NotionDiscovers
<1>3. ASSUME NEW j \in Job, ChatEnds(j) PROVE Inv'
  BY <1>3, AnyEnds DEF ChatEnds, Status
<1>4. ASSUME NEW j \in Job, NEW m \in Item, ChatProcesses(j, m) PROVE Inv'
  BY <1>4, ItemIsThrough DEF ChatProcesses
<1>5. ASSUME SlackCron \/ NotionCron PROVE Inv'
  BY <1>5, CronRuns DEF SlackCron, NotionCron
<1>6. ASSUME NEW j \in Job, Begins(j) PROVE Inv'
  BY <1>6, AnyBegins
<1> QED
  BY <1>2, <1>3, <1>4, <1>5, <1>6
     DEF Slack, Notion, SlackBegins, NotionBegins, SlackEnds, NotionEnds, SlackProcesses, NotionProcesses
-----------------------------------------------------------------------------
(* What members ask                                                        *)

(* Every endpoint, for every connector.                                    *)
LEMMA RequestsAreServed ==
    ASSUME Inv, Requests
    PROVE  Inv'
<1>1. ASSUME \/ GmailSave \/ CalendarSave \/ DriveSave \/ SlackSave \/ NotionSave PROVE Inv'
  BY <1>1, SavesAndStarts DEF GmailSave, CalendarSave, DriveSave, SlackSave, NotionSave
<1>2. ASSUME \/ GmailSchedule \/ CalendarSchedule \/ DriveSchedule \/ SlackSchedule \/ NotionSchedule PROVE Inv'
  BY <1>2, Reschedules DEF GmailSchedule, CalendarSchedule, DriveSchedule, SlackSchedule, NotionSchedule
<1>3. ASSUME \/ GmailSyncNow \/ GmailResync \/ SlackSyncNow \/ SlackResync \/ NotionSyncNow \/ NotionResync
      PROVE  Inv'
  BY <1>3, ProbesAndStarts
     DEF GmailSyncNow, GmailResync, SlackSyncNow, SlackResync, NotionSyncNow, NotionResync
<1>4. ASSUME \/ CalendarSyncNow \/ CalendarResync \/ CalendarRetry \/ DriveSyncNow \/ DriveResync \/ DriveRetry
      PROVE  Inv'
  <2>1. RetryAtOnce \/ \E resync \in BOOLEAN : AskAndStart(resync)
    BY <1>4 DEF CalendarSyncNow, CalendarResync, CalendarRetry, DriveSyncNow, DriveResync, DriveRetry
  <2> QED
    BY <2>1, StartsReading
<1>5. ASSUME \/ GmailStatus \/ CalendarStatus \/ DriveStatus \/ SlackStatus \/ NotionStatus
             \/ CalendarDisconnect \/ DriveDisconnect
      PROVE  Inv'
  BY <1>5, CallReadsWell
     DEF GmailStatus, CalendarStatus, DriveStatus, SlackStatus, NotionStatus, CalendarDisconnect, DriveDisconnect
<1>6. ASSUME GmailDisconnect \/ SlackDisconnect \/ NotionDisconnect PROVE Inv'
  BY <1>6, DisconnectsAtOnce DEF GmailDisconnect, SlackDisconnect, NotionDisconnect
<1>7. ASSUME GmailPurge \/ CalendarPurge \/ DrivePurge \/ SlackPurge \/ NotionPurge PROVE Inv'
  <2>1. db.status \in Status
    BY Changed DEF Inv, CopiesAreHonest, Honest
  <2>2. \E status \in Status, locks \in BOOLEAN : Purge(status, locks)
    BY <1>7, <2>1 DEF GmailPurge, CalendarPurge, DrivePurge, SlackPurge, NotionPurge, Status
  <2> QED
    BY <2>2, PurgesWell
<1>8. ASSUME NEW m \in Events,
             GmailWebhook(m) \/ CalendarWebhook(m) \/ DriveWebhook(m) \/ SlackWebhook(m) \/ NotionWebhook(m)
      PROVE  Inv'
  <2>1. \E again \in BOOLEAN, step \in {"asked", "deleting"} : HookReads(m, again, step)
    BY <1>8 DEF GmailWebhook, CalendarWebhook, DriveWebhook, SlackWebhook, NotionWebhook
  <2> QED
    BY <2>1, HookReadsWell
<1>9. ASSUME ForSource(GmailEndpoints, CalendarEndpoints, DriveEndpoints, SlackEndpoints, NotionEndpoints)
      PROVE  Inv'
  BY <1>1, <1>2, <1>3, <1>4, <1>9
     DEF ForSource, GmailEndpoints, CalendarEndpoints, DriveEndpoints, SlackEndpoints, NotionEndpoints
<1>10. ASSUME ConnectConnector \/ DisconnectConnector \/ PurgeConnectorAllData \/ RetryFailedItems PROVE Inv'
  BY <1>3, <1>4, <1>5, <1>6, <1>7, <1>10
     DEF ForSource, ConnectConnector, DisconnectConnector, PurgeConnectorAllData, RetryFailedItems
<1>11. ASSUME Webhook PROVE Inv'
  BY <1>8, <1>11 DEF ForSource, Webhook
<1> QED
  BY <1>9, <1>10, <1>11 DEF Requests

-----------------------------------------------------------------------------
(* The specification                                                       *)

(* The invariant holds at the start and is kept by every step.             *)
LEMMA InvAtStart == Init => Inv
<1>1. SUFFICES ASSUME Init PROVE Inv
  OBVIOUS
<1>2. /\ NewFill \in Fill /\ Blank \in Connection /\ Blank.lock.lease = "undated"
      /\ Passed(provider, NewFill) = {} /\ Passed(provider, Blank.fill) = {}
  BY NothingPassed
<1>3. db \in Connection /\ db.fill = NewFill /\ db.lock = NoLock /\ NoLock.by = Nobody
  <2>1. NoLock \in Lock /\ NoLock.by = Nobody
    BY DEF NoLock, Lock, Lease
  <2> QED
    BY <1>1, <1>2, <2>1 DEF Init, Connection, Status
<1>4. objs \in [Ref -> Connection] /\ \A r \in Ref : objs[r] = Blank
  BY <1>1, <1>2 DEF Init
<1>5. CopiesAreHonest
  BY <1>2, <1>3, <1>4 DEF CopiesAreHonest, HonestCopy, Honest
<1>6. JobsHold /\ \A j \in Job : ~ Working(j)
  BY <1>1, JobRows DEF Init, JobsHold, Sound, Working
<1>7. RequestsHold
  BY <1>1, ItemsAssumption DEF Init, RequestsHold, HookState, CallState, NoHook, NoCall, Item
<1>8. RestTyped
  <2>1. failed \in BOOLEAN
    BY <1>1, Zenon DEF Init
  <2>2. requests \in 0 .. MaxRequests /\ faults \in 0 .. 1
    BY <1>1, ItemsAssumption DEF Init
  <2> QED
    BY <1>1, <2>1, <2>2 DEF Init, RestTyped
<1>9. LockIsKept /\ LockIsAccountedFor
  BY <1>3, <1>6 DEF LockIsKept, LockIsAccountedFor, Held
<1> QED
  BY <1>5, <1>6, <1>7, <1>8, <1>9 DEF Inv

LEMMA InvIsKept == Inv /\ [Next]_vars => Inv'
<1>1. SUFFICES ASSUME Inv, [Next]_vars PROVE Inv'
  OBVIOUS
<1>2. ASSUME Common PROVE Inv'
  BY <1>1, <1>2, CallSavesWell, CallChangesNothingWell, DisconnectSavesWell, HookSavesWell, HookGoes,
     Beats, LeasesRunOut, Crashes DEF Common
<1>3. ASSUME UNCHANGED vars PROVE Inv'
  <2>1. /\ UNCHANGED <<provider, db, objs, cached, memory, beating, jobs, hook, call, synced, failed, requests>>
        /\ UNCHANGED <<faults, dead, robbed, revived, excused>>
    BY <1>3 DEF vars, process, actors, marks
  <2>2. JobsHold' /\ SameWorkers /\ Covered' = Covered /\ RequestsHold'
    BY <1>1, <2>1, NobodyTurns, SameRequests
  <2>3. CopiesAreHonest'
    BY <1>1, <2>1, <2>2 DEF Inv, CopiesAreHonest, Honest, HonestCopy
  <2>4. ConnectionHolds'
    BY <1>1, <2>1, <2>2, <2>3, NothingWritten DEF ConnectionHolds, Inv, RestTyped
  <2> QED
    BY <1>1, <2>1, <2>2, <2>4, Holds DEF Inv, RestTyped
<1> QED
  BY <1>1, <1>2, <1>3, GmailActs, CalendarActs, DriveActs, ChatActs, RequestsAreServed DEF Next

LEMMA InvHolds == Spec => []Inv
<1> QED
  BY InvAtStart, InvIsKept, PTL DEF Spec

(* The variables of a connection, its jobs, requests and webhooks keep     *)
(* their types.                                                            *)
THEOREM TypeCorrect == Spec => []TypeOK
<1> QED
  BY InvHolds, Typing, PTL

(* Whatever is saved, cleared, run out or taken without Mongo, two jobs    *)
(* work on one connection only if one of them lost its lock: as long as it *)
(* has not, Mongo names it and grants the lock to no other.                *)
THEOREM WorkNeedsTheLock == Spec => []OneJobAtATime
<1>1. Inv => OneJobAtATime
  BY DEF Inv, LockIsKept, OneJobAtATime
<1> QED
  BY <1>1, InvHolds, PTL

(* A lock that is held has an owner at work, or one that a crash ended, or *)
(* it was brought back by an old copy: no way to end leaves one behind.    *)
THEOREM NoLockStaysBehind == Spec => []LockIsAccountedFor
<1>1. Inv => LockIsAccountedFor
  BY DEF Inv
<1> QED
  BY <1>1, InvHolds, PTL

(* Whatever the size of the account and of the pages, whichever copies are *)
(* saved over others and wherever listings fail: a backfill that Mongo     *)
(* says is complete has every item ingested, in hand or given up.          *)
THEOREM BackfillsHaveAll == Spec => []CompleteBackfillHasAll
<1>1. Inv => CompleteBackfillHasAll
  BY DEF Inv, CopiesAreHonest, Honest, Passed, Covered, CompleteBackfillHasAll
<1> QED
  BY <1>1, InvHolds, PTL
=============================================================================
