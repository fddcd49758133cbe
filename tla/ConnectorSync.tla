---------------------------- MODULE ConnectorSync ----------------------------
(***************************************************************************)
(* What the five connectors of data-pipeline have in common: a connection  *)
(* saved in Mongo and kept as objects in the process, sync jobs that lock  *)
(* it, webhooks and requests that do not, disconnect, purge, heartbeats    *)
(* and faults.  An action is at most the code between two awaits; a        *)
(* request that a thread serves is two, before and after it asks Composio, *)
(* and may come between any two actions.                                   *)
(* Sources: composio_connector/*_sync_manager.py, *_store.py.              *)
(***************************************************************************)
EXTENDS ConnectionLock, FiniteSets

CONSTANTS
    Provider,       \* the connectors looked at
    Items,          \* how many messages, files or events the account holds, 1 the newest
    Limit,          \* the most that one job takes
    Events,         \* the items that webhooks tell of
    Shaky,          \* bound: the connectors for which Mongo may fail as a job asks for the lock
    MaxRequests     \* bound: requests and webhooks, besides those that start one of Job

ASSUME JobAssumption == Job \subseteq Nat /\ IsFiniteSet(Job)
ASSUME ItemsAssumption ==
    Items \in Nat \ {0} /\ Limit \in Nat \ {0} /\ Events \subseteq 1 .. Items /\ MaxRequests \in Nat

Item == 1 .. Items
Ref == 1 .. (Cardinality(Job) + 4)      \* enough connection objects for all who hold one
NoRef == 0

VARIABLES
    provider,   \* the connector of this connection
    db,         \* the connection's document in Mongo
    objs,       \* the connection objects of the process
    cached,     \* the object the store has under the connection's id
    memory,     \* the holder as the process's lock manager remembers it
    beating,    \* the job whose heartbeat runs
    jobs,       \* job -> what it does
    hook,       \* the webhook event in hand
    call,       \* the request a thread serves
    synced,     \* items with a record of having been ingested
    failed,     \* the activity log shows failed items
    requests,   \* how many requests and webhooks there were that started no job
    faults,     \* how many crashes and failures of Mongo there were
    dead,       \* history: jobs that a crash ended
    robbed,     \* history: jobs at work that lost their lock
    revived,    \* history: the job over whose lock an old copy of the connection brought back
    excused     \* history: items a complete backfill may yet be without

process == <<objs, cached, memory, beating>>
actors == <<jobs, hook, call>>
marks == <<dead, robbed, revived, excused>>
vars == <<provider, db, process, actors, synced, failed, requests, faults, marks>>

-----------------------------------------------------------------------------
(* The state *)

Status == {"ready", "syncing", "broken", "off"}
Fill == [phase : {"new", "past", "going", "done"}, cursor : 0 .. Items]
Connection == [status : Status, lock : Lock, fill : Fill]

NewFill == [phase |-> "new", cursor |-> 0]
Blank == [status |-> "broken", lock |-> NoLock, fill |-> NewFill]

NoWork == [step |-> "none", resync |-> FALSE, conn |-> NoRef, stage |-> "any", todo |-> {}]
NoHook == [step |-> "none", conn |-> NoRef, item |-> 1]
NoCall == [kind |-> "none", conn |-> NoRef]

Steps == {"none", "created", "discover", "work", "over"}
Stages == {"any", "past", "forward", "end"}

\* A job between the lock it got and the lock it gives back.
Working(j) == jobs[j].step \in {"discover", "work"}
InHand == UNION {jobs[j].todo : j \in Job}

TypeOK ==
    /\ provider \in Provider
    /\ db \in Connection
    /\ objs \in [Ref -> Connection]
    /\ cached \in Ref \cup {NoRef}
    /\ {memory, beating} \subseteq Job \cup {Nobody}
    /\ jobs \in [Job -> [step : Steps, resync : BOOLEAN, conn : Ref \cup {NoRef}, stage : Stages,
                         todo : SUBSET Item]]
    /\ hook \in [step : {"none", "asked", "deleting"}, conn : Ref \cup {NoRef}, item : Item]
    /\ call \in [kind : {"none", "status", "disconnect"}, conn : Ref \cup {NoRef}]
    /\ synced \subseteq Item /\ failed \in BOOLEAN /\ excused \subseteq Item
    /\ requests \in 0 .. MaxRequests /\ faults \in 0 .. 1
    /\ dead \cup robbed \cup revived \subseteq Job

-----------------------------------------------------------------------------
(* Objects and the document *)

Referred == {cached, hook.conn, call.conn} \cup {jobs[j].conn : j \in Job}

\* Someone at work has an object of its own.
SomeoneHolds == \E c \in {hook.conn, call.conn} \cup {jobs[j].conn : j \in Job} : c # NoRef

\* An object nobody refers to yet, and what becomes of those nobody refers to.
FreshRef == LET free == Ref \ Referred IN CHOOSE r \in free : \A q \in free : r <= q
Objects(o) == LET kept == Referred' IN objs' = [r \in Ref |-> IF r \in kept THEN o[r] ELSE Blank]

\* _doc_to_connection; to_dict leaves an object's lock as undated as it is.
FromDoc(doc) == [doc EXCEPT !.lock = Undated(@)]

\* get_or_create_connection: every time a new object, which takes the place of the cached one.
WithFresh == [objs EXCEPT ![FreshRef] = FromDoc(db)]

\* update_connection saves the whole object, its copy of the lock included, so
\* an old copy takes the lock from its holder or gives it back to a former one.
Robbed(doc) == robbed \cup {j \in Job : Working(j) /\ db.lock.by = j /\ doc.lock.by # j}
Revived(doc) == {j \in Job : ~Working(j) /\ doc.lock.by = j /\ (db.lock.by # j \/ j \in revived)}
Written(doc) ==
    /\ db' = doc
    /\ robbed' = Robbed(doc)
    /\ revived' = Revived(doc)


\* A request that read the connection, changed it and saves it at once.
Saves(c) ==
    /\ cached' = FreshRef
    /\ Written(c)
    /\ Objects([objs EXCEPT ![FreshRef] = c])

\* A request that only reads it.
Reads ==
    /\ cached' = FreshRef
    /\ Objects(WithFresh)
    /\ UNCHANGED <<db, robbed, revived>>

Asked ==
    /\ requests < MaxRequests
    /\ requests' = requests + 1
    /\ UNCHANGED <<provider, faults>>

\* create_task: a job of its own, which tries for the lock when it gets to run.
Created(resync) ==
    \E j \in Job :
        /\ jobs[j].step = "none"
        /\ \A k \in Job : jobs[k].step = "none" => j <= k
        /\ jobs' = [jobs EXCEPT ![j] = [NoWork EXCEPT !.step = "created", !.resync = resync]]
    /\ UNCHANGED <<provider, requests, faults>>

-----------------------------------------------------------------------------
(* Requests *)

\* save_configuration_and_start_sync; where a held lock refuses it, nothing is saved.
SaveAndStart(refusedIfLocked, startsAfresh) ==
    /\ UNCHANGED <<memory, beating, hook, call, synced, failed, dead, excused>>
    /\ IF refusedIfLocked /\ Held(db.lock)
       THEN Asked /\ UNCHANGED jobs /\ Reads
       ELSE /\ Created(FALSE)
            /\ Saves([FromDoc(db) EXCEPT !.status = "syncing",
                                         !.fill = IF startsAfresh /\ synced = {} THEN NewFill ELSE @])

\* update_auto_sync_schedule
Reschedule ==
    /\ Asked
    /\ UNCHANGED <<memory, beating, actors, synced, failed, dead, excused>>
    /\ Saves(FromDoc(db))

\* trigger_manual_sync, trigger_resync: the lock is taken and given back before
\* the job is created, which takes it for itself.
ProbeAndStart(resync) ==
    /\ UNCHANGED <<hook, call, synced, failed, dead, excused>>
    /\ IF db.status = "off" \/ ~Grantable(db.lock, Nobody)
       THEN Asked /\ UNCHANGED <<jobs, memory, beating>> /\ Reads
       ELSE /\ Created(resync)
            /\ cached' = FreshRef
            /\ db' = [db EXCEPT !.lock = NoLock]
            /\ memory' = Nobody
            /\ beating' = Nobody
            /\ Objects([WithFresh EXCEPT ![FreshRef].lock = NoLock])
            /\ revived' = {}
            /\ UNCHANGED robbed

\* sync-now and resync of the connectors whose route asks is_locked first.
IsLocked == KnownLocked(db.lock) \/ memory # Nobody
AskAndStart(resync) ==
    /\ UNCHANGED <<memory, beating, hook, call, synced, failed, dead, excused>>
    /\ IF IsLocked THEN Asked /\ UNCHANGED jobs ELSE Created(resync)
    /\ Reads

\* retry_failed_items where it starts a resync without asking for the lock.
RetryAtOnce ==
    /\ failed
    /\ Created(TRUE)
    /\ UNCHANGED <<memory, beating, hook, call, synced, failed, dead, excused>>
    /\ Reads

\* The scheduler's turn. It looks at the documents and, with `caches`, keeps what it read.
Scheduled(due, caches) ==
    /\ due
    /\ db.status # "off"
    /\ ~IsLocked
    /\ Created(FALSE)
    /\ UNCHANGED <<memory, beating, hook, call, synced, failed, dead, excused>>
    /\ IF caches THEN Reads ELSE UNCHANGED <<db, objs, cached, robbed, revived>>

\* A thread reads the connection, changes its object, and asks Composio.
CallReads(kind, c) ==
    /\ Asked
    /\ call = NoCall
    /\ call' = [kind |-> kind, conn |-> FreshRef]
    /\ cached' = FreshRef
    /\ UNCHANGED <<db, memory, beating, jobs, hook, synced, failed, dead, robbed, revived, excused>>
    /\ Objects([objs EXCEPT ![FreshRef] = c])

StatusReads == CallReads("status", FromDoc(db))

\* get_connection_status: what Composio said of the account, saved if it changed anything.
\* initiate_oauth_flow saves the connection with the status it had.
StatusAfter(s) ==
    {s} \cup (IF s \in {"broken", "off"} THEN {"ready", "broken"}
              ELSE IF s \in {"ready", "syncing"} THEN {"broken"} ELSE {})

CallSaves ==
    /\ call.kind = "status"
    /\ cached' = call.conn
    /\ call' = NoCall
    /\ UNCHANGED <<provider, memory, beating, jobs, hook, synced, failed, requests, faults, dead, excused>>
    /\ \E s \in StatusAfter(objs[call.conn].status) :
        LET c == [objs[call.conn] EXCEPT !.status = s] IN
        /\ Written(c)
        /\ Objects([objs EXCEPT ![call.conn] = c])

CallChangesNothing ==
    /\ call.kind = "status"
    /\ call' = NoCall
    /\ UNCHANGED <<provider, db, cached, memory, beating, jobs, hook, synced, failed, requests, faults, marks>>
    /\ Objects(objs)

-----------------------------------------------------------------------------
(* Disconnect and purge *)

\* disconnect_connection after the call to Composio: the lock of whoever holds it is gone,
\* but the process's memory of it stays.
DisconnectAtOnce ==
    /\ Asked
    /\ beating' = Nobody
    /\ UNCHANGED <<memory, actors, synced, failed, dead, excused>>
    /\ Saves([FromDoc(db) EXCEPT !.status = "off", !.lock = NoLock])

\* disconnect_connection around the call to Composio: the object is disconnected before
\* it; after it the lock is released on the cached object, and the first object is saved,
\* with what others made of it meanwhile.
DisconnectReads == CallReads("disconnect", [FromDoc(db) EXCEPT !.status = "off"])

DisconnectSaves ==
    /\ call.kind = "disconnect"
    /\ memory' = Nobody
    /\ beating' = Nobody
    /\ cached' = call.conn
    /\ call' = NoCall
    /\ UNCHANGED <<provider, jobs, hook, synced, failed, requests, faults, dead, excused>>
    /\ LET freed == IF cached = NoRef THEN objs ELSE [objs EXCEPT ![cached].lock = NoLock]
       IN  Written(freed[call.conn]) /\ Objects(freed)

\* purge_all_connector_data; all who still hold the connection's old state may save it again.
Purge(status, locks) ==
    LET granted == locks /\ Grantable(db.lock, Nobody) IN
    /\ Asked
    /\ memory' = IF granted THEN Nobody ELSE memory
    /\ beating' = IF locks THEN Nobody ELSE beating
    /\ synced' = {}
    /\ failed' = FALSE
    /\ excused' = IF SomeoneHolds THEN Item ELSE {}
    /\ UNCHANGED <<actors, dead>>
    /\ Saves([FromDoc(db) EXCEPT !.fill = NewFill, !.status = status, !.lock = IF granted THEN NoLock ELSE @])

-----------------------------------------------------------------------------
(* Jobs *)

\* acquire_lock, in the document, in the cached object and in memory; then the job saves
\* the object as its own.
JobStarts(j) ==
    /\ jobs[j].step = "created"
    /\ Grantable(db.lock, j)
    /\ cached # NoRef
    /\ LET c == [objs[cached] EXCEPT !.status = "syncing", !.lock = Undated(TakenBy(j))] IN
       /\ db' = c
       /\ objs' = [objs EXCEPT ![cached] = c]
    /\ memory' = j
    /\ beating' = j
    /\ jobs' = [jobs EXCEPT ![j].step = "discover", ![j].conn = cached]
    /\ revived' = {}
    /\ UNCHANGED <<provider, cached, hook, call, synced, failed, requests, faults, dead, robbed, excused>>

\* The process has not read the connection since it started, and the job does not either
\* (the calendar job would, but its scheduler has read the connection before it).
JobFindsNoConnection(j) ==
    /\ jobs[j].step = "created"
    /\ Grantable(db.lock, j)
    /\ cached = NoRef
    /\ db' = [db EXCEPT !.lock = NoLock]
    /\ memory' = Nobody
    /\ beating' = Nobody
    /\ jobs' = [jobs EXCEPT ![j] = [NoWork EXCEPT !.step = "over"]]
    /\ revived' = {}
    /\ UNCHANGED <<provider, objs, cached, hook, call, synced, failed, requests, faults, dead, robbed, excused>>

JobIsRefused(j) ==
    /\ jobs[j].step = "created"
    /\ ~Grantable(db.lock, j)
    /\ jobs' = [jobs EXCEPT ![j] = [NoWork EXCEPT !.step = "over"]]
    /\ UNCHANGED <<provider, db, process, hook, call, synced, failed, requests, faults, marks>>

\* Mongo fails: the process's own memory of the lock decides, and only there it is taken.
JobStartsWithoutMongo(j) ==
    /\ jobs[j].step = "created"
    /\ memory = Nobody
    /\ cached # NoRef
    /\ provider \in Shaky
    /\ faults = 0
    /\ faults' = 1
    /\ memory' = j
    /\ beating' = j
    /\ jobs' = [jobs EXCEPT ![j].step = "discover", ![j].conn = cached]
    /\ objs' = [objs EXCEPT ![cached].lock = Undated(TakenBy(j)), ![cached].status = "syncing"]
    /\ robbed' = robbed \cup {j}
    /\ UNCHANGED <<provider, db, cached, hook, call, synced, failed, requests, dead, revived, excused>>

\* The end of a job: its object is saved, then its lock released everywhere.
Ends(j, c) ==
    /\ db' = [c EXCEPT !.lock = FreedBy(@, j)]
    /\ robbed' = Robbed(c) \ {j}
    /\ revived' = Revived(c)
    /\ cached' = jobs[j].conn
    /\ jobs' = [jobs EXCEPT ![j] = [NoWork EXCEPT !.step = "over"]]
    /\ memory' = IF memory = j THEN Nobody ELSE memory
    /\ beating' = Nobody
    /\ UNCHANGED <<provider, hook, call, synced, failed, requests, faults, dead>>
    /\ Objects([objs EXCEPT ![jobs[j].conn] = [c EXCEPT !.lock = FreedBy(@, j)]])

\* An exception on the way: the job's except and finally clauses.
JobFails(j) ==
    /\ jobs[j].step = "discover"
    /\ UNCHANGED excused
    /\ Ends(j, [objs[jobs[j].conn] EXCEPT !.status = "broken"])

\* The job saves its object, or not.
Keeps(j, c) == Written(c) /\ cached' = jobs[j].conn
KeepsNothing == UNCHANGED <<db, cached, robbed, revived>>

\* What a job found goes to work, or if it found nothing it looks on at the next stage.
Works(j, todo, stage, c) ==
    /\ jobs' = [jobs EXCEPT ![j].step = IF todo = {} THEN "discover" ELSE "work",
                            ![j].todo = todo, ![j].stage = stage]
    /\ UNCHANGED <<provider, memory, beating, hook, call, synced, failed, requests, faults, dead>>
    /\ Objects([objs EXCEPT ![jobs[j].conn] = c])

\* An item is through, and its batch with it: the job's object is saved once more.
JobIsThroughWith(j, m) ==
    /\ jobs[j].step = "work"
    /\ m \in jobs[j].todo
    /\ jobs' = [jobs EXCEPT ![j].todo = @ \ {m}]
    /\ Keeps(j, objs[jobs[j].conn])
    /\ UNCHANGED <<provider, memory, beating, hook, call, requests, faults, dead>>
    /\ Objects(objs)

\* It was ingested meanwhile; or the pipeline has it and it is recorded; or it failed.
JobSkips(j, m) ==
    /\ m \in synced
    /\ JobIsThroughWith(j, m)
    /\ UNCHANGED <<synced, failed, excused>>

JobRecords(j, m) ==
    /\ JobIsThroughWith(j, m)
    /\ synced' = synced \cup {m}
    /\ excused' = excused \ {m}
    /\ UNCHANGED failed

JobLosesItem(j, m) ==
    /\ JobIsThroughWith(j, m)
    /\ failed' = TRUE
    /\ excused' = excused \cup {m}
    /\ UNCHANGED synced

Emptied(j) == jobs[j].step = "work" /\ jobs[j].todo = {}

JobEnds(j, status) ==
    /\ Emptied(j)
    /\ UNCHANGED excused
    /\ Ends(j, [objs[jobs[j].conn] EXCEPT !.status = status])

-----------------------------------------------------------------------------
(* Webhooks *)

\* The event's connection is read, the item looked up, and billing asked.
HookReads(m, again, step) ==
    /\ Asked
    /\ hook = NoHook
    /\ hook' = IF m \in synced /\ ~again THEN NoHook
               ELSE [step |-> step, conn |-> FreshRef, item |-> m]
    /\ UNCHANGED <<memory, beating, jobs, call, synced, failed, dead, excused>>
    /\ Reads

\* The item is ingested and recorded, and the object read before all that is saved.
HookSaves ==
    /\ hook.step = "asked"
    /\ synced' = synced \cup {hook.item}
    /\ excused' = excused \ {hook.item}
    /\ Written(objs[hook.conn])
    /\ cached' = hook.conn
    /\ hook' = NoHook
    /\ UNCHANGED <<provider, memory, beating, jobs, call, failed, requests, faults, dead>>
    /\ Objects(objs)

\* The item is gone at its source: so is its record.
HookDeletes ==
    /\ hook.step = "deleting"
    /\ synced' = synced \ {hook.item}
    /\ excused' = excused \cup {hook.item}
    /\ hook' = NoHook
    /\ UNCHANGED <<provider, db, cached, memory, beating, jobs, call, failed, requests, faults, dead, robbed, revived>>
    /\ Objects(objs)

\* No credits, ingested meanwhile, or failed.
HookDrops ==
    /\ hook # NoHook
    /\ hook' = NoHook
    /\ UNCHANGED <<provider, db, cached, memory, beating, jobs, call, synced, failed, requests, faults, marks>>
    /\ Objects(objs)

-----------------------------------------------------------------------------
(* Heartbeats, time and faults *)

Beat ==
    /\ beating # Nobody
    /\ db.lock.by = beating
    /\ db' = [db EXCEPT !.lock = Beaten(@, beating)]
    /\ UNCHANGED <<provider, process, actors, synced, failed, requests, faults, marks>>

\* Nobody renewed the lease for its fifteen minutes.
LeaseRunsOut ==
    /\ db' = [db EXCEPT !.lock = IF beating = db.lock.by THEN @ ELSE RunOut(@)]
    /\ memory' = IF beating = memory THEN memory ELSE Nobody
    /\ <<db, memory>>' # <<db, memory>>
    /\ robbed' = robbed \cup {j \in Job : Working(j) /\ db'.lock = RunOut(TakenBy(j))}
    /\ UNCHANGED <<provider, objs, cached, beating, actors, synced, failed, requests, faults, dead, revived, excused>>

\* The process ends and starts again: only the document and the records are left.
Crash ==
    /\ faults = 0
    /\ faults' = 1
    /\ cached' = NoRef
    /\ memory' = Nobody
    /\ beating' = Nobody
    /\ dead' = dead \cup {j \in Job : Working(j)}
    /\ excused' = excused \cup InHand
    /\ jobs' = [j \in Job |-> IF jobs[j].step = "none" THEN NoWork ELSE [NoWork EXCEPT !.step = "over"]]
    /\ hook' = NoHook
    /\ call' = NoCall
    /\ robbed' = {}
    /\ UNCHANGED <<provider, db, synced, failed, requests, revived>>
    /\ Objects(objs)

=============================================================================
