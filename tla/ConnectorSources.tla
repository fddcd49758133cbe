--------------------------- MODULE ConnectorSources ---------------------------
(***************************************************************************)
(* The five sync managers, each with the handlers of its own: what a job   *)
(* lists and where its backfill stands after it, what refuses a start, and *)
(* who takes the lock.  Sources: gmail_, calendar_, gdrive_, slack_ and    *)
(* notion_sync_manager.py, connector_routes.py.                            *)
(***************************************************************************)
EXTENDS ConnectorSync

CONSTANT Guardrail      \* after how many pages a Gmail listing gives up

ASSUME GuardrailAssumption == Guardrail \subseteq Nat \ {0}

-----------------------------------------------------------------------------
(* What the account holds and how it is listed *)

\* The newest of some items, at most so many.
Newest(S, n) == {m \in S : Cardinality({k \in S : k < m}) < n}
Unsynced(S) == S \ synced

\* Page p, counted from 0, of a listing with pages of some size, and the page after it,
\* which is the first again when there is none. The first variant does not start again,
\* the second passes over a page.
Page(p, size) == {m \in Item : p * size < m /\ m <= (p + 1) * size}
PageAfterLast(p, size) == p + Items + 1
PageTooFar(p, size) == IF (p + 2) * size < Items + size THEN p + 2 ELSE 0
PageAfter(p, size) == IF (p + 1) * size < Items THEN p + 1 ELSE 0
Beyond(p, size) == {m \in Item : p * size < m}

Going(cursor) == [phase |-> "going", cursor |-> cursor]
Done == [phase |-> "done", cursor |-> 0]

Conn(j) == objs[jobs[j].conn]
Discovers(j) == jobs[j].step = "discover"
Backfills(j) == jobs[j].resync \/ Conn(j).fill.phase # "done"

\* What a job found is worked through, and its object not saved until an item is through
\* or the job over.
FindsUnsaved(j, todo, fill, missed) ==
    LET c == [Conn(j) EXCEPT !.fill = fill] IN
    /\ excused' = excused \cup missed
    /\ IF todo = {} THEN Ends(j, [c EXCEPT !.status = "ready"])
                    ELSE KeepsNothing /\ Works(j, todo, "end", c)

-----------------------------------------------------------------------------
(* How each manager's job begins *)

Begins(j) == JobStarts(j) \/ JobFindsNoConnection(j) \/ JobIsRefused(j) \/ JobStartsWithoutMongo(j)

-----------------------------------------------------------------------------
(* Gmail *)

GmailBegins(j) == Begins(j)

\* The pages are larger than a job's budget.
GmailPage == Limit + 1

\* The connection is saved with its new backfill, then the mail is worked through.
GmailFinds(j, todo, fill, missed) ==
    LET c == [Conn(j) EXCEPT !.fill = fill] IN
    /\ excused' = excused \cup missed
    /\ IF todo = {} THEN Ends(j, [c EXCEPT !.status = "ready"])
                    ELSE Keeps(j, c) /\ Works(j, todo, "end", c)

\* Gmail's listing from a page on, until the budget is met, the pages end, or the guardrail
\* stops it with the cursor where it was. A page that cannot be fetched ends the pages too.
\* What is left of the last page is not returned to. The next page may hold mail from
\* before the window only; where such mail comes first the backfill is taken for complete.
GmailLists(j, from, pages) ==
    LET seen == {p \in from .. Items : p < from + pages /\ Beyond(p, GmailPage) # {}}
        upTo(p) == Unsynced({m \in Item : from * GmailPage < m /\ m <= (p + 1) * GmailPage})
        rest == Unsynced(Beyond(from, GmailPage))
        met == {p \in seen : Cardinality(upTo(p)) >= Limit}
        last == CHOOSE p \in met : \A q \in met : p <= q
        todo == Newest(upTo(last), Limit)
    IN  \/ /\ met # {}
           /\ \E next \in {PageAfter(last, GmailPage), last + 1} :
                 GmailFinds(j, todo, Going(next), upTo(last) \ todo)
        \/ met # {} /\ GmailFinds(j, todo, Done, rest \ todo)
        \/ met = {} /\ Beyond(from + pages, GmailPage) = {} /\ GmailFinds(j, rest, Done, {})
        \/ /\ met = {} /\ Beyond(from + pages, GmailPage) # {}
           /\ LET fill == Conn(j).fill IN
              FindsUnsaved(j, upTo(from + pages - 1), IF fill.phase = "new" THEN Going(0) ELSE fill, {})
        \/ \E p \in seen :
              /\ \A q \in met : p <= q
              /\ GmailFinds(j, upTo(p) \ Page(p, GmailPage), Done, Unsynced(Beyond(p, GmailPage)))

GmailDiscovers(j) ==
    /\ Discovers(j)
    /\ Backfills(j)
    /\ \E pages \in Guardrail : GmailLists(j, IF jobs[j].resync THEN 0 ELSE Conn(j).fill.cursor, pages)

\* After the backfill: the newest mail, or nothing if it cannot be fetched.
GmailGoesForward(j) ==
    /\ Discovers(j)
    /\ ~Backfills(j)
    /\ \E listed \in {Page(0, GmailPage), {}} :
          FindsUnsaved(j, Newest(Unsynced(listed), Limit), Conn(j).fill, {})

GmailProcesses(j, m) == JobSkips(j, m) \/ JobRecords(j, m) \/ JobLosesItem(j, m)
GmailEnds(j) == JobEnds(j, "ready") \/ JobFails(j)

GmailWebhook(m) == HookReads(m, FALSE, "asked")
GmailSave == SaveAndStart(TRUE, TRUE)
GmailSchedule == Reschedule
GmailStatus == StatusReads       \* and initiate_oauth_flow
GmailSyncNow == ProbeAndStart(FALSE)
GmailResync == ProbeAndStart(TRUE)
GmailDisconnect == DisconnectAtOnce
GmailPurge == Purge(db.status, TRUE)
GmailCron == Scheduled(db.status = "ready" /\ ~Held(db.lock) /\ db.fill.phase # "new", FALSE)

Gmail ==
    /\ provider = "gmail"
    /\ \/ \E j \in Job : GmailBegins(j) \/ GmailDiscovers(j) \/ GmailGoesForward(j) \/ GmailEnds(j)
       \/ \E j \in Job, m \in Item : GmailProcesses(j, m)
       \/ GmailCron

-----------------------------------------------------------------------------
(* Google Calendar: the coming year page by page, then the past, then what is new *)

CalendarBegins(j) == Begins(j)

\* The oldest item is the past, the others are to come.
Past == {Items}
Future == Item \ Past

\* A part of the job: the connection is saved before the listing, and its new
\* backfill only with the events. A listing that fails looks like the last page.
CalendarFinds(j, before, todo, fill, missed, stage) ==
    /\ excused' = excused \cup missed
    /\ Keeps(j, before)
    /\ Works(j, todo, stage, [before EXCEPT !.fill = fill])

\* Nothing was found, or what was found is through.
PhaseIsOver(j) == Discovers(j) \/ Emptied(j)

\* Phase 1 of start_sync_job, from where the last job left it; a resync starts over.
CalendarFuture(j) ==
    LET before == IF jobs[j].resync THEN [Conn(j) EXCEPT !.fill = NewFill] ELSE Conn(j)
        cursor == before.fill.cursor
        last == (cursor + 1) * Limit >= Cardinality(Future)
        pastNext == [phase |-> "past", cursor |-> 0]
    IN  /\ jobs[j].stage = "any"
        /\ Discovers(j)
        /\ before.fill.phase = "new"
        /\ \/ CalendarFinds(j, before, Unsynced(Page(cursor, Limit) \cap Future),
                            IF last THEN pastNext ELSE [phase |-> "new", cursor |-> cursor + 1],
                            {}, IF last THEN "past" ELSE "end")
           \/ CalendarFinds(j, before, {}, pastNext, Unsynced(Future \cap Beyond(cursor, Limit)), "past")

\* Phase 2: the past, all of it on one page.
CalendarPast(j) ==
    LET stage == IF jobs[j].resync THEN "end" ELSE "forward" IN
    /\ PhaseIsOver(j)
    /\ jobs[j].stage \in {"any", "past"}
    /\ Conn(j).fill.phase = "past"
    /\ jobs[j].stage = "any" => ~jobs[j].resync
    /\ \/ CalendarFinds(j, Conn(j), Unsynced(Past), Done, {}, stage)
       \/ CalendarFinds(j, Conn(j), {}, Done, Unsynced(Past), stage)

\* Phase 3: the first page of what is to come.
CalendarGoesForward(j) ==
    /\ PhaseIsOver(j)
    /\ jobs[j].stage \in {"any", "forward"}
    /\ Conn(j).fill.phase = "done"
    /\ ~jobs[j].resync
    /\ \E listed \in {Page(0, Limit) \cap Future, {}} :
          /\ UNCHANGED excused
          /\ KeepsNothing
          /\ Works(j, Unsynced(listed), "end", Conn(j))

CalendarProcesses(j, m) == JobSkips(j, m) \/ JobRecords(j, m) \/ JobLosesItem(j, m)

CalendarEnds(j) ==
    \/ JobFails(j)
    \/ /\ jobs[j].stage = "end"
       /\ PhaseIsOver(j)
       /\ UNCHANGED excused
       /\ Ends(j, [Conn(j) EXCEPT !.status = "ready"])

\* An event may be new, an update of one ingested already, or a cancellation.
CalendarWebhook(m) ==
    \/ \E update \in BOOLEAN : HookReads(m, update, "asked")
    \/ HookReads(m, TRUE, "deleting")
CalendarSave == SaveAndStart(FALSE, FALSE)
CalendarSchedule == Reschedule
CalendarStatus == StatusReads    \* and initiate_oauth_flow
CalendarSyncNow == AskAndStart(FALSE)
CalendarResync == AskAndStart(TRUE)
CalendarRetry == RetryAtOnce
CalendarDisconnect == DisconnectReads
CalendarPurge == Purge("ready", FALSE)
CalendarCron == Scheduled(db.status = "ready", TRUE)

Calendar ==
    /\ provider = "calendar"
    /\ \/ \E j \in Job : \/ CalendarBegins(j) \/ CalendarFuture(j) \/ CalendarPast(j) \/ CalendarGoesForward(j)
                         \/ CalendarEnds(j)
       \/ \E j \in Job, m \in Item : CalendarProcesses(j, m)
       \/ CalendarCron

-----------------------------------------------------------------------------
(* Google Drive *)

DriveBegins(j) == Begins(j)

\* One page a job; a listing that fails looks like the last page.
DriveDiscovers(j) ==
    LET cursor == IF jobs[j].resync THEN 0 ELSE Conn(j).fill.cursor
        next == PageAfter(cursor, Limit)
    IN  /\ Discovers(j)
        /\ Backfills(j)
        /\ \/ FindsUnsaved(j, Unsynced(Page(cursor, Limit)), IF next = 0 THEN Done ELSE Going(next), {})
           \/ FindsUnsaved(j, {}, Done, Unsynced(Beyond(cursor, Limit)))

DriveGoesForward(j) ==
    /\ Discovers(j)
    /\ ~Backfills(j)
    /\ \E listed \in {Page(0, Limit), {}} : FindsUnsaved(j, Unsynced(listed), Conn(j).fill, {})

DriveProcesses(j, m) == JobSkips(j, m) \/ JobRecords(j, m) \/ JobLosesItem(j, m)
DriveEnds(j) == JobEnds(j, "ready") \/ JobFails(j)

DriveWebhook(m) ==
    \/ \E update \in BOOLEAN : HookReads(m, update, "asked")
    \/ HookReads(m, TRUE, "deleting")
DriveSave == SaveAndStart(FALSE, FALSE)
DriveSchedule == Reschedule
DriveStatus == StatusReads       \* and initiate_oauth_flow
DriveSyncNow == AskAndStart(FALSE)
DriveResync == AskAndStart(TRUE)
DriveRetry == RetryAtOnce
DriveDisconnect == DisconnectReads
DrivePurge == Purge(db.status, FALSE)
DriveCron == Scheduled(db.status = "ready", FALSE)

Drive ==
    /\ provider = "gdrive"
    /\ \/ \E j \in Job : DriveBegins(j) \/ DriveDiscovers(j) \/ DriveGoesForward(j) \/ DriveEnds(j)
       \/ \E j \in Job, m \in Item : DriveProcesses(j, m)
       \/ DriveCron

-----------------------------------------------------------------------------
(* Slack and Notion: no backfill, each job takes the newest of what is not ingested *)

\* The conversations' latest messages; a resync takes ingested ones again.
SlackWindow == Page(0, Limit + 1)
\* The workspace's first search results.
NotionWindow == Page(0, Limit)

TakesNewest(j, window) ==
    /\ Discovers(j)
    /\ \E listed \in {window, {}} :
          LET todo == Newest(IF jobs[j].resync THEN listed ELSE Unsynced(listed), Limit) IN
          /\ UNCHANGED excused
          /\ IF todo = {} THEN Ends(j, [Conn(j) EXCEPT !.status = "ready"])
                          ELSE KeepsNothing /\ Works(j, todo, "end", Conn(j))

ChatProcesses(j, m) ==
    \/ ~jobs[j].resync /\ JobSkips(j, m)
    \/ JobRecords(j, m)
    \/ JobLosesItem(j, m)
ChatEnds(j) == JobFails(j) \/ \E status \in {"ready", "broken"} : JobEnds(j, status)

SlackBegins(j) == Begins(j)
SlackDiscovers(j) == TakesNewest(j, SlackWindow)
SlackProcesses(j, m) == ChatProcesses(j, m)
SlackEnds(j) == ChatEnds(j)
SlackWebhook(m) == HookReads(m, FALSE, "asked")
SlackSave == SaveAndStart(TRUE, TRUE)
SlackSchedule == Reschedule
SlackStatus == StatusReads
SlackSyncNow == ProbeAndStart(FALSE)
SlackResync == ProbeAndStart(TRUE)
SlackDisconnect == DisconnectAtOnce
SlackPurge == Purge("broken", FALSE)
SlackCron == Scheduled(TRUE, FALSE)

Slack ==
    /\ provider = "slack"
    /\ \/ \E j \in Job : SlackBegins(j) \/ SlackDiscovers(j) \/ SlackEnds(j)
       \/ \E j \in Job, m \in Item : SlackProcesses(j, m)
       \/ SlackCron

NotionBegins(j) == Begins(j)
NotionDiscovers(j) == TakesNewest(j, NotionWindow)
NotionProcesses(j, m) == ChatProcesses(j, m)
NotionEnds(j) == ChatEnds(j)
NotionWebhook(m) == HookReads(m, FALSE, "asked")
NotionSave == SaveAndStart(TRUE, TRUE)
NotionSchedule == Reschedule
NotionStatus == StatusReads
NotionSyncNow == ProbeAndStart(FALSE)
NotionResync == ProbeAndStart(TRUE)
NotionDisconnect == DisconnectAtOnce
NotionPurge == Purge("broken", FALSE)
NotionCron == Scheduled(TRUE, FALSE)

Notion ==
    /\ provider = "notion"
    /\ \/ \E j \in Job : NotionBegins(j) \/ NotionDiscovers(j) \/ NotionEnds(j)
       \/ \E j \in Job, m \in Item : NotionProcesses(j, m)
       \/ NotionCron

-----------------------------------------------------------------------------
(* What members of the workspace ask, as connector_routes.py takes it to   *)
(* the manager of the source: its endpoints, and those for any source.     *)
(* Initiating OAuth and looking at the status both ask the app.            *)

ForSource(gmail, calendar, drive, slack, notion) ==
    \/ provider = "gmail" /\ gmail
    \/ provider = "calendar" /\ calendar
    \/ provider = "gdrive" /\ drive
    \/ provider = "slack" /\ slack
    \/ provider = "notion" /\ notion

GmailEndpoints == GmailSave \/ GmailSchedule \/ GmailSyncNow \/ GmailResync
CalendarEndpoints == CalendarSave \/ CalendarSchedule \/ CalendarSyncNow \/ CalendarResync
DriveEndpoints == DriveSave \/ DriveSchedule \/ DriveSyncNow \/ DriveResync
SlackEndpoints == SlackSave \/ SlackSchedule \/ SlackSyncNow \/ SlackResync
NotionEndpoints == NotionSave \/ NotionSchedule \/ NotionSyncNow \/ NotionResync

ConnectConnector == ForSource(GmailStatus, CalendarStatus, DriveStatus, SlackStatus, NotionStatus)
DisconnectConnector ==
    ForSource(GmailDisconnect, CalendarDisconnect, DriveDisconnect, SlackDisconnect, NotionDisconnect)
PurgeConnectorAllData == ForSource(GmailPurge, CalendarPurge, DrivePurge, SlackPurge, NotionPurge)
\* The managers of Gmail, Slack and Notion retry by a resync.
RetryFailedItems == ForSource(GmailResync, CalendarRetry, DriveRetry, SlackResync, NotionResync)
\* An event of the app, or one that a member simulates for their own connection.
Webhook ==
    \E m \in Events :
        ForSource(GmailWebhook(m), CalendarWebhook(m), DriveWebhook(m), SlackWebhook(m), NotionWebhook(m))

Requests ==
    \/ ForSource(GmailEndpoints, CalendarEndpoints, DriveEndpoints, SlackEndpoints, NotionEndpoints)
    \/ ConnectConnector \/ DisconnectConnector \/ PurgeConnectorAllData \/ RetryFailedItems \/ Webhook

-----------------------------------------------------------------------------
(* The specification: a connected account of which nothing is ingested yet *)

Init ==
    /\ provider \in Provider
    /\ db = [status |-> "ready", lock |-> NoLock, fill |-> NewFill]
    /\ objs = [r \in Ref |-> Blank]
    /\ cached = NoRef
    /\ memory = Nobody /\ beating = Nobody
    /\ jobs = [j \in Job |-> NoWork]
    /\ hook = NoHook
    /\ call = NoCall
    /\ synced = {} /\ failed = FALSE /\ excused = {}
    /\ requests = 0 /\ faults = 0
    /\ dead = {} /\ robbed = {} /\ revived = {}

Common ==
    \/ CallSaves \/ CallChangesNothing \/ DisconnectSaves
    \/ HookSaves \/ HookDeletes \/ HookDrops
    \/ Beat \/ LeaseRunsOut \/ Crash

Next == Gmail \/ Calendar \/ Drive \/ Slack \/ Notion \/ Requests \/ Common

Spec == Init /\ [][Next]_vars

-----------------------------------------------------------------------------
(* Properties *)

\* Two jobs work on one connection only after one of them lost its lock: a request that
\* cleared it, a stale copy saved over it, a lease that ran out, or a lock taken in memory.
OneJobAtATime ==
    \A j, k \in Job : Working(j) /\ Working(k) => j = k \/ {j, k} \cap robbed # {}

\* A lock in Mongo has an owner that works, or the owner died with it, or a stale copy of
\* the connection brought it back: no end of a job, refusal, failure or purge leaves it.
LockIsAccountedFor ==
    Held(db.lock) => Working(db.lock.by) \/ db.lock.by \in dead \cup revived

\* A backfill that Mongo says is complete has every item ingested or in hand, but for those
\* it knowingly gave up: failed, on a page that could not be fetched or past the budget of
\* its page, in the hands of a process that ended, deleted, or purged under a job.
CompleteBackfillHasAll ==
    db.fill.phase = "done" => Item \subseteq synced \cup InHand \cup excused

=============================================================================
