# Role-Sync, specified

TLA+ models of the parts of Role-Sync whose correctness depends on what happens
between two steps: several request threads, several services on one Redis list,
webhooks in any order, processes that die. Each module is translated from the
source; `PROJECT.json` ("map") gives the file and lines of every definition.

Role-Sync runs AI sales agents on a company's own documents and records. Java
services keep accounts, workspaces and billing; two Python services run the
agents and ingest documents; they share PostgreSQL, MongoDB and Redis.

## Inventory

| Part | State | Operations | Talks to | Hard behaviour | Modules |
|---|---|---|---|---|---|
| billing: credit ledger | `credit_accounts`, `credit_transactions`, `usage_events`, `welcome_grants` | charge, purchase, claw-back, grant, deduct, suspend, reactivate, welcome credits | called by payments, admin endpoints, both Python services; asks workspace-service who owns a workspace | threads on one row, nested transactions, unique keys across rows, rollback before the answer | LedgerOps, AtomicLedger, CreditLedger |
| billing: payments | `payment_orders`, `payment_events`, `credit_grants` | start a checkout, process a webhook, look an order up, sweep | Stripe; the ledger, in the same transaction | webhooks late, twice, reordered or never; stale copies written back | PaymentOrders |
| usage reporting (engine and pipeline clients) | Redis list `billing:pending_usage`, cached checks | charge, queue, drain | billing over HTTP, each other through the list | lost answers, resends by the other service, kills between pop and push | UsageCharging |
| pipeline: durable queue | Redis lists and sets | enqueue, reserve, ack, fail, promote, reclaim, replay | uploads, connectors, workers, operators | crashes, heartbeats, failed commands | DurableQueue |
| pipeline: catalog and stock | products, SKUs, `inventory_levels`, reservations, movements | adjust, reserve, release, commit, transfer, edit, import | agents, pages, imports | row locks over several locations; imports that commit step by step | StockOps, AtomicStock, CatalogStock, CatalogImport |
| pipeline: connectors, connection lock | Mongo documents, objects and a lock in memory | start, sync, webhook, schedule, disconnect, purge | Composio; the ingestion of items | one lock in two places, stale objects written back, a crash | ConnectionLock, ConnectorSync, ConnectorSources |
| pipeline: ingestion and retrieval | registry row, staged bytes, text, lineage, vectors, chunk hashes, holds | upload, crawl, sync, gatekeep, index, release, delete, search | queue worker, connected apps | eight stores and no transaction; jobs retried and replayed | VaultStores, DocumentVault |
| engine: tool gate, approvals, saga, leases | `pending_action`, `saga_step`, `audit`, a Redis lease | propose, decide, expire, execute, undo | reviewers, tools, the policy | replay after a crash, decision against expiry, unknown outcomes | ToolGate, AgentSession |
| engine: orchestration | `session`, checkpoints | turn, pause, resume, sweep, stop | gate, Redis, PostgreSQL | a run that lost its lease and goes on | AgentSession |
| engine: write tools, memory | none of their own; memory entries | 27 tools: plan, preview, apply, undo | catalog, deals, tasks, quotes, vault, connectors | other people's edits between plan, apply and undo; lost answers | RecordWrites, AgentTools, AgentWrites |
| engine: skills | `skill`, `skill_version`, `skill_setting`, an agent's cache | create, customize, edit, restore, reset, archive, share, switch | editors, agents | check in one transaction, write in another | SkillLibrary |
| engine: workspace outbox | `workspace_outbox` | enqueue, deliver, give up, requeue | workspace-service | order per session, several deliverers, requests that arrive late | WorkspaceOutbox |
| workspace-service | contexts, tasks, notes, deals, profiles, members | upsert, save, read, invite | gateway, the engine | version checks | RecordWrites, AgentWrites, WorkspaceOutbox (what the engine meets) |
| auth-service | users, tokens, codes, lockouts | log in, verify, lock out | gateway | counters | - |
| gateway, config, eureka, frontend, scripts | configuration | - | - | none of their own | - |

What makes each correct:

- *ledger*: a balance is the sum of its lines, no line twice, no update lost, an
  answer is true even after a rollback, welcome credits once per person;
- *payments*: credits move exactly with the money, once, whatever reports it;
- *usage*: a charge is made at most once and does not disappear silently;
- *queue*: an accepted job is not lost and ends as done or dead-lettered;
- *stock*: what is promised is on hand, the movements explain the levels, shipments
  between two locations never deadlock with each other;
- *connectors*: one job works on a connection, no lock outlives its job, a backfill
  called complete has everything;
- *documents*: an indexed document is whole, what may not be found is not found, no
  document is Parsing for ever;
- *sessions*: a write runs as decided and at most once, what the rep is shown of
  decisions and executions is so, every request ends;
- *write tools, import*: what is answered is so, and nobody's work is overwritten
  unseen;
- *skills*: limits and switches hold for what an agent loads, nobody's text is lost;
- *outbox*: the workspace ends up with the latest of every record.

## Plan

The order was: money (ledger, payments, usage) and the queue that carries ingestion;
then the catalog's stock with its abstract inventory and proofs; connectors; the
agent's gate and session; documents; and the records an agent and people share. All
of it is done. What would come next:

1. `auth-service`: lockout counters and single use of codes.
2. `DurableQueue` and `DocumentVault` composed: a lost or doubled job of one is a
   choice of the other today.
3. Proofs of the write tools (their part of `RecordTypes`, `AnswersTrue`,
   `KeepsOthersWork`).

## Modules

**LedgerOps** declares the ledger's three tables (account rows, lines, keys) and no
action. It says what one operation does to an account row
(`Posted`), which line it appends (`LineOf`, `WithLine`), which key it takes
(`WithKey`), and when it is refused (`Refused`) or already in force (`NoChange`).

**AtomicLedger** is the promise of the credit ledger: one action on these tables,
`Post`, a whole operation at once.

**CreditLedger** is the ledger as it runs (its proofs stand beside those of
`PaymentOrders` and `UsageCharging`, so its names are its own: `LedgerInit`,
`LedgerNext`, `LedgerSpec`, `LedgerTyped`). A worker is a request thread; `Begin`
is the first look for the key, `CreateIfMissing` the account's own transaction,
`WelcomeDue` .. `WelcomeGrantTaken` the welcome credits, `Lock` the row lock and
refresh of `CreditAccountLocker`, `TurnBack` and `GoAhead` the decisions under it,
`Commit` and `UniqueViolation` the flush, `Abort` any failure before the commit.

**PaymentOrders** follows one order: `Start` .. `CheckoutFails` (CheckoutService),
what Stripe and the buyer do (external), `Deliver` and `Lookup` .. `EventRecorded`
(webhooks, `OrderReconciler`), and under `Apply` one action per outcome in
`PaymentFulfillmentService`. A thread reads the order when it begins and writes all
of it when it commits, because `PaymentOrder` has neither version nor lock. It
composes the ledger by one `AtomicLedger!Post` per commit, which is sound because
`CreditLedger` refines it.

**UsageCharging**: `Report` .. `ChargeKilled` are `charge`, `submit` and `_queue`;
`Take` .. `Kill` one pass of `drain_pending`; `BillLate` is billing processing a
request whose sender has stopped waiting. Both clients have the same protocol;
engine and pipeline are two drainers.

**DurableQueue**: `Boot` .. `ReclaimFails` are `start` and `reclaim_stale`; `Beat`,
`ReadDue`, `RemoveDue`, `Requeue`, `Take`, `TakeNothing` are one `reserve`; `Ack`,
`Fail`, `FailFails` end a job; `BeginReplay` .. `ReplayFails` are
`replay_dead_letters`. `done`, `lost`, `strayed`, `taken` are history: what became
of a job, and which failure excuses it.

**StockOps** says what one operation does to stock levels, reservations and the
ledger of movements; **AtomicStock** is the inventory's promise, an operation at a
time; **CatalogStock** has the sessions that validate without a lock, take the
`inventory_level` rows one by one (`SELECT ... FOR UPDATE`, with waiting and deadlock
victims) and commit, and refines it (`AtomicStock` with the committed rows, and what
each release and commit was asked for).

**ConnectionLock** is the lock sub-document and its compare-and-set; **ConnectorSync**
what the five connectors share: the document in Mongo, the objects of it in the
process, the lock manager's memory, jobs, webhooks, heartbeats, disconnect, purge, a
crash; **ConnectorSources** each sync manager's own handlers: what it lists, where its
backfill stands, what refuses a start and who takes the lock. An action is the code
between two awaits, or, in a thread, between two calls to Composio: a calendar's and a
drive's disconnect changes the object before the call (`DisconnectReads`) and saves it
after (`DisconnectSaves`), the others do all of it after (`DisconnectAtOnce`). Requests
come through `connector_routes`' endpoints (`ForSource`).

**ToolGate** takes one write through approval, saga step, side effect, audit and undo;
**AgentSession** adds the graph that asks for writes, the checkpoint, the lease,
pauses and resumptions, the sweeps and stop. `ran`, `reversed`, `told` are history.
What a tool raises becomes FAILED, INVALID or UNKNOWN whether or not the request took
effect (`RunTool`); `told` is what the conversation shows of a call, also where
`repair_history` or a stop answers in the tool's place (`ShownFailed`).

**VaultStores** is the eight stores of a document and the operations every path uses;
**DocumentVault** the requests, the sweep and the ingestion worker that use them, stage
by stage, with nothing that locks a document. Requests, sweeps (`Sweep`, `SweepErases`,
a thread of its own) and sync managers (`Pull` .. `PullPersist`, who take an item
through the event's stages themselves) run beside the worker. A deletion is one step
per store (`DeletionStep`, `Erase`), and a row the worker finds is saved back whole a
step later (`Finds`, `SaveBack`), even if it was deleted in between.

**WorkspaceRecords** composes four parts that share no record, so that a behaviour
plays one of them: **RecordWrites** (what a service accepts and what it leaves),
**AgentTools** (per tool: what its plan refuses, its requests, its undo) and
**AgentWrites** (a call from plan to undo, with other people's edits and lost
answers); **CatalogImport** (a file checked once, then written product by product,
its options read and set in two steps: `ImportOptions`, `ImportOptionsSet`);
**SkillLibrary** (the tables, the requests of two editors between their reads and
writes, what a run of the agent has loaded; `past` has each row's versions in order);
**WorkspaceOutbox** (the outbox, the workers with the records each has read (`items`),
the advisory lock `holder`, and `mirror`, what the workspace shows). Its names say
which part they belong to (`toolFaults`, `requests`, `RecordsSpec`). Of its properties,
`AnswersTrue` and `KeepsOthersWork` are about the tools, `ReportedIsSo` joins what an
import reports and what the outbox calls delivered, and `OthersWorkStays` what skills,
outbox and import leave alone.

`WorkspaceOutbox!Enqueue` takes records in the order of their `seq`, because a session
has one run at a time, which holds its lease, awaits each enqueue before the next
(`runner.py` `_drive`), does a write alone in its batch (`orchestrator.py`
`_next_batch`), and rolls back an enqueue that is cancelled. Two runs of one session,
after a lost lease, could commit out of order; that is left out.

`MC*` modules give the constants values; `*Proofs` modules hold the theorems, and
`CollectionFacts` the lemmas on lists, finite sets and sums that several of them need.

## Runs

| Run | Question | Result |
|---|---|---|
| CreditLedger | two scenes: two workspaces of one owner with a guest and one key for two rows; every administrator's and payment operation in one workspace | refines AtomicLedger, books explain balance and status, keys and welcome credits once, answers true, no unasked overdraft, everybody served |
| PaymentOrders | all webhooks and look-ups of an order, two at a time | credits exactly with the money; a pending paid order is credited without webhooks |
| PaymentStatus | the documented order of states | **violated** |
| PaymentRefund | the documented effect of a refund | **violated** |
| UsageCharging | lost answers, kills, full list, refused charges | charged once, nothing forgotten, everything settles |
| DurableQueue | two processes and an operator on one job, failing commands and crashes, two in all | no job lost outside named windows, none worked on twice, every job ends |
| QueueReclaim | the documented reclaim when containers are replaced | **violated** |
| CatalogStock | every request on a variant at two locations, two at a time | refines AtomicStock, promises covered, movements explain levels, an allocation is what the quote said, ordered locks never circle, every request ends |
| ConnectorSync | two jobs, a request or webhook, a crash and a failure of Mongo, for each of five connectors | one job at a time, every lock accounted for, complete backfills complete, outside the windows below |
| AgentSession | two requests, three calls, two processes, one fault | writes as decided and once, decisions and executions shown as they were, answers final while leases hold, turns end |
| DocumentVault | two documents, two requests, sweeps or sync managers beside the worker, one fault | indexed is whole, only what passed is found, parsing ends, outside the windows below |
| WorkspaceRecords | 27 write tools with undo, eight files to import, two editors of skills, three records of a session | answers true, what is delivered shows and is never taken back, skills within limits and switches, nobody's work overwritten unseen |

Every property of a passing run has a mutant: a plausible bug in one mapped
definition (the operator beside it in the module), under which the run fails.
Those operators (`NoIndex`, `PlainSelect`, `Leaked`, ...) are used by nothing else.

### What the violations say

- **PaymentStatus.** A failed-attempt webhook and another webhook of the same order
  run together. The first saves its stale copy, so an order that was FAILED is
  PENDING again, against the comment of `PaymentStatus`. `OrderReconciler` catches an
  optimistic-lock failure that cannot occur without a version column. Credits stay
  right (`CreditsFollowMoney` holds), the status does not.
- **PaymentRefund.** `charge.refunded` processed before the order has been settled is
  ignored and remembered; the payment's event then settles the order, and the
  credits of a refunded payment stay.
- **QueueReclaim.** Only a starting process reclaims. A process that dies after the
  others started, and whose container comes back under another name, leaves its
  jobs in flight until the next start of any process.

### Windows the passing properties name

Some properties hold only outside windows the code leaves open. Each is history in
the model, set by the action that opens it, and named in the property's comment:

- `DurableQueue`: a job `lost` or `strayed` by a refused Redis command between two
  others.
- `CatalogStock`: `delete_location` checks without a lock; two releases that race
  both count (`twice`); `movement_summary` reads in two statements.
- `ConnectorSync`: a lock's end saved as text or not at all is never past, so a crash
  before the first heartbeat wedges the connection until it is disconnected, although
  `distributed_lock.py` promises expiry; a stale object saved after an await brings a
  lock back or takes it away; a job overwrites DISCONNECTED when it ends; gmail's purge
  stops the heartbeat and the other purges take no lock; a fetch that failed counts as
  the end of a listing, and a budget cut drops the rest of a page, until retry or resync.
- `AgentSession`: a run without a lease goes on until its next check; an approval of
  a run that failed before it paused stays PENDING (`Stranded`); an answer given to a
  graph before a crash may be kept. FAILED, INVALID and UNKNOWN promise nothing of the
  effect: `gate.py` answers FAILED to any exception, `orchestrator.py` to one the gate
  let out, and `repair_history` shows a call as failed whose run died after it was
  executed. That nothing answered is taken up again holds while no run outlives its
  lease.
- `DocumentVault`: a crash between two steps (`cut`), of the sweep's deletion too: its
  lineage says DELETED, so that no later sweep takes it up again; a row written back
  over what it had become (`stale`); fingerprints committed for chunks dropped since, or
  a text that came while a deletion was under way and lost its chunks to it (`torn`); a
  release that finds other bytes than were reviewed (`swapped`).
- `CatalogImport`: options others add to a product between the reading and the setting
  of its options are taken out again; a job that ends with an error promises nothing.
- `SkillLibrary`, limits: a count others used up between reading and writing (the number
  of own skills and, for a switch, of skills that are on).
- `SkillLibrary`: an editor who opened the built-in, or a customization reset since,
  saves over another's.
- `AgentWrites`: a request repeated after a lost answer may be answered FAILED though
  it took effect; records other than deals and memory have no version, so a change made
  between reading and saving is overwritten there.
- `WorkspaceOutbox`: a request nobody waits for any more may arrive after a later one.

Smaller things seen while modelling, where code and its own wording part: `profile.py`
answers "already has its previous values" for a field that was unset; a tool turned
off between execution and replay is answered DENIED (`gate.py`); an import re-links a
SKU that an earlier, partly committed import moved and fails on a duplicate key; a new
skill is ON beyond `MAX_ENABLED`; a workspace's skill may take a built-in's slug.

### Bounds

- `CreditLedger`: two workers, because every conflict of the code is between two
  transactions; `MaxLines` stops operations without a key (they could repeat for
  ever) at two lines, enough for an operation to meet the effect of each other one.
  The proofs need no bound.
- `PaymentOrders`: one order (orders share only the account row, which is the
  ledger's matter) and two threads: every two events meet in every order.
- `UsageCharging`: one good and one malformed charge, a list of one entry, so that
  it is full, three attempts, so that a report fails, is kept and is given up.
- `DurableQueue`: one job, met by both processes and a replay; two attempts, so that
  one failure retries and the next is dead-lettered; `MaxFaults` is two crashes or
  failed commands. A job is taken from a living process once (`Reclaim`'s guard):
  without this copies of it multiply without end. One tenant owns the job, another
  asks for replays too.
- `CatalogStock`: two locations, so that locks can be taken in two orders and a
  reservation is split; two clients; two requests in all (`MaxRequests`), at most two
  units on hand; `Opening` starts from units held and to spare, so that each pair of
  operations meets. The proofs need no bound.
- `ConnectorSync`: three items and a limit of one, so that a backfill takes several
  jobs; a Gmail listing gives up after ten pages in the code, here also after one
  (`Guardrail`), because three items never fill ten; two jobs; one webhook or request besides; Mongo may fail for three connectors
  (`Shaky`) that stand for the two ways of taking the lock.
- `AgentSession`: three calls, two of them the model's (`MaxAsked`) and one the offer to
  undo; one call may be edited; `Home` starts the session, which process does makes no
  difference; `Blind` says where a run that lost its lease may go on; one fault.
- `DocumentVault`: two documents, two contents and the preview (`Stub`), that share a
  chunk, differ in one and have one more; four jobs, two attempts, one fault, two
  requests. Four jobs are more than two requests and what follows from them queue: in
  the code only requests are refused when the queue is deep, the worker never.
- `WorkspaceRecords`: two edits by others and two faults in a call, retries of memory
  and deals cut to three; files of at most three lines; two rows of skills with
  limits of two and one; attempts of the outbox (20 and 4) scaled to two.

Deadlock is checked in the `CreditLedger` and `DurableQueue` runs. In the others the
system ends: the order is closed, every charge settled, the requests used up.

### Fairness

- `CreditLedger`: strong fairness of a worker's next step. PostgreSQL queues the
  waiters of a row lock, and a crash cannot recur for ever in one request.
- `PaymentOrders`: the sweep runs every minute and looks up, and a transaction is
  not cut off every time. No webhook has to arrive. The order is assumed to be
  within the sweep's hundred oldest of two days.
- `UsageCharging`: posts time out, retriers run every 30 seconds. Billing need not
  ever answer, and Redis may fail.
- `DurableQueue`: the worker loop runs and handlers end; a waiting or due job is not
  missed by every `reserve` of all processes. `RestartedSpec` adds that a process
  comes back under its name (what the comment on `consumer_id` assumes),
  `ReplacedSpec` only that some process runs. No liveness is claimed for a job that
  a failed command lost or strayed.
- `CatalogStock`: weak fairness of a session's work; PostgreSQL resolves deadlocks.
- `AgentSession`: the event loop goes on (`Drive`), leases run out or are beaten, the
  sweeps run and time to live passes (`ExpireStale`, `RecoverOrphan`, `ResumeStalled`).
- `DocumentVault`: worker, sweep and requests go on; handlers end.
- `ConnectorSync`, `WorkspaceRecords`: none; they claim safety only.

## Proofs

For any workspaces, keys, commands and numbers of threads, under the assumptions
named in the modules (`NoIdAssumption`, `CommandsAssumption`: keyed operations have
ids and other operations move a positive amount; `NoWorkerAssumption`,
`NoCommandAssumption`, `OwnerAssumption`, `MaxLinesAssumption`):

- `BillingProofs`, of the promise, `AtomicLedger` (theorems `Promise...`): the
  types; `BalanceExplained` from the shape of one posting (`PostShape`); `KeyedOnce`
  strengthened by "every keyed line has taken its key" (`KeysInv`);
  `BalanceWithinTotals`; `StatusExplained`; and that ledgers only grow.
- `BillingProofs`, of the service: the types need `Serving` (a busy worker serves
  a command).
  The refinement needs `LockInv`: a worker past the lock holds it and its copy is
  the committed row (`CopyIsCommitted`), and what it decided under the lock still
  holds (`Decided`); then a commit is one `Post` (`CommitIsPost`) and every other step
  stutters. Through `Refinement` the four ledger properties carry over
  (`BooksAreTrue` joins those that `BooksExplainAccounts` names). Directly:
  `NoOverdraft`; `AnswersAreTruthful` (a key once taken stays taken);
  `WelcomeCreditsOnce` with `WelcomePath` (only an owner reaches the grant).

For any orders, workspaces, prices, threads and bounds on what is sent and looked up,
if the orders are finitely many (`OrdersAssumption`):

- `BillingProofs`, of payments: the types, and `CreditsFollowMoney`. `Inv` adds `PaidMeansPaid`
  (a report of payment is about a paid session wherever it is: recorded, on its way or
  at hand) and `CopiesAreBacked` (a stale copy of an order never says more than the
  ledger, which only grows). The balance is a sum over the workspace's orders;
  `BalanceFollows` says what one order's purchase or refund does to it.

For any locations, priorities, openings, finite set of reservations and sessions, under
the assumptions of `StockOps` and `CatalogStock`, all in `CatalogStockProofs`:

- The types; and that promised units are on hand (`PromisesAreCovered`). That alone is
  not inductive, because a session decides from the rows it read and writes later.
  `StockInv` adds `LockedIsCurrent` (a row a session has locked is the one it read, so
  that a check made under the lock still holds at the commit) and `UnitsAreCounted`
  (the units a session moves are natural numbers); `LockedRowsAreCurrent` is a theorem
  of its own.
- `BooksAreExplained` (with the former, `StockStaysExplained`): totals of the movements and units held by reservations add up to
  every row. `BooksInv` adds what a commit relies on besides the rows: `RowsInv` (where
  there is no row there is nothing), `HoldsInv` (a reservation is made once, by the
  session it was issued to) and `JobsAreSound`: the plan of a session has every row it
  will change, and what a release has read is what is held, or the location is gone
  (`KnowsWhatIsHeld`; a deleted location's units are dropped under the same locks).
- `RequestsAreAtomic`: from `BooksInv`, every commit is a step of `AtomicStock` on the
  committed rows and every other step stutters.
- `ShipmentsNeverCircle`: in a circle of waiting shipments the one that waits for the
  greatest id waits for one that waits for a greater. `TakesInOrder` is part of
  `JobsAreSound`.
- `QuotesAreAllocated`: by induction over the locations in the order of priority
  (`BeforeIt`), the split of a quantity is its full quantity or all there is.

For any charges, retriers, length of the list and attempts, and for any jobs,
processes, tenants, attempts and faults:

- `BillingProofs`, of usage (whose names, `ChargeInit`, `ChargeNext`, `ChargeSpec`,
  `ChargeTypes`, are its own for the same reason): the types; `ChargedOnce`, because every report of a charge,
  wherever it is queued, held, sent or late, carries the key of the first, and every
  line of billing is one of these keys (`BillingInv`); and `NoneForgotten`, because a
  client is through with a charge only when one of the places has it (`ChargeInv`).
- `DurableQueueProofs`: the types, which need that a process or a replay in the middle
  of a step holds what the step works on (`ProcessInv`); `NoneForgotten`, place by
  place (`At`): no step takes an entry from its place without a trace of its job in
  another (`NoneDropped`); and `WorkedAlone`, because a job that was not taken from a
  living process has one entry in one place, and a process works on what its own list
  has (`CopiesInv`).

For each of the five connectors, any finite set of jobs, and any items, page sizes,
events and number of requests (`JobAssumption`, `ItemsAssumption`, `NobodyIsNoJob`):

- `ConnectorProofs`: the types, which need that there is always a connection object
  nobody refers to (`FreshRefIsThere`, by counting); `OneJobAtATime`,
  `LockIsAccountedFor` and `CompleteBackfillHasAll`. `Inv` adds to them what each rests
  on. `LockIsKept`: a job at work has the lock in Mongo and its lease is not past, or
  the job is `robbed`; two jobs that are not would both be its owner. `CopiesAreHonest`:
  a stale object saved after an await must not make a backfill look further than it is,
  so not only the document in Mongo but every copy of it in the process is one whose
  backfill has `Passed` only items that are `Covered`: ingested, in hand or excused. It
  is inductive because only a purge takes items out of `Covered` for good, and when
  anyone still holds an old copy then (`SomeoneHolds`), what that copy may say again is
  excused.

For any processes, calls, turns and faults, whatever a run that lost its lease still
does (`Blind`), when the kinds of calls are those of the gate and no process is named
like a free lease (`BoundsAssumption`, `LeaseAssumption`):

- `AgentProofs`, of sessions: the types, and `ActsAsDecided` (`WritesAsDecided`). `SessionInv`
  says why neither a second process nor a repeated run does a write twice: from the
  insert of its step to the record of its outcome a call is in the hands of one process
  (`OwnedByOne`), and the step is PENDING all the while; what a process knows of its
  call is still so (`KnowsItsCall`: the arguments it runs with are those decided, and a
  decision once made stands); queues never hold a call twice (`GraphsSound`); calls are
  new when they are asked for (`AskedInOrder`). That an answered call is not taken up
  again (`AnsweredOnce`), one shown as failed or not run either, is true only while no
  lease ran out under a living run; it needs that the one process is alone (`Alone`).

For any limits on skills, bounds on saves and requests, for any sync workers, batches,
attempts, records and failures, and for any files of any length, changes others make
and steps that fail (`RecordBounds`: limits, batches and attempts are positive, no
worker is called "nobody", a file is a sequence of rows), in `RecordProofs`:

- of skills: `SkillsStayAllowed` (the limits on own skills and on switches, and that the
  agent loads what is there and on) and the skills' part of `WorkOfOthersStays`. A request counts, reads or opens in one transaction
  and writes in another, so `SkillInv` says what it still knows of the tables then: that
  a row was opened at a version its history has (`Opened`, through `HistoryHolds`: the
  last version of the history is the row's), that there was room for it when it looked
  (`KnowsWhatItRead`), and what of that the requests of others may have used up
  (`LimitHolds`, and for a switch its `room`, `SwitchFits`). `AgentHolds` ties what a run has listed to what was there since.
- of the outbox: the outbox's part of `ReportsStayTrue` and of `WorkOfOthersStays`. A worker works through
  records it read before and may have lost its lock since, so `OutboxInv` says of each
  (`WorkerHolds`) that what it has still to do are the first of the pending records
  while it has the lock, and that without it the record it is at may stray, as the
  properties except; of the outbox that a target's values grow with seq and that what
  is pending comes last (`OutboxInOrder`); and of the workspace that it shows nothing
  newer than what is pending (`MirrorInOrder`).
- of the import: that its reports are so (`ReportsTrue`, in `ReportsStayTrue`) and that it
  keeps its hands off the rest (`NothingElseTouched`, in `WorkOfOthersStays`). Products
  commit one by one and step by step while others edit them, so `ImportInv` says at
  every step how far the file has come. `CleanHolds`: while no error is noted, the rows
  of the products that are through are given, and of the product at hand what its steps
  have done; this rests on the validated file not contradicting itself, for two rows of
  one SKU must ask for the same. `TallyHolds`: the SKUs of the rows that are through,
  and separately all that differs from the catalog the job started with, never exceed
  what it has counted. `LinksHold`: the links the job remembers are of SKUs outside the
  file, and still stand unless others changed them. `CatalogHolds` is what pages and
  import both keep: a SKU's value is one its product has, units are at a place and
  cover what is reserved.
  The catalog is the model's, two products with three SKUs, one option, one location;
  what is arbitrary is the file, whatever it says of them, and what happens meanwhile.
- `SharedRecordsTyped`: the types of the three.

The import's proof corrected its property: a SKU of which the file counts none was said
to need its location, but a location that holds nothing can be deleted between two
products of the file. `CountGiven` asks for the place of units only, and the eighth
file of the run, a count of zero, is there for it.

For any documents (one at least), items, contents, chunks and number of requests
(`VaultAssumption`, `ChunksAssumption`, `BoundsAssumption`):

- `DocumentVaultProofs`: the types; `OnlyPassedIsFound`; `IndexedIsWhole`. No lock and no
  version ties the eight stores together, so `VaultInv` says it document by document
  (`Good`). `PassedAt`: what the gatekeeper let in is not only what is in the index, but
  whatever a request, a queued job or the worker carries that may still be put there.
  `WholeAt`: a row that says indexed has all its chunks, or somebody will yet see to
  it (a request between two of its steps, a job, the worker), or what befell the
  document excuses it. A deletion in progress is such a somebody at each of its steps,
  whether the worker, a request or a sweep makes it.

`CollectionFacts` has what these need of lists and finite sets. Its induction is over a
set given as the set of the subsets (or numbers) that have the property, where the
library's takes an operator, which no installed prover can instantiate; with it,
`SumFunctionOnSet` of a changed function, of a part and of a sum are proved for every
finite set. A fold is as far as it goes: nothing is proved of a RECURSIVE operator.

Model-checked only: all liveness (fairness and ENABLED are out of the prover's reach);
and of `WorkspaceRecords` the write tools: `AnswersTrue`, `KeepsOthersWork`, and
`RecordTypes`, whose other three parts are proved (`SharedRecordsTyped`). The modules
of the tools say what a service leaves with `:>` and `@@` on records of many shapes, a
form the provers get little from, and a proof would go through each of the 27 tools
one by one. Least would be gained there: the records are concrete, and the only
constants are the bounds on retries, edits and faults.

## Not modelled

- Prices, formatting, wording, metrics; amounts are small integers in millicredits
  that never reach 2^63, so their width is not modelled.
- `UsageCharging`: entries nobody can parse (no client writes one), the check cache,
  running totals, the pass limits of `drain_pending`; that `LLEN` and `LPUSH` are two
  commands.
- `DurableQueue` without Redis, several workers per process, depth limits, `on_dead`;
  `last_error`, so two copies of a job that failed equally often are one entry; dead
  letters of other workspaces while a replay fails.
- Payments: a checkout retried with the same idempotency key; the sweep's window;
  events that are only recorded. Connection pools and thread pools.
- Catalog: price lists, price history, views but for the movement summary, and fields
  no check depends on. Known and left out with them: `upsert_product`'s `set_options`
  commits midway, `product.version` has no check, `delete_category` checks unlocked.
- Connectors: what an item goes through in the pipeline (`DocumentVault` has it),
  activity logs, several processes, the enterprise requests. Deduplication and
  ingestion of an item are one step.
- Documents: what parsers, classifiers and embeddings compute, ranking, access lists,
  checkpoints, metering, the media store; the expiry of holds, incomplete listings.
  Staging succeeds and stores answer but for a crash; one worker takes jobs in any
  order.
- Sessions: the AUTONOMOUS policy (`api/chat.py` starts no session with it), checks of
  the gate before any effect, sub-agents, reads, events, prompts and routing.
- Write tools: one call at a time, each service operation a transaction; discounts and
  stock limits of quotes, the wait for a deleted page, wording of refusals. Memory has
  no undo. Skills: drafts by a model, previews, export, usage counts; one agent, fixed
  roles. Import: one location, one option, malformed fields.
- workspace-service and auth-service, but for the answers the engine's writes get; and
  gateway, configuration, frontend and scripts, which have no shared state of their own.
