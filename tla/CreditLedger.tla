---------------------------- MODULE CreditLedger ----------------------------
(***************************************************************************)
(* billing-service's ledger as it runs: request threads that each open a   *)
(* transaction, look for the idempotency key, create the account row in a  *)
(* transaction of its own, take the row lock, refresh the row under it,    *)
(* look for the key again, and flush and commit; any of them may be cut    *)
(* off by a crash, a lost connection or a rollback before its commit.      *)
(* Sources: CreditLedgerService, CreditAccountWriter, CreditAccountLocker  *)
(* and the unique constraints of UsageEvent, CreditTransaction and         *)
(* WelcomeGrant.                                                           *)
(***************************************************************************)
EXTENDS LedgerOps

CONSTANTS
    Workers,        \* request threads of the billing service
    NoWorker,       \* "nobody"
    NoCommand,      \* what an idle worker works on
    Owner,          \* workspace-service's answer to isOwner: workspace -> user
    MaxLines        \* bound: operations without a key stop at this many lines

ASSUME NoWorkerAssumption == NoWorker \notin Workers
ASSUME NoCommandAssumption == NoCommand \notin Command
ASSUME OwnerAssumption == Owner \in [Workspaces -> Ids]
ASSUME MaxLinesAssumption == MaxLines \in Nat

VARIABLES
    accounts,               \* workspaces whose credit_accounts row exists
    welcomed,               \* users with a committed welcome_grants row
    granting,               \* user -> the worker whose welcome_grants write is uncommitted
    lockedBy,               \* workspace -> the worker holding its account row
    at,                     \* where each worker is in its request
    cmd,                    \* the request it serves
    held                    \* the copy of the account row it works on

tables == <<row, ledger, recorded, accounts, welcomed>>
locks == <<granting, lockedBy>>
workers == <<at, cmd, held>>
ledgerVars == <<tables, locks, workers>>

A == INSTANCE AtomicLedger

Answers == {"ok", "duplicate", "refused", "failed"}
RequestSteps == {"idle", "create", "due", "insert", "lock", "locked", "write"} \cup Answers

LedgerTyped ==
    /\ row \in [Workspaces -> Row]
    /\ ledger \in [Workspaces -> Seq(Line)]
    /\ recorded \subseteq Key
    /\ accounts \subseteq Workspaces
    /\ welcomed \subseteq Ids
    /\ granting \in [Ids -> Workers \cup {NoWorker}]
    /\ lockedBy \in [Workspaces -> Workers \cup {NoWorker}]
    /\ at \in [Workers -> RequestSteps]
    /\ cmd \in [Workers -> Commands \cup {NoCommand}]
    /\ held \in [Workers -> Row]

LedgerInit ==
    /\ row = [w \in Workspaces |-> EmptyRow]
    /\ ledger = [w \in Workspaces |-> << >>]
    /\ recorded = {}
    /\ accounts = {}
    /\ welcomed = {}
    /\ granting = [u \in Ids |-> NoWorker]
    /\ lockedBy = [w \in Workspaces |-> NoWorker]
    /\ at = [p \in Workers |-> "idle"]
    /\ cmd = [p \in Workers |-> NoCommand]
    /\ held = [p \in Workers |-> EmptyRow]

-----------------------------------------------------------------------------
IsWelcome(c) == c.type = "WELCOME_GRANT"

(* The unique indexes, as a committed key makes them answer a flush, and   *)
(* the bug of a table created without them.                                *)
NoIndex(c) == FALSE
Collides(c) == KeyOf(c) \in recorded

(* findForUpdate waits for the row's holder; a plain select does not.      *)
PlainSelect(w) == TRUE
RowFree(w) == lockedBy[w] = NoWorker

(* workspaceRoles.isOwner, and the check left out of welcomeDue.           *)
AnyMember(u, w) == TRUE
IsOwner(u, w) == Owner[w] = u

(* The row a decision under the lock reads: the refreshed copy, or the one *)
(* the persistence context held since the account was created.             *)
Unrefreshed(p) == EmptyRow
Judged(p) == held[p]

(* What a transaction that ends leaves of a lock: nothing of its own and   *)
(* all of the others'.  The bug is a lock never given back.                *)
Leaked(holder, p) == holder
Released(holder, p) == IF holder = p THEN NoWorker ELSE holder

(* What a rolled back request answers, and the bug of an exception caught  *)
(* and forgotten.                                                          *)
Swallowed == "ok"
RolledBack == "failed"

(* The transaction's locks go with it, and so does its copy of the row.    *)
EndTransaction(p) ==
    /\ granting' = [u \in Ids |-> Released(granting[u], p)]
    /\ lockedBy' = [w \in Workspaces |-> Released(lockedBy[w], p)]
    /\ held' = [held EXCEPT ![p] = EmptyRow]

GoTo(p, step) == at' = [at EXCEPT ![p] = step]

(* A request arrives.  ensureAccount (a balance read, a check, a checkout) *)
(* is the request of the WELCOME_GRANT command: it carries the user whose  *)
(* welcome credits may be due and answers whether or not they were.  The   *)
(* others first look for their key and answer "duplicate" at once.         *)
Begin(p, c) ==
    /\ at[p] = "idle"
    /\ c.type \in Keyed \/ Len(ledger[c.ws]) < MaxLines
    /\ cmd' = [cmd EXCEPT ![p] = c]
    /\ IF KeyOf(c) \in recorded /\ ~ IsWelcome(c)
       THEN GoTo(p, "duplicate")
       ELSE GoTo(p, "create")
    /\ UNCHANGED <<tables, locks, held>>

(* createIfMissing: an insert in a transaction of its own.  The loser of a *)
(* race catches the unique violation and goes on with the winner's row.    *)
CreateIfMissing(p) ==
    /\ at[p] = "create"
    /\ accounts' = accounts \cup {cmd[p].ws}
    /\ GoTo(p, IF IsWelcome(cmd[p]) THEN "due" ELSE "lock")
    /\ UNCHANGED <<row, ledger, recorded, welcomed, locks, cmd, held>>

(* welcomeDue and grantWelcomeIfDue's own existsById: granted before, not  *)
(* the owner, or workspace-service unavailable (the disjunct that any      *)
(* contact may take) end the request without a grant.                      *)
WelcomeDue(p) ==
    /\ at[p] = "due"
    /\ \/ /\ cmd[p].id \notin welcomed
          /\ IsOwner(cmd[p].id, cmd[p].ws)
          /\ GoTo(p, "insert")
       \/ GoTo(p, "ok")
    /\ UNCHANGED <<tables, locks, cmd, held>>

(* saveAndFlush(WelcomeGrant).  Its id is assigned and it has no version,  *)
(* so save() merges: a select, then an insert or, when the row has been    *)
(* committed in between, an update.  Either write waits for another        *)
(* uncommitted one of the same user.                                       *)
WriteWelcomeGrant(p) ==
    /\ at[p] = "insert"
    /\ granting[cmd[p].id] = NoWorker
    /\ granting' = [granting EXCEPT ![cmd[p].id] = p]
    /\ GoTo(p, "lock")
    /\ UNCHANGED <<tables, lockedBy, cmd, held>>

(* The select saw no row but the insert found one: the unique violation is *)
(* caught and the request answered without a grant.                        *)
WelcomeGrantTaken(p) ==
    /\ at[p] = "insert"
    /\ cmd[p].id \in welcomed
    /\ GoTo(p, "ok")
    /\ UNCHANGED <<tables, locks, cmd, held>>

(* CreditAccountLocker.lock: select for update, which waits for the holder *)
(* to end, and a refresh, so the copy is the committed row.                *)
Lock(p) ==
    /\ at[p] = "lock"
    /\ RowFree(cmd[p].ws)
    /\ lockedBy' = [lockedBy EXCEPT ![cmd[p].ws] = p]
    /\ held' = [held EXCEPT ![p] = row[cmd[p].ws]]
    /\ GoTo(p, "locked")
    /\ UNCHANGED <<tables, granting, cmd>>

(* Under the lock: the second look for the key (the welcome grant has      *)
(* none), the insufficient-balance refusal, the status change that is      *)
(* already in force.  None of them writes anything.                        *)
TurnBack(p) ==
    /\ at[p] = "locked"
    /\ \/ KeyOf(cmd[p]) \in recorded /\ ~ IsWelcome(cmd[p]) /\ GoTo(p, "duplicate")
       \/ Refused(Judged(p), cmd[p]) /\ GoTo(p, "refused")
       \/ NoChange(Judged(p), cmd[p]) /\ GoTo(p, "ok")
    /\ EndTransaction(p)
    /\ UNCHANGED <<tables, cmd>>

GoAhead(p) ==
    /\ at[p] = "locked"
    /\ KeyOf(cmd[p]) \notin recorded \/ IsWelcome(cmd[p])
    /\ ~ Refused(Judged(p), cmd[p])
    /\ ~ NoChange(Judged(p), cmd[p])
    /\ GoTo(p, "write")
    /\ UNCHANGED <<tables, locks, cmd, held>>

(* Flush and commit: every column of the account is written from the copy, *)
(* the line and the usage event or welcome grant are inserted.             *)
Commit(p) ==
    /\ at[p] = "write"
    /\ ~ Collides(cmd[p])
    /\ row' = [row EXCEPT ![cmd[p].ws] = Posted(held[p], cmd[p])]
    /\ ledger' = [ledger EXCEPT ![cmd[p].ws] = WithLine(ledger[cmd[p].ws], held[p], cmd[p])]
    /\ recorded' = WithKey(recorded, cmd[p])
    /\ welcomed' = IF IsWelcome(cmd[p]) THEN welcomed \cup {cmd[p].id} ELSE welcomed
    /\ GoTo(p, "ok")
    /\ EndTransaction(p)
    /\ UNCHANGED <<accounts, cmd>>

(* The flush meets a key another workspace's transaction committed since   *)
(* the second look, or a welcome line whose grant row it merged into: the  *)
(* unique index rolls everything back.  recordUsage's caller finds the key *)
(* recorded and answers "duplicate"; the welcome grant answers without a   *)
(* grant; a purchase or refund fails and its event is delivered again.     *)
UniqueViolation(p) ==
    /\ at[p] = "write"
    /\ Collides(cmd[p])
    /\ GoTo(p, CASE cmd[p].type = "USAGE" -> "duplicate"
                 [] IsWelcome(cmd[p]) -> "ok"
                 [] OTHER -> RolledBack)
    /\ EndTransaction(p)
    /\ UNCHANGED <<tables, cmd>>

(* The service stops, the database connection is lost or a statement times *)
(* out: PostgreSQL rolls the transaction back.                             *)
Abort(p) ==
    /\ at[p] \notin {"idle"} \cup Answers
    /\ GoTo(p, RolledBack)
    /\ EndTransaction(p)
    /\ UNCHANGED <<tables, cmd>>

Respond(p) ==
    /\ at[p] \in Answers
    /\ GoTo(p, "idle")
    /\ cmd' = [cmd EXCEPT ![p] = NoCommand]
    /\ UNCHANGED <<tables, locks, held>>

Work(p) ==
    \/ CreateIfMissing(p) \/ WelcomeDue(p) \/ WriteWelcomeGrant(p) \/ WelcomeGrantTaken(p)
    \/ TurnBack(p) \/ GoAhead(p) \/ Commit(p) \/ UniqueViolation(p) \/ Respond(p)

LedgerNext ==
    \E p \in Workers :
        \/ \E c \in Commands : Begin(p, c)
        \/ Work(p) \/ Lock(p) \/ Abort(p)

LedgerSpec == LedgerInit /\ [][LedgerNext]_ledgerVars

(* PostgreSQL queues the waiters of a row lock, so a transaction that asks *)
(* is served although others keep asking; crashes are never required.      *)
FairLedgerSpec == LedgerSpec /\ \A p \in Workers : SF_ledgerVars(Work(p) \/ Lock(p))

-----------------------------------------------------------------------------
(* The accounting promises of AtomicLedger, of the tables the transactions *)
(* commit.                                                                 *)
BalanceExplained == A!BalanceExplained
KeyedOnce == A!KeyedOnce
BalanceWithinTotals == A!BalanceWithinTotals
StatusExplained == A!StatusExplained

(* The books of every workspace explain its account: the balance is the    *)
(* running total of the lines, no keyed operation is among them twice, the *)
(* lifetime totals never claim less, and the status is what the last       *)
(* status line says.                                                       *)
BooksExplainAccounts == BalanceExplained /\ KeyedOnce /\ BalanceWithinTotals /\ StatusExplained

(* Every committed transaction is one AtomicLedger operation, whatever ran *)
(* between its steps: the locks, the refresh and the second look together  *)
(* make the operations atomic.                                             *)
RefinesAtomicLedger == A!Spec

(* A worker past the row lock holds it alone, and the copy it will write   *)
(* back is still the committed row: no concurrent charge can be lost under *)
(* it (CreditAccountLocker's reason to refresh).                           *)
CopyIsCommitted ==
    \A p \in Workers :
        at[p] \in {"locked", "write"} =>
            lockedBy[cmd[p].ws] = p /\ held[p] = row[cmd[p].ws]

(* Nobody receives welcome credits twice, whichever of the workspaces they *)
(* own they open at once, nor in a workspace they do not own; and the      *)
(* welcome_grants row never stands without its ledger line.                *)
WelcomeOnceInOwnWorkspace ==
    /\ \A u \in Ids : u \in welcomed <=> <<"WELCOME_GRANT", u>> \in recorded
    /\ \A w \in Workspaces : \A i \in 1 .. Len(ledger[w]) :
          ledger[w][i].type = "WELCOME_GRANT" =>
              /\ ledger[w][i].id \in welcomed
              /\ Owner[w] = ledger[w][i].id

(* A caller told that its charge, purchase or refund was applied, or had   *)
(* been already, can forget it: the key is committed.                      *)
AnswersTruthful ==
    \A p \in Workers :
        /\ at[p] \in {"ok", "duplicate"}
        /\ cmd[p].type \in Keyed \ {"WELCOME_GRANT"}
        => KeyOf(cmd[p]) \in recorded

(* An administrator who did not allow a negative balance never causes one, *)
(* even against charges that commit between the click and the deduction.   *)
NoUnaskedOverdraft ==
    [][\A p \in Workers :
          /\ Commit(p)
          /\ cmd[p].type = "ADMIN_DEDUCT"
          /\ ~ cmd[p].force
          => row'[cmd[p].ws].balance >= 0]_ledgerVars

(* Every request is answered: no two transactions wait for each other and  *)
(* none waits forever for a row.                                           *)
Served == \A p \in Workers : at[p] = "create" ~> at[p] \in Answers
=============================================================================
