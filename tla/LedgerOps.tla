----------------------------- MODULE LedgerOps -----------------------------
(***************************************************************************)
(* The data of billing-service's credit ledger, and what one ledger        *)
(* operation does to it: the workspace's row of credit_accounts, the line  *)
(* it appends to credit_transactions, and the idempotency key that allows  *)
(* it once.  The operations as steps are AtomicLedger's and CreditLedger's.  *)
(*                                                                         *)
(* Credits are counted in a unit TLC can enumerate: the code's             *)
(* millicredits, with the price of a usage report already computed         *)
(* (PricingService), so a report that prices to nothing has amount 0.      *)
(***************************************************************************)
EXTENDS Integers, Sequences

CONSTANTS
    Workspaces,     \* workspace ids
    Ids,            \* idempotency keys of usage reports, order ids, user ids
    NoId,           \* the null idempotency key of an administrator's line
    Commands        \* the ledger operations callers may ask for

VARIABLES
    row,        \* credit_accounts, by workspace (EmptyRow before the first contact)
    ledger,     \* credit_transactions, by workspace, in commit order
    recorded    \* idempotency keys taken in usage_events and credit_transactions

(* CreditTransactionType, split by what a line does to the balance. *)
Credits == {"WELCOME_GRANT", "PURCHASE", "ADMIN_GRANT"}
Debits == {"USAGE", "REFUND_CLAWBACK", "ADMIN_DEDUCT"}
StatusChanges == {"ACCOUNT_SUSPENDED", "ACCOUNT_REACTIVATED"}
Types == Credits \cup Debits \cup StatusChanges

(* Lines whose idempotency_key is set.  The unique index ignores nulls, so *)
(* nothing stops an administrator's change from being applied twice.       *)
Keyed == {"WELCOME_GRANT", "PURCHASE", "USAGE", "REFUND_CLAWBACK"}

Status == {"ACTIVE", "SUSPENDED"}

(* A request: "force" is adminDeduct's allowNegative and means nothing     *)
(* elsewhere.  "id" is the usage key, the order or the user of the line.   *)
Command ==
    [type : Types, ws : Workspaces, id : Ids \cup {NoId}, amount : Nat, force : BOOLEAN]

(* Every operation but a usage report moves a positive amount or none:     *)
(* validAdjustment, the credit packages, and the "grant <= 0" early return *)
(* of the welcome credits.                                                 *)
ASSUME NoIdAssumption == NoId \notin Ids
ASSUME CommandsAssumption ==
    /\ Commands \subseteq Command
    /\ \A c \in Commands :
          /\ c.type \in Keyed <=> c.id # NoId
          /\ c.type \in (Credits \cup Debits) \ {"USAGE"} => c.amount > 0

Line == [type : Types, id : Ids \cup {NoId}, amount : Int, after : Int]
Row == [balance : Int, credited : Nat, purchased : Nat, used : Nat, status : Status]
Key == Keyed \X Ids

(* accounts.saveAndFlush(CreditAccount.builder()...): what a new row holds. *)
EmptyRow == [balance |-> 0, credited |-> 0, purchased |-> 0, used |-> 0,
             status |-> "ACTIVE"]

-----------------------------------------------------------------------------
KeyOf(c) == <<c.type, c.id>>

Delta(c) == IF c.type \in Credits THEN c.amount
            ELSE IF c.type \in Debits THEN 0 - c.amount
            ELSE 0

(* Math.max(0, total - amount): the lifetime totals never go below zero,   *)
(* even where the balance does.                                            *)
Unclamped(total, amount) == total - amount
Less(total, amount) == IF total < amount THEN 0 ELSE total - amount

(* adminDeduct's INSUFFICIENT_BALANCE, judged on the row it locked; and    *)
(* judged on whether any balance is left at all.                           *)
RefusedWhenEmpty(r, c) ==
    c.type = "ADMIN_DEDUCT" /\ ~ c.force /\ r.balance < 0
Refused(r, c) ==
    c.type = "ADMIN_DEDUCT" /\ ~ c.force /\ r.balance < c.amount

(* suspend() of a suspended account and reactivate() of an active one.     *)
NoChange(r, c) ==
    \/ c.type = "ACCOUNT_SUSPENDED" /\ r.status = "SUSPENDED"
    \/ c.type = "ACCOUNT_REACTIVATED" /\ r.status = "ACTIVE"

(* The row after the operation. *)
Posted(r, c) ==
    [balance |-> r.balance + Delta(c),
     credited |->
        IF c.type \in Credits THEN r.credited + c.amount
        ELSE IF c.type \in {"REFUND_CLAWBACK", "ADMIN_DEDUCT"} THEN Less(r.credited, c.amount)
        ELSE r.credited,
     purchased |->
        IF c.type = "PURCHASE" THEN r.purchased + c.amount
        ELSE IF c.type = "REFUND_CLAWBACK" THEN Less(r.purchased, c.amount)
        ELSE r.purchased,
     used |-> IF c.type = "USAGE" THEN r.used + c.amount ELSE r.used,
     status |->
        IF c.type = "ACCOUNT_SUSPENDED" THEN "SUSPENDED"
        ELSE IF c.type = "ACCOUNT_REACTIVATED" THEN "ACTIVE"
        ELSE r.status]

(* The line the operation saves.  Its balanceAfter is the new row's.       *)
LineOf(r, c) ==
    [type |-> c.type, id |-> c.id, amount |-> Delta(c), after |-> Posted(r, c).balance]

(* A report that costs nothing saves its usage event but no ledger line.   *)
WritesLine(c) == ~ (c.type = "USAGE" /\ c.amount = 0)

WithLine(lines, r, c) == IF WritesLine(c) THEN Append(lines, LineOf(r, c)) ELSE lines

(* The key the operation records: the unique column of usage_events and of *)
(* credit_transactions.                                                    *)
WithKey(keys, c) == IF c.type \in Keyed THEN keys \cup {KeyOf(c)} ELSE keys
=============================================================================
