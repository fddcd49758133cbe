---------------------------- MODULE AtomicLedger ----------------------------
(***************************************************************************)
(* What the credit ledger promises its callers, whatever runs at the same  *)
(* time: every operation takes effect in one step, a keyed one at most     *)
(* once ever, and the balance is explained line by line.  CreditLedger is  *)
(* the code that implements it with transactions and row locks.            *)
(***************************************************************************)
EXTENDS LedgerOps

vars == <<row, ledger, recorded>>

TypeOK ==
    /\ row \in [Workspaces -> Row]
    /\ ledger \in [Workspaces -> Seq(Line)]
    /\ recorded \subseteq Key

Init ==
    /\ row = [w \in Workspaces |-> EmptyRow]
    /\ ledger = [w \in Workspaces |-> << >>]
    /\ recorded = {}

(* One ledger operation, all of it. *)
Post(c) ==
    /\ KeyOf(c) \notin recorded
    /\ ~ Refused(row[c.ws], c)
    /\ ~ NoChange(row[c.ws], c)
    /\ row' = [row EXCEPT ![c.ws] = Posted(row[c.ws], c)]
    /\ ledger' = [ledger EXCEPT ![c.ws] = WithLine(ledger[c.ws], row[c.ws], c)]
    /\ recorded' = WithKey(recorded, c)

Next == \E c \in Commands : Post(c)

Spec == Init /\ [][Next]_vars

-----------------------------------------------------------------------------
(* The balance before line i: the running total so far. *)
BalanceBefore(lines, i) == IF i = 1 THEN 0 ELSE lines[i - 1].after

(* The balance shown to a workspace is the running total of its lines, and *)
(* every line's balanceAfter is the previous one plus its own amount: no   *)
(* charge, grant or purchase was lost or overwritten by a concurrent one   *)
(* (CreditAccount: "The balance is the running total of CreditTransactions *)
(* and is only changed while this row is locked").                         *)
BalanceExplained ==
    \A w \in Workspaces :
        /\ \A i \in 1 .. Len(ledger[w]) :
              ledger[w][i].after = BalanceBefore(ledger[w], i) + ledger[w][i].amount
        /\ row[w].balance = BalanceBefore(ledger[w], Len(ledger[w]) + 1)

(* No idempotency key has two lines, in one workspace or across two: a     *)
(* retried charge, purchase, refund or welcome grant moves credits once.   *)
KeyedOnce ==
    \A v, w \in Workspaces :
        \A i \in 1 .. Len(ledger[v]), j \in 1 .. Len(ledger[w]) :
            /\ ledger[v][i].type \in Keyed
            /\ ledger[v][i].type = ledger[w][j].type
            /\ ledger[v][i].id = ledger[w][j].id
            => v = w /\ i = j

(* A line of a keyed type has taken its key, so the early "already done"   *)
(* answer of every operation agrees with the ledger.                       *)
LinesRecorded ==
    \A w \in Workspaces : \A i \in 1 .. Len(ledger[w]) :
        ledger[w][i].type \in Keyed => <<ledger[w][i].type, ledger[w][i].id>> \in recorded

(* However deductions and clawbacks clamp the lifetime totals at zero, the *)
(* totals an administrator reads never claim less than the balance holds.  *)
BalanceWithinTotals ==
    \A w \in Workspaces : row[w].balance <= row[w].credited - row[w].used

(* A workspace is suspended exactly when the last status line of its       *)
(* ledger says so: the audit log accounts for the status.                  *)
StatusExplained ==
    \A w \in Workspaces :
        row[w].status = "SUSPENDED" <=>
            \E i \in 1 .. Len(ledger[w]) :
                /\ ledger[w][i].type = "ACCOUNT_SUSPENDED"
                /\ \A j \in i + 1 .. Len(ledger[w]) : ledger[w][j].type # "ACCOUNT_REACTIVATED"

(* credit_transactions is append-only, and the balance and the status of a *)
(* workspace never change without a new line.                              *)
GrowsByOne(w) ==
    /\ Len(ledger'[w]) = Len(ledger[w]) + 1
    /\ \A i \in 1 .. Len(ledger[w]) : ledger'[w][i] = ledger[w][i]

UnchangedAccount(w) ==
    /\ ledger'[w] = ledger[w]
    /\ row'[w].balance = row[w].balance
    /\ row'[w].status = row[w].status

AppendOnly == [][\A w \in Workspaces : GrowsByOne(w) \/ UnchangedAccount(w)]_vars
=============================================================================
