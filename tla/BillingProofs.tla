---------------------------- MODULE BillingProofs ----------------------------
(***************************************************************************)
(* The credits of the workspaces, and the two ways by which they move.     *)
(*                                                                         *)
(* The accounting of AtomicLedger, proved for any workspaces and commands; *)
(* and CreditLedger, for any number of request threads too: the locks keep *)
(* each thread's copy of an account row the committed one, so every commit *)
(* is one operation of AtomicLedger, and its accounting is the code's.     *)
(*                                                                         *)
(* PaymentOrders, proved for any orders, workspaces, prices and number of  *)
(* threads: whatever webhooks, polls and sweeps report, and however stale  *)
(* the copies they write back, credits follow the money.                   *)
(*                                                                         *)
(* UsageCharging, proved for any charges, retriers, length of the list and *)
(* number of attempts: a charge is charged at most once, because whatever  *)
(* is sent for it carries the key of its first report, and it does not     *)
(* disappear, because every step that lets go of its entry has charged it, *)
(* handed the entry on or logged its end.                                  *)
(***************************************************************************)
EXTENDS CreditLedger, PaymentOrders, UsageCharging, CollectionFacts

-----------------------------------------------------------------------------
(* The promise: AtomicLedger, whose operations take one step               *)

(* It assumes no more than CreditLedger does.                              *)
LEMMA SameAssumptions == A!NoIdAssumption /\ A!CommandsAssumption
  BY NoIdAssumption, CommandsAssumption
  DEF Command, Types, Keyed, Credits, Debits, StatusChanges,
      A!Command, A!Types, A!Keyed, A!Credits, A!Debits, A!StatusChanges,
      A!NoIdAssumption, A!CommandsAssumption

(* One operation keeps the account row well typed: the clamped totals stay *)
(* natural numbers (clawBackPurchase and adminDeduct's Math.max(0, ...)).  *)
LEMMA PromisedRow ==
    ASSUME NEW r \in A!Row, NEW c \in A!Command
    PROVE  /\ A!Posted(r, c) \in A!Row
           /\ A!Delta(c) \in Int
           /\ A!LineOf(r, c) \in A!Line
           /\ A!Posted(r, c).balance = r.balance + A!Delta(c)
<1>1. A!Delta(c) \in Int
  BY DEF A!Command, A!Delta
<1>2. /\ r.balance \in Int /\ r.credited \in Nat /\ r.purchased \in Nat
      /\ r.used \in Nat /\ r.status \in A!Status /\ c.amount \in Nat
  BY DEF A!Row, A!Command
<1>3. A!Less(r.credited, c.amount) \in Nat /\ A!Less(r.purchased, c.amount) \in Nat
  BY <1>2 DEF A!Less
<1>4. A!Posted(r, c) \in A!Row
  BY <1>1, <1>2, <1>3 DEF A!Posted, A!Row, A!Status
<1>5. A!Posted(r, c).balance = r.balance + A!Delta(c)
  BY DEF A!Posted
<1>6. A!LineOf(r, c) \in A!Line
  BY <1>1, <1>2, <1>5 DEF A!LineOf, A!Line, A!Command
<1> QED
  BY <1>1, <1>4, <1>5, <1>6

(* The tables keep their types under every operation. *)
THEOREM PromiseIsTyped == A!Spec => []A!TypeOK
<1>1. A!Init => A!TypeOK
  BY DEF A!Init, A!TypeOK, A!EmptyRow, A!Row, A!Status
<1>2. A!TypeOK /\ [A!Next]_A!vars => A!TypeOK'
  <2> SUFFICES ASSUME A!TypeOK, [A!Next]_A!vars
               PROVE  A!TypeOK'
    OBVIOUS
  <2>1. CASE A!Next
    <3> PICK c \in Commands : A!Post(c)
      BY <2>1 DEF A!Next
    <3>1. c \in A!Command /\ c.ws \in Workspaces /\ row[c.ws] \in A!Row
      BY SameAssumptions DEF A!CommandsAssumption, A!Command, A!TypeOK
    <3>2. row' \in [Workspaces -> A!Row]
      BY <3>1, PromisedRow DEF A!Post, A!TypeOK
    <3>3. ledger' \in [Workspaces -> Seq(A!Line)]
      <4>1. A!WithLine(ledger[c.ws], row[c.ws], c) \in Seq(A!Line)
        BY <3>1, PromisedRow DEF A!WithLine, A!TypeOK
      <4> QED
        BY <4>1 DEF A!Post, A!TypeOK
    <3>4. recorded' \subseteq A!Key
      BY <3>1, SameAssumptions DEF A!CommandsAssumption, A!Post, A!TypeOK, A!WithKey, A!KeyOf, A!Key, A!Command
    <3> QED
      BY <3>2, <3>3, <3>4 DEF A!TypeOK
  <2>2. CASE UNCHANGED A!vars
    BY <2>2 DEF A!vars, A!TypeOK
  <2> QED
    BY <2>1, <2>2
<1> QED
  BY <1>1, <1>2, PTL DEF A!Spec

-----------------------------------------------------------------------------
(* What one operation does to the tables: it touches its own workspace     *)
(* only, where it appends the line of the new balance or, for a report     *)
(* that costs nothing, leaves ledger, balance and status as they were.     *)
LEMMA PostShape ==
    ASSUME A!TypeOK, NEW c \in Commands, A!Post(c)
    PROVE  /\ c \in A!Command /\ c.ws \in Workspaces
           /\ row[c.ws] \in A!Row /\ ledger[c.ws] \in Seq(A!Line)
           /\ row'[c.ws] = A!Posted(row[c.ws], c)
           /\ row'[c.ws] \in A!Row
           /\ row'[c.ws].balance = row[c.ws].balance + A!Delta(c)
           /\ \A w \in Workspaces \ {c.ws} :
                 row'[w] = row[w] /\ ledger'[w] = ledger[w]
           /\ \/ /\ A!WritesLine(c)
                 /\ ledger'[c.ws] = Append(ledger[c.ws], A!LineOf(row[c.ws], c))
                 /\ A!LineOf(row[c.ws], c) \in A!Line
              \/ /\ ~ A!WritesLine(c)
                 /\ ledger'[c.ws] = ledger[c.ws]
                 /\ A!Delta(c) = 0 /\ row'[c.ws].status = row[c.ws].status
<1>1. c \in A!Command /\ c.ws \in Workspaces /\ row[c.ws] \in A!Row /\ ledger[c.ws] \in Seq(A!Line)
  BY SameAssumptions DEF A!CommandsAssumption, A!Command, A!TypeOK
<1>2. row'[c.ws] = A!Posted(row[c.ws], c)
  BY <1>1 DEF A!Post, A!TypeOK
<1>3. /\ row'[c.ws] \in A!Row
      /\ row'[c.ws].balance = row[c.ws].balance + A!Delta(c)
  BY <1>1, <1>2, PromisedRow
<1>4. \A w \in Workspaces \ {c.ws} : row'[w] = row[w] /\ ledger'[w] = ledger[w]
  BY <1>1 DEF A!Post, A!TypeOK
<1>5. CASE A!WritesLine(c)
  <2>1. ledger'[c.ws] = Append(ledger[c.ws], A!LineOf(row[c.ws], c))
    BY <1>1, <1>5 DEF A!Post, A!TypeOK, A!WithLine
  <2> QED
    BY <1>1, <1>2, <1>3, <1>4, <1>5, <2>1, PromisedRow
<1>6. CASE ~ A!WritesLine(c)
  <2>1. ledger'[c.ws] = ledger[c.ws]
    BY <1>1, <1>6 DEF A!Post, A!TypeOK, A!WithLine
  <2>2. c.type = "USAGE" /\ c.amount = 0
    BY <1>6 DEF A!WritesLine
  <2>3. A!Delta(c) = 0
    <3>1. A!Delta(c) = 0 - c.amount
      BY <2>2 DEF A!Delta, A!Credits, A!Debits
    <3>2. c.amount \in Int /\ c.amount = 0
      BY <1>1, <2>2 DEF A!Command
    <3>3. 0 - c.amount = 0
      BY <3>2
    <3> QED
      BY <3>1, <3>3
  <2>4. row'[c.ws].status = row[c.ws].status
    BY <1>2, <2>2 DEF A!Posted
  <2> QED
    BY <1>1, <1>2, <1>3, <1>4, <1>6, <2>1, <2>3, <2>4
<1> QED
  BY <1>5, <1>6

(* The balance is the running total of the ledger's lines.                 *)
THEOREM PromiseExplainsBalance == A!Spec => []A!BalanceExplained
<1>1. A!Init => A!BalanceExplained
  <2> SUFFICES ASSUME A!Init, NEW w \in Workspaces
               PROVE  /\ \A i \in 1 .. Len(ledger[w]) :
                            ledger[w][i].after = A!BalanceBefore(ledger[w], i) + ledger[w][i].amount
                      /\ row[w].balance = A!BalanceBefore(ledger[w], Len(ledger[w]) + 1)
    BY DEF A!BalanceExplained
  <2>1. row[w].balance = 0 /\ ledger[w] = << >>
    BY DEF A!Init, A!EmptyRow
  <2>2. Len(ledger[w]) = 0
    BY <2>1
  <2> QED
    BY <2>1, <2>2 DEF A!BalanceBefore
<1>2. A!TypeOK /\ A!BalanceExplained /\ [A!Next]_A!vars => A!BalanceExplained'
  <2> SUFFICES ASSUME A!TypeOK, A!BalanceExplained, [A!Next]_A!vars
               PROVE  A!BalanceExplained'
    OBVIOUS
  <2>1. CASE A!Next
    <3> PICK c \in Commands : A!Post(c)
      BY <2>1 DEF A!Next
    <3> SUFFICES ASSUME NEW w \in Workspaces
                 PROVE  /\ \A i \in 1 .. Len(ledger'[w]) :
                              ledger'[w][i].after = A!BalanceBefore(ledger'[w], i) + ledger'[w][i].amount
                        /\ row'[w].balance = A!BalanceBefore(ledger'[w], Len(ledger'[w]) + 1)
      BY DEF A!BalanceExplained
    <3>1. /\ \A i \in 1 .. Len(ledger[w]) :
                ledger[w][i].after = A!BalanceBefore(ledger[w], i) + ledger[w][i].amount
          /\ row[w].balance = A!BalanceBefore(ledger[w], Len(ledger[w]) + 1)
      BY DEF A!BalanceExplained
    <3>2. CASE w # c.ws
      BY <3>1, <3>2, PostShape
    <3>3. CASE w = c.ws /\ ~ A!WritesLine(c)
      <4>1. ledger'[w] = ledger[w] /\ row'[w].balance = row[w].balance + 0 /\ row[w] \in A!Row
        BY <3>3, PostShape
      <4>2. row'[w].balance = row[w].balance
        BY <4>1 DEF A!Row
      <4> QED
        BY <3>1, <4>1, <4>2
    <3>4. CASE w = c.ws /\ A!WritesLine(c)
      <4> DEFINE old == ledger[w]
                 new == ledger'[w]
                 line == A!LineOf(row[w], c)
      <4>1. new = Append(old, line) /\ old \in Seq(A!Line) /\ line \in A!Line
        BY <3>4, PostShape
      <4>2. /\ Len(new) = Len(old) + 1 /\ Len(old) \in Nat
            /\ \A i \in 1 .. Len(old) : new[i] = old[i]
            /\ new[Len(old) + 1] = line
        BY <4>1
      <4>3. line.amount = A!Delta(c) /\ line.after = row'[w].balance
        BY <3>4, PostShape DEF A!LineOf
      <4>4. row'[w].balance = row[w].balance + A!Delta(c)
        BY <3>4, PostShape
      <4>5. \A i \in 1 .. Len(old) + 1 : A!BalanceBefore(new, i) = A!BalanceBefore(old, i)
        BY <4>2 DEF A!BalanceBefore
      <4>6. row'[w].balance = A!BalanceBefore(new, Len(new) + 1)
        BY <4>2, <4>3 DEF A!BalanceBefore
      <4>7. ASSUME NEW i \in 1 .. Len(new)
            PROVE  new[i].after = A!BalanceBefore(new, i) + new[i].amount
        <5>1. CASE i \in 1 .. Len(old)
          BY <3>1, <4>2, <4>5, <5>1
        <5>2. CASE i = Len(old) + 1
          BY <3>1, <4>2, <4>3, <4>4, <4>5, <5>2
        <5> QED
          BY <4>2, <5>1, <5>2
      <4> QED
        BY <4>6, <4>7
    <3> QED
      BY <3>2, <3>3, <3>4
  <2>2. CASE UNCHANGED A!vars
    BY <2>2 DEF A!vars, A!BalanceExplained
  <2> QED
    BY <2>1, <2>2
<1> QED
  BY <1>1, <1>2, PromiseIsTyped, PTL DEF A!Spec

-----------------------------------------------------------------------------
(* The inductive form of KeyedOnce: a line of a keyed type has taken its   *)
(* key, and a key is taken before a second line could carry it.            *)
KeysInv == A!LinesRecorded /\ A!KeyedOnce

(* No idempotency key ever has two lines.                                  *)
THEOREM PromiseTakesKeysOnce == A!Spec => []KeysInv
<1>1. A!Init => KeysInv
  <2> SUFFICES ASSUME A!Init PROVE KeysInv
    OBVIOUS
  <2>1. \A w \in Workspaces : ledger[w] = << >> /\ Len(ledger[w]) = 0
    BY DEF A!Init
  <2> QED
    BY <2>1 DEF KeysInv, A!LinesRecorded, A!KeyedOnce
<1>2. A!TypeOK /\ KeysInv /\ [A!Next]_A!vars => KeysInv'
  <2> SUFFICES ASSUME A!TypeOK, KeysInv, [A!Next]_A!vars
               PROVE  KeysInv'
    OBVIOUS
  <2>1. CASE A!Next
    <3> PICK c \in Commands : A!Post(c)
      BY <2>1 DEF A!Next
    <3> DEFINE line == A!LineOf(row[c.ws], c)
    <3>1. /\ c \in A!Command /\ c.ws \in Workspaces
          /\ ledger[c.ws] \in Seq(A!Line)
          /\ \A w \in Workspaces \ {c.ws} : ledger'[w] = ledger[w]
      BY PostShape
    <3>2. /\ recorded \subseteq recorded'
          /\ c.type \in A!Keyed => <<c.type, c.id>> \in recorded'
          /\ <<c.type, c.id>> \notin recorded
      BY DEF A!Post, A!WithKey, A!KeyOf
    <3>3. line.type = c.type /\ line.id = c.id
      BY DEF A!LineOf
    (* Every line is an old one or the new one at the end of its ledger.   *)
    <3>4. ASSUME NEW w \in Workspaces, NEW i \in 1 .. Len(ledger'[w])
          PROVE  \/ i \in 1 .. Len(ledger[w]) /\ ledger'[w][i] = ledger[w][i]
                 \/ w = c.ws /\ i = Len(ledger[w]) + 1 /\ ledger'[w][i] = line
      <4>1. CASE ledger'[w] = ledger[w]
        BY <4>1
      <4>2. CASE w = c.ws /\ ledger'[w] = Append(ledger[w], line)
        <5>1. ledger[w] \in Seq(A!Line) /\ line \in A!Line
          BY <3>1, <4>2, PromisedRow DEF A!TypeOK
        <5>2. /\ Len(ledger'[w]) = Len(ledger[w]) + 1 /\ Len(ledger[w]) \in Nat
              /\ \A k \in 1 .. Len(ledger[w]) : ledger'[w][k] = ledger[w][k]
              /\ ledger'[w][Len(ledger[w]) + 1] = line
          BY <4>2, <5>1
        <5>3. i \in 1 .. Len(ledger[w]) \/ i = Len(ledger[w]) + 1
          BY <5>2
        <5> QED
          BY <4>2, <5>2, <5>3
      <4> QED
        BY <3>1, <4>1, <4>2, PostShape
    <3>5. ASSUME NEW w \in Workspaces, NEW i \in 1 .. Len(ledger[w]), c.type \in A!Keyed
          PROVE  ~ (ledger[w][i].type = c.type /\ ledger[w][i].id = c.id)
      BY <3>2, <3>5 DEF KeysInv, A!LinesRecorded
    <3>6. A!LinesRecorded'
      BY <3>2, <3>3, <3>4 DEF KeysInv, A!LinesRecorded
    <3>7. A!KeyedOnce'
      <4> SUFFICES ASSUME NEW v \in Workspaces, NEW w \in Workspaces,
                          NEW i \in 1 .. Len(ledger'[v]), NEW j \in 1 .. Len(ledger'[w]),
                          ledger'[v][i].type \in A!Keyed,
                          ledger'[v][i].type = ledger'[w][j].type,
                          ledger'[v][i].id = ledger'[w][j].id
                   PROVE  v = w /\ i = j
        BY DEF A!KeyedOnce
      <4>1. CASE /\ i \in 1 .. Len(ledger[v]) /\ ledger'[v][i] = ledger[v][i]
                 /\ j \in 1 .. Len(ledger[w]) /\ ledger'[w][j] = ledger[w][j]
        BY <4>1 DEF KeysInv, A!KeyedOnce
      <4>2. CASE /\ i \in 1 .. Len(ledger[v]) /\ ledger'[v][i] = ledger[v][i]
                 /\ w = c.ws /\ j = Len(ledger[w]) + 1 /\ ledger'[w][j] = line
        BY <4>2, <3>3, <3>5
      <4>3. CASE /\ v = c.ws /\ i = Len(ledger[v]) + 1 /\ ledger'[v][i] = line
                 /\ j \in 1 .. Len(ledger[w]) /\ ledger'[w][j] = ledger[w][j]
        BY <4>3, <3>3, <3>5
      <4>4. CASE /\ v = c.ws /\ i = Len(ledger[v]) + 1
                 /\ w = c.ws /\ j = Len(ledger[w]) + 1
        BY <4>4
      <4> QED
        BY <3>4, <4>1, <4>2, <4>3, <4>4
    <3> QED
      BY <3>6, <3>7 DEF KeysInv
  <2>2. CASE UNCHANGED A!vars
    <3>1. ledger' = ledger /\ recorded' = recorded
      BY <2>2 DEF A!vars
    <3>2. A!LinesRecorded'
      BY <3>1 DEF KeysInv, A!LinesRecorded, A!Keyed
    <3>3. A!KeyedOnce'
      BY <3>1 DEF KeysInv, A!KeyedOnce, A!Keyed
    <3> QED
      BY <3>2, <3>3 DEF KeysInv
  <2> QED
    BY <2>1, <2>2
<1> QED
  BY <1>1, <1>2, PromiseIsTyped, PTL DEF A!Spec

-----------------------------------------------------------------------------
(* The lifetime totals never claim less than the balance holds, although   *)
(* deductions and clawbacks clamp them at zero.                            *)
THEOREM PromiseStaysWithinTotals == A!Spec => []A!BalanceWithinTotals
<1>1. A!Init => A!BalanceWithinTotals
  <2> SUFFICES ASSUME A!Init, NEW w \in Workspaces
               PROVE  row[w].balance <= row[w].credited - row[w].used
    BY DEF A!BalanceWithinTotals
  <2>1. row[w].balance = 0 /\ row[w].credited = 0 /\ row[w].used = 0
    BY DEF A!Init, A!EmptyRow
  <2> QED
    BY <2>1
<1>2. A!TypeOK /\ A!BalanceWithinTotals /\ [A!Next]_A!vars => A!BalanceWithinTotals'
  <2> SUFFICES ASSUME A!TypeOK, A!BalanceWithinTotals, [A!Next]_A!vars
               PROVE  A!BalanceWithinTotals'
    OBVIOUS
  <2>1. CASE A!Next
    <3> PICK c \in Commands : A!Post(c)
      BY <2>1 DEF A!Next
    <3> SUFFICES ASSUME NEW w \in Workspaces
                 PROVE  row'[w].balance <= row'[w].credited - row'[w].used
      BY DEF A!BalanceWithinTotals
    <3>1. row[w].balance <= row[w].credited - row[w].used
      BY DEF A!BalanceWithinTotals
    <3>2. CASE w # c.ws
      BY <3>1, <3>2, PostShape
    <3>3. CASE w = c.ws
      <4>1. /\ row[w].balance \in Int /\ row[w].credited \in Nat /\ row[w].used \in Nat
            /\ c.amount \in Nat /\ row'[w] = A!Posted(row[w], c) /\ c.type \in A!Types
        BY <3>3, PostShape DEF A!Row, A!Command
      <4>2. A!Less(row[w].credited, c.amount) >= row[w].credited - c.amount
        BY <4>1 DEF A!Less
      <4>3. A!Less(row[w].credited, c.amount) \in Nat
        BY <4>1 DEF A!Less
      <4> QED
        BY <3>1, <4>1, <4>2, <4>3 DEF A!Posted, A!Delta, A!Types, A!Credits, A!Debits, A!StatusChanges
    <3> QED
      BY <3>2, <3>3
  <2>2. CASE UNCHANGED A!vars
    BY <2>2 DEF A!vars, A!BalanceWithinTotals
  <2> QED
    BY <2>1, <2>2
<1> QED
  BY <1>1, <1>2, PromiseIsTyped, PTL DEF A!Spec

-----------------------------------------------------------------------------
(* Whether the last status line of a ledger is a suspension.               *)
SuspendedBy(log) ==
    \E i \in 1 .. Len(log) :
        /\ log[i].type = "ACCOUNT_SUSPENDED"
        /\ \A j \in i + 1 .. Len(log) : log[j].type # "ACCOUNT_REACTIVATED"

(* A new line suspends, reactivates, or leaves that answer as it was.      *)
LEMMA SuspendedByAppend ==
    ASSUME NEW log \in Seq(A!Line), NEW l \in A!Line
    PROVE  SuspendedBy(Append(log, l)) <=>
              \/ l.type = "ACCOUNT_SUSPENDED"
              \/ SuspendedBy(log) /\ l.type # "ACCOUNT_REACTIVATED"
<1> DEFINE new == Append(log, l)
<1>1. /\ Len(log) \in Nat /\ Len(new) = Len(log) + 1
      /\ \A i \in 1 .. Len(log) : new[i] = log[i]
      /\ new[Len(log) + 1] = l
  OBVIOUS
<1> HIDE DEF new
<1>2. ASSUME SuspendedBy(new), l.type # "ACCOUNT_SUSPENDED"
      PROVE  SuspendedBy(log) /\ l.type # "ACCOUNT_REACTIVATED"
  <2> PICK i \in 1 .. Len(new) :
         /\ new[i].type = "ACCOUNT_SUSPENDED"
         /\ \A j \in i + 1 .. Len(new) : new[j].type # "ACCOUNT_REACTIVATED"
    BY <1>2 DEF SuspendedBy
  <2>1. i \in 1 .. Len(log)
    BY <1>1, <1>2
  <2> QED
    BY <1>1, <2>1 DEF SuspendedBy
<1>3. ASSUME l.type = "ACCOUNT_SUSPENDED"
      PROVE  SuspendedBy(new)
  <2>1. Len(new) \in 1 .. Len(new) /\ new[Len(new)].type = "ACCOUNT_SUSPENDED"
    BY <1>1, <1>3
  <2> QED
    BY <1>1, <2>1 DEF SuspendedBy
<1>4. ASSUME SuspendedBy(log), l.type # "ACCOUNT_REACTIVATED"
      PROVE  SuspendedBy(new)
  <2> PICK i \in 1 .. Len(log) :
         /\ log[i].type = "ACCOUNT_SUSPENDED"
         /\ \A j \in i + 1 .. Len(log) : log[j].type # "ACCOUNT_REACTIVATED"
    BY <1>4 DEF SuspendedBy
  <2>1. i \in 1 .. Len(new) /\ new[i].type = "ACCOUNT_SUSPENDED"
    BY <1>1
  <2>2. \A j \in i + 1 .. Len(new) : new[j].type # "ACCOUNT_REACTIVATED"
    BY <1>1, <1>4
  <2> QED
    BY <2>1, <2>2 DEF SuspendedBy
<1> QED
  BY <1>2, <1>3, <1>4 DEF new

(* The status of an account is the one its audit log last recorded.        *)
THEOREM PromiseExplainsStatus == A!Spec => []A!StatusExplained
<1>a. A!StatusExplained <=>
        \A w \in Workspaces : row[w].status = "SUSPENDED" <=> SuspendedBy(ledger[w])
  BY DEF A!StatusExplained, SuspendedBy
<1>1. A!Init => A!StatusExplained
  <2> SUFFICES ASSUME A!Init, NEW w \in Workspaces
               PROVE  row[w].status = "SUSPENDED" <=> SuspendedBy(ledger[w])
    BY <1>a
  <2>1. row[w].status = "ACTIVE" /\ Len(ledger[w]) = 0
    BY DEF A!Init, A!EmptyRow
  <2> QED
    BY <2>1 DEF SuspendedBy
<1>2. A!TypeOK /\ A!StatusExplained /\ [A!Next]_A!vars => A!StatusExplained'
  <2> SUFFICES ASSUME A!TypeOK, A!StatusExplained, [A!Next]_A!vars, NEW w \in Workspaces
               PROVE  row'[w].status = "SUSPENDED" <=> SuspendedBy(ledger'[w])
    BY DEF A!StatusExplained, SuspendedBy
  <2>1. row[w].status = "SUSPENDED" <=> SuspendedBy(ledger[w])
    BY <1>a
  <2>2. CASE A!Next
    <3> PICK c \in Commands : A!Post(c)
      BY <2>2 DEF A!Next
    <3>1. CASE w # c.ws \/ ~ A!WritesLine(c)
      <4>1. ledger'[w] = ledger[w] /\ row'[w].status = row[w].status
        BY <3>1, PostShape
      <4> QED
        BY <2>1, <4>1
    <3>2. CASE w = c.ws /\ A!WritesLine(c)
      <4> DEFINE line == A!LineOf(row[w], c)
      <4>1. /\ ledger[w] \in Seq(A!Line) /\ line \in A!Line /\ ledger'[w] = Append(ledger[w], line)
            /\ row'[w] = A!Posted(row[w], c) /\ row[w] \in A!Row
        BY <3>2, PostShape
      <4>2. line.type = c.type
        BY DEF A!LineOf
      <4>3. row'[w].status = "SUSPENDED" <=>
               \/ c.type = "ACCOUNT_SUSPENDED"
               \/ row[w].status = "SUSPENDED" /\ c.type # "ACCOUNT_REACTIVATED"
        BY <4>1 DEF A!Posted, A!Row, A!Status
      <4> HIDE DEF line
      <4>4. SuspendedBy(ledger'[w]) <=>
               \/ line.type = "ACCOUNT_SUSPENDED"
               \/ SuspendedBy(ledger[w]) /\ line.type # "ACCOUNT_REACTIVATED"
        BY <4>1, SuspendedByAppend
      <4> QED
        BY <2>1, <4>2, <4>3, <4>4
    <3> QED
      BY <3>1, <3>2
  <2>3. CASE UNCHANGED A!vars
    BY <2>1, <2>3 DEF A!vars
  <2> QED
    BY <2>2, <2>3
<1> QED
  BY <1>1, <1>2, PromiseIsTyped, PTL DEF A!Spec

-----------------------------------------------------------------------------
(* Ledgers only grow, a line at a time, and no balance or status changes   *)
(* without one.                                                            *)
THEOREM PromiseOnlyAppends == A!Spec => A!AppendOnly
<1>1. A!TypeOK /\ [A!Next]_A!vars =>
        [\A w \in Workspaces : A!GrowsByOne(w) \/ A!UnchangedAccount(w)]_A!vars
  <2> SUFFICES ASSUME A!TypeOK, A!Next, NEW w \in Workspaces
               PROVE  A!GrowsByOne(w) \/ A!UnchangedAccount(w)
    OBVIOUS
  <2> PICK c \in Commands : A!Post(c)
    BY DEF A!Next
  <2>1. CASE w # c.ws
    BY <2>1, PostShape DEF A!UnchangedAccount
  <2>2. CASE w = c.ws /\ A!WritesLine(c)
    BY <2>2, PostShape DEF A!GrowsByOne
  <2>3. CASE w = c.ws /\ ~ A!WritesLine(c)
    <3>1. row[w].balance \in Int /\ row'[w].balance = row[w].balance + 0
      BY <2>3, PostShape DEF A!Row
    <3> QED
      BY <2>3, <3>1, PostShape DEF A!UnchangedAccount
  <2> QED
    BY <2>1, <2>2, <2>3
<1> QED
  BY <1>1, PromiseIsTyped, PTL DEF A!Spec, A!AppendOnly

-----------------------------------------------------------------------------
(* The service: operations in transactions                                 *)

(* What an operation does to a row and its line, for the definitions that  *)
(* this module and AtomicLedger both take from LedgerOps.                  *)
LEMMA PostedRow ==
    ASSUME NEW r \in Row, NEW c \in Command
    PROVE  /\ Posted(r, c) \in Row
           /\ Delta(c) \in Int
           /\ LineOf(r, c) \in Line
           /\ Posted(r, c).balance = r.balance + Delta(c)
<1>1. Row = A!Row /\ Command = A!Command /\ Line = A!Line
  BY DEF Row, Command, Line, Status, Types, Keyed, Credits, Debits, StatusChanges,
         A!Row, A!Command, A!Line, A!Status, A!Types,
         A!Keyed, A!Credits, A!Debits, A!StatusChanges
<1>2. Delta(c) = A!Delta(c)
  BY DEF Delta, Credits, Debits, A!Delta, A!Credits, A!Debits
<1>3. Posted(r, c) = A!Posted(r, c)
  BY <1>2 DEF Posted, Less, Credits, A!Posted, A!Less, A!Credits
<1>4. LineOf(r, c) = A!LineOf(r, c)
  BY <1>2, <1>3 DEF LineOf, A!LineOf
<1> QED
  BY <1>1, <1>2, <1>3, <1>4, PromisedRow

-----------------------------------------------------------------------------
LEMMA StepsDistinct ==
    /\ RequestSteps = {"idle", "create", "due", "insert", "lock", "locked", "write",
                "ok", "duplicate", "refused", "failed"}
    /\ RolledBack \in Answers
  BY DEF RequestSteps, Answers, RolledBack

(* The end of a transaction keeps lock tables and copies well typed, frees *)
(* what the transaction held and leaves the other holders alone.           *)
LEMMA EndOfTransaction ==
    ASSUME LedgerTyped, NEW p \in Workers, EndTransaction(p)
    PROVE  /\ granting' \in [Ids -> Workers \cup {NoWorker}]
           /\ lockedBy' \in [Workspaces -> Workers \cup {NoWorker}]
           /\ held' \in [Workers -> Row]
           /\ \A q \in Workers \ {p} : held'[q] = held[q]
           /\ \A q \in Workers \ {p}, w \in Workspaces :
                 lockedBy[w] = q => lockedBy'[w] = q
<1>1. EmptyRow \in Row
  BY DEF EmptyRow, Row, Status
<1> QED
  BY <1>1 DEF LedgerTyped, EndTransaction, Released

(* A worker that is not idle serves one of the commands.                   *)
Serving == \A p \in Workers : at[p] # "idle" => cmd[p] \in Commands

LEMMA ServedCommand ==
    ASSUME LedgerTyped, Serving, NEW p \in Workers, at[p] # "idle"
    PROVE  cmd[p] \in Command /\ cmd[p].ws \in Workspaces /\ cmd[p].id \in Ids \cup {NoId}
  BY CommandsAssumption DEF Serving, Command

LEMMA ServedWelcome ==
    ASSUME LedgerTyped, Serving, NEW p \in Workers, at[p] # "idle", IsWelcome(cmd[p])
    PROVE  cmd[p].id \in Ids
  BY ServedCommand, CommandsAssumption DEF Serving, IsWelcome, Keyed

(* The types, with what each worker serves.                                *)
Typed == LedgerTyped /\ Serving

LEMMA TypedStep == Typed /\ [LedgerNext]_ledgerVars => Typed'
<1> SUFFICES ASSUME Typed, [LedgerNext]_ledgerVars
             PROVE  Typed'
  OBVIOUS
<1> USE DEF GoTo
<1>1. ASSUME NEW p \in Workers, NEW c \in Commands, Begin(p, c)
      PROVE  Typed'
  BY <1>1, StepsDistinct DEF Begin, Typed, LedgerTyped, Serving, tables, locks
<1>2. ASSUME NEW p \in Workers, CreateIfMissing(p)
      PROVE  Typed'
  BY <1>2, StepsDistinct, ServedCommand DEF CreateIfMissing, Typed, LedgerTyped, Serving, locks
<1>3. ASSUME NEW p \in Workers, WelcomeDue(p)
      PROVE  Typed'
  BY <1>3, StepsDistinct DEF WelcomeDue, Typed, LedgerTyped, Serving, tables, locks
<1>4. ASSUME NEW p \in Workers, WriteWelcomeGrant(p)
      PROVE  Typed'
  BY <1>4, StepsDistinct DEF WriteWelcomeGrant, Typed, LedgerTyped, Serving, tables
<1>5. ASSUME NEW p \in Workers, WelcomeGrantTaken(p)
      PROVE  Typed'
  BY <1>5, StepsDistinct DEF WelcomeGrantTaken, Typed, LedgerTyped, Serving, tables, locks
<1>6. ASSUME NEW p \in Workers, Lock(p)
      PROVE  Typed'
  BY <1>6, StepsDistinct, ServedCommand DEF Lock, Typed, LedgerTyped, Serving, tables
<1>7. ASSUME NEW p \in Workers, TurnBack(p)
      PROVE  Typed'
  BY <1>7, StepsDistinct, EndOfTransaction DEF TurnBack, Typed, LedgerTyped, Serving, tables
<1>8. ASSUME NEW p \in Workers, GoAhead(p)
      PROVE  Typed'
  BY <1>8, StepsDistinct DEF GoAhead, Typed, LedgerTyped, Serving, tables, locks
<1>9. ASSUME NEW p \in Workers, Commit(p)
      PROVE  Typed'
  <2>1. /\ cmd[p] \in Command /\ cmd[p].ws \in Workspaces /\ held[p] \in Row
        /\ cmd[p] \in Commands
    BY <1>9, ServedCommand DEF Commit, Typed, LedgerTyped, Serving
  <2>2. row' \in [Workspaces -> Row]
    BY <1>9, <2>1, PostedRow DEF Commit, Typed, LedgerTyped
  <2>3. ledger' \in [Workspaces -> Seq(Line)]
    <3>1. LineOf(held[p], cmd[p]) \in Line
      BY <2>1, PostedRow
    <3>2. WithLine(ledger[cmd[p].ws], held[p], cmd[p]) \in Seq(Line)
      BY <2>1, <3>1 DEF WithLine, Typed, LedgerTyped
    <3> QED
      BY <1>9, <2>1, <3>2 DEF Commit, Typed, LedgerTyped
  <2>4. recorded' \subseteq Key
    BY <1>9, <2>1, CommandsAssumption DEF Commit, Typed, LedgerTyped, WithKey, KeyOf, Key, Command
  <2>5. welcomed' \subseteq Ids
    <3>1. at[p] # "idle"
      BY <1>9 DEF Commit
    <3> QED
      BY <1>9, <3>1, ServedWelcome DEF Commit, Typed, LedgerTyped
  <2> QED
    BY <1>9, <2>2, <2>3, <2>4, <2>5, StepsDistinct, EndOfTransaction
    DEF Commit, Typed, LedgerTyped, Serving
<1>10. ASSUME NEW p \in Workers, UniqueViolation(p)
       PROVE  Typed'
  <2>1. at' = [at EXCEPT ![p] = at'[p]] /\ at'[p] \in Answers
    BY <1>10, StepsDistinct DEF UniqueViolation, Typed, LedgerTyped, Answers
  <2> QED
    BY <1>10, <2>1, StepsDistinct, EndOfTransaction
    DEF UniqueViolation, Typed, LedgerTyped, Serving, tables, Answers
<1>11. ASSUME NEW p \in Workers, Abort(p)
       PROVE  Typed'
  BY <1>11, StepsDistinct, EndOfTransaction DEF Abort, Typed, LedgerTyped, Serving, tables, Answers
<1>12. ASSUME NEW p \in Workers, Respond(p)
       PROVE  Typed'
  BY <1>12, StepsDistinct DEF Respond, Typed, LedgerTyped, Serving, tables, locks
<1>13. CASE UNCHANGED ledgerVars
  BY <1>13 DEF ledgerVars, tables, locks, workers, Typed, LedgerTyped, Serving
<1> QED
  BY <1>1, <1>2, <1>3, <1>4, <1>5, <1>6, <1>7, <1>8, <1>9, <1>10, <1>11, <1>12, <1>13
  DEF LedgerNext, Work

(* The variables of the service keep their types.                          *)
THEOREM LedgerTypeCorrect == LedgerSpec => []LedgerTyped
<1>1. LedgerInit => Typed
  BY StepsDistinct DEF LedgerInit, Typed, LedgerTyped, Serving, EmptyRow, Row, Status
<1> QED
  BY <1>1, TypedStep, PTL DEF LedgerSpec, Typed

-----------------------------------------------------------------------------
(* The lock discipline.  CopyIsCommitted alone is not inductive: the write *)
(* step must also remember that its row allowed the change.                *)
Decided ==
    \A p \in Workers :
        at[p] = "write" => ~ Refused(held[p], cmd[p]) /\ ~ NoChange(held[p], cmd[p])

LockInv == CopyIsCommitted /\ Decided

(* The discipline of one worker, which is what a step must keep.           *)
Disciplined(q) ==
    /\ at[q] \in {"locked", "write"} =>
          lockedBy[cmd[q].ws] = q /\ held[q] = row[cmd[q].ws]
    /\ at[q] = "write" => ~ Refused(held[q], cmd[q]) /\ ~ NoChange(held[q], cmd[q])

LEMMA LockStep == Typed /\ LockInv /\ [LedgerNext]_ledgerVars => LockInv'
<1> SUFFICES ASSUME Typed, LockInv, [LedgerNext]_ledgerVars
             PROVE  LockInv'
  OBVIOUS
<1>a. LedgerTyped /\ Serving
  BY DEF Typed
<1> SUFFICES ASSUME NEW q \in Workers
             PROVE  Disciplined(q)'
  BY DEF LockInv, CopyIsCommitted, Decided, Disciplined
<1>b. Disciplined(q)
  BY DEF LockInv, CopyIsCommitted, Decided, Disciplined
<1>c. at[q] \in {"locked", "write"} => cmd[q].ws \in Workspaces
  BY <1>a, ServedCommand
<1> USE DEF GoTo, Disciplined
(* RequestSteps before the lock and answers: the worker that moves is not past    *)
(* the lock, and the tables the others rely on do not change.              *)
<1>1. ASSUME NEW p \in Workers,
             \/ \E c \in Commands : Begin(p, c)
             \/ CreateIfMissing(p) \/ WelcomeDue(p) \/ WriteWelcomeGrant(p)
             \/ WelcomeGrantTaken(p) \/ Respond(p)
      PROVE  Disciplined(q)'
  <2>1. lockedBy' = lockedBy /\ row' = row /\ held' = held
    BY <1>1 DEF Begin, CreateIfMissing, WelcomeDue, WriteWelcomeGrant, WelcomeGrantTaken,
                Respond, tables, locks
  <2>2. CASE q = p
    <3>1. at'[q] \notin {"locked", "write"}
      BY <1>1, <1>a, <2>2 DEF Begin, CreateIfMissing, WelcomeDue, WriteWelcomeGrant,
                              WelcomeGrantTaken, Respond, LedgerTyped
    <3> QED
      BY <3>1
  <2>3. CASE q # p
    <3>1. at'[q] = at[q] /\ cmd'[q] = cmd[q]
      BY <1>1, <1>a, <2>3 DEF Begin, CreateIfMissing, WelcomeDue, WriteWelcomeGrant,
                              WelcomeGrantTaken, Respond, LedgerTyped
    <3> QED
      BY <2>1, <3>1, <1>b
  <2> QED
    BY <2>2, <2>3
<1>2. ASSUME NEW p \in Workers, Lock(p)
      PROVE  Disciplined(q)'
  <2>1. CASE q = p
    <3>1. cmd[p].ws \in Workspaces
      BY <1>2, <1>a, ServedCommand DEF Lock
    <3> QED
      BY <1>2, <1>a, <2>1, <3>1 DEF Lock, LedgerTyped, tables
  <2>2. CASE q # p
    <3>1. at'[q] = at[q] /\ cmd'[q] = cmd[q] /\ held'[q] = held[q] /\ row' = row
      BY <1>2, <1>a, <2>2 DEF Lock, LedgerTyped, tables
    <3>2. at[q] \in {"locked", "write"} => cmd[q].ws # cmd[p].ws
      BY <1>2, <1>b, NoWorkerAssumption DEF Lock, RowFree
    <3>3. at[q] \in {"locked", "write"} => lockedBy'[cmd[q].ws] = q
      BY <1>2, <1>a, <1>b, <1>c, <3>2 DEF Lock, LedgerTyped
    <3> QED
      BY <1>b, <3>1, <3>3
  <2> QED
    BY <2>1, <2>2
<1>3. ASSUME NEW p \in Workers, GoAhead(p)
      PROVE  Disciplined(q)'
  BY <1>3, <1>a, <1>b DEF GoAhead, Judged, LedgerTyped, tables, locks
(* RequestSteps that end a transaction: the worker leaves the lock, the others    *)
(* keep theirs, and only the row the worker had locked may change.         *)
<1>4. ASSUME NEW p \in Workers, EndTransaction(p), cmd' = cmd,
             at' = [at EXCEPT ![p] = at'[p]], at'[p] \in Answers,
             \A w \in Workspaces :
                row'[w] = row[w] \/ (at[p] = "write" /\ w = cmd[p].ws)
      PROVE  Disciplined(q)'
  <2>1. CASE q = p
    BY <1>4, <2>1 DEF Answers
  <2>2. CASE q # p
    <3>1. at'[q] = at[q]
      BY <1>4, <1>a, <2>2 DEF LedgerTyped
    <3>2. held'[q] = held[q]
      BY <1>4, <1>a, <2>2, EndOfTransaction
    <3>3. at[q] \in {"locked", "write"} => lockedBy'[cmd[q].ws] = q
      BY <1>4, <1>a, <1>b, <1>c, <2>2, EndOfTransaction
    <3>4. at[q] \in {"locked", "write"} /\ at[p] = "write" => cmd[p].ws # cmd[q].ws
      BY <1>b, <2>2 DEF LockInv, CopyIsCommitted
    <3>5. at[q] \in {"locked", "write"} => row'[cmd[q].ws] = row[cmd[q].ws]
      BY <1>4, <1>c, <3>4
    <3> QED
      BY <1>4, <1>b, <3>1, <3>2, <3>3, <3>5
  <2> QED
    BY <2>1, <2>2
<1>5. ASSUME NEW p \in Workers, TurnBack(p)
      PROVE  /\ at' = [at EXCEPT ![p] = at'[p]] /\ at'[p] \in Answers
             /\ EndTransaction(p) /\ cmd' = cmd /\ row' = row
  BY <1>5, <1>a DEF TurnBack, LedgerTyped, tables, Answers
<1>6. ASSUME NEW p \in Workers, Commit(p)
      PROVE  /\ at' = [at EXCEPT ![p] = at'[p]] /\ at'[p] \in Answers
             /\ EndTransaction(p) /\ cmd' = cmd /\ at[p] = "write"
             /\ \A w \in Workspaces : row'[w] = row[w] \/ w = cmd[p].ws
  BY <1>6, <1>a DEF Commit, LedgerTyped, Answers
<1>7. ASSUME NEW p \in Workers, UniqueViolation(p)
      PROVE  /\ at' = [at EXCEPT ![p] = at'[p]] /\ at'[p] \in Answers
             /\ EndTransaction(p) /\ cmd' = cmd /\ row' = row
  BY <1>7, <1>a DEF UniqueViolation, LedgerTyped, tables, Answers, RolledBack
<1>8. ASSUME NEW p \in Workers, Abort(p)
      PROVE  /\ at' = [at EXCEPT ![p] = at'[p]] /\ at'[p] \in Answers
             /\ EndTransaction(p) /\ cmd' = cmd /\ row' = row
  BY <1>8, <1>a DEF Abort, LedgerTyped, tables, Answers, RolledBack
<1>9. CASE UNCHANGED ledgerVars
  BY <1>9, <1>b DEF ledgerVars, tables, locks, workers
<1> QED
  BY <1>1, <1>2, <1>3, <1>4, <1>5, <1>6, <1>7, <1>8, <1>9 DEF LedgerNext, Work

LEMMA LocksHold == LedgerSpec => [](Typed /\ LockInv)
<1>1. LedgerInit => Typed /\ LockInv
  BY StepsDistinct DEF LedgerInit, Typed, LedgerTyped, Serving, LockInv, CopyIsCommitted, Decided,
                       EmptyRow, Row, Status
<1> QED
  BY <1>1, TypedStep, LockStep, PTL DEF LedgerSpec

(* No thread ever works on a stale copy of an account row.                 *)
THEOREM CopiesAreCommitted == LedgerSpec => []CopyIsCommitted
  BY LocksHold, PTL DEF LockInv

-----------------------------------------------------------------------------
(* Refinement: a commit is one AtomicLedger operation on the committed     *)
(* row, and no other step touches row, ledger or recorded keys.            *)
LEMMA CommitIsPost ==
    ASSUME Typed, LockInv, NEW p \in Workers, Commit(p)
    PROVE  cmd[p] \in Commands /\ A!Post(cmd[p])
<1>1. cmd[p] \in Commands /\ at[p] = "write"
  BY DEF Commit, Typed, Serving
<1>2. held[p] = row[cmd[p].ws] /\ ~ Refused(held[p], cmd[p]) /\ ~ NoChange(held[p], cmd[p])
  BY <1>1 DEF LockInv, CopyIsCommitted, Decided
<1>3. A!Post(cmd[p]) <=>
        /\ KeyOf(cmd[p]) \notin recorded
        /\ ~ Refused(row[cmd[p].ws], cmd[p])
        /\ ~ NoChange(row[cmd[p].ws], cmd[p])
        /\ row' = [row EXCEPT ![cmd[p].ws] = Posted(row[cmd[p].ws], cmd[p])]
        /\ ledger' = [ledger EXCEPT ![cmd[p].ws] =
                         WithLine(ledger[cmd[p].ws], row[cmd[p].ws], cmd[p])]
        /\ recorded' = WithKey(recorded, cmd[p])
  BY DEF A!Post, A!KeyOf, A!Refused, A!NoChange, A!Posted, A!WithLine, A!WithKey, A!LineOf,
         A!WritesLine, A!Delta, A!Less, A!Credits, A!Debits, A!Keyed,
         KeyOf, Refused, NoChange, Posted, WithLine, WithKey, LineOf,
         WritesLine, Delta, Less, Credits, Debits, Keyed
<1> QED
  BY <1>1, <1>2, <1>3 DEF Commit, Collides

LEMMA RefinementStep == Typed /\ LockInv /\ [LedgerNext]_ledgerVars => [A!Next]_A!vars
<1> SUFFICES ASSUME Typed, LockInv, [LedgerNext]_ledgerVars
             PROVE  A!Next \/ UNCHANGED <<row, ledger, recorded>>
  BY DEF A!vars
<1>1. ASSUME NEW p \in Workers, Commit(p)
      PROVE  A!Next
  BY <1>1, CommitIsPost DEF A!Next
<1>2. ASSUME NEW p \in Workers, NEW c \in Commands, Begin(p, c)
      PROVE  UNCHANGED <<row, ledger, recorded>>
  BY <1>2 DEF Begin, tables
<1>3. ASSUME NEW p \in Workers,
             \/ CreateIfMissing(p) \/ WelcomeDue(p) \/ WriteWelcomeGrant(p)
             \/ WelcomeGrantTaken(p) \/ Lock(p) \/ TurnBack(p) \/ GoAhead(p)
             \/ UniqueViolation(p) \/ Abort(p) \/ Respond(p)
      PROVE  UNCHANGED <<row, ledger, recorded>>
  BY <1>3 DEF CreateIfMissing, WelcomeDue, WriteWelcomeGrant, WelcomeGrantTaken, Lock,
              TurnBack, GoAhead, UniqueViolation, Abort, Respond, tables
<1>4. CASE UNCHANGED ledgerVars
  BY <1>4 DEF ledgerVars, tables
<1> QED
  BY <1>1, <1>2, <1>3, <1>4 DEF LedgerNext, Work

(* The service implements the atomic ledger.                               *)
THEOREM Refinement == LedgerSpec => RefinesAtomicLedger
<1>1. LedgerInit => A!Init
  BY DEF LedgerInit, A!Init, EmptyRow, A!EmptyRow
<1> QED
  BY <1>1, RefinementStep, LocksHold, PTL DEF LedgerSpec, A!Spec, RefinesAtomicLedger

-----------------------------------------------------------------------------
(* What holds of AtomicLedger, of the tables the service commits           *)

(* Every balance is the running total of its ledger: no update is lost     *)
(* between concurrent charges, purchases and administrators.               *)
THEOREM BalanceIsExplained == LedgerSpec => []BalanceExplained
<1>1. A!Spec => []A!BalanceExplained
  BY PromiseExplainsBalance
<1>2. A!BalanceExplained <=> BalanceExplained
  BY DEF BalanceExplained, A!BalanceExplained, A!BalanceBefore
<1> QED
  BY <1>1, <1>2, Refinement, PTL DEF RefinesAtomicLedger

(* A retried charge, purchase, refund or welcome grant moves credits once. *)
THEOREM KeysTakenOnce == LedgerSpec => []KeyedOnce
<1>1. A!Spec => []KeysInv
  BY PromiseTakesKeysOnce
<1>2. KeysInv => KeyedOnce
  BY DEF KeysInv, KeyedOnce, A!KeyedOnce, A!Keyed
<1> QED
  BY <1>1, <1>2, Refinement, PTL DEF RefinesAtomicLedger

(* The lifetime totals never claim less than the balance holds.            *)
THEOREM BalanceIsWithinTotals == LedgerSpec => []BalanceWithinTotals
<1>1. A!Spec => []A!BalanceWithinTotals
  BY PromiseStaysWithinTotals
<1>2. A!BalanceWithinTotals <=> BalanceWithinTotals
  BY DEF BalanceWithinTotals, A!BalanceWithinTotals
<1> QED
  BY <1>1, <1>2, Refinement, PTL DEF RefinesAtomicLedger

(* A workspace is suspended exactly when its audit log last said so.       *)
THEOREM StatusIsExplained == LedgerSpec => []StatusExplained
<1>1. A!Spec => []A!StatusExplained
  BY PromiseExplainsStatus
<1>2. A!StatusExplained <=> StatusExplained
  BY DEF StatusExplained, A!StatusExplained
<1> QED
  BY <1>1, <1>2, Refinement, PTL DEF RefinesAtomicLedger

(* The books explain the account: the four facts at once.                 *)
THEOREM BooksAreTrue == LedgerSpec => []BooksExplainAccounts
  BY BalanceIsExplained, KeysTakenOnce, BalanceIsWithinTotals, StatusIsExplained, PTL DEF BooksExplainAccounts

-----------------------------------------------------------------------------
(* An administrator's deduction is judged on the balance it changes, so it *)
(* never overdraws an account unasked.                                     *)
THEOREM NoOverdraft == LedgerSpec => NoUnaskedOverdraft
<1>1. Typed /\ LockInv /\ [LedgerNext]_ledgerVars =>
        [\A p \in Workers :
            /\ Commit(p)
            /\ cmd[p].type = "ADMIN_DEDUCT"
            /\ ~ cmd[p].force
            => row'[cmd[p].ws].balance >= 0]_ledgerVars
  <2> SUFFICES ASSUME Typed, LockInv, NEW p \in Workers, Commit(p),
                      cmd[p].type = "ADMIN_DEDUCT", ~ cmd[p].force
               PROVE  row'[cmd[p].ws].balance >= 0
    OBVIOUS
  <2>1. /\ cmd[p] \in Command /\ cmd[p].ws \in Workspaces /\ held[p] \in Row
        /\ at[p] = "write"
    BY ServedCommand DEF Commit, Typed, LedgerTyped
  <2>2. ~ (held[p].balance < cmd[p].amount)
    BY <2>1 DEF LockInv, Decided, Refused
  <2>3. row'[cmd[p].ws] = Posted(held[p], cmd[p])
    BY <2>1 DEF Commit, Typed, LedgerTyped
  <2>4. row'[cmd[p].ws].balance = held[p].balance + (0 - cmd[p].amount)
    BY <2>3 DEF Posted, Delta, Credits, Debits
  <2> QED
    BY <2>1, <2>2, <2>4 DEF Row, Command
<1> QED
  BY <1>1, LocksHold, PTL DEF LedgerSpec, NoUnaskedOverdraft

-----------------------------------------------------------------------------
(* Only a welcome grant takes the steps of one, and it goes past them only *)
(* in a workspace its user owns.                                           *)
OnPath(p) ==
    /\ at[p] \in {"due", "insert"} => IsWelcome(cmd[p])
    /\ at[p] \in {"insert", "lock", "locked", "write"} /\ IsWelcome(cmd[p])
          => IsOwner(cmd[p].id, cmd[p].ws)

WelcomePath == \A p \in Workers : OnPath(p)

LEMMA WelcomePathStep == Typed /\ WelcomePath /\ [LedgerNext]_ledgerVars => WelcomePath'
<1> SUFFICES ASSUME Typed, WelcomePath, [LedgerNext]_ledgerVars, NEW q \in Workers
             PROVE  OnPath(q)'
  BY DEF WelcomePath
<1>a. LedgerTyped
  BY DEF Typed
<1>b. OnPath(q)
  BY DEF WelcomePath
<1> USE DEF GoTo, IsWelcome, IsOwner, OnPath
<1>1. ASSUME NEW p \in Workers, NEW c \in Commands, Begin(p, c)
      PROVE  OnPath(q)'
  BY <1>1, <1>a, <1>b DEF Begin, LedgerTyped
<1>2. ASSUME NEW p \in Workers,
             CreateIfMissing(p) \/ WelcomeDue(p) \/ WriteWelcomeGrant(p) \/ WelcomeGrantTaken(p)
      PROVE  OnPath(q)'
  BY <1>2, <1>a, <1>b
  DEF CreateIfMissing, WelcomeDue, WriteWelcomeGrant, WelcomeGrantTaken, LedgerTyped
<1>3. ASSUME NEW p \in Workers, Lock(p) \/ GoAhead(p)
      PROVE  OnPath(q)'
  BY <1>3, <1>a, <1>b DEF Lock, GoAhead, LedgerTyped
<1>4. ASSUME NEW p \in Workers, TurnBack(p) \/ Commit(p) \/ Abort(p) \/ Respond(p)
      PROVE  OnPath(q)'
  BY <1>4, <1>a, <1>b DEF TurnBack, Commit, Abort, Respond, LedgerTyped, RolledBack
<1>5. ASSUME NEW p \in Workers, UniqueViolation(p)
      PROVE  OnPath(q)'
  BY <1>5, <1>a, <1>b DEF UniqueViolation, LedgerTyped, RolledBack
<1>6. CASE UNCHANGED ledgerVars
  BY <1>6, <1>b DEF ledgerVars, workers
<1> QED
  BY <1>1, <1>2, <1>3, <1>4, <1>5, <1>6 DEF LedgerNext, Work

(* An answer of "ok" or "duplicate" is only given once the key is taken,   *)
(* and keys are never given back.                                          *)
LEMMA AnswersStep ==
    Typed /\ WelcomePath /\ AnswersTruthful /\ [LedgerNext]_ledgerVars => AnswersTruthful'
<1> SUFFICES ASSUME Typed, WelcomePath, AnswersTruthful, [LedgerNext]_ledgerVars, NEW q \in Workers,
                    at'[q] \in {"ok", "duplicate"},
                    cmd'[q].type \in Keyed \ {"WELCOME_GRANT"}
             PROVE  KeyOf(cmd'[q]) \in recorded'
  BY DEF AnswersTruthful, KeyOf
<1>a. LedgerTyped
  BY DEF Typed
<1>b. at[q] \in {"ok", "duplicate"} /\ cmd[q].type \in Keyed \ {"WELCOME_GRANT"}
         => KeyOf(cmd[q]) \in recorded
  BY DEF AnswersTruthful
<1>c. at[q] \in {"due", "insert"} => cmd[q].type = "WELCOME_GRANT"
  BY DEF WelcomePath, OnPath, IsWelcome
<1> USE DEF GoTo, KeyOf
<1>1. ASSUME NEW p \in Workers, NEW c \in Commands, Begin(p, c)
      PROVE  KeyOf(cmd'[q]) \in recorded'
  BY <1>1, <1>a, <1>b DEF Begin, LedgerTyped, tables
<1>2. ASSUME NEW p \in Workers,
             CreateIfMissing(p) \/ WelcomeDue(p) \/ WriteWelcomeGrant(p) \/ WelcomeGrantTaken(p)
      PROVE  KeyOf(cmd'[q]) \in recorded'
  BY <1>2, <1>a, <1>b, <1>c
  DEF CreateIfMissing, WelcomeDue, WriteWelcomeGrant, WelcomeGrantTaken, LedgerTyped, tables
<1>3. ASSUME NEW p \in Workers, Lock(p) \/ GoAhead(p) \/ Abort(p) \/ Respond(p)
      PROVE  KeyOf(cmd'[q]) \in recorded'
  BY <1>3, <1>a, <1>b DEF Lock, GoAhead, Abort, Respond, LedgerTyped, tables, RolledBack
<1>4. ASSUME NEW p \in Workers, TurnBack(p)
      PROVE  KeyOf(cmd'[q]) \in recorded'
  <2>1. cmd' = cmd /\ recorded' = recorded
    BY <1>4 DEF TurnBack, tables
  <2>2. CASE q # p
    BY <1>4, <1>a, <1>b, <2>1, <2>2 DEF TurnBack, LedgerTyped
  <2>3. CASE q = p
    <3>1. ~ NoChange(Judged(p), cmd[p])
      BY <2>1, <2>3 DEF NoChange, Keyed
    <3> QED
      BY <1>4, <1>a, <2>1, <2>3, <3>1 DEF TurnBack, LedgerTyped
  <2> QED
    BY <2>2, <2>3
<1>5. ASSUME NEW p \in Workers, Commit(p)
      PROVE  KeyOf(cmd'[q]) \in recorded'
  BY <1>5, <1>a, <1>b DEF Commit, LedgerTyped, WithKey
<1>6. ASSUME NEW p \in Workers, UniqueViolation(p)
      PROVE  KeyOf(cmd'[q]) \in recorded'
  BY <1>6, <1>a, <1>b DEF UniqueViolation, LedgerTyped, tables, Collides
<1>7. CASE UNCHANGED ledgerVars
  BY <1>7, <1>b DEF ledgerVars, workers, tables
<1> QED
  BY <1>1, <1>2, <1>3, <1>4, <1>5, <1>6, <1>7 DEF LedgerNext, Work

(* A caller may forget what it was told is done.                           *)
THEOREM AnswersAreTruthful == LedgerSpec => []AnswersTruthful
<1>1. LedgerInit => Typed /\ WelcomePath /\ AnswersTruthful
  BY StepsDistinct DEF LedgerInit, Typed, LedgerTyped, Serving, WelcomePath, OnPath, AnswersTruthful,
                       EmptyRow, Row, Status
<1> QED
  BY <1>1, TypedStep, WelcomePathStep, AnswersStep, PTL DEF LedgerSpec

-----------------------------------------------------------------------------
(* The welcome_grants table and the ledger's welcome lines say the same.   *)
LEMMA WelcomeStep ==
    Typed /\ WelcomePath /\ WelcomeOnceInOwnWorkspace /\ [LedgerNext]_ledgerVars
        => WelcomeOnceInOwnWorkspace'
<1> SUFFICES ASSUME Typed, WelcomePath, WelcomeOnceInOwnWorkspace, [LedgerNext]_ledgerVars
             PROVE  WelcomeOnceInOwnWorkspace'
  OBVIOUS
<1>a. LedgerTyped
  BY DEF Typed
<1>1. ASSUME NEW p \in Workers, Commit(p)
      PROVE  WelcomeOnceInOwnWorkspace'
  <2> DEFINE c == cmd[p]
             line == LineOf(held[p], c)
  <2>1. /\ c \in Command /\ c \in Commands /\ c.ws \in Workspaces /\ held[p] \in Row
        /\ at[p] = "write"
    BY <1>1, <1>a, ServedCommand DEF Commit, Typed, LedgerTyped, Serving
  <2>2. \A u \in Ids : u \in welcomed' <=> <<"WELCOME_GRANT", u>> \in recorded'
    <3> SUFFICES ASSUME NEW u \in Ids
                 PROVE  u \in welcomed' <=> <<"WELCOME_GRANT", u>> \in recorded'
      OBVIOUS
    <3>1. u \in welcomed <=> <<"WELCOME_GRANT", u>> \in recorded
      BY DEF WelcomeOnceInOwnWorkspace
    <3>2. CASE IsWelcome(c)
      BY <1>1, <3>1, <3>2 DEF Commit, WithKey, KeyOf, IsWelcome, Keyed
    <3>3. CASE ~ IsWelcome(c)
      BY <1>1, <3>1, <3>3 DEF Commit, WithKey, KeyOf, IsWelcome
    <3> QED
      BY <3>2, <3>3
  <2>3. welcomed \subseteq welcomed'
    BY <1>1 DEF Commit
  <2>4. ASSUME NEW w \in Workspaces, NEW i \in 1 .. Len(ledger'[w]),
               ledger'[w][i].type = "WELCOME_GRANT"
        PROVE  ledger'[w][i].id \in welcomed' /\ Owner[w] = ledger'[w][i].id
    <3>1. CASE ledger'[w] = ledger[w]
      BY <2>3, <2>4, <3>1 DEF WelcomeOnceInOwnWorkspace
    <3>2. CASE w = c.ws /\ ledger'[w] = Append(ledger[w], line)
      <4>1. ledger[w] \in Seq(Line) /\ line \in Line
        BY <1>a, <2>1, PostedRow DEF LedgerTyped
      <4>2. CASE i \in 1 .. Len(ledger[w])
        <5>1. ledger'[w][i] = ledger[w][i]
          BY <3>2, <4>1, <4>2
        <5> QED
          BY <2>3, <2>4, <4>2, <5>1 DEF WelcomeOnceInOwnWorkspace
      <4>3. CASE i = Len(ledger[w]) + 1
        <5>1. ledger'[w][i] = line
          BY <3>2, <4>1, <4>3
        <5>2. line.type = c.type /\ line.id = c.id
          BY DEF LineOf
        <5>3. IsWelcome(c)
          BY <2>4, <5>1, <5>2 DEF IsWelcome
        <5>4. c.id \in welcomed' /\ Owner[c.ws] = c.id
          BY <1>1, <2>1, <5>3 DEF Commit, WelcomePath, OnPath, IsOwner
        <5> QED
          BY <3>2, <5>1, <5>2, <5>4
      <4> QED
        BY <3>2, <4>1, <4>2, <4>3
    <3>3. ledger'[w] = ledger[w] \/ (w = c.ws /\ ledger'[w] = Append(ledger[w], line))
      BY <1>1, <1>a, <2>1 DEF Commit, LedgerTyped, WithLine
    <3> QED
      BY <3>1, <3>2, <3>3
  <2> QED
    BY <2>2, <2>4 DEF WelcomeOnceInOwnWorkspace
<1>2. CASE UNCHANGED <<ledger, recorded, welcomed>>
  BY <1>2 DEF WelcomeOnceInOwnWorkspace
<1>3. ASSUME NEW p \in Workers, NEW c \in Commands, Begin(p, c)
      PROVE  UNCHANGED <<ledger, recorded, welcomed>>
  BY <1>3 DEF Begin, tables
<1>4. ASSUME NEW p \in Workers,
             \/ CreateIfMissing(p) \/ WelcomeDue(p) \/ WriteWelcomeGrant(p)
             \/ WelcomeGrantTaken(p) \/ Lock(p) \/ TurnBack(p) \/ GoAhead(p)
             \/ UniqueViolation(p) \/ Abort(p) \/ Respond(p)
      PROVE  UNCHANGED <<ledger, recorded, welcomed>>
  BY <1>4 DEF CreateIfMissing, WelcomeDue, WriteWelcomeGrant, WelcomeGrantTaken, Lock,
              TurnBack, GoAhead, UniqueViolation, Abort, Respond, tables
<1>5. CASE UNCHANGED ledgerVars
  BY <1>2, <1>5 DEF ledgerVars, tables
<1> QED
  BY <1>1, <1>2, <1>3, <1>4, <1>5 DEF LedgerNext, Work

(* Welcome credits come once per user ever, and only to a workspace the    *)
(* user owns.                                                              *)
THEOREM WelcomeCreditsOnce == LedgerSpec => []WelcomeOnceInOwnWorkspace
<1>1. LedgerInit => Typed /\ WelcomePath /\ WelcomeOnceInOwnWorkspace
  <2> SUFFICES ASSUME LedgerInit
               PROVE  Typed /\ WelcomePath /\ WelcomeOnceInOwnWorkspace
    OBVIOUS
  <2>1. Typed /\ WelcomePath
    BY StepsDistinct DEF LedgerInit, Typed, LedgerTyped, Serving, WelcomePath, OnPath,
                         EmptyRow, Row, Status
  <2>2. \A w \in Workspaces : Len(ledger[w]) = 0
    BY DEF LedgerInit
  <2>3. recorded = {} /\ welcomed = {}
    BY DEF LedgerInit
  <2> QED
    BY <2>1, <2>2, <2>3 DEF WelcomeOnceInOwnWorkspace
<1> QED
  BY <1>1, TypedStep, WelcomePathStep, WelcomeStep, PTL DEF LedgerSpec

-----------------------------------------------------------------------------
(* Payments *)

Settled == {"SUCCEEDED", "REFUNDED"}

-----------------------------------------------------------------------------
(* The ledger's part of a step *)

LEMMA OperationFacts ==
    ASSUME NEW o \in Orders
    PROVE  /\ o \in Ids /\ Account[o] \in Workspaces /\ Price[o] \in Nat /\ Price[o] > 0
           /\ {Purchase(o), ClawBack(o), Suspension(o)} \subseteq Command
           /\ KeyOf(Purchase(o)) = <<"PURCHASE", o>> /\ KeyOf(ClawBack(o)) = <<"REFUND_CLAWBACK", o>>
           /\ KeyOf(Suspension(o)) = <<"ACCOUNT_SUSPENDED", NoId>>
           /\ Delta(Purchase(o)) = Price[o] /\ Delta(ClawBack(o)) = 0 - Price[o]
           /\ Delta(Suspension(o)) = 0
           /\ Purchase(o).ws = Account[o] /\ ClawBack(o).ws = Account[o] /\ Suspension(o).ws = Account[o]
<1>1. o \in Ids /\ Account[o] \in Workspaces /\ Price[o] \in Nat /\ Price[o] > 0
  BY OrdersAssumption, AccountAssumption, PriceAssumption
<1>2. {Purchase(o), ClawBack(o), Suspension(o)} \subseteq Command
  BY <1>1 DEF Purchase, ClawBack, Suspension, Operation, Command, Types, Credits, Debits, StatusChanges
<1> QED
  BY <1>1, <1>2 DEF Purchase, ClawBack, Suspension, Operation, KeyOf, Delta, Credits, Debits

LEMMA LedgerTypes ==
    /\ L!TypeOK <=> row \in [Workspaces -> Row] /\ ledger \in [Workspaces -> Seq(Line)] /\ recorded \subseteq Key
    /\ L!TypeOK' <=> row' \in [Workspaces -> Row] /\ ledger' \in [Workspaces -> Seq(Line)] /\ recorded' \subseteq Key
  BY DEF L!TypeOK, L!Row, L!Line, L!Key, Row, Line, Key, L!Status, Status, L!Types, Types, L!Credits,
         Credits, L!Debits, Debits, L!StatusChanges, StatusChanges, L!Keyed, Keyed

(* Post moves the balance of its workspace, unless the key is taken, and   *)
(* takes the key if it is one of a keyed operation.                        *)
Moved(c) == IF KeyOf(c) \in recorded THEN 0 ELSE Delta(c)

LEMMA PostEffect ==
    ASSUME L!TypeOK, NEW o \in Orders, NEW c \in {Purchase(o), ClawBack(o), Suspension(o)}, Post(c)
    PROVE  /\ L!TypeOK'
           /\ recorded' = IF c.type \in Keyed THEN recorded \cup {KeyOf(c)} ELSE recorded
           /\ \A w \in Workspaces :
                 row'[w].balance = row[w].balance + (IF w = Account[o] THEN Moved(c) ELSE 0)
<1>1. /\ c \in Command /\ c.ws = Account[o] /\ c.ws \in Workspaces
      /\ c.type \in {"PURCHASE", "REFUND_CLAWBACK", "ACCOUNT_SUSPENDED"}
      /\ c.type \in Keyed => KeyOf(c) \in Key
      /\ c.type \notin Keyed => Delta(c) = 0
  <2>1. CASE c = Purchase(o)
    <3>1. c.type = "PURCHASE" /\ c.type \in Keyed
      BY <2>1 DEF Purchase, Operation, Keyed
    <3> QED
      BY <2>1, <3>1, OperationFacts DEF Key
  <2>2. CASE c = ClawBack(o)
    <3>1. c.type = "REFUND_CLAWBACK" /\ c.type \in Keyed
      BY <2>2 DEF ClawBack, Operation, Keyed
    <3> QED
      BY <2>2, <3>1, OperationFacts DEF Key
  <2>3. CASE c = Suspension(o)
    <3>1. c.type = "ACCOUNT_SUSPENDED" /\ c.type \notin Keyed
      BY <2>3 DEF Suspension, Operation, Keyed
    <3> QED
      BY <2>3, <3>1, OperationFacts
  <2> QED
    BY <2>1, <2>2, <2>3
<1>2. row \in [Workspaces -> Row] /\ ledger \in [Workspaces -> Seq(Line)] /\ recorded \subseteq Key
  BY LedgerTypes
<1>3. CASE UNCHANGED books /\ (KeyOf(c) \in recorded \/ NoChange(row[c.ws], c))
  <2>1. c.type \in Keyed => KeyOf(c) \in recorded
    BY <1>1, <1>3 DEF NoChange, Keyed
  <2>2. Moved(c) = 0
    BY <1>1, <2>1 DEF Moved
  <2>3. row' = row /\ recorded' = recorded /\ ledger' = ledger
    BY <1>3 DEF books
  <2>4. L!TypeOK'
    BY <1>2, <2>3, LedgerTypes
  <2>5. \A w \in Workspaces : row[w].balance \in Int
    BY <1>2 DEF Row
  <2> QED
    BY <2>1, <2>2, <2>3, <2>4, <2>5
<1>4. CASE L!Post(c) /\ KeyOf(c) \notin recorded
  <2>1. PostAgain(c)
    BY <1>4 DEF L!Post, PostAgain, L!KeyOf, L!Posted, L!WithLine, L!WithKey, L!LineOf, L!WritesLine,
       L!Delta, L!Less, L!Credits, L!Debits, L!Keyed, KeyOf, Posted, WithLine, WithKey, LineOf,
       WritesLine, Delta, Less, Credits, Debits, Keyed
  <2>2. row[c.ws] \in Row /\ ledger[c.ws] \in Seq(Line)
    BY <1>1, <1>2
  <2>3. /\ Posted(row[c.ws], c) \in Row /\ LineOf(row[c.ws], c) \in Line
        /\ Posted(row[c.ws], c).balance = row[c.ws].balance + Delta(c)
    <3>1. PICK r \in Row, k \in Command : r = row[c.ws] /\ k = c
      BY <1>1, <2>2
    <3> QED
      BY <3>1, PostedRow
  <2>4. WithLine(ledger[c.ws], row[c.ws], c) \in Seq(Line)
    BY <2>2, <2>3 DEF WithLine
  <2>5. row' \in [Workspaces -> Row] /\ ledger' \in [Workspaces -> Seq(Line)]
    BY <1>1, <1>2, <2>1, <2>3, <2>4 DEF PostAgain
  <2>6. recorded' = (IF c.type \in Keyed THEN recorded \cup {KeyOf(c)} ELSE recorded)
    BY <2>1 DEF PostAgain, WithKey
  <2>7. recorded' \subseteq Key
    BY <1>1, <1>2, <2>6
  <2>8. L!TypeOK'
    BY <2>5, <2>7, LedgerTypes
  <2>9. \A w \in Workspaces :
           row'[w].balance = row[w].balance + (IF w = Account[o] THEN Moved(c) ELSE 0)
    <3> TAKE w \in Workspaces
    <3>1. row[w].balance \in Int
      BY <1>2 DEF Row
    <3>2. Moved(c) = Delta(c)
      BY <1>4 DEF Moved
    <3>3. row'[w] = IF w = c.ws THEN Posted(row[c.ws], c) ELSE row[w]
      BY <1>2, <2>1 DEF PostAgain
    <3> QED
      BY <1>1, <2>3, <3>1, <3>2, <3>3
  <2> QED
    BY <2>6, <2>8, <2>9
<1> QED
  BY <1>3, <1>4 DEF Post

-----------------------------------------------------------------------------
(* Credits follow the money *)

(* A thread at work holds an event.                                        *)
HandsFull == \A t \in Threads : pc[t] # "idle" => ev[t] \in Event

(* A report of payment is about a paid session, wherever it is: recorded,  *)
(* on its way, or at hand.                                                 *)
Reports == events \cup sent \cup {ev[t] : t \in Threads}
PaidMeansPaid ==
    \A e \in Reports : e.kind \in IsPaid => session[e.order].state = "paid"

(* A stale copy never says more than the ledger: lines are only added.     *)
Backed(status, o) ==
    /\ status \in Settled => Credited(o)
    /\ status = "REFUNDED" => ClawedBack(o)
CopiesAreBacked == \A t \in Threads : pc[t] = "begun" => Backed(seen[t].status, ev[t].order)

Inv == TypeOK /\ HandsFull /\ PaidMeansPaid /\ CopiesAreBacked /\ CreditsFollowMoney

(* One order's worth changes, and its workspace's balance with it.         *)
Bought(w) == {o \in Orders : Account[o] = w}

LEMMA BalanceFollows ==
    ASSUME BalanceIsPaidFor, NEW o \in Orders, NEW d \in Int,
           row \in [Workspaces -> Row],
           Worth(o)' = Worth(o) + d,
           \A p \in Orders \ {o} : Worth(p)' = Worth(p),
           \A w \in Workspaces :
               row'[w].balance = row[w].balance + (IF w = Account[o] THEN d ELSE 0)
    PROVE  BalanceIsPaidFor'
<1> DEFINE f == [p \in Orders |-> Worth(p)]
           g == [p \in Orders |-> Worth(p)']
<1>1. \A p \in Orders : f[p] \in Int
  BY OperationFacts DEF Worth
<1>2. \A p \in Orders : g[p] = IF p = o THEN f[o] + d ELSE f[p]
  OBVIOUS
<1>3. \A w \in Workspaces : row[w].balance = SumFunctionOnSet(f, Bought(w))
  BY DEF BalanceIsPaidFor, Bought
<1>4. SUFFICES ASSUME NEW w \in Workspaces
               PROVE  row'[w].balance = SumFunctionOnSet(g, Bought(w))
  BY DEF BalanceIsPaidFor, Bought
<1> HIDE DEF f, g
<1>5. IsFiniteSet(Bought(w)) /\ Bought(w) \subseteq Orders
  BY OrdersAssumption, FS_Subset DEF Bought
<1>6. CASE w = Account[o]
  <2>1. o \in Bought(w)
    BY <1>6 DEF Bought
  <2>2. SumFunctionOnSet(g, Bought(w)) = SumFunctionOnSet(f, Bought(w)) - f[o] + g[o]
        /\ SumFunctionOnSet(f, Bought(w)) \in Int
    BY <1>1, <1>2, <1>5, <2>1, SumChanged
  <2>3. g[o] = f[o] + d
    BY <1>2
  <2> QED
    BY <1>1, <1>3, <1>6, <2>2, <2>3
<1>7. CASE w # Account[o]
  <2>1. \A p \in Bought(w) : f[p] = g[p]
    BY <1>2, <1>5, <1>7 DEF Bought
  <2>2. SumFunctionOnSet(f, Bought(w)) = SumFunctionOnSet(g, Bought(w))
    BY <1>5, <2>1, SumOfEqual
  <2>3. row[w].balance \in Int
    BY DEF Row
  <2> QED
    BY <1>3, <1>7, <2>2, <2>3
<1> QED
  BY <1>6, <1>7

(* What a commit may do to the books for order o of event e.               *)
Quiet == UNCHANGED <<books, grants>>
PostsFor(o, e) ==
    \/ Quiet
    \/ Charged(o) /\ Post(Purchase(o)) /\ grants' = grants \cup {o}
    \/ Credited(o) /\ e = Of("REFUNDED", o) /\ Post(ClawBack(o)) /\ UNCHANGED grants
    \/ Post(Suspension(o)) /\ UNCHANGED grants

LEMMA Keys ==
    ASSUME NEW o \in Orders, NEW p \in Orders
    PROVE  /\ KeyOf(Purchase(o)) = KeyOf(Purchase(p)) <=> o = p
           /\ KeyOf(ClawBack(o)) = KeyOf(ClawBack(p)) <=> o = p
           /\ KeyOf(Purchase(o)) # KeyOf(ClawBack(p))
           /\ Purchase(o).type \in Keyed /\ ClawBack(o).type \in Keyed /\ Suspension(o).type \notin Keyed
<1>1. /\ KeyOf(Purchase(o)) = <<"PURCHASE", o>> /\ KeyOf(Purchase(p)) = <<"PURCHASE", p>>
      /\ KeyOf(ClawBack(o)) = <<"REFUND_CLAWBACK", o>> /\ KeyOf(ClawBack(p)) = <<"REFUND_CLAWBACK", p>>
  BY OperationFacts
<1>2. Purchase(o).type \in Keyed /\ ClawBack(o).type \in Keyed /\ Suspension(o).type \notin Keyed
  BY DEF Purchase, ClawBack, Suspension, Operation, Keyed
<1> QED
  BY <1>1, <1>2

LEMMA LedgerFollows ==
    ASSUME TypeOK, SettledIsCredited, CreditNeedsPayment, BalanceIsPaidFor,
           NEW o \in Orders, NEW e, PostsFor(o, e)
    PROVE  /\ L!TypeOK' /\ grants' \subseteq Orders
           /\ BalanceIsPaidFor'
           /\ \A p \in Orders :
                 /\ Credited(p) => Credited(p)'
                 /\ ClawedBack(p) => ClawedBack(p)'
                 /\ Credited(p)' => Charged(p)
                 /\ Credited(p)' <=> p \in grants'
                 /\ ClawedBack(p)' => Credited(p)' /\ Of("REFUNDED", p) \in events \cup {e}
           /\ Post(Purchase(o)) => Credited(o)'
           /\ Post(ClawBack(o)) => ClawedBack(o)'
<1>1. /\ L!TypeOK /\ row \in [Workspaces -> Row] /\ recorded \subseteq Key /\ grants \subseteq Orders
      /\ \A w \in Workspaces : row[w].balance \in Int
      /\ \A p \in Orders : /\ Credited(p) => Charged(p)
                           /\ Credited(p) <=> p \in grants
                           /\ ClawedBack(p) => Credited(p) /\ Of("REFUNDED", p) \in events
  <2>1. L!TypeOK /\ row \in [Workspaces -> Row] /\ recorded \subseteq Key /\ grants \subseteq Orders
    BY LedgerTypes DEF TypeOK
  <2> QED
    BY <2>1 DEF SettledIsCredited, CreditNeedsPayment, Row
<1>p. Post(Purchase(o)) => Credited(o)'
  <2>1. ASSUME Post(Purchase(o)) PROVE recorded' = recorded \cup {KeyOf(Purchase(o))}
    BY <1>1, <2>1, Keys, PostEffect
  <2> QED
    BY <2>1 DEF Credited
<1>c. Post(ClawBack(o)) => ClawedBack(o)'
  <2>1. ASSUME Post(ClawBack(o)) PROVE recorded' = recorded \cup {KeyOf(ClawBack(o))}
    BY <1>1, <2>1, Keys, PostEffect
  <2> QED
    BY <2>1 DEF ClawedBack
<1>2. CASE Quiet
  <2>1. L!TypeOK' /\ row' = row /\ recorded' = recorded /\ grants' = grants
    BY <1>1, <1>2, LedgerTypes DEF Quiet, books
  <2>2. \A p \in Orders : Credited(p)' = Credited(p) /\ ClawedBack(p)' = ClawedBack(p)
    BY <2>1 DEF Credited, ClawedBack
  <2>w. \A p \in Orders : Worth(p)' = Worth(p) /\ Worth(p) \in Int
    BY <2>2, OperationFacts DEF Worth
  <2>s. Worth(o)' = Worth(o) + 0 /\ \A w \in Workspaces : row'[w].balance = row[w].balance + 0
    BY <1>1, <2>1, <2>w
  <2>3. BalanceIsPaidFor'
    BY <1>1, <2>w, <2>s, BalanceFollows
  <2> QED
    BY <1>1, <1>p, <1>c, <2>1, <2>2, <2>3
<1>3. CASE Charged(o) /\ Post(Purchase(o)) /\ grants' = grants \cup {o}
  <2>1. /\ L!TypeOK' /\ recorded' = recorded \cup {KeyOf(Purchase(o))}
        /\ \A w \in Workspaces :
              row'[w].balance = row[w].balance + (IF w = Account[o] THEN Moved(Purchase(o)) ELSE 0)
    BY <1>1, <1>3, Keys, PostEffect
  <2>2. \A p \in Orders : /\ Credited(p)' <=> Credited(p) \/ p = o
                          /\ ClawedBack(p)' <=> ClawedBack(p)
    BY <2>1, Keys DEF Credited, ClawedBack
  <2>3. Moved(Purchase(o)) = IF Credited(o) THEN 0 ELSE Price[o]
    BY OperationFacts DEF Moved, Credited
  <2>4. Moved(Purchase(o)) \in Int /\ Worth(o)' = Worth(o) + Moved(Purchase(o))
    BY <1>1, <2>2, <2>3, OperationFacts DEF Worth
  <2>5. \A p \in Orders \ {o} : Worth(p)' = Worth(p)
    BY <2>2 DEF Worth
  <2>6. BalanceIsPaidFor'
    BY <1>1, <2>1, <2>4, <2>5, BalanceFollows
  <2> QED
    BY <1>1, <1>3, <1>p, <1>c, <2>1, <2>2, <2>6
<1>4. CASE Credited(o) /\ e = Of("REFUNDED", o) /\ Post(ClawBack(o)) /\ UNCHANGED grants
  <2>1. /\ L!TypeOK' /\ recorded' = recorded \cup {KeyOf(ClawBack(o))}
        /\ \A w \in Workspaces :
              row'[w].balance = row[w].balance + (IF w = Account[o] THEN Moved(ClawBack(o)) ELSE 0)
    BY <1>1, <1>4, Keys, PostEffect
  <2>2. \A p \in Orders : /\ ClawedBack(p)' <=> ClawedBack(p) \/ p = o
                          /\ Credited(p)' <=> Credited(p)
    BY <2>1, Keys DEF Credited, ClawedBack
  <2>3. Moved(ClawBack(o)) = IF ClawedBack(o) THEN 0 ELSE 0 - Price[o]
    BY OperationFacts DEF Moved, ClawedBack
  <2>4. Moved(ClawBack(o)) \in Int /\ Worth(o)' = Worth(o) + Moved(ClawBack(o))
    BY <1>4, <2>2, <2>3, OperationFacts DEF Worth
  <2>5. \A p \in Orders \ {o} : Worth(p)' = Worth(p)
    BY <2>2 DEF Worth
  <2>6. BalanceIsPaidFor'
    BY <1>1, <2>1, <2>4, <2>5, BalanceFollows
  <2> QED
    BY <1>1, <1>4, <1>p, <1>c, <2>1, <2>2, <2>6
<1>5. CASE Post(Suspension(o)) /\ UNCHANGED grants
  <2>1. /\ L!TypeOK' /\ recorded' = recorded
        /\ \A w \in Workspaces :
              row'[w].balance = row[w].balance + (IF w = Account[o] THEN Moved(Suspension(o)) ELSE 0)
    BY <1>1, <1>5, Keys, PostEffect
  <2>2. \A p \in Orders : Credited(p)' = Credited(p) /\ ClawedBack(p)' = ClawedBack(p)
    BY <2>1 DEF Credited, ClawedBack
  <2>3. Moved(Suspension(o)) = 0
    BY OperationFacts DEF Moved
  <2>4. \A p \in Orders : Worth(p)' = Worth(p) /\ Worth(p) \in Int
    BY <2>2, OperationFacts DEF Worth
  <2>5. Worth(o)' = Worth(o) + 0
    BY <2>4
  <2>6. BalanceIsPaidFor'
    BY <1>1, <2>1, <2>3, <2>4, <2>5, BalanceFollows
  <2> QED
    BY <1>1, <1>5, <1>p, <1>c, <2>1, <2>2, <2>6
<1> QED
  BY <1>2, <1>3, <1>4, <1>5 DEF PostsFor

(* Everything else about a commit.                                         *)
LEMMA CommitPreserves ==
    ASSUME Inv, NEW t \in Threads, NEW kinds, CommitEvent(t, kinds),
           NEW e \in Event, ev[t] = e, NEW o \in Orders, o = e.order,
           NEW copy \in OrderRow, order' \in {order, [order EXCEPT ![o] = copy]},
           PostsFor(o, e),
           Backed(copy.status, o)' \/ order' = order,
           e.kind \in IsPaid /\ ~ session[o].wrong => Credited(o)'
    PROVE  Inv'
<1> USE DEF Inv
<1>1. /\ L!TypeOK' /\ grants' \subseteq Orders
      /\ BalanceIsPaidFor'
      /\ \A p \in Orders :
            /\ Credited(p) => Credited(p)'
            /\ ClawedBack(p) => ClawedBack(p)'
            /\ Credited(p)' => Charged(p)
            /\ Credited(p)' <=> p \in grants'
            /\ ClawedBack(p)' => Credited(p)' /\ Of("REFUNDED", p) \in events \cup {e}
  BY LedgerFollows DEF CreditsFollowMoney
<1>2. /\ events' = events \cup {e} /\ session' = session /\ sent' = sent
      /\ pc' = [pc EXCEPT ![t] = "idle"]
      /\ ev' = [ev EXCEPT ![t] = NoEvent]
      /\ seen' = [seen EXCEPT ![t] = NoOrder]
  BY DEF CommitEvent, Finished, stripe
<1>3. TypeOK'
  <2>1. NoOrder \in OrderRow
    BY DEF NoOrder, OrderRow
  <2>2. order' \in [Orders -> OrderRow]
    BY DEF TypeOK
  <2> QED
    BY <1>1, <1>2, <2>1, <2>2 DEF TypeOK
<1>4. HandsFull'
  BY <1>2 DEF HandsFull, TypeOK
<1>5. PaidMeansPaid'
  <2>1. NoEvent.kind \notin IsPaid
    BY DEF NoEvent, IsPaid
  <2>2. Reports' \subseteq Reports \cup {NoEvent}
    BY <1>2 DEF Reports, TypeOK
  <2> QED
    BY <1>2, <2>1, <2>2 DEF PaidMeansPaid
<1>b. \A p \in Orders : \A s : Backed(s, p) => Backed(s, p)'
  BY <1>1 DEF Backed
<1>6. CopiesAreBacked'
  <2> SUFFICES ASSUME NEW s \in Threads, pc'[s] = "begun",
                      NEW status, status = seen'[s].status, NEW p, p = ev'[s].order
               PROVE  Backed(status, p)'
    BY DEF CopiesAreBacked, Backed
  <2>1. s # t /\ pc[s] = "begun" /\ status = seen[s].status /\ ev[s] \in Event /\ p = ev[s].order
    BY <1>2 DEF TypeOK, HandsFull
  <2>2. Backed(status, p) /\ p \in Orders
    BY <2>1 DEF CopiesAreBacked, Event
  <2> QED
    BY <1>b, <2>2
<1>7. SettledIsCredited'
  <2> SUFFICES ASSUME NEW p \in Orders, NEW status, status = order'[p].status
               PROVE  Backed(status, p)'
    BY <1>1, <1>2 DEF SettledIsCredited, Backed, Settled
  <2>1. CASE order'[p] = order[p]
    <3>1. Backed(status, p)
      BY <2>1 DEF CreditsFollowMoney, SettledIsCredited, Backed, Settled
    <3> QED
      BY <1>b, <3>1
  <2>2. CASE p = o /\ order' # order
    <3>1. status = copy.status
      BY <2>2 DEF TypeOK
    <3> QED
      BY <2>2, <3>1
  <2> QED
    BY <2>1, <2>2 DEF TypeOK
<1>8. CreditNeedsPayment'
  BY <1>1, <1>2 DEF CreditNeedsPayment, Charged
<1>9. PaidEventCredits'
  BY <1>1, <1>2 DEF PaidEventCredits, CreditsFollowMoney, TypeOK, Event
<1> QED
  BY <1>1, <1>3, <1>4, <1>5, <1>6, <1>7, <1>8, <1>9 DEF CreditsFollowMoney

-----------------------------------------------------------------------------
(* The steps that commit nothing: the books, their orders' audit rows and  *)
(* the processed events stay, and so does what was said of them.           *)
LEMMA BooksStay ==
    ASSUME Inv, UNCHANGED <<books, grants, events>>
    PROVE  /\ L!TypeOK'
           /\ BalanceIsPaidFor'
           /\ \A p \in Orders : Credited(p)' = Credited(p) /\ ClawedBack(p)' = ClawedBack(p)
           /\ \A p \in Orders : \A s : Backed(s, p) => Backed(s, p)'
<1>1. L!TypeOK'
  BY LedgerTypes DEF Inv, TypeOK, books
<1>2. \A p \in Orders : Credited(p)' = Credited(p) /\ ClawedBack(p)' = ClawedBack(p)
  BY DEF Credited, ClawedBack, books
<1>3. \A p \in Orders : \A s : Backed(s, p) => Backed(s, p)'
  BY <1>2 DEF Backed
<1>4. BalanceIsPaidFor'
  <2> DEFINE f == [p \in Orders |-> Worth(p)]
             g == [p \in Orders |-> Worth(p)']
  <2>1. f = g
    BY <1>2 DEF Worth
  <2>2. row' = row /\ \A w \in Workspaces : row[w].balance = SumFunctionOnSet(f, Bought(w))
    BY DEF Inv, CreditsFollowMoney, BalanceIsPaidFor, Bought, books
  <2>3. SUFFICES \A w \in Workspaces : row'[w].balance = SumFunctionOnSet(g, Bought(w))
    BY DEF BalanceIsPaidFor, Bought
  <2> QED
    BY <2>1, <2>2
<1> QED
  BY <1>1, <1>2, <1>3, <1>4

(* The checkout saves an order that is not settled.                        *)
LEMMA CheckoutSteps ==
    ASSUME Inv, NEW o \in Orders, Start(o) \/ SaveCheckout(o) \/ CheckoutFails(o)
    PROVE  Inv'
<1>1. /\ UNCHANGED <<books, grants, events, stripe, threads>>
      /\ \E s \in {"CREATED", "PENDING", "FAILED"} : order' = [order EXCEPT ![o].status = s]
  BY DEF Start, SaveCheckout, CheckoutFails
<1>2. /\ session' = session /\ sent' = sent /\ events' = events /\ grants' = grants
      /\ pc' = pc /\ ev' = ev /\ seen' = seen
  BY <1>1 DEF stripe, threads
<1>3. PICK s \in {"CREATED", "PENDING", "FAILED"} : order' = [order EXCEPT ![o].status = s]
  BY <1>1
<1>4. /\ order \in [Orders -> OrderRow]
      /\ order' \in [Orders -> OrderRow]
      /\ \A p \in Orders : order'[p].status \in Settled => order'[p].status = order[p].status
  BY <1>3 DEF Inv, TypeOK, OrderRow, PaymentStatus, Terminal, Settled
<1>5. TypeOK'
  BY <1>1, <1>2, <1>4, BooksStay DEF Inv, TypeOK
<1>6. HandsFull' /\ PaidMeansPaid'
  BY <1>2 DEF Inv, HandsFull, PaidMeansPaid, Reports
<1>7. CopiesAreBacked'
  BY <1>1, <1>2, BooksStay DEF Inv, CopiesAreBacked, HandsFull, Event
<1>8. SettledIsCredited'
  BY <1>1, <1>2, <1>4, BooksStay DEF Inv, CreditsFollowMoney, SettledIsCredited, Settled
<1>9. CreditNeedsPayment' /\ PaidEventCredits'
  BY <1>1, <1>2, BooksStay DEF Inv, CreditsFollowMoney, CreditNeedsPayment, PaidEventCredits, Charged, TypeOK, Event
<1> QED
  BY <1>1, <1>5, <1>6, <1>7, <1>8, <1>9, BooksStay DEF Inv, CreditsFollowMoney

(* A session once paid stays paid, and as right or wrong as it was.        *)
LEMMA SessionSteps ==
    ASSUME Inv, NEW o \in Orders,
           \/ CreateCheckout(o) \/ Decline(o) \/ Pay(o) \/ AsyncFails(o) \/ Expire(o)
           \/ Refund(o) \/ Dispute(o)
    PROVE  Inv'
<1>1. /\ UNCHANGED <<books, grants, events, threads>> /\ order' = order
      /\ events' = events /\ grants' = grants /\ pc' = pc /\ ev' = ev /\ seen' = seen
  BY DEF CreateCheckout, Decline, Pay, AsyncFails, Expire, Refund, Dispute, Stripe, threads
<1>2. /\ session' \in [Orders -> Session] /\ sent' \subseteq Event
      /\ \A p \in Orders : session[p].state = "paid" =>
             session'[p].state = "paid" /\ session'[p].wrong = session[p].wrong
      /\ \A e \in sent' \ sent : e.kind \in IsPaid => session'[e.order].state = "paid"
  <2> USE DEF Inv, TypeOK
  <2>1. CASE CreateCheckout(o)
    BY <2>1 DEF CreateCheckout, Session
  <2>2. ASSUME NEW state \in {"open", "paid", "failed", "expired"}, NEW kinds \in SUBSET Webhooks,
               Stripe(o, state, kinds),
               session[o].state = "paid" => state = "paid",
               "PAID" \in kinds => state = "paid"
        PROVE  /\ session' \in [Orders -> Session] /\ sent' \subseteq Event
               /\ \A p \in Orders : session[p].state = "paid" =>
                      session'[p].state = "paid" /\ session'[p].wrong = session[p].wrong
               /\ \A e \in sent' \ sent : e.kind \in IsPaid => session'[e.order].state = "paid"
    <3>1. session' = [session EXCEPT ![o].state = state] /\ sent' = sent \cup {Of(k, o) : k \in kinds}
      BY <2>2 DEF Stripe
    <3>2. /\ session' \in [Orders -> Session]
          /\ \A p \in Orders : session'[p].state = (IF p = o THEN state ELSE session[p].state)
          /\ \A p \in Orders : session'[p].wrong = session[p].wrong
      BY <3>1 DEF Session
    <3>3. \A e \in sent' \ sent : e \in Event /\ e.order = o /\ e.kind \in kinds
      BY <3>1 DEF Of, Event
    <3>4. \A e \in sent' \ sent : e.kind \in IsPaid => session'[e.order].state = "paid"
      BY <2>2, <3>2, <3>3 DEF IsPaid, Webhooks
    <3> QED
      BY <2>2, <3>2, <3>3, <3>4
  <2>3. CASE Decline(o)
    BY <2>2, <2>3 DEF Decline, Webhooks
  <2>4. CASE Pay(o)
    BY <2>2, <2>4 DEF Pay, Webhooks
  <2>5. CASE AsyncFails(o)
    BY <2>2, <2>5 DEF AsyncFails, Webhooks
  <2>6. CASE Expire(o)
    BY <2>2, <2>6 DEF Expire, Webhooks
  <2>7. CASE Refund(o)
    BY <2>2, <2>7 DEF Refund, Webhooks
  <2>8. CASE Dispute(o)
    BY <2>2, <2>8 DEF Dispute, Webhooks
  <2> QED
    BY <2>1, <2>3, <2>4, <2>5, <2>6, <2>7, <2>8
<1>3. TypeOK'
  BY <1>1, <1>2, BooksStay DEF Inv, TypeOK
<1>4. HandsFull' /\ CopiesAreBacked'
  BY <1>1, BooksStay DEF Inv, HandsFull, CopiesAreBacked, Event
<1>5. PaidMeansPaid'
  <2>1. ASSUME NEW e \in Reports, e.kind \in IsPaid PROVE session'[e.order].state = "paid"
    <3>1. e \in Event
      BY <2>1 DEF Reports, Inv, TypeOK, IsPaid, NoEvent
    <3>2. e.order \in Orders /\ session[e.order].state = "paid"
      BY <2>1, <3>1 DEF Inv, PaidMeansPaid, Event
    <3> QED
      BY <1>2, <3>2
  <2>2. Reports' \subseteq Reports \cup (sent' \ sent)
    BY <1>1 DEF Reports
  <2> QED
    BY <1>2, <2>1, <2>2 DEF PaidMeansPaid
<1>6. SettledIsCredited'
  BY <1>1, BooksStay DEF Inv, CreditsFollowMoney, SettledIsCredited
<1>7. CreditNeedsPayment'
  BY <1>1, <1>2, BooksStay DEF Inv, CreditsFollowMoney, CreditNeedsPayment, Charged
<1>8. PaidEventCredits'
  <2> SUFFICES ASSUME NEW e \in events, e.kind \in IsPaid, ~ session'[e.order].wrong
               PROVE  Credited(e.order)'
    BY <1>1 DEF PaidEventCredits
  <2>1. e.order \in Orders /\ session[e.order].state = "paid"
    BY DEF Inv, TypeOK, PaidMeansPaid, Reports, Event
  <2>2. Credited(e.order)
    BY <1>2, <2>1 DEF Inv, CreditsFollowMoney, PaidEventCredits
  <2> QED
    BY <1>1, <2>1, <2>2, BooksStay
<1> QED
  BY <1>1, <1>3, <1>4, <1>5, <1>6, <1>7, <1>8, BooksStay DEF Inv, CreditsFollowMoney

(* A thread takes up an event or drops it: what it holds is typed, a       *)
(* report of payment only of a paid session, a copy only a backed one.     *)
LEMMA ThreadSteps ==
    ASSUME Inv, NEW t \in Threads, UNCHANGED <<books, order, grants, events, stripe>>,
           NEW next \in {"idle", "asked", "begun"}, NEW e \in Event \cup {NoEvent}, NEW copy \in OrderRow,
           pc' = [pc EXCEPT ![t] = next],
           ev' = [ev EXCEPT ![t] = e],
           seen' = [seen EXCEPT ![t] = copy],
           next # "idle" => e \in Event,
           e.kind \in IsPaid => session[e.order].state = "paid",
           next = "begun" => Backed(copy.status, e.order)
    PROVE  Inv'
<1>1. /\ UNCHANGED <<books, grants, events>>
      /\ order' = order /\ events' = events /\ grants' = grants /\ session' = session /\ sent' = sent
  BY DEF stripe
<1>2. TypeOK'
  BY <1>1, BooksStay DEF Inv, TypeOK
<1>3. HandsFull'
  BY DEF Inv, HandsFull, TypeOK
<1>4. PaidMeansPaid'
  <2>1. Reports' \subseteq Reports \cup {e}
    BY <1>1 DEF Inv, TypeOK, Reports
  <2> QED
    BY <1>1, <2>1 DEF Inv, PaidMeansPaid
<1>5. CopiesAreBacked'
  <2> SUFFICES ASSUME NEW s \in Threads, pc'[s] = "begun",
                      NEW status, status = seen'[s].status, NEW p, p = ev'[s].order
               PROVE  Backed(status, p)'
    BY DEF CopiesAreBacked, Backed
  <2>1. Backed(status, p) /\ p \in Orders
    BY DEF Inv, TypeOK, HandsFull, CopiesAreBacked, Event
  <2> QED
    BY <1>1, <2>1, BooksStay
<1>6. SettledIsCredited' /\ CreditNeedsPayment' /\ PaidEventCredits'
  BY <1>1, BooksStay DEF Inv, CreditsFollowMoney, SettledIsCredited, CreditNeedsPayment,
                         PaidEventCredits, Charged, TypeOK, Event
<1> QED
  BY <1>1, <1>2, <1>3, <1>4, <1>5, <1>6, BooksStay DEF Inv, CreditsFollowMoney

LEMMA Reading ==
    ASSUME Inv, NEW t \in Threads,
           \/ \E e \in sent : Deliver(t, e)
           \/ \E o \in Orders : Lookup(t, o)
           \/ BeginLookup(t)
    PROVE  Inv'
<1>1. ASSUME NEW e \in Event, BeginWith(t, e), e \in Reports PROVE Inv'
  <2>1. /\ order \in [Orders -> OrderRow] /\ e.order \in Orders
        /\ Resolve(e) \in OrderRow
        /\ Resolve(e).status \in Settled => Resolve(e).status = order[e.order].status
    BY DEF Inv, TypeOK, Resolve, Event, OrderRow, NoOrder, Settled
  <2>2. Backed(Resolve(e).status, e.order)
    BY <2>1 DEF Inv, CreditsFollowMoney, SettledIsCredited, Backed, Settled
  <2>3. e.kind \in IsPaid => session[e.order].state = "paid"
    BY <1>1 DEF Inv, PaidMeansPaid
  <2> DEFINE copy == Resolve(e)
  <2>4. PICK c \in OrderRow : c = copy
    BY <2>1
  <2>5. /\ UNCHANGED <<books, order, grants, events, stripe>>
        /\ pc' = [pc EXCEPT ![t] = "begun"] /\ ev' = [ev EXCEPT ![t] = e] /\ seen' = [seen EXCEPT ![t] = c]
    BY <1>1, <2>4 DEF BeginWith
  <2> QED
    BY <2>2, <2>3, <2>4, <2>5, ThreadSteps
<1>2. ASSUME NEW e \in sent, Deliver(t, e) PROVE Inv'
  <2>1. e \in Event /\ e \in Reports
    BY DEF Inv, TypeOK, Reports
  <2> QED
    BY <1>1, <1>2, <2>1 DEF Deliver
<1>3. ASSUME BeginLookup(t) PROVE Inv'
  <2>1. PICK e \in Event : e = ev[t]
    BY <1>3 DEF Inv, HandsFull, BeginLookup
  <2>2. e \in Reports /\ BeginWith(t, e)
    BY <1>3, <2>1 DEF Reports, BeginLookup
  <2> QED
    BY <1>1, <2>2
<1>4. ASSUME NEW o \in Orders, Lookup(t, o) PROVE Inv'
  <2>1. PICK k \in {"LOOKUP_PAID", "LOOKUP_EXPIRED"} :
            /\ ev' = [ev EXCEPT ![t] = Of(k, o)]
            /\ k = "LOOKUP_PAID" => session[o].state = "paid"
    BY <1>4 DEF Lookup
  <2>2. PICK c \in OrderRow : c = seen[t]
    BY DEF Inv, TypeOK
  <2>3. /\ UNCHANGED <<books, order, grants, events, stripe>>
        /\ pc' = [pc EXCEPT ![t] = "asked"] /\ seen' = [seen EXCEPT ![t] = c]
    BY <1>4, <2>2 DEF Lookup, Inv, TypeOK
  <2>4. Of(k, o) \in Event /\ Of(k, o).order = o /\ (Of(k, o).kind \in IsPaid => k = "LOOKUP_PAID")
    BY DEF Of, Event, Lookups, IsPaid
  <2> QED
    BY <2>1, <2>3, <2>4, ThreadSteps
<1> QED
  BY <1>2, <1>3, <1>4

LEMMA Dropping ==
    ASSUME Inv, NEW t \in Threads, LookupIsDuplicate(t) \/ EventRecorded(t) \/ Crash(t)
    PROVE  Inv'
<1>1. UNCHANGED <<books, order, grants, events, stripe>> /\ Finished(t)
  BY DEF LookupIsDuplicate, EventRecorded, Crash
<1>2. NoOrder \in OrderRow /\ NoEvent.kind \notin IsPaid
  BY DEF NoOrder, OrderRow, NoEvent, IsPaid
<1> QED
  BY <1>1, <1>2, ThreadSteps DEF Finished

(* Each transaction, by what it saves and posts.                           *)
LEMMA Committing == ASSUME Inv, NEW t \in Threads, Apply(t) PROVE Inv'
<1>1. pc[t] = "begun" /\ ev[t] \in Event /\ ev[t].order \in Orders /\ seen[t] \in OrderRow
  <2>1. pc[t] = "begun"
    BY DEF Apply, MatchNothing, PaidAgain, RejectPayment, Settle, Close, NoteFailedAttempt,
           IgnoreRefund, NotePartialRefund, TakeBack, SuspendWorkspace, CommitEvent
  <2> QED
    BY <2>1 DEF Inv, HandsFull, TypeOK, Event
<1>2. PICK e \in Event : e = ev[t]
  BY <1>1
<1>3. PICK o \in Orders : o = e.order
  BY <1>1, <1>2
<1>4. PICK copy \in OrderRow : copy = seen[t]
  BY <1>1
<1>5. Backed(copy.status, o)
  BY <1>1, <1>2, <1>3, <1>4 DEF Inv, CopiesAreBacked
<1>6. ASSUME Quiet PROVE PostsFor(o, e) /\ \A s : Backed(s, o) => Backed(s, o)'
  BY <1>6 DEF PostsFor, Quiet, Backed, Credited, ClawedBack, books
(* A transaction that posts nothing and saves what it read, or nothing.    *)
<1>7. ASSUME NEW kinds, CommitEvent(t, kinds), Quiet,
             NEW new \in OrderRow, new.status = copy.status \/ new.status \notin Settled,
             order' \in {order, [order EXCEPT ![o] = new]},
             e.kind \in IsPaid /\ ~ session[o].wrong => Credited(o)
      PROVE  Inv'
  <2>1. Backed(new.status, o)'
    BY <1>5, <1>6, <1>7 DEF Backed, Settled
  <2>2. Credited(o) => Credited(o)'
    BY <1>7 DEF Quiet, Credited, books
  <2> QED
    BY <1>2, <1>3, <1>6, <1>7, <2>1, <2>2, CommitPreserves
<1>8. ASSUME MatchNothing(t) PROVE Inv'
  BY <1>2, <1>4, <1>7, <1>8 DEF MatchNothing, Quiet, CommitEvent, IsPaid
<1>9. ASSUME PaidAgain(t) PROVE Inv'
  <2>1. Credited(o)
    BY <1>4, <1>5, <1>9 DEF PaidAgain, AlreadySettled, Backed, Settled
  <2> QED
    BY <1>7, <1>9, <2>1 DEF PaidAgain, Quiet
<1>10. ASSUME RejectPayment(t) PROVE Inv'
  BY <1>2, <1>3, <1>4, <1>7, <1>10 DEF RejectPayment, Mismatch, Save, Quiet
<1>11. ASSUME Close(t) PROVE Inv'
  <2>1. CASE order' = order
    BY <1>2, <1>4, <1>7, <1>11, <2>1 DEF Close, Quiet, CommitEvent, IsPaid, IsExpired
  <2>2. CASE Save(t, [seen[t] EXCEPT !.status = ClosedAs(ev[t].kind)])
    <3> DEFINE new == [copy EXCEPT !.status = ClosedAs(e.kind)]
    <3>1. new \in OrderRow /\ new.status \notin Settled
      BY DEF OrderRow, ClosedAs, PaymentStatus, Terminal, Settled
    <3>2. order' = [order EXCEPT ![o] = new]
      BY <1>2, <1>3, <1>4, <2>2 DEF Save
    <3>3. e.kind \notin IsPaid
      BY <1>2, <1>11 DEF Close, CommitEvent, IsPaid, IsExpired
    <3> HIDE DEF new
    <3> QED
      BY <1>7, <1>11, <3>1, <3>2, <3>3 DEF Close, Quiet
  <2> QED
    BY <1>11, <2>1, <2>2 DEF Close
<1>12. ASSUME NoteFailedAttempt(t) PROVE Inv'
  BY <1>2, <1>3, <1>4, <1>7, <1>12 DEF NoteFailedAttempt, Save, Quiet, CommitEvent, IsPaid
<1>13. ASSUME IgnoreRefund(t) PROVE Inv'
  BY <1>2, <1>4, <1>7, <1>13 DEF IgnoreRefund, Quiet, CommitEvent, IsPaid
<1>14. ASSUME NotePartialRefund(t) PROVE Inv'
  BY <1>2, <1>3, <1>4, <1>7, <1>14 DEF NotePartialRefund, Save, Quiet, CommitEvent, IsPaid
<1>15. ASSUME Settle(t) PROVE Inv'
  <2> DEFINE new == [status |-> "SUCCEEDED", payRef |-> TRUE]
  <2>1. new \in OrderRow
    BY DEF OrderRow, PaymentStatus, Terminal
  <2>2. CommitEvent(t, IsPaid) /\ order' = [order EXCEPT ![o] = new]
    BY <1>2, <1>3, <1>15 DEF Settle, Save
  <2>3. Charged(o)
    BY <1>2, <1>3, <1>15 DEF Settle, Mismatch, Charged, CommitEvent, Inv, PaidMeansPaid, Reports
  <2>4. PostsFor(o, e) /\ Post(Purchase(o))
    BY <1>2, <1>3, <1>15, <2>3 DEF Settle, PostsFor
  <2>5. Credited(o)'
    BY <2>4, LedgerFollows DEF Inv, CreditsFollowMoney
  <2>6. Backed(new.status, o)'
    BY <2>5 DEF Backed
  <2> HIDE DEF new
  <2> QED
    BY <1>2, <1>3, <2>1, <2>2, <2>4, <2>5, <2>6, CommitPreserves
<1>16. ASSUME TakeBack(t) PROVE Inv'
  <2> DEFINE new == [copy EXCEPT !.status = "REFUNDED"]
  <2>1. new \in OrderRow /\ new.status = "REFUNDED"
    BY DEF OrderRow, PaymentStatus, Terminal
  <2>2. CommitEvent(t, {"REFUNDED"}) /\ order' = [order EXCEPT ![o] = new] /\ e = Of("REFUNDED", o)
    BY <1>2, <1>3, <1>4, <1>16 DEF TakeBack, Save, CommitEvent, Event, Of
  <2>3. Credited(o)
    BY <1>4, <1>5, <1>16 DEF TakeBack, Refundable, Backed, Settled
  <2>4. PostsFor(o, e) /\ Post(ClawBack(o))
    BY <1>2, <1>3, <1>16, <2>2, <2>3 DEF TakeBack, PostsFor
  <2>5. Credited(o)' /\ ClawedBack(o)'
    BY <2>3, <2>4, LedgerFollows DEF Inv, CreditsFollowMoney
  <2>6. Backed(new.status, o)'
    BY <2>5 DEF Backed
  <2> HIDE DEF new
  <2> QED
    BY <1>2, <1>3, <2>1, <2>2, <2>4, <2>5, <2>6, CommitPreserves
<1>17. ASSUME SuspendWorkspace(t) PROVE Inv'
  <2>1. CommitEvent(t, {"DISPUTED"}) /\ order' = [order EXCEPT ![o] = copy] /\ e.kind \notin IsPaid
    BY <1>2, <1>3, <1>4, <1>17 DEF SuspendWorkspace, Save, CommitEvent, IsPaid
  <2>2. PostsFor(o, e)
    BY <1>2, <1>3, <1>17 DEF SuspendWorkspace, PostsFor
  <2>3. \A p \in Orders : (Credited(p) => Credited(p)') /\ (ClawedBack(p) => ClawedBack(p)')
    BY <2>2, LedgerFollows DEF Inv, CreditsFollowMoney
  <2>4. Backed(copy.status, o)'
    BY <1>5, <2>3 DEF Backed
  <2> QED
    BY <1>2, <1>3, <2>1, <2>2, <2>4, CommitPreserves
<1> QED
  BY <1>8, <1>9, <1>10, <1>11, <1>12, <1>13, <1>14, <1>15, <1>16, <1>17 DEF Apply

-----------------------------------------------------------------------------
LEMMA Initially == Init => Inv
<1> SUFFICES ASSUME Init PROVE Inv
  OBVIOUS
<1>1. /\ row = [w \in Workspaces |-> EmptyRow] /\ ledger = [w \in Workspaces |-> << >>] /\ recorded = {}
      /\ order = [o \in Orders |-> NoOrder] /\ grants = {} /\ events = {} /\ sent = {}
      /\ session = [o \in Orders |-> [state |-> "none", wrong |-> FALSE]]
      /\ pc = [t \in Threads |-> "idle"] /\ ev = [t \in Threads |-> NoEvent]
      /\ seen = [t \in Threads |-> NoOrder]
  BY DEF Init, L!Init, L!EmptyRow, EmptyRow
<1>2. EmptyRow \in Row /\ NoOrder \in OrderRow /\ EmptyRow.balance = 0 /\ NoOrder.status \notin Settled
  BY DEF EmptyRow, Row, Status, NoOrder, OrderRow, PaymentStatus, Settled
<1>3. TypeOK
  BY <1>1, <1>2, LedgerTypes DEF TypeOK, Session
<1>4. HandsFull /\ PaidMeansPaid /\ CopiesAreBacked
  BY <1>1 DEF HandsFull, PaidMeansPaid, CopiesAreBacked, Reports, NoEvent, IsPaid
<1>5. \A p \in Orders : ~ Credited(p) /\ ~ ClawedBack(p)
  BY <1>1 DEF Credited, ClawedBack
<1>6. PaidEventCredits /\ CreditNeedsPayment /\ SettledIsCredited
  BY <1>1, <1>2, <1>5 DEF PaidEventCredits, CreditNeedsPayment, SettledIsCredited, Settled
<1>7. BalanceIsPaidFor
  <2> DEFINE f == [o \in Orders |-> Worth(o)]
  <2>1. \A o \in Orders : f[o] = 0
    BY <1>5 DEF Worth
  <2> SUFFICES ASSUME NEW w \in Workspaces PROVE row[w].balance = SumFunctionOnSet(f, Bought(w))
    BY DEF BalanceIsPaidFor, Bought
  <2>2. IsFiniteSet(Bought(w)) /\ Bought(w) \subseteq Orders
    BY OrdersAssumption, FS_Subset DEF Bought
  <2> HIDE DEF f
  <2> QED
    BY <1>1, <1>2, <2>1, <2>2, SumOfZeros
<1> QED
  BY <1>3, <1>4, <1>6, <1>7 DEF Inv, CreditsFollowMoney

LEMMA Inductive == Inv /\ [Next]_vars => Inv'
<1> SUFFICES ASSUME Inv, [Next]_vars PROVE Inv'
  OBVIOUS
<1>1. CASE UNCHANGED vars
  <2>1. /\ UNCHANGED <<books, grants, events>>
        /\ order' = order /\ events' = events /\ grants' = grants /\ session' = session /\ sent' = sent
        /\ pc' = pc /\ ev' = ev /\ seen' = seen
    BY <1>1 DEF vars, stripe, threads
  <2>2. TypeOK'
    BY <2>1, BooksStay DEF Inv, TypeOK
  <2>3. HandsFull' /\ PaidMeansPaid'
    BY <2>1 DEF Inv, HandsFull, PaidMeansPaid, Reports
  <2>4. CopiesAreBacked'
    BY <2>1, BooksStay DEF Inv, CopiesAreBacked, HandsFull, Event
  <2>5. SettledIsCredited' /\ CreditNeedsPayment' /\ PaidEventCredits'
    BY <2>1, BooksStay DEF Inv, CreditsFollowMoney, SettledIsCredited, CreditNeedsPayment,
                           PaidEventCredits, Charged, TypeOK, Event
  <2> QED
    BY <2>1, <2>2, <2>3, <2>4, <2>5, BooksStay DEF Inv, CreditsFollowMoney
<1>2. ASSUME NEW o \in Orders,
             \/ Start(o) \/ CreateCheckout(o) \/ SaveCheckout(o) \/ CheckoutFails(o)
             \/ Decline(o) \/ Pay(o) \/ AsyncFails(o) \/ Expire(o) \/ Refund(o) \/ Dispute(o)
      PROVE  Inv'
  BY <1>2, CheckoutSteps, SessionSteps
<1>3. ASSUME NEW t \in Threads,
             \/ \E e \in sent : Deliver(t, e)
             \/ \E o \in Orders : Lookup(t, o)
             \/ BeginLookup(t) \/ LookupIsDuplicate(t) \/ Apply(t) \/ EventRecorded(t) \/ Crash(t)
      PROVE  Inv'
  BY <1>3, Reading, Dropping, Committing
<1> QED
  BY <1>1, <1>2, <1>3 DEF Next

THEOREM InvHolds == Spec => []Inv
  BY Initially, Inductive, PTL DEF Spec

(* The tables, the events and the threads' copies keep their types.        *)
THEOREM TypeCorrect == Spec => []TypeOK
<1>1. Inv => TypeOK
  BY DEF Inv
<1> QED
  BY <1>1, InvHolds, PTL

(* Every report of payment credits its order, credits come only from a     *)
(* payment, an order that says settled has its ledger lines, and a balance *)
(* is the price of the orders paid for and not refunded, each once.        *)
THEOREM MoneyIsFollowed == Spec => []CreditsFollowMoney
<1>1. Inv => CreditsFollowMoney
  BY DEF Inv
<1> QED
  BY <1>1, InvHolds, PTL

-----------------------------------------------------------------------------
(* Usage: the invariant *)

(* What is said of a charge, anywhere, is said under its first key.        *)
FirstBody == {BodyOf(c) : c \in Charges}
Reported == [body : FirstBody, attempts : Attempts]

ServiceInv ==
    /\ step \in [Charges -> Steps]
    /\ pending \in Seq(Reported)
    /\ phase \in [Drainers -> {"idle", "draining", "returning"}]
    /\ hand \in [Drainers -> Reported \cup {NoEntry}]
    /\ requeue \in [Drainers -> Seq(Reported)]
    /\ gone \subseteq Charges

(* A line stands for the charge's key, and only for that.                  *)
BillingInv ==
    /\ late \subseteq FirstBody
    /\ keys \subseteq FirstBody
    /\ lines \in [Charges -> Nat]
    /\ \A c \in Charges : lines[c] = IF BodyOf(c) \in keys THEN 1 ELSE 0

ChargeInv == ServiceInv /\ BillingInv

-----------------------------------------------------------------------------
(* Entries *)

LEMMA FirstBodies ==
    /\ FirstBody \subseteq Body
    /\ \A c \in Charges : BodyOf(c) \in FirstBody
    /\ \A b \in FirstBody : b.charge \in Charges /\ b = BodyOf(b.charge)
    /\ \A c, d \in Charges : BodyOf(c) = BodyOf(d) => c = d
  BY DEF FirstBody, BodyOf, Body

LEMMA ReportedEntries ==
    /\ Reported \subseteq Entry
    /\ NoEntry \notin Entry
    /\ \A e \in Reported : e.body \in FirstBody /\ e.attempts \in Attempts
<1>1. Reported \subseteq Entry
  BY FirstBodies DEF Reported, Entry
<1>2. NoEntry \notin Entry
  BY DEF NoEntry, Entry, Attempts
<1> QED
  BY <1>1, <1>2 DEF Reported

(* A fresh entry, and one sent in vain that has attempts left.             *)
LEMMA FreshEntry ==
    ASSUME NEW c \in Charges
    PROVE  [body |-> BodyOf(c), attempts |-> 1] \in Reported
  BY FirstBodies, MaxAttemptsAssumption DEF Reported, Attempts

LEMMA RetriedEntry ==
    ASSUME NEW e \in Reported, ~ (Retried(e).attempts >= MaxAttempts)
    PROVE  Retried(e) \in Reported /\ Retried(e).body = e.body
  BY MaxAttemptsAssumption, ReportedEntries DEF Reported, Attempts, Retried

-----------------------------------------------------------------------------
(* The steps: what billing makes of a body, and what the services do *)

(* Whatever becomes of a request, its charge has no second line, and no    *)
(* line goes away; an accepted one is charged.                             *)
LinesStay ==
    /\ BillingInv'
    /\ \A c \in Charges : lines[c] > 0 => lines'[c] > 0

LEMMA ChargeRecorded ==
    ASSUME BillingInv, NEW b \in FirstBody, Record(b), late' \subseteq FirstBody
    PROVE  LinesStay /\ lines'[b.charge] > 0
<1> USE DEF BillingInv
<1>1. keys' = keys \cup {b} /\ b.charge \in Charges /\ b = BodyOf(b.charge)
  BY FirstBodies DEF Record
<1>2. lines' = [lines EXCEPT ![b.charge] = IF b \in keys THEN @ ELSE @ + 1]
  BY DEF Record
<1>3. lines' \in [Charges -> Nat] /\ keys' \subseteq FirstBody
  BY <1>1, <1>2
<1>4. ASSUME NEW c \in Charges PROVE lines'[c] = IF BodyOf(c) \in keys' THEN 1 ELSE 0
  <2>1. CASE c = b.charge
    BY <1>1, <1>2, <2>1
  <2>2. CASE c # b.charge
    <3>1. BodyOf(c) # b
      BY <1>1, <2>2, FirstBodies
    <3> QED
      BY <1>1, <1>2, <2>2, <3>1
  <2> QED
    BY <2>1, <2>2
<1>5. \A c \in Charges : lines[c] > 0 => lines'[c] > 0
  BY <1>1, <1>4
<1> QED
  BY <1>1, <1>3, <1>4, <1>5 DEF LinesStay

LEMMA ReportPosted ==
    ASSUME BillingInv, NEW b \in FirstBody
    PROVE  /\ Accepted(b) => LinesStay /\ lines'[b.charge] > 0
           /\ RefusedReport(b) \/ Busy(b) \/ Unanswered(b) \/ UNCHANGED <<billing, late>> => LinesStay
<1>1. Accepted(b) => LinesStay /\ lines'[b.charge] > 0
  BY ChargeRecorded DEF Accepted, BillingInv
<1>2. RefusedReport(b) \/ Busy(b) \/ Unanswered(b) \/ UNCHANGED <<billing, late>> => LinesStay
  BY DEF RefusedReport, Busy, Unanswered, LinesStay, BillingInv, billing
<1> QED
  BY <1>1, <1>2

(* A charge is still known.                                                *)
Known(c) == lines[c] > 0 \/ c \in gone \/ Waits(c)

(* A step keeps to the invariant, and no charge gets lost in it: what was  *)
(* known stays known, and a charge the step is done with is known.         *)
Keeps ==
    /\ ChargeInv'
    /\ \A c \in Charges : Known(c) \/ (step[c] # "done" /\ step'[c] = "done") => Known(c)'

InHand(d) == ToSet(requeue[d]) \cup ({hand[d]} \ {NoEntry})

LEMMA WaitsByEntry ==
    ASSUME NEW c
    PROVE  Waits(c) <=>
               \E e : e.body.charge = c /\ (e \in ToSet(pending) \/ \E d \in Drainers : e \in InHand(d))
  BY DEF Waits, Held, InHand

(* A step of charge() for one charge.                                      *)
LEMMA ChargeStep ==
    ASSUME ChargeInv, NEW c \in Charges, NEW s \in Steps, Goto(c, s),
           UNCHANGED <<phase, hand, requeue>>,
           pending' \in Seq(Reported), ToSet(pending) \subseteq ToSet(pending'),
           gone \subseteq gone', gone' \subseteq Charges, LinesStay,
           s = "done" => Known(c)'
    PROVE  Keeps
<1>1. ServiceInv'
  BY DEF ChargeInv, ServiceInv, Goto
<1>2. ASSUME NEW x \in Charges, Waits(x) PROVE Waits(x)'
  BY <1>2 DEF Waits, Held
<1>3. \A x \in Charges : Known(x) => Known(x)'
  BY <1>2 DEF Known, LinesStay
<1>4. \A x \in Charges : step[x] # "done" /\ step'[x] = "done" => x = c /\ s = "done"
  BY DEF Goto, ChargeInv, ServiceInv
<1> QED
  BY <1>1, <1>3, <1>4 DEF Keeps, ChargeInv, LinesStay

(* A step of a retrier's pass: each entry it could reach is still there  *)
(* or its charge is settled.                                               *)
IsSettled(c) == c \in gone \/ lines[c] > 0
Reaches(d, c) == \E e \in ToSet(pending) \cup InHand(d) : e.body.charge = c

LEMMA DrainStep ==
    ASSUME ChargeInv, NEW d \in Drainers, UNCHANGED step, ServiceInv', LinesStay, gone \subseteq gone',
           \A x \in Drainers \ {d} : hand'[x] = hand[x] /\ requeue'[x] = requeue[x],
           \A c \in Charges : Reaches(d, c) => Reaches(d, c)' \/ IsSettled(c)'
    PROVE  Keeps
<1>1. ASSUME NEW c \in Charges, Waits(c) PROVE Waits(c)' \/ IsSettled(c)'
  <2>1. PICK e : e.body.charge = c /\ (e \in ToSet(pending) \/ \E x \in Drainers : e \in InHand(x))
    BY <1>1, WaitsByEntry
  <2>2. CASE e \in ToSet(pending) \cup InHand(d)
    <3>1. Reaches(d, c)' \/ IsSettled(c)'
      BY <2>1, <2>2 DEF Reaches
    <3> QED
      BY <3>1 DEF Reaches, Waits, Held, InHand
  <2>3. CASE \E x \in Drainers \ {d} : e \in InHand(x)
    <3>1. PICK x \in Drainers \ {d} : e \in InHand(x)
      BY <2>3
    <3>2. e \in InHand(x)'
      BY <3>1 DEF InHand
    <3> QED
      BY <2>1, <3>2 DEF Waits, Held, InHand
  <2> QED
    BY <2>1, <2>2, <2>3
<1>2. \A c \in Charges : Known(c) => Known(c)'
  BY <1>1 DEF Known, IsSettled, LinesStay
<1> QED
  BY <1>2 DEF Keeps, ChargeInv, LinesStay

-----------------------------------------------------------------------------
(* charge() *)

LEMMA ChargeKeeps ==
    ASSUME ChargeInv, NEW c \in Charges,
           \/ Report(c) \/ ChargeSettled(c) \/ ChargeUnsettled(c)
           \/ Measure(c) \/ Push(c) \/ QueueFails(c) \/ ChargeKilled(c)
    PROVE  Keeps
<1> USE FirstBodies
<1>0. /\ pending \in Seq(Reported) /\ gone \subseteq Charges /\ BillingInv
      /\ BodyOf(c) \in FirstBody /\ BodyOf(c).charge = c
      /\ UNCHANGED <<billing, late>> => LinesStay
  BY ReportPosted DEF ChargeInv, ServiceInv, BodyOf
<1>1. CASE Report(c)
  BY <1>0, <1>1, ChargeStep DEF Report, Steps
<1>2. CASE ChargeSettled(c)
  <2>1. LinesStay /\ (lines'[c] > 0 \/ c \in gone') /\ gone \subseteq gone' /\ gone' \subseteq Charges
    BY <1>0, <1>2, ReportPosted DEF ChargeSettled, Forget
  <2> QED
    BY <1>0, <1>2, <2>1, ChargeStep DEF ChargeSettled, Steps, Known
<1>3. CASE ChargeUnsettled(c)
  <2>1. LinesStay
    BY <1>0, <1>3, ReportPosted DEF ChargeUnsettled
  <2> QED
    BY <1>0, <1>3, <2>1, ChargeStep DEF ChargeUnsettled, Steps
<1>4. CASE Measure(c)
  <2>1. CASE Len(pending) >= PendingMax
    BY <1>0, <1>4, <2>1, ChargeStep DEF Measure, Forget, Steps, Known
  <2>2. CASE ~ (Len(pending) >= PendingMax)
    BY <1>0, <1>4, <2>2, ChargeStep DEF Measure, Steps
  <2> QED
    BY <2>1, <2>2
<1> DEFINE fresh == [body |-> BodyOf(c), attempts |-> 1]
<1>5. Pushed(c) => /\ pending' \in Seq(Reported) /\ ToSet(pending) \subseteq ToSet(pending')
                   /\ fresh \in ToSet(pending')
  <2> HIDE DEF fresh
  <2>1. fresh \in Reported
    BY FreshEntry DEF fresh
  <2> QED
    BY <1>0, <2>1, Prepended DEF Pushed, fresh
<1>6. CASE Push(c)
  <2>1. Waits(c)'
    BY <1>0, <1>5, <1>6 DEF Push, Waits
  <2> QED
    BY <1>0, <1>5, <1>6, <2>1, ChargeStep DEF Push, Steps, Known
<1>7. CASE QueueFails(c)
  <2>1. pending' \in Seq(Reported) /\ ToSet(pending) \subseteq ToSet(pending')
    BY <1>0, <1>5, <1>7 DEF QueueFails
  <2> QED
    BY <1>0, <1>7, <2>1, ChargeStep DEF QueueFails, Forget, Steps, Known
<1>8. CASE ChargeKilled(c)
  <2>1. LinesStay
    BY <1>0, <1>8, ReportPosted DEF ChargeKilled
  <2> QED
    BY <1>0, <1>8, <2>1, ChargeStep DEF ChargeKilled, Forget, Steps, Known
<1> QED
  BY <1>1, <1>2, <1>3, <1>4, <1>6, <1>7, <1>8

-----------------------------------------------------------------------------
(* drain_pending *)

LEMMA DrainKeeps ==
    ASSUME ChargeInv, NEW d \in Drainers,
           \/ Take(d) \/ TakeFails(d) \/ StopPass(d) \/ Answer(d) \/ Cancel(d)
           \/ PutBack(d) \/ PutBackFails(d) \/ EndPass(d) \/ Kill(d)
    PROVE  Keeps
<1>0. /\ pending \in Seq(Reported) /\ hand \in [Drainers -> Reported \cup {NoEntry}]
      /\ requeue \in [Drainers -> Seq(Reported)] /\ requeue[d] \in Seq(Reported)
      /\ phase \in [Drainers -> {"idle", "draining", "returning"}]
      /\ step \in [Charges -> Steps] /\ gone \subseteq Charges /\ BillingInv
      /\ UNCHANGED <<billing, late>> => LinesStay
  BY DEF ChargeInv, ServiceInv, BillingInv, LinesStay, billing
<1>1. \A e \in Reported : e.body \in FirstBody /\ e.body.charge \in Charges /\ e # NoEntry
  BY FirstBodies, ReportedEntries
<1>2. pending # <<>> => /\ Last(pending) \in Reported /\ Front(pending) \in Seq(Reported)
                        /\ ToSet(pending) = ToSet(Front(pending)) \cup {Last(pending)}
  BY <1>0, LastAndFront
<1>3. requeue[d] # <<>> => /\ Last(requeue[d]) \in Reported /\ Front(requeue[d]) \in Seq(Reported)
                           /\ ToSet(requeue[d]) = ToSet(Front(requeue[d])) \cup {Last(requeue[d])}
  BY <1>0, LastAndFront
<1>4. hand[d] # NoEntry => hand[d] \in Reported
  BY <1>0
<1>5. \A e \in Reported :
          /\ Kept(d, e) \in [Drainers -> Seq(Reported)]
          /\ ToSet(Kept(d, e)[d]) = ToSet(requeue[d]) \cup {e}
          /\ \A x \in Drainers \ {d} : Kept(d, e)[x] = requeue[x]
  <2> TAKE e \in Reported
  <2>1. Append(requeue[d], e) \in Seq(Reported) /\ ToSet(Append(requeue[d], e)) = ToSet(requeue[d]) \cup {e}
    BY <1>0, Appended
  <2> QED
    BY <1>0, <2>1 DEF Kept
<1>6. CASE Take(d)
  <2>1. ServiceInv'
    BY <1>0, <1>2, <1>6 DEF Take, Hold, Enter, ServiceInv
  <2>2. \A e \in ToSet(pending) \cup InHand(d) : e \in ToSet(pending') \cup InHand(d)'
    BY <1>0, <1>1, <1>2, <1>6 DEF Take, Hold, InHand
  <2> QED
    BY <1>0, <1>6, <2>1, <2>2, DrainStep DEF Take, Hold, Reaches
<1>7. CASE TakeFails(d)
  <2>1. ServiceInv'
    BY <1>0, <1>1, <1>2, <1>7 DEF TakeFails, Forget, Enter, ServiceInv
  <2>2. \A e \in ToSet(pending) \cup InHand(d) :
            e \in ToSet(pending') \cup InHand(d)' \/ e.body.charge \in gone'
    BY <1>2, <1>7 DEF TakeFails, Forget, InHand
  <2> QED
    BY <1>0, <1>7, <2>1, <2>2, DrainStep DEF TakeFails, Forget, IsSettled, Reaches
<1>8. CASE StopPass(d) \/ EndPass(d)
  <2>1. ServiceInv'
    BY <1>0, <1>8 DEF StopPass, EndPass, Enter, ServiceInv
  <2>2. InHand(d)' = InHand(d)
    BY <1>8 DEF StopPass, EndPass, InHand
  <2> QED
    BY <1>0, <1>8, <2>1, <2>2, DrainStep DEF StopPass, EndPass, Reaches
(* What it holds is answered, given up or kept under its charge.           *)
<1>9. CASE Sent(d) \/ GiveUp(d)
  <2>0. PICK h \in Reported : h = hand[d]
    BY <1>4, <1>9 DEF Sent, GiveUp
  <2>1. LinesStay /\ IsSettled(h.body.charge)' /\ gone \subseteq gone' /\ gone' \subseteq Charges
    <3>1. h.body \in FirstBody /\ h.body.charge \in Charges
      BY <1>1
    <3>2. CASE Sent(d)
      BY <1>0, <2>0, <3>1, <3>2, ReportPosted DEF Sent, Forget, IsSettled
    <3>3. CASE GiveUp(d)
      BY <1>0, <2>0, <3>1, <3>3, ReportPosted DEF GiveUp, Forget, IsSettled
    <3> QED
      BY <1>9, <3>2, <3>3
  <2>2. ServiceInv'
    BY <1>0, <1>9, <2>1 DEF Sent, GiveUp, Hold, ServiceInv
  <2>3. \A e \in InHand(d) : e \in InHand(d)' \/ e = h
    BY <1>9, <2>0 DEF Sent, GiveUp, InHand, Hold
  <2>4. ASSUME NEW c \in Charges, Reaches(d, c) PROVE Reaches(d, c)' \/ IsSettled(c)'
    BY <1>9, <2>1, <2>3, <2>4 DEF Sent, GiveUp, Reaches
  <2> QED
    BY <1>0, <1>9, <2>1, <2>2, <2>4, DrainStep DEF Sent, GiveUp, Hold
<1>10. CASE KeepForLater(d) \/ Unreachable(d) \/ Cancel(d)
  <2>1. PICK k \in Reported : requeue' = Kept(d, k) /\ k.body = hand[d].body
    <3>1. ~ OutOfAttempts(d) => Retried(hand[d]) \in Reported /\ Retried(hand[d]).body = hand[d].body
      BY <1>4, <1>10, RetriedEntry DEF KeepForLater, Unreachable, Cancel, OutOfAttempts
    <3> QED
      BY <1>4, <1>10, <3>1 DEF KeepForLater, Unreachable, Cancel
  <2>2. LinesStay /\ gone' = gone
    BY <1>0, <1>1, <1>4, <1>10, ReportPosted DEF KeepForLater, Unreachable, Cancel
  <2>3. ServiceInv'
    BY <1>0, <1>5, <1>10, <2>1, <2>2 DEF KeepForLater, Unreachable, Cancel, Hold, Enter, ServiceInv
  <2>4. InHand(d)' = ToSet(requeue[d]) \cup {k}
    BY <1>0, <1>5, <1>10, <2>1 DEF InHand, KeepForLater, Unreachable, Cancel, Hold
  <2>5. ASSUME NEW c \in Charges, Reaches(d, c) PROVE Reaches(d, c)'
    <3>1. PICK e \in ToSet(pending) \cup InHand(d) : e.body.charge = c
      BY <2>5 DEF Reaches
    <3>2. CASE e = hand[d]
      BY <2>1, <2>4, <3>1, <3>2 DEF Reaches
    <3>3. CASE e # hand[d]
      BY <1>10, <2>4, <3>1, <3>3 DEF Reaches, InHand, KeepForLater, Unreachable, Cancel
    <3> QED
      BY <3>2, <3>3
  <2>6. \A x \in Drainers \ {d} : hand'[x] = hand[x] /\ requeue'[x] = requeue[x]
    BY <1>0, <1>5, <1>10, <2>1 DEF KeepForLater, Unreachable, Cancel, Hold
  <2> QED
    BY <1>10, <2>2, <2>3, <2>5, <2>6, DrainStep DEF KeepForLater, Unreachable, Cancel
<1>11. CASE PutBack(d) \/ PutBackFails(d)
  <2> DEFINE e == Last(requeue[d])
  <2>0. requeue[d] # <<>> /\ e \in Reported
    BY <1>3, <1>11 DEF PutBack, PutBackFails
  <2>1. Append(pending, e) \in Seq(Reported) /\ ToSet(Append(pending, e)) = ToSet(pending) \cup {e}
    BY <1>0, <2>0, Appended
  <2> HIDE DEF e
  <2>2. requeue' = [requeue EXCEPT ![d] = Front(@)] /\ hand' = hand
    BY <1>11 DEF PutBack, PutBackFails
  <2>3. /\ pending' \in Seq(Reported) /\ ToSet(pending) \subseteq ToSet(pending')
        /\ e \in ToSet(pending') \/ e.body.charge \in gone'
        /\ gone \subseteq gone' /\ gone' \subseteq Charges
    BY <1>0, <1>1, <1>11, <2>0, <2>1 DEF PutBack, PutBackFails, Forget, e
  <2>4. ServiceInv'
    BY <1>0, <1>3, <1>11, <2>0, <2>2, <2>3 DEF PutBack, PutBackFails, ServiceInv
  <2>5. InHand(d) \subseteq InHand(d)' \cup {e}
    BY <1>0, <1>3, <2>0, <2>2 DEF InHand, e
  <2>6. ASSUME NEW c \in Charges, Reaches(d, c) PROVE Reaches(d, c)' \/ IsSettled(c)'
    BY <2>3, <2>5, <2>6 DEF Reaches, IsSettled
  <2>7. \A x \in Drainers \ {d} : hand'[x] = hand[x] /\ requeue'[x] = requeue[x]
    BY <1>0, <2>2
  <2> QED
    BY <1>0, <1>11, <2>3, <2>4, <2>6, <2>7, DrainStep DEF PutBack, PutBackFails
<1>12. CASE Kill(d)
  <2>1. LinesStay
    BY <1>0, <1>1, <1>4, <1>12, ReportPosted DEF Kill
  <2>2. Held(d) \subseteq Charges
    <3>1. \A x \in ToSet(requeue[d]) : x \in Reported
      BY <1>0 DEF ToSet
    <3> QED
      BY <1>1, <1>4, <3>1 DEF Held
  <2>3. <<>> \in Seq(Reported)
    OBVIOUS
  <2>4. ServiceInv'
    BY <1>0, <1>12, <2>2, <2>3 DEF Kill, Hold, Enter, ServiceInv
  <2>5. \A x \in InHand(d) : x.body.charge \in gone'
    BY <1>12 DEF Kill, Held, InHand
  <2>6. ASSUME NEW c \in Charges, Reaches(d, c) PROVE Reaches(d, c)' \/ IsSettled(c)'
    BY <1>12, <2>5, <2>6 DEF Kill, Reaches, IsSettled
  <2> QED
    BY <1>0, <1>12, <2>1, <2>4, <2>6, DrainStep DEF Kill, Hold
<1> QED
  BY <1>6, <1>7, <1>8, <1>9, <1>10, <1>11, <1>12 DEF Answer

(* Billing gets round to a request nobody waits for any more.              *)
LEMMA LateKeeps ==
    ASSUME ChargeInv, BillLate
    PROVE  Keeps
<1>1. PICK b \in late : Record(b) /\ UNCHANGED <<services, pending, late, gone>>
  BY DEF BillLate
<1>2. LinesStay
  BY <1>1, ChargeRecorded DEF ChargeInv, BillingInv
<1>3. ServiceInv'
  BY <1>1 DEF ChargeInv, ServiceInv, services
<1>4. \A c \in Charges : Waits(c) => Waits(c)'
  BY <1>1 DEF Waits, Held, services
<1> QED
  BY <1>1, <1>2, <1>3, <1>4 DEF Keeps, Known, LinesStay, ChargeInv, services

LEMMA UsageKept ==
    ASSUME ChargeInv, [ChargeNext]_chargeVars
    PROVE  Keeps
<1>1. CASE ChargeNext
  BY <1>1, ChargeKeeps, DrainKeeps, LateKeeps DEF ChargeNext
<1>2. CASE UNCHANGED chargeVars
  <2>1. ChargeInv'
    BY <1>2 DEF ChargeInv, ServiceInv, BillingInv, chargeVars, services, billing
  <2>2. \A c \in Charges : Known(c) => Known(c)'
    BY <1>2 DEF Known, Waits, Held, chargeVars, services, billing
  <2> QED
    BY <1>2, <2>1, <2>2 DEF Keeps, chargeVars, services
<1> QED
  BY <1>1, <1>2

-----------------------------------------------------------------------------
(* Theorems *)

LEMMA UsageBegins == ChargeInit => ChargeInv /\ NoneForgotten
<1> SUFFICES ASSUME ChargeInit PROVE ChargeInv /\ NoneForgotten
  OBVIOUS
<1>1. ServiceInv
  BY DEF ChargeInit, ServiceInv, Steps
<1>2. BillingInv
  BY DEF ChargeInit, BillingInv
<1>3. NoneForgotten
  BY DEF ChargeInit, NoneForgotten
<1> QED
  BY <1>1, <1>2, <1>3 DEF ChargeInv

LEMMA ChargeInvariant ==
    ChargeSpec => []ChargeInv
<1>1. ChargeInv /\ [ChargeNext]_chargeVars => ChargeInv'
  BY UsageKept DEF Keeps
<1> QED
  BY <1>1, UsageBegins, PTL DEF ChargeSpec

(* The clients' state is as declared at every step.                        *)
THEOREM UsageTypes ==
    ChargeSpec => []ChargeTypes
<1>1. ChargeInv => ChargeTypes
  <2> SUFFICES ASSUME ChargeInv PROVE ChargeTypes
    OBVIOUS
  <2>1. Seq(Reported) \subseteq Seq(Entry) /\ Reported \subseteq Entry
    BY ReportedEntries
  <2>2. pending \in Seq(Entry) /\ requeue \in [Drainers -> Seq(Entry)]
    BY <2>1 DEF ChargeInv, ServiceInv
  <2>3. hand \in [Drainers -> Entry \cup {NoEntry}]
    BY <2>1 DEF ChargeInv, ServiceInv
  <2>4. late \subseteq Body /\ keys \subseteq Body
    BY FirstBodies DEF ChargeInv, BillingInv
  <2> QED
    BY <2>2, <2>3, <2>4 DEF ChargeInv, ServiceInv, BillingInv, ChargeTypes
<1> QED
  BY <1>1, ChargeInvariant, PTL

(* However often and by whomever a charge is reported, and however late a  *)
(* report is processed, billing has at most one line for it.               *)
THEOREM NoneChargedTwice ==
    ChargeSpec => []ChargedOnce
<1>1. ChargeInv => ChargedOnce
  BY DEF ChargeInv, BillingInv, ChargedOnce
<1> QED
  BY <1>1, ChargeInvariant, PTL

(* A charge its caller is through with is charged, waits somewhere, or its *)
(* end was logged or is one of the two named losses.                       *)
THEOREM NoChargeForgotten ==
    ChargeSpec => []NoneForgotten
<1>1. ChargeInv /\ NoneForgotten /\ [ChargeNext]_chargeVars => NoneForgotten'
  <2> SUFFICES ASSUME ChargeInv, NoneForgotten, [ChargeNext]_chargeVars, NEW c \in Charges, step'[c] = "done"
               PROVE  Known(c)'
    BY DEF NoneForgotten, Known
  <2>1. Keeps
    BY UsageKept
  <2>2. step[c] = "done" => Known(c)
    BY DEF NoneForgotten, Known
  <2> QED
    BY <2>1, <2>2 DEF Keeps
<1> QED
  BY <1>1, UsageBegins, ChargeInvariant, PTL DEF ChargeSpec
=============================================================================
