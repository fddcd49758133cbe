------------------------- MODULE CatalogStockProofs -------------------------
(***************************************************************************)
(* CatalogStock, proved for every number of sessions, locations, units and *)
(* reservations.  First: a row that is locked is as its session has read   *)
(* it, so what a session checked still holds when it commits, and no       *)
(* location ever has more units reserved than on hand.  Then the books:    *)
(* reservations and ledger totals explain every row.  From the books: each *)
(* request is one step of the promised inventory, shipments never wait for *)
(* each other in a circle, and what is quoted is what is allocated.        *)
(***************************************************************************)
EXTENDS CatalogStock, CollectionFacts

-----------------------------------------------------------------------------
(* The invariant *)

(* A session that holds a row knows it as it is committed.                 *)
LockedIsCurrent == \A c \in Client, p \in Place : lock[p] = c => seen[c][p] = stock[p]

(* But for a correction by a difference, the units of a change are counted *)
(* upwards.                                                                *)
Counts(j) == j.op \in {"gain", "lose", "ship"} => j.qty \in Nat
UnitsAreCounted == \A c \in Client : Active(c) => Counts(job[c])

StockInv == TypeOK /\ OnHandCoversReserved /\ LockedIsCurrent /\ UnitsAreCounted

-----------------------------------------------------------------------------
(* Jobs *)

LEMMA OrdersAreSequences ==
    ASSUME NEW places \in SUBSET Place, NEW plan \in Orders(places)
    PROVE  plan \in Seq(Place)
<1>1. Cardinality(places) \in Nat
  BY PlaceAssumption, FS_Subset, FS_CardinalityType
<1>2. plan \in [1 .. Cardinality(places) -> places]
  BY DEF Orders
<1>3. plan \in [1 .. Cardinality(places) -> Place]
  BY <1>2
<1> QED
  BY <1>1, <1>3, SeqDef

LEMMA SomeReservation == FirstReservation \in Reservation
  BY ReservationAssumption DEF FirstReservation

LEMMA SomePlace == Anywhere \in Place
  BY PlaceAssumption DEF Anywhere

(* What a request does not fill in is of its kind too.                     *)
LEMMA BlankFields ==
    ASSUME NEW p \in Place
    PROVE  /\ NoUnits \in [Place -> Nat]
           /\ FirstReservation \in Reservation
           /\ "RESTOCK" \in Reasons
           /\ <<p>> \in Seq(Place)
  BY SomeReservation DEF NoUnits, Reasons

(* A blank job is a job.                                                   *)
LEMMA BlankIsJob ==
    ASSUME NEW op \in Ops, NEW p \in Place
    PROVE  \E b \in Jobs : b = Blank(op, p) /\ b.op = op
<1>1. Blank(op, p) \in Jobs /\ Blank(op, p).op = op
  BY BlankFields DEF Blank, Jobs
<1> QED
  BY <1>1, Zenon

LEMMA NoJobIsNone == NoJob \notin Jobs /\ NoJob.op = "none"
  BY DEF NoJob, Jobs, Ops

LEMMA EmptyRow == NoStock \in Level /\ NoStock.reserved <= NoStock.onHand
  BY MaxOnHandAssumption DEF NoStock, Level

(* A request that begins with a well-formed job keeps the invariant.       *)
LEMMA BeginKeeps ==
    ASSUME StockInv, NEW c \in Client, NEW j \in Jobs, Counts(j),
           Begin(c, j), issued' \subseteq Reservation
    PROVE  StockInv'
<1>1. requests' \in 0 .. MaxRequests
  BY BoundAssumption DEF Begin, StockInv, TypeOK
<1>2. TypeOK'
  BY <1>1 DEF Begin, StockInv, TypeOK
<1>3. UnitsAreCounted'
  BY DEF Begin, StockInv, TypeOK, UnitsAreCounted, Active
<1>4. OnHandCoversReserved' /\ LockedIsCurrent'
  BY DEF Begin, StockInv, OnHandCoversReserved, LockedIsCurrent
<1> QED
  BY <1>2, <1>3, <1>4 DEF StockInv

(* Things that happened to the stock of a location begin as they should.   *)
LEMMA QuantityRequestKeeps ==
    ASSUME StockInv, NEW c \in Client, NEW op \in {"gain", "lose", "shift"}, NEW p \in Place,
           NEW n \in Int, NEW why \in Reasons, op = "shift" \/ n \in Nat, issued' = issued,
           \/ Begin(c, [Blank(op, p) EXCEPT !.qty = n])
           \/ Begin(c, [Blank(op, p) EXCEPT !.qty = n, !.reason = why])
    PROVE  StockInv'
<1>1. issued' \subseteq Reservation /\ op \in Ops
  BY DEF StockInv, TypeOK, Ops
<1>2. PICK j : /\ Begin(c, j)
              /\ \/ j = [Blank(op, p) EXCEPT !.qty = n]
                 \/ j = [Blank(op, p) EXCEPT !.qty = n, !.reason = why]
  BY Zenon
<1>3. j \in Jobs /\ j.op = op /\ j.qty = n
  BY <1>1, <1>2, BlankFields DEF Blank, Jobs
<1>4. Counts(j)
  BY <1>3 DEF Counts
<1> QED
  BY <1>1, <1>2, <1>3, <1>4, BeginKeeps

LEMMA RequestKeeps ==
    ASSUME StockInv, NEW c \in Client, Request(c)
    PROVE  StockInv'
<1>1. Open \subseteq Place
  BY DEF Open
<1>2. issued \subseteq Reservation /\ rows \subseteq Place
  BY DEF StockInv, TypeOK
<1>3. CASE SetStock(c)
  <2>1. PICK places \in (SUBSET Open) \ {{}}, reason \in {"RESTOCK", "ADJUST"}, rights \in BOOLEAN :
          \E plan \in Orders(places), counts \in [places -> Quantities \cup {0}] :
            /\ Begin(c, [Blank("count", plan[1]) EXCEPT
                    !.reason = reason, !.rights = rights, !.plan = plan,
                    !.share = [p \in Place |-> IF p \in places THEN counts[p] ELSE 0]])
            /\ UNCHANGED issued
    BY <1>3 DEF SetStock
  <2>2. PICK plan \in Orders(places), counts \in [places -> Quantities \cup {0}] :
            /\ Begin(c, [Blank("count", plan[1]) EXCEPT
                    !.reason = reason, !.rights = rights, !.plan = plan,
                    !.share = [p \in Place |-> IF p \in places THEN counts[p] ELSE 0]])
            /\ UNCHANGED issued
    BY <2>1, Zenon
  <2>3. PICK j :
          /\ j = [Blank("count", plan[1]) EXCEPT
                    !.reason = reason, !.rights = rights, !.plan = plan,
                    !.share = [p \in Place |-> IF p \in places THEN counts[p] ELSE 0]]
          /\ Begin(c, j)
    BY <2>2, Zenon
  <2>4. places \in SUBSET Place /\ places # {}
    BY <1>1
  <2>5. plan \in Seq(Place)
    BY <2>4, OrdersAreSequences
  <2>6. plan[1] \in Place
    <3>1. Cardinality(places) \in Nat /\ Cardinality(places) # 0
      BY <2>4, PlaceAssumption, FS_Subset, FS_CardinalityType, FS_EmptySet
    <3> QED
      BY <2>4, <3>1 DEF Orders
  <2>7. PICK units \in [Place -> Nat] :
          units = [p \in Place |-> IF p \in places THEN counts[p] ELSE 0]
    <3>1. Quantities \cup {0} \subseteq Nat
      BY QuantitiesAssumption
    <3>2. \A p \in places : counts[p] \in Quantities \cup {0}
      OBVIOUS
    <3> QED
      BY <3>1, <3>2
  <2>8. j = [Blank("count", plan[1]) EXCEPT
                !.reason = reason, !.rights = rights, !.plan = plan, !.share = units]
    BY <2>3, <2>7, Zenon
  <2>9. j \in Jobs /\ j.op = "count"
    <3>1. "count" \in Ops /\ reason \in Reasons
      BY DEF Ops, Reasons
    <3>2. PICK p \in Place : p = plan[1]
      BY <2>6
    <3>3. PICK b \in Jobs : b = Blank("count", p) /\ b.op = "count"
      BY <3>1, BlankIsJob, Zenon
    <3>4. j = [b EXCEPT !.reason = reason, !.rights = rights, !.plan = plan, !.share = units]
      BY <2>8, <3>2, <3>3, Zenon
    <3> QED
      BY <2>5, <3>1, <3>3, <3>4 DEF Jobs
  <2>10. Counts(j)
    BY <2>9 DEF Counts
  <2> QED
    BY <1>2, <2>2, <2>3, <2>9, <2>10, BeginKeeps
<1>4. CASE AdjustStock(c)
  <2>1. PICK p \in Open, qty \in Quantities, reason \in {"RESTOCK", "SALE", "DAMAGE", "ADJUST"} :
          /\ \/ Begin(c, [Blank("gain", p) EXCEPT !.qty = qty])
             \/ Begin(c, [Blank("lose", p) EXCEPT !.qty = qty, !.reason = reason])
             \/ \E delta \in {qty, -qty} : Begin(c, [Blank("shift", p) EXCEPT !.qty = delta])
          /\ UNCHANGED issued
    BY <1>4, Zenon DEF AdjustStock
  <2>2. p \in Place /\ qty \in Nat /\ qty \in Int /\ -qty \in Int
    BY <1>1, QuantitiesAssumption
  <2>3. reason \in Reasons
    BY DEF Reasons
  <2>4. {"gain", "lose"} \subseteq {"gain", "lose", "shift"}
        /\ "shift" \in {"gain", "lose", "shift"}
    OBVIOUS
  <2> QED
    BY <2>1, <2>2, <2>3, <2>4, QuantityRequestKeeps, Zenon
<1>5. CASE RecordMovement(c)
  <2>1. PICK p \in Open, qty \in Quantities :
          /\ \/ \E reason \in {"RESTOCK", "RETURN", "RETURN, DAMAGE"} :
                  Begin(c, [Blank("gain", p) EXCEPT !.qty = qty, !.reason = reason])
             \/ \E reason \in {"SALE", "DAMAGE", "LOST"} :
                  Begin(c, [Blank("lose", p) EXCEPT !.qty = qty, !.reason = reason])
          /\ UNCHANGED issued
    BY <1>5, Zenon DEF RecordMovement
  <2>2. p \in Place /\ qty \in Nat /\ qty \in Int
    BY <1>1, QuantitiesAssumption
  <2>3. {"RESTOCK", "RETURN", "RETURN, DAMAGE", "SALE", "DAMAGE", "LOST"} \subseteq Reasons
    BY DEF Reasons
  <2>4. "gain" \in {"gain", "lose", "shift"} /\ "lose" \in {"gain", "lose", "shift"}
    OBVIOUS
  <2> QED
    BY <2>1, <2>2, <2>3, <2>4, QuantityRequestKeeps, Zenon
<1>6. CASE CorrectCount(c)
  <2>1. PICK p \in Open, count \in Quantities \cup {0} :
          \E expected \in {stock[p].onHand, Unsaid} :
            /\ Begin(c, [Blank("recount", p) EXCEPT
                    !.qty = count, !.share = [NoUnits EXCEPT ![p] = expected]])
            /\ UNCHANGED issued
    BY <1>6, Zenon DEF CorrectCount
  <2>2. PICK expected \in {stock[p].onHand, Unsaid} :
          /\ Begin(c, [Blank("recount", p) EXCEPT
                  !.qty = count, !.share = [NoUnits EXCEPT ![p] = expected]])
          /\ UNCHANGED issued
    BY <2>1
  <2>3. PICK j : j = [Blank("recount", p) EXCEPT
                  !.qty = count, !.share = [NoUnits EXCEPT ![p] = expected]] /\ Begin(c, j)
    BY <2>2, Zenon
  <2>4. p \in Place /\ count \in Int /\ "recount" \in Ops
    BY <1>1, QuantitiesAssumption DEF Ops
  <2>5. expected \in Nat
    BY <2>4, MaxOnHandAssumption DEF StockInv, TypeOK, Level, Unsaid
  <2>6. PICK units \in [Place -> Nat] : units = [NoUnits EXCEPT ![p] = expected]
    BY <2>4, <2>5 DEF NoUnits
  <2>7. j = [Blank("recount", p) EXCEPT !.qty = count, !.share = units]
    BY <2>3, <2>6, Zenon
  <2>8. j \in Jobs /\ j.op = "recount"
    BY <2>4, <2>7, BlankFields DEF Blank, Jobs
  <2>9. Counts(j)
    BY <2>8 DEF Counts
  <2> QED
    BY <1>2, <2>2, <2>3, <2>8, <2>9, BeginKeeps
<1>7. CASE Transfer(c)
  <2>1. PICK p \in Open, to \in Open, qty \in Quantities :
          \E plan \in Orders({p, to}) :
            /\ Begin(c, [Blank("ship", p) EXCEPT !.to = to, !.qty = qty, !.plan = plan])
            /\ UNCHANGED issued
    BY <1>7, Zenon DEF Transfer
  <2>2. PICK plan \in Orders({p, to}) :
          /\ Begin(c, [Blank("ship", p) EXCEPT !.to = to, !.qty = qty, !.plan = plan])
          /\ UNCHANGED issued
    BY <2>1
  <2>3. PICK j :
          /\ j = [Blank("ship", p) EXCEPT !.to = to, !.qty = qty, !.plan = plan]
          /\ Begin(c, j)
    BY <2>2, Zenon
  <2>4. p \in Place /\ to \in Place /\ qty \in Nat /\ "ship" \in Ops
    BY <1>1, QuantitiesAssumption DEF Ops
  <2>5. plan \in Seq(Place)
    BY <2>4, OrdersAreSequences
  <2>6. j \in Jobs /\ j.op = "ship" /\ j.qty = qty
    <3>1. PICK b \in Jobs : b = Blank("ship", p) /\ b.op = "ship"
      BY <2>4, BlankIsJob, Zenon
    <3>2. j = [b EXCEPT !.to = to, !.qty = qty, !.plan = plan]
      BY <2>3, <3>1, Zenon
    <3>3. PICK n \in Int, q \in Place, order \in Seq(Place) : n = qty /\ q = to /\ order = plan
      BY <2>4, <2>5
    <3>4. j = [b EXCEPT !.to = q, !.qty = n, !.plan = order]
      BY <3>2, <3>3, Zenon
    <3> QED
      BY <3>1, <3>3, <3>4 DEF Jobs
  <2>7. Counts(j)
    BY <2>4, <2>6 DEF Counts
  <2> QED
    BY <1>2, <2>2, <2>3, <2>6, <2>7, BeginKeeps
<1>8. CASE ReserveAt(c)
  <2>1. PICK p \in Open \cap sellable, qty \in Wanted, r \in Reservation \ issued :
          /\ Begin(c, [Blank("allocated", p) EXCEPT
                  !.share = [NoUnits EXCEPT ![p] = qty], !.ref = r])
          /\ issued' = issued \cup {r}
    BY <1>8, Zenon DEF ReserveAt
  <2>2. PICK j :
          /\ j = [Blank("allocated", p) EXCEPT !.share = [NoUnits EXCEPT ![p] = qty], !.ref = r]
          /\ Begin(c, j)
    BY <2>1, Zenon
  <2>3. p \in Place /\ qty \in Nat /\ r \in Reservation /\ "allocated" \in Ops
    BY <1>1, WantedAssumption DEF Ops
  <2>4. PICK units \in [Place -> Nat] : units = [NoUnits EXCEPT ![p] = qty]
    BY <2>3 DEF NoUnits
  <2>5. j = [Blank("allocated", p) EXCEPT !.share = units, !.ref = r]
    BY <2>2, <2>4, Zenon
  <2>6. j \in Jobs /\ j.op = "allocated"
    <3>1. PICK b \in Jobs : b = Blank("allocated", p) /\ b.op = "allocated"
      BY <2>3, BlankIsJob, Zenon
    <3>2. j = [b EXCEPT !.share = units, !.ref = r]
      BY <2>5, <3>1, Zenon
    <3> QED
      BY <2>3, <3>1, <3>2 DEF Jobs
  <2>7. Counts(j)
    BY <2>6 DEF Counts
  <2>8. issued' \subseteq Reservation
    BY <1>2, <2>1
  <2> QED
    BY <2>2, <2>6, <2>7, <2>8, BeginKeeps
<1>9. CASE Reserve(c)
  <2>1. PICK qty \in Wanted, r \in Reservation \ issued, plan \in Orders(rows \cap sellable) :
          /\ Begin(c, [Blank("hold", Anywhere) EXCEPT !.qty = qty, !.ref = r, !.plan = plan])
          /\ issued' = issued \cup {r}
    BY <1>9, Zenon DEF Reserve
  <2>2. PICK j :
          /\ j = [Blank("hold", Anywhere) EXCEPT !.qty = qty, !.ref = r, !.plan = plan]
          /\ Begin(c, j)
    BY <2>1, Zenon
  <2>3. Anywhere \in Place /\ qty \in Int /\ r \in Reservation /\ "hold" \in Ops
    BY SomePlace, WantedAssumption DEF Ops
  <2>4. plan \in Seq(Place)
    BY <1>2, OrdersAreSequences
  <2>5. j \in Jobs /\ j.op = "hold"
    BY <2>2, <2>3, <2>4, BlankFields DEF Blank, Jobs
  <2>6. Counts(j)
    BY <2>5 DEF Counts
  <2>7. issued' \subseteq Reservation
    BY <1>2, <2>1
  <2> QED
    BY <2>2, <2>5, <2>6, <2>7, BeginKeeps
<1>10. CASE Release(c)
  <2>1. PICK r \in Reservation : \E plan \in Orders({p \in Place : holds[r][p] > 0}) :
          /\ Begin(c, [Blank("release", Anywhere) EXCEPT
                  !.share = holds[r], !.ref = r, !.plan = plan])
          /\ UNCHANGED issued
    BY <1>10, Zenon DEF Release
  <2>2. PICK plan \in Orders({p \in Place : holds[r][p] > 0}) :
          /\ Begin(c, [Blank("release", Anywhere) EXCEPT
                  !.share = holds[r], !.ref = r, !.plan = plan])
          /\ UNCHANGED issued
    BY <2>1
  <2>3. PICK units \in [Place -> Nat] : units = holds[r]
    BY DEF StockInv, TypeOK
  <2>4. PICK j : j = [Blank("release", Anywhere) EXCEPT !.share = units, !.ref = r, !.plan = plan]
                 /\ Begin(c, j)
    BY <2>2, <2>3, Zenon
  <2>5. Anywhere \in Place /\ "release" \in Ops
    BY SomePlace DEF Ops
  <2>6. plan \in Seq(Place)
    BY OrdersAreSequences
  <2>7. j \in Jobs /\ j.op = "release"
    <3>1. PICK b \in Jobs : b = Blank("release", Anywhere) /\ b.op = "release"
      BY <2>5, BlankIsJob, Zenon
    <3>2. j = [b EXCEPT !.share = units, !.ref = r, !.plan = plan]
      BY <2>4, <3>1, Zenon
    <3> QED
      BY <2>6, <3>1, <3>2 DEF Jobs
  <2>8. Counts(j)
    BY <2>7 DEF Counts
  <2> QED
    BY <1>2, <2>2, <2>4, <2>7, <2>8, BeginKeeps
<1>11. CASE DeleteLocation(c)
  <2>1. PICK p \in Open :
          /\ Begin(c, [Blank("delete", p) EXCEPT !.plan = << >>])
          /\ UNCHANGED issued
    BY <1>11, Zenon DEF DeleteLocation
  <2>2. PICK j :
          /\ j = [Blank("delete", p) EXCEPT !.plan = << >>]
          /\ Begin(c, j)
    BY <2>1, Zenon
  <2>3. p \in Place /\ "delete" \in Ops
    BY <1>1 DEF Ops
  <2>4. PICK plan \in Seq(Place) : plan = << >>
    <3>1. << >> \in Seq(Place)
      OBVIOUS
    <3> QED
      BY <3>1, Zenon
  <2>5. j \in Jobs /\ j.op = "delete"
    <3>1. PICK b \in Jobs : b = Blank("delete", p) /\ b.op = "delete"
      BY <2>3, BlankIsJob, Zenon
    <3>2. j = [b EXCEPT !.plan = plan]
      BY <2>4, <2>2, <3>1, Zenon
    <3> QED
      BY <3>1, <3>2 DEF Jobs
  <2>6. Counts(j)
    BY <2>5 DEF Counts
  <2> QED
    BY <1>2, <2>1, <2>2, <2>5, <2>6, BeginKeeps
<1> QED
  BY <1>3, <1>4, <1>5, <1>6, <1>7, <1>8, <1>9, <1>10, <1>11 DEF Request

-----------------------------------------------------------------------------
(* The ends of transactions *)

(* Whatever a session does with its own rows, another's are as it read     *)
(* them.                                                                   *)
LEMMA OthersAreUnlocked ==
    ASSUME StockInv, NEW c \in Client, End(c)
    PROVE  /\ lock' \in [Place -> Client \cup {Nobody}]
           /\ seen' \in [Client -> [Place -> Level]]
           /\ job' \in [Client -> Jobs \cup {NoJob}]
           /\ UnitsAreCounted'
           /\ \A p \in Place : lock'[p] # c
           /\ \A d \in Client, p \in Place : lock'[p] = d =>
                d # c /\ lock[p] = d /\ seen'[d] = seen[d]
<1> USE DEF StockInv, TypeOK, End, Unlocked
<1>1. lock' \in [Place -> Client \cup {Nobody}]
  OBVIOUS
<1>2. seen' \in [Client -> [Place -> Level]]
  BY EmptyRow
<1>3. job' \in [Client -> Jobs \cup {NoJob}]
  OBVIOUS
<1>4. UnitsAreCounted'
  BY DEF UnitsAreCounted, Active
<1>5. \A p \in Place : lock'[p] # c
  BY NobodyAssumption
<1>6. \A d \in Client, p \in Place : lock'[p] = d =>
        d # c /\ lock[p] = d /\ seen'[d] = seen[d]
  BY NobodyAssumption
<1> QED
  BY <1>1, <1>2, <1>3, <1>4, <1>5, <1>6

(* A transaction that ends without a commit keeps the invariant.           *)
LEMMA RollbackKeeps ==
    ASSUME StockInv, NEW c \in Client, Rollback(c)
    PROVE  StockInv'
<1>1. End(c) /\ UNCHANGED <<tables, twice, requests>>
  BY DEF Rollback
<1>2. TypeOK'
  BY <1>1, OthersAreUnlocked DEF StockInv, TypeOK, tables
<1>3. OnHandCoversReserved'
  BY <1>1 DEF StockInv, OnHandCoversReserved, tables
<1>4. LockedIsCurrent'
  BY <1>1, OthersAreUnlocked DEF StockInv, LockedIsCurrent, tables
<1> QED
  BY <1>1, <1>2, <1>3, <1>4, OthersAreUnlocked DEF StockInv

(* A commit keeps the invariant if the rows it writes are good ones.       *)
LEMMA CommitKeeps ==
    ASSUME StockInv, NEW c \in Client, NEW new, NEW moves, Commit(c, new, moves),
           \A p \in Place : lock[p] = c => new[p] \in Level /\ new[p].reserved <= new[p].onHand,
           holds' \in [Reservation -> [Place -> Nat]],
           freed' \in [Reservation -> SUBSET Place],
           twice' \subseteq Reservation
    PROVE  StockInv'
<1>1. End(c) /\ UNCHANGED <<site, sellable, listed, issued, requests>>
  BY DEF Commit
<1>2. stock' = [p \in Place |-> IF lock[p] = c THEN new[p] ELSE stock[p]]
  BY DEF Commit
<1>3. rows' \subseteq Place
  BY DEF Commit, StockInv, TypeOK
<1>4. stock' \in [Place -> Level]
  BY <1>2 DEF StockInv, TypeOK
<1>5. TypeOK'
  BY <1>1, <1>3, <1>4, OthersAreUnlocked DEF StockInv, TypeOK
<1>6. OnHandCoversReserved'
  BY <1>2 DEF StockInv, OnHandCoversReserved
<1>7. LockedIsCurrent'
  BY <1>1, <1>2, OthersAreUnlocked DEF StockInv, LockedIsCurrent
<1> QED
  BY <1>1, <1>5, <1>6, <1>7, OthersAreUnlocked DEF StockInv

-----------------------------------------------------------------------------
(* Steps of a session *)

(* A session at work has a job, and the rows it locked are good ones.      *)
LEMMA AtWork ==
    ASSUME StockInv, NEW c \in Client, Active(c)
    PROVE  /\ job[c] \in Jobs
           /\ Counts(job[c])
           /\ seen[c] \in [Place -> Level]
           /\ \A p \in Place : lock[p] = c =>
                seen[c][p] \in Level /\ seen[c][p].reserved <= seen[c][p].onHand
  BY DEF StockInv, TypeOK, OnHandCoversReserved, LockedIsCurrent, UnitsAreCounted, Active

LEMMA CountsSetKeeps ==
    ASSUME StockInv, NEW c \in Client, CountsSet(c)
    PROVE  StockInv'
<1>1. Active(c) /\ job[c].op = "count" /\ ~CountsRefused(c)
  BY DEF CountsSet
<1>2. PICK new, moves :
        /\ new = [p \in Place |-> [seen[c][p] EXCEPT !.onHand = job[c].share[p]]]
        /\ Commit(c, new, moves)
  BY Zenon DEF CountsSet
<1>3. holds' \in [Reservation -> [Place -> Nat]] /\ freed' \in [Reservation -> SUBSET Place]
      /\ twice' \subseteq Reservation
  BY DEF CountsSet, StockInv, TypeOK
<1>4. ASSUME NEW p \in Place, lock[p] = c
      PROVE  new[p] \in Level /\ new[p].reserved <= new[p].onHand
  <2>1. seen[c][p] \in Level /\ seen[c][p].reserved <= seen[c][p].onHand
    BY <1>1, <1>4, AtWork
  <2>2. job[c].share[p] \in Nat
    BY <1>1, AtWork DEF Jobs
  <2>3. job[c].share[p] = seen[c][p].onHand
        \/ (seen[c][p].reserved <= job[c].share[p] /\ job[c].share[p] <= MaxOnHand)
    BY <1>1, <1>4, <2>1, <2>2, MaxOnHandAssumption DEF CountsRefused, CountRefused, Level
  <2> QED
    BY <1>2, <2>1, <2>2, <2>3, MaxOnHandAssumption DEF Level
<1> QED
  BY <1>2, <1>3, <1>4, CommitKeeps

(* A change of the units at one location.                                  *)
LEMMA ChangeKeeps ==
    ASSUME StockInv, NEW c \in Client, Active(c), NEW delta \in Int, NEW moves,
           Commit(c, Changed(c, delta), moves), UNCHANGED <<holds, freed, twice>>,
           lock[job[c].at] = c =>
                Its(c).reserved <= Its(c).onHand + delta /\ Its(c).onHand + delta <= MaxOnHand
    PROVE  StockInv'
<1>1. PICK new : new = Changed(c, delta) /\ Commit(c, new, moves)
  BY Zenon
<1>2. holds' \in [Reservation -> [Place -> Nat]] /\ freed' \in [Reservation -> SUBSET Place]
      /\ twice' \subseteq Reservation
  BY DEF StockInv, TypeOK
<1>3. ASSUME NEW p \in Place, lock[p] = c
      PROVE  new[p] \in Level /\ new[p].reserved <= new[p].onHand
  <2>1. seen[c][p] \in Level /\ seen[c][p].reserved <= seen[c][p].onHand
    BY <1>3, AtWork
  <2>2. seen[c] \in [Place -> Level] /\ job[c].at \in Place
    BY AtWork DEF Jobs
  <2>3. CASE p = job[c].at
    BY <1>1, <1>3, <2>1, <2>2, <2>3, MaxOnHandAssumption DEF Changed, Its, Level
  <2>4. CASE p # job[c].at
    BY <1>1, <2>1, <2>2, <2>4 DEF Changed
  <2> QED
    BY <2>3, <2>4
<1> QED
  BY <1>1, <1>2, <1>3, CommitKeeps

LEMMA SingleChangesKeep ==
    ASSUME StockInv, NEW c \in Client, Gained(c) \/ Lost(c) \/ Shifted(c) \/ Recounted(c)
    PROVE  StockInv'
<1>1. Active(c)
  BY DEF Gained, Lost, Shifted, Recounted, Ready
<1>2. job[c] \in Jobs /\ Counts(job[c]) /\ job[c].at \in Place /\ job[c].qty \in Int
  BY <1>1, AtWork DEF Jobs
<1>3. Its(c) \in Level
  BY <1>1, <1>2, AtWork DEF Its
<1>4. lock[job[c].at] = c => Its(c).reserved <= Its(c).onHand
  BY <1>1, <1>2, AtWork DEF Its
<1>5. CASE Gained(c)
  <2>1. job[c].qty \in Nat
    BY <1>2, <1>5 DEF Gained, Ready, Counts
  <2>2. PICK delta \in {0, job[c].qty} : \E moves : Commit(c, Changed(c, delta), moves)
    BY <1>5, Zenon DEF Gained
  <2>3. Its(c).onHand + job[c].qty <= MaxOnHand
    BY <1>3, <1>5, <2>1, MaxOnHandAssumption DEF Gained, GainRefused, Level
  <2>4. lock[job[c].at] = c =>
          Its(c).reserved <= Its(c).onHand + delta /\ Its(c).onHand + delta <= MaxOnHand
    BY <1>3, <1>4, <2>1, <2>3, MaxOnHandAssumption DEF Level
  <2>5. delta \in Int /\ UNCHANGED <<holds, freed, twice>>
    BY <1>5, <2>1 DEF Gained
  <2> QED
    BY <1>1, <2>2, <2>4, <2>5, ChangeKeeps
<1>6. CASE Lost(c)
  <2>1. job[c].qty \in Nat /\ -job[c].qty \in Int
    BY <1>2, <1>6 DEF Lost, Ready, Counts
  <2>2. Its(c).reserved <= Its(c).onHand + -job[c].qty /\ Its(c).onHand + -job[c].qty <= MaxOnHand
    BY <1>3, <1>6, <2>1, MaxOnHandAssumption DEF Lost, LossRefused, Spare, Level
  <2>3. PICK moves : Commit(c, Changed(c, -job[c].qty), moves)
    BY <1>6, Zenon DEF Lost
  <2>4. UNCHANGED <<holds, freed, twice>>
    BY <1>6 DEF Lost
  <2> QED
    BY <1>1, <2>1, <2>2, <2>3, <2>4, ChangeKeeps
<1>7. CASE Shifted(c)
  <2>1. Its(c).reserved <= Its(c).onHand + job[c].qty /\ Its(c).onHand + job[c].qty <= MaxOnHand
    BY <1>2, <1>3, <1>7, MaxOnHandAssumption DEF Shifted, ShiftRefused, Level
  <2>2. PICK moves : Commit(c, Changed(c, job[c].qty), moves)
    BY <1>7, Zenon DEF Shifted
  <2>3. UNCHANGED <<holds, freed, twice>>
    BY <1>7 DEF Shifted
  <2> QED
    BY <1>1, <1>2, <2>1, <2>2, <2>3, ChangeKeeps
<1>8. CASE Recounted(c)
  <2>1. PICK delta, moves :
          delta = job[c].qty - Its(c).onHand /\ Commit(c, Changed(c, delta), moves)
    BY <1>8, Zenon DEF Recounted
  <2>2. delta \in Int /\ Its(c).reserved <= Its(c).onHand + delta
        /\ Its(c).onHand + delta <= MaxOnHand
    BY <1>2, <1>3, <1>8, <2>1, MaxOnHandAssumption DEF Recounted, RecountRefused, Level
  <2>3. UNCHANGED <<holds, freed, twice>>
    BY <1>8 DEF Recounted
  <2> QED
    BY <1>1, <2>1, <2>2, <2>3, ChangeKeeps
<1> QED
  BY <1>5, <1>6, <1>7, <1>8

(* A row with a number of units on hand that was not checked yet.          *)
Counted == [onHand : Int, reserved : 0 .. MaxOnHand]

LEMMA RowChanged ==
    ASSUME NEW s \in [Place -> Counted], NEW a \in Place, NEW p \in Place, NEW n \in Int, NEW t,
           t = [s EXCEPT ![a].onHand = @ + n]
    PROVE  /\ t \in [Place -> Counted]
           /\ t[p].onHand = IF p = a THEN s[p].onHand + n ELSE s[p].onHand
           /\ t[p].reserved = s[p].reserved
  BY MaxOnHandAssumption DEF Counted

LEMMA ShippedKeeps ==
    ASSUME StockInv, NEW c \in Client, Shipped(c)
    PROVE  StockInv'
<1>1. Active(c) /\ job[c].op = "ship" /\ ~ShipmentRefused(c)
  BY DEF Shipped, Ready
<1>2. job[c].at \in Place /\ job[c].to \in Place /\ job[c].qty \in Nat
  BY <1>1, AtWork DEF Jobs, Counts
<1>3. seen[c] \in [Place -> Level]
  BY <1>1, AtWork
<1>4. PICK new, moves :
        /\ new = [Changed(c, -job[c].qty) EXCEPT ![job[c].to].onHand = @ + job[c].qty]
        /\ Commit(c, new, moves)
  BY Zenon DEF Shipped
<1>5. job[c].qty <= Spare(Its(c)) /\ seen[c][job[c].to].onHand + job[c].qty <= MaxOnHand
  BY <1>1, <1>2, <1>3, MaxOnHandAssumption DEF ShipmentRefused, Spare, Its, Level
<1>6. holds' \in [Reservation -> [Place -> Nat]] /\ freed' \in [Reservation -> SUBSET Place]
      /\ twice' \subseteq Reservation
  BY DEF Shipped, StockInv, TypeOK
<1>7. ASSUME NEW p \in Place, lock[p] = c
      PROVE  new[p] \in Level /\ new[p].reserved <= new[p].onHand
  <2>1. seen[c][p] \in Level /\ seen[c][p].reserved <= seen[c][p].onHand
    BY <1>1, <1>7, AtWork
  <2>2. seen[c] \in [Place -> Counted]
    BY <1>3 DEF Counted, Level
  <2>3. PICK units : units = Changed(c, -job[c].qty)
    OBVIOUS
  <2>4. PICK m \in Int : m = -job[c].qty
    BY <1>2
  <2>5. units = [seen[c] EXCEPT ![job[c].at].onHand = @ + m]
    BY <2>3, <2>4, Zenon DEF Changed
  <2>6. /\ units \in [Place -> Counted]
        /\ units[p].onHand = IF p = job[c].at THEN seen[c][p].onHand + m ELSE seen[c][p].onHand
        /\ units[p].reserved = seen[c][p].reserved
    BY <1>2, <2>2, <2>5, RowChanged
  <2>7. new = [units EXCEPT ![job[c].to].onHand = @ + job[c].qty]
    BY <1>4, <2>3, Zenon
  <2>8. PICK n \in Int : n = job[c].qty
    BY <1>2
  <2>9. /\ new \in [Place -> Counted]
        /\ new[p].onHand = IF p = job[c].to THEN units[p].onHand + job[c].qty ELSE units[p].onHand
        /\ new[p].reserved = units[p].reserved
    <3>1. new = [units EXCEPT ![job[c].to].onHand = @ + n]
      BY <2>7, <2>8, Zenon
    <3>2. /\ new \in [Place -> Counted]
          /\ new[p].onHand = IF p = job[c].to THEN units[p].onHand + n ELSE units[p].onHand
          /\ new[p].reserved = units[p].reserved
      BY <1>2, <2>6, <3>1, RowChanged
    <3> QED
      BY <2>8, <3>2
  <2>10. new[p].reserved <= new[p].onHand /\ new[p].onHand <= MaxOnHand
    BY <1>2, <1>5, <2>1, <2>4, <2>6, <2>9, MaxOnHandAssumption DEF Level, Its, Spare
  <2>11. new[p] \in Counted /\ new[p].onHand \in Int /\ new[p].reserved \in 0 .. MaxOnHand
    BY <2>9 DEF Counted
  <2> QED
    BY <2>10, <2>11, MaxOnHandAssumption DEF Level, Counted
<1> QED
  BY <1>4, <1>6, <1>7, CommitKeeps

LEMMA HeldKeeps ==
    ASSUME StockInv, NEW c \in Client, Held(c)
    PROVE  StockInv'
<1>1. Active(c) /\ ~HoldRefused(c)
  BY DEF Held, Ready
<1>2. job[c].share \in [Place -> Nat] /\ job[c].ref \in Reservation
  BY <1>1, AtWork DEF Jobs
<1>3. PICK new, moves :
        /\ new = [p \in Place |-> Promise(seen[c][p], job[c].share[p])]
        /\ Commit(c, new, moves)
  BY Zenon DEF Held
<1>4. holds' \in [Reservation -> [Place -> Nat]]
  BY <1>2 DEF Held, StockInv, TypeOK
<1>5. freed' \in [Reservation -> SUBSET Place] /\ twice' \subseteq Reservation
  BY DEF Held, StockInv, TypeOK
<1>6. ASSUME NEW p \in Place, lock[p] = c
      PROVE  new[p] \in Level /\ new[p].reserved <= new[p].onHand
  <2>1. seen[c][p] \in Level /\ seen[c][p].reserved <= seen[c][p].onHand
    BY <1>1, <1>6, AtWork
  <2>2. job[c].share[p] \in Nat /\ job[c].share[p] <= Spare(seen[c][p])
    BY <1>1, <1>2, <1>6, <2>1, MaxOnHandAssumption DEF HoldRefused, Spare, Level
  <2>3. new[p] = [seen[c][p] EXCEPT !.reserved = @ + job[c].share[p]]
    BY <1>3, Zenon DEF Promise
  <2> QED
    BY <2>1, <2>2, <2>3, MaxOnHandAssumption DEF Level, Spare
<1> QED
  BY <1>3, <1>4, <1>5, <1>6, CommitKeeps

LEMMA ReleasedKeeps ==
    ASSUME StockInv, NEW c \in Client, Released(c)
    PROVE  StockInv'
<1>1. Active(c)
  BY DEF Released, Ready
<1>2. job[c].share \in [Place -> Nat] /\ job[c].ref \in Reservation
  BY <1>1, AtWork DEF Jobs
<1>3. PICK new, moves :
        /\ new = [p \in Place |-> [seen[c][p] EXCEPT
                    !.reserved = @ - Lesser(job[c].share[p], seen[c][p].reserved)]]
        /\ Commit(c, new, moves)
  BY Zenon DEF Released
<1>4. holds' \in [Reservation -> [Place -> Nat]] /\ freed' \in [Reservation -> SUBSET Place]
      /\ twice' \subseteq Reservation
  BY <1>2 DEF Released, StockInv, TypeOK
<1>5. ASSUME NEW p \in Place, lock[p] = c
      PROVE  new[p] \in Level /\ new[p].reserved <= new[p].onHand
  <2>1. seen[c][p] \in Level /\ seen[c][p].reserved <= seen[c][p].onHand
    BY <1>1, <1>5, AtWork
  <2>2. job[c].share[p] \in Nat
    BY <1>2
  <2>3. new[p] = [seen[c][p] EXCEPT !.reserved = @ - Lesser(job[c].share[p], seen[c][p].reserved)]
    BY <1>3, Zenon
  <2> QED
    BY <2>1, <2>2, <2>3, MaxOnHandAssumption DEF Level, Lesser
<1> QED
  BY <1>3, <1>4, <1>5, CommitKeeps

(* What a session has yet to lock may change, and nothing else.            *)
LEMMA LockKeeps ==
    ASSUME StockInv, NEW c \in Client, Lock(c)
    PROVE  StockInv'
<1>1. Active(c) /\ job[c].plan # << >> /\ lock[Next1(c)] = Nobody
  BY DEF Lock, Blocked, Waiting
<1>2. job[c] \in Jobs /\ job[c].plan \in Seq(Place) /\ Counts(job[c])
  BY <1>1, AtWork DEF Jobs
<1>3. Next1(c) \in Place /\ Tail(job[c].plan) \in Seq(Place)
  BY <1>1, <1>2, HeadTailProperties DEF Next1
<1>4. UNCHANGED <<tables, twice, requests>>
  BY DEF Lock
<1>5. \/ lock' = lock /\ seen' = seen
      \/ /\ lock' = [lock EXCEPT ![Next1(c)] = c]
         /\ seen' = [seen EXCEPT ![c][Next1(c)] = stock[Next1(c)]]
  <2> DEFINE passed == job[c].op = "hold" /\ Next1(c) \notin rows
  <2>1. /\ lock' = IF passed THEN lock ELSE [lock EXCEPT ![Next1(c)] = c]
        /\ seen' = IF passed THEN seen ELSE [seen EXCEPT ![c][Next1(c)] = stock[Next1(c)]]
    BY Zenon DEF Lock
  <2> HIDE DEF passed
  <2> QED
    BY <2>1, Zenon
<1>6. [job[c] EXCEPT !.plan = Tail(@)] \in Jobs
  <2>1. PICK b \in Jobs, order \in Seq(Place) : b = job[c] /\ order = Tail(b.plan)
    BY <1>2, <1>3
  <2>2. [b EXCEPT !.plan = order] \in Jobs
    BY DEF Jobs
  <2> QED
    BY <2>1, <2>2, Zenon
<1>7. job' = [job EXCEPT ![c] = [job[c] EXCEPT !.plan = Tail(@)]]
  BY DEF Lock
<1>8. TypeOK'
  <2>1. job' \in [Client -> Jobs \cup {NoJob}]
    BY <1>6, <1>7 DEF StockInv, TypeOK
  <2>2. lock' \in [Place -> Client \cup {Nobody}]
    BY <1>3, <1>5 DEF StockInv, TypeOK
  <2>3. seen' \in [Client -> [Place -> Level]]
    <3>1. PICK p \in Place, l \in Level : p = Next1(c) /\ l = stock[p]
      BY <1>3 DEF StockInv, TypeOK
    <3>2. seen' = seen \/ seen' = [seen EXCEPT ![c][p] = l]
      BY <1>5, <3>1, Zenon
    <3>3. PICK after \in [Place -> Level] : after = [seen[c] EXCEPT ![p] = l]
      BY DEF StockInv, TypeOK
    <3>4. seen' = seen \/ seen' = [seen EXCEPT ![c] = after]
      BY <3>2, <3>3
    <3> QED
      BY <3>4 DEF StockInv, TypeOK
  <2> QED
    BY <1>4, <2>1, <2>2, <2>3 DEF StockInv, TypeOK, tables
<1>9. LockedIsCurrent'
  BY <1>3, <1>4, <1>5 DEF StockInv, TypeOK, LockedIsCurrent, tables
<1>10. UnitsAreCounted'
  <2>1. Counts([job[c] EXCEPT !.plan = Tail(@)])
    BY <1>2 DEF Counts, Jobs
  <2>2. ASSUME NEW d \in Client, Active(d)'
        PROVE  Counts(job'[d])
    <3>1. CASE d = c
      BY <1>7, <2>1, <3>1 DEF StockInv, TypeOK
    <3>2. CASE d # c
      BY <1>7, <2>2, <3>2 DEF StockInv, TypeOK, UnitsAreCounted, Active
    <3> QED
      BY <3>1, <3>2
  <2> QED
    BY <2>2 DEF UnitsAreCounted, Counts
<1>11. OnHandCoversReserved'
  BY <1>4 DEF StockInv, OnHandCoversReserved, tables
<1> QED
  BY <1>8, <1>9, <1>10, <1>11 DEF StockInv

LEMMA AllocatedKeeps ==
    ASSUME StockInv, NEW c \in Client, Allocated(c)
    PROVE  StockInv'
<1>1. Active(c) /\ UNCHANGED <<tables, twice, lock, seen, requests>>
  BY DEF Allocated, Ready
<1>2. PICK share \in [Place -> 0 .. job[c].qty] :
        \E plan \in Orders({p \in Place : share[p] > 0 /\ lock[p] # c}) :
            job' = [job EXCEPT ![c].op = "allocated", ![c].share = share, ![c].plan = plan]
  BY Zenon DEF Allocated
<1>3. PICK plan \in Orders({p \in Place : share[p] > 0 /\ lock[p] # c}) :
        job' = [job EXCEPT ![c].op = "allocated", ![c].share = share, ![c].plan = plan]
  BY <1>2
<1>4. PICK units \in [Place -> Nat], order \in Seq(Place) : units = share /\ order = plan
  <2>1. share \in [Place -> Nat]
    OBVIOUS
  <2>2. plan \in Seq(Place)
    BY OrdersAreSequences
  <2> QED
    BY <2>1, <2>2
<1>5. PICK b \in Jobs : b = job[c]
  BY <1>1, AtWork
<1>6. PICK j : j = [b EXCEPT !.op = "allocated", !.share = units, !.plan = order]
  OBVIOUS
<1>7. job' = [job EXCEPT ![c] = j]
  BY <1>3, <1>4, <1>5, <1>6 DEF StockInv, TypeOK
<1>8. j \in Jobs /\ j.op = "allocated"
  BY <1>6 DEF Jobs, Ops
<1>9. TypeOK'
  BY <1>1, <1>7, <1>8 DEF StockInv, TypeOK, tables
<1>10. UnitsAreCounted'
  BY <1>7, <1>8 DEF StockInv, TypeOK, UnitsAreCounted, Active, Counts
<1>11. OnHandCoversReserved' /\ LockedIsCurrent'
  BY <1>1 DEF StockInv, OnHandCoversReserved, LockedIsCurrent, tables
<1> QED
  BY <1>9, <1>10, <1>11 DEF StockInv

-----------------------------------------------------------------------------
(* Deletions *)

(* Rows that nobody has locked can go.                                     *)
LEMMA VanishKeeps ==
    ASSUME StockInv, NEW places \in SUBSET Place, Vanish(places),
           \A p \in places : lock[p] = Nobody
    PROVE  /\ stock' \in [Place -> Level]
           /\ holds' \in [Reservation -> [Place -> Nat]]
           /\ rows' \subseteq Place
           /\ freed' \in [Reservation -> SUBSET Place]
           /\ OnHandCoversReserved'
           /\ \A c \in Client, p \in Place : lock[p] = c => seen[c][p] = stock'[p]
<1>1. stock' = [p \in Place |-> IF p \in places THEN NoStock ELSE stock[p]]
  BY DEF Vanish
<1>2. stock' \in [Place -> Level] /\ OnHandCoversReserved'
  BY <1>1, EmptyRow DEF StockInv, TypeOK, OnHandCoversReserved
<1>3. holds' \in [Reservation -> [Place -> Nat]]
  <2>1. holds' = [r \in Reservation |-> [p \in Place |-> IF p \in places THEN 0 ELSE holds[r][p]]]
    BY DEF Vanish
  <2> QED
    BY <2>1 DEF StockInv, TypeOK
<1>4. rows' \subseteq Place
  BY DEF Vanish, StockInv, TypeOK
<1>5. freed' \in [Reservation -> SUBSET Place]
  BY DEF Vanish, StockInv, TypeOK
<1>6. \A c \in Client, p \in Place : lock[p] = c => seen[c][p] = stock'[p]
  BY <1>1, NobodyAssumption DEF StockInv, LockedIsCurrent
<1> QED
  BY <1>2, <1>3, <1>4, <1>5, <1>6

LEMMA LocationDeletedKeeps ==
    ASSUME StockInv, NEW c \in Client, LocationDeleted(c)
    PROVE  StockInv'
<1>1. PICK p \in Place : lock[p] = Nobody /\ Vanish({p}) /\ site' = [site EXCEPT ![p] = "deleted"]
  BY AtWork DEF LocationDeleted, Ready, Jobs
<1>2. End(c) /\ UNCHANGED <<sellable, listed, issued, twice, requests>>
  BY DEF LocationDeleted
<1>3. {p} \subseteq Place /\ \A q \in {p} : lock[q] = Nobody
  BY <1>1
<1>4. /\ stock' \in [Place -> Level]
      /\ holds' \in [Reservation -> [Place -> Nat]]
      /\ rows' \subseteq Place
      /\ freed' \in [Reservation -> SUBSET Place]
      /\ OnHandCoversReserved'
      /\ \A d \in Client, q \in Place : lock[q] = d => seen[d][q] = stock'[q]
  BY <1>1, <1>3, VanishKeeps
<1>5. TypeOK'
  BY <1>1, <1>2, <1>4, OthersAreUnlocked DEF StockInv, TypeOK
<1>6. LockedIsCurrent'
  BY <1>2, <1>4, OthersAreUnlocked DEF LockedIsCurrent
<1> QED
  BY <1>2, <1>4, <1>5, <1>6, OthersAreUnlocked DEF StockInv

LEMMA HardDeleteKeeps ==
    ASSUME StockInv, HardDeleteProduct
    PROVE  StockInv'
<1>1. /\ Vanish(Place)
      /\ \A p \in Place : lock[p] = Nobody
      /\ UNCHANGED <<site, sellable, issued, twice, lock, seen, job>>
  BY DEF HardDeleteProduct
<1>2. listed' \in BOOLEAN /\ requests' \in 0 .. MaxRequests
  <2>1. listed' \in BOOLEAN
    BY Zenon DEF HardDeleteProduct
  <2>2. requests' \in 0 .. MaxRequests
    BY BoundAssumption DEF HardDeleteProduct, StockInv, TypeOK
  <2> QED
    BY <2>1, <2>2
<1>3. /\ stock' \in [Place -> Level]
      /\ holds' \in [Reservation -> [Place -> Nat]]
      /\ rows' \subseteq Place
      /\ freed' \in [Reservation -> SUBSET Place]
      /\ OnHandCoversReserved'
      /\ \A c \in Client, p \in Place : lock[p] = c => seen[c][p] = stock'[p]
  BY <1>1, VanishKeeps
<1>4. TypeOK'
  BY <1>1, <1>2, <1>3 DEF StockInv, TypeOK
<1>5. LockedIsCurrent' /\ UnitsAreCounted'
  BY <1>1, <1>3 DEF StockInv, LockedIsCurrent, UnitsAreCounted, Active, Counts
<1> QED
  BY <1>3, <1>4, <1>5 DEF StockInv

LEMMA UpsertLocationKeeps ==
    ASSUME StockInv, UpsertLocation
    PROVE  StockInv'
<1>1. PICK p \in Place, sells \in BOOLEAN :
        /\ site' = [site EXCEPT ![p] = "open"]
        /\ sellable' = IF sells THEN sellable \cup {p} ELSE sellable \ {p}
  BY Zenon DEF UpsertLocation
<1>2. UNCHANGED <<stock, holds, rows, listed, totals, issued, freed, twice, lock, seen, job>>
  BY DEF UpsertLocation
<1>3. requests' \in 0 .. MaxRequests
  BY BoundAssumption DEF UpsertLocation, StockInv, TypeOK
<1>4. TypeOK'
  BY <1>1, <1>2, <1>3 DEF StockInv, TypeOK
<1>5. OnHandCoversReserved' /\ LockedIsCurrent' /\ UnitsAreCounted'
  BY <1>2 DEF StockInv, OnHandCoversReserved, LockedIsCurrent, UnitsAreCounted, Active, Counts
<1> QED
  BY <1>4, <1>5 DEF StockInv

-----------------------------------------------------------------------------
(* The theorems *)

LEMMA InitHolds == Init => StockInv
<1> SUFFICES ASSUME Init PROVE StockInv
  OBVIOUS
<1>1. PICK opening \in Opening :
        LET held == opening[1]
            more == opening[2]
        IN
        /\ stock = [p \in Place |-> [onHand |-> held[p] + more[p], reserved |-> held[p]]]
        /\ rows = {p \in Place : held[p] + more[p] > 0}
        /\ holds = [[s \in Reservation |-> NoUnits] EXCEPT ![FirstReservation] = held]
        /\ issued = IF held = NoUnits THEN {} ELSE {FirstReservation}
  BY Zenon DEF Init
<1>2. PICK held \in [Place -> Nat], more \in [Place -> Nat] : held = opening[1] /\ more = opening[2]
  BY OpeningAssumption
<1>3. \A p \in Place : held[p] + more[p] <= MaxOnHand
  BY <1>2, OpeningAssumption
<1>4. stock \in [Place -> Level] /\ OnHandCoversReserved
  BY <1>1, <1>2, <1>3, MaxOnHandAssumption DEF Level, OnHandCoversReserved
<1>5. holds \in [Reservation -> [Place -> Nat]]
  BY <1>1, <1>2 DEF NoUnits
<1>6. rows \subseteq Place /\ issued \subseteq Reservation
  BY <1>1, SomeReservation
<1>7. /\ site \in [Place -> {"new", "open", "deleted"}]
      /\ sellable \subseteq Place
      /\ freed \in [Reservation -> SUBSET Place]
      /\ twice \subseteq Reservation
      /\ lock \in [Place -> Client \cup {Nobody}]
      /\ job \in [Client -> Jobs \cup {NoJob}]
      /\ requests \in 0 .. MaxRequests
  BY BoundAssumption DEF Init
<1>8. listed \in BOOLEAN
  BY Zenon DEF Init
<1>9. seen \in [Client -> [Place -> Level]]
  BY EmptyRow DEF Init
<1>10. LockedIsCurrent
  BY NobodyAssumption DEF Init, LockedIsCurrent
<1>11. UnitsAreCounted
  BY DEF Init, UnitsAreCounted, Active
<1> QED
  BY <1>4, <1>5, <1>6, <1>7, <1>8, <1>9, <1>10, <1>11 DEF StockInv, TypeOK

LEMMA NextKeeps == StockInv /\ [Next]_vars => StockInv'
<1> SUFFICES ASSUME StockInv, [Next]_vars PROVE StockInv'
  OBVIOUS
<1>1. ASSUME NEW c \in Client, Request(c) PROVE StockInv'
  BY <1>1, RequestKeeps
<1>2. ASSUME NEW c \in Client, Work(c) PROVE StockInv'
  <2>1. CASE Lock(c)
    BY <2>1, LockKeeps
  <2>2. CASE CountsSet(c)
    BY <2>2, CountsSetKeeps
  <2>3. CASE Gained(c) \/ Lost(c) \/ Shifted(c) \/ Recounted(c)
    BY <2>3, SingleChangesKeep
  <2>4. CASE Shipped(c)
    BY <2>4, ShippedKeeps
  <2>5. CASE Allocated(c)
    BY <2>5, AllocatedKeeps
  <2>6. CASE Held(c)
    BY <2>6, HeldKeeps
  <2>7. CASE Released(c)
    BY <2>7, ReleasedKeeps
  <2>8. CASE LocationDeleted(c)
    BY <2>8, LocationDeletedKeeps
  <2>9. CASE Refuse(c) \/ DeadlockVictim(c)
    BY <2>9, RollbackKeeps DEF Refuse, DeadlockVictim
  <2> QED
    BY <1>2, <2>1, <2>2, <2>3, <2>4, <2>5, <2>6, <2>7, <2>8, <2>9 DEF Work
<1>3. ASSUME NEW c \in Client, ConnectionLost(c) PROVE StockInv'
  BY <1>3, RollbackKeeps DEF ConnectionLost
<1>4. CASE UpsertLocation
  BY <1>4, UpsertLocationKeeps
<1>5. CASE HardDeleteProduct
  BY <1>5, HardDeleteKeeps
<1>6. CASE UNCHANGED vars
  BY <1>6 DEF vars, tables, sessions, StockInv, TypeOK, OnHandCoversReserved, LockedIsCurrent,
              UnitsAreCounted, Active, Counts
<1> QED
  BY <1>1, <1>2, <1>3, <1>4, <1>5, <1>6 DEF Next

LEMMA StockInvariant == Spec => []StockInv
<1> QED
  BY InitHolds, NextKeeps, PTL DEF Spec

(* Every variable has its type in every reachable state; in particular no  *)
(* location counts fewer than no units or more than the catalog allows.    *)
THEOREM StockIsTyped == Spec => []TypeOK
<1>1. StockInv => TypeOK
  BY DEF StockInv
<1> QED
  BY <1>1, StockInvariant, PTL

(* No location ever has more units promised to customers than it has in    *)
(* the building, whatever counts, sales, shipments, reservations, releases *)
(* and deletions run beside each other, whichever of them are refused, cut *)
(* off or aborted to break a deadlock.                                     *)
THEOREM PromisesAreCovered == Spec => []OnHandCoversReserved
<1>1. StockInv => OnHandCoversReserved
  BY DEF StockInv
<1> QED
  BY <1>1, StockInvariant, PTL

(* Who holds the lock of a row has read it as it is committed: what was    *)
(* checked under the lock still holds at the commit.                       *)
THEOREM LockedRowsAreCurrent == Spec => []LockedIsCurrent
<1>1. StockInv => LockedIsCurrent
  BY DEF StockInv
<1> QED
  BY <1>1, StockInvariant, PTL

-----------------------------------------------------------------------------
(* The books: the invariant *)

(* A row is there, or being made, only at an open location of a listed     *)
(* variant; deleted locations are not opened again.                        *)
RowsAreOpen ==
    \A p \in Place : p \in rows \/ lock[p] # Nobody => listed /\ site[p] = "open"

(* Only sessions at work hold locks.                                       *)
LockersWork == \A p \in Place, c \in Client : lock[p] = c => Active(c)

(* Nothing is in stock, and nothing promised, where there is no row.       *)
NoRowNoStock ==
    \A p \in Place \ rows :
        stock[p] = NoStock /\ \A r \in Reservation : holds[r][p] = 0

(* A reservation not yet issued holds nothing.                             *)
IssuedFirst == \A r \in Reservation \ issued : holds[r] = NoUnits /\ freed[r] = {}

(* A reservation that was released has a RELEASE row wherever it holds.    *)
ReleasedWhole ==
    \A r \in Reservation : freed[r] # {} =>
        \A p \in Place : holds[r][p] > 0 => p \in freed[r]

(* The locations whose rows a request must have locked when it commits.    *)
Needs(j) ==
    CASE j.op \in {"gain", "lose", "shift", "recount"} -> {j.at}
      [] j.op = "ship" -> {j.at, j.to}
      [] j.op \in {"allocated", "release"} -> {p \in Place : j.share[p] > 0}
      [] OTHER -> {}
PlanCovers(c, j) == \A p \in Needs(j) : lock[p] = c \/ p \in ToSet(j.plan)

(* A shipment takes its rows in the order of their locations' ids.         *)
TakesInOrder(c, j) ==
    /\ j.at # j.to
    /\ ById(j.plan)
    /\ \A p \in Place, i \in DOMAIN j.plan : lock[p] = c => p < j.plan[i]

(* A reservation being made holds nothing yet and is nobody else's.        *)
Reserving == {"hold", "allocated"}
HoldsNothingYet(j) == j.ref \in issued /\ holds[j.ref] = NoUnits /\ freed[j.ref] = {}

(* What a release has read is what is held, or the location is gone.       *)
Gone(p) == ~ listed \/ site[p] = "deleted"
KnowsWhatIsHeld(j) ==
    /\ j.ref \in issued
    /\ \E p \in Place : j.share[p] > 0
    /\ \A p \in Place :
          \/ holds[j.ref][p] = j.share[p]
          \/ holds[j.ref][p] = 0 /\ Gone(p)

Sound(c, j) ==
    /\ PlanCovers(c, j)
    /\ j.op = "ship" => TakesInOrder(c, j)
    /\ j.op \in Reserving => HoldsNothingYet(j)
    /\ j.op = "release" => KnowsWhatIsHeld(j)

JobsAreSound == \A c \in Client : Active(c) => Sound(c, job[c])
OwnReservations ==
    \A c, d \in Client :
        /\ c # d
        /\ job[c].op \in Reserving
        /\ job[d].op \in Reserving \cup {"release"}
        => job[c].ref # job[d].ref

TotalsTyped == totals \in [Place -> [Fields -> Int]]

RowsInv == RowsAreOpen /\ LockersWork /\ NoRowNoStock
HoldsInv == IssuedFirst /\ ReleasedWhole /\ OwnReservations
BooksInv ==
    /\ StockInv /\ RowsInv /\ HoldsInv /\ JobsAreSound
    /\ TotalsTyped /\ BooksExplainStock

-----------------------------------------------------------------------------
(* What keeps a job sound *)

LEMMA StaysSound ==
    ASSUME NEW c \in Client, NEW j \in Jobs, Sound(c, j),
           \A p \in Place : lock[p] = c <=> lock'[p] = c,
           issued \subseteq issued',
           j.op \in Reserving => holds'[j.ref] = holds[j.ref] /\ freed'[j.ref] = freed[j.ref],
           j.op = "release" => \A p \in Place :
              \/ holds'[j.ref][p] = holds[j.ref][p] /\ (Gone(p) => Gone(p)')
              \/ holds'[j.ref][p] = 0 /\ Gone(p)'
    PROVE  Sound(c, j)'
<1>1. PlanCovers(c, j)'
  <2>1. Needs(j) \subseteq Place
    BY DEF Needs, Jobs
  <2> QED
    BY <2>1 DEF Sound, PlanCovers
<1>2. j.op = "ship" => TakesInOrder(c, j)'
  BY DEF Sound, TakesInOrder
<1>3. j.op \in Reserving => HoldsNothingYet(j)'
  BY DEF Sound, HoldsNothingYet
<1>4. j.op = "release" => KnowsWhatIsHeld(j)'
  BY DEF Sound, KnowsWhatIsHeld
<1> QED
  BY <1>1, <1>2, <1>3, <1>4 DEF Sound

(* The jobs of the others, when one session's job ends or goes on with the *)
(* reservation it has.                                                     *)
LEMMA OwnStay ==
    ASSUME OwnReservations, job \in [Client -> Jobs \cup {NoJob}],
           NEW c \in Client, NEW j, job' = [job EXCEPT ![c] = j],
           j = NoJob \/ /\ j.ref = job[c].ref
                        /\ j.op \in Reserving => job[c].op \in Reserving
                        /\ j.op = "release" => job[c].op = "release"
    PROVE  OwnReservations'
<1>1. NoJob.op \notin Reserving \cup {"release"}
  BY DEF NoJob, Reserving
<1> QED
  BY <1>1 DEF OwnReservations, Reserving

LEMMA BeginBooks ==
    ASSUME BooksInv, NEW c \in Client, NEW j \in Jobs, Counts(j), Begin(c, j),
           \/ issued' = issued /\ j.op \notin Reserving
           \/ j.ref \notin issued /\ issued' = issued \cup {j.ref} /\ j.op # "release",
           Needs(j) \subseteq ToSet(j.plan),
           j.op = "ship" => j.at # j.to /\ ById(j.plan),
           j.op = "release" => j.share = holds[j.ref] /\ j.share # NoUnits
    PROVE  BooksInv'
<1>1. /\ stock' = stock /\ holds' = holds /\ rows' = rows /\ site' = site /\ sellable' = sellable
      /\ listed' = listed /\ totals' = totals /\ freed' = freed /\ twice' = twice
      /\ lock' = lock /\ seen' = seen /\ job' = [job EXCEPT ![c] = j]
      /\ ~ Active(c)
  BY DEF Begin
<1>2. /\ j.ref \in Reservation /\ job \in [Client -> Jobs \cup {NoJob}]
      /\ issued \subseteq Reservation /\ issued' \subseteq Reservation /\ issued \subseteq issued'
      /\ holds \in [Reservation -> [Place -> Nat]]
  BY DEF BooksInv, StockInv, TypeOK, Jobs
<1>3. StockInv'
  BY <1>2, BeginKeeps DEF BooksInv
<1>4. \A p \in Place : lock[p] # c
  BY <1>1 DEF BooksInv, RowsInv, LockersWork
<1>5. RowsInv'
  <2>1. LockersWork'
    BY <1>1, <1>2, <1>4 DEF BooksInv, RowsInv, LockersWork, Active
  <2>2. RowsAreOpen' /\ NoRowNoStock'
    BY <1>1 DEF BooksInv, RowsInv, RowsAreOpen, NoRowNoStock
  <2> QED
    BY <2>1, <2>2 DEF RowsInv
<1>6. Sound(c, j)'
  <2>1. PlanCovers(c, j)'
    BY DEF PlanCovers
  <2>2. j.op = "ship" => TakesInOrder(c, j)'
    BY <1>1, <1>4 DEF TakesInOrder
  <2>3. j.op \in Reserving => HoldsNothingYet(j)'
    BY <1>1, <1>2 DEF HoldsNothingYet, BooksInv, HoldsInv, IssuedFirst
  <2>4. j.op = "release" => KnowsWhatIsHeld(j)'
    <3> SUFFICES ASSUME j.op = "release" PROVE KnowsWhatIsHeld(j)'
      OBVIOUS
    <3>1. holds[j.ref] # NoUnits /\ holds[j.ref] = j.share
      OBVIOUS
    <3>2. j.ref \in issued
      BY <1>2, <3>1 DEF BooksInv, HoldsInv, IssuedFirst
    <3>3. \E p \in Place : j.share[p] > 0
      BY <1>2, <3>1 DEF NoUnits
    <3> QED
      BY <1>1, <1>2, <3>1, <3>2, <3>3 DEF KnowsWhatIsHeld
  <2> QED
    BY <2>1, <2>2, <2>3, <2>4 DEF Sound
<1>7. JobsAreSound'
  <2> SUFFICES ASSUME NEW d \in Client, Active(d)', NEW k, k = job'[d] PROVE Sound(d, k)'
    BY DEF JobsAreSound, Sound, PlanCovers, TakesInOrder, HoldsNothingYet, KnowsWhatIsHeld
  <2>1. CASE d = c
    BY <1>1, <1>2, <1>6, <2>1
  <2>2. CASE d # c
    <3>1. k = job[d] /\ Active(d) /\ k \in Jobs
      BY <1>1, <1>2, <2>2 DEF Active
    <3>2. Sound(d, k)
      BY <3>1 DEF BooksInv, JobsAreSound
    <3> QED
      BY <1>1, <1>2, <3>1, <3>2, StaysSound DEF Gone
  <2> QED
    BY <2>1, <2>2
<1>8. OwnReservations'
  <2>1. NoJob.op \notin Reserving \cup {"release"}
    BY DEF NoJob, Reserving
  <2>2. ASSUME NEW d \in Client, d # c, job[d].op \in Reserving
        PROVE  job[d].ref \in issued /\ holds[job[d].ref] = NoUnits
    <3>1. Active(d)
      BY <2>1, <2>2 DEF Active
    <3> QED
      BY <2>2, <3>1 DEF BooksInv, JobsAreSound, Sound, HoldsNothingYet
  <2>3. ASSUME NEW d \in Client, d # c, job[d].op = "release"
        PROVE  job[d].ref \in issued
    <3>1. Active(d)
      BY <2>1, <2>3 DEF Active
    <3> QED
      BY <2>3, <3>1 DEF BooksInv, JobsAreSound, Sound, KnowsWhatIsHeld
  <2> SUFFICES ASSUME NEW d \in Client, d # c
               PROVE  /\ j.op \in Reserving /\ job[d].op \in Reserving \cup {"release"} => j.ref # job[d].ref
                      /\ job[d].op \in Reserving /\ j.op \in Reserving \cup {"release"} => j.ref # job[d].ref
    BY <1>1, <1>2 DEF OwnReservations, BooksInv, HoldsInv
  <2> QED
    BY <2>2, <2>3
<1>9. IssuedFirst' /\ ReleasedWhole'
  BY <1>1, <1>2 DEF BooksInv, HoldsInv, IssuedFirst, ReleasedWhole
<1>10. TotalsTyped' /\ BooksExplainStock'
  BY <1>1 DEF BooksInv, TotalsTyped, BooksExplainStock, HoldsAreReserved, TotalsExplainStock
<1> QED
  BY <1>3, <1>5, <1>7, <1>8, <1>9, <1>10 DEF BooksInv, HoldsInv

-----------------------------------------------------------------------------
(* Requests *)

LEMMA OrdersCover ==
    ASSUME NEW places \in SUBSET Place, NEW plan \in Orders(places)
    PROVE  plan \in Seq(Place) /\ ToSet(plan) = places
<1>1. IsFiniteSet(places)
  BY PlaceAssumption, FS_Subset
<1>2. plan \in [1 .. Cardinality(places) -> places] /\ \A i, k \in DOMAIN plan : i # k => plan[i] # plan[k]
  BY DEF Orders
<1> QED
  BY <1>1, <1>2, EachListedOnce, OrdersAreSequences

LEMMA BlankHas ==
    ASSUME NEW op \in Ops, NEW p \in Place
    PROVE  \E b \in Jobs : b = Blank(op, p) /\ b.op = op /\ b.at = p /\ ToSet(b.plan) = {p}
<1>1. Blank(op, p) \in Jobs /\ Blank(op, p).op = op /\ Blank(op, p).at = p /\ Blank(op, p).plan = <<p>>
  BY BlankFields DEF Blank, Jobs
<1>2. ToSet(<<p>>) = {p}
  BY DEF ToSet
<1> QED
  BY <1>1, <1>2, Zenon

(* A change of the stock of one location.                                  *)
LEMMA QuantityBooks ==
    ASSUME BooksInv, NEW c \in Client, NEW op \in {"gain", "lose", "shift"}, NEW p \in Place,
           NEW n \in Int, NEW why \in Reasons, op = "shift" \/ n \in Nat, issued' = issued,
           \/ Begin(c, [Blank(op, p) EXCEPT !.qty = n])
           \/ Begin(c, [Blank(op, p) EXCEPT !.qty = n, !.reason = why])
    PROVE  BooksInv'
<1>1. op \in Ops
  BY DEF Ops
<1>2. PICK b \in Jobs : b = Blank(op, p) /\ b.op = op /\ b.at = p /\ ToSet(b.plan) = {p}
  BY <1>1, BlankHas
<1>3. PICK j : /\ Begin(c, j)
               /\ j = [b EXCEPT !.qty = n] \/ j = [b EXCEPT !.qty = n, !.reason = why]
  BY <1>2, Zenon
<1>4. j \in Jobs /\ j.op = op /\ j.at = p /\ j.plan = b.plan /\ j.qty = n
  BY <1>2, <1>3 DEF Jobs
<1>5. Counts(j)
  BY <1>4 DEF Counts
<1>6. Needs(j) = {p}
  BY <1>4 DEF Needs
<1>7. /\ Needs(j) \subseteq ToSet(j.plan)
      /\ j.op \notin Reserving /\ j.op # "release" /\ j.op # "ship"
  BY <1>2, <1>4, <1>6 DEF Reserving
<1> QED
  BY <1>3, <1>4, <1>5, <1>7, BeginBooks

LEMMA RequestBooks ==
    ASSUME BooksInv, NEW c \in Client, Request(c)
    PROVE  BooksInv'
<1>1. Open \subseteq Place
  BY DEF Open
<1>2. rows \subseteq Place /\ stock \in [Place -> Level] /\ holds \in [Reservation -> [Place -> Nat]]
  BY DEF BooksInv, StockInv, TypeOK
<1>3. CASE SetStock(c)
  <2>1. PICK places \in (SUBSET Open) \ {{}}, reason \in {"RESTOCK", "ADJUST"}, rights \in BOOLEAN :
          \E plan \in Orders(places), counts \in [places -> Quantities \cup {0}] :
            /\ Begin(c, [Blank("count", plan[1]) EXCEPT
                    !.reason = reason, !.rights = rights, !.plan = plan,
                    !.share = [p \in Place |-> IF p \in places THEN counts[p] ELSE 0]])
            /\ UNCHANGED issued
    BY <1>3 DEF SetStock
  <2>2. PICK plan \in Orders(places), counts \in [places -> Quantities \cup {0}] :
            /\ Begin(c, [Blank("count", plan[1]) EXCEPT
                    !.reason = reason, !.rights = rights, !.plan = plan,
                    !.share = [p \in Place |-> IF p \in places THEN counts[p] ELSE 0]])
            /\ UNCHANGED issued
    BY <2>1, Zenon
  <2>3. places \in SUBSET Place /\ places # {}
    BY <1>1
  <2>4. plan \in Seq(Place) /\ ToSet(plan) = places
    BY <2>3, OrdersCover
  <2>5. PICK p \in Place : p = plan[1]
    <3>1. plan # << >>
      BY <2>3, <2>4 DEF ToSet
    <3> QED
      BY <2>4, <3>1
  <2>6. PICK units \in [Place -> Nat] :
          units = [q \in Place |-> IF q \in places THEN counts[q] ELSE 0]
    <3>1. Quantities \cup {0} \subseteq Nat
      BY QuantitiesAssumption
    <3>2. \A q \in places : counts[q] \in Quantities \cup {0}
      OBVIOUS
    <3> QED
      BY <3>1, <3>2
  <2>7. "count" \in Ops /\ reason \in Reasons
    BY DEF Ops, Reasons
  <2>8. PICK b \in Jobs : b = Blank("count", p) /\ b.op = "count"
    BY <2>7, BlankHas
  <2>9. PICK j : j = [b EXCEPT !.reason = reason, !.rights = rights, !.plan = plan, !.share = units]
    OBVIOUS
  <2>10. Begin(c, j)
    BY <2>2, <2>5, <2>6, <2>8, <2>9, Zenon
  <2>11. j \in Jobs /\ j.op = "count"
    BY <2>4, <2>7, <2>8, <2>9 DEF Jobs
  <2>12. /\ Counts(j) /\ Needs(j) = {}
         /\ j.op \notin Reserving /\ j.op # "release" /\ j.op # "ship"
    BY <2>11 DEF Counts, Needs, Reserving
  <2> QED
    BY <2>2, <2>10, <2>11, <2>12, BeginBooks
<1>4. CASE AdjustStock(c)
  <2>1. PICK p \in Open, qty \in Quantities, reason \in {"RESTOCK", "SALE", "DAMAGE", "ADJUST"} :
          /\ \/ Begin(c, [Blank("gain", p) EXCEPT !.qty = qty])
             \/ Begin(c, [Blank("lose", p) EXCEPT !.qty = qty, !.reason = reason])
             \/ \E delta \in {qty, -qty} : Begin(c, [Blank("shift", p) EXCEPT !.qty = delta])
          /\ UNCHANGED issued
    BY <1>4, Zenon DEF AdjustStock
  <2>2. p \in Place /\ qty \in Nat /\ qty \in Int /\ -qty \in Int
    BY <1>1, QuantitiesAssumption
  <2>3. reason \in Reasons
    BY DEF Reasons
  <2>4. {"gain", "lose"} \subseteq {"gain", "lose", "shift"}
        /\ "shift" \in {"gain", "lose", "shift"}
    OBVIOUS
  <2> QED
    BY <2>1, <2>2, <2>3, <2>4, QuantityBooks, Zenon
<1>5. CASE RecordMovement(c)
  <2>1. PICK p \in Open, qty \in Quantities :
          /\ \/ \E reason \in {"RESTOCK", "RETURN", "RETURN, DAMAGE"} :
                  Begin(c, [Blank("gain", p) EXCEPT !.qty = qty, !.reason = reason])
             \/ \E reason \in {"SALE", "DAMAGE", "LOST"} :
                  Begin(c, [Blank("lose", p) EXCEPT !.qty = qty, !.reason = reason])
          /\ UNCHANGED issued
    BY <1>5, Zenon DEF RecordMovement
  <2>2. p \in Place /\ qty \in Nat /\ qty \in Int
    BY <1>1, QuantitiesAssumption
  <2>3. {"RESTOCK", "RETURN", "RETURN, DAMAGE", "SALE", "DAMAGE", "LOST"} \subseteq Reasons
    BY DEF Reasons
  <2>4. "gain" \in {"gain", "lose", "shift"} /\ "lose" \in {"gain", "lose", "shift"}
    OBVIOUS
  <2> QED
    BY <2>1, <2>2, <2>3, <2>4, QuantityBooks, Zenon
<1>6. CASE CorrectCount(c)
  <2>1. PICK p \in Open, count \in Quantities \cup {0} :
          \E expected \in {stock[p].onHand, Unsaid} :
            /\ Begin(c, [Blank("recount", p) EXCEPT
                    !.qty = count, !.share = [NoUnits EXCEPT ![p] = expected]])
            /\ UNCHANGED issued
    BY <1>6, Zenon DEF CorrectCount
  <2>2. PICK expected \in {stock[p].onHand, Unsaid} :
          /\ Begin(c, [Blank("recount", p) EXCEPT
                  !.qty = count, !.share = [NoUnits EXCEPT ![p] = expected]])
          /\ UNCHANGED issued
    BY <2>1
  <2>3. p \in Place /\ count \in Int /\ "recount" \in Ops
    BY <1>1, QuantitiesAssumption DEF Ops
  <2>4. expected \in Nat
    BY <1>2, <2>3, MaxOnHandAssumption DEF Level, Unsaid
  <2>5. PICK units \in [Place -> Nat] : units = [NoUnits EXCEPT ![p] = expected]
    BY <2>3, <2>4 DEF NoUnits
  <2>6. PICK b \in Jobs : b = Blank("recount", p) /\ b.op = "recount" /\ b.at = p /\ ToSet(b.plan) = {p}
    BY <2>3, BlankHas
  <2>7. PICK j : j = [b EXCEPT !.qty = count, !.share = units]
    OBVIOUS
  <2>8. Begin(c, j)
    BY <2>2, <2>5, <2>6, <2>7, Zenon
  <2>9. j \in Jobs /\ j.op = "recount" /\ j.at = p /\ ToSet(j.plan) = {p}
    BY <2>3, <2>6, <2>7 DEF Jobs
  <2>10. /\ Counts(j) /\ Needs(j) = {p}
         /\ j.op \notin Reserving /\ j.op # "release" /\ j.op # "ship"
    BY <2>9 DEF Counts, Needs, Reserving
  <2> QED
    BY <2>2, <2>8, <2>9, <2>10, BeginBooks
<1>7. CASE Transfer(c)
  <2>1. PICK p \in Open, to \in Open, qty \in Quantities :
          \E plan \in Orders({p, to}) :
            /\ p # to /\ ById(plan)
            /\ Begin(c, [Blank("ship", p) EXCEPT !.to = to, !.qty = qty, !.plan = plan])
            /\ UNCHANGED issued
    BY <1>7, Zenon DEF Transfer
  <2>2. PICK plan \in Orders({p, to}) :
          /\ p # to /\ ById(plan)
          /\ Begin(c, [Blank("ship", p) EXCEPT !.to = to, !.qty = qty, !.plan = plan])
          /\ UNCHANGED issued
    BY <2>1
  <2>3. p \in Place /\ to \in Place /\ qty \in Nat /\ "ship" \in Ops
    BY <1>1, QuantitiesAssumption DEF Ops
  <2>4. plan \in Seq(Place) /\ ToSet(plan) = {p, to}
    BY <2>3, OrdersCover
  <2>5. PICK b \in Jobs : b = Blank("ship", p) /\ b.op = "ship" /\ b.at = p
    BY <2>3, BlankHas
  <2>6. PICK j : j = [b EXCEPT !.to = to, !.qty = qty, !.plan = plan]
    OBVIOUS
  <2>7. Begin(c, j)
    BY <2>2, <2>5, <2>6, Zenon
  <2>8. j \in Jobs /\ j.op = "ship" /\ j.at = p /\ j.to = to /\ j.qty = qty /\ j.plan = plan
    <3>1. PICK n \in Int, q \in Place, order \in Seq(Place) : n = qty /\ q = to /\ order = plan
      BY <2>3, <2>4
    <3>2. j = [b EXCEPT !.to = q, !.qty = n, !.plan = order]
      BY <2>6, <3>1, Zenon
    <3> QED
      BY <2>5, <3>1, <3>2 DEF Jobs
  <2>9. /\ Counts(j) /\ Needs(j) = {p, to}
        /\ j.op \notin Reserving /\ j.op # "release"
    BY <2>3, <2>8 DEF Counts, Needs, Reserving
  <2> QED
    BY <2>2, <2>4, <2>7, <2>8, <2>9, BeginBooks
<1>8. CASE ReserveAt(c)
  <2>1. PICK p \in Open \cap sellable, qty \in Wanted, r \in Reservation \ issued :
          /\ Begin(c, [Blank("allocated", p) EXCEPT
                  !.share = [NoUnits EXCEPT ![p] = qty], !.ref = r])
          /\ issued' = issued \cup {r}
    BY <1>8, Zenon DEF ReserveAt
  <2>2. p \in Place /\ qty \in Nat /\ "allocated" \in Ops
    BY <1>1, WantedAssumption DEF Ops
  <2>3. PICK units \in [Place -> Nat] : units = [NoUnits EXCEPT ![p] = qty]
    BY <2>2 DEF NoUnits
  <2>4. \A q \in Place : units[q] > 0 => q = p
    BY <2>3 DEF NoUnits
  <2>5. PICK b \in Jobs : b = Blank("allocated", p) /\ b.op = "allocated" /\ ToSet(b.plan) = {p}
    BY <2>2, BlankHas
  <2>6. PICK j : j = [b EXCEPT !.share = units, !.ref = r]
    OBVIOUS
  <2>7. Begin(c, j)
    BY <2>1, <2>3, <2>5, <2>6, Zenon
  <2>8. j \in Jobs /\ j.op = "allocated" /\ j.share = units /\ j.ref = r /\ ToSet(j.plan) = {p}
    BY <2>5, <2>6 DEF Jobs
  <2>9. Counts(j) /\ Needs(j) \subseteq {p}
    BY <2>4, <2>8 DEF Counts, Needs
  <2> QED
    BY <2>1, <2>7, <2>8, <2>9, BeginBooks
<1>9. CASE Reserve(c)
  <2>1. PICK qty \in Wanted, r \in Reservation \ issued, plan \in Orders(rows \cap sellable) :
          /\ Begin(c, [Blank("hold", Anywhere) EXCEPT !.qty = qty, !.ref = r, !.plan = plan])
          /\ issued' = issued \cup {r}
    BY <1>9, Zenon DEF Reserve
  <2>2. qty \in Int /\ "hold" \in Ops
    BY WantedAssumption DEF Ops
  <2>3. plan \in Seq(Place)
    BY <1>2, OrdersAreSequences
  <2>4. PICK b \in Jobs : b = Blank("hold", Anywhere) /\ b.op = "hold"
    BY <2>2, SomePlace, BlankHas
  <2>5. PICK j : j = [b EXCEPT !.qty = qty, !.ref = r, !.plan = plan]
    OBVIOUS
  <2>6. Begin(c, j)
    BY <2>1, <2>4, <2>5, Zenon
  <2>7. j \in Jobs /\ j.op = "hold" /\ j.ref = r
    BY <2>2, <2>3, <2>4, <2>5 DEF Jobs
  <2>8. Counts(j) /\ Needs(j) = {}
    BY <2>7 DEF Counts, Needs
  <2> QED
    BY <2>1, <2>6, <2>7, <2>8, BeginBooks
<1>10. CASE Release(c)
  <2>1. PICK r \in Reservation : \E plan \in Orders({p \in Place : holds[r][p] > 0}) :
          /\ holds[r] # NoUnits
          /\ Begin(c, [Blank("release", Anywhere) EXCEPT
                  !.share = holds[r], !.ref = r, !.plan = plan])
          /\ UNCHANGED issued
    BY <1>10, Zenon DEF Release
  <2>2. PICK plan \in Orders({p \in Place : holds[r][p] > 0}) :
          /\ holds[r] # NoUnits
          /\ Begin(c, [Blank("release", Anywhere) EXCEPT
                  !.share = holds[r], !.ref = r, !.plan = plan])
          /\ UNCHANGED issued
    BY <2>1
  <2>3. PICK units \in [Place -> Nat] : units = holds[r]
    BY <1>2
  <2>4. plan \in Seq(Place) /\ ToSet(plan) = {p \in Place : units[p] > 0}
    BY <2>3, OrdersCover
  <2>5. "release" \in Ops
    BY DEF Ops
  <2>6. PICK b \in Jobs : b = Blank("release", Anywhere) /\ b.op = "release"
    BY <2>5, SomePlace, BlankHas
  <2>7. PICK j : j = [b EXCEPT !.share = units, !.ref = r, !.plan = plan]
    OBVIOUS
  <2>8. Begin(c, j)
    BY <2>2, <2>3, <2>6, <2>7, Zenon
  <2>9. j \in Jobs /\ j.op = "release" /\ j.share = units /\ j.ref = r /\ j.plan = plan
    BY <2>4, <2>6, <2>7 DEF Jobs
  <2>10. Counts(j) /\ Needs(j) = {p \in Place : units[p] > 0} /\ j.op \notin Reserving
    BY <2>9 DEF Counts, Needs, Reserving
  <2> QED
    BY <2>2, <2>3, <2>4, <2>8, <2>9, <2>10, BeginBooks
<1>11. CASE DeleteLocation(c)
  <2>1. PICK p \in Open :
          /\ Begin(c, [Blank("delete", p) EXCEPT !.plan = << >>])
          /\ UNCHANGED issued
    BY <1>11, Zenon DEF DeleteLocation
  <2>2. p \in Place /\ "delete" \in Ops
    BY <1>1 DEF Ops
  <2>3. PICK plan \in Seq(Place) : plan = << >>
    <3>1. << >> \in Seq(Place)
      OBVIOUS
    <3> QED
      BY <3>1, Zenon
  <2>4. PICK b \in Jobs : b = Blank("delete", p) /\ b.op = "delete"
    BY <2>2, BlankHas
  <2>5. PICK j : j = [b EXCEPT !.plan = plan]
    OBVIOUS
  <2>6. Begin(c, j)
    BY <2>1, <2>3, <2>4, <2>5, Zenon
  <2>7. j \in Jobs /\ j.op = "delete"
    BY <2>3, <2>4, <2>5 DEF Jobs
  <2>8. /\ Counts(j) /\ Needs(j) = {}
        /\ j.op \notin Reserving /\ j.op # "release" /\ j.op # "ship"
    BY <2>7 DEF Counts, Needs, Reserving
  <2> QED
    BY <2>1, <2>6, <2>7, <2>8, BeginBooks
<1> QED
  BY <1>3, <1>4, <1>5, <1>6, <1>7, <1>8, <1>9, <1>10, <1>11 DEF Request

-----------------------------------------------------------------------------
(* Steps of a session *)

(* When a session's transaction ends, its locks are gone and the others'   *)
(* are as they were.                                                       *)
LEMMA Ended ==
    ASSUME BooksInv, NEW c \in Client, End(c)
    PROVE  /\ job' = [job EXCEPT ![c] = NoJob]
           /\ \A p \in Place : lock'[p] = IF lock[p] = c THEN Nobody ELSE lock[p]
           /\ \A d \in Client \ {c}, p \in Place : lock[p] = d <=> lock'[p] = d
           /\ LockersWork'
           /\ OwnReservations'
           /\ \A d \in Client : Active(d)' => d # c /\ job'[d] = job[d] /\ Active(d)
<1>1. job' = [job EXCEPT ![c] = NoJob] /\ job \in [Client -> Jobs \cup {NoJob}]
  BY DEF End, BooksInv, StockInv, TypeOK
<1>2. \A p \in Place : lock'[p] = IF lock[p] = c THEN Nobody ELSE lock[p]
  BY DEF End, Unlocked
<1>3. \A d \in Client \ {c}, p \in Place : lock[p] = d <=> lock'[p] = d
  BY <1>2, NobodyAssumption
<1>4. LockersWork'
  BY <1>1, <1>2, NobodyAssumption DEF BooksInv, RowsInv, LockersWork, Active
<1>5. OwnReservations'
  BY <1>1, OwnStay DEF BooksInv, HoldsInv
<1>6. \A d \in Client : Active(d)' => d # c /\ job'[d] = job[d] /\ Active(d)
  BY <1>1 DEF Active
<1> QED
  BY <1>1, <1>2, <1>3, <1>4, <1>5, <1>6

(* The jobs of the others stay sound, if what they rest on stays.          *)
LEMMA OthersStaySound ==
    ASSUME BooksInv, NEW c \in Client, End(c), issued' = issued,
           \A d \in Client : d # c /\ Active(d) =>
              LET j == job[d] IN
              /\ j.op \in Reserving => holds'[j.ref] = holds[j.ref] /\ freed'[j.ref] = freed[j.ref]
              /\ j.op = "release" => \A p \in Place :
                    \/ holds'[j.ref][p] = holds[j.ref][p] /\ (Gone(p) => Gone(p)')
                    \/ holds'[j.ref][p] = 0 /\ Gone(p)'
    PROVE  JobsAreSound'
<1> SUFFICES ASSUME NEW d \in Client, Active(d)', NEW j, j = job'[d] PROVE Sound(d, j)'
  BY DEF JobsAreSound, Sound, PlanCovers, TakesInOrder, HoldsNothingYet, KnowsWhatIsHeld
<1>1. d # c /\ j = job[d] /\ Active(d) /\ \A p \in Place : lock[p] = d <=> lock'[p] = d
  BY Ended
<1>2. j \in Jobs /\ Sound(d, j)
  BY <1>1, AtWork DEF BooksInv, JobsAreSound
<1> QED
  BY <1>1, <1>2, StaysSound

LEMMA RollbackBooks ==
    ASSUME BooksInv, NEW c \in Client, Rollback(c)
    PROVE  BooksInv'
<1>1. /\ End(c) /\ stock' = stock /\ holds' = holds /\ rows' = rows /\ site' = site /\ sellable' = sellable
      /\ listed' = listed /\ totals' = totals /\ issued' = issued /\ freed' = freed /\ twice' = twice
  BY DEF Rollback, tables
<1>2. StockInv'
  BY RollbackKeeps DEF BooksInv
<1>3. RowsInv'
  BY <1>1, Ended DEF BooksInv, RowsInv, RowsAreOpen, NoRowNoStock
<1>4. HoldsInv'
  BY <1>1, Ended DEF BooksInv, HoldsInv, IssuedFirst, ReleasedWhole
<1>5. JobsAreSound'
  BY <1>1, OthersStaySound DEF Gone
<1>6. TotalsTyped' /\ BooksExplainStock'
  BY <1>1 DEF BooksInv, TotalsTyped, BooksExplainStock, HoldsAreReserved, TotalsExplainStock
<1> QED
  BY <1>2, <1>3, <1>4, <1>5, <1>6 DEF BooksInv

(* A row is taken: of the session's job only the plan gets shorter.        *)
LEMMA LockBooks ==
    ASSUME BooksInv, NEW c \in Client, Lock(c)
    PROVE  BooksInv'
<1>1. /\ Active(c) /\ job[c].plan # << >> /\ lock[Next1(c)] = Nobody
      /\ ~ Missing(c)
  BY DEF Lock, Blocked, Waiting
<1>2. PICK j \in Jobs : j = job[c] /\ Sound(c, j) /\ j.plan \in Seq(Place)
  BY <1>1, AtWork DEF BooksInv, JobsAreSound, Jobs
<1>3. PICK p \in Place : p = Head(j.plan) /\ p = Next1(c)
  BY <1>1, <1>2 DEF Next1
<1>4. /\ stock' = stock /\ holds' = holds /\ rows' = rows /\ site' = site /\ sellable' = sellable
      /\ listed' = listed /\ totals' = totals /\ issued' = issued /\ freed' = freed /\ twice' = twice
  BY DEF Lock, tables
<1>5. PICK k : k = [j EXCEPT !.plan = Tail(j.plan)]
  OBVIOUS
<1>6. job' = [job EXCEPT ![c] = k]
  BY <1>2, <1>5 DEF Lock
<1>7. /\ k \in Jobs /\ k.op = j.op /\ k.ref = j.ref /\ k.at = j.at /\ k.to = j.to /\ k.share = j.share
      /\ k.plan = Tail(j.plan)
  <2>1. PICK rest \in Seq(Place) : rest = Tail(j.plan)
    BY <1>1, <1>2, HeadAndTail
  <2> QED
    BY <1>2, <1>5, <2>1 DEF Jobs
<1>8. \/ lock' = lock /\ j.op = "hold"
      \/ lock' = [lock EXCEPT ![p] = c] /\ listed /\ site[p] = "open"
  <2> DEFINE passed == job[c].op = "hold" /\ Next1(c) \notin rows
  <2>1. lock' = IF passed THEN lock ELSE [lock EXCEPT ![Next1(c)] = c]
    BY Zenon DEF Lock
  <2>2. Waiting(c)
    BY DEF Lock
  <2>3. ~ passed => listed /\ site[p] = "open"
    BY <1>1, <1>2, <1>3, <2>2 DEF Missing, BooksInv, RowsInv, RowsAreOpen
  <2> HIDE DEF passed
  <2> QED
    BY <1>2, <1>3, <2>1, <2>3 DEF passed
<1>9. /\ job \in [Client -> Jobs \cup {NoJob}] /\ lock \in [Place -> Client \cup {Nobody}]
      /\ \A d \in Client \ {c}, q \in Place : lock[q] = d <=> lock'[q] = d
      /\ \A q \in Place : lock[q] = c => lock'[q] = c
      /\ \A q \in Place : lock'[q] = c => lock[q] = c \/ q = p
      /\ j.op # "hold" => lock'[p] = c
  <2>1. job \in [Client -> Jobs \cup {NoJob}] /\ lock \in [Place -> Client \cup {Nobody}]
    BY DEF BooksInv, StockInv, TypeOK
  <2> QED
    BY <1>1, <1>3, <1>8, <2>1, NobodyAssumption
<1>10. StockInv'
  BY LockKeeps DEF BooksInv
<1>11. RowsInv'
  <2>1. LockersWork'
    BY <1>1, <1>6, <1>7, <1>9, NoJobIsNone DEF BooksInv, RowsInv, LockersWork, Active
  <2>2. RowsAreOpen' /\ NoRowNoStock'
    BY <1>4, <1>8, <1>9 DEF BooksInv, RowsInv, RowsAreOpen, NoRowNoStock
  <2> QED
    BY <2>1, <2>2 DEF RowsInv
<1>12. HoldsInv'
  <2>1. OwnReservations'
    BY <1>2, <1>6, <1>7, <1>9, OwnStay DEF BooksInv, HoldsInv
  <2> QED
    BY <1>4, <2>1 DEF BooksInv, HoldsInv, IssuedFirst, ReleasedWhole
<1>13. Sound(c, k)'
  <2>1. ToSet(j.plan) = ToSet(k.plan) \cup {p}
    BY <1>1, <1>2, <1>3, <1>7, HeadAndTail
  <2>2. PlanCovers(c, k)'
    <3>1. CASE j.op = "hold"
      BY <1>7, <3>1 DEF PlanCovers, Needs
    <3>2. CASE j.op # "hold"
      <4>1. Needs(k) = Needs(j) /\ Needs(j) \subseteq Place
        BY <1>7 DEF Needs, Jobs
      <4> QED
        BY <1>2, <1>9, <2>1, <3>2, <4>1 DEF Sound, PlanCovers
    <3> QED
      BY <3>1, <3>2
  <2>3. k.op = "ship" => TakesInOrder(c, k)'
    <3> SUFFICES ASSUME k.op = "ship" PROVE TakesInOrder(c, k)'
      OBVIOUS
    <3>1. TakesInOrder(c, j)
      BY <1>2, <1>7 DEF Sound
    <3>2. /\ Len(j.plan) \in Nat \ {0} /\ DOMAIN j.plan = 1 .. Len(j.plan)
          /\ DOMAIN k.plan = 1 .. Len(j.plan) - 1
          /\ \A i \in DOMAIN k.plan : i + 1 \in DOMAIN j.plan /\ k.plan[i] = j.plan[i + 1]
          /\ p = j.plan[1]
      BY <1>1, <1>2, <1>3, <1>7
    <3>3. ById(k.plan)
      <4> SUFFICES ASSUME NEW i \in DOMAIN k.plan, NEW l \in DOMAIN k.plan, i < l
                   PROVE  k.plan[i] < k.plan[l]
        BY DEF ById
      <4>1. i + 1 < l + 1
        BY <3>2
      <4> QED
        BY <3>1, <3>2, <4>1 DEF TakesInOrder, ById
    <3>4. \A i \in DOMAIN k.plan : p < k.plan[i]
      <4> TAKE i \in DOMAIN k.plan
      <4>1. 1 < i + 1 /\ 1 \in DOMAIN j.plan
        BY <3>2
      <4> QED
        BY <3>1, <3>2, <4>1 DEF TakesInOrder, ById
    <3>5. \A q \in Place, i \in DOMAIN k.plan : lock'[q] = c => q < k.plan[i]
      BY <1>9, <3>1, <3>2, <3>4 DEF TakesInOrder
    <3> QED
      BY <1>7, <3>1, <3>3, <3>5 DEF TakesInOrder
  <2>4. k.op \in Reserving => HoldsNothingYet(k)'
    BY <1>2, <1>4, <1>7 DEF Sound, HoldsNothingYet
  <2>5. k.op = "release" => KnowsWhatIsHeld(k)'
    BY <1>2, <1>4, <1>7 DEF Sound, KnowsWhatIsHeld, Gone
  <2> QED
    BY <2>2, <2>3, <2>4, <2>5 DEF Sound
<1>14. JobsAreSound'
  <2> SUFFICES ASSUME NEW d \in Client, Active(d)', NEW l, l = job'[d] PROVE Sound(d, l)'
    BY DEF JobsAreSound, Sound, PlanCovers, TakesInOrder, HoldsNothingYet, KnowsWhatIsHeld
  <2>1. CASE d = c
    BY <1>6, <1>9, <1>13, <2>1
  <2>2. CASE d # c
    <3>1. l = job[d] /\ Active(d) /\ l \in Jobs
      BY <1>6, <1>9, <2>2 DEF Active
    <3>2. Sound(d, l)
      BY <3>1 DEF BooksInv, JobsAreSound
    <3> QED
      BY <1>4, <1>9, <2>2, <3>1, <3>2, StaysSound DEF Gone
  <2> QED
    BY <2>1, <2>2
<1>15. TotalsTyped' /\ BooksExplainStock'
  BY <1>4 DEF BooksInv, TotalsTyped, BooksExplainStock, HoldsAreReserved, TotalsExplainStock
<1> QED
  BY <1>10, <1>11, <1>12, <1>14, <1>15 DEF BooksInv

(* What allocate chose is locked already, or planned to be.                *)
LEMMA AllocatedBooks ==
    ASSUME BooksInv, NEW c \in Client, Allocated(c)
    PROVE  BooksInv'
<1>1. Active(c) /\ job[c].op = "hold" /\ UNCHANGED <<tables, twice, lock, seen, requests>>
  BY DEF Allocated, Ready
<1>2. PICK share \in [Place -> 0 .. job[c].qty] :
        \E plan \in Orders({p \in Place : share[p] > 0 /\ lock[p] # c}) :
            job' = [job EXCEPT ![c].op = "allocated", ![c].share = share, ![c].plan = plan]
  BY Zenon DEF Allocated
<1>3. PICK plan \in Orders({p \in Place : share[p] > 0 /\ lock[p] # c}) :
        job' = [job EXCEPT ![c].op = "allocated", ![c].share = share, ![c].plan = plan]
  BY <1>2
<1>4. plan \in Seq(Place) /\ ToSet(plan) = {p \in Place : share[p] > 0 /\ lock[p] # c}
  BY OrdersCover
<1>5. PICK units \in [Place -> Nat], order \in Seq(Place) : units = share /\ order = plan
  <2>1. share \in [Place -> Nat]
    OBVIOUS
  <2> QED
    BY <1>4, <2>1
<1>6. PICK j \in Jobs : j = job[c] /\ Sound(c, j)
  BY <1>1, AtWork DEF BooksInv, JobsAreSound
<1>7. PICK k : k = [j EXCEPT !.op = "allocated", !.share = units, !.plan = order]
  OBVIOUS
<1>8. job \in [Client -> Jobs \cup {NoJob}] /\ job' = [job EXCEPT ![c] = k]
  BY <1>3, <1>5, <1>6, <1>7 DEF BooksInv, StockInv, TypeOK
<1>9. k \in Jobs /\ k.op = "allocated" /\ k.ref = j.ref /\ k.share = units /\ k.plan = order
  BY <1>6, <1>7 DEF Jobs, Ops
<1>10. /\ stock' = stock /\ holds' = holds /\ rows' = rows /\ site' = site /\ sellable' = sellable
       /\ listed' = listed /\ totals' = totals /\ issued' = issued /\ freed' = freed /\ twice' = twice
       /\ lock' = lock
  BY <1>1 DEF tables
<1>11. StockInv'
  BY AllocatedKeeps DEF BooksInv
<1>12. RowsInv'
  <2>1. LockersWork'
    BY <1>8, <1>9, <1>10, NoJobIsNone DEF BooksInv, RowsInv, LockersWork, Active
  <2> QED
    BY <1>10, <2>1 DEF BooksInv, RowsInv, RowsAreOpen, NoRowNoStock
<1>13. HoldsInv'
  <2>1. k.op \in Reserving => job[c].op \in Reserving
    BY <1>1 DEF Reserving
  <2>2. OwnReservations'
    BY <1>6, <1>8, <1>9, <2>1, OwnStay DEF BooksInv, HoldsInv
  <2> QED
    BY <1>10, <2>2 DEF BooksInv, HoldsInv, IssuedFirst, ReleasedWhole
<1>14. Sound(c, k)'
  <2>1. PlanCovers(c, k)'
    BY <1>4, <1>5, <1>9, <1>10 DEF PlanCovers, Needs
  <2>2. HoldsNothingYet(k)'
    BY <1>1, <1>6, <1>9, <1>10 DEF Sound, HoldsNothingYet, Reserving
  <2> QED
    BY <1>9, <2>1, <2>2 DEF Sound
<1>15. JobsAreSound'
  <2> SUFFICES ASSUME NEW d \in Client, Active(d)', NEW l, l = job'[d] PROVE Sound(d, l)'
    BY DEF JobsAreSound, Sound, PlanCovers, TakesInOrder, HoldsNothingYet, KnowsWhatIsHeld
  <2>1. CASE d = c
    BY <1>8, <1>14, <2>1
  <2>2. CASE d # c
    <3>1. l = job[d] /\ Active(d) /\ l \in Jobs
      BY <1>8, <2>2 DEF Active
    <3>2. Sound(d, l)
      BY <3>1 DEF BooksInv, JobsAreSound
    <3> QED
      BY <1>10, <2>2, <3>1, <3>2, StaysSound DEF Gone
  <2> QED
    BY <2>1, <2>2
<1>16. TotalsTyped' /\ BooksExplainStock'
  BY <1>10 DEF BooksInv, TotalsTyped, BooksExplainStock, HoldsAreReserved, TotalsExplainStock
<1> QED
  BY <1>11, <1>12, <1>13, <1>15, <1>16 DEF BooksInv

-----------------------------------------------------------------------------
(* Totals *)

LEMMA NetOfNone ==
    ASSUME NEW t \in [Fields -> Int]
    PROVE  AddToTotals(t, {}) = t
<1> DEFINE f == [r \in {} |-> Magnitude(r)]
<1>1. \A x \in Fields : {r \in {} : FieldOf(r) = x} = {} /\ SumFunctionOnSet(f, {}) = 0
  BY SumOfNone
<1>2. AddToTotals(t, {}) = [x \in Fields |-> t[x] + SumFunctionOnSet(f, {r \in {} : FieldOf(r) = x})]
  BY DEF AddToTotals
<1> HIDE DEF f
<1> QED
  BY <1>1, <1>2

(* A row of the ledger, as the requests write them.                        *)
LedgerRow == [at : Place, reason : Inflow \cup Outflow \cup Reasons, delta : Int]

Ups == Inflow \cup {"corrected_up"}
Downs == Outflow \cup {"corrected_down"}

LEMMA FieldOfRow ==
    ASSUME NEW m \in LedgerRow
    PROVE  /\ FieldOf(m) \in IF m.delta > 0 THEN Ups ELSE Downs
           /\ Magnitude(m) \in Nat
           /\ m.delta = IF m.delta > 0 THEN Magnitude(m) ELSE -Magnitude(m)
<1>1. m.delta \in Int
  BY DEF LedgerRow
<1>2. FieldOf(m) \in IF m.delta > 0 THEN Ups ELSE Downs
  <2>1. CASE m.reason \in Inflow /\ m.delta > 0
    BY <2>1 DEF FieldOf, Ups
  <2>2. CASE m.reason \in Outflow /\ m.delta < 0
    <3>1. ~ (m.reason \in Inflow /\ m.delta > 0) /\ ~ (m.delta > 0)
      BY <1>1, <2>2
    <3> QED
      BY <2>2, <3>1 DEF FieldOf, Downs
  <2>3. CASE ~ (m.reason \in Inflow /\ m.delta > 0) /\ ~ (m.reason \in Outflow /\ m.delta < 0)
    BY <2>3 DEF FieldOf, Ups, Downs
  <2> QED
    BY <2>1, <2>2, <2>3
<1> QED
  BY <1>1, <1>2 DEF Magnitude

(* One more row in the totals.                                             *)
Others(moves, m) == moves \ {m}

LEMMA NetOfRow ==
    ASSUME NEW t \in [Fields -> Int], NEW moves \in SUBSET LedgerRow, IsFiniteSet(moves), NEW m \in moves,
           AddToTotals(t, Others(moves, m)) \in [Fields -> Int]
    PROVE  /\ AddToTotals(t, moves) \in [Fields -> Int]
           /\ NetChange(AddToTotals(t, moves)) = NetChange(AddToTotals(t, Others(moves, m))) + m.delta
<1> DEFINE f == [r \in moves |-> Magnitude(r)]
           g == [r \in moves \ {m} |-> Magnitude(r)]
           Of(s, x) == {r \in s : FieldOf(r) = x}
<1>1. AddToTotals(t, moves) = [x \in Fields |-> t[x] + SumFunctionOnSet(f, Of(moves, x))]
  BY DEF AddToTotals
<1>2. AddToTotals(t, moves \ {m}) = [x \in Fields |-> t[x] + SumFunctionOnSet(g, Of(moves \ {m}, x))]
  BY DEF AddToTotals
<1>3. \A r \in moves : f[r] = Magnitude(r) /\ f[r] \in Int
  <2> SUFFICES ASSUME NEW r \in moves PROVE Magnitude(r) \in Int
    OBVIOUS
  <2>1. r \in LedgerRow
    OBVIOUS
  <2> QED
    BY <2>1, FieldOfRow
<1>4. \A r \in moves \ {m} : g[r] = f[r] /\ g[r] \in Int
  BY <1>3
<1>5. FieldOf(m) \in Fields /\ f[m] \in Int /\ f[m] = Magnitude(m)
  <2>1. m \in LedgerRow
    OBVIOUS
  <2> QED
    BY <1>3, <2>1, FieldOfRow DEF Fields, Ups, Downs
<1> HIDE DEF f, g
<1>6. ASSUME NEW x \in Fields
      PROVE  SumFunctionOnSet(f, Of(moves, x)) =
               IF x = FieldOf(m) THEN SumFunctionOnSet(g, Of(moves \ {m}, x)) + f[m]
               ELSE SumFunctionOnSet(g, Of(moves \ {m}, x))
  <2>1. PICK T \in SUBSET moves, R \in SUBSET moves : T = Of(moves, x) /\ R = Of(moves \ {m}, x)
    OBVIOUS
  <2>2. R = T \ {m} /\ (m \in T <=> x = FieldOf(m))
    BY <2>1
  <2>3. \A r \in moves \ {m} : g[r] = f[r]
    BY <1>4
  <2>4. \A r \in moves : f[r] \in Int
    BY <1>3
  <2>5. /\ SumFunctionOnSet(g, R) \in Int
        /\ SumFunctionOnSet(f, T) =
             IF m \in T THEN SumFunctionOnSet(g, R) + f[m] ELSE SumFunctionOnSet(g, R)
    BY <2>2, <2>3, <2>4, SumOfPartWith
  <2> QED
    BY <2>1, <2>2, <2>5
<1> DEFINE u == AddToTotals(t, moves \ {m})
<1>7. u \in [Fields -> Int] /\ u = AddToTotals(t, Others(moves, m))
  BY DEF Others
<1>8. \A x \in Fields : u[x] = t[x] + SumFunctionOnSet(g, Of(moves \ {m}, x))
                        /\ SumFunctionOnSet(g, Of(moves \ {m}, x)) \in Int
  <2> TAKE x \in Fields
  <2>1. IsFiniteSet(Of(moves \ {m}, x))
    BY FS_Subset
  <2>2. \A r \in Of(moves \ {m}, x) : g[r] \in Int
    BY <1>4
  <2> HIDE DEF Of
  <2>3. SumFunctionOnSet(g, Of(moves \ {m}, x)) \in Int
    BY <2>1, <2>2, SumIsInt
  <2> QED
    BY <1>2, <2>3
<1> HIDE DEF u, Of
<1> DEFINE v == AddToTotals(t, moves)
<1>9. v \in [Fields -> Int] /\ \A x \in Fields : v[x] = IF x = FieldOf(m) THEN u[x] + f[m] ELSE u[x]
  <2>1. v = [x \in Fields |-> t[x] + SumFunctionOnSet(f, Of(moves, x))]
    BY <1>1
  <2>2. \A x \in Fields : v[x] = IF x = FieldOf(m) THEN u[x] + f[m] ELSE u[x]
    <3> TAKE x \in Fields
    <3> DEFINE others == SumFunctionOnSet(g, Of(moves \ {m}, x))
               all == SumFunctionOnSet(f, Of(moves, x))
    <3>1. /\ v[x] = t[x] + all
          /\ u[x] = t[x] + others
          /\ all = IF x = FieldOf(m) THEN others + f[m] ELSE others
          /\ t[x] \in Int /\ others \in Int
      BY <1>6, <1>8, <2>1
    <3> HIDE DEF others, all, v
    <3> QED
      BY <1>5, <1>7, <3>1
  <2> HIDE DEF v
  <2>3. ASSUME NEW x \in Fields PROVE v[x] \in Int
    <3>1. u[x] \in Int /\ f[m] \in Int
      BY <1>5, <1>7
    <3> QED
      BY <2>2, <3>1
  <2> QED
    BY <2>1, <2>2, <2>3
<1> HIDE DEF v
<1>10. NetChange(v) = IF FieldOf(m) \in Ups THEN NetChange(u) + f[m] ELSE NetChange(u) - f[m]
  <2>1. PICK x \in Fields, n \in Int : x = FieldOf(m) /\ n = f[m]
    BY <1>5
  <2>2. \A y \in Fields : v[y] = IF y = x THEN u[y] + n ELSE u[y]
    BY <1>9, <2>1
  <2>3. NetChange(v) = IF x \in Ups THEN NetChange(u) + n ELSE NetChange(u) - n
    BY <1>7, <1>9, <2>2 DEF NetChange, Fields, Ups, Inflow, Outflow
  <2> QED
    BY <2>1, <2>3
<1>11. NetChange(u) \in Int
  BY <1>7 DEF NetChange, Fields, Inflow, Outflow
<1>12. IF m.delta > 0 THEN FieldOf(m) \in Ups /\ m.delta = f[m]
       ELSE FieldOf(m) \notin Ups /\ m.delta = -f[m]
  <2>1. m \in LedgerRow /\ Ups \cap Downs = {}
    BY DEF Ups, Downs, Inflow, Outflow
  <2> QED
    BY <1>5, <2>1, FieldOfRow
<1>13. NetChange(v) = NetChange(u) + m.delta
  BY <1>5, <1>10, <1>11, <1>12
<1> QED
  BY <1>7, <1>9, <1>13 DEF v

(* What one row, and what the two rows of a return that is written off     *)
(* add to the totals.                                                      *)
LEMMA NetOfOne ==
    ASSUME NEW t \in [Fields -> Int], NEW m \in LedgerRow
    PROVE  /\ AddToTotals(t, {m}) \in [Fields -> Int]
           /\ NetChange(AddToTotals(t, {m})) = NetChange(t) + m.delta
<1>1. PICK moves \in SUBSET LedgerRow :
        moves = {m} /\ m \in moves /\ IsFiniteSet(moves) /\ Others(moves, m) = {}
  BY FS_Singleton DEF Others
<1>2. AddToTotals(t, Others(moves, m)) = t
  BY <1>1, NetOfNone
<1>3. /\ AddToTotals(t, moves) \in [Fields -> Int]
      /\ NetChange(AddToTotals(t, moves)) = NetChange(AddToTotals(t, Others(moves, m))) + m.delta
  BY <1>1, <1>2, NetOfRow
<1> QED
  BY <1>1, <1>2, <1>3

LEMMA NetOfTwo ==
    ASSUME NEW t \in [Fields -> Int], NEW m \in LedgerRow, NEW n \in LedgerRow, m # n
    PROVE  /\ AddToTotals(t, {m} \cup {n}) \in [Fields -> Int]
           /\ NetChange(AddToTotals(t, {m} \cup {n})) = NetChange(t) + m.delta + n.delta
<1>1. PICK moves \in SUBSET LedgerRow :
        moves = {m} \cup {n} /\ n \in moves /\ IsFiniteSet(moves) /\ Others(moves, n) = {m}
  <2>1. IsFiniteSet({m} \cup {n})
    BY FS_Singleton, FS_Union
  <2>2. Others({m} \cup {n}, n) = {m}
    BY DEF Others
  <2> QED
    BY <2>1, <2>2
<1>2. /\ AddToTotals(t, Others(moves, n)) \in [Fields -> Int]
      /\ NetChange(AddToTotals(t, Others(moves, n))) = NetChange(t) + m.delta
  BY <1>1, NetOfOne
<1>3. /\ AddToTotals(t, moves) \in [Fields -> Int]
      /\ NetChange(AddToTotals(t, moves)) = NetChange(AddToTotals(t, Others(moves, n))) + n.delta
  BY <1>1, <1>2, NetOfRow
<1> QED
  BY <1>1, <1>2, <1>3
-----------------------------------------------------------------------------
(* Commits *)

(* The ledger rows of a commit say what it does to the units on hand.      *)
TotalsFollow(c, new, moves) ==
    \A p \in Place :
        LET t == AddToTotals(totals[p], {r \in moves : r.at = p})
        IN  /\ t \in [Fields -> Int]
            /\ NetChange(t) = IF lock[p] = c THEN new[p].onHand ELSE stock[p].onHand

(* What a commit makes of the rows, and of the totals if its ledger rows   *)
(* say what it did to the units on hand.                                   *)
LEMMA CommitRows ==
    ASSUME BooksInv, NEW c \in Client, NEW new, NEW moves, Commit(c, new, moves), StockInv',
           \A p \in Place : lock[p] # c => \A r \in Reservation : holds'[r][p] = holds[r][p],
           TotalsFollow(c, new, moves)
    PROVE  RowsInv' /\ TotalsTyped' /\ TotalsExplainStock'
<1>1. /\ stock' = [p \in Place |-> IF lock[p] = c THEN new[p] ELSE stock[p]]
      /\ rows' = rows \cup {p \in Place : lock[p] = c}
      /\ totals' = [p \in Place |-> AddToTotals(totals[p], {r \in moves : r.at = p})]
      /\ End(c) /\ site' = site /\ listed' = listed
  BY DEF Commit
<1>2. \A p \in Place : lock'[p] = IF lock[p] = c THEN Nobody ELSE lock[p]
  BY <1>1, Ended
<1>3. RowsAreOpen'
  BY <1>1, <1>2, NobodyAssumption DEF BooksInv, RowsInv, RowsAreOpen
<1>4. NoRowNoStock'
  BY <1>1 DEF BooksInv, RowsInv, NoRowNoStock
<1>5. LockersWork'
  BY <1>1, Ended
<1>6. TotalsTyped' /\ TotalsExplainStock'
  BY <1>1 DEF TotalsTyped, TotalsExplainStock, TotalsFollow
<1> QED
  BY <1>3, <1>4, <1>5, <1>6 DEF RowsInv

(* A commit that changes only units on hand.                               *)
LEMMA CommitBooks ==
    ASSUME BooksInv, NEW c \in Client, NEW new, NEW moves, Commit(c, new, moves), StockInv',
           UNCHANGED <<holds, freed, twice>>,
           \A p \in Place : lock[p] = c => new[p].reserved = stock[p].reserved,
           TotalsFollow(c, new, moves)
    PROVE  BooksInv'
<1>1. RowsInv' /\ TotalsTyped' /\ TotalsExplainStock'
  <2>1. \A p \in Place : lock[p] # c => \A r \in Reservation : holds'[r][p] = holds[r][p]
    OBVIOUS
  <2> QED
    BY <2>1, CommitRows
<1>2. /\ stock' = [p \in Place |-> IF lock[p] = c THEN new[p] ELSE stock[p]]
      /\ End(c) /\ site' = site /\ listed' = listed /\ issued' = issued
  BY DEF Commit
<1>3. HoldsInv'
  BY <1>2, Ended DEF BooksInv, HoldsInv, IssuedFirst, ReleasedWhole
<1>4. JobsAreSound'
  BY <1>2, OthersStaySound DEF Gone
<1>5. \A p \in Place : stock'[p].reserved = stock[p].reserved
  BY <1>2
<1>6. HoldsAreReserved'
  BY <1>5 DEF BooksInv, BooksExplainStock, HoldsAreReserved
<1> QED
  BY <1>1, <1>3, <1>4, <1>6 DEF BooksInv, BooksExplainStock

(* The totals of the locations a session changed nothing at.               *)
LEMMA TotalsStay ==
    ASSUME BooksInv, NEW p \in Place, NEW moves, moves = {}
    PROVE  /\ totals[p] \in [Fields -> Int]
           /\ AddToTotals(totals[p], moves) \in [Fields -> Int]
           /\ NetChange(AddToTotals(totals[p], moves)) = stock[p].onHand
           /\ NetChange(totals[p]) = stock[p].onHand
<1>1. totals[p] \in [Fields -> Int] /\ NetChange(totals[p]) = stock[p].onHand
  BY DEF BooksInv, TotalsTyped, BooksExplainStock, TotalsExplainStock
<1>2. AddToTotals(totals[p], {}) = totals[p]
  BY <1>1, NetOfNone
<1> QED
  BY <1>1, <1>2

LEMMA CountsSetBooks ==
    ASSUME BooksInv, NEW c \in Client, CountsSet(c)
    PROVE  BooksInv'
<1> DEFINE j == job[c]
           changed == {p \in Place : lock[p] = c /\ j.share[p] # seen[c][p].onHand}
           R(p) == Row(p, IF OpensStock(seen[c][p], j.reason) THEN "RESTOCK" ELSE "ADJUST",
                       j.share[p] - seen[c][p].onHand)
           moves == {R(p) : p \in changed}
           new == [p \in Place |-> [seen[c][p] EXCEPT !.onHand = j.share[p]]]
<1>1. Active(c) /\ UNCHANGED <<holds, freed, twice>>
  BY DEF CountsSet
<1>2. Commit(c, new, moves)
  <2>1. {p \in {q \in Place : lock[q] = c} : j.share[p] # seen[c][p].onHand} = changed
    OBVIOUS
  <2>2. Commit(c, new, {R(p) : p \in {p \in {q \in Place : lock[q] = c} : j.share[p] # seen[c][p].onHand}})
    BY Zenon DEF CountsSet
  <2> QED
    BY <2>1, <2>2, Zenon
<1>3. StockInv'
  BY CountsSetKeeps DEF BooksInv
<1>4. j \in Jobs /\ j.share \in [Place -> Nat] /\ seen[c] \in [Place -> Level]
      /\ \A p \in Place : lock[p] = c => seen[c][p] = stock[p]
  BY <1>1, AtWork DEF Jobs, BooksInv, StockInv, LockedIsCurrent
<1>5. \A p \in Place : R(p) \in LedgerRow /\ R(p).at = p /\ R(p).delta = j.share[p] - seen[c][p].onHand
  BY <1>4, MaxOnHandAssumption DEF LedgerRow, Row, Inflow, Reasons, Level
<1>6. \A p \in Place : lock[p] = c => new[p].onHand = j.share[p] /\ new[p].reserved = stock[p].reserved
  BY <1>4 DEF Level
<1>7. ASSUME NEW p \in Place
      PROVE  LET t == AddToTotals(totals[p], {r \in moves : r.at = p})
             IN  /\ t \in [Fields -> Int]
                 /\ NetChange(t) = IF lock[p] = c THEN new[p].onHand ELSE stock[p].onHand
  <2>1. CASE p \in changed
    <3>1. PICK m \in LedgerRow : m = R(p) /\ m.delta = j.share[p] - seen[c][p].onHand
      BY <1>5
    <3>2. {r \in moves : r.at = p} = {m}
      BY <1>5, <2>1, <3>1
    <3>3. totals[p] \in [Fields -> Int] /\ NetChange(totals[p]) = stock[p].onHand
      BY TotalsStay
    <3>4. /\ AddToTotals(totals[p], {m}) \in [Fields -> Int]
          /\ NetChange(AddToTotals(totals[p], {m})) = NetChange(totals[p]) + m.delta
      BY <3>3, NetOfOne
    <3>5. lock[p] = c /\ new[p].onHand = j.share[p] /\ seen[c][p] = stock[p] /\ j.share[p] \in Nat
          /\ stock[p].onHand \in Nat
      BY <1>4, <1>6, <2>1 DEF Level
    <3>6. NetChange(AddToTotals(totals[p], {m})) = new[p].onHand
      BY <3>1, <3>3, <3>4, <3>5
    <3> HIDE DEF moves, new
    <3> QED
      BY <3>2, <3>4, <3>5, <3>6
  <2>2. CASE p \notin changed
    <3>1. {r \in moves : r.at = p} = {}
      BY <1>5, <2>2
    <3>2. lock[p] = c => new[p].onHand = stock[p].onHand
      BY <1>4, <1>6, <2>2
    <3> HIDE DEF moves, new
    <3>3. /\ AddToTotals(totals[p], {r \in moves : r.at = p}) \in [Fields -> Int]
          /\ NetChange(AddToTotals(totals[p], {r \in moves : r.at = p})) = stock[p].onHand
      BY <3>1, TotalsStay
    <3> QED
      BY <3>2, <3>3
  <2> QED
    BY <2>1, <2>2
<1> HIDE DEF moves, new
<1>8. TotalsFollow(c, new, moves)
  BY <1>7 DEF TotalsFollow
<1> QED
  BY <1>1, <1>2, <1>3, <1>6, <1>8, CommitBooks

(* When its plan is done a session holds every row it needs, as it is      *)
(* committed.                                                              *)
LEMMA PlanDone ==
    ASSUME BooksInv, NEW c \in Client, Active(c), job[c].plan = << >>
    PROVE  /\ Sound(c, job[c])
           /\ \A p \in Needs(job[c]) : lock[p] = c
           /\ \A p \in Place : lock[p] = c => seen[c][p] = stock[p] /\ stock[p] \in Level
<1>1. Sound(c, job[c])
  BY DEF BooksInv, JobsAreSound
<1>2. ToSet(<< >>) = {}
  BY DEF ToSet
<1>3. \A p \in Needs(job[c]) : lock[p] = c
  BY <1>1, <1>2 DEF Sound, PlanCovers
<1> QED
  BY <1>1, <1>3 DEF BooksInv, StockInv, TypeOK, LockedIsCurrent

(* A change of the units at one location.                                  *)
LEMMA ChangeBooks ==
    ASSUME BooksInv, NEW c \in Client, Active(c), NEW delta \in Int, NEW moves,
           Commit(c, Changed(c, delta), moves), UNCHANGED <<holds, freed, twice>>, StockInv',
           job[c].plan = << >>, job[c].at \in Needs(job[c]),
           \A m \in moves : m.at = job[c].at,
           LET t == totals[job[c].at]
           IN  /\ AddToTotals(t, moves) \in [Fields -> Int]
               /\ NetChange(AddToTotals(t, moves)) = NetChange(t) + delta
    PROVE  BooksInv'
<1>1. PICK new : new = Changed(c, delta) /\ Commit(c, new, moves)
  BY Zenon
<1>2. PICK a \in Place : a = job[c].at /\ lock[a] = c
  BY AtWork, PlanDone DEF Jobs, BooksInv
<1>3. /\ seen[c] \in [Place -> Level]
      /\ \A p \in Place : lock[p] = c => seen[c][p] = stock[p] /\ stock[p] \in Level
  BY AtWork, PlanDone DEF BooksInv
<1>4. seen[c] \in [Place -> Counted] /\ new = [seen[c] EXCEPT ![a].onHand = @ + delta]
  BY <1>1, <1>2, <1>3 DEF Changed, Counted, Level
<1>5. ASSUME NEW p \in Place, lock[p] = c
      PROVE  /\ new[p].onHand = IF p = a THEN stock[p].onHand + delta ELSE stock[p].onHand
             /\ new[p].reserved = stock[p].reserved
  BY <1>2, <1>3, <1>4, <1>5, RowChanged
<1>6. ASSUME NEW p \in Place
      PROVE  LET t == AddToTotals(totals[p], {r \in moves : r.at = p})
             IN  /\ t \in [Fields -> Int]
                 /\ NetChange(t) = IF lock[p] = c THEN new[p].onHand ELSE stock[p].onHand
  <2>1. CASE p = a
    <3>1. {r \in moves : r.at = p} = moves
      BY <1>2, <2>1
    <3>2. NetChange(totals[p]) = stock[p].onHand
      BY TotalsStay
    <3> QED
      BY <1>2, <1>5, <2>1, <3>1, <3>2
  <2>2. CASE p # a
    <3>1. {r \in moves : r.at = p} = {}
      BY <1>2, <2>2
    <3>2. /\ AddToTotals(totals[p], {r \in moves : r.at = p}) \in [Fields -> Int]
          /\ NetChange(AddToTotals(totals[p], {r \in moves : r.at = p})) = stock[p].onHand
      BY <3>1, TotalsStay
    <3> QED
      BY <1>5, <2>2, <3>2
  <2> QED
    BY <2>1, <2>2
<1>7. TotalsFollow(c, new, moves)
  BY <1>6 DEF TotalsFollow
<1> QED
  BY <1>1, <1>5, <1>7, CommitBooks

LEMMA LedgerRowOf ==
    ASSUME NEW p \in Place, NEW why \in Inflow \cup Outflow \cup Reasons, NEW n \in Int
    PROVE  \E m \in LedgerRow : m = Row(p, why, n) /\ m.at = p /\ m.reason = why /\ m.delta = n
<1>1. Row(p, why, n) \in LedgerRow /\ Row(p, why, n).at = p
      /\ Row(p, why, n).reason = why /\ Row(p, why, n).delta = n
  BY DEF Row, LedgerRow
<1> QED
  BY <1>1, Zenon

LEMMA SingleBooks ==
    ASSUME BooksInv, NEW c \in Client, Gained(c) \/ Lost(c) \/ Shifted(c) \/ Recounted(c)
    PROVE  BooksInv'
<1>1. /\ Active(c) /\ job[c].plan = << >>
      /\ job[c].op \in {"gain", "lose", "shift", "recount"}
      /\ UNCHANGED <<holds, freed, twice>>
  BY DEF Gained, Lost, Shifted, Recounted, Ready
<1>2. PICK j \in Jobs : j = job[c]
  BY <1>1, AtWork DEF BooksInv
<1>3. j.at \in Place /\ j.qty \in Int /\ -j.qty \in Int /\ j.reason \in Reasons
  BY <1>2 DEF Jobs
<1>4. j.at \in Needs(job[c])
  BY <1>1, <1>2 DEF Needs
<1>5. StockInv'
  BY SingleChangesKeep DEF BooksInv
<1>6. totals[j.at] \in [Fields -> Int] /\ NetChange(totals[j.at]) \in Int
  <2>1. stock[j.at].onHand \in Int
    BY <1>3 DEF BooksInv, StockInv, TypeOK, Level
  <2> QED
    BY <1>3, <2>1, TotalsStay
<1>7. ASSUME NEW why \in Inflow \cup Outflow \cup Reasons, NEW n \in Int,
             Commit(c, Changed(c, n), {Row(j.at, why, n)})
      PROVE  BooksInv'
  <2>1. PICK m \in LedgerRow : m = Row(j.at, why, n) /\ m.at = j.at /\ m.delta = n
    BY <1>3, LedgerRowOf
  <2>2. PICK moves : moves = {m}
    OBVIOUS
  <2>3. /\ AddToTotals(totals[j.at], moves) \in [Fields -> Int]
        /\ NetChange(AddToTotals(totals[j.at], moves)) = NetChange(totals[j.at]) + n
    BY <1>6, <2>1, <2>2, NetOfOne
  <2>4. Commit(c, Changed(c, n), moves) /\ \A r \in moves : r.at = j.at
    BY <1>7, <2>1, <2>2
  <2> QED
    BY <1>1, <1>2, <1>4, <1>5, <2>3, <2>4, ChangeBooks
<1>8. CASE Gained(c) /\ WrittenOff(j)
  <2>1. Commit(c, Changed(c, 0), ReturnRows(j))
    BY <1>2, <1>8 DEF Gained
  <2>2. PICK m \in LedgerRow : m = Row(j.at, "RETURN", j.qty) /\ m.at = j.at /\ m.delta = j.qty
                               /\ m.reason = "RETURN"
    BY <1>3, LedgerRowOf DEF Inflow
  <2>3. PICK n \in LedgerRow : n = Row(j.at, "DAMAGE", -j.qty) /\ n.at = j.at /\ n.delta = -j.qty
                               /\ n.reason = "DAMAGE"
    <3>1. "DAMAGE" \in Inflow \cup Outflow \cup Reasons
      BY DEF Outflow
    <3>2. PICK k \in Int : k = -j.qty
      BY <1>3
    <3>3. PICK n \in LedgerRow : n = Row(j.at, "DAMAGE", k) /\ n.at = j.at /\ n.delta = k
                                 /\ n.reason = "DAMAGE"
      BY <1>3, <3>1, LedgerRowOf
    <3> QED
      BY <3>2, <3>3
  <2>4. PICK moves : moves = {m} \cup {n}
    OBVIOUS
  <2>5. ReturnRows(j) = moves
    BY <2>2, <2>3, <2>4, Zenon DEF ReturnRows, ReturnRow
  <2>6. m # n
    BY <2>2, <2>3
  <2>7. /\ AddToTotals(totals[j.at], moves) \in [Fields -> Int]
        /\ NetChange(AddToTotals(totals[j.at], moves)) = NetChange(totals[j.at]) + m.delta + n.delta
    BY <1>6, <2>4, <2>6, NetOfTwo
  <2>8. NetChange(AddToTotals(totals[j.at], moves)) = NetChange(totals[j.at]) + 0
    BY <1>3, <1>6, <2>2, <2>3, <2>7
  <2>9. Commit(c, Changed(c, 0), moves) /\ \A r \in moves : r.at = j.at
    BY <2>1, <2>2, <2>3, <2>4, <2>5
  <2> QED
    BY <1>1, <1>2, <1>4, <1>5, <2>7, <2>8, <2>9, ChangeBooks
<1>9. CASE Gained(c) /\ ~ WrittenOff(j)
  <2>1. Commit(c, Changed(c, j.qty), {Row(j.at, j.reason, j.qty)})
    BY <1>2, <1>9 DEF Gained
  <2> QED
    BY <1>3, <1>7, <2>1
<1>10. CASE Lost(c)
  <2>1. Commit(c, Changed(c, -j.qty), {Row(j.at, j.reason, -j.qty)})
    BY <1>2, <1>10 DEF Lost
  <2> QED
    BY <1>3, <1>7, <2>1
<1>11. CASE Shifted(c)
  <2>1. Commit(c, Changed(c, j.qty), {Row(j.at, "ADJUST", j.qty)}) /\ "ADJUST" \in Reasons
    BY <1>2, <1>11 DEF Shifted, Reasons
  <2> QED
    BY <1>3, <1>7, <2>1
<1>12. CASE Recounted(c)
  <2>1. PICK n : n = j.qty - Its(c).onHand
    OBVIOUS
  <2>2. Commit(c, Changed(c, n), IF n = 0 THEN {} ELSE {Row(j.at, "ADJUST", n)})
    BY <1>2, <1>12, <2>1, Zenon DEF Recounted
  <2>3. n \in Int /\ "ADJUST" \in Reasons
    <3>1. Its(c) \in Level
      BY <1>1, <1>2, <1>3, AtWork DEF Its, BooksInv
    <3>2. Its(c).onHand \in Int
      BY <3>1, MaxOnHandAssumption DEF Level
    <3>3. "ADJUST" \in Reasons
      BY DEF Reasons
    <3> QED
      BY <1>3, <2>1, <3>2, <3>3
  <2>4. CASE n # 0
    BY <1>7, <2>2, <2>3, <2>4
  <2>5. CASE n = 0
    <3>1. PICK moves : moves = {} /\ Commit(c, Changed(c, n), moves)
      BY <2>2, <2>5
    <3>2. AddToTotals(totals[j.at], moves) = totals[j.at]
      BY <1>6, <3>1, NetOfNone
    <3>3. /\ AddToTotals(totals[j.at], moves) \in [Fields -> Int]
          /\ NetChange(AddToTotals(totals[j.at], moves)) = NetChange(totals[j.at]) + n
      BY <1>6, <2>5, <3>2
    <3>4. \A r \in moves : r.at = j.at
      BY <3>1
    <3> QED
      BY <1>1, <1>2, <1>4, <1>5, <2>3, <3>1, <3>3, <3>4, ChangeBooks
  <2> QED
    BY <2>4, <2>5
<1> QED
  BY <1>8, <1>9, <1>10, <1>11, <1>12

LEMMA ShippedBooks ==
    ASSUME BooksInv, NEW c \in Client, Shipped(c)
    PROVE  BooksInv'
<1>1. Active(c) /\ job[c].op = "ship" /\ job[c].plan = << >> /\ UNCHANGED <<holds, freed, twice>>
  BY DEF Shipped, Ready
<1>2. PICK j \in Jobs, a \in Place, b \in Place, q \in Nat, k \in Int :
        j = job[c] /\ a = j.at /\ b = j.to /\ q = j.qty /\ k = -q
  BY <1>1, AtWork DEF Jobs, Counts, BooksInv
<1>3. a # b /\ lock[a] = c /\ lock[b] = c
  <2>1. Sound(c, j) /\ \A p \in Needs(j) : lock[p] = c
    BY <1>1, <1>2, PlanDone
  <2> QED
    BY <1>1, <1>2, <2>1 DEF Needs, Sound, TakesInOrder
<1>4. /\ seen[c] \in [Place -> Level]
      /\ \A p \in Place : lock[p] = c => seen[c][p] = stock[p] /\ stock[p] \in Level
  BY <1>1, AtWork, PlanDone DEF BooksInv
<1>5. PICK m \in LedgerRow : m = Row(a, "TRANSFER_OUT", k) /\ m.at = a /\ m.delta = k
  <2>1. "TRANSFER_OUT" \in Inflow \cup Outflow \cup Reasons
    BY DEF Outflow
  <2> QED
    BY <2>1, LedgerRowOf
<1>6. PICK n \in LedgerRow : n = Row(b, "TRANSFER_IN", q) /\ n.at = b /\ n.delta = q
  <2>1. "TRANSFER_IN" \in Inflow \cup Outflow \cup Reasons /\ q \in Int
    BY DEF Inflow
  <2> QED
    BY <2>1, LedgerRowOf
<1>7. PICK half, new, moves :
        /\ half = Changed(c, -q) /\ new = [half EXCEPT ![b].onHand = @ + q]
        /\ moves = {m, n} /\ Commit(c, new, moves)
  BY <1>2, <1>5, <1>6, Zenon DEF Shipped
<1>8. half = [seen[c] EXCEPT ![a].onHand = @ + k]
  BY <1>2, <1>7 DEF Changed
<1>9. ASSUME NEW p \in Place, lock[p] = c
      PROVE  /\ new[p].onHand = IF p = a THEN stock[p].onHand - q
                                ELSE IF p = b THEN stock[p].onHand + q ELSE stock[p].onHand
             /\ new[p].reserved = stock[p].reserved
  <2>1. seen[c] \in [Place -> Counted] /\ seen[c][p] = stock[p] /\ stock[p].onHand \in Int
    BY <1>4, <1>9, MaxOnHandAssumption DEF Counted, Level
  <2>2. /\ half \in [Place -> Counted]
        /\ half[p].onHand = IF p = a THEN seen[c][p].onHand + k ELSE seen[c][p].onHand
        /\ half[p].reserved = seen[c][p].reserved
    <3>1. PICK s \in [Place -> Counted] : s = seen[c]
      BY <2>1
    <3>2. half = [s EXCEPT ![a].onHand = @ + k]
      BY <1>8, <3>1
    <3>3. /\ half \in [Place -> Counted]
          /\ half[p].onHand = IF p = a THEN s[p].onHand + k ELSE s[p].onHand
          /\ half[p].reserved = s[p].reserved
      BY <3>2, RowChanged
    <3> QED
      BY <3>1, <3>3
  <2>3. PICK i \in Int : i = q
    OBVIOUS
  <2>4. new = [half EXCEPT ![b].onHand = @ + i]
    BY <1>7, <2>3
  <2>5. /\ new[p].onHand = IF p = b THEN half[p].onHand + i ELSE half[p].onHand
        /\ new[p].reserved = half[p].reserved
    BY <2>2, <2>4, RowChanged
  <2> QED
    BY <1>2, <1>3, <2>1, <2>2, <2>3, <2>5
<1>10. ASSUME NEW p \in Place
       PROVE  LET t == AddToTotals(totals[p], {r \in moves : r.at = p})
              IN  /\ t \in [Fields -> Int]
                  /\ NetChange(t) = IF lock[p] = c THEN new[p].onHand ELSE stock[p].onHand
  <2>1. /\ totals[p] \in [Fields -> Int] /\ NetChange(totals[p]) = stock[p].onHand
        /\ stock[p].onHand \in Int
    <3>1. stock[p].onHand \in Int
      BY MaxOnHandAssumption DEF BooksInv, StockInv, TypeOK, Level
    <3> QED
      BY <3>1, TotalsStay
  <2>2. ASSUME NEW r \in LedgerRow, {s \in moves : s.at = p} = {r}
        PROVE  /\ AddToTotals(totals[p], {s \in moves : s.at = p}) \in [Fields -> Int]
               /\ NetChange(AddToTotals(totals[p], {s \in moves : s.at = p})) = stock[p].onHand + r.delta
    <3>1. /\ AddToTotals(totals[p], {r}) \in [Fields -> Int]
          /\ NetChange(AddToTotals(totals[p], {r})) = NetChange(totals[p]) + r.delta
      BY <2>1, NetOfOne
    <3> QED
      BY <2>1, <2>2, <3>1
  <2>3. CASE p = a
    <3>1. {s \in moves : s.at = p} = {m}
      BY <1>3, <1>5, <1>6, <1>7, <2>3
    <3>2. new[p].onHand = stock[p].onHand + m.delta
      BY <1>2, <1>3, <1>5, <1>9, <2>1, <2>3
    <3> QED
      BY <1>3, <2>2, <2>3, <3>1, <3>2
  <2>4. CASE p = b
    <3>1. {s \in moves : s.at = p} = {n}
      BY <1>3, <1>5, <1>6, <1>7, <2>4
    <3>2. new[p].onHand = stock[p].onHand + n.delta
      BY <1>2, <1>3, <1>6, <1>9, <2>1, <2>4
    <3> QED
      BY <1>3, <2>2, <2>4, <3>1, <3>2
  <2>5. CASE p # a /\ p # b
    <3>1. {s \in moves : s.at = p} = {}
      BY <1>5, <1>6, <1>7, <2>5
    <3>2. /\ AddToTotals(totals[p], {s \in moves : s.at = p}) \in [Fields -> Int]
          /\ NetChange(AddToTotals(totals[p], {s \in moves : s.at = p})) = stock[p].onHand
      BY <3>1, TotalsStay
    <3> QED
      BY <1>9, <2>5, <3>2
  <2> QED
    BY <2>3, <2>4, <2>5
<1>11. TotalsFollow(c, new, moves)
  BY <1>10 DEF TotalsFollow
<1>12. StockInv'
  BY ShippedKeeps DEF BooksInv
<1>13. Commit(c, new, moves) /\ \A p \in Place : lock[p] = c => new[p].reserved = stock[p].reserved
  BY <1>7, <1>9
<1> QED
  BY <1>1, <1>11, <1>12, <1>13, CommitBooks

-----------------------------------------------------------------------------
(* Reservations *)

(* What the reservations that were not released hold at a location.        *)
Promises(h, f, p) == [r \in Reservation |-> IF f[r] = {} THEN h[r][p] ELSE 0]
Owed(h, f, p) == SumFunctionOnSet(Promises(h, f, p), Reservation)

HoldsTyped(h) == h \in [Reservation -> [Place -> Nat]]

LEMMA OwedIsTheSum ==
    ASSUME NEW h, HoldsTyped(h), NEW f, NEW p \in Place
    PROVE  /\ SumFunctionOnSet([r \in Reservation |-> h[r][p]], {r \in Reservation : f[r] = {}}) =
                Owed(h, f, p)
           /\ Owed(h, f, p) \in Nat
           /\ \A r \in Reservation : Promises(h, f, p)[r] \in Nat /\ Promises(h, f, p)[r] <= Owed(h, f, p)
<1> DEFINE all == [r \in Reservation |-> h[r][p]]
           P == {r \in Reservation : f[r] = {}}
           g == Promises(h, f, p)
<1>1. \A r \in Reservation : all[r] \in Nat /\ g[r] \in Nat /\ g[r] = IF r \in P THEN all[r] ELSE 0
  BY DEF HoldsTyped, Promises
<1>2. P \in SUBSET Reservation /\ IsFiniteSet(Reservation)
  BY ReservationAssumption
<1> HIDE DEF all, P, g
<1>3. SumFunctionOnSet(all, P) = SumFunctionOnSet(g, Reservation)
  BY <1>1, <1>2, SumOfPart
<1>4. /\ SumFunctionOnSet(g, Reservation) \in Nat
      /\ \A r \in Reservation : g[r] <= SumFunctionOnSet(g, Reservation)
  BY <1>1, <1>2, SumOfNaturals
<1> QED
  BY <1>1, <1>3, <1>4 DEF all, P, g, Owed

(* One reservation more, or one less.                                      *)
SameBut(x, h, f, g, e, p) ==
    \A r \in Reservation \ {x} : Promises(g, e, p)[r] = Promises(h, f, p)[r]

LEMMA OwedChanges ==
    ASSUME NEW h, HoldsTyped(h), NEW f, NEW g, HoldsTyped(g), NEW e, NEW p \in Place, NEW x \in Reservation,
           SameBut(x, h, f, g, e, p)
    PROVE  Owed(g, e, p) = Owed(h, f, p) - Promises(h, f, p)[x] + Promises(g, e, p)[x]
<1> DEFINE a == Promises(h, f, p)
           b == Promises(g, e, p)
<1>1. \A r \in Reservation : a[r] \in Int /\ b[r] \in Int
  BY DEF Promises, HoldsTyped
<1>2. IsFiniteSet(Reservation)
  BY ReservationAssumption
<1>3. \A r \in Reservation \ {x} : a[r] = b[r]
  BY DEF SameBut
<1> HIDE DEF a, b
<1>4. SumFunctionOnSet(b, Reservation) = SumFunctionOnSet(a, Reservation) - a[x] + b[x]
  BY <1>1, <1>2, <1>3, SumChanged
<1> QED
  BY <1>4 DEF Owed, a, b

LEMMA ReservedIsOwed ==
    ASSUME TypeOK, HoldsAreReserved, twice = {}, NEW p \in Place
    PROVE  stock[p].reserved = Owed(holds, freed, p)
<1>1. HoldsTyped(holds)
  BY DEF TypeOK, HoldsTyped
<1>2. stock[p].reserved =
        SumFunctionOnSet([r \in Reservation |-> holds[r][p]], {r \in Reservation : freed[r] = {}})
  BY DEF HoldsAreReserved
<1> QED
  BY <1>1, <1>2, OwedIsTheSum

LEMMA OwedIsReserved ==
    ASSUME TypeOK', twice' = {} => \A p \in Place : stock'[p].reserved = Owed(holds', freed', p)
    PROVE  HoldsAreReserved'
<1> SUFFICES ASSUME NEW h, NEW f, h = holds', f = freed', twice' = {}, NEW p \in Place
             PROVE  stock'[p].reserved =
                      SumFunctionOnSet([r \in Reservation |-> h[r][p]], {r \in Reservation : f[r] = {}})
  BY DEF HoldsAreReserved
<1>1. HoldsTyped(h)
  BY DEF TypeOK, HoldsTyped
<1>2. stock'[p].reserved = Owed(h, f, p)
  OBVIOUS
<1> QED
  BY <1>1, <1>2, OwedIsTheSum

(* A commit without ledger rows, after which the units on hand are as      *)
(* they were.                                                              *)
LEMMA NothingMoved ==
    ASSUME BooksInv, NEW c \in Client, NEW new,
           \A p \in Place : lock[p] = c => new[p].onHand = stock[p].onHand
    PROVE  TotalsFollow(c, new, {})
<1> SUFFICES ASSUME NEW p \in Place
             PROVE  LET t == AddToTotals(totals[p], {r \in {} : r.at = p})
                    IN  /\ t \in [Fields -> Int]
                        /\ NetChange(t) = IF lock[p] = c THEN new[p].onHand ELSE stock[p].onHand
  BY DEF TotalsFollow
<1>1. {r \in {} : r.at = p} = {}
  OBVIOUS
<1>2. /\ AddToTotals(totals[p], {r \in {} : r.at = p}) \in [Fields -> Int]
      /\ NetChange(AddToTotals(totals[p], {r \in {} : r.at = p})) = stock[p].onHand
  BY <1>1, TotalsStay
<1> QED
  BY <1>2

LEMMA HeldBooks ==
    ASSUME BooksInv, NEW c \in Client, Held(c)
    PROVE  BooksInv'
<1>1. Active(c) /\ job[c].op = "allocated" /\ job[c].plan = << >> /\ freed' = freed /\ twice' = twice
  BY DEF Held, Ready
<1>2. PICK j \in Jobs, r \in Reservation, share \in [Place -> Nat] :
        j = job[c] /\ r = j.ref /\ share = j.share /\ Sound(c, j)
  BY <1>1, AtWork, PlanDone DEF Jobs, BooksInv
<1>3. r \in issued /\ holds[r] = NoUnits /\ freed[r] = {}
  BY <1>1, <1>2 DEF Sound, HoldsNothingYet, Reserving
<1>4. /\ \A p \in Place : share[p] > 0 => lock[p] = c
      /\ \A p \in Place : lock[p] = c => seen[c][p] = stock[p] /\ stock[p] \in Level
  BY <1>1, <1>2, PlanDone DEF Needs
<1>5. PICK new :
        new = [p \in Place |-> Promise(seen[c][p], share[p])] /\ Commit(c, new, {})
  BY <1>2, Zenon DEF Held
<1>6. holds' = [holds EXCEPT ![r] = share]
  BY <1>2 DEF Held
<1>7. \A p \in Place : lock[p] = c =>
        new[p].onHand = stock[p].onHand /\ new[p].reserved = stock[p].reserved + share[p]
  BY <1>4, <1>5 DEF Promise, Level
<1>8. /\ stock' = [p \in Place |-> IF lock[p] = c THEN new[p] ELSE stock[p]]
      /\ End(c) /\ site' = site /\ listed' = listed /\ issued' = issued
  BY <1>5 DEF Commit
<1>9. StockInv' /\ TypeOK' /\ TypeOK /\ holds \in [Reservation -> [Place -> Nat]]
  BY HeldKeeps DEF BooksInv, StockInv, TypeOK
<1>10. RowsInv' /\ TotalsTyped' /\ TotalsExplainStock'
  <2>1. \A p \in Place : lock[p] # c => share[p] = 0 /\ holds[r][p] = 0
    BY <1>2, <1>3, <1>4 DEF NoUnits
  <2>2. \A p \in Place : lock[p] # c => \A s \in Reservation : holds'[s][p] = holds[s][p]
    BY <1>6, <1>9, <2>1
  <2>3. TotalsFollow(c, new, {})
    BY <1>7, NothingMoved
  <2> QED
    BY <1>5, <1>9, <2>2, <2>3, CommitRows
<1>11. HoldsInv'
  <2>1. OwnReservations'
    BY <1>8, Ended
  <2> QED
    BY <1>1, <1>3, <1>6, <1>8, <1>9, <2>1 DEF BooksInv, HoldsInv, IssuedFirst, ReleasedWhole
<1>12. JobsAreSound'
  <2>1. ASSUME NEW d \in Client, d # c, job[d].op \in Reserving \cup {"release"}
        PROVE  holds'[job[d].ref] = holds[job[d].ref] /\ freed'[job[d].ref] = freed[job[d].ref]
    <3>1. job[d].ref # r
      BY <1>1, <1>2, <2>1 DEF BooksInv, HoldsInv, OwnReservations, Reserving
    <3> QED
      BY <1>1, <1>6, <1>9, <3>1
  <2> QED
    BY <1>8, <2>1, OthersStaySound DEF Gone
<1>13. HoldsAreReserved'
  <2>1. PICK h, g : h = holds /\ HoldsTyped(h) /\ g = holds' /\ HoldsTyped(g) /\ g = [h EXCEPT ![r] = share]
    BY <1>6, <1>9 DEF TypeOK, HoldsTyped
  <2>2. PICK f : f = freed /\ f = freed'
    BY <1>1
  <2>3. ASSUME NEW p \in Place, twice' = {} PROVE stock'[p].reserved = Owed(g, f, p)
    <3>1. SameBut(r, h, f, g, f, p)
      BY <2>1 DEF HoldsTyped, Promises, SameBut
    <3>2. Promises(h, f, p)[r] = 0 /\ Promises(g, f, p)[r] = share[p]
      BY <1>3, <2>1, <2>2 DEF HoldsTyped, Promises, NoUnits
    <3>3. Owed(g, f, p) = Owed(h, f, p) - Promises(h, f, p)[r] + Promises(g, f, p)[r]
      BY <2>1, <3>1, OwedChanges
    <3>4. stock[p].reserved = Owed(h, f, p) /\ Owed(h, f, p) \in Nat
      <4>1. twice = {} /\ HoldsAreReserved
        BY <1>1, <2>3 DEF BooksInv, BooksExplainStock
      <4> QED
        BY <1>9, <2>1, <2>2, <4>1, ReservedIsOwed, OwedIsTheSum
    <3>5. stock'[p].reserved = stock[p].reserved + share[p]
      <4>1. CASE lock[p] = c
        BY <1>7, <1>8, <4>1
      <4>2. CASE lock[p] # c
        BY <1>2, <1>4, <1>8, <3>4, <4>2
      <4> QED
        BY <4>1, <4>2
    <3> QED
      BY <3>2, <3>3, <3>4, <3>5
  <2>4. twice' = {} => \A p \in Place : stock'[p].reserved = Owed(holds', freed', p)
    BY <2>1, <2>2, <2>3
  <2> QED
    BY <1>9, <2>4, OwedIsReserved
<1> QED
  BY <1>9, <1>10, <1>11, <1>12, <1>13 DEF BooksInv, BooksExplainStock

LEMMA ReleasedBooks ==
    ASSUME BooksInv, NEW c \in Client, Released(c)
    PROVE  BooksInv'
<1>1. Active(c) /\ job[c].op = "release" /\ job[c].plan = << >> /\ holds' = holds
  BY DEF Released, Ready
<1>2. PICK j \in Jobs, r \in Reservation, share \in [Place -> Nat] :
        j = job[c] /\ r = j.ref /\ share = j.share /\ Sound(c, j)
  BY <1>1, AtWork, PlanDone DEF Jobs, BooksInv
<1>3. /\ r \in issued
      /\ \E p \in Place : share[p] > 0
      /\ \A p \in Place : holds[r][p] = share[p] \/ (holds[r][p] = 0 /\ Gone(p))
  BY <1>1, <1>2 DEF Sound, KnowsWhatIsHeld
<1>4. /\ \A p \in Place : share[p] > 0 => lock[p] = c
      /\ \A p \in Place : lock[p] = c => seen[c][p] = stock[p] /\ stock[p] \in Level
  BY <1>1, <1>2, PlanDone DEF Needs
<1>5. PICK new :
        /\ new = [p \in Place |-> [seen[c][p] EXCEPT !.reserved = @ - Lesser(share[p], seen[c][p].reserved)]]
        /\ Commit(c, new, {})
  BY <1>2, Zenon DEF Released
<1>6. /\ freed' = [freed EXCEPT ![r] = {p \in Place : share[p] > 0}]
      /\ twice' = IF freed[r] = {} THEN twice ELSE twice \cup {r}
  BY <1>2 DEF Released
<1>7. \A p \in Place : lock[p] = c =>
        /\ new[p].onHand = stock[p].onHand
        /\ new[p].reserved = stock[p].reserved - Lesser(share[p], stock[p].reserved)
  BY <1>4, <1>5 DEF Level
<1>8. /\ stock' = [p \in Place |-> IF lock[p] = c THEN new[p] ELSE stock[p]]
      /\ End(c) /\ site' = site /\ listed' = listed /\ issued' = issued
  BY <1>5 DEF Commit
<1>9. /\ StockInv' /\ TypeOK' /\ TypeOK
      /\ holds \in [Reservation -> [Place -> Nat]] /\ freed \in [Reservation -> SUBSET Place]
  BY ReleasedKeeps DEF BooksInv, StockInv, TypeOK
<1>10. RowsInv' /\ TotalsTyped' /\ TotalsExplainStock'
  <2>1. TotalsFollow(c, new, {})
    BY <1>7, NothingMoved
  <2>2. \A p \in Place : lock[p] # c => \A s \in Reservation : holds'[s][p] = holds[s][p]
    BY <1>1
  <2> QED
    BY <1>5, <1>9, <2>1, <2>2, CommitRows
<1>11. HoldsInv'
  <2>1. OwnReservations'
    BY <1>8, Ended
  <2>2. IssuedFirst'
    BY <1>1, <1>3, <1>6, <1>8, <1>9 DEF BooksInv, HoldsInv, IssuedFirst
  <2>3. \A p \in Place : holds[r][p] > 0 => share[p] > 0
    BY <1>2, <1>3
  <2>4. ReleasedWhole'
    BY <1>1, <1>6, <1>9, <2>3 DEF BooksInv, HoldsInv, ReleasedWhole
  <2> QED
    BY <2>1, <2>2, <2>4 DEF HoldsInv
<1>12. JobsAreSound'
  <2>1. ASSUME NEW d \in Client, d # c, job[d].op \in Reserving
        PROVE  freed'[job[d].ref] = freed[job[d].ref]
    <3>1. job[d].ref # r
      BY <1>1, <1>2, <2>1 DEF BooksInv, HoldsInv, OwnReservations
    <3> QED
      BY <1>6, <1>9, <3>1
  <2> QED
    BY <1>1, <1>8, <2>1, OthersStaySound DEF Gone
<1>13. HoldsAreReserved'
  <2>1. PICK h : h = holds /\ h = holds' /\ HoldsTyped(h)
    BY <1>1, <1>9 DEF HoldsTyped
  <2>2. PICK f, e : f = freed /\ e = freed' /\ e[r] # {} /\ \A s \in Reservation \ {r} : e[s] = f[s]
    <3>1. freed'[r] # {} /\ \A s \in Reservation \ {r} : freed'[s] = freed[s]
      BY <1>3, <1>6, <1>9
    <3> QED
      BY <3>1, Zenon
  <2>3. ASSUME NEW p \in Place, twice' = {} PROVE stock'[p].reserved = Owed(h, e, p)
    <3>1. twice = {} /\ f[r] = {}
      BY <1>6, <2>2, <2>3
    <3>2. SameBut(r, h, f, h, e, p)
      BY <2>2 DEF Promises, SameBut
    <3>3. Promises(h, f, p)[r] = holds[r][p] /\ Promises(h, e, p)[r] = 0
      BY <2>1, <2>2, <3>1 DEF Promises
    <3>4. Owed(h, e, p) = Owed(h, f, p) - Promises(h, f, p)[r] + Promises(h, e, p)[r]
      BY <2>1, <3>2, OwedChanges
    <3>5. stock[p].reserved = Owed(h, f, p)
      <4>1. HoldsAreReserved
        BY DEF BooksInv, BooksExplainStock
      <4> QED
        BY <1>9, <2>1, <2>2, <3>1, <4>1, ReservedIsOwed
    <3>6. Owed(h, f, p) \in Nat /\ holds[r][p] \in Nat /\ holds[r][p] <= Owed(h, f, p)
      BY <1>9, <2>1, <3>3, OwedIsTheSum
    <3>7. CASE lock[p] = c
      <4>1. listed /\ site[p] = "open"
        BY <3>7, NobodyAssumption DEF BooksInv, RowsInv, RowsAreOpen
      <4>2. holds[r][p] = share[p]
        BY <1>3, <4>1 DEF Gone
      <4>3. stock'[p].reserved = stock[p].reserved - Lesser(share[p], stock[p].reserved)
        BY <1>7, <1>8, <3>7
      <4>4. Lesser(share[p], stock[p].reserved) = share[p]
        BY <3>5, <3>6, <4>2 DEF Lesser
      <4> QED
        BY <3>3, <3>4, <3>5, <3>6, <4>2, <4>3, <4>4
    <3>8. CASE lock[p] # c
      <4>1. share[p] = 0
        BY <1>2, <1>4, <3>8
      <4>2. holds[r][p] = 0
        BY <1>3, <4>1
      <4>3. stock'[p].reserved = stock[p].reserved
        BY <1>8, <3>8
      <4> QED
        BY <3>3, <3>4, <3>5, <3>6, <4>2, <4>3
    <3> QED
      BY <3>7, <3>8
  <2>4. twice' = {} => \A p \in Place : stock'[p].reserved = Owed(holds', freed', p)
    BY <2>1, <2>2, <2>3
  <2> QED
    BY <1>9, <2>4, OwedIsReserved
<1> QED
  BY <1>9, <1>10, <1>11, <1>12, <1>13 DEF BooksInv, BooksExplainStock

-----------------------------------------------------------------------------
(* Deletions *)

LEMMA NetOfNothing == NoTotals \in [Fields -> Int] /\ NetChange(NoTotals) = 0
  BY DEF NoTotals, NetChange, Fields, Inflow, Outflow

(* The locations that are left, and what is held there.                    *)
LEMMA VanishBooks ==
    ASSUME BooksInv, NEW places \in SUBSET Place, Vanish(places), StockInv', twice' = twice,
           issued' = issued
    PROVE  /\ NoRowNoStock' /\ IssuedFirst' /\ ReleasedWhole' /\ TotalsTyped' /\ BooksExplainStock'
           /\ \A r \in Reservation, p \in Place :
                holds'[r][p] = IF p \in places THEN 0 ELSE holds[r][p]
           /\ \A r \in Reservation : holds[r] = NoUnits => holds'[r] = holds[r]
           /\ \A r \in Reservation : freed[r] = {} => freed'[r] = freed[r]
<1>1. /\ stock' = [p \in Place |-> IF p \in places THEN NoStock ELSE stock[p]]
      /\ rows' = rows \ places
      /\ totals' = [p \in Place |-> IF p \in places THEN NoTotals ELSE totals[p]]
      /\ holds' = [r \in Reservation |-> [p \in Place |-> IF p \in places THEN 0 ELSE holds[r][p]]]
      /\ freed' = [r \in Reservation |-> freed[r] \ places]
  BY DEF Vanish
<1>2. holds \in [Reservation -> [Place -> Nat]] /\ freed \in [Reservation -> SUBSET Place] /\ TypeOK /\ TypeOK'
  BY DEF BooksInv, StockInv, TypeOK
<1>3. \A r \in Reservation, p \in Place : holds'[r][p] = IF p \in places THEN 0 ELSE holds[r][p]
  BY <1>1
<1>4. \A r \in Reservation : holds[r] = NoUnits => holds'[r] = holds[r]
  BY <1>1 DEF NoUnits
<1>5. \A r \in Reservation : freed[r] = {} => freed'[r] = freed[r]
  BY <1>1
<1>6. NoRowNoStock'
  BY <1>1, <1>3 DEF BooksInv, RowsInv, NoRowNoStock
<1>7. IssuedFirst'
  BY <1>4, <1>5 DEF BooksInv, HoldsInv, IssuedFirst
<1>8. ReleasedWhole'
  BY <1>1, <1>2, <1>3 DEF BooksInv, HoldsInv, ReleasedWhole
<1>9. TotalsTyped' /\ TotalsExplainStock'
  BY <1>1, NetOfNothing DEF BooksInv, TotalsTyped, BooksExplainStock, TotalsExplainStock, NoStock
<1>10. HoldsAreReserved'
  <2>1. PICK h, g, f, e : /\ h = holds /\ g = holds' /\ HoldsTyped(h) /\ HoldsTyped(g)
                          /\ f = freed /\ e = freed'
    BY <1>2 DEF TypeOK, HoldsTyped
  <2>2. ASSUME NEW p \in Place, twice' = {} PROVE stock'[p].reserved = Owed(g, e, p)
    <3> DEFINE a == Promises(h, f, p)
               b == Promises(g, e, p)
    <3>1. IsFiniteSet(Reservation)
      BY ReservationAssumption
    <3>2. CASE p \in places
      <4>1. \A r \in Reservation : b[r] = 0
        BY <1>3, <2>1, <3>2 DEF Promises
      <4> HIDE DEF b
      <4>2. SumFunctionOnSet(b, Reservation) = 0
        BY <3>1, <4>1, SumOfZeros
      <4>3. stock'[p].reserved = 0
        BY <1>1, <3>2 DEF NoStock
      <4> QED
        BY <4>2, <4>3 DEF Owed, b
    <3>3. CASE p \notin places
      <4>1. ASSUME NEW r \in Reservation PROVE a[r] = b[r]
        <5>1. h[r][p] = g[r][p] /\ e[r] = f[r] \ places /\ h[r][p] \in Nat
          BY <1>1, <1>2, <1>3, <2>1, <3>3
        <5>2. f[r] # {} /\ e[r] = {} => h[r][p] = 0
          BY <2>1, <3>3, <5>1 DEF BooksInv, HoldsInv, ReleasedWhole
        <5> QED
          BY <5>1, <5>2 DEF Promises
      <4> HIDE DEF a, b
      <4>2. SumFunctionOnSet(a, Reservation) = SumFunctionOnSet(b, Reservation)
        BY <3>1, <4>1, SumOfEqual
      <4>3. stock'[p] = stock[p]
        BY <1>1, <3>3
      <4>4. stock[p].reserved = Owed(h, f, p)
        <5>1. twice = {} /\ HoldsAreReserved
          BY <2>2 DEF BooksInv, BooksExplainStock
        <5> QED
          BY <1>2, <2>1, <5>1, ReservedIsOwed
      <4> QED
        BY <4>2, <4>3, <4>4 DEF Owed, a, b
    <3> QED
      BY <3>2, <3>3
  <2>3. twice' = {} => \A p \in Place : stock'[p].reserved = Owed(holds', freed', p)
    BY <2>1, <2>2
  <2> QED
    BY <1>2, <2>3, OwedIsReserved
<1> QED
  BY <1>3, <1>4, <1>5, <1>6, <1>7, <1>8, <1>9, <1>10 DEF BooksExplainStock

LEMMA LocationDeletedBooks ==
    ASSUME BooksInv, NEW c \in Client, LocationDeleted(c)
    PROVE  BooksInv'
<1>1. PICK p \in Place : lock[p] = Nobody /\ Vanish({p}) /\ site' = [site EXCEPT ![p] = "deleted"]
  BY AtWork DEF LocationDeleted, Ready, Jobs, BooksInv
<1>2. End(c) /\ UNCHANGED <<sellable, listed, issued, twice, requests>>
  BY DEF LocationDeleted
<1>3. StockInv' /\ site \in [Place -> {"new", "open", "deleted"}]
  BY LocationDeletedKeeps DEF BooksInv, StockInv, TypeOK
<1>4. PICK places \in SUBSET Place : places = {p} /\ Vanish(places)
  BY <1>1
<1>5. /\ NoRowNoStock' /\ IssuedFirst' /\ ReleasedWhole' /\ TotalsTyped' /\ BooksExplainStock'
      /\ \A r \in Reservation, q \in Place : holds'[r][q] = IF q \in places THEN 0 ELSE holds[r][q]
      /\ \A r \in Reservation : holds[r] = NoUnits => holds'[r] = holds[r]
      /\ \A r \in Reservation : freed[r] = {} => freed'[r] = freed[r]
  BY <1>2, <1>3, <1>4, VanishBooks
<1>6. RowsAreOpen'
  <2>1. rows' = rows \ {p} /\ \A q \in Place : lock'[q] = IF lock[q] = c THEN Nobody ELSE lock[q]
    BY <1>1, <1>2, Ended DEF Vanish
  <2> QED
    BY <1>1, <1>2, <1>3, <2>1 DEF BooksInv, RowsInv, RowsAreOpen
<1>7. LockersWork' /\ OwnReservations'
  BY <1>2, Ended
<1>8. JobsAreSound'
  <2>1. ASSUME NEW d \in Client, Active(d), job[d].op \in Reserving
        PROVE  holds'[job[d].ref] = holds[job[d].ref] /\ freed'[job[d].ref] = freed[job[d].ref]
    <3>1. HoldsNothingYet(job[d]) /\ job[d].ref \in Reservation
      BY <2>1, AtWork DEF BooksInv, JobsAreSound, Sound, Jobs
    <3> QED
      BY <1>5, <3>1 DEF HoldsNothingYet
  <2>2. ASSUME NEW d \in Client, Active(d), NEW q \in Place
        PROVE  \/ holds'[job[d].ref][q] = holds[job[d].ref][q] /\ (Gone(q) => Gone(q)')
               \/ holds'[job[d].ref][q] = 0 /\ Gone(q)'
    <3>1. job[d].ref \in Reservation
      BY <2>2, AtWork DEF BooksInv, Jobs
    <3>2. CASE q = p
      BY <1>1, <1>3, <1>4, <1>5, <3>1, <3>2 DEF Gone
    <3>3. CASE q # p
      BY <1>1, <1>2, <1>3, <1>4, <1>5, <3>1, <3>3 DEF Gone
    <3> QED
      BY <3>2, <3>3
  <2> QED
    BY <1>2, <2>1, <2>2, OthersStaySound
<1> QED
  BY <1>3, <1>5, <1>6, <1>7, <1>8 DEF BooksInv, RowsInv, HoldsInv

LEMMA HardDeleteBooks ==
    ASSUME BooksInv, HardDeleteProduct
    PROVE  BooksInv'
<1>1. /\ Vanish(Place) /\ ~ listed'
      /\ \A p \in Place : lock[p] = Nobody
      /\ UNCHANGED <<site, sellable, issued, twice, lock, seen, job>>
  BY DEF HardDeleteProduct
<1>2. StockInv' /\ rows \subseteq Place
  BY HardDeleteKeeps DEF BooksInv, StockInv, TypeOK
<1>3. PICK places \in SUBSET Place : places = Place /\ Vanish(places)
  BY <1>1
<1>4. /\ NoRowNoStock' /\ IssuedFirst' /\ ReleasedWhole' /\ TotalsTyped' /\ BooksExplainStock'
      /\ \A r \in Reservation, q \in Place : holds'[r][q] = IF q \in places THEN 0 ELSE holds[r][q]
      /\ \A r \in Reservation : holds[r] = NoUnits => holds'[r] = holds[r]
      /\ \A r \in Reservation : freed[r] = {} => freed'[r] = freed[r]
  BY <1>1, <1>2, <1>3, VanishBooks
<1>5. RowsAreOpen'
  <2>1. rows' = rows \ Place
    BY <1>1 DEF Vanish
  <2> QED
    BY <1>1, <2>1 DEF RowsAreOpen
<1>6. LockersWork' /\ OwnReservations'
  BY <1>1 DEF BooksInv, RowsInv, LockersWork, HoldsInv, OwnReservations, Active
<1>7. JobsAreSound'
  <2> SUFFICES ASSUME NEW d \in Client, Active(d)', NEW j, j = job'[d] PROVE Sound(d, j)'
    BY DEF JobsAreSound, Sound, PlanCovers, TakesInOrder, HoldsNothingYet, KnowsWhatIsHeld
  <2>1. j = job[d] /\ Active(d) /\ j \in Jobs /\ Sound(d, j) /\ j.ref \in Reservation
    BY <1>1, AtWork DEF Active, BooksInv, JobsAreSound, Jobs
  <2>2. j.op \in Reserving => holds'[j.ref] = holds[j.ref] /\ freed'[j.ref] = freed[j.ref]
    BY <1>4, <2>1 DEF Sound, HoldsNothingYet
  <2>3. \A q \in Place : holds'[j.ref][q] = 0 /\ Gone(q)'
    BY <1>1, <1>3, <1>4, <2>1 DEF Gone
  <2> QED
    BY <1>1, <2>1, <2>2, <2>3, StaysSound
<1> QED
  BY <1>2, <1>4, <1>5, <1>6, <1>7 DEF BooksInv, RowsInv, HoldsInv

LEMMA UpsertLocationBooks ==
    ASSUME BooksInv, UpsertLocation
    PROVE  BooksInv'
<1>1. PICK p \in Place : site' = [site EXCEPT ![p] = "open"] /\ site[p] # "deleted"
  BY Zenon DEF UpsertLocation
<1>2. UNCHANGED <<stock, holds, rows, listed, totals, issued, freed, twice, lock, seen, job>>
  BY DEF UpsertLocation
<1>3. StockInv' /\ site \in [Place -> {"new", "open", "deleted"}]
  BY UpsertLocationKeeps DEF BooksInv, StockInv, TypeOK
<1>4. RowsInv'
  BY <1>1, <1>2, <1>3 DEF BooksInv, RowsInv, RowsAreOpen, LockersWork, NoRowNoStock, Active
<1>5. HoldsInv'
  BY <1>2 DEF BooksInv, HoldsInv, IssuedFirst, ReleasedWhole, OwnReservations
<1>6. JobsAreSound'
  <2> SUFFICES ASSUME NEW d \in Client, Active(d)', NEW j, j = job'[d] PROVE Sound(d, j)'
    BY DEF JobsAreSound, Sound, PlanCovers, TakesInOrder, HoldsNothingYet, KnowsWhatIsHeld
  <2>1. j = job[d] /\ Active(d) /\ j \in Jobs /\ Sound(d, j)
    BY <1>2, AtWork DEF Active, BooksInv, JobsAreSound
  <2>2. \A q \in Place : Gone(q) => Gone(q)'
    BY <1>1, <1>2, <1>3 DEF Gone
  <2> QED
    BY <1>2, <2>1, <2>2, StaysSound
<1>7. TotalsTyped' /\ BooksExplainStock'
  BY <1>2 DEF BooksInv, TotalsTyped, BooksExplainStock, HoldsAreReserved, TotalsExplainStock
<1> QED
  BY <1>3, <1>4, <1>5, <1>6, <1>7 DEF BooksInv

-----------------------------------------------------------------------------
(* Every reservation and every ledger row is on the books                  *)

LEMMA OpeningBooks == Init => BooksInv
<1> SUFFICES ASSUME Init PROVE BooksInv
  OBVIOUS
<1> DEFINE x == FirstReservation
<1>1. PICK opening \in Opening :
        LET held == opening[1]
            more == opening[2]
        IN
        /\ \A p \in Place : site[p] = "new" => held[p] + more[p] = 0
        /\ stock = [p \in Place |-> [onHand |-> held[p] + more[p], reserved |-> held[p]]]
        /\ rows = {p \in Place : held[p] + more[p] > 0}
        /\ totals = [p \in Place |-> [NoTotals EXCEPT !["RESTOCK"] = held[p] + more[p]]]
        /\ holds = [[s \in Reservation |-> NoUnits] EXCEPT ![x] = held]
        /\ issued = IF held = NoUnits THEN {} ELSE {x}
  BY Zenon DEF Init
<1>2. PICK held \in [Place -> Nat], more \in [Place -> Nat] : held = opening[1] /\ more = opening[2]
  BY OpeningAssumption
<1>3. /\ site \in [Place -> {"new", "open"}]
      /\ freed = [r \in Reservation |-> {}]
      /\ lock = [p \in Place |-> Nobody]
      /\ job = [c \in Client |-> NoJob]
  BY DEF Init
<1>4. StockInv /\ listed
  BY InitHolds, Zenon DEF Init
<1>5. x \in Reservation
  BY SomeReservation
<1> HIDE DEF x
<1>6. \A r \in Reservation : holds[r] = IF r = x THEN held ELSE NoUnits
  BY <1>1, <1>2, <1>5
<1>7. RowsInv
  <2>1. RowsAreOpen
    BY <1>1, <1>2, <1>3, <1>4 DEF RowsAreOpen
  <2>2. LockersWork
    BY <1>3, NobodyAssumption DEF LockersWork
  <2>3. NoRowNoStock
    <3>1. ASSUME NEW p \in Place, p \notin rows PROVE held[p] = 0 /\ more[p] = 0
      <4>1. held[p] \in Nat /\ more[p] \in Nat
        OBVIOUS
      <4>2. rows = {q \in Place : held[q] + more[q] > 0}
        BY <1>1, <1>2
      <4> QED
        BY <3>1, <4>1, <4>2
    <3>2. ASSUME NEW p \in Place, p \notin rows PROVE stock[p] = NoStock
      BY <1>1, <1>2, <3>1, <3>2 DEF NoStock
    <3>3. ASSUME NEW p \in Place, p \notin rows, NEW r \in Reservation PROVE holds[r][p] = 0
      BY <1>6, <3>1, <3>3 DEF NoUnits
    <3> QED
      BY <3>2, <3>3 DEF NoRowNoStock
  <2> QED
    BY <2>1, <2>2, <2>3 DEF RowsInv
<1>8. HoldsInv
  <2>1. IssuedFirst
    BY <1>1, <1>2, <1>3, <1>5, <1>6 DEF IssuedFirst
  <2>2. ReleasedWhole
    BY <1>3 DEF ReleasedWhole
  <2>3. OwnReservations
    BY <1>3 DEF OwnReservations, NoJob, Reserving
  <2> QED
    BY <2>1, <2>2, <2>3 DEF HoldsInv
<1>9. JobsAreSound
  BY <1>3 DEF JobsAreSound, Active
<1>10. TotalsTyped /\ TotalsExplainStock
  <2>1. ASSUME NEW p \in Place
        PROVE  totals[p] \in [Fields -> Int] /\ NetChange(totals[p]) = stock[p].onHand
    <3>1. PICK n \in Nat : n = held[p] + more[p]
      BY <1>2
    <3>2. totals[p] = [NoTotals EXCEPT !["RESTOCK"] = n] /\ stock[p].onHand = n
      BY <1>1, <1>2, <3>1
    <3> QED
      BY <3>2 DEF NoTotals, NetChange, Fields, Inflow, Outflow
  <2>2. totals = [p \in Place |-> totals[p]]
    BY <1>1
  <2> QED
    BY <2>1, <2>2 DEF TotalsTyped, TotalsExplainStock
<1>11. HoldsAreReserved
  <2>1. PICK h, f : h = holds /\ f = freed /\ HoldsTyped(h)
    BY <1>4 DEF StockInv, TypeOK, HoldsTyped
  <2>2. ASSUME NEW p \in Place
        PROVE  stock[p].reserved =
                 SumFunctionOnSet([r \in Reservation |-> h[r][p]], {r \in Reservation : f[r] = {}})
    <3>1. stock[p].reserved = held[p] /\ held[p] \in Nat
      BY <1>1, <1>2
    <3> DEFINE one == Promises(h, f, p)
    <3>2. \A r \in Reservation : one[r] = IF r = x THEN held[p] ELSE 0
      BY <1>3, <1>6, <2>1 DEF Promises, NoUnits
    <3>3. {x} \in SUBSET Reservation /\ IsFiniteSet(Reservation)
      BY <1>5, ReservationAssumption
    <3> HIDE DEF one
    <3> DEFINE full == [r \in Reservation |-> held[p]]
    <3>4. /\ full[x] = held[p]
          /\ \A r \in Reservation : full[r] \in Int
          /\ \A r \in Reservation : one[r] = IF r \in {x} THEN full[r] ELSE 0
      BY <1>5, <3>1, <3>2
    <3> HIDE DEF full
    <3>5. SumFunctionOnSet(full, {x}) = SumFunctionOnSet(one, Reservation)
      BY <3>3, <3>4, SumOfPart
    <3>6. SumFunctionOnSet(full, {x}) = held[p]
      <4>1. full[x] \in Int
        BY <3>1, <3>4
      <4> QED
        BY <3>4, <4>1, SumOfOne
    <3>7. Owed(h, f, p) = held[p]
      BY <3>5, <3>6 DEF Owed, one
    <3> QED
      BY <2>1, <3>1, <3>7, OwedIsTheSum
  <2> QED
    BY <2>1, <2>2 DEF HoldsAreReserved
<1> QED
  BY <1>4, <1>7, <1>8, <1>9, <1>10, <1>11 DEF BooksInv, BooksExplainStock

LEMMA NextBooks == BooksInv /\ [Next]_vars => BooksInv'
<1> SUFFICES ASSUME BooksInv, [Next]_vars PROVE BooksInv'
  OBVIOUS
<1>1. ASSUME NEW c \in Client, Request(c) PROVE BooksInv'
  BY <1>1, RequestBooks
<1>2. ASSUME NEW c \in Client, Work(c) PROVE BooksInv'
  <2>1. CASE Lock(c)
    BY <2>1, LockBooks
  <2>2. CASE CountsSet(c)
    BY <2>2, CountsSetBooks
  <2>3. CASE Gained(c) \/ Lost(c) \/ Shifted(c) \/ Recounted(c)
    BY <2>3, SingleBooks
  <2>4. CASE Shipped(c)
    BY <2>4, ShippedBooks
  <2>5. CASE Allocated(c)
    BY <2>5, AllocatedBooks
  <2>6. CASE Held(c)
    BY <2>6, HeldBooks
  <2>7. CASE Released(c)
    BY <2>7, ReleasedBooks
  <2>8. CASE LocationDeleted(c)
    BY <2>8, LocationDeletedBooks
  <2>9. CASE Refuse(c) \/ DeadlockVictim(c)
    BY <2>9, RollbackBooks DEF Refuse, DeadlockVictim
  <2> QED
    BY <1>2, <2>1, <2>2, <2>3, <2>4, <2>5, <2>6, <2>7, <2>8, <2>9 DEF Work
<1>3. ASSUME NEW c \in Client, ConnectionLost(c) PROVE BooksInv'
  BY <1>3, RollbackBooks DEF ConnectionLost
<1>4. CASE UpsertLocation
  BY <1>4, UpsertLocationBooks
<1>5. CASE HardDeleteProduct
  BY <1>5, HardDeleteBooks
<1>6. CASE UNCHANGED vars
  <2>1. /\ stock' = stock /\ holds' = holds /\ rows' = rows /\ site' = site /\ sellable' = sellable
        /\ listed' = listed /\ totals' = totals /\ issued' = issued /\ freed' = freed
        /\ twice' = twice /\ lock' = lock /\ seen' = seen /\ job' = job /\ requests' = requests
    BY <1>6 DEF vars, tables, sessions
  <2>2. StockInv'
    BY <1>6, NextKeeps DEF BooksInv
  <2>3. RowsInv' /\ HoldsInv'
    BY <2>1 DEF BooksInv, RowsInv, HoldsInv, RowsAreOpen, LockersWork, NoRowNoStock, IssuedFirst,
                ReleasedWhole, OwnReservations, Active
  <2>4. JobsAreSound'
    BY <2>1 DEF BooksInv, JobsAreSound, Sound, PlanCovers, TakesInOrder, HoldsNothingYet,
                KnowsWhatIsHeld, Active, Gone
  <2>5. TotalsTyped' /\ BooksExplainStock'
    BY <2>1 DEF BooksInv, TotalsTyped, BooksExplainStock, HoldsAreReserved, TotalsExplainStock
  <2> QED
    BY <2>2, <2>3, <2>4, <2>5 DEF BooksInv
<1> QED
  BY <1>1, <1>2, <1>3, <1>4, <1>5, <1>6 DEF Next

LEMMA BooksInvariant == Spec => []BooksInv
<1> QED
  BY OpeningBooks, NextBooks, PTL DEF Spec

(* The books of every location explain its row at every moment: the        *)
(* reservations not released hold just the units that are reserved there   *)
(* (unless one was released twice), and the ledger's totals add up to the  *)
(* units on hand.                                                          *)
THEOREM BooksAreExplained == Spec => []BooksExplainStock
<1>1. BooksInv => BooksExplainStock
  BY DEF BooksInv
<1> QED
  BY <1>1, BooksInvariant, PTL

(* Both: what is promised is there, and what is there is explained.        *)
THEOREM StockStaysExplained == Spec => []StockAddsUp
  BY PromisesAreCovered, BooksAreExplained, PTL DEF StockAddsUp

-----------------------------------------------------------------------------
(* Shipments                                                               *)

(* Transactions that all lock two rows in the order of their locations'    *)
(* ids never wait for each other in a circle: the one whose next row has   *)
(* the greatest id waits for a session that is waiting for a greater one.  *)
THEOREM ShipmentsNeverCircle == Spec => []OrderedLocksNeverCircle
<1>1. BooksInv => OrderedLocksNeverCircle
  <2> SUFFICES ASSUME BooksInv, NEW S \in SUBSET Client, Circle(S), \A c \in S : job[c].op = "ship"
               PROVE  FALSE
    BY DEF OrderedLocksNeverCircle
  <2>1. ASSUME NEW c \in S
        PROVE  /\ Active(c) /\ job[c] \in Jobs /\ TakesInOrder(c, job[c])
               /\ Next1(c) \in Place /\ Next1(c) = job[c].plan[1] /\ 1 \in DOMAIN job[c].plan
    <3>1. Active(c) /\ job[c].plan # << >> /\ job[c].op = "ship"
      BY DEF Circle, Blocked, Waiting
    <3>2. job[c] \in Jobs /\ TakesInOrder(c, job[c])
      BY <3>1, AtWork DEF BooksInv, JobsAreSound, Sound
    <3>3. PICK plan \in Seq(Place) : plan = job[c].plan
      BY <3>2 DEF Jobs
    <3>4. plan # << >> /\ Next1(c) = Head(plan)
      BY <3>1, <3>3 DEF Next1
    <3>5. Head(plan) \in Place /\ Head(plan) = plan[1] /\ 1 \in DOMAIN plan
      BY <3>3, <3>4
    <3> QED
      BY <3>1, <3>2, <3>3, <3>4, <3>5
  <2>2. PICK nexts \in SUBSET Place : nexts = {Next1(c) : c \in S}
    BY <2>1
  <2>3. nexts # {} /\ nexts \subseteq Nat /\ IsFiniteSet(nexts)
    <3>1. S # {}
      BY DEF Circle
    <3>2. nexts # {}
      BY <2>2, <3>1
    <3> QED
      BY <3>2, PlaceAssumption, FS_Subset
  <2>4. PICK last \in nexts : \A p \in nexts : p <= last
    BY <2>3, GreatestIsIn
  <2>5. PICK c \in S : last = Next1(c)
    BY <2>2
  <2>6. lock[last] \in S
    <3>1. S = {lock[Next1(e)] : e \in S}
      BY DEF Circle
    <3> QED
      BY <2>5, <3>1
  <2>7. PICK d \in S : d = lock[last]
    BY <2>6
  <2>8. last < Next1(d)
    BY <2>1, <2>7 DEF TakesInOrder
  <2>9. Next1(d) \in nexts /\ Next1(d) \in Nat /\ last \in Nat
    BY <2>2, <2>3
  <2> QED
    BY <2>4, <2>8, <2>9
<1> QED
  BY <1>1, BooksInvariant, PTL

-----------------------------------------------------------------------------
(* One step of the promised inventory each                                 *)

(* The words of the promise mean what they mean here.                      *)
LEMMA SameWords ==
    /\ Promised!Level = Level /\ Promised!NoStock = NoStock /\ Promised!NoUnits = NoUnits
    /\ \A l \in Level : Promised!Spare(l) = l.onHand - l.reserved
    /\ \A m, n \in Nat : Promised!Lesser(m, n) = Lesser(m, n)
  BY DEF Level, Promised!Level, NoStock, Promised!NoStock, NoUnits, Promised!NoUnits,
         Promised!Spare, Lesser, Promised!Lesser

(* A row is known by its two figures.                                      *)
LEMMA SameRows ==
    ASSUME NEW s \in [Place -> Level], NEW t \in [Place -> Level],
           \A p \in Place : s[p].onHand = t[p].onHand /\ s[p].reserved = t[p].reserved
    PROVE  s = t
<1>1. ASSUME NEW p \in Place PROVE s[p] = t[p]
  <2>1. s[p] \in Level /\ t[p] \in Level /\ s[p].onHand = t[p].onHand /\ s[p].reserved = t[p].reserved
    OBVIOUS
  <2> QED
    BY <2>1 DEF Level
<1> QED
  BY <1>1

(* A commit that changes the units on hand of one location.                *)
LEMMA OneRowChanges ==
    ASSUME BooksInv, NEW c \in Client, Active(c), job[c].plan = << >>, NEW delta \in Int, NEW moves,
           Commit(c, Changed(c, delta), moves), job[c].at \in Needs(job[c]), TypeOK'
    PROVE  \E a \in Place :
              /\ a = job[c].at /\ lock[a] = c /\ Its(c) = stock[a] /\ stock[a] \in Level
              /\ stock[a].reserved <= stock[a].onHand
              /\ stock[a].onHand + delta \in 0 .. MaxOnHand
              /\ stock' = [stock EXCEPT ![a].onHand = @ + delta]
<1>1. PICK a \in Place : a = job[c].at /\ lock[a] = c
  BY AtWork, PlanDone DEF Jobs, BooksInv
<1>2. /\ seen[c] \in [Place -> Level]
      /\ \A p \in Place : lock[p] = c => seen[c][p] = stock[p] /\ stock[p] \in Level
  BY AtWork, PlanDone DEF BooksInv
<1>3. PICK new : /\ new = [seen[c] EXCEPT ![a].onHand = @ + delta]
                 /\ stock' = [p \in Place |-> IF lock[p] = c THEN new[p] ELSE stock[p]]
  <2>1. PICK new : new = Changed(c, delta) /\ Commit(c, new, moves)
    BY Zenon
  <2>2. new = [seen[c] EXCEPT ![a].onHand = @ + delta]
    BY <1>1, <2>1 DEF Changed
  <2> QED
    BY <2>1, <2>2, Zenon DEF Commit
<1>4. stock \in [Place -> Level] /\ stock' \in [Place -> Level]
      /\ \A p \in Place : stock[p].reserved <= stock[p].onHand
  BY DEF BooksInv, StockInv, TypeOK, OnHandCoversReserved
<1>5. seen[c] \in [Place -> Counted]
  BY <1>2, MaxOnHandAssumption DEF Counted, Level
<1>6. ASSUME NEW p \in Place
      PROVE  /\ stock'[p].onHand = IF p = a THEN stock[p].onHand + delta ELSE stock[p].onHand
             /\ stock'[p].reserved = stock[p].reserved
  <2>1. CASE lock[p] = c
    <3>1. new[p].onHand = (IF p = a THEN seen[c][p].onHand + delta ELSE seen[c][p].onHand)
          /\ new[p].reserved = seen[c][p].reserved
      BY <1>3, <1>5, RowChanged
    <3> QED
      BY <1>2, <1>3, <2>1, <3>1
  <2>2. CASE lock[p] # c
    BY <1>1, <1>3, <2>2
  <2> QED
    BY <2>1, <2>2
<1>7. stock[a].onHand + delta \in 0 .. MaxOnHand
  BY <1>4, <1>6 DEF Level
<1>8. PICK t \in [Place -> Level] : t = [stock EXCEPT ![a].onHand = @ + delta]
  BY <1>4, <1>7 DEF Level
<1>9. \A p \in Place :
        /\ t[p].onHand = IF p = a THEN stock[p].onHand + delta ELSE stock[p].onHand
        /\ t[p].reserved = stock[p].reserved
  BY <1>4, <1>8 DEF Level
<1>10. PICK s \in [Place -> Level] : s = stock'
  BY <1>4
<1>11. s = t
  BY <1>6, <1>9, <1>10, SameRows
<1> QED
  BY <1>1, <1>2, <1>4, <1>7, <1>8, <1>10, <1>11 DEF Its
LEMMA SinglesArePromised ==
    ASSUME BooksInv, NEW c \in Client, Gained(c) \/ Lost(c) \/ Shifted(c) \/ Recounted(c)
    PROVE  [Promised!Next]_<<stock, holds>>
<1>1. /\ Active(c) /\ job[c].plan = << >> /\ holds' = holds
      /\ job[c].op \in {"gain", "lose", "shift", "recount"}
  BY DEF Gained, Lost, Shifted, Recounted, Ready
<1>2. TypeOK' /\ MaxOnHand \in Nat
  BY SingleChangesKeep, MaxOnHandAssumption DEF BooksInv, StockInv
<1>3. job[c].at \in Needs(job[c])
  BY <1>1 DEF Needs
<1>4. PICK q \in Int : q = job[c].qty
  BY <1>1, AtWork DEF BooksInv, Jobs
<1>5. Its(c) \in Level
  BY <1>1, AtWork DEF BooksInv, Jobs, Its
<1>6. ASSUME NEW delta \in Int, NEW moves, Commit(c, Changed(c, delta), moves)
      PROVE  \E a \in Place :
                /\ a = job[c].at /\ Its(c) = stock[a] /\ stock[a] \in Level
                /\ stock[a].reserved <= stock[a].onHand
                /\ stock[a].onHand + delta \in 0 .. MaxOnHand
                /\ stock' = [stock EXCEPT ![a].onHand = @ + delta]
  BY <1>1, <1>2, <1>3, <1>6, OneRowChanges
<1>7. ASSUME NEW a \in Place, NEW n \in 0 .. MaxOnHand, stock[a].reserved <= n,
             stock' = [stock EXCEPT ![a].onHand = n]
      PROVE  Promised!Next
  <2>1. PICK places \in SUBSET Place : places = {a}
    OBVIOUS
  <2>2. PICK count \in [places -> 0 .. MaxOnHand] : count = [p \in places |-> n]
    OBVIOUS
  <2>3. Promised!Count(count)
    BY <1>1, <1>7, <2>1, <2>2 DEF Promised!Count, BooksInv, StockInv, TypeOK
  <2> QED
    BY <2>3 DEF Promised!Next
<1>8. CASE Gained(c)
  <2>1. q \in Nat /\ ~ GainRefused(c)
    BY <1>1, <1>4, <1>8, AtWork DEF Gained, Ready, BooksInv, Counts
  <2>2. CASE WrittenOff(job[c])
    <3>1. PICK moves : Commit(c, Changed(c, 0), moves)
      BY <1>8, <2>2, Zenon DEF Gained
    <3>2. PICK a \in Place : stock[a] \in Level /\ stock' = [stock EXCEPT ![a].onHand = @ + 0]
      BY <1>6, <3>1
    <3>3. stock' = stock
      BY <3>2 DEF BooksInv, StockInv, TypeOK, Level
    <3> QED
      BY <1>1, <3>3
  <2>3. CASE ~ WrittenOff(job[c])
    <3>1. PICK moves : Commit(c, Changed(c, q), moves)
      BY <1>4, <1>8, <2>3, Zenon DEF Gained
    <3>2. PICK a \in Place :
            /\ Its(c) = stock[a] /\ stock[a] \in Level
            /\ stock' = [stock EXCEPT ![a].onHand = @ + q]
      BY <1>6, <3>1
    <3>3. stock[a].onHand + q <= MaxOnHand /\ stock[a].onHand \in Nat
      BY <1>2, <1>4, <2>1, <3>2 DEF GainRefused, Level
    <3>4. CASE q = 0
      <4>1. stock' = stock
        BY <3>2, <3>4 DEF BooksInv, StockInv, TypeOK, Level
      <4> QED
        BY <1>1, <4>1
    <3>5. CASE q # 0
      <4>1. q \in 1 .. MaxOnHand
        BY <1>2, <2>1, <3>3, <3>5
      <4>2. Promised!Gain(a, q)
        BY <1>1, <3>2, <3>3 DEF Promised!Gain
      <4> QED
        BY <4>1, <4>2 DEF Promised!Next
    <3> QED
      BY <3>4, <3>5
  <2> QED
    BY <2>2, <2>3
<1>9. CASE Lost(c)
  <2>1. q \in Nat /\ ~ LossRefused(c) /\ -q \in Int
    BY <1>1, <1>4, <1>9, AtWork DEF Lost, Ready, BooksInv, Counts
  <2>2. PICK k, moves : k = -q /\ k \in Int /\ Commit(c, Changed(c, k), moves)
    BY <1>4, <1>9, <2>1, Zenon DEF Lost
  <2>3. PICK a \in Place :
          /\ Its(c) = stock[a] /\ stock[a] \in Level
          /\ stock' = [stock EXCEPT ![a].onHand = @ + k]
    BY <1>6, <2>2
  <2>4. q <= stock[a].onHand - stock[a].reserved /\ stock[a].onHand \in 0 .. MaxOnHand
        /\ stock[a].reserved \in Nat
    BY <1>2, <1>4, <2>1, <2>3 DEF LossRefused, Spare, Level
  <2>5. CASE q = 0
    <3>1. stock' = stock
      BY <2>2, <2>3, <2>5 DEF BooksInv, StockInv, TypeOK, Level
    <3> QED
      BY <1>1, <3>1
  <2>6. CASE q # 0
    <3>1. q \in 1 .. MaxOnHand
      BY <1>2, <2>1, <2>4, <2>6
    <3>2. stock' = [stock EXCEPT ![a].onHand = @ - q]
      <4>1. stock[a].onHand + k = stock[a].onHand - q
        BY <2>2, <2>4, <1>4
      <4> QED
        BY <2>3, <4>1, Zenon
    <3>3. Promised!Lose(a, q)
      BY <1>1, <2>3, <2>4, <3>2, SameWords DEF Promised!Lose
    <3> QED
      BY <3>1, <3>3 DEF Promised!Next
  <2> QED
    BY <2>5, <2>6
<1>10. CASE Shifted(c)
  <2>1. ~ ShiftRefused(c)
    BY <1>10 DEF Shifted
  <2>2. PICK moves : Commit(c, Changed(c, q), moves)
    BY <1>4, <1>10, Zenon DEF Shifted
  <2>3. PICK a \in Place :
          /\ Its(c) = stock[a] /\ stock[a] \in Level
          /\ stock[a].onHand + q \in 0 .. MaxOnHand
          /\ stock' = [stock EXCEPT ![a].onHand = @ + q]
    BY <1>6, <2>2
  <2>4. PICK n \in 0 .. MaxOnHand : n = stock[a].onHand + q
    BY <2>3
  <2>5. stock[a].reserved <= n
    BY <1>2, <1>4, <2>1, <2>3, <2>4 DEF ShiftRefused, Level
  <2>6. stock' = [stock EXCEPT ![a].onHand = n]
    BY <2>3, <2>4
  <2> QED
    BY <1>7, <2>5, <2>6
<1>11. CASE Recounted(c)
  <2>1. ~ RecountRefused(c)
    BY <1>11 DEF Recounted
  <2>2. PICK k \in Int : k = q - Its(c).onHand
    BY <1>2, <1>5 DEF Level
  <2>3. PICK moves : Commit(c, Changed(c, k), moves)
    BY <1>4, <1>11, <2>2, Zenon DEF Recounted
  <2>4. PICK a \in Place :
          /\ Its(c) = stock[a] /\ stock[a] \in Level
          /\ stock[a].onHand + k \in 0 .. MaxOnHand
          /\ stock' = [stock EXCEPT ![a].onHand = @ + k]
    BY <1>6, <2>3
  <2>5. PICK n \in 0 .. MaxOnHand : n = stock[a].onHand + k
    BY <2>4
  <2>6. n = q /\ stock[a].reserved \in Nat
    BY <1>2, <2>2, <2>4, <2>5 DEF Level
  <2>7. stock[a].reserved <= n
    BY <1>2, <1>4, <2>1, <2>4, <2>6 DEF RecountRefused
  <2>8. stock' = [stock EXCEPT ![a].onHand = n]
    BY <2>4, <2>5
  <2> QED
    BY <1>7, <2>7, <2>8
<1> QED
  BY <1>8, <1>9, <1>10, <1>11

(* A batch of counts is one step, however many locations it names.         *)
LEMMA CountsArePromised ==
    ASSUME BooksInv, NEW c \in Client, CountsSet(c)
    PROVE  Promised!Next
<1>1. Active(c) /\ job[c].op = "count" /\ job[c].plan = << >> /\ ~ CountsRefused(c) /\ holds' = holds
  BY DEF CountsSet
<1>2. PICK share \in [Place -> Nat] : share = job[c].share
  BY <1>1, AtWork DEF Jobs, BooksInv
<1>3. /\ seen[c] \in [Place -> Level]
      /\ \A p \in Place : lock[p] = c => seen[c][p] = stock[p] /\ stock[p] \in Level
  BY <1>1, AtWork, PlanDone DEF BooksInv
<1>4. PICK new, moves :
        /\ new = [p \in Place |-> [seen[c][p] EXCEPT !.onHand = job[c].share[p]]]
        /\ Commit(c, new, moves)
  BY Zenon DEF CountsSet
<1>5. new = [p \in Place |-> [seen[c][p] EXCEPT !.onHand = share[p]]]
  BY <1>2, <1>4, Zenon
<1>6. stock' = [p \in Place |-> IF lock[p] = c THEN new[p] ELSE stock[p]]
  BY <1>4, Zenon DEF Commit
<1>7. PICK items \in SUBSET Place : items = {p \in Place : lock[p] = c}
  OBVIOUS
<1>8. ASSUME NEW p \in items
      PROVE  share[p] \in 0 .. MaxOnHand /\ stock[p].reserved <= share[p]
  <2>1. ~ CountRefused(seen[c][p], share[p], job[c].reason, job[c].rights)
    BY <1>1, <1>2, <1>7, <1>8, Zenon DEF CountsRefused
  <2>2. seen[c][p] = stock[p] /\ stock[p] \in Level /\ stock[p].reserved <= stock[p].onHand
    BY <1>3, <1>7 DEF BooksInv, StockInv, OnHandCoversReserved
  <2>3. share[p] = stock[p].onHand \/ (~ (share[p] < stock[p].reserved) /\ ~ (share[p] > MaxOnHand))
    BY <2>1, <2>2 DEF CountRefused
  <2> QED
    BY <2>2, <2>3, MaxOnHandAssumption DEF Level
<1>9. PICK count \in [items -> 0 .. MaxOnHand] : count = [p \in items |-> share[p]]
  BY <1>8
<1>10. stock' = [p \in Place |-> IF p \in items THEN [stock[p] EXCEPT !.onHand = count[p]] ELSE stock[p]]
  BY <1>3, <1>5, <1>6, <1>7, <1>9
<1>11. Promised!Count(count)
  BY <1>1, <1>8, <1>9, <1>10 DEF Promised!Count
<1> QED
  BY <1>11 DEF Promised!Next

(* A shipment moves the units at both ends at once.                        *)
LEMMA ShipmentIsPromised ==
    ASSUME BooksInv, NEW c \in Client, Shipped(c)
    PROVE  [Promised!Next]_<<stock, holds>>
<1>1. /\ Active(c) /\ job[c].op = "ship" /\ job[c].plan = << >> /\ holds' = holds
      /\ ~ ShipmentRefused(c)
  BY DEF Shipped, Ready
<1>2. PICK j \in Jobs, a \in Place, b \in Place, q \in Nat, k \in Int :
        j = job[c] /\ a = j.at /\ b = j.to /\ q = j.qty /\ k = -q
  BY <1>1, AtWork DEF Jobs, Counts, BooksInv
<1>3. a # b /\ lock[a] = c /\ lock[b] = c
  <2>1. Sound(c, j) /\ \A p \in Needs(j) : lock[p] = c
    BY <1>1, <1>2, PlanDone
  <2> QED
    BY <1>1, <1>2, <2>1 DEF Needs, Sound, TakesInOrder
<1>4. /\ seen[c] \in [Place -> Level]
      /\ \A p \in Place : lock[p] = c => seen[c][p] = stock[p] /\ stock[p] \in Level
  BY <1>1, AtWork, PlanDone DEF BooksInv
<1>5. /\ q <= stock[a].onHand - stock[a].reserved
      /\ stock[b].onHand + q <= MaxOnHand
      /\ stock[a].onHand \in 0 .. MaxOnHand /\ stock[a].reserved \in 0 .. MaxOnHand
      /\ stock[b].onHand \in 0 .. MaxOnHand
  <2>1. PICK l \in Level, m \in Level : /\ l = stock[a] /\ l = seen[c][a]
                                        /\ m = stock[b] /\ m = seen[c][b]
    BY <1>3, <1>4
  <2>2. ~ (q > l.onHand - l.reserved) /\ ~ (m.onHand + q > MaxOnHand)
    BY <1>1, <1>2, <2>1 DEF ShipmentRefused, Spare, Its
  <2> QED
    BY <2>1, <2>2, MaxOnHandAssumption DEF Level
<1>6. PICK s : s = seen[c]
  OBVIOUS
<1>7. PICK half, new, moves :
        /\ half = Changed(c, -q) /\ new = [half EXCEPT ![b].onHand = @ + q]
        /\ Commit(c, new, moves)
  BY <1>2, Zenon DEF Shipped
<1>8. half = [s EXCEPT ![a].onHand = @ + k]
  BY <1>2, <1>6, <1>7 DEF Changed
<1>9. stock' = [p \in Place |-> IF lock[p] = c THEN new[p] ELSE stock[p]]
  BY <1>7, Zenon DEF Commit
<1>10. s \in [Place -> Counted] /\ half \in [Place -> Counted]
  <2>1. s \in [Place -> Counted]
    BY <1>4, <1>6, MaxOnHandAssumption DEF Counted, Level
  <2>2. PICK z \in [Place -> Counted] : z = s
    BY <2>1
  <2>3. half = [z EXCEPT ![a].onHand = @ + k]
    BY <1>8, <2>2
  <2> QED
    BY <2>1, <2>3, RowChanged
<1>11. /\ stock \in [Place -> Level] /\ stock' \in [Place -> Level]
  BY ShippedKeeps DEF BooksInv, StockInv, TypeOK
<1>12. ASSUME NEW p \in Place
      PROVE  /\ stock'[p].onHand = IF p = a THEN stock[p].onHand - q
                                   ELSE IF p = b THEN stock[p].onHand + q ELSE stock[p].onHand
             /\ stock'[p].reserved = stock[p].reserved
  <2>1. CASE lock[p] = c
    <3>1. /\ half[p].onHand = IF p = a THEN s[p].onHand + k ELSE s[p].onHand
          /\ half[p].reserved = s[p].reserved
      BY <1>8, <1>10, RowChanged
    <3>2. /\ new[p].onHand = IF p = b THEN half[p].onHand + q ELSE half[p].onHand
          /\ new[p].reserved = half[p].reserved
      <4>1. PICK z \in [Place -> Counted], n \in Int : z = half /\ n = q
        BY <1>10
      <4>2. new = [z EXCEPT ![b].onHand = @ + n]
        BY <1>7, <4>1
      <4> QED
        BY <4>1, <4>2, RowChanged
    <3>3. s[p] = stock[p] /\ stock'[p] = new[p] /\ stock[p].onHand \in Int
      BY <1>4, <1>6, <1>9, <2>1, MaxOnHandAssumption DEF Level
    <3> QED
      BY <1>2, <1>3, <3>1, <3>2, <3>3
  <2>2. CASE lock[p] # c
    BY <1>3, <1>9, <2>2
  <2> QED
    BY <2>1, <2>2
<1>13. CASE q = 0
  <2>1. \A p \in Place : stock'[p].onHand = stock[p].onHand /\ stock'[p].reserved = stock[p].reserved
    BY <1>3, <1>5, <1>12, <1>13
  <2>2. PICK t \in [Place -> Level], u \in [Place -> Level] : t = stock /\ u = stock'
    BY <1>11
  <2>3. u = t
    BY <2>1, <2>2, SameRows
  <2> QED
    BY <1>1, <2>2, <2>3
<1>14. CASE q # 0
  <2>1. q \in 1 .. MaxOnHand /\ stock[a].onHand - q \in 0 .. MaxOnHand
        /\ stock[b].onHand + q \in 0 .. MaxOnHand
    BY <1>2, <1>5, <1>14, MaxOnHandAssumption
  <2>2. PICK t \in [Place -> Level], u \in [Place -> Level] : t = stock /\ u = stock'
    BY <1>11
  <2>3. PICK m \in [Place -> Level] : m = [t EXCEPT ![a].onHand = @ - q, ![b].onHand = @ + q]
    <3>1. PICK one \in [Place -> Level] : one = [t EXCEPT ![a].onHand = @ - q]
      BY <2>1, <2>2 DEF Level
    <3>2. one[b] = t[b]
      BY <1>3, <3>1
    <3>3. PICK m \in [Place -> Level] : m = [one EXCEPT ![b].onHand = t[b].onHand + q]
      BY <2>1, <2>2 DEF Level
    <3> QED
      BY <3>1, <3>3
  <2>4. \A p \in Place :
          /\ m[p].onHand = IF p = a THEN t[p].onHand - q
                           ELSE IF p = b THEN t[p].onHand + q ELSE t[p].onHand
          /\ m[p].reserved = t[p].reserved
    BY <1>3, <2>3 DEF Level
  <2>5. u = m
    BY <1>12, <2>2, <2>4, SameRows
  <2>6. Promised!Move(a, b, q)
    BY <1>1, <1>3, <1>5, <1>11, <2>2, <2>3, <2>5, SameWords DEF Promised!Move
  <2> QED
    BY <2>1, <2>6 DEF Promised!Next
<1> QED
  BY <1>13, <1>14

(* A reservation is made of units to spare, all of them at once.           *)
LEMMA HoldIsPromised ==
    ASSUME BooksInv, NEW c \in Client, Held(c)
    PROVE  Promised!Next
<1>1. Active(c) /\ job[c].op = "allocated" /\ job[c].plan = << >> /\ ~ HoldRefused(c)
  BY DEF Held, Ready
<1>2. PICK j \in Jobs, r \in Reservation, share \in [Place -> Nat] :
        j = job[c] /\ r = j.ref /\ share = j.share /\ Sound(c, j)
  BY <1>1, AtWork, PlanDone DEF Jobs, BooksInv
<1>3. holds[r] = NoUnits
  BY <1>1, <1>2 DEF Sound, HoldsNothingYet, Reserving
<1>4. /\ \A p \in Place : share[p] > 0 => lock[p] = c
      /\ \A p \in Place : lock[p] = c => seen[c][p] = stock[p] /\ stock[p] \in Level
  BY <1>1, <1>2, PlanDone DEF Needs
<1>5. PICK new :
        new = [p \in Place |-> Promise(seen[c][p], share[p])] /\ Commit(c, new, {})
  BY <1>2, Zenon DEF Held
<1>6. /\ stock' = [p \in Place |-> IF lock[p] = c THEN new[p] ELSE stock[p]]
      /\ holds' = [holds EXCEPT ![r] = share]
  BY <1>2, <1>5 DEF Commit, Held
<1>7. stock \in [Place -> Level]
  BY DEF BooksInv, StockInv, TypeOK
<1>8. ASSUME NEW p \in Place, lock[p] = c
      PROVE  share[p] <= stock[p].onHand - stock[p].reserved
  <2>1. ~ (share[p] > stock[p].onHand - stock[p].reserved)
    BY <1>1, <1>2, <1>4, <1>8 DEF HoldRefused, Spare
  <2>2. stock[p].onHand \in Int /\ stock[p].reserved \in Int
    BY <1>7, MaxOnHandAssumption DEF Level
  <2> QED
    BY <2>1, <2>2
<1>9. ASSUME NEW p \in Place PROVE share[p] \in 0 .. MaxOnHand
  <2>1. stock[p].onHand \in 0 .. MaxOnHand /\ stock[p].reserved \in 0 .. MaxOnHand
    BY <1>7 DEF Level
  <2>2. share[p] = 0 \/ share[p] <= stock[p].onHand - stock[p].reserved
    BY <1>4, <1>8
  <2> QED
    BY <2>1, <2>2, MaxOnHandAssumption
<1>10. PICK whole \in [Place -> 0 .. MaxOnHand] : whole = share
  BY <1>9
<1>11. ASSUME NEW p \in Place
       PROVE  stock'[p] = [stock[p] EXCEPT !.reserved = @ + share[p]]
  <2>1. CASE lock[p] = c
    BY <1>4, <1>5, <1>6, <2>1 DEF Promise
  <2>2. CASE lock[p] # c
    <3>1. share[p] = 0 /\ stock'[p] = stock[p]
      BY <1>4, <1>6, <2>2
    <3>2. PICK l \in Level : l = stock[p]
      BY <1>7
    <3>3. l = [l EXCEPT !.reserved = @ + 0]
      BY MaxOnHandAssumption DEF Level
    <3> QED
      BY <3>1, <3>2, <3>3
  <2> QED
    BY <2>1, <2>2
<1>12. stock' = [p \in Place |-> [stock[p] EXCEPT !.reserved = @ + share[p]]]
  BY <1>6, <1>11
<1>13. \A p \in Place : share[p] > 0 => share[p] <= Promised!Spare(stock[p])
  BY <1>4, <1>7, <1>8, SameWords
<1>14. Promised!Hold(r, whole)
  BY <1>3, <1>6, <1>10, <1>12, <1>13, SameWords DEF Promised!Hold
<1> QED
  BY <1>14 DEF Promised!Next

(* A release gives back what its reservation holds now, where it still     *)
(* holds something.                                                        *)
LEMMA ReleaseIsPromised ==
    ASSUME BooksInv, NEW c \in Client, Released(c)
    PROVE  Promised!Next
<1>1. Active(c) /\ job[c].op = "release" /\ job[c].plan = << >> /\ holds' = holds
  BY DEF Released, Ready
<1>2. PICK j \in Jobs, r \in Reservation, share \in [Place -> Nat] :
        j = job[c] /\ r = j.ref /\ share = j.share /\ Sound(c, j)
  BY <1>1, AtWork, PlanDone DEF Jobs, BooksInv
<1>3. \A p \in Place : holds[r][p] = share[p] \/ (holds[r][p] = 0 /\ Gone(p))
  BY <1>1, <1>2 DEF Sound, KnowsWhatIsHeld
<1>4. /\ \A p \in Place : share[p] > 0 => lock[p] = c
      /\ \A p \in Place : lock[p] = c => seen[c][p] = stock[p] /\ stock[p] \in Level
  BY <1>1, <1>2, PlanDone DEF Needs
<1>5. PICK new :
        /\ new = [p \in Place |-> [seen[c][p] EXCEPT !.reserved = @ - Lesser(share[p], seen[c][p].reserved)]]
        /\ Commit(c, new, {})
  BY <1>2, Zenon DEF Released
<1>6. stock' = [p \in Place |-> IF lock[p] = c THEN new[p] ELSE stock[p]]
  BY <1>5 DEF Commit
<1>7. stock \in [Place -> Level] /\ holds[r] \in [Place -> Nat]
  BY DEF BooksInv, StockInv, TypeOK
<1>8. ASSUME NEW p \in Place
      PROVE  stock'[p] = [stock[p] EXCEPT !.reserved = @ - Promised!Lesser(holds[r][p], @)]
  <2>1. PICK l \in Level : l = stock[p]
    BY <1>7
  <2>2. l.reserved \in Nat /\ holds[r][p] \in Nat
    BY <1>7, MaxOnHandAssumption DEF Level
  <2>3. Promised!Lesser(holds[r][p], l.reserved) = Lesser(holds[r][p], l.reserved)
    BY <2>2, SameWords
  <2>4. CASE lock[p] = c
    <3>1. ~ Gone(p)
      BY <2>4, NobodyAssumption DEF BooksInv, RowsInv, RowsAreOpen, Gone
    <3>2. holds[r][p] = share[p]
      BY <1>3, <3>1
    <3>3. stock'[p] = [l EXCEPT !.reserved = @ - Lesser(holds[r][p], l.reserved)]
      BY <1>4, <1>5, <1>6, <2>1, <2>4, <3>2
    <3> QED
      BY <2>1, <2>3, <3>3
  <2>5. CASE lock[p] # c
    <3>1. share[p] = 0
      BY <1>4, <2>5
    <3>2. holds[r][p] = 0
      BY <1>3, <3>1
    <3>3. Lesser(holds[r][p], l.reserved) = 0
      BY <2>2, <3>2 DEF Lesser
    <3>4. l = [l EXCEPT !.reserved = @ - 0]
      BY MaxOnHandAssumption DEF Level
    <3>5. stock'[p] = l
      BY <1>6, <2>1, <2>5
    <3> QED
      BY <2>1, <2>3, <3>3, <3>4, <3>5
  <2> QED
    BY <2>4, <2>5
<1>9. stock' = [p \in Place |-> [stock[p] EXCEPT !.reserved = @ - Promised!Lesser(holds[r][p], @)]]
  BY <1>6, <1>8
<1>10. Promised!Release(r)
  BY <1>1, <1>9 DEF Promised!Release
<1> QED
  BY <1>10 DEF Promised!Next

(* Deleted locations take their stock and what was promised there along.   *)
LEMMA DeletionIsPromised ==
    ASSUME NEW places \in SUBSET Place, Vanish(places)
    PROVE  Promised!Next
<1>1. Promised!TakeOut(places)
  BY SameWords DEF Vanish, Promised!TakeOut
<1> QED
  BY <1>1 DEF Promised!Next

LEMMA StepsArePromised ==
    ASSUME BooksInv, [Next]_vars
    PROVE  [Promised!Next]_<<stock, holds>>
<1>1. ASSUME NEW c \in Client, NEW j, Begin(c, j) PROVE UNCHANGED <<stock, holds>>
  BY <1>1 DEF Begin
<1>2. ASSUME NEW c \in Client, Request(c) PROVE UNCHANGED <<stock, holds>>
  <2>1. \E j : Begin(c, j)
    BY <1>2, Zenon DEF Request, SetStock, AdjustStock, RecordMovement, CorrectCount, Transfer,
                       ReserveAt, Reserve, Release, DeleteLocation
  <2> QED
    BY <1>1, <2>1
<1>3. ASSUME NEW c \in Client, Rollback(c) PROVE UNCHANGED <<stock, holds>>
  BY <1>3 DEF Rollback, tables
<1>4. ASSUME NEW c \in Client, Work(c) PROVE [Promised!Next]_<<stock, holds>>
  <2>1. CASE Lock(c)
    BY <2>1 DEF Lock, tables
  <2>2. CASE CountsSet(c)
    BY <2>2, CountsArePromised
  <2>3. CASE Gained(c) \/ Lost(c) \/ Shifted(c) \/ Recounted(c)
    BY <2>3, SinglesArePromised
  <2>4. CASE Shipped(c)
    BY <2>4, ShipmentIsPromised
  <2>5. CASE Allocated(c)
    BY <2>5 DEF Allocated, tables
  <2>6. CASE Held(c)
    BY <2>6, HoldIsPromised
  <2>7. CASE Released(c)
    BY <2>7, ReleaseIsPromised
  <2>8. CASE LocationDeleted(c)
    <3>1. PICK places \in SUBSET Place : Vanish(places)
      BY <2>8, AtWork DEF LocationDeleted, Ready, Jobs, BooksInv
    <3> QED
      BY <3>1, DeletionIsPromised
  <2>9. CASE Refuse(c) \/ DeadlockVictim(c)
    BY <1>3, <2>9 DEF Refuse, DeadlockVictim
  <2> QED
    BY <1>4, <2>1, <2>2, <2>3, <2>4, <2>5, <2>6, <2>7, <2>8, <2>9 DEF Work
<1>5. ASSUME NEW c \in Client, ConnectionLost(c) PROVE UNCHANGED <<stock, holds>>
  BY <1>3, <1>5 DEF ConnectionLost
<1>6. CASE UpsertLocation
  BY <1>6 DEF UpsertLocation
<1>7. CASE HardDeleteProduct
  BY <1>7, DeletionIsPromised DEF HardDeleteProduct
<1>8. CASE UNCHANGED vars
  BY <1>8 DEF vars, tables
<1> QED
  BY <1>2, <1>4, <1>5, <1>6, <1>7, <1>8 DEF Next

LEMMA OpeningIsPromised == Init => Promised!Init
<1> SUFFICES ASSUME Init PROVE Promised!Init
  OBVIOUS
<1>1. PICK opening \in Opening :
        holds = [[s \in Reservation |-> NoUnits] EXCEPT ![FirstReservation] = opening[1]]
  BY Zenon DEF Init
<1>2. PICK held \in [Place -> Nat], more \in [Place -> Nat] : held = opening[1] /\ more = opening[2]
  BY OpeningAssumption
<1>3. \A p \in Place : held[p] + more[p] <= MaxOnHand
  BY <1>2, OpeningAssumption
<1>4. held \in [Place -> 0 .. MaxOnHand] /\ NoUnits \in [Place -> 0 .. MaxOnHand]
  BY <1>3, MaxOnHandAssumption DEF NoUnits
<1>5. holds \in [Reservation -> [Place -> 0 .. MaxOnHand]]
  BY <1>1, <1>2, <1>4
<1>6. stock \in [Place -> {l \in Level : l.reserved <= l.onHand}]
  <2>1. stock \in [Place -> Level] /\ \A p \in Place : stock[p].reserved <= stock[p].onHand
    BY InitHolds DEF StockInv, TypeOK, OnHandCoversReserved
  <2> QED
    BY <2>1
<1> QED
  BY <1>5, <1>6, SameWords DEF Promised!Init

(* Whatever runs beside it, every committed request is one step of the     *)
(* promised inventory: it looks at the stock as it is and changes it at    *)
(* once, as if there were no transactions, no locks and no other sessions. *)
THEOREM RequestsAreAtomic == Spec => ImplementsAtomicStock
<1>1. BooksInv /\ [Next]_vars => [Promised!Next]_<<stock, holds>>
  BY StepsArePromised
<1> QED
  BY <1>1, OpeningIsPromised, BooksInvariant, PTL DEF Spec, ImplementsAtomicStock, Promised!Spec

-----------------------------------------------------------------------------
(* What is quoted is what is allocated                                     *)

LEMMA Ranks ==
    /\ Len(Priority) \in Nat
    /\ \A p \in Place : Rank(p) \in 1 .. Len(Priority) /\ Priority[Rank(p)] = p
<1>1. Len(Priority) \in Nat /\ DOMAIN Priority = 1 .. Len(Priority)
  BY PriorityAssumption
<1>2. ASSUME NEW p \in Place PROVE Rank(p) \in DOMAIN Priority /\ Priority[Rank(p)] = p
  BY PriorityAssumption DEF Rank
<1> QED
  BY <1>1, <1>2

(* Some location comes before all others of a set.                         *)
LEMMA SoonestIsIn ==
    ASSUME NEW S \in SUBSET Place, S # {}
    PROVE  \E p \in S : \A q \in S : q = p \/ Sooner(p, q)
<1>1. PICK ranks \in SUBSET Nat : ranks = {Rank(p) : p \in S}
  <2>1. ASSUME NEW p \in S PROVE Rank(p) \in Nat
    BY Ranks
  <2> QED
    BY <2>1
<1>2. ranks # {}
  BY <1>1
<1>3. PICK least \in ranks : \A i \in ranks : least <= i
  BY <1>2, LeastIsIn
<1>4. PICK p \in S : Rank(p) = least
  BY <1>1
<1>5. ASSUME NEW q \in S, q # p PROVE Sooner(p, q)
  <2>1. Rank(p) # Rank(q) /\ Rank(p) \in Nat /\ Rank(q) \in Nat
    BY <1>5, Ranks
  <2>2. Rank(p) <= Rank(q)
    BY <1>1, <1>3, <1>4
  <2> QED
    BY <2>1, <2>2 DEF Sooner
<1> QED
  BY <1>4, <1>5

(* A quantity split over some locations, each giving what those before it  *)
(* could not.                                                              *)
BeforeIt(shops, p) == {q \in shops : Sooner(q, p)}
IsSplit(part, left, shops, qty) ==
    \A p \in Place :
        part[p] = IF p \in shops THEN Part(left[p], SumFunctionOnSet(left, BeforeIt(shops, p)), qty) ELSE 0

(* A split gives the quantity, or all there is.                            *)
LEMMA SplitAddsUp ==
    ASSUME NEW shops \in SUBSET Place, NEW left \in [Place -> Nat], NEW qty \in Nat, NEW part,
           IsSplit(part, left, shops, qty)
    PROVE  /\ \A p \in Place : part[p] \in Nat /\ part[p] <= left[p]
           /\ SumFunctionOnSet(part, Place) = Lesser(SumFunctionOnSet(left, shops), qty)
<1>1. IsFiniteSet(Place) /\ IsFiniteSet(shops)
  BY PlaceAssumption, FS_Subset
<1>2. \A T \in SUBSET shops : IsFiniteSet(T) /\ SumFunctionOnSet(left, T) \in Nat
  <2> SUFFICES ASSUME NEW T \in SUBSET shops PROVE IsFiniteSet(T) /\ SumFunctionOnSet(left, T) \in Nat
    OBVIOUS
  <2>1. IsFiniteSet(T) /\ \A x \in T : left[x] \in Nat
    BY <1>1, FS_Subset
  <2> QED
    BY <2>1, SumOfNaturals
<1>3. ASSUME NEW p \in Place PROVE part[p] \in Nat /\ part[p] <= left[p]
  <2>1. PICK before \in Nat : before = SumFunctionOnSet(left, BeforeIt(shops, p))
    BY <1>2 DEF BeforeIt
  <2>2. part[p] = IF p \in shops THEN Part(left[p], before, qty) ELSE 0
    BY <2>1 DEF IsSplit
  <2>3. left[p] \in Nat
    OBVIOUS
  <2> QED
    BY <2>2, <2>3 DEF Part, Lesser
<1> DEFINE upTo(k) == {q \in shops : Rank(q) <= k}
           Good == {k \in Nat : SumFunctionOnSet(part, upTo(k)) = Lesser(SumFunctionOnSet(left, upTo(k)), qty)}
<1>4. 0 \in Good
  <2>1. upTo(0) = {}
    BY Ranks
  <2>2. Lesser(0, qty) = 0
    BY DEF Lesser
  <2> QED
    BY <2>1, <2>2, SumOfNone
<1>5. ASSUME NEW k \in Nat, k \in Good PROVE k + 1 \in Good
  <2>1. PICK S \in SUBSET shops, T \in SUBSET shops : S = upTo(k) /\ T = upTo(k + 1)
    OBVIOUS
  <2>2. SumFunctionOnSet(part, S) = Lesser(SumFunctionOnSet(left, S), qty)
    BY <1>5, <2>1
  <2>3. CASE \A p \in shops : Rank(p) # k + 1
    <3>1. S = T
      BY <2>1, <2>3, Ranks
    <3> QED
      BY <2>1, <2>2, <3>1
  <2>4. ASSUME NEW p \in shops, Rank(p) = k + 1
        PROVE  SumFunctionOnSet(part, T) = Lesser(SumFunctionOnSet(left, T), qty)
    <3>1. p \in T /\ S = T \ {p}
      <4>1. \A q \in shops : Rank(q) = k + 1 => q = p
        BY <2>4, Ranks
      <4>2. \A q \in shops : Rank(q) \in Nat
        BY Ranks
      <4> QED
        BY <2>1, <2>4, <4>1, <4>2
    <3>2. S = BeforeIt(shops, p)
      <4>1. \A q \in shops : Rank(q) \in Nat
        BY Ranks
      <4> QED
        BY <2>1, <2>4, <4>1 DEF BeforeIt, Sooner
    <3>3. /\ IsFiniteSet(T)
          /\ \A x \in T : left[x] \in Int
          /\ \A x \in T : part[x] \in Int
      BY <1>2, <1>3
    <3>4. SumFunctionOnSet(left, T) = left[p] + SumFunctionOnSet(left, S)
      BY <3>1, <3>3, SumWithout
    <3>5. SumFunctionOnSet(part, T) = part[p] + SumFunctionOnSet(part, S)
      BY <3>1, <3>3, SumWithout
    <3>6. PICK b \in Nat, l \in Nat : b = SumFunctionOnSet(left, S) /\ l = left[p]
      BY <1>2
    <3>7. part[p] = Part(l, b, qty)
      BY <3>2, <3>6 DEF IsSplit
    <3>8. Part(l, b, qty) + Lesser(b, qty) = Lesser(l + b, qty)
      BY DEF Part, Lesser
    <3> QED
      BY <2>2, <3>4, <3>5, <3>6, <3>7, <3>8
  <2> QED
    BY <2>1, <2>3, <2>4
<1>6. \A k \in Nat : k \in Good
  <2> HIDE DEF Good
  <2> QED
    BY <1>4, <1>5, NaturalInduction
<1>7. Len(Priority) \in Good /\ upTo(Len(Priority)) = shops
  BY <1>6, Ranks
<1>8. SumFunctionOnSet(part, shops) = SumFunctionOnSet(part, Place)
  <2>1. \A p \in Place : part[p] = IF p \in shops THEN part[p] ELSE 0
    BY DEF IsSplit
  <2>2. \A p \in Place : part[p] \in Int
    BY <1>3
  <2> QED
    BY <1>1, <2>1, <2>2, SumOfPart
<1> QED
  BY <1>3, <1>7, <1>8

(* Whatever is on the books, a quantity can be fulfilled if and only if it *)
(* can be allocated, at one location if one has enough, and never more     *)
(* than a location has to spare.                                           *)
THEOREM QuotesAreAllocated == Spec => []AllocationAgreesWithQuote
<1>1. BooksInv => AllocationAgreesWithQuote
  <2> SUFFICES ASSUME BooksInv, NEW qty \in 1 .. MaxOnHand * Cardinality(Place)
               PROVE  LET share == Allocate(qty)
                      IN  /\ \A p \in Place : share[p] <= Available(stock[p])
                          /\ SumFunctionOnSet(share, Place) = qty <=> CanFulfill(qty)
                          /\ (\E p \in Place : CanFulfillAt(p, qty)) => \E p \in Place : share[p] = qty
    BY DEF AllocationAgreesWithQuote
  <2>1. qty \in Nat /\ qty > 0
    BY PlaceAssumption, FS_CardinalityType, MaxOnHandAssumption
  <2>2. PICK left \in [Place -> Nat] :
          left = Left /\ \A p \in Place : left[p] = Available(stock[p])
    <3>1. ASSUME NEW p \in Place PROVE Available(stock[p]) \in Nat
      <4>1. PICK l \in Level : l = stock[p]
        BY DEF BooksInv, StockInv, TypeOK
      <4> QED
        BY <4>1, MaxOnHandAssumption DEF Available, Level
    <3>2. Left \in [Place -> Nat] /\ \A p \in Place : Left[p] = Available(stock[p])
      <4>1. PICK units : units = Left
        OBVIOUS
      <4>2. \A p \in Place : units[p] = Available(stock[p])
        BY <4>1 DEF Left
      <4>3. units = [p \in Place |-> units[p]]
        BY <4>1 DEF Left
      <4>4. units \in [Place -> Nat]
        BY <3>1, <4>2, <4>3
      <4> QED
        BY <4>1, <4>2, <4>4
    <3> QED
      BY <3>2
  <2>3. PICK shops \in SUBSET Place : shops = Open \cap sellable
    BY DEF Open
  <2>4. IsFiniteSet(Place) /\ IsFiniteSet(shops)
    BY PlaceAssumption, FS_Subset
  <2>5. PICK total \in Nat : /\ total = SumFunctionOnSet(left, shops)
                             /\ \A p \in shops : left[p] <= total
    BY <2>4, SumOfNaturals
  <2>6. TotalAvailable = total
    <3>1. PICK shelves \in SUBSET shops : shelves = rows \cap sellable
      BY <2>3 DEF BooksInv, StockInv, TypeOK, RowsInv, RowsAreOpen, Open
    <3>2. ASSUME NEW p \in shops, p \notin shelves PROVE left[p] = 0
      <4>1. p \notin rows
        BY <2>3, <3>1, <3>2
      <4>2. stock[p] = NoStock
        BY <4>1 DEF BooksInv, RowsInv, NoRowNoStock
      <4> QED
        BY <2>2, <4>2 DEF Available, NoStock
    <3>3. /\ \A p \in shops : left[p] \in Int
          /\ \A p \in shops : left[p] = IF p \in shelves THEN left[p] ELSE 0
      BY <3>2
    <3>4. SumFunctionOnSet(left, shelves) = SumFunctionOnSet(left, shops)
      BY <2>4, <3>3, SumOfPart
    <3> QED
      BY <2>2, <2>5, <3>1, <3>4 DEF TotalAvailable
  <2>7. \A p \in Place : CanFulfillAt(p, qty) => p \in shops /\ left[p] >= qty
    BY <2>2, <2>3 DEF CanFulfillAt, BooksInv, RowsInv, RowsAreOpen, Open
  <2>8. PICK share : share = Allocate(qty)
    OBVIOUS
  <2>9. CASE \E q \in shops : left[q] >= qty
    <3>1. PICK able \in SUBSET shops : able = {q \in shops : left[q] >= qty}
      OBVIOUS
    <3>2. \E p \in able : \A q \in able : q = p \/ Sooner(p, q)
      BY <2>9, <3>1, SoonestIsIn
    <3>3. PICK first : first = CHOOSE p \in shops :
                          left[p] >= qty /\ \A q \in shops : left[q] >= qty => q = p \/ Sooner(p, q)
      OBVIOUS
    <3>4. first \in shops /\ left[first] >= qty
      BY <3>1, <3>2, <3>3
    <3>5. share = [p \in Place |-> IF p = first THEN qty ELSE 0]
      BY <2>2, <2>3, <2>8, <2>9, <3>3 DEF Allocate
    <3>6. \A p \in Place : share[p] <= left[p]
      BY <2>1, <3>4, <3>5
    <3>7. SumFunctionOnSet(share, Place) = qty
      <4> DEFINE all == [p \in Place |-> qty]
      <4>1. /\ first \in Place /\ {first} \in SUBSET Place /\ all[first] = qty
            /\ \A p \in Place : all[p] \in Int
            /\ \A p \in Place : share[p] = IF p \in {first} THEN all[p] ELSE 0
        BY <2>1, <3>4, <3>5
      <4> HIDE DEF all
      <4>2. SumFunctionOnSet(all, {first}) = SumFunctionOnSet(share, Place)
        BY <2>4, <4>1, SumOfPart
      <4>3. SumFunctionOnSet(all, {first}) = all[first]
        BY <2>1, <4>1, SumOfOne
      <4> QED
        BY <4>1, <4>2, <4>3
    <3>8. CanFulfill(qty)
      BY <2>1, <2>5, <2>6, <3>4 DEF CanFulfill
    <3>9. first \in Place /\ share[first] = qty
      BY <3>4, <3>5
    <3> QED
      BY <2>2, <2>8, <3>6, <3>7, <3>8, <3>9
  <2>10. CASE \A q \in shops : ~ (left[q] >= qty)
    <3>1. IsSplit(share, left, shops, qty)
      <4>1. ~ \E q \in Open \cap sellable : Left[q] >= qty
        BY <2>2, <2>3, <2>10
      <4>2. \A p \in Place :
              share[p] = IF p \in shops
                         THEN Part(left[p], SumFunctionOnSet(left, {q \in shops : Sooner(q, p)}), qty)
                         ELSE 0
        BY <2>2, <2>3, <2>8, <4>1 DEF Allocate
      <4> QED
        BY <4>2 DEF IsSplit, BeforeIt
    <3>2. /\ \A p \in Place : share[p] <= left[p]
          /\ SumFunctionOnSet(share, Place) = Lesser(total, qty)
      BY <2>1, <2>5, <3>1, SplitAddsUp
    <3>3. Lesser(total, qty) = qty <=> total >= qty
      BY <2>1 DEF Lesser
    <3>4. ~ \E p \in Place : CanFulfillAt(p, qty)
      BY <2>7, <2>10
    <3> QED
      BY <2>2, <2>6, <2>8, <3>2, <3>3, <3>4 DEF CanFulfill
  <2> QED
    BY <2>9, <2>10
<1> QED
  BY <1>1, BooksInvariant, PTL
=============================================================================
