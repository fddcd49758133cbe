---------------------------- MODULE CatalogStock ----------------------------
(***************************************************************************)
(* The catalog's inventory of one variant as data-pipeline keeps it: each  *)
(* request has a PostgreSQL transaction of its own, validates what it was  *)
(* given without a lock, takes the inventory_level rows it changes one     *)
(* after the other with SELECT ... FOR UPDATE, and commits, is refused,    *)
(* is chosen as the victim of a deadlock, or loses its connection.         *)
(* Sources: catalog/service.py (ProductService), stock_movements.py,       *)
(* models.py.                                                              *)
(***************************************************************************)
EXTENDS StockOps, Sequences

CONSTANTS
    Client,         \* sessions of the catalog's API
    Nobody,         \* holds no lock
    Priority,       \* locations in the order reservations prefer them
    Opening,        \* <<units reserved, units to spare>> at each location at first
    Quantities,     \* units a change of stock may name
    Wanted,         \* units a reservation may ask for
    MaxRequests     \* bound: requests made in all

ASSUME NobodyAssumption == Nobody \notin Client
ASSUME PlaceAssumption ==                    \* ids are compared by _lock_levels
    Place # {} /\ Place \subseteq Nat /\ IsFiniteSet(Place)
ASSUME PriorityAssumption ==                 \* no location is left out
    /\ Priority \in Seq(Place)
    /\ \A p \in Place : \E i \in DOMAIN Priority : Priority[i] = p
ASSUME OpeningAssumption ==
    \A o \in Opening :
        /\ {o[1], o[2]} \subseteq [Place -> Nat]
        /\ \A p \in Place : o[1][p] + o[2][p] <= MaxOnHand
ASSUME ReservationAssumption == Reservation # {} /\ IsFiniteSet(Reservation)
ASSUME QuantitiesAssumption == Quantities \subseteq Nat \ {0}
ASSUME WantedAssumption == Wanted \subseteq Nat \ {0}
ASSUME BoundAssumption == MaxRequests \in Nat

VARIABLES
    stock,      \* location -> the committed row: units on hand, units reserved
    holds,      \* reservation -> location -> units of its RESERVE rows
    rows,       \* locations with an inventory_level row
    site,       \* location -> is it still to be opened, open, or deleted
    sellable,   \* locations marked sellable
    listed,     \* does the variant exist
    totals,     \* location -> movement_summary's totals of its ledger rows
    issued,     \* reservation ids handed out
    freed,      \* reservation -> locations with a RELEASE row of it
    twice,      \* history: reservations released a second time
    lock,       \* location -> the session holding its row
    seen,       \* session -> location -> the row as its FOR UPDATE returned it
    job,        \* session -> the request it works on
    requests    \* how many requests were made

tables == <<stock, holds, rows, site, sellable, listed, totals, issued, freed>>
sessions == <<lock, seen, job, requests>>
vars == <<tables, twice, sessions>>

Promised == INSTANCE AtomicStock WITH stock <- stock, holds <- holds

-----------------------------------------------------------------------------
(* Availability and allocation *)

Open == {p \in Place : site[p] = "open"}

\* Not negative in availability, allocate and the reports.
Available(l) == IF l.onHand > l.reserved THEN l.onHand - l.reserved ELSE 0

\* check_availability: of all sellable locations, or of one.
Left == [p \in Place |-> Available(stock[p])]
TotalAvailable == SumFunctionOnSet(Left, rows \cap sellable)
CanFulfill(qty) == TotalAvailable >= qty
CanFulfillAt(p, qty) == p \in rows \cap sellable /\ Available(stock[p]) >= qty

Rank(p) == CHOOSE i \in DOMAIN Priority : Priority[i] = p
Sooner(p, q) == Rank(p) < Rank(q)

\* What a split takes from a location with some units left, when those before
\* it have so many; the variant forgets what they gave.
PartAnew(left, before, qty) == Lesser(left, qty)
Part(left, before, qty) == IF before < qty THEN Lesser(left, qty - before) ELSE 0

\* The first sellable location that covers the quantity, or a split over the
\* sellable locations in their order; the caller has checked the total.
Allocate(qty) ==
    LET shops == Open \cap sellable
        first == CHOOSE p \in shops :
                    /\ Left[p] >= qty
                    /\ \A q \in shops : Left[q] >= qty => q = p \/ Sooner(p, q)
        before(p) == SumFunctionOnSet(Left, {q \in shops : Sooner(q, p)})
    IN  [p \in Place |->
            IF \E q \in shops : Left[q] >= qty THEN IF p = first THEN qty ELSE 0
            ELSE IF p \in shops THEN Part(Left[p], before(p), qty) ELSE 0]

-----------------------------------------------------------------------------
(* Sessions *)

Ops == {"count", "recount", "shift", "gain", "lose", "ship", "hold", "allocated", "release",
        "delete"}
Reasons == {"RESTOCK", "ADJUST", "RETURN", "RETURN, DAMAGE", "SALE", "DAMAGE", "LOST"}
NoJob == [op |-> "none"]
Active(c) == job[c] # NoJob

Anywhere == CHOOSE p \in Place : TRUE
FirstReservation == CHOOSE r \in Reservation : TRUE

\* The fields an operation has no use for keep these values.
Blank(op, p) ==
    [op |-> op, at |-> p, to |-> p, qty |-> 0, reason |-> "RESTOCK", rights |-> FALSE,
     share |-> NoUnits, ref |-> FirstReservation, plan |-> <<p>>]

\* The orders in which a session may come to the rows of a set of locations.
Orders(places) ==
    {s \in [1 .. Cardinality(places) -> places] :
        \A i, k \in DOMAIN s : i # k => s[i] # s[k]}

AnyOrder(plan) == TRUE
ById(plan) == \A i, k \in DOMAIN plan : i < k => plan[i] < plan[k]
ByPriority(plan) == \A i, k \in DOMAIN plan : i < k => Sooner(plan[i], plan[k])

Begin(c, j) ==
    /\ ~Active(c)
    /\ requests < MaxRequests
    /\ requests' = requests + 1
    /\ job' = [job EXCEPT ![c] = j]
    /\ UNCHANGED <<stock, holds, rows, site, sellable, listed, totals, freed, twice, lock, seen>>

Unlocked(c) == [p \in Place |-> IF lock[p] = c THEN Nobody ELSE lock[p]]

\* The transaction is over, and with it its locks and what was not committed.
End(c) ==
    /\ job' = [job EXCEPT ![c] = NoJob]
    /\ lock' = Unlocked(c)
    /\ seen' = [seen EXCEPT ![c] = [p \in Place |-> NoStock]]

Rollback(c) ==
    /\ End(c)
    /\ UNCHANGED <<tables, twice, requests>>

\* The rows as they were read under their locks, changed, become the stock,
\* together with the ledger rows that go with the change.
Commit(c, new, moves) ==
    /\ stock' = [p \in Place |-> IF lock[p] = c THEN new[p] ELSE stock[p]]
    /\ rows' = rows \cup {p \in Place : lock[p] = c}
    /\ totals' = [p \in Place |-> AddToTotals(totals[p], {r \in moves : r.at = p})]
    /\ End(c)
    /\ UNCHANGED <<site, sellable, listed, issued, requests>>

-----------------------------------------------------------------------------
(* Row locks *)

Next1(c) == Head(job[c].plan)
Waiting(c) == Active(c) /\ job[c].plan # << >>
\* The variants hold up nobody, or everybody whose row is not yet their own.
NeverBlocked(c) == FALSE
BlockedUnlessOwn(c) == Waiting(c) /\ lock[Next1(c)] # c
Blocked(c) == Waiting(c) /\ lock[Next1(c)] # Nobody

\* The row a session comes to cannot be had: a release needs the row of its
\* RESERVE row; the others make a missing row, unless its location or the
\* variant was deleted meanwhile.
Missing(c) ==
    /\ Waiting(c)
    /\ \/ job[c].op = "release" /\ Next1(c) \notin rows
       \/ job[c].op \notin {"release", "hold"} /\ ~(listed /\ site[Next1(c)] = "open")

OpensStock(l, reason) == reason = "RESTOCK" /\ l.onHand = 0

CountRefused(l, count, reason, rights) ==
    /\ count # l.onHand
    /\ \/ ~OpensStock(l, reason) /\ ~rights
       \/ count < l.reserved
       \/ count > MaxOnHand

\* _set_count, for one item after the other: a refused item ends the batch.
CountsRefused(c) ==
    /\ job[c].op = "count"
    /\ \E p \in Place :
        /\ lock[p] = c
        /\ CountRefused(seen[c][p], job[c].share[p], job[c].reason, job[c].rights)

\* SELECT ... FOR UPDATE returns the row as it is committed when the lock is
\* granted.  A missing row is inserted; until the commit the unique index
\* keeps the others from it as the row lock would.  The select that opens a
\* reservation passes over rows deleted since it began.
Lock(c) ==
    /\ Waiting(c)
    /\ ~Blocked(c)
    /\ ~Missing(c)
    /\ ~CountsRefused(c)
    /\ LET p == Next1(c)
           passed == job[c].op = "hold" /\ p \notin rows
       IN  /\ lock' = IF passed THEN lock ELSE [lock EXCEPT ![p] = c]
           /\ seen' = IF passed THEN seen ELSE [seen EXCEPT ![c][p] = stock[p]]
    /\ job' = [job EXCEPT ![c].plan = Tail(@)]
    /\ UNCHANGED <<tables, twice, requests>>

\* Sessions that wait for each other's rows in a circle.
Circle(S) ==
    /\ S # {}
    /\ \A c \in S : Blocked(c)
    /\ S = {lock[Next1(c)] : c \in S}

-----------------------------------------------------------------------------
(* Counts *)

\* set_stock, batch_set_stock and the import: the counts of some locations,
\* in the order the items come in.
SetStock(c) ==
    \E places \in (SUBSET Open) \ {{}}, reason \in {"RESTOCK", "ADJUST"}, rights \in BOOLEAN :
        \E plan \in Orders(places), counts \in [places -> Quantities \cup {0}] :
            /\ listed
            /\ Begin(c, [Blank("count", plan[1]) EXCEPT
                    !.reason = reason, !.rights = rights, !.plan = plan,
                    !.share = [p \in Place |-> IF p \in places THEN counts[p] ELSE 0]])
            /\ UNCHANGED issued

CountsSet(c) ==
    LET j == job[c]
        items == {p \in Place : lock[p] = c}
        changed == {p \in items : j.share[p] # seen[c][p].onHand}
    IN  /\ Active(c) /\ j.op = "count" /\ j.plan = << >>
        /\ ~CountsRefused(c)
        /\ Commit(c, [p \in Place |-> [seen[c][p] EXCEPT !.onHand = j.share[p]]],
                  {Row(p, IF OpensStock(seen[c][p], j.reason) THEN "RESTOCK" ELSE "ADJUST",
                       j.share[p] - seen[c][p].onHand) : p \in changed})
        /\ UNCHANGED <<holds, freed, twice>>

-----------------------------------------------------------------------------
(* Things that happened to the stock of a location *)

Ready(c, op) == Active(c) /\ job[c].op = op /\ job[c].plan = << >>

\* The row a session locked at the place its request is about.
Its(c) == seen[c][job[c].at]

\* The rows it locked, with another number of units on hand at that place.
Changed(c, delta) == [seen[c] EXCEPT ![job[c].at].onHand = @ + delta]

\* adjust_stock: RESTOCK adds; SALE, from a sellable location, and DAMAGE
\* remove; ADJUST corrects the count either way.
AdjustStock(c) ==
    \E p \in Open, qty \in Quantities, reason \in {"RESTOCK", "SALE", "DAMAGE", "ADJUST"} :
        /\ listed
        /\ reason = "SALE" => p \in sellable
        /\ \/ reason = "RESTOCK" /\ Begin(c, [Blank("gain", p) EXCEPT !.qty = qty])
           \/ /\ reason \in {"SALE", "DAMAGE"}
              /\ Begin(c, [Blank("lose", p) EXCEPT !.qty = qty, !.reason = reason])
           \/ /\ reason = "ADJUST"
              /\ \E delta \in {qty, -qty} : Begin(c, [Blank("shift", p) EXCEPT !.qty = delta])
        /\ UNCHANGED issued

\* record_movement, but for a shipment: the kinds of _TYPE_BY_REASON.
RecordMovement(c) ==
    \E p \in Open, qty \in Quantities :
        /\ listed
        /\ \/ \E reason \in {"RESTOCK", "RETURN", "RETURN, DAMAGE"} :
                Begin(c, [Blank("gain", p) EXCEPT !.qty = qty, !.reason = reason])
           \/ \E reason \in {"SALE", "DAMAGE", "LOST"} :
                /\ reason = "SALE" => p \in sellable
                /\ Begin(c, [Blank("lose", p) EXCEPT !.qty = qty, !.reason = reason])
        /\ UNCHANGED issued

\* record_movement, a count correction by someone with the right to make
\* one: the count, and the figure it was based on if the caller tells.
Unsaid == MaxOnHand + 1
CorrectCount(c) ==
    \E p \in Open, count \in Quantities \cup {0} :
        \E expected \in {stock[p].onHand, Unsaid} :
            /\ listed
            /\ Begin(c, [Blank("recount", p) EXCEPT
                    !.qty = count, !.share = [NoUnits EXCEPT ![p] = expected]])
            /\ UNCHANGED issued

GainUncapped(c) == FALSE
GainRefused(c) == Its(c).onHand + job[c].qty > MaxOnHand
ReservedIsSold(c) == job[c].qty > Its(c).onHand
LossRefused(c) == job[c].qty > Spare(Its(c))
ShiftRefused(c) ==
    \/ Its(c).onHand + job[c].qty < Its(c).reserved
    \/ Its(c).onHand + job[c].qty > MaxOnHand
RecountRefused(c) ==
    \/ job[c].share[job[c].at] \notin {Unsaid, Its(c).onHand}
    \/ job[c].qty < Its(c).reserved
    \/ job[c].qty > MaxOnHand

\* Returned units that cannot be sold again are counted as returned, then
\* written off as damaged.
WrittenOff(j) == j.reason = "RETURN, DAMAGE"
ReturnRow(j) == {Row(j.at, "RETURN", j.qty)}
ReturnRows(j) == ReturnRow(j) \cup {Row(j.at, "DAMAGE", -j.qty)}

Gained(c) ==
    LET j == job[c]
    IN  /\ Ready(c, "gain")
        /\ ~GainRefused(c)
        /\ Commit(c, Changed(c, IF WrittenOff(j) THEN 0 ELSE j.qty),
                  IF WrittenOff(j) THEN ReturnRows(j) ELSE {Row(j.at, j.reason, j.qty)})
        /\ UNCHANGED <<holds, freed, twice>>

Lost(c) ==
    /\ Ready(c, "lose")
    /\ ~LossRefused(c)
    /\ Commit(c, Changed(c, -job[c].qty), {Row(job[c].at, job[c].reason, -job[c].qty)})
    /\ UNCHANGED <<holds, freed, twice>>

Shifted(c) ==
    /\ Ready(c, "shift")
    /\ ~ShiftRefused(c)
    /\ Commit(c, Changed(c, job[c].qty), {Row(job[c].at, "ADJUST", job[c].qty)})
    /\ UNCHANGED <<holds, freed, twice>>

Recounted(c) ==
    LET delta == job[c].qty - Its(c).onHand
    IN  /\ Ready(c, "recount")
        /\ ~RecountRefused(c)
        /\ Commit(c, Changed(c, delta),
                  IF delta = 0 THEN {} ELSE {Row(job[c].at, "ADJUST", delta)})
        /\ UNCHANGED <<holds, freed, twice>>

-----------------------------------------------------------------------------
(* Shipments *)

\* transfer, and record_movement of a shipment: both rows, in the order of
\* their locations' ids.
Transfer(c) ==
    \E p, to \in Open, qty \in Quantities :
        \E plan \in Orders({p, to}) :
            /\ p # to
            /\ listed
            /\ ById(plan)
            /\ Begin(c, [Blank("ship", p) EXCEPT !.to = to, !.qty = qty, !.plan = plan])
            /\ UNCHANGED issued

ShipmentRefused(c) ==
    \/ job[c].qty > Spare(Its(c))
    \/ seen[c][job[c].to].onHand + job[c].qty > MaxOnHand

Shipped(c) ==
    LET j == job[c]
    IN  /\ Ready(c, "ship")
        /\ ~ShipmentRefused(c)
        /\ Commit(c, [Changed(c, -j.qty) EXCEPT ![j.to].onHand = @ + j.qty],
                  {Row(j.at, "TRANSFER_OUT", -j.qty), Row(j.to, "TRANSFER_IN", j.qty)})
        /\ UNCHANGED <<holds, freed, twice>>

-----------------------------------------------------------------------------
(* Reservations *)

\* reserve with a location: the row of that location.
ReserveAt(c) ==
    \E p \in Open \cap sellable, qty \in Wanted, r \in Reservation \ issued :
        /\ listed
        /\ Begin(c, [Blank("allocated", p) EXCEPT !.share = [NoUnits EXCEPT ![p] = qty], !.ref = r])
        /\ issued' = issued \cup {r}

\* reserve without one: first the rows of every sellable location that has
\* one, in the order of priority.
Reserve(c) ==
    \E qty \in Wanted, r \in Reservation \ issued :
        \E plan \in Orders(rows \cap sellable) :
            /\ listed
            /\ ByPriority(plan)
            /\ Begin(c, [Blank("hold", Anywhere) EXCEPT !.qty = qty, !.ref = r, !.plan = plan])
            /\ issued' = issued \cup {r}

AllocationRefused(c) == ~CanFulfill(job[c].qty)

\* Under those locks allocate reads the stock again, rows that were added
\* meanwhile included; what it chose without a lock is locked next.
Allocated(c) ==
    /\ Ready(c, "hold")
    /\ ~AllocationRefused(c)
    /\ \E share \in [Place -> 0 .. job[c].qty] :
        /\ share = Allocate(job[c].qty)
        /\ \E plan \in Orders({p \in Place : share[p] > 0 /\ lock[p] # c}) :
            /\ ByPriority(plan)
            /\ job' = [job EXCEPT ![c].op = "allocated", ![c].share = share, ![c].plan = plan]
    /\ UNCHANGED <<tables, twice, lock, seen, requests>>

\* "Stock changed concurrently", or too little at the location asked for.
HoldRefused(c) == \E p \in Place : lock[p] = c /\ job[c].share[p] > Spare(seen[c][p])

\* qty_reserved goes up.
Promise(l, units) == [l EXCEPT !.reserved = @ + units]

Held(c) ==
    LET j == job[c]
    IN  /\ Ready(c, "allocated")
        /\ ~HoldRefused(c)
        /\ Commit(c, [p \in Place |-> Promise(seen[c][p], j.share[p])], {})
        /\ holds' = [holds EXCEPT ![j.ref] = j.share]
        /\ UNCHANGED <<freed, twice>>

\* release looks for RELEASE rows of the reservation and reads its RESERVE
\* rows, all before it has a lock.
Release(c) ==
    \E r \in Reservation :
        \E plan \in Orders({p \in Place : holds[r][p] > 0}) :
            /\ freed[r] = {}
            /\ holds[r] # NoUnits
            /\ Begin(c, [Blank("release", Anywhere) EXCEPT !.share = holds[r], !.ref = r, !.plan = plan])
            /\ UNCHANGED issued

Released(c) ==
    LET j == job[c]
        back(p) == Lesser(j.share[p], seen[c][p].reserved)
    IN  /\ Ready(c, "release")
        /\ Commit(c, [p \in Place |-> [seen[c][p] EXCEPT !.reserved = @ - back(p)]], {})
        /\ freed' = [freed EXCEPT ![j.ref] = {p \in Place : j.share[p] > 0}]
        /\ twice' = IF freed[j.ref] = {} THEN twice ELSE twice \cup {j.ref}
        /\ UNCHANGED holds

-----------------------------------------------------------------------------
(* Locations and the variant *)

UpsertLocation ==
    \E p \in Place, sells \in BOOLEAN :
        /\ requests < MaxRequests
        /\ site[p] # "deleted"
        /\ site' = [site EXCEPT ![p] = "open"]
        /\ sellable' = IF sells THEN sellable \cup {p} ELSE sellable \ {p}
        /\ requests' = requests + 1
        /\ UNCHANGED <<stock, holds, rows, listed, totals, issued, freed, twice, lock, seen, job>>


\* The rows of deleted locations go, and their ledger rows with them.
Vanish(places) ==
    /\ stock' = [p \in Place |-> IF p \in places THEN NoStock ELSE stock[p]]
    /\ rows' = rows \ places
    /\ totals' = [p \in Place |-> IF p \in places THEN NoTotals ELSE totals[p]]
    /\ holds' = [r \in Reservation |->
            [p \in Place |-> IF p \in places THEN 0 ELSE holds[r][p]]]
    /\ freed' = [r \in Reservation |-> freed[r] \ places]

\* delete_location looks for stock without a lock; its DELETE waits for the
\* row lock, and takes the row as it then is.
DeleteLocation(c) ==
    \E p \in Open :
        /\ stock[p] = NoStock
        /\ Begin(c, [Blank("delete", p) EXCEPT !.plan = << >>])
        /\ UNCHANGED issued

LocationDeleted(c) ==
    LET p == job[c].at
    IN  /\ Ready(c, "delete")
        /\ lock[p] = Nobody
        /\ Vanish({p})
        /\ site' = [site EXCEPT ![p] = "deleted"]
        /\ End(c)
        /\ UNCHANGED <<sellable, listed, issued, twice, requests>>

\* hard_delete_product takes the variant out, whatever is in stock or
\* promised, as soon as nobody holds a row of it.
HardDeleteProduct ==
    /\ requests < MaxRequests
    /\ listed
    /\ \A p \in Place : lock[p] = Nobody
    /\ Vanish(Place)
    /\ listed' = FALSE
    /\ requests' = requests + 1
    /\ UNCHANGED <<site, sellable, issued, twice, lock, seen, job>>

-----------------------------------------------------------------------------
(* How a session ends without a commit *)

\* What it locked does not allow the change, or a row it needs is gone.
Refused(c) ==
    \/ Missing(c)
    \/ Active(c) /\ CountsRefused(c)
    \/ Ready(c, "gain") /\ GainRefused(c)
    \/ Ready(c, "lose") /\ LossRefused(c)
    \/ Ready(c, "shift") /\ ShiftRefused(c)
    \/ Ready(c, "recount") /\ RecountRefused(c)
    \/ Ready(c, "ship") /\ ShipmentRefused(c)
    \/ Ready(c, "hold") /\ AllocationRefused(c)
    \/ Ready(c, "allocated") /\ HoldRefused(c)
    \/ Ready(c, "delete") /\ site[job[c].at] # "open"

Refuse(c) == Refused(c) /\ Rollback(c)

\* PostgreSQL finds a circle of waiting sessions and aborts one of them.
DeadlockVictim(c) ==
    /\ \E S \in SUBSET Client : c \in S /\ Circle(S)
    /\ Rollback(c)

\* A request may be cut off at any time before its commit.
ConnectionLost(c) == Active(c) /\ Rollback(c)

-----------------------------------------------------------------------------
(* The specification *)

Init ==
    /\ site \in [Place -> {"new", "open"}]
    /\ sellable = Place
    /\ listed = TRUE
    /\ \E opening \in Opening :
        LET held == opening[1]
            more == opening[2]
            r == FirstReservation
        IN
        /\ \A p \in Place : site[p] = "new" => held[p] + more[p] = 0
        /\ stock = [p \in Place |-> [onHand |-> held[p] + more[p], reserved |-> held[p]]]
        /\ rows = {p \in Place : held[p] + more[p] > 0}
        /\ totals = [p \in Place |-> [NoTotals EXCEPT !["RESTOCK"] = held[p] + more[p]]]
        /\ holds = [[s \in Reservation |-> NoUnits] EXCEPT ![r] = held]
        /\ issued = IF held = NoUnits THEN {} ELSE {r}
    /\ freed = [r \in Reservation |-> {}]
    /\ twice = {}
    /\ lock = [p \in Place |-> Nobody]
    /\ seen = [c \in Client |-> [p \in Place |-> NoStock]]
    /\ job = [c \in Client |-> NoJob]
    /\ requests = 0

Request(c) ==
    \/ SetStock(c) \/ AdjustStock(c) \/ RecordMovement(c) \/ CorrectCount(c)
    \/ Transfer(c) \/ ReserveAt(c) \/ Reserve(c) \/ Release(c) \/ DeleteLocation(c)

Work(c) ==
    \/ Lock(c)
    \/ CountsSet(c) \/ Gained(c) \/ Lost(c) \/ Shifted(c) \/ Recounted(c) \/ Shipped(c)
    \/ Allocated(c) \/ Held(c) \/ Released(c) \/ LocationDeleted(c)
    \/ Refuse(c) \/ DeadlockVictim(c)

Next ==
    \/ \E c \in Client : Request(c) \/ Work(c) \/ ConnectionLost(c)
    \/ UpsertLocation
    \/ HardDeleteProduct

\* A session that can go on does; the database finds its deadlocks.
Fairness == \A c \in Client : WF_vars(Work(c))

Spec == Init /\ [][Next]_vars /\ Fairness

-----------------------------------------------------------------------------
(* Properties *)

Jobs ==
    [op : Ops, at : Place, to : Place, qty : Int, reason : Reasons, rights : BOOLEAN,
     share : [Place -> Nat], ref : Reservation, plan : Seq(Place)]

TypeOK ==
    /\ stock \in [Place -> Level]
    /\ holds \in [Reservation -> [Place -> Nat]]
    /\ rows \subseteq Place
    /\ site \in [Place -> {"new", "open", "deleted"}]
    /\ sellable \subseteq Place
    /\ listed \in BOOLEAN
    /\ issued \subseteq Reservation
    /\ freed \in [Reservation -> SUBSET Place]
    /\ twice \subseteq Reservation
    /\ lock \in [Place -> Client \cup {Nobody}]
    /\ seen \in [Client -> [Place -> Level]]
    /\ job \in [Client -> Jobs \cup {NoJob}]
    /\ requests \in 0 .. MaxRequests

\* Units promised to a customer are in the building: whatever the requests
\* and their order, no location has more units reserved than on hand.
OnHandCoversReserved == \A p \in Place : stock[p].reserved <= stock[p].onHand

\* The units reserved at a location are those of the reservations that were
\* not released, as long as no reservation was released a second time.
HoldsAreReserved ==
    twice = {} => \A p \in Place :
        stock[p].reserved =
            SumFunctionOnSet([r \in Reservation |-> holds[r][p]], {r \in Reservation : freed[r] = {}})

\* The ledger explains the stock: movement_summary's totals of a location
\* add up to the units on hand there.
TotalsExplainStock == \A p \in Place : NetChange(totals[p]) = stock[p].onHand

\* Both: whatever is on the books of a location, reservations and totals,
\* explains its row, and nothing else does.
BooksExplainStock == HoldsAreReserved /\ TotalsExplainStock

\* The stock adds up: promises are covered by units that are there, and each of
\* them, promised or there, is explained by a request that went before.
StockAddsUp == OnHandCoversReserved /\ BooksExplainStock

\* What check_availability answers and what allocate does agree: a quantity
\* is allocated, within what each location has to spare, if and only if it
\* can be fulfilled, and at one location if one can fulfil it.
AllocationAgreesWithQuote ==
    \A qty \in 1 .. MaxOnHand * Cardinality(Place) :
        LET share == Allocate(qty)
        IN  /\ \A p \in Place : share[p] <= Available(stock[p])
            /\ SumFunctionOnSet(share, Place) = qty <=> CanFulfill(qty)
            /\ (\E p \in Place : CanFulfillAt(p, qty)) => \E p \in Place : share[p] = qty

\* Requests that lock a pair of locations in the order of their ids never
\* wait for each other in a circle; whoever does has a reservation, a
\* release or a batch of counts in it.
OrderedLocksNeverCircle ==
    \A S \in SUBSET Client : Circle(S) => \E c \in S : job[c].op # "ship"

\* Every committed request is one step of the promised inventory, whatever
\* ran beside it.
ImplementsAtomicStock == Promised!Spec

\* Every request ends: none waits for ever for a row.
RequestsEnd == \A c \in Client : Active(c) ~> ~Active(c)
=============================================================================
