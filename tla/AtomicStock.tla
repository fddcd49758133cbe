----------------------------- MODULE AtomicStock -----------------------------
(***************************************************************************)
(* What the catalog's inventory of one variant promises its callers, with  *)
(* no requests, no transactions and no locks: every change of the stock of *)
(* a location is one step that looks at the stock as it is.  CatalogStock  *)
(* is shown to implement this.                                             *)
(***************************************************************************)
EXTENDS StockOps


VARIABLES
    stock,      \* location -> the units there and how many of them are promised
    holds       \* reservation -> location -> the units its RESERVE rows promise

Init ==
    /\ stock \in [Place -> {l \in Level : l.reserved <= l.onHand}]
    /\ holds \in [Reservation -> [Place -> 0 .. MaxOnHand]]

\* Units come in: received, returned by a customer, corrected upwards.
Gain(p, q) ==
    /\ stock[p].onHand + q <= MaxOnHand
    /\ stock' = [stock EXCEPT ![p].onHand = @ + q]
    /\ UNCHANGED holds

\* Units leave for good: only units that are promised to nobody.
Lose(p, q) ==
    /\ q <= Spare(stock[p])
    /\ stock' = [stock EXCEPT ![p].onHand = @ - q]
    /\ UNCHANGED holds

\* Units change places, both ends at once: only units promised to nobody.
Move(p, to, q) ==
    /\ p # to
    /\ q <= Spare(stock[p])
    /\ stock[to].onHand + q <= MaxOnHand
    /\ stock' = [stock EXCEPT ![p].onHand = @ - q, ![to].onHand = @ + q]
    /\ UNCHANGED holds

\* New counts, for one location or for several at once: never fewer units
\* than are promised there.
Count(count) ==
    /\ \A p \in DOMAIN count : stock[p].reserved <= count[p]
    /\ stock' = [p \in Place |->
            IF p \in DOMAIN count THEN [stock[p] EXCEPT !.onHand = count[p]]
            ELSE stock[p]]
    /\ UNCHANGED holds

\* Units are promised to a reservation that has none, all of them or none.
Hold(r, share) ==
    /\ holds[r] = NoUnits
    /\ \A p \in Place : share[p] > 0 => share[p] <= Spare(stock[p])
    /\ stock' = [p \in Place |-> [stock[p] EXCEPT !.reserved = @ + share[p]]]
    /\ holds' = [holds EXCEPT ![r] = share]

\* A reservation gives back what it holds, never more than is promised at
\* the location.  What it held stays on record.
Release(r) ==
    /\ stock' = [p \in Place |->
            [stock[p] EXCEPT !.reserved = @ - Lesser(holds[r][p], @)]]
    /\ UNCHANGED holds

\* Locations are taken out, with their stock and what was promised there.
TakeOut(gone) ==
    /\ stock' = [p \in Place |-> IF p \in gone THEN NoStock ELSE stock[p]]
    /\ holds' = [r \in Reservation |->
            [p \in Place |-> IF p \in gone THEN 0 ELSE holds[r][p]]]

Next ==
    \/ \E p \in Place, q \in 1 .. MaxOnHand :
        \/ Gain(p, q)
        \/ Lose(p, q)
        \/ \E to \in Place : Move(p, to, q)
    \/ \E places \in SUBSET Place :
        \/ \E count \in [places -> 0 .. MaxOnHand] : Count(count)
        \/ TakeOut(places)
    \/ \E r \in Reservation :
        \/ \E share \in [Place -> 0 .. MaxOnHand] : Hold(r, share)
        \/ Release(r)

Spec == Init /\ [][Next]_<<stock, holds>>
=============================================================================
