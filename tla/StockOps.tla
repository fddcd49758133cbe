------------------------------ MODULE StockOps ------------------------------
(***************************************************************************)
(* What the catalog keeps of a variant's stock at a location, and how rows *)
(* of its ledger add up.                                                   *)
(* Sources: catalog/models.py, catalog/stock_movements.py.                 *)
(***************************************************************************)
EXTENDS Integers, FiniteSetsExt

CONSTANTS
    Place,          \* locations
    Reservation,    \* reservation ids
    MaxOnHand       \* catalog.stock_movements.MAX_ON_HAND

ASSUME MaxOnHandAssumption == MaxOnHand \in Nat

Level == [onHand : 0 .. MaxOnHand, reserved : 0 .. MaxOnHand]
NoStock == [onHand |-> 0, reserved |-> 0]
NoUnits == [p \in Place |-> 0]

Spare(l) == l.onHand - l.reserved
Lesser(m, n) == IF m < n THEN m ELSE n

-----------------------------------------------------------------------------
(* Ledger rows and their totals *)

Inflow == {"RESTOCK", "RETURN", "TRANSFER_IN"}
Outflow == {"SALE", "TRANSFER_OUT", "DAMAGE", "LOST"}
Fields == Inflow \cup Outflow \cup {"corrected_up", "corrected_down"}
NoTotals == [f \in Fields |-> 0]

Row(p, reason, delta) == [at |-> p, reason |-> reason, delta |-> delta]

\* The total a row adds to; one that moved stock against its reason's
\* direction was a count correction.
FieldOf(r) ==
    CASE r.reason \in Inflow /\ r.delta > 0 -> r.reason
      [] r.reason \in Outflow /\ r.delta < 0 -> r.reason
      [] OTHER -> IF r.delta > 0 THEN "corrected_up" ELSE "corrected_down"

Magnitude(r) == IF r.delta < 0 THEN -r.delta ELSE r.delta

AddToTotals(t, moves) ==
    [f \in Fields |->
        t[f] + SumFunctionOnSet([r \in moves |-> Magnitude(r)], {r \in moves : FieldOf(r) = f})]

NetChange(t) ==
    t["RESTOCK"] + t["RETURN"] + t["TRANSFER_IN"] + t["corrected_up"]
    - t["SALE"] - t["TRANSFER_OUT"] - t["DAMAGE"] - t["LOST"] - t["corrected_down"]

=============================================================================
