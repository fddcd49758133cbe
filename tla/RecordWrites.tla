---------------------------- MODULE RecordWrites ----------------------------
(***************************************************************************)
(* The records the sales agent's write tools work on and the requests they *)
(* send for them: what each service accepts and what an accepted request   *)
(* leaves behind.  A request is one transaction of its service.            *)
(* Sources: data-pipeline catalog/service.py, knowledge_vault_routes.py,   *)
(* the agent engine's platform/{data_pipeline,workspace_client}.py and     *)
(* context/stores.py, workspace-service's WorkspaceDealServiceImpl.java.   *)
(***************************************************************************)
EXTENDS Naturals, Sequences, TLC

-----------------------------------------------------------------------------
(* The records *)

(* The fields the properties tell apart, with their values. A SKU has the  *)
(* option value of its own or none, the sizes of an item are its option    *)
(* values, goods stand for what a movement ships, hold and hold2 for the   *)
(* reservations of a quote.                                                *)
Fields ==
    [category |-> [label |-> {"a", "b"}],
     item |-> [status |-> {"ACTIVE", "DRAFT", "RETIRED"}, text |-> {"a", "b"},
               category |-> {"none", "category"}, sizes |-> {"S", "S and L"}],
     small |-> [status |-> {"ACTIVE", "RETIRED"}, price |-> {"a", "b"}, size |-> {"own", "none"}],
     large |-> [status |-> {"ACTIVE", "RETIRED"}, price |-> {"a", "b"}, size |-> {"own", "none"}],
     place |-> [details |-> {"a", "b"}],
     goods |-> [at |-> {"place", "shop", "sold"}],
     return |-> [reference |-> {"undo"}],
     count |-> [units |-> {"a", "b", "c"}],
     hold |-> [sku |-> {"small"}],
     hold2 |-> [sku |-> {"large"}],
     file |-> [name |-> {"quote"}],
     deal |-> [stage |-> {"a", "b", "c"}, amount |-> {"a", "b"}, quote |-> {"none", "ours"}],
     profile |-> [role |-> {"a", "b", "c"}, region |-> {"a", "b"}],
     preferences |-> [timezone |-> {"unset", "a", "b", "c"}],
     settings |-> [limit |-> {"a", "b", "c"}, window |-> {"a", "b"}],
     schedule |-> [every |-> {"off", "hour", "day"}],
     memory |-> [ours |-> {"no", "yes"}, theirs |-> {"no", "yes"}],
     page |-> [category |-> {"a", "b"}, tags |-> {"a", "b"}]]

Thing == DOMAIN Fields
Skus == {"small", "large"}
Whole(th, row) == DOMAIN row = DOMAIN Fields[th]

Gone == [f \in {} |-> "none"]

VARIABLES
    rows,       \* record -> its fields, none when it is not there
    version     \* the deal's version, or that of the memory about it

Here(r, th) == r[th] # Gone
Merged(row, change) == change @@ row

-----------------------------------------------------------------------------
(* Requests: the records they carry and the version they expect, if any.   *)
(* A record a request maps to Gone is removed.                             *)

AnyVersion == 0
Expecting(op, change, v) == [op |-> op, change |-> change, expect |-> v]
Request(op, change) == Expecting(op, change, AnyVersion)
NoRequest == Request("none", Gone)

-----------------------------------------------------------------------------
(* What the services accept *)

\* "A category in use (by a product in any status, retired ones included) is kept."
CategoryUsed(r) == Here(r, "item") /\ r["item"].category = "category"
CategoryFree(r) == Here(r, "category") /\ ~CategoryUsed(r)

\* A product names a category of the vocabulary; only an existing product is updated in part.
NamesCategory(r, change) == "category" \in DOMAIN change /\ change.category = "category" => Here(r, "category")
ProductFits(r, change) ==
    /\ NamesCategory(r, change)
    /\ Here(r, "item") \/ Whole("item", change)

\* A SKU of the item, with an option value the item still has.
VariantsFit(r, change) ==
    /\ Here(r, "item")
    /\ "large" \in DOMAIN change /\ change["large"].size = "own" => r["item"].sizes = "S and L"

PlaceEmpty(r) == Here(r, "place") /\ ~(Here(r, "goods") /\ r["goods"].at = "place")

VersionMet(r, v, q) == q.expect = AnyVersion \/ (Here(r, "deal") /\ q.expect = v)
MemoryMet(v, q) == q.expect = v

Accepts(r, v, q) ==
    CASE q.op = "delete category"  -> CategoryFree(r)
      [] q.op = "upsert product"   -> ProductFits(r, q.change["item"])
      [] q.op = "set options"      -> Here(r, "item")
      [] q.op = "upsert variants"  -> VariantsFit(r, q.change)
      [] q.op = "retire product"   -> Here(r, "item")
      [] q.op = "update location"  -> Here(r, "place")
      [] q.op = "delete location"  -> PlaceEmpty(r)
      [] q.op = "record shipment"  -> Here(r, "goods") /\ r["goods"].at # q.change["goods"].at /\ r["goods"].at # "sold"
      [] q.op = "correct count"    -> r["count"].units = q.expect
      [] q.op = "put deal"         -> VersionMet(r, v, q)
      [] q.op = "delete deal"      -> VersionMet(r, v, q)
      [] q.op = "store memory"     -> MemoryMet(v, q)
      [] q.op \in {"classify page", "delete page"} -> Here(r, "page")
      [] q.op = "release"          -> \E th \in DOMAIN q.change : Here(r, th)
      [] OTHER -> TRUE

-----------------------------------------------------------------------------
(* What an accepted request leaves behind *)

Saved(r, change) ==
    [th \in Thing |-> IF th \notin DOMAIN change THEN r[th]
                      ELSE IF change[th] = Gone THEN Gone ELSE Merged(r[th], change[th])]

\* A retired product takes its SKUs with it.
ProductRetired(r) ==
    [th \in Thing |-> IF th \in Skus \cup {"item"} /\ Here(r, th) THEN [r[th] EXCEPT !.status = "RETIRED"] ELSE r[th]]

\* An option value that is taken out unlinks the SKU that had it.
OptionsSet(r, sizes) ==
    [r EXCEPT !["item"].sizes = sizes,
              !["large"] = IF sizes = "S" /\ Here(r, "large") THEN [@ EXCEPT !.size = "none"] ELSE @]

After(r, q) ==
    CASE q.op = "retire product" -> ProductRetired(r)
      [] q.op = "set options"    -> OptionsSet(r, q.change["item"].sizes)
      [] OTHER                   -> Saved(r, q.change)

VersionAfter(v, q) == IF q.op \in {"put deal", "delete deal", "store memory"} THEN v + 1 ELSE v
=============================================================================
