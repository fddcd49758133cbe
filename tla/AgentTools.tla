----------------------------- MODULE AgentTools -----------------------------
(***************************************************************************)
(* The write tools of the sales agent that can be taken back, and a few    *)
(* that cannot: for each what its plan refuses, the requests it sends, and *)
(* what its undo handler sends for the records as it finds them.           *)
(* Sources: the agent engine's tools/adapters/{catalog_setup,              *)
(* catalog_writes,deals,quotes,profile,connectors,knowledge_writes,        *)
(* memory}.py.                                                             *)
(***************************************************************************)
EXTENDS RecordWrites

(* A call: the records as its plan saw them, and the change the rep has    *)
(* approved, a row or part of one for each record it is about.             *)
Refused == <<>>

\* The fields of a record an approved change would change, and what they hold before it.
Changes(r, want, th) ==
    IF th \notin DOMAIN want THEN Gone
    ELSE [f \in {g \in DOMAIN want[th] : Here(r, th) => r[th][g] # want[th][g]} |-> want[th][f]]
Previous(r, want, th) == [f \in DOMAIN Changes(r, want, th) |-> r[th][f]]

\* Of the fields a call set, those that still hold what it set go back, if they have not already.
Waiting(r, c, th) == {f \in DOMAIN Previous(c.saw, c.want, th) : r[th][f] # c.saw[th][f]}
Restorable(r, c, th) == [f \in {g \in Waiting(r, c, th) : r[th][g] = c.want[th][g]} |-> c.saw[th][f]]
AllWaiting(r, c, th) == [f \in Waiting(r, c, th) |-> c.saw[th][f]]

\* Instead of a request: nothing is left to do, or the record is kept as others left it.
Nothing == NoRequest
Kept == Request("kept", Gone)

\* A SKU is sent with every field it has.
VariantPayload(r, k, change) == k :> Merged(r[k], change)
Payloads(r, ks, change) == Request("upsert variants", [k \in ks |-> Merged(r[k], change)])
HereSkus(r) == {k \in Skus : Here(r, k)}

-----------------------------------------------------------------------------
(* Categories *)

PlanCategory(r, want) ==
    IF r["category"] = want["category"] THEN Refused ELSE <<Request("upsert category", want)>>

RemoveCategory == Request("delete category", "category" :> Gone)

UndoCategory(r, c) ==
    IF c.saw["category"] = Gone THEN RemoveCategory
    ELSE Request("upsert category", "category" :> c.saw["category"])

PlanDeleteCategory(r) == IF CategoryFree(r) THEN <<RemoveCategory>> ELSE Refused

-----------------------------------------------------------------------------
(* Stock locations *)

\* "has held stock since it was added"
LocationUsed(r) == Here(r, "goods")
RemoveLocation == Request("delete location", "place" :> Gone)

PlanNewLocation(r, want) == IF Here(r, "place") THEN Refused ELSE <<Request("create location", want)>>

RemoveNewLocation(r) ==
    IF ~Here(r, "place") THEN Nothing ELSE IF LocationUsed(r) THEN Kept ELSE RemoveLocation

PlanLocationUpdate(r, want) ==
    IF ~Here(r, "place") \/ r["place"] = want["place"] THEN Refused ELSE <<Request("update location", want)>>

RestoreLocation(c) == Request("update location", "place" :> c.saw["place"])

PlanLocationDelete(r) == IF ~Here(r, "place") \/ LocationUsed(r) THEN Refused ELSE <<RemoveLocation>>

AddLocationBack(r, c) == IF Here(r, "place") THEN Nothing ELSE Request("create location", "place" :> c.saw["place"])

-----------------------------------------------------------------------------
(* Items and their SKUs *)

PlanNewItem(r, want) ==
    IF ~Here(r, "category") \/ Here(r, "small") THEN Refused
    ELSE <<Request("upsert product", "item" :> want["item"]), Request("upsert variants", "small" :> want["small"])>>

RetireProduct == Request("retire product", Gone)

\* An item is changed in part, a SKU as a whole.
PlanUpdate(r, want) ==
    LET wakes == {th \in {"item", "small"} \cap DOMAIN want : "status" \in DOMAIN want[th]}
        changes == Changes(r, want, "item")
    IN  IF ~Here(r, "item") \/ ~Here(r, "small") THEN Refused
        ELSE IF r["item"].status = "RETIRED" /\ wakes # {} THEN Refused
        ELSE (IF changes = Gone THEN <<>> ELSE <<Request("upsert product", "item" :> changes)>>)
             \o (IF Changes(r, want, "small") = Gone THEN <<>>
                 ELSE <<Request("upsert variants", VariantPayload(r, "small", Changes(r, want, "small")))>>)

RevertChanges(c) == Request("upsert product", "item" :> Previous(c.saw, c.want, "item"))

RestoreValues(r, c, phase) ==
    IF phase = 1 THEN IF Changes(c.saw, c.want, "item") = Gone THEN Nothing ELSE RevertChanges(c)
    ELSE IF Changes(c.saw, c.want, "small") = Gone \/ ~Here(r, "small") THEN Nothing
    ELSE Request("upsert variants", VariantPayload(r, "small", Previous(c.saw, c.want, "small")))

PlanRetire(r) == IF ~Here(r, "item") \/ r["item"].status = "RETIRED" THEN Refused ELSE <<RetireProduct>>

Unretire(r, c, phase) ==
    LET back == {k \in HereSkus(r) \cap HereSkus(c.saw) : r[k].status # c.saw[k].status} IN
    IF phase = 1 THEN Request("upsert product", "item" :> [status |-> c.saw["item"].status])
    ELSE IF back = {} THEN Nothing
    ELSE Request("upsert variants", [k \in back |-> Merged(r[k], [status |-> c.saw[k].status])])

Reactivated(r, want) == {k \in HereSkus(r) \cap DOMAIN want : r[k].status # "ACTIVE"}

PlanRestore(r, want) ==
    IF ~Here(r, "item") \/ r["item"].status # "RETIRED" THEN Refused
    ELSE <<Request("upsert product", "item" :> want["item"])>>
         \o (IF Reactivated(r, want) = {} THEN <<>>
             ELSE <<Payloads(r, Reactivated(r, want), [status |-> "ACTIVE"])>>)

RetireAgain(r, c, phase) ==
    LET again == {k \in HereSkus(r) \cap Reactivated(c.saw, c.want) : r[k].status # "RETIRED"} IN
    IF phase = 1 THEN Request("upsert product", "item" :> [status |-> "RETIRED"])
    ELSE IF again = {} THEN Nothing ELSE Payloads(r, again, [status |-> "RETIRED"])

SetSizes(sizes) == Request("set options", "item" :> [sizes |-> sizes])

PlanSkus(r, want) ==
    IF ~Here(r, "item") \/ r["item"].status = "RETIRED" \/ Here(r, "large") THEN Refused
    ELSE (IF r["item"].sizes = "S and L" THEN <<>> ELSE <<SetSizes("S and L")>>)
         \o <<Request("upsert variants", "large" :> want["large"])>>

RetireAdded(r) ==
    IF ~Here(r, "large") \/ r["large"].status = "RETIRED" THEN Nothing
    ELSE Payloads(r, {"large"}, [status |-> "RETIRED"])

-----------------------------------------------------------------------------
(* Stock *)

PlanMovement(r, want) ==
    IF ~Here(r, "goods") \/ r["goods"].at # "place" THEN Refused ELSE <<Request("record shipment", want)>>

\* The return carries a reference, so that a repeated undo finds it.
ShipBack(r) ==
    IF Here(r, "return") THEN Nothing
    ELSE Request("record shipment", "goods" :> [at |-> "place"] @@ "return" :> [reference |-> "undo"])

PlanCorrection(r, want) ==
    IF r["count"] = want["count"] THEN Refused ELSE <<Expecting("correct count", want, r["count"].units)>>

RestoreCount(c) == Expecting("correct count", "count" :> c.saw["count"], c.want["count"].units)

ReserveStock(want) == <<Request("reserve", want)>>
ReleaseStock(r) == IF Here(r, "hold") THEN <<Request("release", "hold" :> Gone)>> ELSE Refused
ReleaseReservation(r) == IF Here(r, "hold") THEN Request("release", "hold" :> Gone) ELSE Nothing

-----------------------------------------------------------------------------
(* Deals: saved whole, against the version that was read *)

PutDeal(r, v, change) == Expecting("put deal", "deal" :> Merged(r["deal"], change), v)

CreateDeal(want) == <<Request("put deal", want)>>

DeleteCreated(r, v, c) ==
    IF ~Here(r, "deal") THEN Nothing
    ELSE IF r["deal"] # c.want["deal"] THEN Kept
    ELSE Expecting("delete deal", "deal" :> Gone, v)

PlanDealUpdate(r, v, want) ==
    IF ~Here(r, "deal") \/ Changes(r, want, "deal") = Gone THEN Refused
    ELSE <<PutDeal(r, v, Changes(r, want, "deal"))>>

\* Mutant: every changed field goes back.
RestoreDealWhole(r, v, c) ==
    IF ~Here(r, "deal") THEN Kept ELSE PutDeal(r, v, AllWaiting(r, c, "deal"))

\* Only fields still holding what the update set go back; later edits by others stay.
RestoreDeal(r, v, c) ==
    IF ~Here(r, "deal") THEN Kept ELSE PutDeal(r, v, Restorable(r, c, "deal"))

-----------------------------------------------------------------------------
(* Quotes: the stock they hold, the file, the entry in the deal *)

Reserving == <<Request("reserve", "hold" :> [sku |-> "small"]), Request("reserve", "hold2" :> [sku |-> "large"])>>
SaveFile == Request("save file", "file" :> [name |-> "quote"])
Linking == Request("link quote", Gone)

\* Every SKU and its item must be sold; the discounts and the stock are left out.
Priced(r) ==
    /\ Here(r, "item") /\ r["item"].status = "ACTIVE"
    /\ \A k \in Skus : Here(r, k) /\ r[k].status = "ACTIVE"

PlanQuote(r) == IF Priced(r) THEN Reserving \o <<SaveFile, Linking>> ELSE Refused

Release(holds) == [i \in 1 .. Len(holds) |-> Request("release", holds[i] :> Gone)]

LinkQuote(r, v) == IF Here(r, "deal") THEN PutDeal(r, v, [quote |-> "ours"]) ELSE Kept
UnlinkQuote(r, v) ==
    IF ~Here(r, "deal") \/ r["deal"].quote = "none" THEN Nothing ELSE PutDeal(r, v, [quote |-> "none"])

\* A quote that could not be linked is not unlinked.
UndoQuote(r, v, c, phase) ==
    CASE phase = 1 -> IF c.note \in {"unlinked", "astray"} THEN Nothing ELSE UnlinkQuote(r, v)
      [] phase = 2 -> IF Here(r, "hold") THEN Request("release", "hold" :> Gone) ELSE Nothing
      [] phase = 3 -> IF Here(r, "hold2") THEN Request("release", "hold2" :> Gone) ELSE Nothing
      [] phase = 4 -> Request("remove file", "file" :> Gone)

-----------------------------------------------------------------------------
(* The rep's profile, preferences and connected apps *)

PlanProfileUpdate(r, want) ==
    IF Changes(r, want, "profile") = Gone THEN Refused
    ELSE <<Request("save profile", "profile" :> Changes(r, want, "profile"))>>

RestoreProfile(r, c) ==
    IF Waiting(r, c, "profile") = {} THEN Nothing
    ELSE IF Restorable(r, c, "profile") = Gone THEN Kept
    ELSE Request("save profile", "profile" :> Restorable(r, c, "profile"))

PlanPreferences(r, want) ==
    IF Changes(r, want, "preferences") = Gone THEN Refused ELSE <<Request("save preferences", want)>>

\* A preference that was not set before is not put back.
RestorePreferences(r, c) ==
    IF c.saw["preferences"].timezone = "unset" \/ Waiting(r, c, "preferences") = {} THEN Nothing
    ELSE IF Restorable(r, c, "preferences") = Gone THEN Kept
    ELSE Request("save preferences", "preferences" :> Restorable(r, c, "preferences"))

\* The pipeline takes a configuration whole, so what is not changed is sent as it was read.
FullConfig(r, change) == Request("save config", "settings" :> Merged(r["settings"], change))

PlanSettings(r, want) ==
    IF Changes(r, want, "settings") = Gone THEN Refused ELSE <<FullConfig(r, Changes(r, want, "settings"))>>

RestoreSettings(r, c) ==
    IF Waiting(r, c, "settings") = {} THEN Nothing
    ELSE IF Restorable(r, c, "settings") = Gone THEN Kept
    ELSE FullConfig(r, Restorable(r, c, "settings"))

PlanSchedule(r, want) == IF r["schedule"] = want["schedule"] THEN Refused ELSE <<Request("set schedule", want)>>

RestoreSchedule(r, c) ==
    IF r["schedule"] = c.saw["schedule"] THEN Nothing
    ELSE IF r["schedule"] # c.want["schedule"] THEN Kept
    ELSE Request("set schedule", "schedule" :> c.saw["schedule"])

-----------------------------------------------------------------------------
(* Shared memory: each change is a new version, made again from the latest *)

StoreMemory(r, v, change) == Expecting("store memory", "memory" :> Merged(r["memory"], change), v)

Remember(r, v) == IF r["memory"].ours = "yes" THEN <<Nothing>> ELSE <<StoreMemory(r, v, [ours |-> "yes"])>>
Forget(r, v) == IF r["memory"].ours = "no" THEN Refused ELSE <<StoreMemory(r, v, [ours |-> "no"])>>

-----------------------------------------------------------------------------
(* Documents of the knowledge base *)

\* A page that is there already keeps the category it has unless another is given; its tags
\* are decided anew.
PlanPage(r, want) == <<Request("ingest page", "page" :> Merged(r["page"], want["page"]))>>

DeleteAddedPage(r) == IF Here(r, "page") THEN Request("delete page", "page" :> Gone) ELSE Nothing

PlanClassification(r, want) ==
    IF ~Here(r, "page") \/ Changes(r, want, "page") = Gone THEN Refused
    ELSE <<Request("classify page", "page" :> Changes(r, want, "page"))>>

Reclassify(r, want) == IF Here(r, "page") THEN <<Request("classify page", want)>> ELSE Refused

\* A correction puts back what it changed, a new classification all there was.
RestoreClassification(r, c, fields) ==
    IF Here(r, "page") THEN Request("classify page", "page" :> [f \in fields |-> c.saw["page"][f]]) ELSE Nothing

PlanDeletePage(r) == IF Here(r, "page") THEN <<Request("delete page", "page" :> Gone)>> ELSE Refused

\* The page is fetched again under its category; its tags are whatever the classifier says.
AddPageBack(c, tags) ==
    Request("ingest page", "page" :> [category |-> c.saw["page"].category, tags |-> tags])
=============================================================================
