---------------------------- MODULE AgentWrites ----------------------------
(***************************************************************************)
(* One write of the sales agent from its plan to its undo, while people    *)
(* work on the same records and the services refuse, fail or do not        *)
(* answer.  The tool plans from what it reads, sends its requests one by   *)
(* one, cleans up after a failed second request and answers; the undo      *)
(* reads, sends, and may be repeated when it failed.                       *)
(* Sources: the agent engine's tools/adapters, tools/types.py,             *)
(* tools/executor.py and platform/data_pipeline.py.                        *)
(***************************************************************************)
EXTENDS AgentTools, FiniteSets

CONSTANTS
    ConflictRetries,    \* attempts to save a record that keeps changing
    MaxEdits,           \* bound: changes other people make during a call
    MaxFaults           \* bound: requests that fail or get no answer

VARIABLES
    call,       \* the call and its undo
    edits,      \* changes others have made
    touched,    \* records others changed since the plan was made
    stale,      \* records others changed since the call last read
    faults      \* requests that failed or were not answered

vars == <<rows, version, call, edits, touched, stale, faults>>

-----------------------------------------------------------------------------
(* The tools: what the rep may have approved, what they are about *)

Active == [status |-> "ACTIVE", price |-> "a", size |-> "none"]
LargeSku == [status |-> "ACTIVE", price |-> "a", size |-> "own"]
NewItem == [status |-> "ACTIVE", text |-> "a", category |-> "category", sizes |-> "S"]
NewDeal == [stage |-> "a", amount |-> "a", quote |-> "none"]

Retiring == [status |-> "RETIRED"]

Wants(t, r) ==
    CASE t = "save_category"    -> {"category" :> [label |-> "b"]}
      [] t = "delete_category"  -> {"category" :> Gone}
      [] t = "create_location"  -> {"place" :> [details |-> "a"]}
      [] t = "update_location"  -> {"place" :> [details |-> "b"]}
      [] t = "delete_location"  -> {"place" :> Gone}
      [] t = "create_item"      -> {"item" :> NewItem @@ "small" :> Active}
      [] t = "update_item"      -> {"item" :> [text |-> "b"] @@ "small" :> [price |-> "b"],
                                    "small" :> [price |-> "b"], "item" :> [status |-> "DRAFT"]}
      [] t = "retire_item"      -> {"item" :> Retiring @@ [k \in HereSkus(r) |-> Retiring]}
      [] t = "restore_item"     -> {"item" :> [status |-> s] @@ [k \in ks |-> [status |-> "ACTIVE"]] :
                                        s \in {"ACTIVE", "DRAFT"}, ks \in SUBSET HereSkus(r)}
      [] t = "add_skus"         -> {"item" :> [sizes |-> "S and L"] @@ "large" :> LargeSku}
      [] t = "ship"             -> {"goods" :> [at |-> "shop"]}
      [] t = "correct_count"    -> {"count" :> [units |-> "b"]}
      [] t = "reserve"          -> {"hold" :> [sku |-> "small"]}
      [] t = "release"          -> {"hold" :> Gone}
      [] t = "create_deal"      -> {"deal" :> NewDeal}
      [] t = "update_deal"      -> {"deal" :> [stage |-> "b"], "deal" :> [stage |-> "b", amount |-> "b"]}
      [] t = "create_quote"     -> {"hold" :> [sku |-> "small"] @@ "hold2" :> [sku |-> "large"]
                                    @@ "file" :> [name |-> "quote"] @@ "deal" :> [quote |-> "ours"]}
      [] t = "update_profile"   -> {"profile" :> [role |-> "b", region |-> "b"]}
      [] t = "update_preferences" -> {"preferences" :> [timezone |-> "b"]}
      [] t = "change_settings"  -> {"settings" :> [limit |-> "b"]}
      [] t = "set_schedule"     -> {"schedule" :> [every |-> "day"]}
      [] t = "remember"         -> {"memory" :> [ours |-> "yes"]}
      [] t = "forget"           -> {"memory" :> [ours |-> "no"]}
      [] t = "add_page"         -> {"page" :> [category |-> "b", tags |-> "b"]}
                                    \cup {"page" :> change : change \in
                                              {c \in {[tags |-> "a"], [tags |-> "b"]} : Here(r, "page")}}
      [] t = "update_page"      -> {"page" :> [category |-> "b"]}
      [] t = "reclassify"       -> {"page" :> [category |-> g, tags |-> "b"] : g \in {"a", "b"}}
      [] t = "delete_page"      -> {"page" :> Gone}

Tool == {"save_category", "delete_category", "create_location", "update_location", "delete_location",
         "create_item", "update_item", "retire_item", "restore_item", "add_skus", "ship", "correct_count",
         "reserve", "release", "create_deal", "update_deal", "create_quote", "update_profile",
         "update_preferences", "change_settings", "set_schedule", "remember", "forget", "add_page",
         "update_page", "reclassify", "delete_page"}

Plan(t, r, v, want) ==
    CASE t = "save_category"    -> PlanCategory(r, want)
      [] t = "delete_category"  -> PlanDeleteCategory(r)
      [] t = "create_location"  -> PlanNewLocation(r, want)
      [] t = "update_location"  -> PlanLocationUpdate(r, want)
      [] t = "delete_location"  -> PlanLocationDelete(r)
      [] t = "create_item"      -> PlanNewItem(r, want)
      [] t = "update_item"      -> PlanUpdate(r, want)
      [] t = "retire_item"      -> PlanRetire(r)
      [] t = "restore_item"     -> PlanRestore(r, want)
      [] t = "add_skus"         -> PlanSkus(r, want)
      [] t = "ship"             -> PlanMovement(r, want)
      [] t = "correct_count"    -> PlanCorrection(r, want)
      [] t = "reserve"          -> ReserveStock(want)
      [] t = "release"          -> ReleaseStock(r)
      [] t = "create_deal"      -> CreateDeal(want)
      [] t = "update_deal"      -> PlanDealUpdate(r, v, want)
      [] t = "create_quote"     -> PlanQuote(r)
      [] t = "update_profile"   -> PlanProfileUpdate(r, want)
      [] t = "update_preferences" -> PlanPreferences(r, want)
      [] t = "change_settings"  -> PlanSettings(r, want)
      [] t = "set_schedule"     -> PlanSchedule(r, want)
      [] t = "remember"         -> Remember(r, v)
      [] t = "forget"           -> Forget(r, v)
      [] t = "add_page"         -> PlanPage(r, want)
      [] t = "update_page"      -> PlanClassification(r, want)
      [] t = "reclassify"       -> Reclassify(r, want)
      [] t = "delete_page"      -> PlanDeletePage(r)

\* The requests of an undo, one for each phase, from the records as the phase finds them.
Phases(t) == IF t \in {"update_item", "retire_item", "restore_item"} THEN 2 ELSE IF t = "create_quote" THEN 4 ELSE 1

Undo(t, r, v, c, phase) ==
    CASE t \in {"save_category", "delete_category"} -> {UndoCategory(r, c)}
      [] t = "create_location"  -> {RemoveNewLocation(r)}
      [] t = "update_location"  -> {RestoreLocation(c)}
      [] t = "delete_location"  -> {AddLocationBack(r, c)}
      [] t = "create_item"      -> {RetireProduct}
      [] t = "update_item"      -> {RestoreValues(r, c, phase)}
      [] t = "retire_item"      -> {Unretire(r, c, phase)}
      [] t = "restore_item"     -> {RetireAgain(r, c, phase)}
      [] t = "add_skus"         -> {RetireAdded(r)}
      [] t = "ship"             -> {ShipBack(r)}
      [] t = "correct_count"    -> {RestoreCount(c)}
      [] t = "reserve"          -> {ReleaseReservation(r)}
      [] t = "create_deal"      -> {DeleteCreated(r, v, c)}
      [] t = "update_deal"      -> {RestoreDeal(r, v, c)}
      [] t = "create_quote"     -> {UndoQuote(r, v, c, phase)}
      [] t = "update_profile"   -> {RestoreProfile(r, c)}
      [] t = "update_preferences" -> {RestorePreferences(r, c)}
      [] t = "change_settings"  -> {RestoreSettings(r, c)}
      [] t = "set_schedule"     -> {RestoreSchedule(r, c)}
      [] t = "add_page"         -> {DeleteAddedPage(r)}
      [] t = "update_page"      -> {RestoreClassification(r, c, DOMAIN Changes(c.saw, c.want, "page"))}
      [] t = "reclassify"       -> {RestoreClassification(r, c, {"category", "tags"})}
      [] t = "delete_page"      -> {AddPageBack(c, tags) : tags \in {"a", "b"}}

Irreversible == {"release", "remember", "forget"}

\* No undo for a page that was only refreshed, or a classification that stayed as it was.
HasUndo(c) ==
    /\ c.tool \notin Irreversible
    /\ c.tool = "add_page" => ~Here(c.saw, "page")
    /\ c.tool = "reclassify" => Changes(c.saw, c.want, "page") # Gone
    /\ c.note # "nothing"

-----------------------------------------------------------------------------
(* The call: its plan *)

NoCall(t) == [tool |-> t, pc |-> "asked", want |-> Gone, saw |-> Gone, todo |-> <<>>, did |-> 0,
              tries |-> 1, phase |-> 1, answer |-> "none", note |-> "none"]

Answered(c, a) == [c EXCEPT !.pc = "answered", !.answer = a, !.todo = <<>>]

\* The plan is made from what the tool reads, in the preview and again once it is approved.
Plans(want) ==
    LET todo == Plan(call.tool, rows, version, want)
        made == [call EXCEPT !.want = want, !.saw = rows, !.todo = todo, !.pc = "sending"]
    IN  /\ call' = IF todo = Refused THEN Answered(made, "REFUSED")
                   ELSE IF todo = <<Nothing>> THEN Answered(made, "DONE") ELSE made
        /\ touched' = {}
        /\ stale' = {}
        /\ UNCHANGED <<rows, version, edits, faults>>

Starts ==
    /\ call.pc = "asked"
    /\ \E want \in Wants(call.tool, rows) : Plans(want)

\* Someone else saved the record first: it is read again and the change applied to their version.
PlansAgain == call.pc = "again" /\ Plans(call.want)

-----------------------------------------------------------------------------
(* The call: its requests *)

Head1 == Head(call.todo)
Sent == [call EXCEPT !.todo = Tail(@), !.did = @ + 1]

\* The entry in the deal is made from the deal as it is when its turn comes.
PreparesLink ==
    /\ call.pc = "sending" /\ call.todo # <<>> /\ Head1.op = "link quote"
    /\ call' = IF LinkQuote(rows, version) = Kept
               THEN [Answered(call, "DONE") EXCEPT !.note = "unlinked"]
               ELSE [call EXCEPT !.todo = <<LinkQuote(rows, version)>>]
    /\ stale' = {}
    /\ UNCHANGED <<rows, version, edits, touched, faults>>

Takes(q) ==
    /\ Accepts(rows, version, q)
    /\ rows' = After(rows, q)
    /\ version' = VersionAfter(version, q)

Sends ==
    /\ call.pc = "sending" /\ call.todo # <<>> /\ Head1.op # "link quote"
    /\ Takes(Head1)
    /\ call' = IF Len(call.todo) = 1 THEN Answered(Sent, "DONE") ELSE Sent
    /\ UNCHANGED <<edits, touched, stale, faults>>

\* Mutant: a failed call leaves what it did.
NoCleanup(c) == <<>>

\* What undoes the first requests of a call when a later one fails.
Cleanup(c) ==
    CASE c.tool = "create_item"  -> <<RetireProduct>>
      [] c.tool = "update_item"  -> <<RevertChanges(c)>>
      [] c.tool = "restore_item" -> <<Request("upsert product", "item" :> Retiring)>>
      [] c.tool = "add_skus"     -> <<SetSizes("S")>>
      [] c.tool = "create_quote" -> Release(IF c.did = 1 THEN <<"hold">> ELSE <<"hold", "hold2">>)
      [] OTHER                   -> <<>>

\* Handlers that say so when they cannot tell what became of a later request. A quote says
\* so and cleans up, two handlers of the catalog answer FAILED in any case.
LeavesOpen(c) == c.tool \in {"restore_item", "add_skus"}
TellsApart(c) == c.did = 0 \/ c.tool \in {"restore_item", "add_skus", "create_quote"}

\* A request was refused, was not sent or got no answer.
Fails(why) ==
    LET unknown == why = "lost" /\ TellsApart(call)
        verdict == IF unknown THEN "UNKNOWN" ELSE "FAILED"
        note == IF why = "lost" /\ ~unknown THEN "unsure" ELSE call.note
    IN  call' =
        IF Head1.op = "put deal" /\ call.tool = "create_quote"
        THEN IF why = "conflict" /\ call.tries < ConflictRetries
             THEN [call EXCEPT !.todo = <<Linking>>, !.tries = @ + 1]
             ELSE [Answered(call, "DONE") EXCEPT !.note = IF why = "lost" THEN "astray" ELSE "unlinked"]
        ELSE IF why = "conflict" /\ Head1.op # "correct count" /\ call.tries < ConflictRetries
        THEN [call EXCEPT !.pc = "again", !.tries = @ + 1]
        ELSE IF why = "missing" /\ Head1.op = "delete page"
        THEN [Answered(call, "DONE") EXCEPT !.note = "nothing"]
        ELSE IF call.did = 0 \/ (unknown /\ LeavesOpen(call)) \/ Cleanup(call) = <<>>
        THEN [Answered(call, verdict) EXCEPT !.note = note]
        ELSE [call EXCEPT !.pc = "cleaning", !.todo = Cleanup(call), !.answer = verdict, !.note = note]

\* "409" for a record at another version, "404" or "400" for one that is gone or in use.
Refusal(q) ==
    IF q.op \in {"put deal", "store memory", "correct count"} /\ (q.op = "put deal" => Here(rows, "deal"))
    THEN "conflict" ELSE "missing"

IsRefused ==
    /\ call.pc = "sending" /\ call.todo # <<>> /\ Head1.op # "link quote"
    /\ ~Accepts(rows, version, Head1)
    /\ Fails(Refusal(Head1))
    /\ UNCHANGED <<rows, version, edits, touched, stale, faults>>

Faulty == faults < MaxFaults /\ faults' = faults + 1

\* The service cannot be reached or says 5xx, or the reservation finds too little stock.
IsNotServed ==
    /\ call.pc = "sending" /\ call.todo # <<>> /\ Head1.op # "link quote"
    /\ Faulty
    /\ Fails("down")
    /\ UNCHANGED <<rows, version, edits, touched, stale>>

\* "no answer after sending means it may have happened"
GetsNoAnswer ==
    /\ call.pc = "sending" /\ call.todo # <<>> /\ Head1.op # "link quote"
    /\ Faulty
    /\ Takes(Head1) \/ UNCHANGED <<rows, version>>
    /\ Fails("lost")
    /\ UNCHANGED <<edits, touched, stale>>

Cleaned(c) == IF Len(c.todo) = 1 THEN Answered(c, c.answer) ELSE [c EXCEPT !.todo = Tail(@)]

Cleans ==
    /\ call.pc = "cleaning"
    /\ Takes(Head1)
    /\ call' = Cleaned(call)
    /\ UNCHANGED <<edits, touched, stale, faults>>

\* "also failed": what the first requests did is left behind.
CleanupFails ==
    /\ call.pc = "cleaning"
    /\ IF Accepts(rows, version, Head1) THEN Faulty ELSE UNCHANGED faults
    /\ Takes(Head1) \/ UNCHANGED <<rows, version>>
    /\ call' = [Cleaned(call) EXCEPT !.note = "left"]
    /\ UNCHANGED <<edits, touched, stale>>

-----------------------------------------------------------------------------
(* Its undo *)

AsksUndo ==
    /\ \/ call.pc = "answered" /\ call.answer = "DONE" /\ HasUndo(call)
       \/ call.pc = "undone" /\ call.answer = "UNDO FAILED"
    /\ call' = [call EXCEPT !.pc = "reading", !.phase = 1, !.tries = 1]
    /\ UNCHANGED <<rows, version, edits, touched, stale, faults>>

Undone(c, a) == [c EXCEPT !.pc = "undone", !.answer = a, !.todo = <<>>]
NextPhase(c) ==
    IF c.phase = Phases(c.tool) THEN Undone(c, "BACK") ELSE [c EXCEPT !.pc = "reading", !.phase = @ + 1, !.todo = <<>>]

UndoReads ==
    /\ call.pc = "reading"
    /\ \E q \in Undo(call.tool, rows, version, call, call.phase) :
        call' = CASE q = Nothing -> NextPhase(call)
                  [] q = Kept    -> Undone(call, "KEPT")
                  [] OTHER       -> [call EXCEPT !.pc = "undoing", !.todo = <<q>>]
    /\ stale' = {}
    /\ UNCHANGED <<rows, version, edits, touched, faults>>

UndoSends ==
    /\ call.pc = "undoing"
    /\ Takes(Head1)
    /\ call' = NextPhase(call)
    /\ UNCHANGED <<edits, touched, stale, faults>>

\* A deal that was changed meanwhile is read again, a count that was set back already is
\* let be, a record that is gone or in use is kept.
UndoIsRefused ==
    /\ call.pc = "undoing"
    /\ ~Accepts(rows, version, Head1)
    /\ call' = CASE Head1.op \in {"put deal", "delete deal"} ->
                        IF call.tries < ConflictRetries THEN [call EXCEPT !.pc = "reading", !.tries = @ + 1, !.todo = <<>>]
                                                        ELSE Undone(call, "UNDO FAILED")
                 [] Head1.op = "correct count" /\ rows["count"] = call.saw["count"] -> Undone(call, "BACK")
                 [] Head1.op \in {"release", "delete page"} -> NextPhase(call)
                 [] OTHER -> Undone(call, "KEPT")
    /\ UNCHANGED <<rows, version, edits, touched, stale, faults>>

UndoFails ==
    /\ call.pc = "undoing"
    /\ Faulty
    /\ Takes(Head1) \/ UNCHANGED <<rows, version>>
    /\ call' = Undone(call, "UNDO FAILED")
    /\ UNCHANGED <<edits, touched, stale>>

-----------------------------------------------------------------------------
(* Other people *)

(* What the pages of the app, other reps and other runs may do to a record *)
(* meanwhile. The pages of the catalog send a SKU whole.                   *)
OnCategoryPage == {Request("upsert category", "category" :> [label |-> l]) : l \in {"a", "b"}} \cup {RemoveCategory}

OnProductPage ==
    {Request("upsert product", "item" :> change) : change \in
        {[text |-> "a"], [text |-> "b"], [category |-> "none"], [category |-> "category"], [status |-> "ACTIVE"]}}
    \cup {RetireProduct}
OnOptionsPage == {SetSizes("S and L")}
OnVariantsPage(r) ==
    {Request("upsert variants", VariantPayload(r, k, [price |-> p])) : k \in HereSkus(r), p \in {"a", "b"}}

OnLocationPage == {Request("update location", "place" :> [details |-> d]) : d \in {"a", "b"}} \cup {RemoveLocation}
OnMovementPage == {Request("receive", "goods" :> [at |-> "place"])}
OnStockPage(r) == {Expecting("correct count", "count" :> [units |-> u], r["count"].units) : u \in {"a", "b", "c"}}
OnHoldPage == {Request("release", "hold" :> Gone)}

OnDealPage(r, v) ==
    {PutDeal(r, v, change) : change \in {[stage |-> "a"], [stage |-> "b"], [stage |-> "c"], [amount |-> "a"], [amount |-> "b"]}}
    \cup {Expecting("delete deal", "deal" :> Gone, v)}
OnProfilePage == {Request("save profile", "profile" :> change) : change \in {[role |-> "a"], [role |-> "c"], [region |-> "b"]}}
OnPreferencesPage == {Request("save preferences", "preferences" :> [timezone |-> z]) : z \in {"a", "b", "c"}}

OnSettingsPage(r) ==
    {FullConfig(r, change) : change \in {[limit |-> "a"], [limit |-> "c"], [window |-> "b"]}}
OnSchedulePage == {Request("set schedule", "schedule" :> [every |-> e]) : e \in {"off", "hour", "day"}}
ByAnotherRun(r, v) == {StoreMemory(r, v, [theirs |-> "yes"])}
OnVaultPage ==
    {Request("classify page", "page" :> change) : change \in {[category |-> "a"], [category |-> "b"], [tags |-> "b"]}}
    \cup {Request("delete page", "page" :> Gone)}

OthersRequests(r, v) ==
    OnCategoryPage \cup OnProductPage \cup OnOptionsPage \cup OnVariantsPage(r)
    \cup OnLocationPage \cup OnMovementPage \cup OnStockPage(r) \cup OnHoldPage
    \cup OnDealPage(r, v) \cup OnProfilePage \cup OnPreferencesPage
    \cup OnSettingsPage(r) \cup OnSchedulePage \cup ByAnotherRun(r, v) \cup OnVaultPage

\* The records a tool has to do with, which are there in the model of it.
About(t) ==
    CASE t \in {"save_category", "delete_category", "create_item", "update_item", "retire_item", "restore_item",
                "add_skus"} -> {"category", "item"} \cup Skus
      [] t \in {"create_location", "update_location", "delete_location"} -> {"place", "goods"}
      [] t = "ship" -> {"goods", "return"}
      [] t = "correct_count" -> {"count"}
      [] t \in {"reserve", "release"} -> {"hold"}
      [] t \in {"create_deal", "update_deal"} -> {"deal"}
      [] t = "create_quote" -> {"deal", "hold", "hold2", "file"}
      [] t = "update_profile" -> {"profile"}
      [] t = "update_preferences" -> {"preferences"}
      [] t = "change_settings" -> {"settings"}
      [] t = "set_schedule" -> {"schedule"}
      [] t \in {"remember", "forget"} -> {"memory"}
      [] OTHER -> {"page"}

Others ==
    /\ edits < MaxEdits
    /\ call.pc \notin {"asked", "undone"}
    /\ \E q \in OthersRequests(rows, version) :
        /\ DOMAIN q.change \subseteq About(call.tool)
        /\ Takes(q)
        /\ rows' # rows
    /\ edits' = edits + 1
    /\ LET changed == {th \in Thing : rows'[th] # rows[th]} IN
        /\ touched' = touched \cup changed
        /\ stale' = stale \cup changed
    /\ UNCHANGED <<call, faults>>

-----------------------------------------------------------------------------
(* Specification *)

Standard ==
    [category |-> [label |-> "a"],
     item |-> NewItem,
     small |-> Active,
     large |-> Gone,
     place |-> [details |-> "a"],
     goods |-> [at |-> "place"],
     return |-> Gone,
     count |-> [units |-> "a"],
     hold |-> [sku |-> "small"],
     hold2 |-> Gone,
     file |-> Gone,
     deal |-> NewDeal,
     profile |-> [role |-> "a", region |-> "a"],
     preferences |-> [timezone |-> "a"],
     settings |-> [limit |-> "a", window |-> "a"],
     schedule |-> [every |-> "hour"],
     memory |-> [ours |-> "no", theirs |-> "no"],
     page |-> [category |-> "a", tags |-> "a"]]

\* The records a call of a tool may find.
Found(t) ==
    CASE t = "save_category" -> {Standard, [Standard EXCEPT !["category"] = Gone, !["item"].category = "none"]}
      [] t = "delete_category" -> {[Standard EXCEPT !["item"].category = "none"]}
      [] t = "create_location" -> {[Standard EXCEPT !["place"] = Gone, !["goods"] = Gone]}
      [] t \in {"update_location", "delete_location"} -> {[Standard EXCEPT !["goods"] = Gone]}
      [] t = "create_item" -> {[Standard EXCEPT !["item"] = Gone, !["small"] = Gone]}
      [] t = "update_item" -> {Standard, [Standard EXCEPT !["item"].status = "RETIRED", !["small"].status = "RETIRED"]}
      [] t = "retire_item" -> {[Standard EXCEPT !["item"].status = s, !["item"].sizes = "S and L",
                                  !["large"] = [LargeSku EXCEPT !.status = k]] :
                                    s \in {"ACTIVE", "DRAFT"}, k \in {"ACTIVE", "RETIRED"}}
      [] t = "restore_item" -> {[Standard EXCEPT !["item"].status = "RETIRED", !["small"].status = "RETIRED"]}
      [] t = "reserve" -> {[Standard EXCEPT !["hold"] = Gone]}
      [] t = "create_deal" -> {[Standard EXCEPT !["deal"] = Gone]}
      [] t = "create_quote" -> {[Standard EXCEPT !["hold"] = Gone, !["item"].sizes = "S and L",
                                  !["large"] = [LargeSku EXCEPT !.status = k]] : k \in {"ACTIVE", "RETIRED"}}
      [] t = "update_preferences" -> {Standard, [Standard EXCEPT !["preferences"].timezone = "unset"]}
      [] t = "forget" -> {[Standard EXCEPT !["memory"].ours = "yes"]}
      [] t = "add_page" -> {Standard, [Standard EXCEPT !["page"] = Gone]}
      [] OTHER -> {Standard}

Init ==
    /\ \E t \in Tool : call = NoCall(t) /\ rows \in Found(t)
    /\ version = 1
    /\ edits = 0
    /\ touched = {}
    /\ stale = {}
    /\ faults = 0

Acts ==
    \/ Starts \/ PlansAgain \/ PreparesLink
    \/ Sends \/ IsRefused \/ IsNotServed \/ GetsNoAnswer \/ Cleans \/ CleanupFails
    \/ AsksUndo \/ UndoReads \/ UndoSends \/ UndoIsRefused \/ UndoFails

Next == Acts \/ Others

Spec == Init /\ [][Next]_vars

-----------------------------------------------------------------------------
(* Properties *)

(* Every record has all the fields of its kind, with values they may have, *)
(* or is not there.                                                        *)
TypeOK ==
    /\ \A th \in Thing : Here(rows, th) =>
        /\ DOMAIN rows[th] = DOMAIN Fields[th]
        /\ \A f \in DOMAIN rows[th] : rows[th][f] \in Fields[th][f]
    /\ version \in Nat \ {0}
    /\ call.tool \in Tool
    /\ call.pc \in {"asked", "sending", "again", "cleaning", "answered", "reading", "undoing", "undone"}
    /\ call.answer \in {"none", "REFUSED", "DONE", "FAILED", "UNKNOWN", "BACK", "KEPT", "UNDO FAILED"}
    /\ edits \in 0 .. MaxEdits /\ faults \in 0 .. MaxFaults
    /\ touched \subseteq Thing /\ stale \subseteq Thing

\* What the call set out to make of a record, and what its undo promises.
Intended(c, th) ==
    IF th \notin DOMAIN c.want \/ (th = "deal" /\ c.note = "unlinked") THEN c.saw[th]
    ELSE IF c.want[th] = Gone THEN Gone ELSE Merged(c.saw[th], c.want[th])

(* An item and a SKU can only be retired again; a shipment that was sent   *)
(* back leaves the reference of the return.                                *)
Before(c, th) ==
    IF c.tool = "create_item" /\ th \in {"item", "small"} THEN Merged(c.want[th], Retiring)
    ELSE IF c.tool = "add_skus" /\ th = "large" THEN Merged(c.want[th], Retiring)
    ELSE IF c.tool = "add_skus" /\ th = "item" THEN Intended(c, th)
    ELSE IF th = "return" THEN [reference |-> "undo"]
    ELSE c.saw[th]

Astray(c, th) == c.note = "astray" /\ th = "deal"

(* What nobody puts back: the tags of a page that is fetched again, a      *)
(* preference that was not set, and the entry in a deal that was made      *)
(* without an answer, which the quote calls not linked.                    *)
Lost(c, th) ==
    \/ c.tool = "delete_page" /\ th = "page"
    \/ c.tool = "update_preferences" /\ th = "preferences" /\ c.saw[th].timezone = "unset"
    \/ Astray(c, th)

AfterFailure(c, th) ==
    IF c.tool = "create_item" /\ th = "item" /\ Here(rows, th) THEN Merged(c.want[th], Retiring) ELSE c.saw[th]

(* What the agent tells the rep is so, for every record nobody else has    *)
(* changed meanwhile: DONE means all of the approved change is there,      *)
(* FAILED and REFUSED that nothing of it is, unless the answer says a      *)
(* cleanup failed too, and an undo that worked that everything is as it    *)
(* was before, whichever requests of it were repeated. The handlers that   *)
(* answer FAILED for a request without an answer are excepted.             *)
AnswersTrue ==
    \A th \in About(call.tool) \ touched :
        /\ call.pc = "answered" /\ call.answer = "DONE" /\ call.note # "nothing" /\ ~Astray(call, th) =>
               rows[th] = Intended(call, th)
        /\ call.pc = "answered" /\ call.answer \in {"REFUSED", "FAILED"} /\ call.note = "none" =>
               rows[th] = AfterFailure(call, th)
        /\ call.pc = "undone" /\ call.answer = "BACK" /\ ~Lost(call, th) => rows[th] = Before(call, th)

(* Tools that compare before they undo. The catalog's and the vault's undo *)
(* handlers do not: they put back what was there before, over what others  *)
(* have saved since.                                                       *)
Comparing == {"correct_count", "create_deal", "update_deal", "update_profile",
              "update_preferences", "change_settings", "set_schedule", "create_quote"}

(* The agent takes back only its own work: a step of an undo that compares *)
(* changes no field but those that still hold what the call put there, so  *)
(* a later change of a colleague stays. A deal is saved against its        *)
(* version, so neither the update nor the undo of one loses a change made  *)
(* between reading and saving; elsewhere that moment is excepted.          *)
KeepsOthersWork ==
    \A th \in Thing : edits' = edits /\ rows'[th] # rows[th] =>
        /\ call.pc = "undoing" /\ call.tool \in Comparing /\ (th = "deal" \/ th \notin stale) =>
               \A f \in DOMAIN rows[th] :
                   (rows'[th] = Gone \/ rows'[th][f] # rows[th][f]) => rows[th][f] = Intended(call, th)[f]
        /\ call.pc = "sending" /\ th \in {"deal", "memory"} /\ call.tool # "create_deal" =>
               \A f \in DOMAIN rows[th] : f \in DOMAIN call.want[th] \/ rows'[th][f] = rows[th][f]
=============================================================================
