---------------------------- MODULE CatalogImport ----------------------------
(***************************************************************************)
(* A CSV import of the catalog: the file is checked against the catalog as *)
(* it is, then written product by product in steps that commit one by one, *)
(* while people work on the same products, a step fails or the process     *)
(* ends.  The job is kept in memory only.                                  *)
(* Sources: data-pipeline catalog/csv_importer.py, catalog/service.py and  *)
(* catalog/routes.py.                                                      *)
(***************************************************************************)
EXTENDS Naturals, Sequences, FiniteSetsExt

CONSTANTS
    Files,          \* the files that may be imported, each a sequence of rows
    ImportEdits,    \* bound: changes other people make during the import
    ImportFaults    \* bound: steps that fail, and ends of the process

(* A row names a product, a category and a SKU with its price, the value   *)
(* of its option or none, and a count for the one location or none.        *)
Product == {"tee", "mug"}
Sku == {"s", "m", "x"}
Value == {"S", "M"}
Category == {"old", "new"}
Price == {"a", "b"}
None == "none"
NoCount == 9
Count == 0 .. 2

Row == [product : Product, category : Category, sku : Sku, price : Price,
        value : Value \cup {None}, count : Count \cup {NoCount}]

VARIABLES
    cat,        \* the catalog, as committed
    job,        \* the import job, as the worker has it in memory
    faced,      \* what the file's products and SKUs were when the job was accepted
    meddled,    \* products, SKUs and counts that others changed since
    meddling,   \* how many changes others made
    mishaps     \* how many steps failed or processes ended

vars == <<cat, job, faced, meddled, meddling, mishaps>>

-----------------------------------------------------------------------------
(* The catalog *)

NoProduct == [status |-> None, category |-> None, text |-> None, values |-> {}]
NoSku == [of |-> None, status |-> None, price |-> None, value |-> None]

IsProduct(c, p) == c.products[p] # NoProduct
IsSku(c, k) == c.skus[k] # NoSku
SkusOf(c, p) == {k \in Sku : c.skus[k].of = p}

\* Deleting a location deletes the empty counts it had.
PlaceIsEmpty(c) == \A k \in Sku : c.counts[k] = [onHand |-> 0, reserved |-> 0]

-----------------------------------------------------------------------------
(* The file *)

\* validate_rows: what is wrong with a row beside the rows before it, and in the catalog.
\* The first row of a product or a SKU says what the later ones must agree with.
OfProduct(f, i) == {k \in 1 .. i - 1 : f[k].product = f[i].product}
OfSku(f, i) == {k \in 1 .. i - 1 : f[k].sku = f[i].sku}
First(S) == {k \in S : \A l \in S : k <= l}

ContradictsFile(f, i) ==
    \/ \E k \in First(OfProduct(f, i)) : f[k].category # f[i].category
    \/ \E k \in First(OfSku(f, i)) : f[k].product # f[i].product \/ f[k].price # f[i].price
    \/ \E k \in OfSku(f, i) :
          \/ {f[k].value, f[i].value} \subseteq Value /\ f[k].value # f[i].value
          \/ NoCount \notin {f[k].count, f[i].count}

ContradictsCatalog(c, j, f, i) ==
    \/ ~j.adds /\ f[i].category \notin c.categories
    \/ IsSku(c, f[i].sku) /\ c.skus[f[i].sku].of # f[i].product
    \/ c.place /\ f[i].count # NoCount /\ f[i].count < c.counts[f[i].sku].reserved

RowIsValid(c, j, f, i) == ~ContradictsFile(f, i) /\ ~ContradictsCatalog(c, j, f, i)

\* What rows of a file, given by their numbers, say together.
SkusIn(f, S) == {f[i].sku : i \in S}
ValuesIn(f, S) == {f[i].value : i \in S} \ {None}
CountsIn(f, S) == {i \in S : f[i].count # NoCount}
RowsOf(f, S, k) == {i \in S : f[i].sku = k}
PriceIn(f, S, k) == f[Min(RowsOf(f, S, k))].price
ValueIn(f, S, k) == IF ValuesIn(f, RowsOf(f, S, k)) = {} THEN None ELSE CHOOSE v \in ValuesIn(f, RowsOf(f, S, k)) : TRUE

\* group_rows_by_product: a product's rows, in the order in which the file names the products.
Rows(f, S, p) == {i \in S : f[i].product = p}
FirstGroup(f, S) == Rows(f, S, f[Min(S)].product)

-----------------------------------------------------------------------------
(* The job *)

\* skip: rows that are not valid are left out; adds: categories are created; corrects: the
\* importer is an admin, who may replace a count that is there.
NoJob == [status |-> None, file |-> <<>>, skip |-> FALSE, adds |-> FALSE, corrects |-> FALSE,
          todo |-> {}, step |-> None, left |-> {}, merged |-> {},
          created |-> 0, updated |-> 0, skipped |-> 0, errors |-> FALSE]

Steps == {None, "category", "product", "options", "set", "links", "variants", "place", "count"}

Ended(j, status) == [j EXCEPT !.status = status, !.todo = {}, !.step = None, !.left = {}]

\* todo are the rows still to be written, those of the product that is worked on first.
File == job.file
Group == FirstGroup(File, job.todo)
P == File[Min(job.todo)].product
At(step) == job.status = "PROCESSING" /\ job.step = step

NextGroup(j) ==
    IF j.todo = Group THEN Ended(j, "COMPLETED")
    ELSE [j EXCEPT !.todo = @ \ Group, !.step = "category", !.left = {}]

\* What a request may ask for: the file, and its two switches.
Requested(f, skip, adds) == [NoJob EXCEPT !.file = f, !.skip = skip, !.adds = adds]
Payload == {Requested(f, skip, adds) : f \in Files, skip \in BOOLEAN, adds \in BOOLEAN}

\* commit_import_job: the request is answered before anything is checked.
CommitImportJob ==
    /\ job = NoJob
    /\ \E j \in Payload, isAdmin \in BOOLEAN : job' = [j EXCEPT !.status = "PENDING", !.corrects = isAdmin]
    /\ UNCHANGED <<cat, faced, meddled, meddling, mishaps>>

\* The first part of _execute_import: nothing is written for a file with an invalid row,
\* unless such rows are to be skipped.
Validate ==
    /\ job.status = "PENDING"
    /\ LET valid == {i \in 1 .. Len(File) : RowIsValid(cat, job, File, i)}
           bad == Len(File) - Cardinality(valid)
           begun == [job EXCEPT !.status = "PROCESSING", !.skipped = bad, !.errors = bad > 0,
                                !.todo = valid, !.step = "category"]
       IN job' = IF bad > 0 /\ ~job.skip THEN [Ended(job, "FAILED") EXCEPT !.errors = TRUE]
                 ELSE IF valid = {} THEN Ended(begun, "COMPLETED") ELSE begun
    /\ faced' = cat
    /\ meddled' = {}
    /\ UNCHANGED <<cat, meddling, mishaps>>

\* Mutant: a product counts as one row that is skipped.
OneLeftOut == 1
LeftOut == Cardinality(Group)

\* A step that raises: its transaction is rolled back, what the steps before it committed
\* stays. The rest of the product is left out, or with it the rest of the file.
Raises ==
    /\ job' = IF job.skip
              THEN NextGroup([job EXCEPT !.skipped = @ + LeftOut, !.errors = TRUE])
              ELSE [Ended(job, "FAILED") EXCEPT !.errors = TRUE]
    /\ UNCHANGED <<cat, faced, meddled, meddling>>

Commits(c, step) ==
    /\ cat' = c
    /\ job' = [job EXCEPT !.step = step]
    /\ UNCHANGED <<faced, meddled, meddling, mishaps>>

TheCategory == File[Min(job.todo)].category
WithCategory(c, key) == [c EXCEPT !.categories = @ \cup {key}]

ImportCategory ==
    /\ At("category")
    /\ Commits(IF job.adds THEN WithCategory(cat, TheCategory) ELSE cat, "product")

TheValues == ValuesIn(File, Group)
TheSkus == SkusIn(File, Group)

\* The category must be there; the fields are set.
MayHaveProduct(c, category) == category \in c.categories
WithProduct(c, p, category) ==
    [c EXCEPT !.products[p].status = "ACTIVE", !.products[p].category = category, !.products[p].text = "file"]

\* The product is found by its name and made active; a text the file does not give is emptied.
ImportProduct ==
    /\ At("product")
    /\ IF ~MayHaveProduct(cat, TheCategory) THEN Raises /\ UNCHANGED mishaps
       ELSE Commits(WithProduct(cat, P, TheCategory), IF TheValues = {} THEN "variants" ELSE "options")

\* The options are set to those there are and those of the file. `left` keeps the SKUs the
\* file does not name, with their values.
\* Mutant: the file's options replace them.
FileOptions(c) == TheValues
MergedOptions(c) == c.products[P].values \cup TheValues

Unlinked(c, p, values) == [k \in Sku |->
    IF c.skus[k].of = p /\ c.skus[k].value \notin values THEN [c.skus[k] EXCEPT !.value = None] ELSE c.skus[k]]
WithOptions(c, p, values) == [c EXCEPT !.products[p].values = values, !.skus = Unlinked(c, p, values)]

\* What they are is read first, and what others add before they are set is taken out again.
ImportOptions ==
    /\ At("options")
    /\ IF TheValues \subseteq cat.products[P].values
       THEN Commits(cat, "variants")
       ELSE /\ job' = [job EXCEPT !.step = "set", !.merged = MergedOptions(cat),
                                  !.left = {<<k, cat.skus[k].value>> : k \in {q \in SkusOf(cat, P) \ TheSkus :
                                                                               cat.skus[q].value # None}}]
            /\ UNCHANGED <<cat, faced, meddled, meddling, mishaps>>

ImportOptionsSet ==
    /\ At("set")
    /\ Commits(WithOptions(cat, P, job.merged), "links")

\* Those SKUs are linked to the values they had, although set_options keeps the links of
\* values that stay: the database refuses a second link, and one to a value that is gone.
ImportLinks ==
    /\ At("links")
    /\ LET back == {l \in job.left : IsSku(cat, l[1])} IN
       IF \E l \in back : cat.skus[l[1]].value = l[2] \/ l[2] \notin cat.products[P].values
       THEN Raises /\ UNCHANGED mishaps
       ELSE Commits([cat EXCEPT !.skus = [k \in Sku |->
                        IF \E l \in back : l[1] = k THEN [@[k] EXCEPT !.value = (CHOOSE l \in back : l[1] = k)[2]]
                        ELSE @[k]]], "variants")

\* upsert_variants: every SKU of the group as the file has it, without a value if the file
\* gives none. A value that was taken out meanwhile is refused.
ImportVariants ==
    /\ At("variants")
    /\ LET ks == TheSkus
           new == {k \in ks : ~IsSku(cat, k)}
       IN  IF (\E k \in ks : IsSku(cat, k) /\ cat.skus[k].of # P) \/ ~(TheValues \subseteq cat.products[P].values)
           THEN Raises /\ UNCHANGED mishaps
           ELSE /\ cat' = [cat EXCEPT !.skus = [k \in Sku |->
                              IF k \in ks THEN [of |-> P, status |-> "ACTIVE", price |-> PriceIn(File, Group, k),
                                                value |-> ValueIn(File, Group, k)]
                              ELSE @[k]]]
                /\ job' = LET counted == [job EXCEPT !.created = @ + Cardinality(new),
                                                     !.updated = @ + Cardinality(ks \ new)]
                          IN  IF CountsIn(File, Group) = {} THEN NextGroup(counted)
                              ELSE [counted EXCEPT !.step = "place", !.left = CountsIn(File, Group)]
                /\ UNCHANGED <<faced, meddled, meddling, mishaps>>

ImportPlace ==
    /\ At("place")
    /\ Commits([cat EXCEPT !.place = TRUE], "count")

\* _set_count: the first count of a SKU is stock received, another one a correction.
MaySet(c, j, k, n) ==
    LET level == c.counts[k] IN
    \/ n = level.onHand
    \/ (level.onHand = 0 \/ j.corrects) /\ n >= level.reserved

ImportCount ==
    /\ At("count")
    /\ LET r == File[Min(job.left)] IN
       IF ~cat.place \/ ~MaySet(cat, job, r.sku, r.count) THEN Raises /\ UNCHANGED mishaps
       ELSE /\ cat' = [cat EXCEPT !.counts[r.sku].onHand = r.count]
            /\ job' = IF job.left = {Min(job.left)} THEN NextGroup(job) ELSE [job EXCEPT !.left = @ \ {Min(@)}]
            /\ UNCHANGED <<faced, meddled, meddling, mishaps>>

\* The database fails a step.
StepFails ==
    /\ job.status = "PROCESSING"
    /\ mishaps < ImportFaults
    /\ mishaps' = mishaps + 1
    /\ Raises

\* Jobs are in memory only: nobody goes on with one, and its status is "not found".
ProcessEnds ==
    /\ job.status \in {"PENDING", "PROCESSING"}
    /\ mishaps < ImportFaults
    /\ mishaps' = mishaps + 1
    /\ job' = Ended(job, "LOST")
    /\ UNCHANGED <<cat, faced, meddled, meddling>>

-----------------------------------------------------------------------------
(* Other people, through the pages of the catalog *)

Products(c) == {p \in Product : IsProduct(c, p)}
InStock(c) == {k \in Sku : c.counts[k].onHand > c.counts[k].reserved}

\* A product that is deleted is retired with its SKUs.
DeleteProduct(c) ==
    {[c EXCEPT !.products[p].status = "RETIRED",
               !.skus = [k \in Sku |-> IF c.skus[k].of = p THEN [@[k] EXCEPT !.status = "RETIRED"] ELSE @[k]]] :
        p \in Products(c)}
SetOptions(c) == {WithOptions(c, p, vs) : p \in Products(c), vs \in SUBSET Value}
UpsertVariants(c) ==
    {[c EXCEPT !.skus[k].price = "a"] : k \in {q \in Sku : IsSku(c, q)}}
    \cup {[c EXCEPT !.skus["x"] = [of |-> p, status |-> "ACTIVE", price |-> "a", value |-> None]] :
            p \in {q \in Products(c) : ~IsSku(c, "x")}}
\* A category that no product names, a location that holds nothing.
DeleteCategory(c) ==
    {[c EXCEPT !.categories = @ \ {g}] : g \in {q \in c.categories : \A p \in Product : c.products[p].category # q}}
DeleteLocation(c) == {[d EXCEPT !.place = FALSE] : d \in {e \in {c} : PlaceIsEmpty(e)}}
AdjustStock(c) == {[c EXCEPT !.counts[k].onHand = @ - 1] : k \in InStock(c)}
ReserveStock(c) == {[c EXCEPT !.counts[k].reserved = @ + 1] : k \in InStock(c)}

Pages(c) ==
    DeleteProduct(c) \cup SetOptions(c) \cup UpsertVariants(c) \cup DeleteCategory(c) \cup DeleteLocation(c)
    \cup AdjustStock(c) \cup ReserveStock(c)

Meddles ==
    /\ job.status \in {"PENDING", "PROCESSING"}
    /\ meddling < ImportEdits
    /\ \E c \in Pages(cat) :
        /\ c # cat
        /\ cat' = c
        /\ meddled' = meddled \cup {<<"product", p>> : p \in {q \in Product : c.products[q] # cat.products[q]}}
                              \cup {<<"sku", k>> : k \in {q \in Sku : c.skus[q] # cat.skus[q]}}
                              \cup {<<"count", k>> : k \in {q \in Sku : c.counts[q] # cat.counts[q]}}
    /\ meddling' = meddling + 1
    /\ UNCHANGED <<job, faced, mishaps>>

-----------------------------------------------------------------------------
(* Specification *)

\* The mug is retired, the tee has a small and stock of it, some of it reserved.
Catalog ==
    [categories |-> {"old"},
     products |-> [p \in Product |->
        IF p = "tee" THEN [status |-> "ACTIVE", category |-> "old", text |-> "page", values |-> {"S"}]
        ELSE [status |-> "RETIRED", category |-> "old", text |-> "page", values |-> {}]],
     skus |-> [k \in Sku |-> IF k = "s" THEN [of |-> "tee", status |-> "ACTIVE", price |-> "a", value |-> "S"] ELSE NoSku],
     place |-> TRUE,
     counts |-> [k \in Sku |-> [onHand |-> IF k = "s" THEN 2 ELSE 0, reserved |-> IF k = "s" THEN 1 ELSE 0]]]

Nowhere ==
    [categories |-> {}, products |-> [p \in Product |-> NoProduct], skus |-> [k \in Sku |-> NoSku],
     place |-> FALSE, counts |-> [k \in Sku |-> [onHand |-> 0, reserved |-> 0]]]

Init ==
    /\ cat \in {Catalog, Nowhere}
    /\ job = NoJob
    /\ faced = cat
    /\ meddled = {}
    /\ meddling = 0
    /\ mishaps = 0

Works ==
    \/ CommitImportJob \/ Validate
    \/ ImportCategory \/ ImportProduct \/ ImportOptions \/ ImportOptionsSet \/ ImportLinks \/ ImportVariants \/ ImportPlace \/ ImportCount
    \/ StepFails

Next == Works \/ ProcessEnds \/ Meddles

Spec == Init /\ [][Next]_vars

-----------------------------------------------------------------------------
(* Properties *)

ImportTyped ==
    /\ cat.categories \subseteq Category
    /\ \A p \in Product : cat.products[p].status \in {None, "ACTIVE", "RETIRED"} /\ cat.products[p].values \subseteq Value
    /\ \A k \in Sku : IsSku(cat, k) => cat.skus[k].of \in Product /\ cat.skus[k].price \in Price
    /\ \A k \in Sku : cat.counts[k].onHand \in Count /\ cat.counts[k].reserved \in Count
    /\ job.status \in {None, "PENDING", "PROCESSING", "COMPLETED", "FAILED", "LOST"}
    /\ job.step \in Steps

\* What a row says of its SKU, its count and its product is so, but for what others changed.
SkuGiven(r) ==
    <<"sku", r.sku>> \notin meddled => cat.skus[r.sku] =
        [of |-> r.product, status |-> "ACTIVE", price |-> r.price, value |-> ValueIn(File, 1 .. Len(File), r.sku)]
CountGiven(r) ==
    r.count # NoCount /\ <<"count", r.sku>> \notin meddled =>
        cat.counts[r.sku].onHand = r.count /\ (r.count > 0 => cat.place)
ProductGiven(r) == <<"product", r.product>> \notin meddled => cat.products[r.product].status = "ACTIVE"
Given(r) == SkuGiven(r) /\ CountGiven(r) /\ ProductGiven(r)

Changed == {k \in Sku : <<"sku", k>> \notin meddled /\ cat.skus[k] # faced.skus[k]}
Filled == {k \in Sku : <<"count", k>> \notin meddled /\ cat.counts[k] # faced.counts[k]}

(* What the job reports is so: COMPLETED without an error means that every *)
(* row of the file is in the catalog, but for what others changed since;   *)
(* no SKU is left out silently; and however the job ended, no more SKUs or *)
(* counts were changed than it has counted as created or updated.          *)
ReportsTrue ==
    /\ job.status = "COMPLETED" /\ ~job.errors => \A i \in 1 .. Len(File) : Given(File[i])
    /\ job.status = "COMPLETED" =>
           Cardinality(SkusIn(File, 1 .. Len(File))) <= job.created + job.updated + job.skipped
    /\ Cardinality(Changed \cup Filled) <= job.created + job.updated

(* An import keeps its hands off what the file does not name: SKUs of the  *)
(* same product keep their option values, a count that is there is only    *)
(* replaced by an admin and never below what is reserved, and no SKU is    *)
(* taken from another product.                                             *)
NothingElseTouched ==
    meddling' = meddling /\ cat' # cat =>
        /\ \A k \in Sku : cat'.skus[k] # cat.skus[k] =>
              /\ <<"sku", k>> \in meddled \/ k \in SkusIn(File, 1 .. Len(File))
              /\ cat.skus[k].of \in {None, cat'.skus[k].of}
        /\ \A k \in Sku : cat'.counts[k] # cat.counts[k] =>
              (job.corrects \/ cat.counts[k].onHand = 0) /\ cat'.counts[k].onHand >= cat.counts[k].reserved
=============================================================================
