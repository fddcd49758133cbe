------------------------- MODULE MCWorkspaceRecords -------------------------
(***************************************************************************)
(* WorkspaceRecords with every write tool, eight files to import, three    *)
(* requests to the skills and three records of a session.                   *)
(***************************************************************************)
EXTENDS WorkspaceRecords

CONSTANTS w1, w2

Line(product, category, sku, price, value, count) ==
    [product |-> product, category |-> category, sku |-> sku, price |-> price, value |-> value, count |-> count]

None == "none"
NoCount == 9

(* A new value of an option, one for a SKU that is there, a SKU without    *)
(* its value, one SKU in two lines, a new product beside a count that may  *)
(* be corrected, a SKU in two products, categories that disagree, and a    *)
(* count of zero at a location that others may delete.                     *)
MCFiles ==
    {<<Line("tee", "old", "s", "b", "S", 2)>>,
     <<Line("tee", "old", "m", "b", "M", 1)>>,
     <<Line("tee", "old", "s", "b", None, NoCount), Line("tee", "old", "m", "b", "M", 1)>>,
     <<Line("mug", "new", "x", "b", None, 2), Line("mug", "new", "x", "b", None, NoCount)>>,
     <<Line("mug", "new", "x", "b", None, 1), Line("tee", "old", "s", "a", "S", 0)>>,
     <<Line("tee", "old", "s", "b", "S", 2), Line("mug", "old", "s", "b", None, 1)>>,
     <<Line("tee", "new", "m", "a", "M", 1), Line("tee", "new", "m", "b", "S", 1), Line("tee", "old", "s", "b", "S", NoCount)>>,
     <<Line("tee", "old", "s", "a", "S", 0), Line("mug", "old", "x", "b", None, NoCount)>>}
=============================================================================
