----------------------------- MODULE VaultStores -----------------------------
(***************************************************************************)
(* What the data pipeline keeps about the documents of a knowledge vault:  *)
(* the registry row the user sees (Mongo), the staged bytes of the file,   *)
(* its parsed text, the chunks in the vector index, the fingerprints that  *)
(* let unchanged chunks be skipped, the lineage and the gatekeeper's hold  *)
(* (Postgres), and the queue of ingestion jobs; with the operations every  *)
(* path uses.  A content is a version; its text, its bytes and its chunks  *)
(* are told apart by it alone.                                             *)
(* Sources: knowledge_vault_routes.py, raw_document_store.py,              *)
(* pipeline/{canonical_store,job_payloads,durable_queue}.py,               *)
(* module_2_memory_gatekeeper, module_3_batch_ingestion_vector.            *)
(***************************************************************************)
EXTENDS Integers, FiniteSets

CONSTANTS
    Doc,            \* document ids
    Version,        \* contents, positive numbers
    Stub,           \* the content a row's preview makes when nothing else is stored
    Chunks,         \* version -> its chunks, pairs of an index and a text
    MaxAttempts,    \* attempts of a job before it is dead
    MaxJobs         \* bound: jobs in the queue at a time

ASSUME VaultAssumption ==
    /\ Doc # {} /\ Version \subseteq Nat \ {0} /\ Stub \in Version
    /\ MaxAttempts \in Nat \ {0} /\ MaxJobs \in Nat

\* The chunks of a text are numbered: no index is used twice.
ASSUME ChunksAssumption == \A v \in Version : \A c, n \in Chunks[v] : c[1] = n[1] => c = n

VARIABLES
    row,        \* doc -> status of its registry row
    staged,     \* doc -> the content under its staging key
    text,       \* doc -> the content stored as its parsed text and original
    vectors,    \* doc -> its chunks in the index
    hashes,     \* doc -> the chunks whose fingerprints are committed
    lineage,    \* doc -> what the canonical store says
    hold,       \* doc -> the gatekeeper's hold
    jobs        \* number -> job of the ingestion queue

stores == <<row, staged, text, vectors, hashes, lineage, hold, jobs>>

Nothing == 0
Content == Version \cup {Nothing}
Chunk == UNION {Chunks[v] : v \in Version}
RowStatus == {"none", "Parsing", "Indexed", "Error", "Rejected"}
Lineage == {"none", "live", "DELETED"}
Hold == [status : {"none", "HELD", "RELEASED"}, replay : BOOLEAN, v : Content]
NoHold == [status |-> "none", replay |-> FALSE, v |-> Nothing]

(* A job's content is what its payload carries: the text of a synced item, *)
(* or, for a released hold, the content that was reviewed.                 *)
Job == [kind : {"ingest", "event", "embed", "delete"}, doc : Doc, v : Content,
        skip : BOOLEAN, tries : 0 .. MaxAttempts - 1, st : {"waiting", "dead"}]
NoJob == [st |-> "none"]
Number == 1 .. MaxJobs
NewJob(kind, d, v, skip) ==
    [kind |-> kind, doc |-> d, v |-> v, skip |-> skip, tries |-> 0, st |-> "waiting"]
FreeNumber == CHOOSE n \in Number : jobs[n] = NoJob /\ \A m \in 1 .. n - 1 : jobs[m] # NoJob
Enqueue(job) == jobs' = [jobs EXCEPT ![FreeNumber] = job]

Listed(d) == row[d] # "none"

(* A row is saved whole under its id, made again should it be gone.        *)
SaveRow(d, status) == row' = [row EXCEPT ![d] = status]
RemoveRow(d) == row' = [row EXCEPT ![d] = "none"]

(* The bytes of a file wait under the one key of their document; its text  *)
(* and original are stored under its id.                                   *)
StageBytes(d, v) == staged' = [staged EXCEPT ![d] = v]
SaveText(d, v) == text' = [text EXCEPT ![d] = v]

(* Chunks are stored by their index: a new text replaces the old one.  So  *)
(* are the fingerprints.  A durable store takes all of them or raises.     *)
Upserted(old, new) == {c \in old : \A n \in new : n[1] # c[1]} \cup new
StoreVectors(d, new) == vectors' = [vectors EXCEPT ![d] = Upserted(@, new)]
SetHashes(d, new) == hashes' = [hashes EXCEPT ![d] = Upserted(@, new)]

(* Statuses other than DELETED are not told apart; only a row of the       *)
(* lineage that exists can be marked, while an event makes one.            *)
Record(d) == lineage' = [lineage EXCEPT ![d] = "live"]
Mark(d, status) == lineage' = [lineage EXCEPT ![d] = IF @ = "none" THEN @ ELSE status]

(* Index and parents go first, the fingerprints after them.                *)
DropVectors(d) == vectors' = [vectors EXCEPT ![d] = {}]
\* Mutant: the fingerprints stay when the chunks are dropped.
KeepHashes(d) == hashes' = hashes
ClearHashes(d) == hashes' = [hashes EXCEPT ![d] = {}]

(* What the gatekeeper keeps out is held for review; a hold that is made   *)
(* again keeps what is not of this content.                                *)
HoldBack(d, v) == hold' = [hold EXCEPT ![d] = [@ EXCEPT !.status = "HELD", !.v = v]]

(* What re-indexing finds to work on: the original or its text, or else    *)
(* the preview kept in the row.                                            *)
Original(d) == IF text[d] = Nothing THEN Stub ELSE text[d]

(* The deletion handler: an event marks the lineage, then fingerprints,    *)
(* chunks and text go; removing the row takes chunks and fingerprints that *)
(* came since along, and marks the lineage again.  Each write is a step.   *)
Bury(d) == lineage' = [lineage EXCEPT ![d] = "DELETED"]
DeletionStep == {"forget", "purge", "wipe", "unlist", "sift", "seal"}
AfterStep(step) ==
    CASE step = "forget" -> "purge" [] step = "purge" -> "wipe" [] step = "wipe" -> "unlist"
      [] step = "unlist" -> "sift" [] step = "sift" -> "seal" [] step = "seal" -> "ack"
Erase(d, step) ==
    /\ IF step \in {"forget", "seal"} THEN ClearHashes(d) ELSE UNCHANGED hashes
    /\ IF step \in {"purge", "sift"} THEN DropVectors(d) ELSE UNCHANGED vectors
    /\ IF step = "wipe" THEN SaveText(d, Nothing) ELSE UNCHANGED text
    /\ IF step = "unlist" THEN RemoveRow(d) ELSE UNCHANGED row
    /\ IF step = "seal" THEN Mark(d, "DELETED") ELSE UNCHANGED lineage
=============================================================================
