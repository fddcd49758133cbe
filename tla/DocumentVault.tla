---------------------------- MODULE DocumentVault ----------------------------
(***************************************************************************)
(* The life of the documents of a knowledge vault: requests that add,      *)
(* re-index, re-label, delete and release them, items synced from a        *)
(* connected app, the sweep that compares them with the app, and the       *)
(* worker that takes ingestion jobs through parsing, the gatekeeper,       *)
(* classification and embedding.  Requests run beside the worker; nothing  *)
(* locks a document.  Embedding, parsing and the gatekeeper's verdict are  *)
(* choices; the stores answer, but for a crash of the process.             *)
(* Sources: knowledge_vault_routes.py, pipeline/{queue_worker,             *)
(* queue_routes}.py, gatekeeper_{routes,engine}.py, del_acl_and_reconc/,   *)
(* ingestion_pipeline.py, bulk_writer.py, delta_checker.py.                *)
(***************************************************************************)
EXTENDS VaultStores

CONSTANTS
    Origin,     \* where the documents come from, of "upload", "url" and "sync"
    Req,        \* requests that run at a time
    MaxAsked,   \* bound: requests in all
    MaxFaults   \* bound: crashes, stages that raise, removals of duplicates

ASSUME BoundsAssumption == MaxAsked \in Nat /\ MaxFaults \in Nat

VARIABLES
    origin,     \* where the documents come from in this behaviour
    source,     \* what a connected app holds of the item, if anything
    made,       \* documents whose id was given out
    req,        \* request -> what it is at
    w,          \* the worker
    asked,      \* how many requests there were
    faults,     \* how many faults there were
    passed,     \* history: doc -> contents the gatekeeper or a person let in
    mishaps     \* history: document and what befell it, see Mishap

actors == <<req, w>>
bounds == <<origin, asked, faults>>
history == <<passed, mishaps>>
vars == <<stores, source, made, actors, bounds, history>>

-----------------------------------------------------------------------------
(* The state *)

Idle == [at |-> "idle"]
At(step, op, d) == [at |-> step, op |-> op, doc |-> d, v |-> Nothing, copy |-> "none"]
Request == [at : {"drop", "clear", "save", "queue", "approve", "remove", "erase", "sweep",
                  "read", "persist"} \cup DeletionStep,
            op : {"ingest", "reindex", "annotate", "delete", "release", "sweep", "pull"},
            doc : Doc, v : Content, copy : RowStatus]

(* A row the worker found is saved back with a status (copy), and then it  *)
(* is on with the next stage.                                              *)
Stage == {"stage", "parse", "attach", "persist", "label", "queue", "discard", "ack", "embed",
          "commit", "finish", "mark", "fail", "notify", "show", "save"} \cup DeletionStep
Work == [at : Stage, n : Number, v : Content, left : SUBSET Chunk,
         copy : RowStatus, next : Stage \cup {"idle"}]

(* cut: a crash came between the steps of a request, or where the worker   *)
(* does not repeat what it was at; stale: a row was written back over what *)
(* it had become; torn: fingerprints were committed for chunks dropped     *)
(* since, or a deletion dropped the chunks of a text that came meanwhile;  *)
(* swapped: a release found other bytes than were reviewed.                *)
Mishap == {"cut", "stale", "torn", "swapped"}

TypeOK ==
    /\ row \in [Doc -> RowStatus] /\ staged \in [Doc -> Content] /\ text \in [Doc -> Content]
    /\ lineage \in [Doc -> Lineage] /\ hold \in [Doc -> Hold]
    /\ vectors \in [Doc -> SUBSET Chunk] /\ hashes \in [Doc -> SUBSET Chunk]
    /\ passed \in [Doc -> SUBSET Version]
    /\ jobs \in [Number -> Job \cup {NoJob}]
    /\ origin \in Origin /\ source \in Content /\ made \subseteq Doc
    /\ req \in [Req -> Request \cup {Idle}]
    /\ w = Idle \/ w \in Work
    /\ asked \in 0 .. MaxAsked /\ faults \in 0 .. MaxFaults
    /\ mishaps \subseteq Doc \X Mishap

Init ==
    /\ row = [d \in Doc |-> "none"]
    /\ staged = [d \in Doc |-> Nothing] /\ text = [d \in Doc |-> Nothing]
    /\ vectors = [d \in Doc |-> {}] /\ hashes = [d \in Doc |-> {}]
    /\ lineage = [d \in Doc |-> "none"] /\ hold = [d \in Doc |-> NoHold]
    /\ jobs = [n \in Number |-> NoJob]
    /\ origin \in Origin /\ source = Nothing /\ made = {}
    /\ req = [q \in Req |-> Idle] /\ w = Idle
    /\ asked = 0 /\ faults = 0
    /\ passed = [d \in Doc |-> {}] /\ mishaps = {}

Befalls(d, m) == mishaps' = mishaps \cup {<<d, m>>}
BefallsIf(cond, d, m) == mishaps' = IF cond THEN mishaps \cup {<<d, m>>} ELSE mishaps

-----------------------------------------------------------------------------
(* Requests begin *)

\* A queue too deep refuses what would put a job on it.
Admitted == \E n \in Number : jobs[n] = NoJob
Begin(q, r) ==
    /\ req[q] = Idle /\ asked < MaxAsked
    /\ asked' = asked + 1
    /\ req' = [req EXCEPT ![q] = r]

(* The first row with the same content, or of the same page, is taken      *)
(* again unless it is healthy; without one a new id is made.               *)
Healthy(d) == row[d] = "Indexed"
Same == {d \in Doc : Listed(d)}
AddAgain(q, d, v) ==
    /\ d \in Same /\ (origin = "upload" => ~Healthy(d))
    /\ Begin(q, [At("drop", "ingest", d) EXCEPT !.v = v])
    /\ UNCHANGED made
AddNew(q, v) ==
    /\ Same = {} /\ made # Doc
    /\ LET d == CHOOSE d \in Doc \ made : TRUE IN
        /\ Begin(q, [At("save", "ingest", d) EXCEPT !.v = v])
        /\ made' = made \cup {d}
Add(q) ==
    /\ origin \in {"upload", "url"} /\ Admitted
    /\ \E v \in Version \ {Stub} :
        /\ origin = "upload" => v = 1
        /\ AddNew(q, v) \/ \E d \in Doc : AddAgain(q, d, v)
    /\ UNCHANGED <<stores, source, origin, w, faults, history>>

(* A synced document is embedded again from its stored text; without one   *)
(* the request is refused.                                                 *)
Reindex(q, d) ==
    /\ Listed(d) /\ Admitted
    /\ origin = "sync" => text[d] # Nothing
    /\ Begin(q, At("drop", "reindex", d))
    /\ UNCHANGED <<stores, source, made, origin, w, faults, history>>

(* Labels set by hand or by the classifier: the row is read, and later     *)
(* written back whole.                                                     *)
Annotate(q, d) ==
    /\ Listed(d)
    /\ Begin(q, [At("save", "annotate", d) EXCEPT !.copy = row[d]])
    /\ UNCHANGED <<stores, source, made, origin, w, faults, history>>

Delete(q, d) ==
    /\ Listed(d)
    /\ Begin(q, At("remove", "delete", d))
    /\ UNCHANGED <<stores, source, made, origin, w, faults, history>>

(* Of the copies of one file the best is kept; the plan is not looked at   *)
(* again while the others are deleted.  It is counted with the faults      *)
(* and not with the requests: bounds only.                                 *)
NoWorse(k, d) == Healthy(d) => Healthy(k)
Deduplicate(q, d) ==
    /\ origin = "upload" /\ Listed(d)
    /\ \E k \in Doc \ {d} : Listed(k) /\ NoWorse(k, d)
    /\ req[q] = Idle /\ faults < MaxFaults
    /\ req' = [req EXCEPT ![q] = At("remove", "delete", d)] /\ faults' = faults + 1
    /\ UNCHANGED <<stores, source, made, w, origin, asked, history>>

(* A hold is looked at; it is marked released later, whatever it is then.  *)
(* Without a way to replay it the user is told to add the document again.  *)
Release(q, d) ==
    /\ hold[d].status = "HELD" /\ (hold[d].replay => Admitted)
    /\ Begin(q, [At("approve", "release", d) EXCEPT !.v = IF hold[d].replay THEN hold[d].v ELSE Nothing])
    /\ UNCHANGED <<stores, source, made, origin, w, faults, history>>

Replay(n) ==
    /\ jobs[n].st = "dead" /\ asked < MaxAsked
    /\ asked' = asked + 1
    /\ jobs' = [jobs EXCEPT ![n].st = "waiting", ![n].tries = 0]
    /\ UNCHANGED <<row, staged, text, vectors, hashes, lineage, hold, source, made, actors, origin, faults, history>>

-----------------------------------------------------------------------------
(* Requests go on *)

Goes(q, step) == req' = [req EXCEPT ![q].at = step]
Ends(q) == req' = [req EXCEPT ![q] = Idle]

Drop(q) ==
    /\ req[q].at = "drop"
    /\ DropVectors(req[q].doc) /\ Goes(q, "clear")
    /\ UNCHANGED <<row, staged, text, hashes, lineage, hold, jobs, source, made, w, bounds, history>>

Clear(q) ==
    LET d == req[q].doc IN
    /\ req[q].at = "clear"
    /\ ClearHashes(d)
    /\ IF req[q].op = "delete" THEN Mark(d, "DELETED") /\ Goes(q, "erase")
                               ELSE UNCHANGED lineage /\ Goes(q, "save")
    /\ UNCHANGED <<row, staged, text, vectors, hold, jobs, source, made, w, bounds, history>>

(* The row is written whole, and made again should it be gone.             *)
Save(q) ==
    LET d == req[q].doc IN
    /\ req[q].at = "save"
    /\ IF req[q].op = "annotate"
       THEN /\ SaveRow(d, req[q].copy)
            /\ BefallsIf(row[d] # req[q].copy, d, "stale")
            /\ Ends(q)
       ELSE SaveRow(d, "Parsing") /\ Goes(q, "queue") /\ UNCHANGED mishaps
    /\ UNCHANGED <<staged, text, vectors, hashes, lineage, hold, jobs, source, made, w, bounds, passed>>

(* The bytes are staged under the document's one key, then the job queued. *)
Queue(q) ==
    LET r == req[q]
        d == r.doc
        v == IF r.op = "ingest" THEN r.v ELSE Original(d) IN
    /\ r.at = "queue" /\ Admitted
    /\ CASE r.op = "release" ->
                /\ Enqueue(NewJob(IF origin = "sync" THEN "event" ELSE "ingest", d, r.v, TRUE))
                /\ UNCHANGED staged
         [] r.op = "pull" \/ (r.op = "reindex" /\ origin = "sync") ->
                Enqueue(NewJob("embed", d, Nothing, FALSE)) /\ UNCHANGED staged
         [] OTHER ->
                /\ StageBytes(d, v)
                /\ Enqueue(NewJob("ingest", d, Nothing, FALSE))
    /\ passed' = IF r.op = "release" THEN [passed EXCEPT ![d] = @ \cup {r.v}] ELSE passed
    /\ Ends(q)
    /\ UNCHANGED <<row, text, vectors, hashes, lineage, hold, source, made, w, bounds, mishaps>>

Approve(q) ==
    /\ req[q].at = "approve"
    /\ hold' = [hold EXCEPT ![req[q].doc].status = "RELEASED"]
    /\ IF req[q].v = Nothing THEN Ends(q) ELSE Goes(q, "queue")
    /\ UNCHANGED <<row, staged, text, vectors, hashes, lineage, jobs, source, made, w, bounds, history>>

Unlist(q) ==
    /\ req[q].at = "remove"
    /\ RemoveRow(req[q].doc) /\ Goes(q, "drop")
    /\ UNCHANGED <<staged, text, vectors, hashes, lineage, hold, jobs, source, made, w, bounds, history>>

EraseText(q) ==
    /\ req[q].at = "erase"
    /\ SaveText(req[q].doc, Nothing) /\ Ends(q)
    /\ UNCHANGED <<row, staged, vectors, hashes, lineage, hold, jobs, source, made, w, bounds, history>>

RequestStep(q) == Drop(q) \/ Clear(q) \/ Save(q) \/ Queue(q) \/ Approve(q) \/ Unlist(q) \/ EraseText(q)

-----------------------------------------------------------------------------
(* The connected app *)

Item == CHOOSE d \in Doc : TRUE

(* An item is made, changed or removed; its webhook queues an event, or    *)
(* none comes.                                                             *)
ItemChanges(v, told) ==
    /\ origin = "sync" /\ asked < MaxAsked /\ v # source
    /\ source' = v /\ asked' = asked + 1
    /\ IF told
       THEN Admitted /\ Enqueue(NewJob(IF v = Nothing THEN "delete" ELSE "event", Item, v, FALSE))
       ELSE UNCHANGED jobs
    /\ UNCHANGED <<row, staged, text, vectors, hashes, lineage, hold, made, actors, origin, faults, history>>

(* The sweep lists the app first and the store's documents afterwards.     *)
ListSource(q) ==
    /\ origin = "sync"
    /\ Begin(q, [At("sweep", "sweep", Item) EXCEPT !.v = source])
    /\ UNCHANGED <<stores, source, made, origin, w, faults, history>>

(* What is not in the app any more is deleted, write by write.             *)
Sweep(q) ==
    LET d == req[q].doc IN
    /\ req[q].at = "sweep"
    /\ IF req[q].v = Nothing /\ lineage[d] = "live" THEN Bury(d) /\ Goes(q, "forget")
       ELSE UNCHANGED lineage /\ Ends(q)
    /\ UNCHANGED <<row, staged, text, vectors, hashes, hold, jobs, source, made, w, bounds, history>>
SweepErases(q) ==
    LET d == req[q].doc IN
    /\ req[q].at \in DeletionStep
    /\ Erase(d, req[q].at)
    /\ BefallsIf(req[q].at = "seal" /\ text[d] # Nothing, d, "torn")
    /\ IF req[q].at = "seal" THEN Ends(q) ELSE Goes(q, AfterStep(req[q].at))
    /\ UNCHANGED <<staged, hold, jobs, source, made, w, bounds, passed>>

(* A sync manager that comes upon the item takes it through the stages of  *)
(* an event itself, beside the worker: it is read and let in or held, its  *)
(* text and row are saved and its embedding queued.  A hold made so has no *)
(* replay of its own.                                                      *)
Pull(q) ==
    /\ origin = "sync" /\ source # Nothing
    /\ Begin(q, [At("read", "pull", Item) EXCEPT !.v = source])
    /\ Record(Item)
    /\ UNCHANGED <<row, staged, text, vectors, hashes, hold, jobs, source, made, origin, w, faults, history>>
PullStops(q) ==
    /\ req[q].at = "read"
    /\ Record(req[q].doc) /\ Ends(q)
    /\ UNCHANGED hold \/ HoldBack(req[q].doc, req[q].v)
    /\ UNCHANGED <<row, staged, text, vectors, hashes, jobs, source, made, w, bounds, history>>
PullAccept(q) ==
    /\ req[q].at = "read"
    /\ Record(req[q].doc) /\ Goes(q, "persist")
    /\ passed' = [passed EXCEPT ![req[q].doc] = @ \cup {req[q].v}]
    /\ UNCHANGED <<row, staged, text, vectors, hashes, hold, jobs, source, made, w, bounds, mishaps>>
PullPersist(q) ==
    /\ req[q].at = "persist"
    /\ SaveText(req[q].doc, req[q].v) /\ Goes(q, "save")
    /\ UNCHANGED <<row, staged, vectors, hashes, lineage, hold, jobs, source, made, w, bounds, history>>

AppStep(q) == Sweep(q) \/ SweepErases(q) \/ PullStops(q) \/ PullAccept(q) \/ PullPersist(q)

-----------------------------------------------------------------------------
(* The worker: it takes a job that waits and holds it until it is acked.   *)

Mine == jobs[w.n]
Ready(n, kind) == w = Idle /\ jobs[n].st = "waiting" /\ jobs[n].kind = kind
Takes(n, stage, v, left) ==
    w' = [at |-> stage, n |-> n, v |-> v, left |-> left, copy |-> "none", next |-> stage]
Turns(stage) == w' = IF stage = "idle" THEN Idle ELSE [w EXCEPT !.at = stage, !.next = stage, !.copy = "none"]

(* A row is looked for, and saved back whole a moment later: should it be  *)
(* gone by then it is there again.                                         *)
Finds(d, status, stage) ==
    IF Listed(d) THEN w' = [w EXCEPT !.at = "save", !.copy = status, !.next = stage] ELSE Turns(stage)
SaveBack ==
    /\ w.at = "save"
    /\ SaveRow(Mine.doc, w.copy) /\ Turns(w.next)
    /\ UNCHANGED <<staged, text, vectors, hashes, lineage, hold, jobs, source, made, req, bounds, history>>

(* The staged bytes are read; without them the attempt fails.  A released  *)
(* hold says Parsing again.                                                *)
TakeIngest(n) ==
    LET d == jobs[n].doc IN
    /\ Ready(n, "ingest")
    /\ IF staged[d] = Nothing THEN Takes(n, "fail", Nothing, {})
       ELSE Takes(n, IF jobs[n].skip THEN "show" ELSE "stage", staged[d], {})
    /\ BefallsIf(jobs[n].skip /\ staged[d] \notin {Nothing, jobs[n].v}, d, "swapped")
    /\ UNCHANGED <<stores, source, made, req, bounds, passed>>
ShowAgain ==
    /\ w.at = "show"
    /\ Finds(Mine.doc, "Parsing", "stage")
    /\ UNCHANGED <<stores, source, made, req, bounds, history>>

TakeEvent(n) ==
    /\ Ready(n, "event")
    /\ Takes(n, "stage", jobs[n].v, {})
    /\ UNCHANGED <<stores, source, made, req, bounds, history>>
NoteStaged ==
    /\ w.at = "stage"
    /\ Record(Mine.doc) /\ Turns("parse")
    /\ UNCHANGED <<row, staged, text, vectors, hashes, hold, jobs, source, made, req, bounds, history>>

TakeDelete(n) ==
    /\ Ready(n, "delete")
    /\ Bury(jobs[n].doc) /\ Takes(n, "forget", Nothing, {})
    /\ UNCHANGED <<row, staged, text, vectors, hashes, hold, jobs, source, made, req, bounds, history>>
WorkerErases ==
    /\ w.at \in DeletionStep
    /\ Erase(Mine.doc, w.at) /\ Turns(AfterStep(w.at))
    /\ UNCHANGED <<staged, hold, jobs, source, made, req, bounds, history>>

(* The text is read and cut; chunks with a known fingerprint are skipped.  *)
TakeEmbed(n) ==
    LET v == text[jobs[n].doc]
        left == Chunks[v] \ hashes[jobs[n].doc] IN
    /\ Ready(n, "embed")
    /\ IF v = Nothing THEN Takes(n, "fail", v, {})
       ELSE Takes(n, IF left = {} THEN "finish" ELSE "embed", v, left)
    /\ UNCHANGED <<stores, source, made, req, bounds, history>>

Take(n) == TakeIngest(n) \/ TakeEvent(n) \/ TakeDelete(n) \/ TakeEmbed(n)

(* Media and files that cannot be read end here; only an upload's row      *)
(* tells.  Each stage notes its outcome in the lineage, also of a document *)
(* deleted since.                                                          *)
Unusable ==
    /\ w.at = "parse"
    /\ IF Mine.kind = "ingest"
       THEN \E status \in {"Rejected", "Error"} : Finds(Mine.doc, status, "discard")
       ELSE Turns("discard")
    /\ Record(Mine.doc)
    /\ UNCHANGED <<row, staged, text, vectors, hashes, hold, jobs, source, made, req, bounds, history>>

\* Mutant: a content that is held is processed all the same.
RefuseAndGoOn ==
    /\ w.at = "parse" /\ ~Mine.skip
    /\ HoldBack(Mine.doc, w.v)
    /\ Record(Mine.doc) /\ Turns("persist")
    /\ UNCHANGED <<row, staged, text, vectors, hashes, jobs, source, made, req, bounds, history>>

(* The gatekeeper keeps a content out and holds it for review, the bytes   *)
(* with it; how to replay it is attached afterwards, and stays on a hold   *)
(* that is made again.                                                     *)
Refuse ==
    /\ w.at = "parse" /\ ~Mine.skip
    /\ HoldBack(Mine.doc, w.v)
    /\ Record(Mine.doc)
    /\ IF Mine.kind = "ingest" THEN Finds(Mine.doc, "Rejected", "attach") ELSE Turns("attach")
    /\ UNCHANGED <<row, staged, text, vectors, hashes, jobs, source, made, req, bounds, history>>
Attach ==
    /\ w.at = "attach"
    /\ hold' = [hold EXCEPT ![Mine.doc].replay = TRUE]
    /\ Turns("ack")
    /\ UNCHANGED <<row, staged, text, vectors, hashes, lineage, jobs, source, made, req, bounds, history>>

(* The gatekeeper lets a content in; a released hold is not asked again.   *)
Accept ==
    /\ w.at = "parse"
    /\ passed' = IF Mine.skip THEN passed ELSE [passed EXCEPT ![Mine.doc] = @ \cup {w.v}]
    /\ Record(Mine.doc) /\ Turns("persist")
    /\ UNCHANGED <<row, staged, text, vectors, hashes, hold, jobs, source, made, req, bounds, mishaps>>

(* The text is stored.  An upload's row only gets its labels, whole with   *)
(* the status it was found with; a synced item's row is made, or made      *)
(* Parsing again.                                                          *)
Persist ==
    /\ w.at = "persist"
    /\ SaveText(Mine.doc, w.v)
    /\ Turns("label")
    /\ UNCHANGED <<row, staged, vectors, hashes, lineage, hold, jobs, source, made, req, bounds, history>>
LabelUpload ==
    /\ w.at = "label" /\ Mine.kind = "ingest"
    /\ Finds(Mine.doc, row[Mine.doc], "queue")
    /\ UNCHANGED <<stores, source, made, req, bounds, history>>
RegisterSynced ==
    /\ w.at = "label" /\ Mine.kind = "event"
    /\ SaveRow(Mine.doc, "Parsing") /\ Turns("queue")
    /\ UNCHANGED <<staged, text, vectors, hashes, lineage, hold, jobs, source, made, req, bounds, history>>
QueueEmbed ==
    /\ w.at = "queue" /\ Admitted
    /\ Enqueue(NewJob("embed", Mine.doc, Nothing, FALSE))
    /\ Record(Mine.doc) /\ Turns("discard")
    /\ UNCHANGED <<row, staged, text, vectors, hashes, hold, source, made, req, bounds, history>>
Discard ==
    /\ w.at = "discard"
    /\ staged' = IF Mine.kind = "ingest" THEN [staged EXCEPT ![Mine.doc] = Nothing] ELSE staged
    /\ Turns("ack")
    /\ UNCHANGED <<row, text, vectors, hashes, lineage, hold, jobs, source, made, req, bounds, history>>

Embed ==
    /\ w.at = "embed"
    /\ StoreVectors(Mine.doc, w.left)
    /\ Turns("commit")
    /\ UNCHANGED <<row, staged, text, hashes, lineage, hold, jobs, source, made, req, bounds, history>>
(* Fingerprints only after the chunks were written.                        *)
CommitHashes ==
    /\ w.at = "commit"
    /\ SetHashes(Mine.doc, w.left)
    /\ BefallsIf(~(w.left \subseteq vectors[Mine.doc]), Mine.doc, "torn")
    /\ Turns("finish")
    /\ UNCHANGED <<row, staged, text, vectors, lineage, hold, jobs, source, made, req, bounds, passed>>
(* With nothing written the index is asked what it holds.                  *)
Finish ==
    LET d == Mine.doc IN
    /\ w.at = "finish"
    /\ IF w.left = {} /\ vectors[d] = {} THEN Finds(d, "Error", "ack") ELSE Finds(d, "Indexed", "mark")
    /\ UNCHANGED <<stores, source, made, req, bounds, history>>
MarkIndexed ==
    /\ w.at = "mark"
    /\ Mark(Mine.doc, "live") /\ Turns("ack")
    /\ UNCHANGED <<row, staged, text, vectors, hashes, hold, jobs, source, made, req, bounds, history>>

Ack ==
    /\ w.at = "ack"
    /\ jobs' = [jobs EXCEPT ![w.n] = NoJob] /\ w' = Idle
    /\ UNCHANGED <<row, staged, text, vectors, hashes, lineage, hold, source, made, req, bounds, history>>

\* Mutant: one attempt too many.
FailLate ==
    /\ w.at = "fail"
    /\ IF Mine.tries < MaxAttempts
       THEN jobs' = [jobs EXCEPT ![w.n].tries = @ + 1] /\ w' = Idle
       ELSE jobs' = [jobs EXCEPT ![w.n].st = "dead"] /\ Turns("notify")
    /\ UNCHANGED <<row, staged, text, vectors, hashes, lineage, hold, source, made, req, bounds, history>>

(* A failed attempt is retried until the job is dead; only then the row    *)
(* says Error, for the kinds that have somebody to tell.                   *)
Fail ==
    /\ w.at = "fail"
    /\ IF Mine.tries + 1 < MaxAttempts
       THEN jobs' = [jobs EXCEPT ![w.n].tries = @ + 1] /\ w' = Idle
       ELSE jobs' = [jobs EXCEPT ![w.n].st = "dead"] /\ Turns("notify")
    /\ UNCHANGED <<row, staged, text, vectors, hashes, lineage, hold, source, made, req, bounds, history>>
\* Mutant: embedding has nobody to tell.
NotifyUploads ==
    /\ w.at = "notify"
    /\ IF Mine.kind = "ingest" THEN Finds(Mine.doc, "Error", "idle") ELSE Turns("idle")
    /\ UNCHANGED <<stores, source, made, req, bounds, history>>
Notify ==
    /\ w.at = "notify"
    /\ IF Mine.kind \in {"ingest", "embed"} THEN Finds(Mine.doc, "Error", "idle") ELSE Turns("idle")
    /\ UNCHANGED <<stores, source, made, req, bounds, history>>

WorkerStep ==
    \/ \E n \in Number : Take(n)
    \/ ShowAgain \/ NoteStaged \/ WorkerErases \/ SaveBack
    \/ Unusable \/ Refuse \/ Attach \/ Accept \/ Persist \/ LabelUpload \/ RegisterSynced \/ QueueEmbed \/ Discard
    \/ Embed \/ CommitHashes \/ Finish \/ MarkIndexed \/ Ack \/ Fail \/ Notify

-----------------------------------------------------------------------------
(* Faults *)

StageRaises ==
    /\ w.at \in {"parse", "persist", "embed"} /\ faults < MaxFaults
    /\ faults' = faults + 1
    /\ Turns("fail")
    /\ UNCHANGED <<stores, source, made, req, origin, asked, history>>

(* The job the worker held waits again when the process is back; requests  *)
(* are gone where they were.                                               *)
CutShort ==
    {req[q].doc : q \in {p \in Req : req[p].at \in {"clear", "save", "queue", "erase"} \cup DeletionStep}}
        \cup (IF /\ w # Idle
                 /\ \/ w.at \in {"commit", "notify"} \/ w.next = "idle"
                    \/ w.at \in {"label", "queue"} /\ Mine.kind = "event"
              THEN {Mine.doc} ELSE {})
Crash ==
    /\ faults < MaxFaults /\ (w # Idle \/ \E q \in Req : req[q] # Idle)
    /\ faults' = faults + 1
    /\ req' = [q \in Req |-> Idle] /\ w' = Idle
    /\ mishaps' = mishaps \cup {<<d, "cut">> : d \in CutShort}
    /\ UNCHANGED <<stores, source, made, origin, asked, passed>>

-----------------------------------------------------------------------------
Ask(q) ==
    \/ Add(q) \/ ListSource(q) \/ Pull(q)
    \/ \E d \in Doc : Reindex(q, d) \/ Annotate(q, d) \/ Delete(q, d) \/ Deduplicate(q, d) \/ Release(q, d)

Next ==
    \/ \E q \in Req : Ask(q) \/ RequestStep(q) \/ AppStep(q)
    \/ \E n \in Number : Replay(n)
    \/ \E v \in Content \ {Stub}, told \in BOOLEAN : ItemChanges(v, told)
    \/ WorkerStep
    \/ StageRaises \/ Crash

(* The worker goes on while there are jobs, and a request runs to its end; *)
(* nobody has to ask for anything.                                         *)
Fairness == WF_vars(WorkerStep) /\ \A q \in Req : WF_vars(RequestStep(q) \/ AppStep(q))
Spec == Init /\ [][Next]_vars /\ Fairness

-----------------------------------------------------------------------------
(* Properties *)

Quiet(d) ==
    /\ \A n \in Number : jobs[n] # NoJob => jobs[n].doc # d \/ jobs[n].st = "dead"
    /\ \A q \in Req : req[q] # Idle => req[q].doc # d
    /\ w # Idle => Mine.doc # d
Befell(d, m) == \E k \in m : <<d, k>> \in mishaps

(* A document the vault shows as indexed, with nothing under way for it,   *)
(* has every chunk of its text in the index: neither skipping what has a   *)
(* fingerprint, nor a retry, nor what was dropped beside an embedding      *)
(* leaves a hole - but for fingerprints committed for chunks dropped       *)
(* meanwhile, a text that came while a deletion was under way, a crash     *)
(* between two steps (a sweep's deletion is not taken up again), and a row *)
(* written back stale.                                                     *)
IndexedIsWhole ==
    \A d \in Doc :
        row[d] = "Indexed" /\ text[d] # Nothing /\ Quiet(d) /\ ~Befell(d, {"cut", "stale", "torn"})
            => Chunks[text[d]] \subseteq vectors[d]

(* Nothing can be found that neither the gatekeeper let in nor a person    *)
(* released, whatever was retried, replayed, synced or indexed again -     *)
(* unless a release found other bytes under the staging key than those     *)
(* that were reviewed.                                                     *)
OnlyPassedIsFound ==
    \A d \in Doc :
        ~Befell(d, {"swapped"}) => vectors[d] \subseteq UNION {Chunks[v] : v \in passed[d]}

(* A document does not stay Parsing: the worker, a retry, or giving up     *)
(* ends it, also after a crash - unless the crash cut off who was to       *)
(* queue its job or to say that it failed, or a stale row was written.     *)
ParsingEnds ==
    \A d \in Doc : row[d] = "Parsing" ~> row[d] # "Parsing" \/ Befell(d, {"cut", "stale"})
=============================================================================
