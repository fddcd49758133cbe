------------------------ MODULE DocumentVaultProofs ------------------------
(***************************************************************************)
(* What holds of a knowledge vault for any documents, contents, requests,  *)
(* attempts and faults: the types, that only what was let in can be found, *)
(* and that a document shown as indexed is whole once nothing is under way *)
(* for it.                                                                 *)
(***************************************************************************)
EXTENDS DocumentVault, CollectionFacts

-----------------------------------------------------------------------------
(* The inductive invariant *)

(* What a request of each kind goes through.                               *)
Courses ==
    {"drop", "clear"} \X {"ingest", "reindex", "delete"}
    \cup {"save"} \X {"ingest", "reindex", "annotate", "pull"}
    \cup {"queue"} \X {"ingest", "reindex", "release", "pull"}
    \cup {"read", "persist"} \X {"pull"}
    \cup ({"sweep"} \cup DeletionStep) \X {"sweep"}
    \cup {<<"approve", "release">>, <<"remove", "delete">>, <<"erase", "delete">>}
Fits(r) ==
    /\ r \in Request /\ <<r.at, r.op>> \in Courses
    /\ r.at = "queue" /\ r.op = "release" => r.v # Nothing
    /\ r.at \in {"read", "persist"} => r.v # Nothing
LetIn(r) == r.at = "persist" => r.v \in passed[r.doc]
RequestsHold == req \in [Req -> Request \cup {Idle}] /\ \A q \in Req : req[q] = Idle \/ Fits(req[q])
PullsHold == \A q \in Req : req[q] # Idle => LetIn(req[q])

(* The stages of each kind of job, where it saves a row back and as what,  *)
(* and that the worker holds a job that is there.                          *)
StagesOf(kind) ==
    IF kind = "delete" THEN DeletionStep \cup {"ack"}
    ELSE IF kind = "embed" THEN {"embed", "commit", "finish", "mark", "save", "fail", "notify", "ack"}
    ELSE Stage \ ({"embed", "commit", "finish", "mark"} \cup DeletionStep
                  \cup (IF kind = "event" THEN {"show"} ELSE {}))
SavedThen(kind) ==
    IF kind = "ingest" THEN {"stage", "discard", "attach", "queue", "idle"}
    ELSE IF kind = "embed" THEN {"mark", "ack", "idle"} ELSE {}
Reading == w.at \in {"show", "stage", "parse"} \/ (w.at = "save" /\ w.next = "stage")
JobsHold ==
    /\ jobs \in [Number -> Job \cup {NoJob}]
    /\ \A n \in Number : jobs[n] # NoJob /\ jobs[n].kind = "event" => jobs[n].v # Nothing
WorkerHolds ==
    w # Idle =>
        /\ w \in Work /\ Mine \in Job
        /\ w.at \in StagesOf(Mine.kind)
        /\ w.at = "save" =>
            /\ w.next \in SavedThen(Mine.kind)
            /\ w.next \in {"discard", "attach", "ack", "idle"} => w.copy # "Indexed"
        /\ Mine.st = "dead" => w.at = "notify" \/ (w.at = "save" /\ w.next = "idle")
        /\ Reading => w.v # Nothing

StoresHold ==
    /\ row \in [Doc -> RowStatus] /\ staged \in [Doc -> Content] /\ text \in [Doc -> Content]
    /\ lineage \in [Doc -> Lineage] /\ hold \in [Doc -> Hold]
    /\ vectors \in [Doc -> SUBSET Chunk] /\ hashes \in [Doc -> SUBSET Chunk]
    /\ passed \in [Doc -> SUBSET Version] /\ mishaps \subseteq Doc \X Mishap
CountsHold ==
    /\ origin \in Origin /\ source \in Content /\ made \subseteq Doc
    /\ asked \in 0 .. MaxAsked /\ faults \in 0 .. MaxFaults
Sound == StoresHold /\ CountsHold /\ RequestsHold /\ PullsHold /\ JobsHold /\ WorkerHolds

(* What was let in: the text, the chunks that can be found and those about *)
(* to be, and what a released hold or the worker is on its way with.       *)
PassedChunks(d) == UNION {Chunks[v] : v \in passed[d]}
AllPassed(d) ==
    /\ text[d] = Nothing \/ text[d] \in passed[d]
    /\ vectors[d] \subseteq PassedChunks(d)
    /\ \A n \in Number : jobs[n] # NoJob /\ jobs[n].doc = d /\ jobs[n].skip => jobs[n].v \in passed[d]
    /\ w # Idle /\ Mine.doc = d =>
        /\ w.left \subseteq PassedChunks(d)
        /\ w.at = "persist" \/ (Reading /\ Mine.skip) => w.v \in passed[d]
PassedAt(d) == Befell(d, {"swapped"}) \/ AllPassed(d)

(* Who will yet see to a document: a request that drops or replaces what   *)
(* it has, a job that waits, or the worker.                                *)
Asked(d) ==
    \E q \in Req :
        /\ req[q] # Idle /\ req[q].doc = d
        /\ \/ req[q].at \in {"clear", "erase"} \cup DeletionStep
           \/ req[q].at \in {"save", "queue"} /\ req[q].op \in {"ingest", "reindex", "pull"}
Clearing(d) ==
    \E q \in Req : req[q] # Idle /\ req[q].doc = d /\ req[q].at \in {"clear"} \cup DeletionStep
Waiting(d) ==
    \E n \in Number :
        /\ jobs[n] # NoJob /\ jobs[n].doc = d
        /\ jobs[n].kind \in {"ingest", "embed", "delete"} /\ jobs[n].st = "waiting"
        /\ w # Idle => w.n # n
WorkedOn(d) ==
    /\ w # Idle /\ Mine.doc = d
    /\ \/ w.at \in {"label", "queue"}
       \/ Mine.kind \in {"ingest", "embed", "delete"} /\ w.at \notin {"attach", "discard", "mark", "ack"}
Coming(d) == Asked(d) \/ Waiting(d)

(* A fingerprint is only there with its chunk, but while a request drops   *)
(* both or the worker has stored the new chunks of some indices.           *)
HashesAreStored(d) ==
    \/ hashes[d] \subseteq vectors[d]
    \/ Clearing(d)
    \/ w # Idle /\ w.at = "commit" /\ Mine.doc = d /\ Upserted(hashes[d], w.left) \subseteq vectors[d]

(* What an embedding leaves aside is in the index, until its row says so.  *)
Embedding(d) ==
    w # Idle /\ Mine.doc = d /\ (w.at \in {"embed", "commit", "finish"} \/ (w.at = "save" /\ w.next = "mark"))
RestIsStored(d) ==
    Embedding(d) =>
        /\ w.v \in Version /\ w.left \subseteq Chunks[w.v]
        /\ \/ text[d] = Nothing \/ Coming(d)
           \/ /\ text[d] = w.v
              /\ Chunks[w.v] \subseteq vectors[d] \cup (IF w.at = "embed" THEN w.left ELSE {})

(* A deletion by the worker leaves neither a fingerprint nor a text, but   *)
(* for a text that came since and is to be embedded.                       *)
Emptied(d) ==
    w # Idle /\ Mine.doc = d /\ w.at \in DeletionStep \ {"forget"} =>
        /\ hashes[d] = {}
        /\ w.at \in {"unlist", "sift", "seal"} => text[d] = Nothing \/ Coming(d)

(* A document shown as indexed is whole, or is seen to.                    *)
ShownIsWhole(d) ==
    row[d] = "Indexed" /\ text[d] # Nothing =>
        Chunks[text[d]] \subseteq vectors[d] \/ Coming(d) \/ WorkedOn(d)
WholeAt(d) ==
    /\ Befell(d, {"cut", "torn"}) \/ (HashesAreStored(d) /\ RestIsStored(d) /\ Emptied(d))
    /\ Befell(d, {"cut", "stale", "torn"}) \/ ShownIsWhole(d)
Good(d) == PassedAt(d) /\ WholeAt(d)

VaultInv == Sound /\ \A d \in Doc : Good(d)

-----------------------------------------------------------------------------
(* Jobs and contents *)

LEMMA JobIsThere ==
    /\ NoJob \notin Job
    /\ \A j \in Job \cup {NoJob} : j.st # "none" => j \in Job
    /\ \A j \in Job : j.st \in {"waiting", "dead"}
<1>1. \A j \in Job : j.st \in {"waiting", "dead"}
  BY DEF Job
<1>2. NoJob.st = "none"
  BY DEF NoJob
<1> QED
  BY <1>1, <1>2

(* A job is put where there is none.                                       *)
LEMMA Enqueued ==
    ASSUME JobsHold, Admitted, NEW j, Enqueue(j)
    PROVE  \E m \in Number : jobs[m] = NoJob /\ jobs' = [jobs EXCEPT ![m] = j]
<1> DEFINE free == {n \in Number : jobs[n] = NoJob}
<1>1. free \in SUBSET Nat /\ free # {}
  BY DEF Admitted, Number
<1>2. PICK m \in free : \A y \in free : m <= y
  BY <1>1, LeastIsIn
<1>3. \A k \in 1 .. m - 1 : jobs[k] # NoJob
  BY <1>1, <1>2, VaultAssumption DEF Number
<1>4. FreeNumber \in Number /\ jobs[FreeNumber] = NoJob
  BY <1>2, <1>3 DEF FreeNumber
<1> QED
  BY <1>4 DEF Enqueue

LEMMA Contents ==
    /\ Nothing \in Content /\ Nothing \notin Version /\ Stub \in Version /\ Stub \in Content
    /\ \A v \in Content : v # Nothing => v \in Version
    /\ \A v \in Version : v \in Content /\ Chunks[v] \subseteq Chunk
    /\ \A d \in Doc : text[d] \in Content => Original(d) \in Version
  BY VaultAssumption DEF Nothing, Content, Chunk, Original

LEMMA OneIsMissing == Item \in Doc
  BY VaultAssumption DEF Item

LEMMA NewJobIsJob ==
    ASSUME NEW kind \in {"ingest", "event", "embed", "delete"}, NEW d \in Doc, NEW v \in Content, NEW skip \in BOOLEAN
    PROVE  NewJob(kind, d, v, skip) \in Job
  BY VaultAssumption DEF NewJob, Job

(* What is stored are chunks of before or of now.                          *)
LEMMA UpsertedChunks ==
    ASSUME NEW old, NEW new
    PROVE  /\ Upserted(old, new) \subseteq old \cup new /\ new \subseteq Upserted(old, new)
           /\ \A more : old \subseteq more => Upserted(old, new) \subseteq Upserted(more, new)
  BY DEF Upserted

LEMMA Typing ==
    ASSUME Sound
    PROVE  TypeOK
  BY DEF Sound, StoresHold, CountsHold, RequestsHold, JobsHold, WorkerHolds, TypeOK

-----------------------------------------------------------------------------
(* What is left alone *)

(* Jobs that are there stay what they are; one that waits goes on waiting. *)
SameJob(n) ==
    /\ jobs'[n] \in Job /\ jobs'[n].doc = jobs[n].doc /\ jobs'[n].kind = jobs[n].kind
    /\ jobs'[n].v = jobs[n].v /\ jobs'[n].skip = jobs[n].skip
    /\ jobs[n].st = "waiting" => jobs'[n].st = "waiting"
JobsStay ==
    /\ JobsHold'
    /\ \A n \in Number : jobs[n] # NoJob => SameJob(n)

(* New jobs that skip the gatekeeper have what was let in.                 *)
NewAreLetIn(d) ==
    \A n \in Number :
        jobs[n] = NoJob /\ jobs'[n] # NoJob /\ jobs'[n].doc = d /\ jobs'[n].skip => jobs'[n].v \in passed'[d]

SameStores(d) ==
    /\ row'[d] = row[d] /\ text'[d] = text[d] /\ vectors'[d] = vectors[d] /\ hashes'[d] = hashes[d]

LEMMA BefellStays ==
    ASSUME mishaps \subseteq mishaps', NEW d, NEW m, Befell(d, m)
    PROVE  Befell(d, m)'
  BY DEF Befell

LEMMA UnchangedJobs ==
    ASSUME JobsHold, jobs' = jobs
    PROVE  JobsStay
  BY JobIsThere DEF JobsStay, SameJob, JobsHold

LEMMA EnqueuedJobs ==
    ASSUME JobsHold, Admitted, NEW j \in Job, Enqueue(j), j.kind = "event" => j.v # Nothing
    PROVE  /\ JobsStay
           /\ \E m \in Number : jobs[m] = NoJob /\ jobs'[m] = j /\ \A n \in Number : n # m => jobs'[n] = jobs[n]
<1>1. PICK m \in Number : jobs[m] = NoJob /\ jobs' = [jobs EXCEPT ![m] = j]
  BY Enqueued
<1>2. JobsHold' /\ jobs'[m] = j /\ \A n \in Number : n # m => jobs'[n] = jobs[n]
  BY <1>1 DEF JobsHold
<1> QED
  BY <1>1, <1>2, JobIsThere DEF JobsStay, SameJob, JobsHold

LEMMA MoreJobs ==
    ASSUME JobsHold, \/ UNCHANGED jobs
                     \/ Admitted /\ \E j \in Job : Enqueue(j) /\ (j.kind = "event" => j.v # Nothing)
    PROVE  JobsStay
  BY UnchangedJobs, EnqueuedJobs

(* While the worker does nothing it goes on holding its job.               *)
LEMMA WorkerWaits ==
    ASSUME WorkerHolds, JobsHold, JobsStay, w' = w
    PROVE  /\ w # Idle => Mine \in Job /\ SameJob(w.n) /\ Mine' = jobs'[w.n]
           /\ JobsHold' /\ WorkerHolds'
<1>1. w # Idle => Mine \in Job /\ SameJob(w.n) /\ Mine' = jobs'[w.n]
  BY JobIsThere DEF WorkerHolds, Mine, JobsStay, Work
<1>2. ASSUME w # Idle PROVE WorkerHolds'
  <2>1. Mine'.kind = Mine.kind /\ Mine' \in Job /\ (Mine.st = "waiting" => Mine'.st = "waiting")
    BY <1>1, <1>2 DEF SameJob, Mine
  <2> QED
    BY <1>1, <1>2, <2>1, JobIsThere DEF WorkerHolds, Reading
<1> QED
  BY <1>1, <1>2 DEF WorkerHolds, JobsStay

(* What a request leaves of its course.                                    *)
LEMMA RequestGoes ==
    ASSUME RequestsHold, NEW q \in Req, NEW r, r = Idle \/ Fits(r), req' = [req EXCEPT ![q] = r]
    PROVE  RequestsHold'
<1>1. r \in Request \cup {Idle}
  BY DEF Fits
<1>2. \A p \in Req : req'[p] = IF p = q THEN r ELSE req[p]
  BY DEF RequestsHold
<1> QED
  BY <1>1, <1>2 DEF RequestsHold

LEMMA PullsStay ==
    ASSUME PullsHold, RequestsHold, \A e \in Doc : passed[e] \subseteq passed'[e],
           \/ req' = req
           \/ \E q \in Req, r \in Request \cup {Idle} :
                  req' = [req EXCEPT ![q] = r] /\ (r.at = "persist" => r.v \in passed'[r.doc])
    PROVE  PullsHold'
<1>1. \A q \in Req : req[q] # Idle => req[q].doc \in Doc
  BY DEF RequestsHold, Fits, Request
<1>2. ASSUME NEW p \in Req, req'[p] = req[p], req'[p] # Idle, req'[p].at = "persist"
      PROVE  req'[p].v \in passed'[req'[p].doc]
  BY <1>1, <1>2 DEF PullsHold, LetIn
<1>3. CASE req' = req
  BY <1>2, <1>3 DEF PullsHold, LetIn
<1>4. ASSUME NEW q \in Req, NEW r \in Request \cup {Idle},
             req' = [req EXCEPT ![q] = r], r.at = "persist" => r.v \in passed'[r.doc]
      PROVE  PullsHold'
  <2>1. req'[q] = r /\ \A p \in Req : p # q => req'[p] = req[p]
    BY <1>4 DEF RequestsHold
  <2> QED
    BY <1>2, <1>4, <2>1 DEF PullsHold, LetIn
<1> QED
  BY <1>3, <1>4

(* What is said of a document stays true when only others are changed, or  *)
(* jobs and requests are added.                                            *)
LEMMA Seeing ==
    ASSUME JobsHold, JobsStay, NEW d, UNCHANGED w
    PROVE  Waiting(d) => Waiting(d)'
<1>1. \A n \in Number : jobs[n] # NoJob => jobs'[n] # NoJob
  BY JobIsThere DEF JobsStay, SameJob
<1> QED
  BY <1>1 DEF Waiting, JobsStay, SameJob

LEMMA StaysLetIn ==
    ASSUME Sound, NEW d \in Doc, PassedAt(d), w' = w, JobsStay, NewAreLetIn(d),
           text'[d] \in {text[d], Nothing} \cup passed'[d], vectors'[d] \subseteq vectors[d],
           passed[d] \subseteq passed'[d], mishaps \subseteq mishaps'
    PROVE  PassedAt(d)'
<1>1. SUFFICES ASSUME AllPassed(d) PROVE AllPassed(d)'
  BY BefellStays DEF PassedAt
<1>2. PassedChunks(d) \subseteq PassedChunks(d)'
  BY DEF PassedChunks
<1>3. ASSUME NEW n \in Number, jobs'[n] # NoJob, jobs'[n].doc = d, jobs'[n].skip PROVE jobs'[n].v \in passed'[d]
  <2>1. CASE jobs[n] = NoJob
    BY <1>3, <2>1 DEF NewAreLetIn
  <2>2. CASE jobs[n] # NoJob
    BY <1>1, <1>3, <2>2 DEF AllPassed, JobsStay, SameJob
  <2> QED
    BY <2>1, <2>2
<1>4. w # Idle => Mine'.doc = Mine.doc /\ Mine'.skip = Mine.skip
  BY WorkerWaits DEF Sound, SameJob, Mine
<1>5. text'[d] = Nothing \/ text'[d] \in passed'[d]
  BY <1>1 DEF AllPassed
<1>6. vectors'[d] \subseteq PassedChunks(d)'
  BY <1>1, <1>2 DEF AllPassed
<1>7. ASSUME w # Idle, Mine'.doc = d
      PROVE  /\ w.left \subseteq PassedChunks(d)'
             /\ w.at = "persist" \/ (Reading /\ Mine'.skip) => w.v \in passed'[d]
  BY <1>1, <1>2, <1>4, <1>7 DEF AllPassed
<1>8. Reading' = Reading
  BY DEF Reading
<1> QED
  BY <1>3, <1>5, <1>6, <1>7, <1>8 DEF AllPassed

LEMMA StaysWhole ==
    ASSUME Sound, NEW d \in Doc, WholeAt(d), w' = w, JobsStay, SameStores(d), mishaps \subseteq mishaps',
           Asked(d) => Asked(d)', Clearing(d) => Clearing(d)'
    PROVE  WholeAt(d)'
<1>1. w # Idle => Mine'.doc = Mine.doc /\ Mine'.kind = Mine.kind
  BY WorkerWaits DEF Sound, SameJob, Mine
<1>2. Coming(d) => Coming(d)'
  BY Seeing DEF Coming, Sound
<1>3. HashesAreStored(d) => HashesAreStored(d)'
  BY <1>1 DEF HashesAreStored, SameStores
<1>4. RestIsStored(d) => RestIsStored(d)'
  BY <1>1, <1>2 DEF RestIsStored, Embedding, SameStores
<1>5. WorkedOn(d) => WorkedOn(d)'
  BY <1>1 DEF WorkedOn
<1>6. ShownIsWhole(d) => ShownIsWhole(d)'
  BY <1>2, <1>5 DEF ShownIsWhole, SameStores
<1>7. Emptied(d) => Emptied(d)'
  BY <1>1, <1>2 DEF Emptied, SameStores
<1> QED
  BY <1>3, <1>4, <1>6, <1>7, BefellStays DEF WholeAt

LEMMA Elsewhere ==
    ASSUME NEW d \in Doc, Good(d), JobsHold,
           w # Idle => Mine.doc # d, w' # Idle => Mine'.doc # d,
           SameStores(d), passed'[d] = passed[d], req' = req, mishaps \subseteq mishaps',
           \A n \in Number :
               \/ jobs'[n] = jobs[n]
               \/ /\ jobs[n] = NoJob \/ jobs[n].doc # d
                  /\ jobs'[n] = NoJob \/ jobs'[n].doc # d
    PROVE  Good(d)'
<1>1. Asked(d)' = Asked(d) /\ Clearing(d)' = Clearing(d)
  BY DEF Asked, Clearing
<1>2. Waiting(d) => Waiting(d)'
  BY DEF Waiting, Mine
<1>3. PassedAt(d)'
  <2>1. AllPassed(d) => AllPassed(d)'
    BY DEF AllPassed, PassedChunks, SameStores
  <2> QED
    BY <2>1, BefellStays DEF Good, PassedAt
<1>4. HashesAreStored(d) => HashesAreStored(d)'
  BY <1>1 DEF HashesAreStored, SameStores
<1>5. RestIsStored(d)' /\ Emptied(d)'
  BY DEF RestIsStored, Embedding, Emptied
<1>6. ShownIsWhole(d) => ShownIsWhole(d)'
  BY <1>1, <1>2 DEF ShownIsWhole, SameStores, Coming, WorkedOn
<1> QED
  BY <1>3, <1>4, <1>5, <1>6, BefellStays DEF Good, WholeAt

(* Requests for other documents, and requests that begin.                  *)
LEMMA OthersAsk ==
    ASSUME RequestsHold, NEW q \in Req, NEW r, req' = [req EXCEPT ![q] = r],
           NEW d, req[q] = Idle \/ req[q].doc # d
    PROVE  (Asked(d) => Asked(d)') /\ (Clearing(d) => Clearing(d)')
<1>1. \A p \in Req : p # q => req'[p] = req[p]
  BY DEF RequestsHold
<1> QED
  BY <1>1 DEF Asked, Clearing

-----------------------------------------------------------------------------
(* Requests begin *)

LEMMA RequestBegins ==
    ASSUME VaultInv, NEW q \in Req, NEW r, Fits(r), r.at # "persist", req[q] = Idle, req' = [req EXCEPT ![q] = r],
           asked' \in 0 .. MaxAsked, faults' \in 0 .. MaxFaults, made' \subseteq Doc,
           lineage' \in [Doc -> Lineage] \/ lineage' = lineage,
           UNCHANGED <<row, staged, text, vectors, hashes, hold, jobs, source, origin, w, history>>
    PROVE  VaultInv'
<1> USE DEF VaultInv, Sound
<1>1. JobsStay
  BY UnchangedJobs
<1>2. RequestsHold' /\ PullsHold'
  BY RequestGoes, PullsStay DEF Fits, history
<1>3. StoresHold' /\ CountsHold'
  BY DEF StoresHold, CountsHold, history
<1>4. ASSUME NEW d \in Doc PROVE Good(d)'
  <2>1. SameStores(d) /\ NewAreLetIn(d) /\ passed'[d] = passed[d] /\ mishaps' = mishaps
    BY DEF SameStores, NewAreLetIn, history
  <2>2. (Asked(d) => Asked(d)') /\ (Clearing(d) => Clearing(d)')
    BY OthersAsk
  <2> QED
    BY <1>1, <2>1, <2>2, StaysLetIn, StaysWhole DEF Good, SameStores
<1> QED
  BY <1>1, <1>2, <1>3, <1>4, WorkerWaits

LEMMA Counted ==
    ASSUME CountsHold
    PROVE  /\ asked < MaxAsked => asked + 1 \in 0 .. MaxAsked
           /\ faults < MaxFaults => faults + 1 \in 0 .. MaxFaults
  BY BoundsAssumption DEF CountsHold

LEMMA Asking ==
    ASSUME VaultInv, NEW q \in Req, Ask(q)
    PROVE  VaultInv'
<1> USE DEF VaultInv, Sound
<1>1. ASSUME Add(q) PROVE VaultInv'
  <2>1. PICK v \in Version \ {Stub} : AddNew(q, v) \/ \E d \in Doc : AddAgain(q, d, v)
    BY <1>1 DEF Add
  <2>2. UNCHANGED <<stores, source, origin, w, faults, history>>
    BY <1>1 DEF Add
  <2>3. CASE AddNew(q, v)
    <3> DEFINE d == CHOOSE d \in Doc \ made : TRUE
               r == [At("save", "ingest", d) EXCEPT !.v = v]
    <3>1. d \in Doc /\ Begin(q, r) /\ made' = made \cup {d}
      BY <2>3 DEF AddNew, CountsHold
    <3> HIDE DEF d
    <3>2. Fits(r) /\ r.at # "persist"
      BY <3>1, Contents DEF Fits, Request, Courses, At, RowStatus
    <3> QED
      BY <2>2, <3>1, <3>2, Counted, RequestBegins DEF Begin, CountsHold, stores
  <2>4. ASSUME NEW d \in Doc, AddAgain(q, d, v) PROVE VaultInv'
    <3> DEFINE r == [At("drop", "ingest", d) EXCEPT !.v = v]
    <3>1. Fits(r) /\ r.at # "persist"
      BY Contents DEF Fits, Request, Courses, At, RowStatus
    <3> QED
      BY <2>2, <2>4, <3>1, Counted, RequestBegins DEF Begin, CountsHold, stores, AddAgain
  <2> QED
    BY <2>1, <2>3, <2>4
<1>2. ASSUME ListSource(q) PROVE VaultInv'
  <2> DEFINE r == [At("sweep", "sweep", Item) EXCEPT !.v = source]
  <2>1. Fits(r) /\ r.at # "persist"
    BY OneIsMissing DEF Fits, Request, Courses, At, RowStatus, CountsHold
  <2>2. Begin(q, r) /\ UNCHANGED <<stores, source, made, origin, w, faults, history>>
    BY <1>2 DEF ListSource
  <2> HIDE DEF r
  <2> QED
    BY <2>1, <2>2, Counted, RequestBegins DEF Begin, CountsHold, stores
<1>3. ASSUME NEW d \in Doc, Reindex(q, d) PROVE VaultInv'
  <2> DEFINE r == At("drop", "reindex", d)
  <2>1. Fits(r) /\ r.at # "persist"
    BY Contents DEF Fits, Request, Courses, At, RowStatus
  <2>2. Begin(q, r) /\ UNCHANGED <<stores, source, made, origin, w, faults, history>>
    BY <1>3 DEF Reindex
  <2> HIDE DEF r
  <2> QED
    BY <2>1, <2>2, Counted, RequestBegins DEF Begin, CountsHold, stores
<1>4. ASSUME NEW d \in Doc, Annotate(q, d) PROVE VaultInv'
  <2> DEFINE r == [At("save", "annotate", d) EXCEPT !.copy = row[d]]
  <2>1. Fits(r) /\ r.at # "persist"
    BY Contents DEF Fits, Request, Courses, At, StoresHold
  <2>2. Begin(q, r) /\ UNCHANGED <<stores, source, made, origin, w, faults, history>>
    BY <1>4 DEF Annotate
  <2> HIDE DEF r
  <2> QED
    BY <2>1, <2>2, Counted, RequestBegins DEF Begin, CountsHold, stores
<1>5. ASSUME NEW d \in Doc, Delete(q, d) \/ Deduplicate(q, d) PROVE VaultInv'
  <2> DEFINE r == At("remove", "delete", d)
  <2>1. Fits(r) /\ r.at # "persist"
    BY Contents DEF Fits, Request, Courses, At, RowStatus
  <2>2. /\ req[q] = Idle /\ req' = [req EXCEPT ![q] = r] /\ UNCHANGED <<stores, source, made, origin, w, history>>
        /\ asked' \in 0 .. MaxAsked /\ faults' \in 0 .. MaxFaults
    BY <1>5, Counted DEF Delete, Deduplicate, Begin, CountsHold
  <2> HIDE DEF r
  <2> QED
    BY <2>1, <2>2, RequestBegins DEF CountsHold, stores
<1>6. ASSUME NEW d \in Doc, Release(q, d) PROVE VaultInv'
  <2> DEFINE r == [At("approve", "release", d) EXCEPT !.v = IF hold[d].replay THEN hold[d].v ELSE Nothing]
  <2>1. hold[d].v \in Content
    BY DEF StoresHold, Hold
  <2>2. Fits(r) /\ r.at # "persist"
    BY <2>1, Contents DEF Fits, Request, Courses, At, RowStatus
  <2>3. Begin(q, r) /\ UNCHANGED <<stores, source, made, origin, w, faults, history>>
    BY <1>6 DEF Release
  <2> HIDE DEF r
  <2> QED
    BY <2>2, <2>3, Counted, RequestBegins DEF Begin, CountsHold, stores
<1>7. ASSUME Pull(q) PROVE VaultInv'
  <2> DEFINE r == [At("read", "pull", Item) EXCEPT !.v = source]
  <2>1. Fits(r) /\ r.at # "persist"
    BY <1>7, OneIsMissing DEF Fits, Request, Courses, At, RowStatus, CountsHold, Pull
  <2>2. Begin(q, r) /\ UNCHANGED <<row, staged, text, vectors, hashes, hold, jobs, source, made, origin, w, faults, history>>
    BY <1>7 DEF Pull
  <2>3. lineage' \in [Doc -> Lineage]
    BY <1>7 DEF Pull, Record, StoresHold, Lineage
  <2> HIDE DEF r
  <2> QED
    BY <2>1, <2>2, <2>3, Counted, RequestBegins DEF Begin, CountsHold
<1> QED
  BY <1>1, <1>2, <1>3, <1>4, <1>5, <1>6, <1>7 DEF Ask

(* Jobs come from an operator or the connected app.                        *)
LEMMA JobsCome ==
    ASSUME VaultInv, JobsStay, \A d \in Doc : NewAreLetIn(d),
           asked' \in 0 .. MaxAsked, source' \in Content,
           UNCHANGED <<row, staged, text, vectors, hashes, lineage, hold, made, actors, origin, faults, history>>
    PROVE  VaultInv'
<1> USE DEF VaultInv, Sound
<1>1. RequestsHold' /\ PullsHold' /\ StoresHold' /\ CountsHold'
  BY PullsStay DEF RequestsHold, StoresHold, CountsHold, actors, history
<1>2. ASSUME NEW d \in Doc PROVE Good(d)'
  <2>1. SameStores(d) /\ passed' = passed /\ mishaps' = mishaps /\ w' = w
    BY DEF SameStores, history, actors
  <2>2. (Asked(d) => Asked(d)') /\ (Clearing(d) => Clearing(d)')
    BY DEF Asked, Clearing, actors
  <2> QED
    BY <2>1, <2>2, StaysLetIn, StaysWhole DEF Good, SameStores
<1> QED
  BY <1>1, <1>2, WorkerWaits DEF actors

LEMMA Replaying ==
    ASSUME VaultInv, NEW n \in Number, Replay(n)
    PROVE  VaultInv'
<1> USE DEF VaultInv, Sound
<1>1. jobs[n] \in Job /\ jobs' = [jobs EXCEPT ![n].st = "waiting", ![n].tries = 0]
  BY JobIsThere DEF Replay, JobsHold
<1>2. jobs'[n] = [jobs[n] EXCEPT !.st = "waiting", !.tries = 0] /\ \A m \in Number : m # n => jobs'[m] = jobs[m]
  BY <1>1 DEF JobsHold
<1>3. jobs'[n] \in Job /\ SameJob(n)
  <2>1. PICK j \in Job : j = jobs[n]
    BY <1>1
  <2>2. 0 \in 0 .. MaxAttempts - 1
    BY VaultAssumption
  <2>3. jobs'[n] = [j EXCEPT !.st = "waiting", !.tries = 0]
    BY <1>2, <2>1
  <2>4. jobs'[n] \in Job
    BY <2>2, <2>3 DEF Job
  <2>5. /\ jobs'[n].doc = j.doc /\ jobs'[n].kind = j.kind /\ jobs'[n].v = j.v
        /\ jobs'[n].skip = j.skip /\ jobs'[n].st = "waiting"
    BY <2>3 DEF Job
  <2> QED
    BY <2>1, <2>4, <2>5 DEF SameJob
<1>4. JobsHold'
  BY <1>1, <1>2, <1>3, JobIsThere DEF JobsHold, SameJob
<1>5. JobsStay
  <2>1. \A m \in Number : jobs[m] # NoJob => SameJob(m)
    BY <1>2, <1>3, UnchangedJobs DEF SameJob, JobsHold
  <2> QED
    BY <1>4, <2>1 DEF JobsStay
<1>6. \A d \in Doc : NewAreLetIn(d)
  BY <1>1, <1>2, JobIsThere DEF NewAreLetIn
<1> QED
  BY <1>5, <1>6, JobsCome, Counted DEF Replay, CountsHold

LEMMA Changing ==
    ASSUME VaultInv, NEW v \in Content \ {Stub}, NEW told \in BOOLEAN, ItemChanges(v, told)
    PROVE  VaultInv'
<1> USE DEF VaultInv, Sound
<1> DEFINE j == NewJob(IF v = Nothing THEN "delete" ELSE "event", Item, v, FALSE)
<1>1. j \in Job /\ ~ j.skip /\ (j.kind = "event" => j.v # Nothing)
  BY NewJobIsJob, OneIsMissing DEF NewJob
<1> HIDE DEF j
<1>2. JobsStay /\ \A d \in Doc : NewAreLetIn(d)
  <2>1. CASE told
    <3>1. Admitted /\ Enqueue(j)
      BY <2>1 DEF ItemChanges, j
    <3> QED
      BY <1>1, <3>1, EnqueuedJobs DEF NewAreLetIn
  <2>2. CASE ~told
    BY <2>2, UnchangedJobs DEF ItemChanges, NewAreLetIn
  <2> QED
    BY <2>1, <2>2
<1> QED
  BY <1>2, JobsCome, Counted DEF ItemChanges, CountsHold

-----------------------------------------------------------------------------
(* Requests go on *)

(* A step of a request for one document, whatever it does to it.           *)
LEMMA RequestSteps ==
    ASSUME VaultInv, NEW q \in Req, req[q] # Idle, NEW d \in Doc, req[q].doc = d,
           NEW r, r = Idle \/ Fits(r),
           req' = [req EXCEPT ![q] = r],
           StoresHold', JobsStay, UNCHANGED <<source, made, w, bounds>>,
           mishaps \subseteq mishaps', Good(d)',
           passed[d] \subseteq passed'[d], r.at = "persist" => r.v \in passed'[r.doc],
           \A e \in Doc \ {d} : SameStores(e) /\ NewAreLetIn(e) /\ passed[e] \subseteq passed'[e]
    PROVE  VaultInv'
<1> USE DEF VaultInv, Sound
<1>0. RequestsHold' /\ CountsHold'
  BY RequestGoes DEF CountsHold, bounds
<1>1. RequestsHold' /\ CountsHold' /\ PullsHold'
  BY <1>0, PullsStay DEF Fits
<1>2. ASSUME NEW e \in Doc, e # d PROVE Good(e)'
  <2>1. SameStores(e) /\ (Asked(e) => Asked(e)') /\ (Clearing(e) => Clearing(e)')
    BY <1>2, OthersAsk
  <2> QED
    BY <2>1, StaysLetIn, StaysWhole DEF Good, SameStores
<1> QED
  BY <1>1, <1>2, WorkerWaits

(* Where a request is, and what of its course it goes to.                  *)
LEMMA RequestIsAt ==
    ASSUME RequestsHold, NEW q \in Req, req[q].at # "idle"
    PROVE  /\ req[q] # Idle /\ Fits(req[q]) /\ req[q].doc \in Doc /\ req[q].v \in Content /\ req[q].copy \in RowStatus
           /\ \A step : LET r == [req[q] EXCEPT !.at = step] IN
                 step \in {"drop", "clear", "save", "queue", "erase", "persist"} \cup DeletionStep
                    => r \in Request /\ r.doc = req[q].doc /\ r.op = req[q].op /\ r.v = req[q].v /\ r.at = step
<1>1. req[q] # Idle
  BY DEF Idle
<1>2. Fits(req[q]) /\ req[q] \in Request
  BY <1>1 DEF RequestsHold, Fits
<1> QED
  BY <1>1, <1>2 DEF Request

LEMMA Replaced ==
    ASSUME RequestsHold, NEW q \in Req, NEW r, req' = [req EXCEPT ![q] = r]
    PROVE  req'[q] = r /\ \A p \in Req : p # q => req'[p] = req[p]
  BY DEF RequestsHold

LEMMA Dropping ==
    ASSUME VaultInv, NEW q \in Req, Drop(q)
    PROVE  VaultInv'
<1> USE DEF VaultInv, Sound
<1>0. PICK d \in Doc : d = req[q].doc
  BY RequestIsAt DEF Drop
<1> DEFINE r == [req[q] EXCEPT !.at = "clear"]
<1>1. req[q] # Idle /\ Fits(req[q]) /\ req[q].at = "drop"
      /\ r \in Request /\ r.doc = d /\ r.op = req[q].op /\ r.at = "clear"
  BY <1>0, RequestIsAt DEF Drop
<1>2. Fits(r) /\ r # Idle
  BY <1>1 DEF Fits, Courses, Idle, DeletionStep
<1>3. req' = [req EXCEPT ![q] = r] /\ req'[q] = r
  BY Replaced DEF Drop, Goes
<1> HIDE DEF r
<1>4. JobsStay
  BY UnchangedJobs DEF Drop
<1>5. vectors' = [vectors EXCEPT ![d] = {}]
  BY <1>0 DEF Drop, DropVectors
<1>6. StoresHold'
  BY <1>1, <1>5 DEF StoresHold, Drop, history
<1>7. Asked(d)' /\ Clearing(d)'
  BY <1>1, <1>2, <1>3 DEF Asked, Clearing
<1>8. PassedAt(d)'
  <2>1. vectors'[d] = {} /\ text' = text /\ passed' = passed /\ mishaps' = mishaps /\ w' = w /\ NewAreLetIn(d)
    BY <1>1, <1>5 DEF Drop, StoresHold, history, NewAreLetIn
  <2> QED
    BY <1>1, <1>4, <2>1, StaysLetIn DEF Good
<1>9. WholeAt(d)'
  <2>1. w' = w /\ jobs' = jobs /\ text' = text /\ mishaps' = mishaps
    BY DEF Drop, history
  <2>2. HashesAreStored(d)' /\ ShownIsWhole(d)'
    BY <1>7 DEF HashesAreStored, ShownIsWhole, Coming
  <2>3. (RestIsStored(d) => RestIsStored(d)') /\ (Emptied(d) => Emptied(d)')
    BY <2>1, <1>7 DEF RestIsStored, Embedding, Emptied, Coming, Mine, Drop
  <2> QED
    BY <1>1, <2>1, <2>2, <2>3 DEF Good, WholeAt, Befell
<1> QED
  BY <1>0, <1>1, <1>2, <1>3, <1>4, <1>5, <1>6, <1>8, <1>9, RequestSteps
     DEF Drop, history, NewAreLetIn, SameStores, StoresHold, Good

LEMMA Clearings ==
    ASSUME VaultInv, NEW q \in Req, Clear(q)
    PROVE  VaultInv'
<1> USE DEF VaultInv, Sound
<1>0. PICK d \in Doc : d = req[q].doc
  BY RequestIsAt DEF Clear
<1> DEFINE step == IF req[q].op = "delete" THEN "erase" ELSE "save"
           r == [req[q] EXCEPT !.at = step]
<1>1. req[q] # Idle /\ Fits(req[q]) /\ req[q].at = "clear"
      /\ r \in Request /\ r.doc = d /\ r.op = req[q].op /\ r.at = step
  BY <1>0, RequestIsAt DEF Clear
<1>2. Fits(r) /\ r # Idle /\ (r.at = "erase" \/ (r.at = "save" /\ r.op \in {"ingest", "reindex"}))
  BY <1>1 DEF Fits, Courses, Idle, DeletionStep
<1>3. req' = [req EXCEPT ![q] = r] /\ req'[q] = r
  BY Replaced DEF Clear, Goes
<1> HIDE DEF r, step
<1>4. JobsStay
  BY UnchangedJobs DEF Clear
<1>5. hashes' = [hashes EXCEPT ![d] = {}] /\ hashes'[d] = {}
  BY <1>0 DEF Clear, ClearHashes, StoresHold
<1>6. StoresHold'
  BY <1>1, <1>5 DEF StoresHold, Clear, history, Mark, Lineage
<1>7. Asked(d)'
  BY <1>1, <1>2, <1>3 DEF Asked
<1>8. PassedAt(d)'
  <2>1. vectors' = vectors /\ text' = text /\ passed' = passed /\ mishaps' = mishaps /\ w' = w /\ NewAreLetIn(d)
    BY DEF Clear, history, NewAreLetIn
  <2> QED
    BY <1>1, <1>4, <2>1, StaysLetIn DEF Good
<1>9. WholeAt(d)'
  <2>1. w' = w /\ jobs' = jobs /\ text' = text /\ mishaps' = mishaps
    BY DEF Clear, history
  <2>2. HashesAreStored(d)' /\ ShownIsWhole(d)'
    BY <1>5, <1>7 DEF HashesAreStored, ShownIsWhole, Coming
  <2>3. (RestIsStored(d) => RestIsStored(d)') /\ (Emptied(d) => Emptied(d)')
    BY <2>1, <1>5, <1>7 DEF RestIsStored, Embedding, Emptied, Coming, Mine
  <2> QED
    BY <1>1, <2>1, <2>2, <2>3 DEF Good, WholeAt, Befell
<1> QED
  BY <1>0, <1>1, <1>2, <1>3, <1>4, <1>5, <1>6, <1>8, <1>9, RequestSteps
     DEF Clear, history, NewAreLetIn, SameStores, StoresHold, Good

LEMMA Saving ==
    ASSUME VaultInv, NEW q \in Req, Save(q)
    PROVE  VaultInv'
<1> USE DEF VaultInv, Sound
<1>0. PICK d \in Doc : d = req[q].doc
  BY RequestIsAt DEF Save
<1> DEFINE queued == [req[q] EXCEPT !.at = "queue"]
           r == IF req[q].op = "annotate" THEN Idle ELSE queued
           status == IF req[q].op = "annotate" THEN req[q].copy ELSE "Parsing"
<1>1. req[q] # Idle /\ Fits(req[q]) /\ req[q].at = "save" /\ status \in RowStatus
      /\ queued \in Request /\ queued.doc = d /\ queued.op = req[q].op /\ queued.at = "queue"
  BY <1>0, RequestIsAt DEF Save, RowStatus
<1>2. req[q].op # "annotate" => Fits(queued) /\ queued # Idle /\ queued.op \in {"ingest", "reindex", "pull"}
  BY <1>1 DEF Fits, Courses, Idle, DeletionStep
<1>3. req' = [req EXCEPT ![q] = r] /\ req'[q] = r /\ r.at # "persist"
  BY <1>1, Replaced DEF Save, Goes, Ends, Idle
<1> HIDE DEF queued
<1>4. JobsStay
  BY UnchangedJobs DEF Save
<1>5. row' = [row EXCEPT ![d] = status] /\ row'[d] = status
  BY <1>0 DEF Save, SaveRow, StoresHold
<1>6. mishaps' = IF req[q].op = "annotate" /\ row[d] # status THEN mishaps \cup {<<d, "stale">>} ELSE mishaps
  BY <1>0 DEF Save, BefallsIf
<1>7. StoresHold' /\ mishaps \subseteq mishaps'
  BY <1>1, <1>5, <1>6 DEF StoresHold, Save, Mishap
<1>8. PassedAt(d)'
  <2>1. vectors' = vectors /\ text' = text /\ passed' = passed /\ w' = w /\ NewAreLetIn(d)
    BY DEF Save, NewAreLetIn
  <2> QED
    BY <1>1, <1>4, <1>7, <2>1, StaysLetIn DEF Good
<1>9. WholeAt(d)'
  <2>1. w' = w /\ jobs' = jobs /\ text' = text /\ hashes' = hashes /\ vectors' = vectors
    BY DEF Save
  <2>2. Clearing(d) => Clearing(d)'
    BY <1>1, Replaced, <1>3 DEF Clearing, DeletionStep
  <2>3. Asked(d) => Asked(d)'
    BY <1>1, <1>2, <1>3, Replaced DEF Asked, DeletionStep
  <2>4. Coming(d) => Coming(d)'
    BY <2>1, <2>3 DEF Coming, Waiting
  <2>5. HashesAreStored(d) => HashesAreStored(d)'
    BY <2>1, <2>2 DEF HashesAreStored, Mine
  <2>6. (RestIsStored(d) => RestIsStored(d)') /\ (Emptied(d) => Emptied(d)')
    BY <2>1, <2>4 DEF RestIsStored, Embedding, Emptied, Mine
  <2>7. ShownIsWhole(d) => ShownIsWhole(d)' \/ Befell(d, {"cut", "stale", "torn"})'
    <3>1. CASE row'[d] = row[d]
      BY <2>1, <2>4, <3>1 DEF ShownIsWhole, WorkedOn, Mine
    <3>2. CASE row'[d] # row[d] /\ req[q].op = "annotate"
      BY <3>2, <1>5, <1>6 DEF Befell
    <3>3. CASE req[q].op # "annotate"
      BY <3>3, <1>5 DEF ShownIsWhole, status
    <3> QED
      BY <3>1, <3>2, <3>3
  <2> QED
    BY <1>1, <1>7, <2>5, <2>6, <2>7, BefellStays DEF Good, WholeAt
<1> QED
  BY <1>0, <1>1, <1>2, <1>3, <1>4, <1>5, <1>7, <1>8, <1>9, RequestSteps
     DEF Save, NewAreLetIn, SameStores, StoresHold, Good

(* The job of a request comes to be before the request ends.               *)
LEMMA Queueing ==
    ASSUME VaultInv, NEW q \in Req, Queue(q)
    PROVE  VaultInv'
<1> USE DEF VaultInv, Sound
<1>0. PICK d \in Doc : d = req[q].doc
  BY RequestIsAt DEF Queue
<1>1. /\ req[q] # Idle /\ Fits(req[q]) /\ req[q].at = "queue" /\ req[q].v \in Content /\ Admitted
      /\ req[q].op \in {"ingest", "reindex", "release", "pull"}
  <2>1. req[q].at = "queue" /\ Admitted
    BY DEF Queue
  <2>2. req[q] # Idle /\ Fits(req[q]) /\ req[q].v \in Content
    BY <2>1, RequestIsAt
  <2> QED
    BY <2>1, <2>2 DEF Fits, Courses, DeletionStep
<1>2. req' = [req EXCEPT ![q] = Idle] /\ req'[q] = Idle
  BY Replaced DEF Queue, Ends
<1>3. PICK j \in Job :
          /\ Enqueue(j) /\ j.doc = d /\ j.st = "waiting" /\ (j.kind = "event" => j.v # Nothing)
          /\ req[q].op = "release" => j.v = req[q].v /\ req[q].v \in Version
          /\ req[q].op # "release" => j.kind \in {"ingest", "embed"} /\ ~j.skip
  <2>1. CASE req[q].op = "release"
    <3> DEFINE j == NewJob(IF origin = "sync" THEN "event" ELSE "ingest", d, req[q].v, TRUE)
    <3>1. j \in Job /\ Enqueue(j)
      BY <1>0, <1>1, <2>1, NewJobIsJob DEF Queue
    <3>2. req[q].v \in Version
      BY <1>1, <2>1, Contents DEF Fits
    <3> QED
      BY <2>1, <3>1, <3>2, Contents DEF NewJob
  <2>2. CASE req[q].op = "pull" \/ (req[q].op = "reindex" /\ origin = "sync")
    <3> DEFINE j == NewJob("embed", d, Nothing, FALSE)
    <3>1. j \in Job /\ Enqueue(j)
      BY <1>0, <2>2, Contents, NewJobIsJob DEF Queue
    <3> QED
      BY <2>2, <3>1 DEF NewJob
  <2>3. CASE ~(req[q].op = "release") /\ ~(req[q].op = "pull" \/ (req[q].op = "reindex" /\ origin = "sync"))
    <3> DEFINE j == NewJob("ingest", d, Nothing, FALSE)
    <3>1. j \in Job /\ Enqueue(j)
      BY <1>0, <2>3, Contents, NewJobIsJob DEF Queue
    <3> QED
      BY <2>3, <3>1 DEF NewJob
  <2> QED
    BY <2>1, <2>2, <2>3
<1>4. JobsStay
  BY <1>1, <1>3, EnqueuedJobs
<1>5. PICK m \in Number : jobs[m] = NoJob /\ jobs'[m] = j /\ \A n \in Number : n # m => jobs'[n] = jobs[n]
  BY <1>1, <1>3, EnqueuedJobs
<1>6. /\ passed' \in [Doc -> SUBSET Version] /\ \A e \in Doc : passed[e] \subseteq passed'[e]
      /\ req[q].op = "release" => req[q].v \in passed'[d]
  BY <1>0, <1>3 DEF Queue, StoresHold
<1>7. \A e \in Doc : NewAreLetIn(e)
  BY <1>1, <1>3, <1>5, <1>6 DEF NewAreLetIn
<1>8. staged' \in [Doc -> Content]
  <2>1. (IF req[q].op = "ingest" THEN req[q].v ELSE Original(d)) \in Content
    BY <1>1, Contents DEF StoresHold
  <2> QED
    BY <1>0, <2>1 DEF Queue, StageBytes, StoresHold
<1>9. StoresHold'
  BY <1>6, <1>8 DEF Queue, StoresHold
<1>10. /\ w' = w /\ text' = text /\ vectors' = vectors /\ hashes' = hashes /\ row' = row /\ mishaps' = mishaps
  BY DEF Queue
<1>11. PassedAt(d)'
  BY <1>4, <1>6, <1>7, <1>10, StaysLetIn DEF Good
<1>12. Clearing(d) => Clearing(d)'
  BY <1>1, <1>2, Replaced DEF Clearing, DeletionStep
<1>13. WholeAt(d)'
  <2>1. CASE req[q].op = "release"
    <3>1. Asked(d) => Asked(d)'
      BY <1>1, <1>2, <2>1, Replaced DEF Asked, DeletionStep
    <3> QED
      BY <1>4, <1>10, <1>12, <3>1, StaysWhole DEF Good, SameStores
  <2>2. CASE req[q].op # "release"
    <3>1. w # Idle => w.n # m
      BY <1>5, JobIsThere DEF WorkerHolds, Mine
    <3>2. Coming(d)'
      BY <1>3, <1>5, <1>10, <2>2, <3>1, JobIsThere DEF Coming, Waiting
    <3>3. w # Idle => Mine' = Mine
      BY <1>5, <1>10, <3>1 DEF WorkerHolds, Mine, Work
    <3> QED
      BY <1>10, <1>12, <3>2, <3>3 DEF Good, WholeAt, HashesAreStored, RestIsStored, Embedding, Emptied, ShownIsWhole, Befell
  <2> QED
    BY <2>1, <2>2
<1> QED
  BY <1>0, <1>1, <1>2, <1>4, <1>6, <1>7, <1>9, <1>10, <1>11, <1>13, RequestSteps
     DEF Queue, SameStores, Good, Idle

LEMMA Approving ==
    ASSUME VaultInv, NEW q \in Req, Approve(q)
    PROVE  VaultInv'
<1> USE DEF VaultInv, Sound
<1>0. PICK d \in Doc : d = req[q].doc
  BY RequestIsAt DEF Approve
<1> DEFINE queued == [req[q] EXCEPT !.at = "queue"]
           r == IF req[q].v = Nothing THEN Idle ELSE queued
<1>1. req[q] # Idle /\ Fits(req[q]) /\ req[q].at = "approve"
      /\ queued \in Request /\ queued.doc = d /\ queued.op = req[q].op /\ queued.at = "queue" /\ queued.v = req[q].v
  BY <1>0, RequestIsAt DEF Approve
<1>2. (r = Idle \/ Fits(r)) /\ r.at # "persist"
  BY <1>1 DEF Fits, Courses, DeletionStep, Idle
<1>3. req' = [req EXCEPT ![q] = r]
  BY DEF Approve, Goes, Ends
<1> HIDE DEF r
<1>4. JobsStay
  BY UnchangedJobs DEF Approve
<1>5. StoresHold'
  BY <1>0 DEF StoresHold, Approve, history, Hold
<1>6. /\ \A e \in Doc : SameStores(e) /\ NewAreLetIn(e)
      /\ w' = w /\ passed' = passed /\ mishaps' = mishaps
  BY DEF Approve, history, SameStores, NewAreLetIn
<1>7. (Asked(d) => Asked(d)') /\ (Clearing(d) => Clearing(d)')
  BY <1>1, <1>3, Replaced DEF Asked, Clearing, DeletionStep
<1>8. Good(d)'
  BY <1>4, <1>6, <1>7, StaysLetIn, StaysWhole DEF Good, SameStores
<1> QED
  BY <1>0, <1>1, <1>2, <1>3, <1>4, <1>5, <1>6, <1>8, RequestSteps DEF Approve

LEMMA Removing ==
    ASSUME VaultInv, NEW q \in Req, Unlist(q)
    PROVE  VaultInv'
<1> USE DEF VaultInv, Sound
<1>0. PICK d \in Doc : d = req[q].doc
  BY RequestIsAt DEF Unlist
<1> DEFINE r == [req[q] EXCEPT !.at = "drop"]
<1>1. req[q] # Idle /\ Fits(req[q]) /\ req[q].at = "remove"
      /\ r \in Request /\ r.doc = d /\ r.op = req[q].op /\ r.at = "drop"
  BY <1>0, RequestIsAt DEF Unlist
<1>2. Fits(r)
  BY <1>1 DEF Fits, Courses, DeletionStep
<1>3. req' = [req EXCEPT ![q] = r]
  BY DEF Unlist, Goes
<1> HIDE DEF r
<1>4. JobsStay
  BY UnchangedJobs DEF Unlist
<1>5. row' = [row EXCEPT ![d] = "none"] /\ row'[d] = "none"
  BY <1>0 DEF Unlist, RemoveRow, StoresHold
<1>6. StoresHold'
  BY <1>0 DEF StoresHold, Unlist, RemoveRow, history, RowStatus
<1>7. /\ \A e \in Doc : NewAreLetIn(e)
      /\ text' = text /\ vectors' = vectors /\ hashes' = hashes /\ jobs' = jobs
      /\ w' = w /\ passed' = passed /\ mishaps' = mishaps
  BY DEF Unlist, history, NewAreLetIn
<1>8. (Asked(d) => Asked(d)') /\ (Clearing(d) => Clearing(d)')
  BY <1>1, <1>3, Replaced DEF Asked, Clearing, DeletionStep
<1>9. PassedAt(d)'
  BY <1>4, <1>7, StaysLetIn DEF Good
<1>10. WholeAt(d)'
  <2>1. Coming(d) => Coming(d)'
    BY <1>7, <1>8 DEF Coming, Waiting
  <2>2. ShownIsWhole(d)'
    BY <1>5 DEF ShownIsWhole
  <2> QED
    BY <1>7, <1>8, <2>1, <2>2 DEF Good, WholeAt, HashesAreStored, RestIsStored, Embedding, Emptied, Mine, Befell
<1> QED
  BY <1>0, <1>1, <1>2, <1>3, <1>4, <1>5, <1>6, <1>7, <1>9, <1>10, RequestSteps
     DEF Unlist, RemoveRow, SameStores, StoresHold, Good

(* A document without a text is not missed.                                *)
LEMMA WithoutText ==
    ASSUME Sound, NEW d \in Doc, WholeAt(d), w' = w, jobs' = jobs, mishaps' = mishaps,
           text'[d] = Nothing, Clearing(d) => Clearing(d)',
           UNCHANGED <<hashes, vectors>> \/ hashes'[d] = {}
    PROVE  WholeAt(d)'
<1>1. ShownIsWhole(d)'
  BY DEF ShownIsWhole
<1>2. (RestIsStored(d) => RestIsStored(d)') /\ (Emptied(d) => Emptied(d)')
  BY DEF RestIsStored, Embedding, Emptied, Mine
<1>3. HashesAreStored(d) => HashesAreStored(d)'
  BY DEF HashesAreStored, Mine
<1> QED
  BY <1>1, <1>2, <1>3 DEF WholeAt, Befell

LEMMA ErasingText ==
    ASSUME VaultInv, NEW q \in Req, EraseText(q)
    PROVE  VaultInv'
<1> USE DEF VaultInv, Sound
<1>0. PICK d \in Doc : d = req[q].doc
  BY RequestIsAt DEF EraseText
<1>1. req[q] # Idle /\ req[q].at = "erase"
  BY RequestIsAt DEF EraseText
<1>2. req' = [req EXCEPT ![q] = Idle]
  BY DEF EraseText, Ends
<1>3. JobsStay
  BY UnchangedJobs DEF EraseText
<1>4. text' = [text EXCEPT ![d] = Nothing] /\ text'[d] = Nothing
  BY <1>0 DEF EraseText, SaveText, StoresHold
<1>5. StoresHold'
  BY <1>4, Contents DEF StoresHold, EraseText, history
<1>6. /\ \A e \in Doc : NewAreLetIn(e)
      /\ row' = row /\ vectors' = vectors /\ hashes' = hashes /\ jobs' = jobs
      /\ w' = w /\ passed' = passed /\ mishaps' = mishaps
  BY DEF EraseText, history, NewAreLetIn
<1>7. Clearing(d) => Clearing(d)'
  BY <1>1, <1>2, Replaced DEF Clearing, DeletionStep
<1>8. Good(d)'
  BY <1>3, <1>4, <1>6, <1>7, StaysLetIn, WithoutText DEF Good
<1> QED
  BY <1>0, <1>1, <1>2, <1>3, <1>4, <1>5, <1>6, <1>8, RequestSteps DEF EraseText, SameStores, StoresHold, Idle

(* What a write of a deletion leaves of a document.                        *)
LEMMA Erased ==
    ASSUME StoresHold, NEW d \in Doc, NEW step \in DeletionStep, Erase(d, step), UNCHANGED <<staged, hold, passed>>,
           mishaps' \subseteq Doc \X Mishap
    PROVE  /\ StoresHold' /\ \A e \in Doc \ {d} : SameStores(e)
           /\ row'[d] = IF step = "unlist" THEN "none" ELSE row[d]
           /\ text'[d] = IF step = "wipe" THEN Nothing ELSE text[d]
           /\ vectors'[d] = IF step \in {"purge", "sift"} THEN {} ELSE vectors[d]
           /\ hashes'[d] = IF step \in {"forget", "seal"} THEN {} ELSE hashes[d]
<1> USE DEF StoresHold, Erase
<1>1. /\ row' = IF step = "unlist" THEN [row EXCEPT ![d] = "none"] ELSE row
      /\ row' \in [Doc -> RowStatus]
  BY DEF RemoveRow, RowStatus
<1>2. /\ text' = IF step = "wipe" THEN [text EXCEPT ![d] = Nothing] ELSE text
      /\ text' \in [Doc -> Content]
  BY Contents DEF SaveText
<1>3. /\ vectors' = IF step \in {"purge", "sift"} THEN [vectors EXCEPT ![d] = {}] ELSE vectors
      /\ vectors' \in [Doc -> SUBSET Chunk]
  BY DEF DropVectors
<1>4. /\ hashes' = IF step \in {"forget", "seal"} THEN [hashes EXCEPT ![d] = {}] ELSE hashes
      /\ hashes' \in [Doc -> SUBSET Chunk]
  BY DEF ClearHashes
<1>5. lineage' \in [Doc -> Lineage]
  BY DEF Mark, Lineage
<1> QED
  BY <1>1, <1>2, <1>3, <1>4, <1>5 DEF SameStores

LEMMA NextStep ==
    ASSUME NEW step \in DeletionStep
    PROVE  IF step = "seal" THEN AfterStep(step) = "ack" ELSE AfterStep(step) \in DeletionStep
  BY DEF DeletionStep, AfterStep

(* A request that goes on, or ends, and has changed no document: it was    *)
(* nowhere where it is waited for.                                         *)
LEMMA RequestMoves ==
    ASSUME VaultInv, NEW q \in Req, req[q].at \in {"approve", "sweep", "read"}, NEW d \in Doc, req[q].doc = d,
           NEW r, r = Idle \/ Fits(r), req' = [req EXCEPT ![q] = r], StoresHold',
           UNCHANGED <<row, text, vectors, hashes, jobs, source, made, w, bounds, mishaps>>,
           \A e \in Doc : passed[e] \subseteq passed'[e], r.at = "persist" => r.v \in passed'[r.doc]
    PROVE  VaultInv'
<1> USE DEF VaultInv, Sound
<1>1. req[q] # Idle
  BY DEF Idle
<1>2. JobsStay /\ \A e \in Doc : SameStores(e) /\ NewAreLetIn(e)
  BY UnchangedJobs DEF SameStores, NewAreLetIn
<1>3. (Asked(d) => Asked(d)') /\ (Clearing(d) => Clearing(d)')
  BY <1>1, Replaced DEF Asked, Clearing, DeletionStep
<1>4. Good(d)'
  BY <1>2, <1>3, StaysLetIn, StaysWhole DEF Good, SameStores
<1> QED
  BY <1>1, <1>2, <1>4, RequestSteps

LEMMA Sweeping ==
    ASSUME VaultInv, NEW q \in Req, Sweep(q)
    PROVE  VaultInv'
<1> USE DEF VaultInv, Sound
<1> DEFINE forget == [req[q] EXCEPT !.at = "forget"]
<1>1. /\ req[q].at = "sweep" /\ req[q].doc \in Doc /\ Fits(req[q])
      /\ forget \in Request /\ forget.op = req[q].op /\ forget.at = "forget"
  BY RequestIsAt DEF Sweep, DeletionStep
<1>2. PICK d \in Doc : d = req[q].doc
  BY <1>1
<1>3. Fits(forget)
  BY <1>1 DEF Fits, Courses, DeletionStep
<1>4. PICK r : (r = Idle \/ r = forget) /\ req' = [req EXCEPT ![q] = r]
  BY DEF Sweep, Goes, Ends
<1> HIDE DEF forget
<1>5. r.at # "persist"
  BY <1>1, <1>4 DEF Idle
<1>6. StoresHold'
  BY <1>2 DEF Sweep, StoresHold, Bury, Lineage, history
<1>7. UNCHANGED <<row, text, vectors, hashes, jobs, source, made, w, bounds, mishaps, passed>>
  BY DEF Sweep, history
<1> QED
  BY <1>1, <1>2, <1>3, <1>4, <1>5, <1>6, <1>7, RequestMoves

(* While a sweep deletes it is waited for; in the end there is no          *)
(* fingerprint, and no text but one that came meanwhile.                   *)
LEMMA SweepingOn ==
    ASSUME VaultInv, NEW q \in Req, SweepErases(q)
    PROVE  VaultInv'
<1> USE DEF VaultInv, Sound
<1>1. PICK step \in DeletionStep : step = req[q].at
  BY DEF SweepErases
<1> DEFINE on == [req[q] EXCEPT !.at = AfterStep(step)]
           r == IF step = "seal" THEN Idle ELSE on
<1>2. /\ req[q] # Idle /\ req[q].doc \in Doc /\ Fits(req[q])
      /\ step # "seal" => on \in Request /\ on.doc = req[q].doc /\ on.op = req[q].op /\ on.at \in DeletionStep
  BY <1>1, RequestIsAt, NextStep DEF DeletionStep
<1>3. PICK d \in Doc : d = req[q].doc
  BY <1>2
<1>4. step # "seal" => Fits(on)
  BY <1>1, <1>2 DEF Fits, Courses, DeletionStep
<1>5. req' = [req EXCEPT ![q] = r] /\ req'[q] = r
  BY <1>1, Replaced DEF SweepErases, Goes, Ends
<1>6. r.at # "persist" /\ (r = Idle \/ Fits(r)) /\ (step # "seal" => r.at \in DeletionStep /\ r.doc = d /\ r # Idle)
  BY <1>2, <1>3, <1>4 DEF Idle, DeletionStep
<1> HIDE DEF r, on
<1>7. mishaps' = IF step = "seal" /\ text[d] # Nothing THEN mishaps \cup {<<d, "torn">>} ELSE mishaps
  BY <1>1, <1>3 DEF SweepErases, BefallsIf
<1>8. mishaps \subseteq mishaps' /\ mishaps' \subseteq Doc \X Mishap
  BY <1>7 DEF Mishap, StoresHold
<1>9. /\ JobsStay /\ (\A e \in Doc : NewAreLetIn(e)) /\ w' = w /\ passed' = passed /\ jobs' = jobs
      /\ Erase(d, step) /\ UNCHANGED <<staged, hold, source, made, bounds>>
  BY <1>1, <1>3, UnchangedJobs DEF SweepErases, NewAreLetIn
<1>10. /\ StoresHold' /\ \A e \in Doc \ {d} : SameStores(e)
       /\ row'[d] = IF step = "unlist" THEN "none" ELSE row[d]
       /\ text'[d] = IF step = "wipe" THEN Nothing ELSE text[d]
       /\ vectors'[d] = IF step \in {"purge", "sift"} THEN {} ELSE vectors[d]
       /\ hashes'[d] = IF step \in {"forget", "seal"} THEN {} ELSE hashes[d]
  BY <1>8, <1>9, Erased
<1>11. PassedAt(d)'
  BY <1>8, <1>9, <1>10, StaysLetIn DEF Good
<1>12. WholeAt(d)'
  <2>1. CASE step # "seal"
    <3>1. Asked(d)' /\ Clearing(d)'
      BY <1>2, <1>5, <1>6, <2>1 DEF Asked, Clearing
    <3>2. HashesAreStored(d)' /\ ShownIsWhole(d)'
      BY <3>1 DEF HashesAreStored, ShownIsWhole, Coming
    <3>3. (RestIsStored(d) => RestIsStored(d)') /\ (Emptied(d) => Emptied(d)')
      BY <1>9, <1>10, <3>1 DEF RestIsStored, Embedding, Emptied, Coming, Mine
    <3> QED
      BY <1>8, <3>2, <3>3, BefellStays DEF Good, WholeAt
  <2>2. CASE step = "seal" /\ text[d] # Nothing
    <3>1. Befell(d, {"cut", "torn"})' /\ Befell(d, {"cut", "stale", "torn"})'
      BY <1>7, <2>2 DEF Befell
    <3> QED
      BY <3>1 DEF WholeAt
  <2>3. CASE step = "seal" /\ text[d] = Nothing
    <3>1. hashes'[d] = {} /\ text'[d] = Nothing
      BY <1>10, <2>3
    <3>2. HashesAreStored(d)' /\ ShownIsWhole(d)' /\ Emptied(d)' /\ (RestIsStored(d) => RestIsStored(d)')
      BY <1>9, <3>1 DEF HashesAreStored, ShownIsWhole, RestIsStored, Embedding, Emptied, Mine
    <3> QED
      BY <1>8, <3>2, BefellStays DEF Good, WholeAt
  <2> QED
    BY <2>1, <2>2, <2>3
<1> QED
  BY <1>2, <1>3, <1>5, <1>6, <1>8, <1>9, <1>10, <1>11, <1>12, RequestSteps DEF Good

(* An item comes past the worker: only what was let in is saved.           *)
LEMMA Pulling ==
    ASSUME VaultInv, NEW q \in Req, PullStops(q) \/ PullAccept(q)
    PROVE  VaultInv'
<1> USE DEF VaultInv, Sound
<1> DEFINE persist == [req[q] EXCEPT !.at = "persist"]
<1>1. /\ req[q].at = "read" /\ req[q].doc \in Doc /\ req[q].v \in Content /\ Fits(req[q])
      /\ persist \in Request /\ persist.op = req[q].op /\ persist.at = "persist"
      /\ persist.doc = req[q].doc /\ persist.v = req[q].v
  BY RequestIsAt DEF PullStops, PullAccept
<1>2. PICK d \in Doc : d = req[q].doc
  BY <1>1
<1>3. Fits(persist) /\ req[q].v \in Version
  BY <1>1, Contents DEF Fits, Courses, DeletionStep
<1>4. lineage' \in [Doc -> Lineage] /\ hold' \in [Doc -> Hold]
  <2>1. lineage' = [lineage EXCEPT ![d] = "live"]
    BY <1>2 DEF PullStops, PullAccept, Record
  <2>2. hold' = hold \/ hold' = [hold EXCEPT ![d] = [@ EXCEPT !.status = "HELD", !.v = req[q].v]]
    BY <1>2 DEF PullStops, PullAccept, HoldBack, history
  <2>3. [hold[d] EXCEPT !.status = "HELD", !.v = req[q].v] \in Hold
    BY <1>1 DEF StoresHold, Hold
  <2>4. hold' \in [Doc -> Hold]
    BY <2>2, <2>3 DEF StoresHold
  <2> QED
    BY <2>1, <2>4 DEF StoresHold, Lineage
<1>5. UNCHANGED <<row, staged, text, vectors, hashes, jobs, source, made, w, bounds, mishaps>>
  BY DEF PullStops, PullAccept, history
<1>6. CASE PullStops(q)
  <2>1. req' = [req EXCEPT ![q] = Idle] /\ passed' = passed /\ Idle.at # "persist"
    BY <1>6 DEF PullStops, Ends, history, Idle
  <2>2. StoresHold'
    BY <1>4, <1>5, <2>1 DEF StoresHold
  <2> QED
    BY <1>1, <1>2, <1>5, <2>1, <2>2, RequestMoves
<1>7. CASE PullAccept(q)
  <2>1. req' = [req EXCEPT ![q] = persist] /\ passed' = [passed EXCEPT ![d] = @ \cup {req[q].v}]
    BY <1>2, <1>7 DEF PullAccept, Goes
  <2>2. /\ passed' \in [Doc -> SUBSET Version] /\ \A e \in Doc : passed[e] \subseteq passed'[e]
        /\ req[q].v \in passed'[d]
    BY <1>3, <2>1 DEF StoresHold
  <2>3. StoresHold'
    BY <1>4, <1>5, <2>2 DEF StoresHold
  <2> HIDE DEF persist
  <2> QED
    BY <1>1, <1>2, <1>3, <1>5, <2>1, <2>2, <2>3, RequestMoves
<1> QED
  BY <1>6, <1>7

LEMMA PullingOn ==
    ASSUME VaultInv, NEW q \in Req, PullPersist(q)
    PROVE  VaultInv'
<1> USE DEF VaultInv, Sound
<1> DEFINE r == [req[q] EXCEPT !.at = "save"]
<1>1. /\ req[q] # Idle /\ req[q].at = "persist" /\ req[q].doc \in Doc /\ req[q].v \in Content /\ Fits(req[q])
      /\ r \in Request /\ r.op = req[q].op /\ r.at = "save" /\ r.doc = req[q].doc
  BY RequestIsAt DEF PullPersist
<1>2. PICK d \in Doc : d = req[q].doc
  BY <1>1
<1>3. Fits(r) /\ r.op = "pull" /\ r # Idle
  BY <1>1 DEF Fits, Courses, DeletionStep, Idle
<1>4. req' = [req EXCEPT ![q] = r] /\ req'[q] = r
  BY Replaced DEF PullPersist, Goes
<1> HIDE DEF r
<1>5. req[q].v \in passed[d]
  BY <1>1, <1>2 DEF PullsHold, LetIn
<1>6. text' = [text EXCEPT ![d] = req[q].v] /\ text'[d] = req[q].v
  BY <1>2 DEF PullPersist, SaveText, StoresHold
<1>7. /\ JobsStay /\ (\A e \in Doc : NewAreLetIn(e))
      /\ UNCHANGED <<row, staged, vectors, hashes, lineage, hold, jobs, source, made, w, bounds, passed, mishaps>>
  BY UnchangedJobs DEF PullPersist, NewAreLetIn, history
<1>8. StoresHold' /\ \A e \in Doc \ {d} : SameStores(e)
  BY <1>1, <1>6, <1>7 DEF StoresHold, SameStores
<1>9. PassedAt(d)'
  BY <1>5, <1>6, <1>7, StaysLetIn DEF Good
<1>10. Asked(d)' /\ (Clearing(d) => Clearing(d)')
  <2>1. Asked(d)'
    BY <1>1, <1>2, <1>3, <1>4 DEF Asked
  <2>2. Clearing(d) => Clearing(d)'
    BY <1>1, <1>4, Replaced DEF Clearing, DeletionStep
  <2> QED
    BY <2>1, <2>2
<1>11. WholeAt(d)'
  <2>1. HashesAreStored(d) => HashesAreStored(d)'
    BY <1>7, <1>10 DEF HashesAreStored, Mine
  <2>2. (RestIsStored(d) => RestIsStored(d)') /\ (Emptied(d) => Emptied(d)')
    BY <1>7, <1>10 DEF RestIsStored, Embedding, Emptied, Coming, Mine
  <2>3. ShownIsWhole(d)'
    BY <1>10 DEF ShownIsWhole, Coming
  <2> QED
    BY <1>7, <2>1, <2>2, <2>3 DEF Good, WholeAt, Befell
<1> QED
  BY <1>1, <1>2, <1>3, <1>4, <1>7, <1>8, <1>9, <1>11, RequestSteps DEF Good

-----------------------------------------------------------------------------
(* The worker *)

LEMMA WorkerIsAt ==
    ASSUME WorkerHolds, w.at # "idle"
    PROVE  /\ w # Idle /\ w \in Work /\ w.n \in Number /\ w.at \in Stage /\ w.v \in Content /\ w.left \subseteq Chunk
           /\ w.copy \in RowStatus /\ w.next \in Stage \cup {"idle"}
           /\ Mine \in Job /\ Mine.doc \in Doc /\ w.at \in StagesOf(Mine.kind)
           /\ Mine.kind \in {"ingest", "event", "embed", "delete"} /\ Mine.v \in Content
           /\ Mine.tries \in 0 .. MaxAttempts - 1
           /\ w.at \notin {"notify", "save"} => Mine.st = "waiting"
           /\ Reading => w.v # Nothing
<1>1. w # Idle
  BY DEF Idle
<1> QED
  BY <1>1, JobIsThere DEF WorkerHolds, Work, Job

(* It goes to a stage, or finds a row that it will save back first.        *)
Moves(stage, next, status) == w' = [w EXCEPT !.at = stage, !.next = next, !.copy = status]

LEMMA TurnsMoves ==
    ASSUME NEW stage \in Stage, Turns(stage)
    PROVE  Moves(stage, stage, "none") /\ "none" \in RowStatus
  BY DEF Turns, Moves, Stage, DeletionStep, RowStatus

LEMMA FindsMoves ==
    ASSUME NEW d, NEW status \in RowStatus, NEW stage \in Stage, Finds(d, status, stage)
    PROVE  \/ Moves("save", stage, status)
           \/ row[d] = "none" /\ Moves(stage, stage, "none") /\ "none" \in RowStatus
  BY TurnsMoves DEF Finds, Listed, Moves

LEMMA Moved ==
    ASSUME w \in Work, NEW stage \in Stage, NEW next \in Stage \cup {"idle"}, NEW status \in RowStatus,
           Moves(stage, next, status), jobs' = jobs
    PROVE  /\ w' # Idle /\ w' \in Work /\ Mine' = Mine
           /\ w'.at = stage /\ w'.n = w.n /\ w'.v = w.v /\ w'.left = w.left /\ w'.next = next /\ w'.copy = status
<1>1. /\ w' \in Work /\ w'.at = stage /\ w'.n = w.n /\ w'.v = w.v /\ w'.left = w.left
      /\ w'.next = next /\ w'.copy = status
  BY DEF Moves, Work
<1>2. w' # Idle
  BY <1>1 DEF Idle, Stage, DeletionStep
<1> QED
  BY <1>1, <1>2 DEF Mine

LEMMA NothingCounted ==
    ASSUME CountsHold, UNCHANGED <<source, made, bounds>>
    PROVE  CountsHold'
  BY DEF CountsHold, bounds

(* What is written to a row or to the lineage.                             *)
LEMMA Written ==
    ASSUME StoresHold, NEW d \in Doc
    PROVE  /\ \A status \in RowStatus : SaveRow(d, status) =>
                  row' \in [Doc -> RowStatus] /\ row'[d] = status /\ \A e \in Doc \ {d} : row'[e] = row[e]
           /\ Record(d) \/ Bury(d) \/ Mark(d, "live") => lineage' \in [Doc -> Lineage]
<1>1. ASSUME NEW status \in RowStatus, SaveRow(d, status)
      PROVE  row' \in [Doc -> RowStatus] /\ row'[d] = status /\ \A e \in Doc \ {d} : row'[e] = row[e]
  BY <1>1 DEF SaveRow, StoresHold
<1>2. Record(d) \/ Bury(d) \/ Mark(d, "live") => lineage' \in [Doc -> Lineage]
  BY DEF Record, Bury, Mark, StoresHold, Lineage
<1> QED
  BY <1>1, <1>2

(* A step of the worker is about its own document.                         *)
LEMMA WorkerActs ==
    ASSUME VaultInv, NEW d \in Doc, w # Idle => Mine.doc = d, w' # Idle => Mine'.doc = d,
           StoresHold', CountsHold', JobsHold', WorkerHolds', req' = req,
           mishaps \subseteq mishaps', Good(d)', passed[d] \subseteq passed'[d],
           \A e \in Doc \ {d} : SameStores(e) /\ passed'[e] = passed[e],
           \A n \in Number :
               \/ jobs'[n] = jobs[n]
               \/ /\ jobs[n] = NoJob \/ jobs[n].doc = d
                  /\ jobs'[n] = NoJob \/ jobs'[n].doc = d
    PROVE  VaultInv'
<1> USE DEF VaultInv, Sound
<1>1. RequestsHold' /\ PullsHold'
  <2>1. \A e \in Doc : passed[e] \subseteq passed'[e]
    OBVIOUS
  <2> QED
    BY <2>1, PullsStay DEF RequestsHold
<1>2. ASSUME NEW e \in Doc, e # d PROVE Good(e)'
  <2>1. SameStores(e) /\ passed'[e] = passed[e] /\ Good(e)
    BY <1>2
  <2>2. \A n \in Number :
            \/ jobs'[n] = jobs[n]
            \/ /\ jobs[n] = NoJob \/ jobs[n].doc # e
               /\ jobs'[n] = NoJob \/ jobs'[n].doc # e
    BY <1>2
  <2>3. (w # Idle => Mine.doc # e) /\ (w' # Idle => Mine'.doc # e)
    BY <1>2
  <2> QED
    BY <2>1, <2>2, <2>3, Elsewhere
<1> QED
  BY <1>1, <1>2

(* It goes to its next stage: what must be so for it and its document.     *)
LEMMA Turning ==
    ASSUME VaultInv, NEW d \in Doc, w # Idle, Mine.doc = d,
           NEW stage \in Stage, NEW next \in Stage \cup {"idle"}, NEW status \in RowStatus, Moves(stage, next, status),
           stage \in StagesOf(Mine.kind),
           stage = "save" => /\ next \in SavedThen(Mine.kind)
                             /\ next \in {"discard", "attach", "ack", "idle"} => status # "Indexed",
           Mine.st = "dead" => stage = "save" /\ next = "idle",
           stage \in {"show", "stage", "parse"} \/ (stage = "save" /\ next = "stage") => Reading,
           jobs' = jobs, req' = req, CountsHold', StoresHold', mishaps \subseteq mishaps',
           \A e \in Doc \ {d} : SameStores(e) /\ passed'[e] = passed[e],
           passed[d] \subseteq passed'[d], vectors'[d] \subseteq vectors[d] \cup w.left,
           AllPassed(d) => text'[d] \in {text[d], Nothing} \cup passed[d],
           AllPassed(d) /\ stage = "persist" => w.v \in passed'[d],
           WholeAt(d)'
    PROVE  VaultInv'
<1>1. /\ w' # Idle /\ w' \in Work /\ Mine' = Mine
      /\ w'.at = stage /\ w'.n = w.n /\ w'.v = w.v /\ w'.left = w.left /\ w'.next = next /\ w'.copy = status
  BY Moved DEF VaultInv, Sound, WorkerHolds
<1>2. Reading' => Reading
  BY <1>1 DEF Reading
<1>3. WorkerHolds' /\ JobsHold'
  BY <1>1, <1>2 DEF VaultInv, Sound, WorkerHolds, JobsHold
<1>4. PassedAt(d)'
  <2>1. SUFFICES ASSUME AllPassed(d) PROVE AllPassed(d)'
    BY BefellStays DEF PassedAt, VaultInv, Good
  <2>2. PassedChunks(d) \subseteq PassedChunks(d)'
    BY DEF PassedChunks
  <2>3. w.left \subseteq PassedChunks(d)' /\ vectors'[d] \subseteq PassedChunks(d)'
    BY <2>1, <2>2 DEF AllPassed
  <2>4. text'[d] = Nothing \/ text'[d] \in passed'[d]
    BY <2>1 DEF AllPassed
  <2>5. \A n \in Number : jobs'[n] # NoJob /\ jobs'[n].doc = d /\ jobs'[n].skip => jobs'[n].v \in passed'[d]
    BY <2>1 DEF AllPassed
  <2>6. w'.at = "persist" \/ (Reading' /\ Mine.skip) => w.v \in passed'[d]
    BY <1>1, <1>2, <2>1 DEF AllPassed
  <2> QED
    BY <1>1, <2>1, <2>3, <2>4, <2>5, <2>6 DEF AllPassed
<1> QED
  BY <1>1, <1>3, <1>4, WorkerActs DEF Good

LEMMA TurnsWhole ==
    ASSUME VaultInv, NEW d \in Doc, w # Idle, Mine.doc = d, w.at # "commit",
           NEW stage \in Stage \ ({"embed", "commit", "finish"} \cup DeletionStep), NEW next \in Stage \cup {"idle"},
           NEW status \in RowStatus, Moves(stage, next, status), ~ (stage = "save" /\ next = "mark"),
           jobs' = jobs, req' = req, mishaps \subseteq mishaps', hashes'[d] = hashes[d], vectors'[d] = vectors[d],
           \/ stage \in {"label", "queue"}
           \/ Mine.kind \in {"ingest", "embed"} /\ stage \notin {"attach", "discard", "mark", "ack"}
           \/ row'[d] # "Indexed"
           \/ ~WorkedOn(d) /\ row'[d] = row[d] /\ text'[d] = text[d]
    PROVE  WholeAt(d)'
<1>1. w' # Idle /\ Mine' = Mine /\ w'.at = stage /\ w'.n = w.n /\ w'.next = next
  BY Moved DEF VaultInv, Sound, WorkerHolds
<1>2. RestIsStored(d)' /\ Emptied(d)'
  BY <1>1 DEF RestIsStored, Embedding, Emptied
<1>3. Asked(d)' = Asked(d) /\ Clearing(d)' = Clearing(d) /\ Waiting(d)' = Waiting(d)
  BY <1>1 DEF Asked, Clearing, Waiting
<1>4. HashesAreStored(d) => HashesAreStored(d)'
  BY <1>3 DEF HashesAreStored
<1>5. ShownIsWhole(d) => ShownIsWhole(d)'
  BY <1>1, <1>3 DEF ShownIsWhole, Coming, WorkedOn
<1> QED
  BY <1>2, <1>4, <1>5, BefellStays DEF VaultInv, Good, WholeAt

(* It waits again, with the jobs as they are.                              *)
LEMMA GoesIdle ==
    ASSUME VaultInv, NEW d \in Doc, w # Idle, Mine.doc = d, w.at # "commit", w' = Idle,
           UNCHANGED <<text, vectors, hashes, jobs, source, made, req, bounds, history>>, StoresHold',
           \A e \in Doc \ {d} : row'[e] = row[e],
           row'[d] # "Indexed" \/ (~WorkedOn(d) /\ row'[d] = row[d])
    PROVE  VaultInv'
<1> USE DEF VaultInv, Sound
<1>1. JobsHold' /\ WorkerHolds' /\ mishaps' = mishaps /\ passed' = passed
  BY DEF JobsHold, WorkerHolds, history
<1>2. PassedAt(d)'
  BY <1>1 DEF Good, PassedAt, AllPassed, PassedChunks, Befell
<1>3. WholeAt(d)'
  <2>1. HashesAreStored(d) => HashesAreStored(d)'
    BY DEF HashesAreStored, Clearing
  <2>2. RestIsStored(d)' /\ Emptied(d)'
    BY DEF RestIsStored, Embedding, Emptied
  <2>3. Coming(d) => Coming(d)'
    BY DEF Coming, Asked, Waiting
  <2>4. ShownIsWhole(d) => ShownIsWhole(d)'
    BY <2>3 DEF ShownIsWhole
  <2> QED
    BY <1>1, <2>1, <2>2, <2>4 DEF Good, WholeAt, Befell
<1> QED
  BY <1>1, <1>2, <1>3, WorkerActs, NothingCounted DEF SameStores, Good

(* A row that was found is written back: the job goes on from there.       *)
LEMMA SavedBack ==
    ASSUME VaultInv, SaveBack
    PROVE  VaultInv'
<1> USE DEF VaultInv, Sound
<1>1. /\ w.at = "save" /\ w # Idle /\ w \in Work /\ Mine \in Job /\ w.copy \in RowStatus
      /\ Mine.kind \in {"ingest", "event", "embed", "delete"} /\ Mine.st \in {"waiting", "dead"}
  BY WorkerIsAt, JobIsThere DEF SaveBack
<1>2. PICK d \in Doc : d = Mine.doc
  BY WorkerIsAt DEF SaveBack
<1>3. /\ w.next \in SavedThen(Mine.kind)
      /\ w.next \in {"discard", "attach", "ack", "idle"} => w.copy # "Indexed"
      /\ Mine.st = "dead" => w.next = "idle"
      /\ w.next = "stage" => Reading
  BY <1>1 DEF WorkerHolds, Reading
<1>4. row' \in [Doc -> RowStatus] /\ row'[d] = w.copy /\ \A e \in Doc \ {d} : row'[e] = row[e]
  BY <1>1, <1>2, Written DEF SaveBack
<1>5. /\ UNCHANGED <<staged, text, vectors, hashes, lineage, hold, jobs, source, made, req, bounds, passed, mishaps>>
      /\ StoresHold'
  BY <1>4 DEF SaveBack, history, StoresHold
<1>6. \A e \in Doc \ {d} : SameStores(e) /\ passed'[e] = passed[e]
  BY <1>4, <1>5 DEF SameStores
<1>7. CASE w.next = "idle"
  <2>1. w' = Idle
    BY <1>7 DEF SaveBack, Turns
  <2> QED
    BY <1>1, <1>2, <1>3, <1>4, <1>5, <1>7, <2>1, GoesIdle DEF history
<1>8. CASE w.next = "mark"
  <2>1. "mark" \in Stage /\ Mine.kind = "embed" /\ Turns("mark")
    BY <1>1, <1>3, <1>8 DEF SavedThen, SaveBack, Stage
  <2>2. Moves("mark", "mark", "none") /\ "none" \in RowStatus
    BY <2>1, TurnsMoves
  <2>3. w' # Idle /\ Mine' = Mine /\ w'.at = "mark" /\ w'.next = "mark" /\ w'.n = w.n
    BY <1>1, <1>5, <2>1, <2>2, Moved
  <2>4. WholeAt(d)'
    <3>1. Asked(d)' = Asked(d) /\ Clearing(d)' = Clearing(d) /\ Waiting(d)' = Waiting(d)
      BY <1>1, <1>5, <2>3 DEF Asked, Clearing, Waiting
    <3>2. HashesAreStored(d) => HashesAreStored(d)'
      BY <1>1, <1>5, <3>1 DEF HashesAreStored
    <3>3. RestIsStored(d)' /\ Emptied(d)'
      BY <2>3 DEF RestIsStored, Embedding, Emptied, DeletionStep
    <3>4. RestIsStored(d) => ShownIsWhole(d)'
      BY <1>1, <1>2, <1>5, <1>8, <3>1 DEF RestIsStored, Embedding, ShownIsWhole, Coming
    <3> QED
      BY <1>5, <3>2, <3>3, <3>4 DEF Good, WholeAt, Befell
  <2> QED
    BY <1>1, <1>2, <1>3, <1>5, <1>6, <1>8, <2>1, <2>2, <2>4, Turning, NothingCounted DEF StagesOf
<1>9. CASE w.next \notin {"idle", "mark"}
  <2>1. /\ w.next \in {"stage", "discard", "attach", "queue", "ack"} /\ w.next \in Stage /\ Turns(w.next)
        /\ w.next \in StagesOf(Mine.kind) /\ Mine.kind \in {"ingest", "embed"} /\ w.next \notin DeletionStep
    BY <1>1, <1>3, <1>9 DEF SavedThen, StagesOf, SaveBack, Stage, DeletionStep
  <2>2. Moves(w.next, w.next, "none") /\ "none" \in RowStatus
    BY <2>1, TurnsMoves
  <2>3. WholeAt(d)'
    BY <1>1, <1>2, <1>3, <1>4, <1>5, <2>1, <2>2, TurnsWhole
  <2> QED
    BY <1>1, <1>2, <1>3, <1>5, <1>6, <1>9, <2>1, <2>2, <2>3, Turning, NothingCounted
<1> QED
  BY <1>7, <1>8, <1>9

(* Before it is read, an upload may say Parsing again.                     *)
LEMMA Showing ==
    ASSUME VaultInv, ShowAgain
    PROVE  VaultInv'
<1> USE DEF VaultInv, Sound
<1>1. w.at = "show" /\ w # Idle /\ Mine \in Job /\ w.at \in StagesOf(Mine.kind) /\ Mine.st = "waiting"
  BY WorkerIsAt DEF ShowAgain
<1>2. PICK d \in Doc : d = Mine.doc
  BY WorkerIsAt DEF ShowAgain
<1>3. Mine.kind = "ingest" /\ Reading
  BY <1>1, WorkerIsAt DEF StagesOf, Reading, DeletionStep
<1>4. /\ UNCHANGED <<row, staged, text, vectors, hashes, lineage, hold, jobs, source, made, req, bounds, passed, mishaps>>
      /\ StoresHold' /\ \A e \in Doc : SameStores(e) /\ passed'[e] = passed[e]
  BY DEF ShowAgain, stores, history, StoresHold, SameStores
<1>5. PICK stage \in {"save", "stage"}, status \in {"Parsing", "none"} : Moves(stage, "stage", status)
  BY <1>2, FindsMoves DEF ShowAgain, Stage, RowStatus
<1>6. stage \in Stage /\ "stage" \in Stage /\ status \in RowStatus /\ stage \in StagesOf("ingest") /\ stage \notin DeletionStep
  BY <1>5 DEF Stage, StagesOf, RowStatus, DeletionStep
<1>7. WholeAt(d)'
  BY <1>1, <1>2, <1>3, <1>4, <1>5, <1>6, TurnsWhole
<1> QED
  BY <1>1, <1>2, <1>3, <1>4, <1>5, <1>6, <1>7, Turning, NothingCounted DEF SavedThen

LEMMA Noted ==
    ASSUME VaultInv, NoteStaged
    PROVE  VaultInv'
<1> USE DEF VaultInv, Sound
<1>1. w.at = "stage" /\ w # Idle /\ Mine \in Job /\ w.at \in StagesOf(Mine.kind) /\ Mine.st = "waiting" /\ Turns("parse")
  BY WorkerIsAt DEF NoteStaged
<1>2. PICK d \in Doc : d = Mine.doc
  BY WorkerIsAt DEF NoteStaged
<1>3. Mine.kind \in {"ingest", "event"} /\ Reading
  BY <1>1, WorkerIsAt DEF StagesOf, Reading, DeletionStep
<1>4. lineage' \in [Doc -> Lineage]
  BY <1>2, Written DEF NoteStaged
<1>5. /\ UNCHANGED <<row, staged, text, vectors, hashes, hold, jobs, source, made, req, bounds, passed, mishaps>>
      /\ StoresHold' /\ \A e \in Doc : SameStores(e) /\ passed'[e] = passed[e]
  BY <1>4 DEF NoteStaged, history, StoresHold, SameStores
<1>6. "parse" \in Stage /\ Moves("parse", "parse", "none") /\ "none" \in RowStatus
      /\ "parse" \in StagesOf(Mine.kind) /\ "parse" \notin DeletionStep
  BY <1>1, <1>3, TurnsMoves DEF Stage, StagesOf, DeletionStep
<1>7. Mine.kind = "event" => ~WorkedOn(d)
  BY <1>1 DEF WorkedOn
<1>8. WholeAt(d)'
  BY <1>1, <1>2, <1>3, <1>5, <1>6, <1>7, TurnsWhole DEF SameStores
<1> QED
  BY <1>1, <1>2, <1>3, <1>5, <1>6, <1>8, Turning, NothingCounted

(* A deletion: once it has begun there is no fingerprint, and at the end   *)
(* no text but one that came since and is to be embedded.                  *)
LEMMA WorkerErased ==
    ASSUME VaultInv, WorkerErases
    PROVE  VaultInv'
<1> USE DEF VaultInv, Sound
<1>1. PICK step \in DeletionStep : step = w.at
  BY DEF WorkerErases
<1>2. /\ w # Idle /\ w \in Work /\ Mine \in Job /\ w.at \in StagesOf(Mine.kind) /\ Mine.st = "waiting"
      /\ Mine.kind \in {"ingest", "event", "embed", "delete"}
  BY <1>1, WorkerIsAt DEF DeletionStep
<1>3. PICK d \in Doc : d = Mine.doc
  BY <1>1, WorkerIsAt DEF DeletionStep
<1>4. Mine.kind = "delete"
  BY <1>1, <1>2 DEF StagesOf, DeletionStep
<1> DEFINE on == AfterStep(step)
<1>5. /\ on \in Stage /\ on \in StagesOf("delete") /\ Turns(on)
      /\ on \notin {"save", "show", "stage", "parse", "persist", "embed", "commit", "finish", "label", "queue"}
      /\ step = "seal" => on = "ack"
      /\ step # "seal" => on \in DeletionStep /\ on \notin {"attach", "discard", "mark", "ack"}
  BY <1>1 DEF AfterStep, DeletionStep, Stage, StagesOf, WorkerErases
<1>6. step = "forget" => on = "purge"
  BY DEF AfterStep
<1>7. on \in {"unlist", "sift", "seal"} => step \in {"wipe", "unlist", "sift"}
  BY DEF AfterStep, DeletionStep
<1> HIDE DEF on
<1>8. Moves(on, on, "none") /\ "none" \in RowStatus
  BY <1>5, TurnsMoves
<1>9. /\ UNCHANGED <<staged, hold, jobs, source, made, req, bounds, passed, mishaps>> /\ Erase(d, step)
  BY <1>1, <1>3 DEF WorkerErases, history
<1>10. /\ StoresHold' /\ \A e \in Doc \ {d} : SameStores(e)
       /\ row'[d] = IF step = "unlist" THEN "none" ELSE row[d]
       /\ text'[d] = IF step = "wipe" THEN Nothing ELSE text[d]
       /\ vectors'[d] = IF step \in {"purge", "sift"} THEN {} ELSE vectors[d]
       /\ hashes'[d] = IF step \in {"forget", "seal"} THEN {} ELSE hashes[d]
  BY <1>9, Erased DEF StoresHold
<1>11. w' # Idle /\ Mine' = Mine /\ w'.at = on /\ w'.next = on /\ w'.n = w.n
  BY <1>2, <1>5, <1>8, <1>9, Moved
<1>12. Coming(d) => Coming(d)'
  BY <1>2, <1>9, <1>11 DEF Coming, Asked, Waiting
<1>13. WholeAt(d)'
  <2>1. RestIsStored(d)'
    BY <1>5, <1>11 DEF RestIsStored, Embedding
  <2>2. Emptied(d) => hashes'[d] = {}
    BY <1>1, <1>2, <1>3, <1>10 DEF Emptied
  <2>3. Emptied(d) => HashesAreStored(d)'
    BY <2>2 DEF HashesAreStored
  <2>4. Emptied(d) => Emptied(d)'
    <3>1. ASSUME Emptied(d), on \in {"unlist", "sift", "seal"} PROVE text'[d] = Nothing \/ Coming(d)'
      <4>1. CASE step = "wipe"
        BY <1>10, <4>1
      <4>2. CASE step # "wipe"
        BY <1>1, <1>2, <1>3, <1>7, <1>10, <1>12, <3>1, <4>2 DEF Emptied, DeletionStep
      <4> QED
        BY <4>1, <4>2
    <3> QED
      BY <1>11, <2>2, <3>1 DEF Emptied
  <2>5. Emptied(d) => ShownIsWhole(d)'
    <3>1. CASE step # "seal"
      BY <1>3, <1>4, <1>5, <1>11, <3>1 DEF ShownIsWhole, WorkedOn
    <3>2. CASE step = "seal"
      BY <1>1, <1>2, <1>3, <1>10, <1>12, <3>2 DEF Emptied, ShownIsWhole, DeletionStep
    <3> QED
      BY <3>1, <3>2
  <2>6. Befell(d, {"cut", "torn"}) => Befell(d, {"cut", "stale", "torn"})
    BY DEF Befell
  <2> QED
    BY <1>9, <2>1, <2>3, <2>4, <2>5, <2>6 DEF Good, WholeAt, Befell
<1> QED
  BY <1>2, <1>3, <1>4, <1>5, <1>8, <1>9, <1>10, <1>13, Turning, NothingCounted

(* It ends, keeps out or lets in what it parses.                           *)
LEMMA Discarded ==
    ASSUME VaultInv, Unusable
    PROVE  VaultInv'
<1> USE DEF VaultInv, Sound
<1>1. w.at = "parse" /\ w # Idle /\ Mine \in Job /\ "parse" \in StagesOf(Mine.kind) /\ Mine.st = "waiting"
  BY WorkerIsAt DEF Unusable
<1>2. PICK d \in Doc : d = Mine.doc
  BY WorkerIsAt DEF Unusable
<1>3. Mine.kind \in {"ingest", "event"}
  BY <1>1, WorkerIsAt DEF StagesOf, DeletionStep
<1>4. lineage' \in [Doc -> Lineage]
  BY <1>2, Written DEF Unusable
<1>5. /\ UNCHANGED <<row, staged, text, vectors, hashes, hold, jobs, source, made, req, bounds, passed, mishaps>>
      /\ StoresHold' /\ \A e \in Doc : SameStores(e) /\ passed'[e] = passed[e]
  BY <1>4 DEF Unusable, history, StoresHold, SameStores
<1>6. "discard" \in Stage
  BY DEF Stage
<1>7. PICK stage \in {"save", "discard"}, status \in {"Rejected", "Error", "none"} :
          /\ Moves(stage, "discard", status)
          /\ stage = "save" => Mine.kind = "ingest"
          /\ stage = "discard" => row[d] = "none" \/ Mine.kind = "event"
  <2>1. CASE Mine.kind = "ingest"
    BY <1>2, <1>6, <2>1, FindsMoves DEF Unusable, RowStatus
  <2>2. CASE Mine.kind # "ingest"
    BY <1>3, <1>6, <2>2, TurnsMoves DEF Unusable
  <2> QED
    BY <2>1, <2>2
<1>8. stage \in Stage /\ status \in RowStatus /\ stage \in StagesOf(Mine.kind) /\ stage \notin DeletionStep
  BY <1>3, <1>7 DEF Stage, StagesOf, RowStatus, DeletionStep
<1>9. Mine.kind = "event" => ~WorkedOn(d)
  BY <1>1 DEF WorkedOn
<1>10. WholeAt(d)'
  BY <1>1, <1>2, <1>3, <1>5, <1>6, <1>7, <1>8, <1>9, TurnsWhole DEF SameStores
<1> QED
  BY <1>1, <1>2, <1>3, <1>5, <1>6, <1>7, <1>8, <1>10, Turning, NothingCounted DEF SavedThen

LEMMA Refused ==
    ASSUME VaultInv, Refuse
    PROVE  VaultInv'
<1> USE DEF VaultInv, Sound
<1>1. /\ w.at = "parse" /\ w # Idle /\ Mine \in Job /\ "parse" \in StagesOf(Mine.kind) /\ Mine.st = "waiting"
      /\ w.v \in Content
  BY WorkerIsAt DEF Refuse
<1>2. PICK d \in Doc : d = Mine.doc
  BY WorkerIsAt DEF Refuse
<1>3. Mine.kind \in {"ingest", "event"}
  BY <1>1, WorkerIsAt DEF StagesOf, DeletionStep
<1>4. lineage' \in [Doc -> Lineage] /\ hold' \in [Doc -> Hold]
  <2>1. hold' = [hold EXCEPT ![d] = [@ EXCEPT !.status = "HELD", !.v = w.v]]
    BY <1>2 DEF Refuse, HoldBack
  <2>2. [hold[d] EXCEPT !.status = "HELD", !.v = w.v] \in Hold
    BY <1>1 DEF StoresHold, Hold
  <2>3. hold' \in [Doc -> Hold]
    BY <2>1, <2>2 DEF StoresHold
  <2> QED
    BY <1>2, <2>3, Written DEF Refuse
<1>5. /\ UNCHANGED <<row, staged, text, vectors, hashes, jobs, source, made, req, bounds, passed, mishaps>>
      /\ StoresHold' /\ \A e \in Doc : SameStores(e) /\ passed'[e] = passed[e]
  BY <1>4 DEF Refuse, history, StoresHold, SameStores
<1>6. "attach" \in Stage
  BY DEF Stage
<1>7. PICK stage \in {"save", "attach"}, status \in {"Rejected", "none"} :
          /\ Moves(stage, "attach", status)
          /\ stage = "save" => Mine.kind = "ingest"
          /\ stage = "attach" => row[d] = "none" \/ Mine.kind = "event"
  <2>1. CASE Mine.kind = "ingest"
    BY <1>2, <1>6, <2>1, FindsMoves DEF Refuse, RowStatus
  <2>2. CASE Mine.kind # "ingest"
    BY <1>3, <1>6, <2>2, TurnsMoves DEF Refuse
  <2> QED
    BY <2>1, <2>2
<1>8. stage \in Stage /\ status \in RowStatus /\ stage \in StagesOf(Mine.kind) /\ stage \notin DeletionStep
  BY <1>3, <1>7 DEF Stage, StagesOf, RowStatus, DeletionStep
<1>9. Mine.kind = "event" => ~WorkedOn(d)
  BY <1>1 DEF WorkedOn
<1>10. WholeAt(d)'
  BY <1>1, <1>2, <1>3, <1>5, <1>6, <1>7, <1>8, <1>9, TurnsWhole DEF SameStores
<1> QED
  BY <1>1, <1>2, <1>3, <1>5, <1>6, <1>7, <1>8, <1>10, Turning, NothingCounted DEF SavedThen

LEMMA Attached ==
    ASSUME VaultInv, Attach
    PROVE  VaultInv'
<1> USE DEF VaultInv, Sound
<1>1. w.at = "attach" /\ w # Idle /\ Mine \in Job /\ "attach" \in StagesOf(Mine.kind) /\ Mine.st = "waiting" /\ Turns("ack")
  BY WorkerIsAt DEF Attach
<1>2. PICK d \in Doc : d = Mine.doc
  BY WorkerIsAt DEF Attach
<1>3. hold' \in [Doc -> Hold]
  <2>1. hold' = [hold EXCEPT ![d] = [@ EXCEPT !.replay = TRUE]]
    BY <1>2 DEF Attach
  <2>2. [hold[d] EXCEPT !.replay = TRUE] \in Hold
    BY DEF StoresHold, Hold
  <2> QED
    BY <2>1, <2>2 DEF StoresHold
<1>4. /\ UNCHANGED <<row, staged, text, vectors, hashes, lineage, jobs, source, made, req, bounds, passed, mishaps>>
      /\ StoresHold' /\ \A e \in Doc : SameStores(e) /\ passed'[e] = passed[e]
  BY <1>3 DEF Attach, history, StoresHold, SameStores
<1>5. "ack" \in Stage /\ Moves("ack", "ack", "none") /\ "none" \in RowStatus /\ "ack" \notin DeletionStep
      /\ "ack" \in StagesOf(Mine.kind)
  BY <1>1, TurnsMoves DEF Stage, DeletionStep, StagesOf
<1>6. WholeAt(d)'
  BY <1>1, <1>2, <1>4, <1>5, TurnsWhole DEF WorkedOn, SameStores
<1> QED
  BY <1>1, <1>2, <1>4, <1>5, <1>6, Turning, NothingCounted

LEMMA Accepted ==
    ASSUME VaultInv, Accept
    PROVE  VaultInv'
<1> USE DEF VaultInv, Sound
<1>1. /\ w.at = "parse" /\ w # Idle /\ Mine \in Job /\ "parse" \in StagesOf(Mine.kind) /\ Mine.st = "waiting"
      /\ w.v \in Content /\ w.v # Nothing /\ Turns("persist") /\ Reading
  BY WorkerIsAt DEF Accept, Reading
<1>2. PICK d \in Doc : d = Mine.doc
  BY WorkerIsAt DEF Accept
<1>3. Mine.kind \in {"ingest", "event"}
  BY <1>1, WorkerIsAt DEF StagesOf, DeletionStep
<1>4. w.v \in Version
  BY <1>1, Contents
<1>5. /\ passed' \in [Doc -> SUBSET Version] /\ \A e \in Doc \ {d} : passed'[e] = passed[e]
      /\ passed[d] \subseteq passed'[d] /\ (~Mine.skip => w.v \in passed'[d])
  BY <1>2, <1>4 DEF Accept, StoresHold
<1>6. lineage' \in [Doc -> Lineage]
  BY <1>2, Written DEF Accept
<1>7. /\ UNCHANGED <<row, staged, text, vectors, hashes, hold, jobs, source, made, req, bounds, mishaps>>
      /\ StoresHold' /\ \A e \in Doc : SameStores(e)
  BY <1>5, <1>6 DEF Accept, StoresHold, SameStores
<1>8. "persist" \in Stage /\ Moves("persist", "persist", "none") /\ "none" \in RowStatus
      /\ "persist" \notin DeletionStep /\ "persist" \in StagesOf(Mine.kind)
  BY <1>1, <1>3, TurnsMoves DEF Stage, DeletionStep, StagesOf
<1>9. Mine.kind = "event" => ~WorkedOn(d)
  BY <1>1 DEF WorkedOn
<1>10. WholeAt(d)'
  BY <1>1, <1>2, <1>3, <1>7, <1>8, <1>9, TurnsWhole DEF SameStores
<1>11. AllPassed(d) => w.v \in passed'[d]
  BY <1>1, <1>2, <1>5 DEF AllPassed
<1> QED
  BY <1>1, <1>2, <1>5, <1>7, <1>8, <1>10, <1>11, Turning, NothingCounted DEF SameStores

(* The text of a document, its labels, and that it is to be embedded.      *)
LEMMA Persisted ==
    ASSUME VaultInv, Persist
    PROVE  VaultInv'
<1> USE DEF VaultInv, Sound
<1>1. /\ w.at = "persist" /\ w # Idle /\ Mine \in Job /\ "persist" \in StagesOf(Mine.kind) /\ Mine.st = "waiting"
      /\ w.v \in Content /\ Turns("label")
  BY WorkerIsAt DEF Persist
<1>2. PICK d \in Doc : d = Mine.doc
  BY WorkerIsAt DEF Persist
<1>3. Mine.kind \in {"ingest", "event"}
  BY <1>1, WorkerIsAt DEF StagesOf, DeletionStep
<1>4. text' \in [Doc -> Content] /\ text'[d] = w.v /\ \A e \in Doc \ {d} : text'[e] = text[e]
  BY <1>1, <1>2 DEF Persist, SaveText, StoresHold
<1>5. /\ UNCHANGED <<row, staged, vectors, hashes, lineage, hold, jobs, source, made, req, bounds, passed, mishaps>>
      /\ StoresHold' /\ \A e \in Doc \ {d} : SameStores(e) /\ passed'[e] = passed[e]
  BY <1>4 DEF Persist, history, StoresHold, SameStores
<1>6. "label" \in Stage /\ Moves("label", "label", "none") /\ "none" \in RowStatus
      /\ "label" \notin DeletionStep /\ "label" \in StagesOf(Mine.kind)
  BY <1>1, <1>3, TurnsMoves DEF Stage, DeletionStep, StagesOf
<1>7. WholeAt(d)'
  BY <1>1, <1>2, <1>5, <1>6, TurnsWhole
<1>8. AllPassed(d) => w.v \in passed[d]
  BY <1>1, <1>2 DEF AllPassed
<1> QED
  BY <1>1, <1>2, <1>4, <1>5, <1>6, <1>7, <1>8, Turning, NothingCounted

LEMMA Labelled ==
    ASSUME VaultInv, LabelUpload \/ RegisterSynced
    PROVE  VaultInv'
<1> USE DEF VaultInv, Sound
<1>1. /\ w.at = "label" /\ w # Idle /\ Mine \in Job /\ Mine.st = "waiting" /\ Mine.kind \in {"ingest", "event"}
  BY WorkerIsAt DEF LabelUpload, RegisterSynced
<1>2. PICK d \in Doc : d = Mine.doc
  BY <1>1, WorkerIsAt
<1>3. row[d] \in RowStatus /\ "Parsing" \in RowStatus /\ "queue" \in Stage
  BY DEF StoresHold, RowStatus, Stage
<1>4. row' \in [Doc -> RowStatus] /\ \A e \in Doc \ {d} : row'[e] = row[e]
  BY <1>2, <1>3, Written DEF LabelUpload, RegisterSynced, stores, StoresHold
<1>5. /\ UNCHANGED <<staged, text, vectors, hashes, lineage, hold, jobs, source, made, req, bounds, passed, mishaps>>
      /\ StoresHold' /\ \A e \in Doc \ {d} : SameStores(e) /\ passed'[e] = passed[e]
  BY <1>4 DEF LabelUpload, RegisterSynced, stores, history, StoresHold, SameStores
<1>6. PICK stage \in {"save", "queue"}, status \in RowStatus :
          Moves(stage, "queue", status) /\ (stage = "save" => Mine.kind = "ingest")
  <2>1. CASE LabelUpload
    BY <1>2, <1>3, <2>1, FindsMoves DEF LabelUpload
  <2>2. CASE RegisterSynced
    BY <1>3, <2>2, TurnsMoves DEF RegisterSynced
  <2> QED
    BY <2>1, <2>2
<1>7. stage \in Stage /\ stage \in StagesOf(Mine.kind) /\ stage \notin DeletionStep
  BY <1>1, <1>6 DEF Stage, StagesOf, DeletionStep
<1>8. WholeAt(d)'
  BY <1>1, <1>2, <1>3, <1>5, <1>6, <1>7, TurnsWhole
<1> QED
  BY <1>1, <1>2, <1>3, <1>5, <1>6, <1>7, <1>8, Turning, NothingCounted DEF SavedThen

LEMMA ToEmbed ==
    ASSUME VaultInv, QueueEmbed
    PROVE  VaultInv'
<1> USE DEF VaultInv, Sound
<1>1. w.at = "queue" /\ w # Idle /\ w \in Work /\ Mine \in Job /\ "queue" \in StagesOf(Mine.kind) /\ Mine.st = "waiting"
  BY WorkerIsAt DEF QueueEmbed
<1>2. PICK d \in Doc : d = Mine.doc
  BY WorkerIsAt DEF QueueEmbed
<1>3. Mine.kind \in {"ingest", "event"}
  BY <1>1, WorkerIsAt DEF StagesOf, DeletionStep
<1> DEFINE j == NewJob("embed", d, Nothing, FALSE)
<1>4. j \in Job /\ j.doc = d /\ j.kind = "embed" /\ j.st = "waiting" /\ ~j.skip /\ Admitted /\ Enqueue(j)
  BY <1>2, Contents, NewJobIsJob DEF QueueEmbed, NewJob
<1> HIDE DEF j
<1>5. PICK m \in Number : jobs[m] = NoJob /\ jobs'[m] = j /\ \A n \in Number : n # m => jobs'[n] = jobs[n]
  BY <1>4, EnqueuedJobs
<1>6. JobsHold'
  BY <1>4, EnqueuedJobs DEF JobsStay
<1>7. w.n # m
  BY <1>1, <1>5, JobIsThere DEF Mine
<1>8. w' # Idle /\ w' \in Work /\ w'.at = "discard" /\ w'.n = w.n /\ w'.v = w.v /\ w'.left = w.left
  BY <1>1 DEF QueueEmbed, Turns, Work, Stage, DeletionStep, Idle, RowStatus
<1>9. Mine' = Mine
  BY <1>1, <1>5, <1>7, <1>8 DEF Mine, Work
<1>10. WorkerHolds' /\ ~Reading'
  BY <1>1, <1>3, <1>8, <1>9 DEF WorkerHolds, StagesOf, Stage, DeletionStep, Reading
<1>11. StoresHold' /\ \A e \in Doc : SameStores(e) /\ passed'[e] = passed[e]
  BY <1>2, Written DEF QueueEmbed, StoresHold, SameStores, history
<1>12. text' = text /\ vectors' = vectors /\ hashes' = hashes /\ passed' = passed /\ mishaps' = mishaps /\ req' = req
  BY DEF QueueEmbed, history
<1>13. PassedAt(d)'
  <2>1. ASSUME AllPassed(d), NEW n \in Number, jobs'[n] # NoJob, jobs'[n].doc = d, jobs'[n].skip
        PROVE  jobs'[n].v \in passed[d]
    BY <1>4, <1>5, <2>1 DEF AllPassed
  <2>2. AllPassed(d) => AllPassed(d)'
    BY <1>1, <1>2, <1>8, <1>9, <1>10, <1>12, <2>1 DEF AllPassed, PassedChunks
  <2> QED
    BY <1>12, <2>2, BefellStays DEF Good, PassedAt
<1>14. WholeAt(d)'
  <2>1. Waiting(d)'
    BY <1>4, <1>5, <1>7, <1>8, JobIsThere DEF Waiting
  <2>2. HashesAreStored(d) => HashesAreStored(d)'
    BY <1>1, <1>12 DEF HashesAreStored, Clearing
  <2>3. RestIsStored(d)' /\ Emptied(d)'
    BY <1>8 DEF RestIsStored, Embedding, Emptied, DeletionStep
  <2> QED
    BY <1>12, <2>1, <2>2, <2>3, BefellStays DEF Good, WholeAt, ShownIsWhole, Coming
<1> QED
  BY <1>2, <1>4, <1>5, <1>6, <1>8, <1>9, <1>10, <1>11, <1>12, <1>13, <1>14, WorkerActs, NothingCounted
     DEF QueueEmbed, Good

LEMMA Discarding ==
    ASSUME VaultInv, Discard
    PROVE  VaultInv'
<1> USE DEF VaultInv, Sound
<1>1. w.at = "discard" /\ w # Idle /\ Mine \in Job /\ "discard" \in StagesOf(Mine.kind) /\ Mine.st = "waiting" /\ Turns("ack")
  BY WorkerIsAt DEF Discard
<1>2. PICK d \in Doc : d = Mine.doc
  BY WorkerIsAt DEF Discard
<1>3. /\ UNCHANGED <<row, text, vectors, hashes, lineage, hold, jobs, source, made, req, bounds, passed, mishaps>>
      /\ StoresHold' /\ \A e \in Doc : SameStores(e) /\ passed'[e] = passed[e]
  BY <1>2, Contents DEF Discard, StoresHold, history, SameStores
<1>4. "ack" \in Stage /\ Moves("ack", "ack", "none") /\ "none" \in RowStatus /\ "ack" \notin DeletionStep
      /\ "ack" \in StagesOf(Mine.kind)
  BY <1>1, TurnsMoves DEF Stage, DeletionStep, StagesOf
<1>5. WholeAt(d)'
  BY <1>1, <1>2, <1>3, <1>4, TurnsWhole DEF WorkedOn, SameStores
<1> QED
  BY <1>1, <1>2, <1>3, <1>4, <1>5, Turning, NothingCounted

(* The index grows by the chunks of one text: none of them replaces        *)
(* another.                                                                *)
LEMMA Embedded ==
    ASSUME VaultInv, Embed
    PROVE  VaultInv'
<1> USE DEF VaultInv, Sound
<1>1. /\ w.at = "embed" /\ w # Idle /\ w \in Work /\ w.left \subseteq Chunk
      /\ Mine \in Job /\ "embed" \in StagesOf(Mine.kind) /\ Mine.st = "waiting" /\ Turns("commit")
  BY WorkerIsAt DEF Embed
<1>2. PICK d \in Doc : d = Mine.doc
  BY WorkerIsAt DEF Embed
<1>3. Mine.kind = "embed"
  BY <1>1, WorkerIsAt DEF StagesOf, DeletionStep
<1>4. /\ vectors'[d] = Upserted(vectors[d], w.left) /\ \A e \in Doc \ {d} : vectors'[e] = vectors[e]
      /\ vectors' \in [Doc -> SUBSET Chunk] /\ w.left \subseteq vectors'[d] /\ vectors'[d] \subseteq vectors[d] \cup w.left
  BY <1>1, <1>2, UpsertedChunks DEF Embed, StoreVectors, StoresHold
<1>5. /\ UNCHANGED <<row, staged, text, hashes, lineage, hold, jobs, source, made, req, bounds, passed, mishaps>>
      /\ StoresHold' /\ \A e \in Doc \ {d} : SameStores(e) /\ passed'[e] = passed[e]
  BY <1>4 DEF Embed, StoresHold, history, SameStores
<1>6. "commit" \in Stage /\ Moves("commit", "commit", "none") /\ "none" \in RowStatus /\ "commit" \in StagesOf("embed")
  BY <1>1, TurnsMoves DEF Stage, StagesOf
<1>7. w' # Idle /\ Mine' = Mine /\ w'.at = "commit" /\ w'.n = w.n /\ w'.v = w.v /\ w'.left = w.left
  BY <1>1, <1>5, <1>6, Moved
<1>8. Coming(d) => Coming(d)'
  BY <1>1, <1>5, <1>7 DEF Coming, Asked, Waiting
<1>9. WholeAt(d)'
  <2>1. HashesAreStored(d) => HashesAreStored(d)'
    <3>1. hashes[d] \subseteq vectors[d] => Upserted(hashes[d], w.left) \subseteq vectors'[d]
      BY <1>4, UpsertedChunks
    <3> QED
      BY <1>1, <1>2, <1>5, <1>7, <3>1 DEF HashesAreStored, Clearing
  <2>2. RestIsStored(d) => RestIsStored(d)'
    <3>1. SUFFICES ASSUME RestIsStored(d) PROVE RestIsStored(d)'
      OBVIOUS
    <3>2. /\ w.v \in Version /\ w.left \subseteq Chunks[w.v]
          /\ text[d] = Nothing \/ Coming(d) \/ (text[d] = w.v /\ Chunks[w.v] \subseteq vectors[d] \cup w.left)
      BY <1>1, <1>2, <3>1 DEF RestIsStored, Embedding
    <3>3. Chunks[w.v] \subseteq vectors[d] \cup w.left => Chunks[w.v] \subseteq vectors'[d]
      BY <1>4, <3>2, ChunksAssumption DEF Upserted
    <3> QED
      BY <1>2, <1>5, <1>7, <1>8, <3>2, <3>3 DEF RestIsStored
  <2>3. ShownIsWhole(d)' /\ Emptied(d)'
    BY <1>2, <1>3, <1>7 DEF ShownIsWhole, WorkedOn, Emptied, DeletionStep
  <2> QED
    BY <1>5, <2>1, <2>2, <2>3, BefellStays DEF Good, WholeAt
<1> QED
  BY <1>1, <1>2, <1>3, <1>4, <1>5, <1>6, <1>9, Turning, NothingCounted

LEMMA Committed ==
    ASSUME VaultInv, CommitHashes
    PROVE  VaultInv'
<1> USE DEF VaultInv, Sound
<1>1. /\ w.at = "commit" /\ w # Idle /\ w \in Work /\ w.left \subseteq Chunk
      /\ Mine \in Job /\ "commit" \in StagesOf(Mine.kind) /\ Mine.st = "waiting" /\ Turns("finish")
  BY WorkerIsAt DEF CommitHashes
<1>2. PICK d \in Doc : d = Mine.doc
  BY WorkerIsAt DEF CommitHashes
<1>3. Mine.kind = "embed"
  BY <1>1, WorkerIsAt DEF StagesOf, DeletionStep
<1>4. /\ hashes'[d] = Upserted(hashes[d], w.left) /\ \A e \in Doc \ {d} : hashes'[e] = hashes[e]
      /\ hashes' \in [Doc -> SUBSET Chunk] /\ hashes'[d] \subseteq hashes[d] \cup w.left
  BY <1>1, <1>2, UpsertedChunks DEF CommitHashes, SetHashes, StoresHold
<1>5. mishaps' = IF w.left \subseteq vectors[d] THEN mishaps ELSE mishaps \cup {<<d, "torn">>}
  BY <1>2 DEF CommitHashes, BefallsIf
<1>6. /\ UNCHANGED <<row, staged, text, vectors, lineage, hold, jobs, source, made, req, bounds, passed>>
      /\ StoresHold' /\ mishaps \subseteq mishaps' /\ \A e \in Doc \ {d} : SameStores(e) /\ passed'[e] = passed[e]
  BY <1>4, <1>5 DEF CommitHashes, StoresHold, Mishap, SameStores
<1>7. "finish" \in Stage /\ Moves("finish", "finish", "none") /\ "none" \in RowStatus /\ "finish" \in StagesOf("embed")
  BY <1>1, TurnsMoves DEF Stage, StagesOf
<1>8. w' # Idle /\ Mine' = Mine /\ w'.at = "finish" /\ w'.n = w.n /\ w'.v = w.v /\ w'.left = w.left
  BY <1>1, <1>6, <1>7, Moved
<1>9. Coming(d) => Coming(d)'
  BY <1>1, <1>6, <1>8 DEF Coming, Asked, Waiting
<1>10. WholeAt(d)'
  <2>1. CASE ~(w.left \subseteq vectors[d])
    <3>1. Befell(d, {"cut", "torn"})' /\ Befell(d, {"cut", "stale", "torn"})'
      BY <1>5, <2>1 DEF Befell
    <3> QED
      BY <3>1 DEF WholeAt
  <2>2. CASE w.left \subseteq vectors[d]
    <3>1. HashesAreStored(d) => HashesAreStored(d)'
      BY <1>4, <1>6, <2>2 DEF HashesAreStored, Clearing
    <3>2. RestIsStored(d) => RestIsStored(d)'
      BY <1>1, <1>2, <1>6, <1>8, <1>9 DEF RestIsStored, Embedding
    <3>3. ShownIsWhole(d)' /\ Emptied(d)'
      BY <1>2, <1>3, <1>8 DEF ShownIsWhole, WorkedOn, Emptied, DeletionStep
    <3> QED
      BY <1>6, <3>1, <3>2, <3>3, BefellStays DEF Good, WholeAt
  <2> QED
    BY <2>1, <2>2
<1> QED
  BY <1>1, <1>2, <1>3, <1>6, <1>7, <1>10, Turning, NothingCounted

(* Only a document whose text is all in the index is to say Indexed, or    *)
(* somebody will come.                                                     *)
LEMMA Finished ==
    ASSUME VaultInv, Finish
    PROVE  VaultInv'
<1> USE DEF VaultInv, Sound
<1>1. w.at = "finish" /\ w # Idle /\ w \in Work /\ Mine \in Job /\ "finish" \in StagesOf(Mine.kind) /\ Mine.st = "waiting"
  BY WorkerIsAt DEF Finish
<1>2. PICK d \in Doc : d = Mine.doc
  BY WorkerIsAt DEF Finish
<1>3. Mine.kind = "embed"
  BY <1>1, WorkerIsAt DEF StagesOf, DeletionStep
<1>4. /\ UNCHANGED <<row, staged, text, vectors, hashes, lineage, hold, jobs, source, made, req, bounds, passed, mishaps>>
      /\ StoresHold' /\ \A e \in Doc : SameStores(e) /\ passed'[e] = passed[e]
  BY DEF Finish, stores, history, StoresHold, SameStores
<1>5. /\ {"save", "ack", "mark"} \subseteq Stage /\ {"save", "ack", "mark"} \subseteq StagesOf("embed")
      /\ {"save", "ack", "mark"} \cap DeletionStep = {} /\ {"Error", "Indexed", "none"} \subseteq RowStatus
      /\ {"ack", "mark"} \subseteq SavedThen("embed")
  BY DEF Stage, StagesOf, DeletionStep, RowStatus, SavedThen
<1>6. Finds(d, "Error", "ack") \/ Finds(d, "Indexed", "mark")
  BY <1>2 DEF Finish
<1>7. \/ Moves("save", "ack", "Error")
      \/ row[d] = "none" /\ (Moves("ack", "ack", "none") \/ Moves("mark", "mark", "none"))
      \/ Moves("save", "mark", "Indexed")
  BY <1>5, <1>6, FindsMoves
<1>8. CASE Moves("save", "ack", "Error")
  <2>1. WholeAt(d)'
    BY <1>1, <1>2, <1>3, <1>4, <1>5, <1>8, TurnsWhole
  <2> QED
    BY <1>1, <1>2, <1>3, <1>4, <1>5, <1>8, <2>1, Turning, NothingCounted
<1>9. ASSUME NEW stage \in {"ack", "mark"}, row[d] = "none", Moves(stage, stage, "none") PROVE VaultInv'
  <2>1. WholeAt(d)'
    BY <1>1, <1>2, <1>3, <1>4, <1>5, <1>9, TurnsWhole
  <2> QED
    BY <1>1, <1>2, <1>3, <1>4, <1>5, <1>9, <2>1, Turning, NothingCounted
<1>10. CASE Moves("save", "mark", "Indexed")
  <2>1. /\ w' # Idle /\ Mine' = Mine /\ w'.at = "save" /\ w'.next = "mark"
        /\ w'.n = w.n /\ w'.v = w.v /\ w'.left = w.left
    BY <1>1, <1>4, <1>5, <1>10, Moved
  <2>2. Coming(d) => Coming(d)'
    BY <1>1, <1>4, <2>1 DEF Coming, Asked, Waiting
  <2>3. WholeAt(d)'
    <3>1. HashesAreStored(d) => HashesAreStored(d)'
      BY <1>1, <1>4 DEF HashesAreStored, Clearing
    <3>2. RestIsStored(d) => RestIsStored(d)'
      BY <1>1, <1>2, <1>4, <2>1, <2>2 DEF RestIsStored, Embedding
    <3>3. ShownIsWhole(d)' /\ Emptied(d)'
      BY <1>2, <1>3, <2>1 DEF ShownIsWhole, WorkedOn, Emptied, DeletionStep
    <3> QED
      BY <1>4, <3>1, <3>2, <3>3 DEF Good, WholeAt, Befell
  <2> QED
    BY <1>1, <1>2, <1>3, <1>4, <1>5, <1>10, <2>3, Turning, NothingCounted
<1> QED
  BY <1>7, <1>8, <1>9, <1>10

LEMMA MarkedIndexed ==
    ASSUME VaultInv, MarkIndexed
    PROVE  VaultInv'
<1> USE DEF VaultInv, Sound
<1>1. w.at = "mark" /\ w # Idle /\ Mine \in Job /\ "mark" \in StagesOf(Mine.kind) /\ Mine.st = "waiting" /\ Turns("ack")
  BY WorkerIsAt DEF MarkIndexed
<1>2. PICK d \in Doc : d = Mine.doc
  BY WorkerIsAt DEF MarkIndexed
<1>3. lineage' \in [Doc -> Lineage]
  BY <1>2, Written DEF MarkIndexed
<1>4. /\ UNCHANGED <<row, staged, text, vectors, hashes, hold, jobs, source, made, req, bounds, passed, mishaps>>
      /\ StoresHold' /\ \A e \in Doc : SameStores(e) /\ passed'[e] = passed[e]
  BY <1>3 DEF MarkIndexed, StoresHold, history, SameStores
<1>5. "ack" \in Stage /\ Moves("ack", "ack", "none") /\ "none" \in RowStatus /\ "ack" \notin DeletionStep
      /\ "ack" \in StagesOf(Mine.kind)
  BY <1>1, TurnsMoves DEF Stage, DeletionStep, StagesOf
<1>6. WholeAt(d)'
  BY <1>1, <1>2, <1>4, <1>5, TurnsWhole DEF WorkedOn, SameStores
<1> QED
  BY <1>1, <1>2, <1>4, <1>5, <1>6, Turning, NothingCounted

(* The worker puts its job down: it is gone, waits again, or is dead.      *)
LEMMA PutDown ==
    ASSUME VaultInv, w # Idle, NEW d \in Doc, Mine.doc = d, NEW j \in Job \cup {NoJob},
           jobs' = [jobs EXCEPT ![w.n] = j], j # NoJob => j.doc = d /\ j.kind = Mine.kind /\ j.v = Mine.v /\ j.skip = Mine.skip,
           \/ w' = Idle /\ (WorkedOn(d) => j # NoJob /\ j.st = "waiting" /\ Mine.kind \in {"ingest", "embed", "delete"})
           \/ Turns("notify") /\ j # NoJob /\ w.at = "fail",
           w.at # "commit",
           UNCHANGED <<row, staged, text, vectors, hashes, lineage, hold, source, made, req, bounds, history>>
    PROVE  VaultInv'
<1> USE DEF VaultInv, Sound
<1>1. w \in Work /\ w.n \in Number /\ Mine \in Job /\ jobs[w.n] = Mine /\ w.at \in StagesOf(Mine.kind)
  BY DEF WorkerHolds, Work, Mine
<1>2. jobs'[w.n] = j /\ \A n \in Number : n # w.n => jobs'[n] = jobs[n]
  BY <1>1 DEF JobsHold
<1>3. JobsHold'
  BY <1>1, <1>2, JobIsThere DEF JobsHold
<1>4. w' # Idle => w' \in Work /\ w'.at = "notify" /\ w'.n = w.n /\ w'.v = w.v /\ w'.left = w.left
                   /\ Mine' = j /\ w.at = "fail" /\ j \in Job /\ j.doc = d /\ j.kind = Mine.kind
  BY <1>1, <1>2 DEF Turns, Work, Stage, DeletionStep, RowStatus, Mine
<1>5. WorkerHolds'
  <2>1. SUFFICES ASSUME w' # Idle PROVE w' \in Work /\ Mine' \in Job /\ w'.at \in StagesOf(Mine'.kind)
                                        /\ w'.at = "notify"
    BY DEF WorkerHolds, Reading
  <2>2. "notify" \in StagesOf(Mine.kind)
    BY <1>1, <1>4, <2>1 DEF StagesOf, Stage, DeletionStep
  <2> QED
    BY <1>4, <2>1, <2>2
<1>6. StoresHold' /\ \A e \in Doc : SameStores(e) /\ passed'[e] = passed[e]
  BY DEF StoresHold, SameStores, history
<1>7. row' = row /\ text' = text /\ vectors' = vectors /\ hashes' = hashes /\ passed' = passed /\ mishaps' = mishaps /\ req' = req
  BY DEF history
<1>8. PassedAt(d)'
  <2>1. ASSUME AllPassed(d), NEW n \in Number, jobs'[n] # NoJob, jobs'[n].doc = d, jobs'[n].skip
        PROVE  jobs'[n].v \in passed[d]
    BY <1>1, <1>2, <2>1, JobIsThere DEF AllPassed
  <2>2. ASSUME AllPassed(d), w' # Idle
        PROVE  w'.left \subseteq PassedChunks(d) /\ w'.at = "notify"
    BY <1>4, <2>2 DEF AllPassed
  <2>3. AllPassed(d) => AllPassed(d)'
    BY <1>7, <2>1, <2>2 DEF AllPassed, PassedChunks, Reading
  <2> QED
    BY <1>7, <2>3, BefellStays DEF Good, PassedAt
<1>9. WholeAt(d)'
  <2>1. HashesAreStored(d) => HashesAreStored(d)'
    BY <1>7 DEF HashesAreStored, Clearing
  <2>2. RestIsStored(d)' /\ Emptied(d)'
    BY <1>4 DEF RestIsStored, Embedding, Emptied, DeletionStep
  <2>3. Coming(d) => Coming(d)'
    BY <1>2, <1>4, <1>7 DEF Coming, Asked, Waiting
  <2>4. WorkedOn(d) => WorkedOn(d)' \/ Waiting(d)'
    <3>1. CASE w' = Idle
      <4>1. ~Turns("notify")
        BY <1>1, <3>1 DEF Turns, Work, Idle
      <4> QED
        BY <1>1, <1>2, <3>1, <4>1 DEF Waiting
    <3>2. CASE w' # Idle
      BY <1>4, <3>2 DEF WorkedOn
    <3> QED
      BY <3>1, <3>2
  <2>5. ShownIsWhole(d) => ShownIsWhole(d)'
    BY <1>7, <2>3, <2>4 DEF ShownIsWhole, Coming
  <2> QED
    BY <1>7, <2>1, <2>2, <2>5, BefellStays DEF Good, WholeAt
<1> QED
  BY <1>1, <1>2, <1>3, <1>4, <1>5, <1>6, <1>7, <1>8, <1>9, WorkerActs, NothingCounted DEF Good

LEMMA Acked ==
    ASSUME VaultInv, Ack
    PROVE  VaultInv'
<1>1. w.at = "ack" /\ w # Idle
  BY WorkerIsAt DEF Ack, VaultInv, Sound
<1>2. PICK d \in Doc : d = Mine.doc
  BY WorkerIsAt DEF Ack, VaultInv, Sound
<1>3. ~WorkedOn(d)
  BY <1>1 DEF WorkedOn
<1> QED
  BY <1>1, <1>2, <1>3, PutDown DEF Ack

LEMMA Failed ==
    ASSUME VaultInv, Fail
    PROVE  VaultInv'
<1>1. w.at = "fail" /\ w # Idle /\ w.n \in Number /\ Mine \in Job /\ Mine.st = "waiting"
  BY WorkerIsAt DEF Fail, VaultInv, Sound
<1>2. PICK d \in Doc : d = Mine.doc
  BY WorkerIsAt DEF Fail, VaultInv, Sound
<1>3. CASE Mine.tries + 1 < MaxAttempts
  <2> DEFINE j == [Mine EXCEPT !.tries = @ + 1]
  <2>1. jobs' = [jobs EXCEPT ![w.n] = j] /\ w' = Idle
    BY <1>3 DEF Fail, Mine
  <2>2. Mine.tries + 1 \in 0 .. MaxAttempts - 1
    BY <1>1, <1>3, VaultAssumption DEF Job
  <2>3. j \in Job /\ j.doc = d /\ j.kind = Mine.kind /\ j.v = Mine.v /\ j.skip = Mine.skip /\ j.st = "waiting"
    BY <1>1, <1>2, <2>2 DEF Job
  <2> HIDE DEF j
  <2>4. WorkedOn(d) => Mine.kind \in {"ingest", "embed", "delete"}
    BY <1>1 DEF WorkedOn
  <2> QED
    BY <1>1, <1>2, <2>1, <2>3, <2>4, JobIsThere, PutDown DEF Fail
<1>4. CASE ~(Mine.tries + 1 < MaxAttempts)
  <2> DEFINE j == [Mine EXCEPT !.st = "dead"]
  <2>1. jobs' = [jobs EXCEPT ![w.n] = j] /\ Turns("notify")
    BY <1>4 DEF Fail, Mine
  <2>2. j \in Job /\ j.doc = d /\ j.kind = Mine.kind /\ j.v = Mine.v /\ j.skip = Mine.skip
    BY <1>1, <1>2 DEF Job
  <2> HIDE DEF j
  <2> QED
    BY <1>1, <1>2, <2>1, <2>2, JobIsThere, PutDown DEF Fail
<1> QED
  BY <1>3, <1>4

(* Who is to be told finds the row, and says Error there.                  *)
LEMMA Notified ==
    ASSUME VaultInv, Notify
    PROVE  VaultInv'
<1> USE DEF VaultInv, Sound
<1>1. w.at = "notify" /\ w # Idle /\ w \in Work /\ Mine \in Job /\ Mine.kind \in {"ingest", "event", "embed", "delete"}
  BY WorkerIsAt DEF Notify
<1>2. PICK d \in Doc : d = Mine.doc
  BY WorkerIsAt DEF Notify
<1>3. Mine.kind \in {"ingest", "event", "embed"}
  BY <1>1, WorkerIsAt DEF StagesOf, DeletionStep, Notify
<1>4. /\ UNCHANGED <<row, staged, text, vectors, hashes, lineage, hold, jobs, source, made, req, bounds, history>>
      /\ mishaps' = mishaps /\ StoresHold' /\ \A e \in Doc : SameStores(e) /\ passed'[e] = passed[e]
  BY DEF Notify, stores, history, StoresHold, SameStores
<1>5. "save" \in Stage /\ "save" \notin DeletionStep /\ "Error" \in RowStatus /\ "save" \in StagesOf(Mine.kind)
  BY <1>3 DEF Stage, DeletionStep, RowStatus, StagesOf
<1>6. CASE w' = Idle
  <2>1. row[d] = "none" \/ Mine.kind = "event"
    BY <1>1, <1>2, <1>3, <1>6 DEF Notify, Finds, Listed, Work, Idle
  <2>2. row[d] # "Indexed" \/ ~WorkedOn(d)
    BY <1>1, <2>1 DEF WorkedOn
  <2> QED
    BY <1>1, <1>2, <1>4, <1>6, <2>2, GoesIdle DEF SameStores
<1>7. CASE w' # Idle
  <2>1. Moves("save", "idle", "Error") /\ Mine.kind \in {"ingest", "embed"}
    BY <1>2, <1>3, <1>7 DEF Notify, Finds, Turns, Moves
  <2>2. WholeAt(d)'
    BY <1>1, <1>2, <1>4, <1>5, <2>1, TurnsWhole
  <2> QED
    BY <1>1, <1>2, <1>4, <1>5, <2>1, <2>2, Turning, NothingCounted DEF SavedThen
<1> QED
  BY <1>6, <1>7

(* A job that waits is taken.                                              *)
LEMMA Taken ==
    ASSUME JobsHold, NEW n \in Number, NEW stage \in Stage, NEW v \in Content, NEW left \in SUBSET Chunk,
           NEW kind, kind \in {"ingest", "event", "embed", "delete"}, Ready(n, kind),
           Takes(n, stage, v, left), jobs' = jobs, stage \in StagesOf(kind) \ {"save"},
           stage \in {"show", "stage", "parse"} => v # Nothing
    PROVE  /\ w = Idle /\ jobs[n] \in Job /\ jobs[n].kind = kind /\ jobs[n].st = "waiting" /\ jobs[n].doc \in Doc
           /\ w' # Idle /\ w'.at = stage /\ w'.n = n /\ w'.v = v /\ w'.left = left
           /\ Mine' = jobs[n] /\ JobsHold' /\ WorkerHolds'
<1>1. w = Idle /\ jobs[n] \in Job /\ jobs[n].kind = kind /\ jobs[n].st = "waiting"
  BY JobIsThere DEF Ready, JobsHold
<1>2. jobs[n].doc \in Doc
  BY <1>1 DEF Job
<1>3. w' \in Work /\ w'.at = stage /\ w'.n = n /\ w'.v = v /\ w'.left = left
  BY DEF Takes, Work, RowStatus
<1>4. w' # Idle
  BY <1>3 DEF Idle, Stage, DeletionStep
<1>5. Mine' = jobs[n]
  BY <1>3 DEF Mine
<1> QED
  BY <1>1, <1>2, <1>3, <1>4, <1>5 DEF JobsHold, WorkerHolds, Reading

(* What it has to bring about for the document of the job.                 *)
LEMMA Begun ==
    ASSUME VaultInv, NEW d \in Doc, w = Idle, w' # Idle, Mine'.doc = d, jobs' = jobs, req' = req,
           JobsHold', WorkerHolds', StoresHold', CountsHold', passed' = passed, mishaps \subseteq mishaps',
           \A e \in Doc \ {d} : SameStores(e),
           text'[d] \in {text[d], Nothing}, vectors'[d] \subseteq vectors[d],
           AllPassed(d) => w'.left \subseteq PassedChunks(d),
           w'.at # "persist", Reading' /\ Mine'.skip => (AllPassed(d) => w'.v \in passed[d]) \/ Befell(d, {"swapped"})',
           WholeAt(d)'
    PROVE  VaultInv'
<1>1. PassedAt(d)'
  <2>1. SUFFICES ASSUME AllPassed(d), ~Befell(d, {"swapped"})' PROVE AllPassed(d)'
    BY BefellStays DEF PassedAt, VaultInv, Good
  <2>2. vectors'[d] \subseteq PassedChunks(d) /\ PassedChunks(d)' = PassedChunks(d)
    BY <2>1 DEF AllPassed, PassedChunks
  <2> QED
    BY <2>1, <2>2 DEF AllPassed
<1> QED
  BY <1>1, WorkerActs DEF Good

LEMMA IngestTaken ==
    ASSUME VaultInv, NEW n \in Number, TakeIngest(n)
    PROVE  VaultInv'
<1> USE DEF VaultInv, Sound
<1>1. PICK d \in Doc : d = jobs[n].doc
  BY JobIsThere DEF TakeIngest, Ready, JobsHold, Job
<1> DEFINE stage == IF staged[d] = Nothing THEN "fail" ELSE IF jobs[n].skip THEN "show" ELSE "stage"
<1>2. Ready(n, "ingest") /\ Takes(n, stage, staged[d], {}) /\ jobs' = jobs
  BY <1>1 DEF TakeIngest, stores
<1>3. /\ stage \in Stage /\ stage \in StagesOf("ingest") \ {"save"} /\ stage \notin {"persist", "embed", "commit", "finish", "attach", "discard", "mark", "ack"}
      /\ stage \notin DeletionStep
      /\ staged[d] \in Content /\ (stage \in {"show", "stage", "parse"} => staged[d] # Nothing)
  BY DEF Stage, StagesOf, StoresHold, DeletionStep
<1> HIDE DEF stage
<1>4. /\ w = Idle /\ jobs[n] \in Job /\ jobs[n].kind = "ingest" /\ jobs[n].st = "waiting"
      /\ w' # Idle /\ w'.at = stage /\ w'.n = n /\ w'.v = staged[d] /\ w'.left = {}
      /\ Mine' = jobs[n] /\ JobsHold' /\ WorkerHolds'
  BY <1>2, <1>3, Taken
<1>5. Reading' => staged[d] # Nothing
  BY <1>3, <1>4 DEF Reading
<1>6. mishaps' = IF jobs[n].skip /\ staged[d] \notin {Nothing, jobs[n].v} THEN mishaps \cup {<<d, "swapped">>} ELSE mishaps
  BY <1>1 DEF TakeIngest, BefallsIf
<1>7. StoresHold' /\ mishaps \subseteq mishaps'
  BY <1>6 DEF TakeIngest, StoresHold, Mishap, stores
<1>8. row' = row /\ text' = text /\ vectors' = vectors /\ hashes' = hashes /\ passed' = passed /\ req' = req
  BY DEF TakeIngest, stores
<1>9. WholeAt(d)'
  <2>1. HashesAreStored(d) => HashesAreStored(d)'
    BY <1>4, <1>8 DEF HashesAreStored, Clearing
  <2>2. RestIsStored(d)' /\ Emptied(d)'
    BY <1>3, <1>4 DEF RestIsStored, Embedding, Emptied
  <2>3. ShownIsWhole(d)'
    BY <1>1, <1>3, <1>4 DEF ShownIsWhole, WorkedOn
  <2> QED
    BY <1>7, <2>1, <2>2, <2>3, BefellStays DEF Good, WholeAt
<1>10. Reading' /\ Mine'.skip => (AllPassed(d) => w'.v \in passed[d]) \/ Befell(d, {"swapped"})'
  <2>1. CASE jobs[n].skip /\ staged[d] \notin {Nothing, jobs[n].v}
    BY <1>6, <2>1 DEF Befell
  <2>2. CASE ~(jobs[n].skip /\ staged[d] \notin {Nothing, jobs[n].v})
    BY <1>1, <1>4, <1>5, <2>2, JobIsThere DEF AllPassed
  <2> QED
    BY <2>1, <2>2
<1> QED
  BY <1>1, <1>2, <1>3, <1>4, <1>7, <1>8, <1>9, <1>10, Begun, NothingCounted DEF TakeIngest, SameStores

LEMMA EventTaken ==
    ASSUME VaultInv, NEW n \in Number, TakeEvent(n)
    PROVE  VaultInv'
<1> USE DEF VaultInv, Sound
<1>1. PICK d \in Doc : d = jobs[n].doc
  BY JobIsThere DEF TakeEvent, Ready, JobsHold, Job
<1>2. Ready(n, "event") /\ Takes(n, "stage", jobs[n].v, {}) /\ jobs' = jobs
  BY DEF TakeEvent, stores
<1>3. jobs[n].v \in Content /\ jobs[n].v # Nothing
  BY <1>2, JobIsThere DEF Ready, JobsHold, Job
<1>4. /\ w = Idle /\ jobs[n] \in Job /\ jobs[n].kind = "event" /\ jobs[n].st = "waiting"
      /\ w' # Idle /\ w'.at = "stage" /\ w'.n = n /\ w'.v = jobs[n].v /\ w'.left = {}
      /\ Mine' = jobs[n] /\ JobsHold' /\ WorkerHolds'
  BY <1>2, <1>3, Taken DEF Stage, StagesOf, DeletionStep
<1>5. /\ StoresHold' /\ text' = text /\ vectors' = vectors /\ hashes' = hashes /\ row' = row
      /\ passed' = passed /\ mishaps' = mishaps /\ req' = req
  BY DEF TakeEvent, StoresHold, stores, history
<1>6. WholeAt(d)'
  <2>1. HashesAreStored(d) => HashesAreStored(d)'
    BY <1>4, <1>5 DEF HashesAreStored, Clearing
  <2>2. RestIsStored(d)' /\ Emptied(d)'
    BY <1>4 DEF RestIsStored, Embedding, Emptied, DeletionStep
  <2>3. Coming(d) => Coming(d)'
    BY <1>2, <1>4, <1>5 DEF Coming, Asked, Waiting
  <2>4. ShownIsWhole(d) => ShownIsWhole(d)'
    BY <1>4, <1>5, <2>3 DEF ShownIsWhole, WorkedOn
  <2> QED
    BY <1>5, <2>1, <2>2, <2>4 DEF Good, WholeAt, Befell
<1>7. Mine'.skip => (AllPassed(d) => w'.v \in passed[d])
  BY <1>1, <1>4, JobIsThere DEF AllPassed
<1> QED
  BY <1>1, <1>2, <1>4, <1>5, <1>6, <1>7, Begun, NothingCounted DEF TakeEvent, SameStores

LEMMA DeleteTaken ==
    ASSUME VaultInv, NEW n \in Number, TakeDelete(n)
    PROVE  VaultInv'
<1> USE DEF VaultInv, Sound
<1>1. PICK d \in Doc : d = jobs[n].doc
  BY JobIsThere DEF TakeDelete, Ready, JobsHold, Job
<1>2. Ready(n, "delete") /\ Takes(n, "forget", Nothing, {}) /\ jobs' = jobs
  BY DEF TakeDelete
<1>3. /\ w = Idle /\ w' # Idle /\ w'.at = "forget" /\ w'.n = n /\ w'.left = {}
      /\ Mine' = jobs[n] /\ jobs[n].kind = "delete" /\ JobsHold' /\ WorkerHolds'
  BY <1>2, Contents, Taken DEF Stage, StagesOf, DeletionStep
<1>4. lineage' \in [Doc -> Lineage]
  BY <1>1, Written DEF TakeDelete
<1>5. /\ StoresHold' /\ text' = text /\ vectors' = vectors /\ hashes' = hashes /\ row' = row
      /\ passed' = passed /\ mishaps' = mishaps /\ req' = req
  BY <1>4 DEF TakeDelete, StoresHold, history
<1>6. WholeAt(d)'
  <2>1. HashesAreStored(d) => HashesAreStored(d)'
    BY <1>3, <1>5 DEF HashesAreStored, Clearing
  <2>2. RestIsStored(d)' /\ Emptied(d)' /\ ShownIsWhole(d)'
    BY <1>1, <1>3 DEF RestIsStored, Embedding, Emptied, ShownIsWhole, WorkedOn, DeletionStep
  <2> QED
    BY <1>5, <2>1, <2>2 DEF Good, WholeAt, Befell
<1> QED
  BY <1>1, <1>2, <1>3, <1>5, <1>6, Begun, NothingCounted DEF TakeDelete, Reading, SameStores

(* What has no fingerprint is embedded; what has one is in the index.      *)
LEMMA EmbedTaken ==
    ASSUME VaultInv, NEW n \in Number, TakeEmbed(n)
    PROVE  VaultInv'
<1> USE DEF VaultInv, Sound
<1>1. PICK d \in Doc : d = jobs[n].doc
  BY JobIsThere DEF TakeEmbed, Ready, JobsHold, Job
<1> DEFINE v == text[d]
           left == IF v = Nothing THEN {} ELSE Chunks[v] \ hashes[d]
           stage == IF v = Nothing THEN "fail" ELSE IF left = {} THEN "finish" ELSE "embed"
<1>2. Ready(n, "embed") /\ Takes(n, stage, v, left) /\ jobs' = jobs
  BY <1>1 DEF TakeEmbed, stores
<1>3. stage \in Stage /\ v \in Content
      /\ stage \in StagesOf("embed") \ {"save"} /\ stage \notin {"show", "stage", "parse", "persist"} \cup DeletionStep
  BY DEF Stage, StagesOf, StoresHold, DeletionStep
<1>4. (v # Nothing => v \in Version /\ left = Chunks[v] \ hashes[d]) /\ left \subseteq Chunk
  BY <1>3, Contents
<1> HIDE DEF left, stage
<1>5. /\ w = Idle /\ w' # Idle /\ w'.at = stage /\ w'.n = n /\ w'.v = v /\ w'.left = left
      /\ jobs[n].kind = "embed" /\ Mine' = jobs[n] /\ JobsHold' /\ WorkerHolds'
  BY <1>2, <1>3, <1>4, Taken
<1>6. /\ StoresHold' /\ text' = text /\ vectors' = vectors /\ hashes' = hashes /\ row' = row
      /\ passed' = passed /\ mishaps' = mishaps /\ req' = req
  BY DEF TakeEmbed, StoresHold, stores, history
<1>7. AllPassed(d) => w'.left \subseteq PassedChunks(d)
  BY <1>4, <1>5 DEF AllPassed, PassedChunks, left
<1>8. WholeAt(d)'
  <2>1. HashesAreStored(d) => HashesAreStored(d)'
    BY <1>5, <1>6 DEF HashesAreStored, Clearing
  <2>2. HashesAreStored(d) => RestIsStored(d)'
    <3>1. SUFFICES ASSUME HashesAreStored(d), stage \in {"embed", "finish"}
                   PROVE  /\ v \in Version /\ left \subseteq Chunks[v]
                          /\ \/ Chunks[v] \subseteq vectors[d] \cup (IF stage = "embed" THEN left ELSE {})
                             \/ Coming(d)'
      BY <1>3, <1>5, <1>6 DEF RestIsStored, Embedding, stage
    <3>2. v # Nothing /\ (stage # "embed" => left = {})
      BY <3>1 DEF stage
    <3>3. CASE hashes[d] \subseteq vectors[d]
      BY <1>4, <3>2, <3>3
    <3>4. CASE Clearing(d)
      BY <1>4, <1>6, <3>2, <3>4 DEF Coming, Asked, Clearing
    <3> QED
      BY <1>5, <3>1, <3>3, <3>4 DEF HashesAreStored
  <2>3. ShownIsWhole(d)' /\ Emptied(d)'
    BY <1>1, <1>3, <1>5 DEF ShownIsWhole, WorkedOn, Emptied, stage
  <2> QED
    BY <1>6, <2>1, <2>2, <2>3 DEF Good, WholeAt, Befell
<1> QED
  BY <1>1, <1>2, <1>3, <1>5, <1>6, <1>7, <1>8, Begun, NothingCounted DEF TakeEmbed, SameStores, Reading

LEMMA Working ==
    ASSUME VaultInv, WorkerStep
    PROVE  VaultInv'
<1>1. CASE \E n \in Number : Take(n)
  BY <1>1, IngestTaken, EventTaken, DeleteTaken, EmbedTaken DEF Take
<1>2. CASE ShowAgain \/ NoteStaged \/ WorkerErases \/ SaveBack
  BY <1>2, Showing, Noted, WorkerErased, SavedBack
<1>3. CASE Unusable \/ Refuse \/ Attach \/ Accept \/ Persist \/ LabelUpload \/ RegisterSynced \/ QueueEmbed \/ Discard
  BY <1>3, Discarded, Refused, Attached, Accepted, Persisted, Labelled, ToEmbed, Discarding
<1>4. CASE Embed \/ CommitHashes \/ Finish \/ MarkIndexed \/ Ack \/ Fail \/ Notify
  BY <1>4, Embedded, Committed, Finished, MarkedIndexed, Acked, Failed, Notified
<1> QED
  BY <1>1, <1>2, <1>3, <1>4 DEF WorkerStep

-----------------------------------------------------------------------------
(* Faults *)

LEMMA Raising ==
    ASSUME VaultInv, StageRaises
    PROVE  VaultInv'
<1> USE DEF VaultInv, Sound
<1>1. /\ w.at \in {"parse", "persist", "embed"} /\ w # Idle /\ Mine \in Job /\ w.at \in StagesOf(Mine.kind)
      /\ Mine.st = "waiting" /\ Mine.kind \in {"ingest", "event", "embed", "delete"} /\ Turns("fail")
  BY WorkerIsAt DEF StageRaises
<1>2. PICK d \in Doc : d = Mine.doc
  BY WorkerIsAt DEF StageRaises
<1>3. Mine.kind \in {"ingest", "event", "embed"}
  BY <1>1 DEF StagesOf, DeletionStep
<1>4. CountsHold'
  BY Counted DEF StageRaises, CountsHold
<1>5. /\ UNCHANGED <<row, text, vectors, hashes, jobs, req, passed, mishaps>>
      /\ StoresHold' /\ \A e \in Doc : SameStores(e) /\ passed'[e] = passed[e]
  BY DEF StageRaises, StoresHold, stores, history, SameStores
<1>6. "fail" \in Stage /\ Moves("fail", "fail", "none") /\ "none" \in RowStatus /\ "fail" \notin DeletionStep
      /\ "fail" \in StagesOf(Mine.kind)
  BY <1>1, <1>3, TurnsMoves DEF Stage, DeletionStep, StagesOf
<1>7. Mine.kind = "event" => ~WorkedOn(d)
  BY <1>1 DEF WorkedOn
<1>8. WholeAt(d)'
  BY <1>1, <1>2, <1>3, <1>5, <1>6, <1>7, TurnsWhole DEF SameStores
<1> QED
  BY <1>1, <1>2, <1>4, <1>5, <1>6, <1>8, Turning

(* A crash leaves the stores; what nobody comes back to is cut short.      *)
LEMMA Crashing ==
    ASSUME VaultInv, Crash
    PROVE  VaultInv'
<1> USE DEF VaultInv, Sound
<1>1. /\ jobs' = jobs /\ row' = row /\ text' = text /\ vectors' = vectors /\ hashes' = hashes
      /\ passed' = passed /\ w' = Idle /\ req' = [q \in Req |-> Idle]
      /\ mishaps' = mishaps \cup {<<d, "cut">> : d \in CutShort}
  BY DEF Crash, stores
<1>2. CutShort \subseteq Doc
  <2>1. \A q \in Req : req[q].at \in {"clear", "save", "queue", "erase"} \cup DeletionStep => req[q].doc \in Doc
    BY RequestIsAt DEF DeletionStep
  <2>2. w # Idle => Mine.doc \in Doc
    BY DEF WorkerHolds, Job
  <2> QED
    BY <2>1, <2>2 DEF CutShort
<1>3. StoresHold' /\ mishaps \subseteq mishaps'
  BY <1>1, <1>2 DEF Crash, StoresHold, stores, Mishap
<1>4. CountsHold'
  BY Counted DEF Crash, CountsHold
<1>5. RequestsHold' /\ PullsHold' /\ JobsHold' /\ WorkerHolds'
  BY <1>1 DEF RequestsHold, PullsHold, JobsHold, WorkerHolds
<1>6. ASSUME NEW d \in Doc PROVE PassedAt(d)'
  BY <1>1, <1>3, BefellStays DEF Good, PassedAt, AllPassed, PassedChunks
<1>7. ASSUME NEW d \in Doc PROVE WholeAt(d)'
  <2>1. CASE d \in CutShort
    <3>1. <<d, "cut">> \in mishaps'
      BY <1>1, <2>1
    <3> QED
      BY <3>1 DEF WholeAt, Befell
  <2>2. CASE d \notin CutShort
    <3>1. ~Asked(d) /\ ~Clearing(d)
      BY <2>2 DEF CutShort, Asked, Clearing
    <3>2. w # Idle /\ Mine.doc = d => /\ w.at \notin {"commit", "notify"} /\ w.next # "idle"
                                      /\ w.at \in {"label", "queue"} => Mine.kind # "event"
      BY <2>2 DEF CutShort
    <3>3. HashesAreStored(d) => HashesAreStored(d)'
      BY <1>1, <3>1, <3>2 DEF HashesAreStored
    <3>4. RestIsStored(d)' /\ Emptied(d)'
      BY <1>1 DEF RestIsStored, Embedding, Emptied
    <3>5. Waiting(d) => Waiting(d)'
      BY <1>1 DEF Waiting
    <3>6. WorkedOn(d) => Waiting(d)'
      <4>1. SUFFICES ASSUME WorkedOn(d) PROVE Waiting(d)'
        OBVIOUS
      <4>2. w # Idle /\ Mine \in Job /\ Mine.doc = d /\ w.n \in Number /\ w.at \in StagesOf(Mine.kind)
        BY <4>1 DEF WorkedOn, WorkerHolds, Work
      <4>3. Mine.kind \in {"ingest", "embed", "delete"}
        BY <3>2, <4>1, <4>2, WorkerIsAt DEF WorkedOn, StagesOf, DeletionStep
      <4>4. Mine.st = "waiting"
        BY <3>2, <4>2, JobIsThere DEF WorkerHolds
      <4> QED
        BY <1>1, <4>2, <4>3, <4>4, JobIsThere DEF Waiting, Mine
    <3>7. ShownIsWhole(d) => ShownIsWhole(d)'
      BY <1>1, <3>1, <3>5, <3>6 DEF ShownIsWhole, Coming
    <3> QED
      BY <1>3, <3>3, <3>4, <3>7, BefellStays DEF Good, WholeAt
  <2> QED
    BY <2>1, <2>2
<1> QED
  BY <1>3, <1>4, <1>5, <1>6, <1>7 DEF Good

-----------------------------------------------------------------------------
(* From here to every behaviour *)

LEMMA Beginning ==
    ASSUME Init
    PROVE  VaultInv
<1>1. StoresHold
  BY Contents DEF Init, StoresHold, RowStatus, Lineage, Hold, NoHold
<1>2. CountsHold
  BY Contents, BoundsAssumption DEF Init, CountsHold
<1>3. RequestsHold /\ PullsHold /\ JobsHold /\ WorkerHolds
  BY DEF Init, RequestsHold, PullsHold, JobsHold, WorkerHolds
<1>4. ASSUME NEW d \in Doc PROVE Good(d)
  <2>1. text[d] = Nothing /\ vectors[d] = {} /\ hashes[d] = {} /\ w = Idle /\ \A n \in Number : jobs[n] = NoJob
    BY DEF Init
  <2> QED
    BY <2>1 DEF Good, PassedAt, AllPassed, WholeAt, HashesAreStored, RestIsStored, Embedding, Emptied, ShownIsWhole
<1> QED
  BY <1>1, <1>2, <1>3, <1>4 DEF VaultInv, Sound

LEMMA Resting ==
    ASSUME VaultInv, UNCHANGED vars
    PROVE  VaultInv'
<1> USE DEF vars, stores, actors, bounds, history
<1>1. StoresHold' /\ CountsHold' /\ RequestsHold' /\ PullsHold' /\ JobsHold' /\ WorkerHolds'
  BY DEF VaultInv, Sound, StoresHold, CountsHold, RequestsHold, PullsHold, LetIn, JobsHold, WorkerHolds, Reading, Mine
<1>2. ASSUME NEW d \in Doc PROVE Good(d)'
  <2>1. Asked(d)' = Asked(d) /\ Clearing(d)' = Clearing(d) /\ Waiting(d)' = Waiting(d) /\ WorkedOn(d)' = WorkedOn(d)
    BY DEF Asked, Clearing, Waiting, WorkedOn, Mine
  <2>2. PassedAt(d)'
    BY DEF VaultInv, Good, PassedAt, AllPassed, PassedChunks, Reading, Befell, Mine
  <2>3. (HashesAreStored(d) => HashesAreStored(d)') /\ (RestIsStored(d) => RestIsStored(d)')
        /\ (Emptied(d) => Emptied(d)') /\ (ShownIsWhole(d) => ShownIsWhole(d)')
    BY <2>1 DEF HashesAreStored, RestIsStored, Embedding, Emptied, ShownIsWhole, Coming, Mine
  <2> QED
    BY <2>2, <2>3 DEF VaultInv, Good, WholeAt, Befell
<1> QED
  BY <1>1, <1>2 DEF VaultInv, Sound

LEMMA Kept ==
    ASSUME VaultInv, [Next]_vars
    PROVE  VaultInv'
<1>1. ASSUME NEW q \in Req, Ask(q) \/ RequestStep(q) \/ AppStep(q) PROVE VaultInv'
  BY <1>1, Asking, Dropping, Clearings, Saving, Queueing, Approving, Removing, ErasingText,
     Sweeping, SweepingOn, Pulling, PullingOn DEF RequestStep, AppStep
<1>2. ASSUME NEW n \in Number, Replay(n) PROVE VaultInv'
  BY <1>2, Replaying
<1>3. ASSUME NEW v \in Content \ {Stub}, NEW told \in BOOLEAN, ItemChanges(v, told) PROVE VaultInv'
  BY <1>3, Changing
<1>4. CASE WorkerStep \/ StageRaises \/ Crash
  BY <1>4, Working, Raising, Crashing
<1>5. CASE UNCHANGED vars
  BY <1>5, Resting
<1> QED
  BY <1>1, <1>2, <1>3, <1>4, <1>5 DEF Next

LEMMA AlwaysHolds == Spec => []VaultInv
<1>1. Init => VaultInv
  BY Beginning
<1>2. VaultInv /\ [Next]_vars => VaultInv'
  BY Kept
<1> QED
  BY <1>1, <1>2, PTL DEF Spec

(* The stores of a vault, its requests, its jobs and its worker hold what  *)
(* they are declared to: no worker without a job, no content that is none. *)
THEOREM VaultTypes == Spec => []TypeOK
<1>1. VaultInv => TypeOK
  BY Typing DEF VaultInv
<1> QED
  BY <1>1, AlwaysHolds, PTL

(* Whatever is retried, replayed, synced or indexed again, nothing can be  *)
(* found that neither the gatekeeper let in nor a person released, unless  *)
(* a release found other bytes than were reviewed.                         *)
THEOREM OnlyPassedCanBeFound == Spec => []OnlyPassedIsFound
<1>1. VaultInv => OnlyPassedIsFound
  BY DEF VaultInv, Good, PassedAt, AllPassed, PassedChunks, OnlyPassedIsFound
<1> QED
  BY <1>1, AlwaysHolds, PTL

(* A document shown as indexed, with nothing under way for it, has all     *)
(* chunks of its text in the index, but for the three mishaps.             *)
THEOREM IndexedAreWhole == Spec => []IndexedIsWhole
<1>1. VaultInv => IndexedIsWhole
  <2>1. SUFFICES ASSUME VaultInv, NEW d \in Doc, row[d] = "Indexed", text[d] # Nothing, Quiet(d),
                        ~Befell(d, {"cut", "stale", "torn"})
                 PROVE  Chunks[text[d]] \subseteq vectors[d]
    BY DEF IndexedIsWhole
  <2>2. ShownIsWhole(d)
    BY <2>1 DEF VaultInv, Good, WholeAt
  <2>3. ~Asked(d) /\ ~WorkedOn(d) /\ ~Waiting(d)
    BY <2>1 DEF Quiet, Asked, WorkedOn, Waiting
  <2> QED
    BY <2>1, <2>2, <2>3 DEF ShownIsWhole, Coming
<1> QED
  BY <1>1, AlwaysHolds, PTL
=============================================================================

