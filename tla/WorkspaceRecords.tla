-------------------------- MODULE WorkspaceRecords --------------------------
(***************************************************************************)
(* The records a workspace shares, and the four ways the two services      *)
(* change them besides the pages of the app: the agent's write tools with  *)
(* their undo, an import of the catalog from a file, the editors of its    *)
(* skills, and the outbox that shows a session of the agent to everyone.   *)
(* They have no record in common, so a behaviour plays one of them; what   *)
(* they promise is the same.                                               *)
(***************************************************************************)
EXTENDS Naturals, Sequences

CONSTANTS
    ConflictRetries, MaxEdits, MaxToolFaults,                       \* AgentWrites
    Files, ImportEdits, ImportFaults,                               \* CatalogImport
    MaxEnabled, MaxOwn, MaxSaves, MaxRequests,                      \* SkillLibrary
    Worker, MaxAttempts, MaxNotFound, Batch, MaxRecords, MaxFailures \* WorkspaceOutbox

VARIABLES
    scene,                                                          \* the part that is played
    rows, version, call, edits, touched, stale, toolFaults,         \* AgentWrites
    cat, job, faced, meddled, meddling, mishaps,                    \* CatalogImport
    library, past, switches, req, agent, saves, requests, late, since, \* SkillLibrary
    outbox, written, mirror, holder, work, adrift, strayed, failures \* WorkspaceOutbox

Tools == INSTANCE AgentWrites WITH faults <- toolFaults, MaxFaults <- MaxToolFaults
Import == INSTANCE CatalogImport
Skills == INSTANCE SkillLibrary WITH asked <- requests
Session == INSTANCE WorkspaceOutbox

ASSUME RecordBounds ==
    /\ {ConflictRetries, MaxEnabled, MaxOwn, MaxSaves, MaxAttempts, MaxNotFound, Batch} \subseteq Nat \ {0}
    /\ {MaxEdits, MaxToolFaults, ImportEdits, ImportFaults, MaxRequests, MaxRecords, MaxFailures} \subseteq Nat
    /\ "nobody" \notin Worker
    /\ Files \subseteq Seq(Import!Row)

toolVars == <<rows, version, call, edits, touched, stale, toolFaults>>
importVars == <<cat, job, faced, meddled, meddling, mishaps>>
skillVars == <<library, past, switches, req, agent, saves, requests, late, since>>
sessionVars == <<outbox, written, mirror, holder, work, adrift, strayed, failures>>
recordVars == <<scene, toolVars, importVars, skillVars, sessionVars>>

-----------------------------------------------------------------------------
(* Specification: a part that is not played is at rest. *)

ToolsRest ==
    /\ rows = Tools!Standard /\ call = Tools!NoCall("update_deal")
    /\ version = 1 /\ edits = 0 /\ touched = {} /\ stale = {} /\ toolFaults = 0
ImportRests ==
    /\ cat = Import!Catalog /\ faced = cat /\ job = Import!NoJob
    /\ meddled = {} /\ meddling = 0 /\ mishaps = 0
SkillsRest == Skills!Init /\ \A r \in Skills!Row : library[r] = Skills!NoRow

RecordsInit ==
    /\ scene \in {"tools", "import", "skills", "session"}
    /\ IF scene = "tools" THEN Tools!Init ELSE ToolsRest
    /\ IF scene = "import" THEN Import!Init ELSE ImportRests
    /\ IF scene = "skills" THEN Skills!Init ELSE SkillsRest
    /\ Session!Init

RecordsNext ==
    \/ scene = "tools" /\ Tools!Next /\ UNCHANGED <<scene, importVars, skillVars, sessionVars>>
    \/ scene = "import" /\ Import!Next /\ UNCHANGED <<scene, toolVars, skillVars, sessionVars>>
    \/ scene = "skills" /\ Skills!Next /\ UNCHANGED <<scene, toolVars, importVars, sessionVars>>
    \/ scene = "session" /\ Session!Next /\ UNCHANGED <<scene, toolVars, importVars, skillVars>>

RecordsSpec == RecordsInit /\ [][RecordsNext]_recordVars

-----------------------------------------------------------------------------
(* Properties *)

\* The records of the part that is played are as they can be.
RecordTypes ==
    CASE scene = "tools"   -> Tools!TypeOK
      [] scene = "import"  -> Import!ImportTyped
      [] scene = "skills"  -> Skills!SkillsTyped
      [] scene = "session" -> Session!OutboxTyped

(* What the answer of a write tool or of its undo says of a record is so.  *)
AnswersTrue == scene = "tools" => Tools!AnswersTrue

(* What is reported of a record is so: what an import says it has done is  *)
(* in the catalog (csv_importer.py, _execute_import), and a record of the  *)
(* session that is marked delivered can be seen in the workspace, or what  *)
(* stands for it can (workspace_outbox, outbox.py).                        *)
ReportedIsSo ==
    /\ scene = "import" => Import!ReportsTrue
    /\ Session!DeliveredIsShown

(* An undo takes back only what its call did: nobody's later work is       *)
(* silently overwritten by it.                                             *)
KeepsOthersWork == [][scene = "tools" => Tools!KeepsOthersWork]_recordVars

(* What others did stays: a skill is saved over what its editor has seen   *)
(* (store.py, update), what the workspace shows of a session never goes    *)
(* back to an older record, whichever workers take turns (outbox.py,       *)
(* deliver_session), and an import leaves alone what its file does not     *)
(* name (csv_importer.py, _execute_import).                                *)
OthersWorkStays ==
    [][/\ scene = "skills" => Skills!SavesBuildOnSeen
       /\ scene = "session" => Session!MirrorGoesForward
       /\ scene = "import" => Import!NothingElseTouched]_recordVars

(* A workspace has no more skills than it may, however they come to be     *)
(* there, a rep switches on no more than may be on (service.py,            *)
(* set_enabled), and the agent follows only a skill that was there and     *)
(* switched on while it was loaded.                                        *)
SkillsAsAllowed ==
    [][scene = "skills" => Skills!LimitHolds' /\ Skills!LoadsWhatIsOn' /\ Skills!SwitchFits]_recordVars
=============================================================================
