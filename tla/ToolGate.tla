------------------------------ MODULE ToolGate ------------------------------
(***************************************************************************)
(* The gate every write of the sales agent goes through: the approval of   *)
(* the rep, the saga step recorded before the side effect, the side        *)
(* effect, the record of its outcome, and the undo of completed actions.   *)
(* A process of the engine works a call step by step; each step is at most *)
(* the code between two transactions or outside calls.  Sessions started   *)
(* by a chat are INTERACTIVE, so the gate's AUTONOMOUS branch is left out. *)
(* Sources: app/tools/gate.py, db/repositories/{pending_actions,ledger}.py,*)
(* engine/guardrails/saga.py, tools/executor.py.                           *)
(***************************************************************************)
EXTENDS Naturals, Sequences, FiniteSets

CONSTANTS
    Engine,         \* processes of the engine
    MaxCalls        \* bound: writes the model asks for in a session, undos included

ASSUME CallsAssumption == MaxCalls \in Nat

Call == 1 .. MaxCalls
NoCall == 0

VARIABLES
    asked,      \* call -> the write the model or the compensator asked for
    pending,    \* call -> its approval, agent.pending_action
    step,       \* call -> its step in agent.saga_step
    confirmed,  \* calls with an EXECUTED entry in agent.audit
    ran,        \* call -> the arguments the tool took effect with, each time it did
    reversed,   \* calls whose effect was taken back
    driver      \* process -> how far it is with the session

tables == <<pending, step, confirmed>>
world == <<ran, reversed>>

-----------------------------------------------------------------------------
(* Calls, approvals, steps *)

(* A hold (a reservation, an event, a Slack message) has an undo plan, a   *)
(* mail (a sent email, a sale) has none, an undo takes back calls.         *)
Ask == [kind : {"hold", "mail", "undo"}, of : SUBSET Call, turn : Nat]
NoAsk == [kind |-> "none", of |-> {}, turn |-> 0]

Approval == {"none", "PENDING", "APPROVED", "EDITED", "REJECTED", "EXPIRED"}
Go == {"APPROVED", "EDITED"}
StepStatus == {"none", "PENDING", "DONE", "FAILED", "COMPENSATED", "COMPENSATION_FAILED"}

(* INVALID also stands for DENIED; FAILED is also the answer for an        *)
(* exception the gate let out ("it may not have completed").               *)
Outcome == {"none", "EXECUTED", "FAILED", "INVALID", "REJECTED", "EXPIRED", "UNKNOWN"}

Undoable(c) == step[c] = "DONE" /\ asked[c].kind = "hold"

-----------------------------------------------------------------------------
(* The driver of a session *)

Gate == {"ask", "wait", "begin", "insert", "run", "undo", "undone", "record", "reply"}
At == Gate \cup {"idle", "start", "node", "settle", "check", "finish", "release"}

Idle == [at |-> "idle", call |-> NoCall, args |-> "none", out |-> "none", left |-> {}, won |-> {}, resumed |-> FALSE]

Goes(p, d) == driver' = [driver EXCEPT ![p] = d]
To(p, place) == Goes(p, [driver[p] EXCEPT !.at = place])
Answers(p, out) == Goes(p, [driver[p] EXCEPT !.at = "reply", !.out = out])

(* What was recorded under the key of this call answers it; an approval    *)
(* asked for before is waited for again.                                   *)
LookUp(p, c) ==
    /\ LET d == [driver[p] EXCEPT !.call = c] IN
        \/ c \in confirmed /\ Goes(p, [d EXCEPT !.at = "reply", !.out = "EXECUTED"])
        \/ c \notin confirmed /\ pending[c] # "none" /\ Goes(p, [d EXCEPT !.at = "wait"])
        \/ c \notin confirmed /\ pending[c] = "none" /\ Goes(p, [d EXCEPT !.at = "ask"])
    /\ UNCHANGED <<tables, world>>

(* The preview may find that the call cannot work; an undo is refused      *)
(* unless every action it names can be undone.                             *)
Refused(c) ==
    IF asked[c].kind = "undo"
    THEN IF \A t \in asked[c].of : Undoable(t) THEN {} ELSE {"INVALID"}
    ELSE {"INVALID", "FAILED"}

AskRep(p) ==
    /\ driver[p].at = "ask"
    /\ LET c == driver[p].call IN
        \/ /\ \E out \in Refused(c) : Answers(p, out)
           /\ UNCHANGED pending
        \/ /\ asked[c].kind = "undo" => Refused(c) = {}
           /\ pending' = IF pending[c] = "none" THEN [pending EXCEPT ![c] = "PENDING"] ELSE pending
           /\ To(p, "wait")
    /\ UNCHANGED <<step, confirmed, world>>

(* The run was resumed: the gate reads what was decided.                   *)
TakeDecision(p) ==
    LET d == driver[p]  verdict == pending[d.call] IN
    /\ d.at = "wait"
    /\ verdict # "PENDING"
    /\ IF verdict \in Go
       THEN Goes(p, [d EXCEPT !.at = "begin", !.args = verdict, !.resumed = FALSE])
       ELSE Goes(p, [d EXCEPT !.at = "reply", !.out = verdict, !.resumed = FALSE])
    /\ UNCHANGED <<tables, world>>

(* BeginStep, had a step that never confirmed been run again.              *)
BeginAgain(p) ==
    /\ driver[p].at = "begin"
    /\ \/ step[driver[p].call] = "none" /\ To(p, "insert")
       \/ step[driver[p].call] = "PENDING" /\ To(p, "run")
       \/ step[driver[p].call] \notin {"none", "PENDING"} /\ Answers(p, "FAILED")
    /\ UNCHANGED <<tables, world>>

(* A step found under the key: the tool is not run a second time.          *)
BeginStep(p) ==
    /\ driver[p].at = "begin"
    /\ \/ step[driver[p].call] = "none" /\ To(p, "insert")
       \/ step[driver[p].call] = "PENDING" /\ Answers(p, "UNKNOWN")
       \/ step[driver[p].call] \notin {"none", "PENDING"} /\ Answers(p, "FAILED")
    /\ UNCHANGED <<tables, world>>

(* The insert waits for the session's row; another process may have        *)
(* inserted the step meanwhile, then the key is taken.                     *)
InsertStep(p) ==
    LET c == driver[p].call IN
    /\ driver[p].at = "insert"
    /\ \/ step[c] = "none" /\ step' = [step EXCEPT ![c] = "PENDING"] /\ To(p, "run")
       \/ step[c] # "none" /\ Answers(p, "FAILED") /\ UNCHANGED step
    /\ UNCHANGED <<pending, confirmed, world>>

(* A write is tried once.  Whatever a tool raises becomes an outcome, and  *)
(* it may raise after the request was applied: only EXECUTED says whether  *)
(* there was an effect.                                                    *)
RunTool(p) ==
    LET d == driver[p]  c == d.call IN
    /\ d.at = "run" /\ asked[c].kind # "undo"
    /\ \E effect \in BOOLEAN, out \in {"EXECUTED", "UNKNOWN", "FAILED", "INVALID"} :
        /\ out = "EXECUTED" => effect
        /\ ran' = IF effect THEN [ran EXCEPT ![c] = Append(@, d.args)] ELSE ran
        /\ Goes(p, [d EXCEPT !.at = "record", !.out = out])
    /\ UNCHANGED <<tables, reversed>>

(* undo_actions checks the steps again: they may have changed since the    *)
(* preview.                                                                *)
SelectSteps(p) ==
    LET d == driver[p]  c == d.call IN
    /\ d.at = "run" /\ asked[c].kind = "undo"
    /\ IF \A t \in asked[c].of : Undoable(t)
       THEN Goes(p, [d EXCEPT !.at = "undo", !.left = asked[c].of])
       ELSE Goes(p, [d EXCEPT !.at = "record", !.out = "INVALID"])
    /\ UNCHANGED <<tables, world>>

Newest(calls) == CHOOSE t \in calls : \A u \in calls : u <= t

(* One undo, retried while nobody answers: it may have worked and yet      *)
(* count as failed.  The whole tool may also run out of time.              *)
UndoStep(p) ==
    LET d == driver[p]  t == Newest(d.left) IN
    /\ d.at = "undo"
    /\ \/ \E effect, answered \in BOOLEAN :
            /\ answered => effect
            /\ reversed' = IF effect THEN reversed \cup {t} ELSE reversed
            /\ Goes(p, [d EXCEPT !.at = "undone", !.won = IF answered THEN @ \cup {t} ELSE @])
       \/ /\ Goes(p, [d EXCEPT !.at = "record", !.out = "UNKNOWN"])
          /\ UNCHANGED reversed
    /\ UNCHANGED <<tables, ran>>

UndoResult(won) == IF won = {} THEN "FAILED" ELSE "EXECUTED"

FinishCompensation(p) ==
    LET d == driver[p]
        t == Newest(d.left)
        rest == d.left \ {t}
    IN
    /\ d.at = "undone"
    /\ step' = IF step[t] = "DONE"
               THEN [step EXCEPT ![t] = IF t \in d.won THEN "COMPENSATED" ELSE "COMPENSATION_FAILED"]
               ELSE step
    /\ Goes(p, IF rest = {} THEN [d EXCEPT !.at = "record", !.left = {}, !.won = {}, !.out = UndoResult(d.won)]
                            ELSE [d EXCEPT !.at = "undo", !.left = rest])
    /\ UNCHANGED <<pending, confirmed, world>>

(* The audit entry and the step change in one transaction; an unknown      *)
(* outcome leaves the step PENDING.                                        *)
RecordOutcome(p) ==
    LET c == driver[p].call  out == driver[p].out IN
    /\ driver[p].at = "record"
    /\ confirmed' = IF out = "EXECUTED" THEN confirmed \cup {c} ELSE confirmed
    /\ step' = CASE out = "EXECUTED" -> [step EXCEPT ![c] = "DONE"]
                 [] out = "UNKNOWN" -> step
                 [] OTHER -> [step EXCEPT ![c] = "FAILED"]
    /\ To(p, "reply")
    /\ UNCHANGED <<pending, world>>

(* The database does not answer the gate: the exception becomes the reply. *)
GateBreaks(p) ==
    /\ driver[p].at \in {"ask", "begin", "insert", "record"}
    /\ Answers(p, "FAILED")
    /\ UNCHANGED <<tables, world>>

GateStep(p) ==
    \/ AskRep(p) \/ BeginStep(p) \/ InsertStep(p) \/ RunTool(p) \/ SelectSteps(p)
    \/ UndoStep(p) \/ FinishCompensation(p) \/ RecordOutcome(p)

-----------------------------------------------------------------------------
(* The human decision *)

(* Resolve, had an action approved already been open to a decision.        *)
ResolveAgain(c, verdict) ==
    /\ pending[c] \in {"PENDING", "APPROVED"}
    /\ pending' = [pending EXCEPT ![c] = verdict]
    /\ UNCHANGED <<step, confirmed, world>>

(* Only a PENDING action can be decided; whoever comes first, the rep or   *)
(* the clock, decides it.                                                  *)
Resolve(c, verdict) ==
    /\ pending[c] = "PENDING"
    /\ pending' = [pending EXCEPT ![c] = verdict]
    /\ UNCHANGED <<step, confirmed, world>>

=============================================================================
