---------------------------- MODULE AgentSession ----------------------------
(***************************************************************************)
(* One session of the sales agent: the processes that drive its graph      *)
(* under a lease, the checkpoint they leave, pauses for approval and their *)
(* resumption, the maintenance sweep, and the offer to undo what a request *)
(* had done when one of its writes does not go through.  Reads and the     *)
(* conversations of sub-agents change none of this and are left out; DONE  *)
(* also stands for HALTED.                                                 *)
(* Sources: app/engine/{runner,orchestrator,leases}.py, api/approvals.py,  *)
(* api/chat.py, db/repositories/sessions.py, platform/langgraph_runtime.py.*)
(***************************************************************************)
EXTENDS ToolGate, SequencesExt

CONSTANTS
    Home,           \* the process that starts the session; which one makes no difference
    MaxAsked,       \* bound: calls the model asks for; the others are offers to undo
    Kinds,          \* bound: the kinds of writes the model asks for
    Edits,          \* bound: the calls whose arguments the rep may edit
    Blind,          \* bound: where a run that lost its lease goes on before it hears of it
    MaxTurns,       \* bound: requests of the rep
    MaxFaults       \* bound: crashes, stalls, failures of the database, admin stops

ASSUME BoundsAssumption ==
    /\ Home \in Engine /\ Edits \subseteq Call /\ MaxAsked \in Call /\ Blind \subseteq At
    /\ Kinds \subseteq {"hold", "mail", "undo"}
    /\ MaxTurns \in Nat /\ MaxFaults \in Nat

VARIABLES
    session,    \* the row in agent.session
    saved,      \* the latest checkpoint of the graph
    mem,        \* process -> the graph as the run it drives has it
    lease,      \* who holds the session's lease in Redis
    resuming,   \* decided calls whose resumption some process has under way
    latest,     \* the call decided last
    told,       \* call -> the outcome the conversation shows
    stop,       \* an administrator's stop stands
    faults,     \* how many faults there were
    stalled     \* history: a lease ran out under a living run

graph == <<saved, mem>>
sessionRows == <<session, latest>>
vars == <<asked, tables, world, driver, session, saved, mem, lease, resuming, latest, told, stop, faults, stalled>>

-----------------------------------------------------------------------------
(* The state *)

Ended == {"DONE", "FAILED"}
SessionStatus == {"none", "RUNNING", "AWAITING_APPROVAL"} \cup Ended
Graph == [next : {"none", "plan", "act", "compensate", "end"}, queue : Seq(Call),
          wrap : BOOLEAN, waiting : Call \cup {NoCall}, answered : BOOLEAN]
NoGraph == [next |-> "none", queue |-> <<>>, wrap |-> FALSE, waiting |-> NoCall, answered |-> FALSE]
Free == "free"
Abandoned == "abandoned"
ASSUME LeaseAssumption == Free \notin Engine /\ Abandoned \notin Engine

TypeOK ==
    /\ asked \in [Call -> Ask \cup {NoAsk}]
    /\ pending \in [Call -> Approval] /\ step \in [Call -> StepStatus]
    /\ confirmed \subseteq Call /\ reversed \subseteq Call
    /\ \A c \in Call : Len(ran[c]) <= 1 /\ \A i \in DOMAIN ran[c] : ran[c][i] \in Go
    /\ \A p \in Engine :
        /\ driver[p].at \in At /\ driver[p].call \in Call \cup {NoCall}
        /\ driver[p].out \in Outcome /\ driver[p].left \subseteq Call
        /\ mem[p] \in Graph
    /\ session.status \in SessionStatus /\ session.turn \in 0 .. MaxTurns
    /\ saved \in Graph
    /\ lease \in Engine \cup {Free, Abandoned}
    /\ resuming \subseteq Call
    /\ latest \in Call \cup {NoCall}
    /\ told \in [Call -> Outcome]
    /\ stop \in BOOLEAN /\ stalled \in BOOLEAN /\ faults \in 0 .. MaxFaults

Init ==
    /\ asked = [c \in Call |-> NoAsk]
    /\ pending = [c \in Call |-> "none"] /\ step = [c \in Call |-> "none"]
    /\ confirmed = {} /\ reversed = {} /\ ran = [c \in Call |-> <<>>]
    /\ driver = [p \in Engine |-> Idle]
    /\ session = [status |-> "none", turn |-> 0]
    /\ saved = NoGraph /\ mem = [p \in Engine |-> NoGraph]
    /\ lease = Free /\ resuming = {} /\ latest = NoCall
    /\ told = [c \in Call |-> "none"]
    /\ stop = FALSE /\ faults = 0 /\ stalled = FALSE

(* The status is compared and set: a session in another status is let be.  *)
Moved(from, status) == IF session.status \in from THEN [session EXCEPT !.status = status] ELSE session

(* A node ends: its state is in the checkpoint before the next one starts. *)
Commit(p, g) == mem' = [mem EXCEPT ![p] = g] /\ saved' = g

-----------------------------------------------------------------------------
(* Requests of the rep *)

(* A chat message starts the session or its next turn; the process has the *)
(* lease before the session is RUNNING.                                    *)
Chat(p) ==
    /\ session.status \in Ended \cup {"none"} /\ session.turn < MaxTurns
    /\ lease = Free /\ driver[p].at = "idle" /\ (session.turn = 0 => p = Home)
    /\ lease' = p
    /\ session' = [status |-> "RUNNING", turn |-> session.turn + 1]
    /\ stop' = FALSE
    /\ To(p, "start")
    /\ UNCHANGED <<asked, tables, world, graph, resuming, latest, told, faults, stalled>>

(* A message to a session that is busy or paused is refused, after an      *)
(* administrator's stop of it was cleared.                                 *)
ChatTooSoon ==
    /\ session.status \in {"RUNNING", "AWAITING_APPROVAL"} /\ stop
    /\ stop' = FALSE
    /\ UNCHANGED <<asked, tables, world, driver, sessionRows, graph, lease, resuming, told, faults, stalled>>

(* The decision is saved first; resuming comes after and may be lost.      *)
Decide(c, verdict) ==
    /\ verdict = "EDITED" => c \in Edits
    /\ Resolve(c, verdict)
    /\ latest' = c
    /\ resuming' = resuming \cup {c}
    /\ UNCHANGED <<asked, driver, session, graph, lease, told, stop, faults, stalled>>

-----------------------------------------------------------------------------
(* Driving the graph *)

ShownFailed(calls) == [c \in Call |-> IF c \in calls THEN "FAILED" ELSE told[c]]

(* The message enters the checkpoint and the turn's bookkeeping starts     *)
(* afresh.  Calls a run that failed left without a reply are shown as      *)
(* FAILED from now on, those that took effect too; an offer to undo is in  *)
(* the conversation only with its reply.                                   *)
Enter(p) ==
    /\ driver[p].at = "start"
    /\ told' = IF saved.next = "act" THEN ShownFailed(ToSet(saved.queue)) ELSE told
    /\ Commit(p, [NoGraph EXCEPT !.next = "plan"])
    /\ To(p, "node")
    /\ UNCHANGED <<asked, tables, world, sessionRows, lease, resuming, stop, faults, stalled>>

Planned == {c \in Call : asked[c] # NoAsk}
Fresh == Cardinality(Planned) + 1

(* What the model may ask for: writes, or to take back actions whose ids   *)
(* it was shown.                                                           *)
Wishes ==
    [kind : Kinds \ {"undo"}, of : {{}}, turn : {session.turn}]
        \cup [kind : Kinds \cap {"undo"}, of : {{t} : t \in {c \in Call : told[c] = "EXECUTED" /\ asked[c].kind = "hold"}},
              turn : {session.turn}]

(* The model answers, asks for calls, or is stopped; after an undo         *)
(* decision it can only answer.                                            *)
Plan(p) ==
    LET g == [mem[p] EXCEPT !.waiting = NoCall, !.answered = FALSE] IN
    /\ driver[p].at = "node" /\ mem[p].next = "plan"
    /\ stop' = FALSE
    /\ \/ /\ Commit(p, [g EXCEPT !.next = "end"])
          /\ To(p, "finish") /\ UNCHANGED asked
       \/ \E n \in 1 .. 2 : \E wish \in [1 .. n -> Wishes] :
            /\ ~stop /\ ~g.wrap
            /\ Fresh + n - 1 <= MaxAsked
            /\ asked' = [c \in Call |-> IF c \in Fresh .. Fresh + n - 1 THEN wish[c - Fresh + 1] ELSE asked[c]]
            /\ Commit(p, [g EXCEPT !.next = "act", !.queue = [i \in 1 .. n |-> Fresh + i - 1]])
            /\ UNCHANGED driver
    /\ UNCHANGED <<tables, world, sessionRows, lease, resuming, told, faults, stalled>>

(* A stopped request runs nothing more and says so of each call; the next  *)
(* planning step ends it.                                                  *)
SkipStopped(p) ==
    /\ driver[p].at = "node" /\ mem[p].next = "act" /\ stop
    /\ told' = ShownFailed(ToSet(mem[p].queue))
    /\ Commit(p, [NoGraph EXCEPT !.next = "plan"])
    /\ UNCHANGED <<asked, tables, world, driver, sessionRows, lease, resuming, stop, faults, stalled>>

(* A node with a write runs it alone.                                      *)
Act(p) ==
    /\ driver[p].at = "node"
    /\ mem[p].next = "compensate" \/ (mem[p].next = "act" /\ ~stop)
    /\ LookUp(p, Head(mem[p].queue))
    /\ UNCHANGED <<asked, sessionRows, graph, lease, resuming, told, stop, faults, stalled>>

(* Completed actions of the turn that can be undone.                       *)
UndoableInTurn == {c \in Call : Undoable(c) /\ asked[c].turn = session.turn}

(* The call's result goes into the conversation.  When it did not go       *)
(* through, the calls behind it are shown as not run, and if something had *)
(* been done the graph offers to undo it.                                  *)
Reply(p) ==
    LET d == driver[p]
        g == [NoGraph EXCEPT !.wrap = mem[p].wrap]
        rest == Tail(mem[p].queue)
        offer == /\ d.out \in {"FAILED", "UNKNOWN", "EXPIRED"}
                 /\ asked[d.call].kind # "undo"
                 /\ UndoableInTurn # {}
                 /\ Fresh <= MaxCalls
    IN
    /\ d.at = "reply"
    /\ told' = [ShownFailed(IF d.out = "EXECUTED" THEN {} ELSE ToSet(rest)) EXCEPT ![d.call] = d.out]
    /\ Goes(p, [Idle EXCEPT !.at = "node"])
    /\ IF mem[p].next = "compensate"
       THEN Commit(p, [g EXCEPT !.next = "plan", !.wrap = TRUE]) /\ UNCHANGED asked
       ELSE IF d.out # "EXECUTED" /\ offer
       THEN /\ Commit(p, [g EXCEPT !.next = "compensate", !.queue = <<Fresh>>])
            /\ asked' = [asked EXCEPT ![Fresh] = [kind |-> "undo", of |-> UndoableInTurn, turn |-> session.turn]]
       ELSE /\ Commit(p, IF d.out = "EXECUTED" /\ rest # <<>>
                         THEN [g EXCEPT !.next = "act", !.queue = rest]
                         ELSE [g EXCEPT !.next = "plan"])
            /\ UNCHANGED asked
    /\ UNCHANGED <<tables, world, sessionRows, lease, resuming, stop, faults, stalled>>

(* Resumed, the gate goes on; a run that crashed after it was resumed may  *)
(* find the resumption in the checkpoint.                                  *)
Resumed(p) ==
    /\ driver[p].resumed \/ mem[p].answered
    /\ TakeDecision(p)
    /\ UNCHANGED <<asked, sessionRows, graph, lease, resuming, told, stop, faults, stalled>>

(* Otherwise the run pauses; the checkpoint says on which call.            *)
Pause(p) ==
    /\ driver[p].at = "wait" /\ ~driver[p].resumed
    /\ Commit(p, [mem[p] EXCEPT !.waiting = driver[p].call, !.answered = FALSE])
    /\ To(p, "settle")
    /\ UNCHANGED <<asked, tables, world, sessionRows, lease, resuming, told, stop, faults, stalled>>

DriveGate(p) ==
    /\ GateStep(p)
    /\ UNCHANGED <<asked, sessionRows, graph, lease, resuming, told, stop, faults, stalled>>

-----------------------------------------------------------------------------
(* Settling the status *)

SettlePause(p) ==
    /\ driver[p].at = "settle"
    /\ session' = Moved({"RUNNING"}, "AWAITING_APPROVAL")
    /\ To(p, "check")
    /\ UNCHANGED <<asked, tables, world, graph, lease, resuming, latest, told, stop, faults, stalled>>

(* Was it decided while the run was pausing?  Then it goes on at once.     *)
CheckDecided(p) ==
    LET c == driver[p].call IN
    /\ driver[p].at = "check"
    /\ IF pending[c] # "PENDING" /\ session.status = "AWAITING_APPROVAL"
       THEN /\ session' = [session EXCEPT !.status = "RUNNING"]
            /\ Commit(p, [saved EXCEPT !.answered = TRUE])
            /\ Goes(p, [Idle EXCEPT !.at = "node", !.resumed = TRUE])
       ELSE /\ Goes(p, [Idle EXCEPT !.at = "release"])
            /\ UNCHANGED <<session, graph>>
    /\ UNCHANGED <<asked, tables, world, lease, resuming, latest, told, stop, faults, stalled>>

Finish(p) ==
    /\ driver[p].at = "finish" \/ (driver[p].at = "node" /\ mem[p].next = "end")
    /\ session' = Moved({"RUNNING"}, "DONE")
    /\ To(p, "release")
    /\ UNCHANGED <<asked, tables, world, graph, lease, resuming, latest, told, stop, faults, stalled>>

(* Only the holder's token deletes the lease.                              *)
Freed(p) == IF lease = p THEN Free ELSE lease

Release(p) ==
    /\ driver[p].at = "release"
    /\ lease' = Freed(p)
    /\ Goes(p, Idle) /\ mem' = [mem EXCEPT ![p] = NoGraph]
    /\ UNCHANGED <<asked, tables, world, sessionRows, saved, resuming, told, stop, faults, stalled>>

(* A run that lost its lease is cancelled at its next await.               *)
Segment == Gate \cup {"start", "node"}

LoseLease(p) ==
    /\ driver[p].at \in Segment /\ lease # p
    /\ Goes(p, Idle) /\ mem' = [mem EXCEPT ![p] = NoGraph]
    /\ UNCHANGED <<asked, tables, world, sessionRows, saved, lease, resuming, told, stop, faults, stalled>>

-----------------------------------------------------------------------------
(* Resuming and the maintenance sweep *)

Drives(p, g, resumed) ==
    /\ lease' = p
    /\ mem' = [mem EXCEPT ![p] = g]
    /\ Goes(p, [Idle EXCEPT !.at = "node", !.resumed = resumed])

(* With the lease free: resume if the session is paused on this call.      *)
Resume(p, c) ==
    /\ c \in resuming
    /\ lease = Free /\ driver[p].at = "idle"
    /\ resuming' = resuming \ {c}
    /\ IF saved.waiting = c /\ session.status = "AWAITING_APPROVAL"
       THEN /\ session' = [session EXCEPT !.status = "RUNNING"]
            /\ saved' = [saved EXCEPT !.answered = TRUE]
            /\ Drives(p, saved', TRUE)
       ELSE UNCHANGED <<session, graph, lease, driver>>
    /\ UNCHANGED <<asked, tables, world, latest, told, stop, faults, stalled>>

(* The lease stayed taken for longer than a lease lasts.                   *)
GiveUp(c) ==
    /\ c \in resuming /\ lease # Free
    /\ resuming' = resuming \ {c}
    /\ UNCHANGED <<asked, tables, world, driver, sessionRows, graph, lease, told, stop, faults, stalled>>

(* The approval's time is over and the sweep says so.                      *)
ExpireStale(c) ==
    /\ Resolve(c, "EXPIRED")
    /\ latest' = c
    /\ resuming' = IF session.status = "AWAITING_APPROVAL" THEN resuming \cup {c} ELSE resuming
    /\ UNCHANGED <<asked, driver, session, graph, lease, told, stop, faults, stalled>>

(* RUNNING and no lease: the run died.  Without a checkpoint it failed     *)
(* before it began, otherwise it goes on from there.                       *)
RecoverOrphan(p) ==
    /\ session.status = "RUNNING" /\ lease = Free /\ driver[p].at = "idle"
    /\ IF saved.next = "none"
       THEN session' = [session EXCEPT !.status = "FAILED"] /\ UNCHANGED <<lease, mem, driver>>
       ELSE Drives(p, saved, FALSE) /\ UNCHANGED session
    /\ UNCHANGED <<asked, tables, world, latest, saved, resuming, told, stop, faults, stalled>>

(* Paused, nothing left to decide: resume with the latest decision.        *)
Settled == latest # NoCall /\ \A c \in Call : pending[c] # "PENDING"

(* ResumeStalled, had the sweep looked among the running sessions.         *)
ResumeRunning ==
    /\ session.status = "RUNNING" /\ lease = Free /\ Settled
    /\ resuming' = resuming \cup {latest}
    /\ UNCHANGED <<asked, tables, world, driver, sessionRows, graph, lease, told, stop, faults, stalled>>

ResumeStalled ==
    /\ session.status = "AWAITING_APPROVAL" /\ lease = Free /\ Settled
    /\ resuming' = resuming \cup {latest}
    /\ UNCHANGED <<asked, tables, world, driver, sessionRows, graph, lease, told, stop, faults, stalled>>

-----------------------------------------------------------------------------
(* Faults *)

Fault == faults < MaxFaults /\ faults' = faults + 1

(* The process dies; its lease runs out later, the resumptions it had are  *)
(* gone.                                                                   *)
Crash(p) ==
    /\ Fault
    /\ driver[p].at # "idle" \/ resuming # {}
    /\ resuming' \in SUBSET resuming
    /\ Goes(p, Idle) /\ mem' = [mem EXCEPT ![p] = NoGraph]
    /\ lease' = IF lease = p THEN Abandoned ELSE lease
    /\ UNCHANGED <<asked, tables, world, sessionRows, saved, told, stop, stalled>>

LeaseExpires ==
    /\ lease = Abandoned /\ lease' = Free
    /\ UNCHANGED <<asked, tables, world, driver, sessionRows, graph, resuming, told, stop, faults, stalled>>

(* Redis or the process hangs for longer than the lease lasts.             *)
Stall(p) ==
    /\ Fault
    /\ lease = p /\ driver[p].at \in Blind
    /\ lease' = Free /\ stalled' = TRUE
    /\ UNCHANGED <<asked, tables, world, driver, sessionRows, graph, resuming, told, stop>>

(* An exception outside the gate ends the run as FAILED.                   *)
SegmentFails(p) ==
    /\ Fault
    /\ driver[p].at \in {"start", "node", "wait", "reply"}
    /\ session' = Moved({"RUNNING"}, "FAILED")
    /\ Goes(p, [Idle EXCEPT !.at = "release"])
    /\ UNCHANGED <<asked, tables, world, latest, graph, lease, resuming, told, stop, stalled>>

GateFails(p) ==
    /\ Fault /\ GateBreaks(p)
    /\ UNCHANGED <<asked, sessionRows, graph, lease, resuming, told, stop, stalled>>

AdminStop ==
    /\ Fault
    /\ session.status \in {"RUNNING", "AWAITING_APPROVAL"} /\ stop' = TRUE
    /\ UNCHANGED <<asked, tables, world, driver, sessionRows, graph, lease, resuming, told, stalled>>

-----------------------------------------------------------------------------
(* The specification *)

Drive(p) ==
    /\ lease = p \/ driver[p].at \in Blind \cup (At \ Segment)
    /\ \/ Enter(p) \/ Plan(p) \/ SkipStopped(p) \/ Act(p) \/ Reply(p) \/ Resumed(p) \/ Pause(p)
       \/ DriveGate(p) \/ SettlePause(p) \/ CheckDecided(p) \/ Finish(p) \/ Release(p)

Verdict == {"APPROVED", "EDITED", "REJECTED"}

Next ==
    \/ \E p \in Engine :
        \/ Chat(p) \/ Drive(p) \/ LoseLease(p) \/ RecoverOrphan(p)
        \/ Crash(p) \/ Stall(p) \/ SegmentFails(p) \/ GateFails(p)
        \/ \E c \in Call : Resume(p, c)
    \/ \E c \in Call : ExpireStale(c) \/ GiveUp(c) \/ \E verdict \in Verdict : Decide(c, verdict)
    \/ ChatTooSoon \/ ResumeStalled \/ LeaseExpires \/ AdminStop

(* A process runs its coroutines, polls for a free lease, hears of a lost  *)
(* one and sweeps; the clock goes on.  Nobody has to decide or to chat.    *)
Fairness ==
    /\ WF_vars(LeaseExpires) /\ WF_vars(ResumeStalled)
    /\ \A p \in Engine : WF_vars(Drive(p)) /\ WF_vars(LoseLease(p))
    /\ WF_vars(\E p \in Engine : RecoverOrphan(p))
    /\ \A c \in Call : WF_vars(\E p \in Engine : Resume(p, c)) /\ WF_vars(ExpireStale(c))

Spec == Init /\ [][Next]_vars /\ Fairness

-----------------------------------------------------------------------------
(* What the session promises *)

(* A write takes effect at most once under its key, with two processes at  *)
(* it, after crashes and when its run is repeated from the checkpoint      *)
(* (gate.py:300, ledger.py:86).                                            *)
AtMostOnce(c) == Len(ran[c]) <= 1

(* It takes effect only after the rep approved it, with the arguments as   *)
(* they were approved or edited, and no later decision, nor the end of the *)
(* approval's time, changes that (pending_actions.py:91, :114).            *)
OnlyAsDecided(c) == \A i \in DOMAIN ran[c] : ran[c][i] = pending[c]

(* The conversation says what the tables say: a call shown as executed is  *)
(* in the audit and took effect, one shown as rejected or expired was      *)
(* decided so and had no effect, and an effect has its saga step, whatever *)
(* is shown.  FAILED, INVALID and UNKNOWN promise nothing: a tool may      *)
(* raise after its effect, and a call without a reply is shown as failed   *)
(* (gate.py:300, :515, orchestrator.py:703).                               *)
ToldTruthfully(c) ==
    /\ told[c] = "EXECUTED" =>
        /\ c \in confirmed
        /\ IF asked[c].kind = "undo" THEN asked[c].of \cap reversed # {} ELSE ran[c] # <<>>
    /\ told[c] \in {"REJECTED", "EXPIRED"} => pending[c] = told[c] /\ ran[c] = <<>>
    /\ ran[c] # <<>> => step[c] # "none"

(* Only what took effect is taken back, only by an undo the rep approved,  *)
(* and a step is COMPENSATED only when it was (saga.py:106, :139).         *)
UndoneAsDecided(c) ==
    /\ c \in reversed =>
        /\ ran[c] # <<>>
        /\ \E u \in Call : asked[u].kind = "undo" /\ c \in asked[u].of /\ pending[u] \in Go
    /\ step[c] = "COMPENSATED" => c \in reversed

(* What was answered is over: while no run outlives its lease, no process  *)
(* and no checkpoint takes a call up again that the conversation shows an  *)
(* outcome of, one shown as failed or not run either, so none of them has  *)
(* its effect after that (orchestrator.py:713, :801).                      *)
NotQueued(c) == c \notin ToSet(saved.queue) /\ \A p \in Engine : c \notin ToSet(mem[p].queue)
AnsweredOnce(c) == told[c] # "none" => NotQueued(c)

(* Every write is done once, as the rep decided; what the conversation     *)
(* says of its decision and of an execution is so, and is the last word.   *)
ActsAsDecided ==
    /\ \A c \in Call : AtMostOnce(c) /\ OnlyAsDecided(c) /\ ToldTruthfully(c) /\ UndoneAsDecided(c)
    /\ ~stalled => \A c \in Call : AnsweredOnce(c)

(* The session is paused, everything it asked for is decided, and what was *)
(* decided last is an approval the pause is not about (one left behind by  *)
(* a run that failed before it could pause): the sweep resumes with that   *)
(* one and is turned away each time (pending_actions.py:146).              *)
Stranded ==
    session.status = "AWAITING_APPROVAL" /\ Settled /\ latest # saved.waiting

(* "A run never waits forever" (runner.py:15): every request comes to an   *)
(* end, with nobody deciding, decisions whose resumption was lost, dead    *)
(* processes and runs stopped for their lease.                             *)
TurnsEnd == session.status # "none" ~> session.status \in Ended \/ Stranded

=============================================================================
