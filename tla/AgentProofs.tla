---------------------------- MODULE AgentProofs -----------------------------
(***************************************************************************)
(* A session of the agent engine, whatever the constants are: its types,   *)
(* and that every write is done once, as the rep decided, and its decision *)
(* and execution reported as they are, for any number of processes, calls, *)
(* turns and faults, wherever a run that lost its lease may go on.         *)
(***************************************************************************)
EXTENDS AgentSession, CollectionFacts

-----------------------------------------------------------------------------
(* Sessions: the inductive invariant *)

Runs == {<<>>} \cup {<<choice>> : choice \in Go}
Drivers == [at : At, call : Call \cup {NoCall}, args : Approval, out : Outcome,
            left : SUBSET Call, won : SUBSET Call, resumed : BOOLEAN]

TablesTyped ==
    /\ asked \in [Call -> Ask \cup {NoAsk}]
    /\ pending \in [Call -> Approval] /\ step \in [Call -> StepStatus]
    /\ confirmed \subseteq Call /\ reversed \subseteq Call
    /\ ran \in [Call -> Runs] /\ told \in [Call -> Outcome]
RunsTyped ==
    /\ driver \in [Engine -> Drivers] /\ mem \in [Engine -> Graph] /\ saved \in Graph
SessionTyped ==
    /\ session \in [status : SessionStatus, turn : 0 .. MaxTurns]
    /\ lease \in Engine \cup {Free, Abandoned}
    /\ resuming \subseteq Call /\ latest \in Call \cup {NoCall}
    /\ stop \in BOOLEAN /\ stalled \in BOOLEAN /\ faults \in 0 .. MaxFaults
Typed == TablesTyped /\ RunsTyped /\ SessionTyped

Asked(c) == asked[c] # NoAsk

(* The write did what it was asked for.                                    *)
Effective(c) == IF asked[c].kind = "undo" THEN asked[c].of \cap reversed # {} ELSE ran[c] # <<>>

(* A node with calls has one; they were asked for, each is queued once.    *)
Working == {"act", "compensate"}
Sound(g, calls) ==
    /\ g.next \in Working => g.queue # <<>>
    /\ ToSet(g.queue) \subseteq calls
    /\ IsInjective(g.queue)
GraphsSound == Sound(saved, Planned) /\ \A p \in Engine : Sound(mem[p], Planned)

(* Calls are asked for in the order of their numbers.                      *)
AskedInOrder == \E k \in 0 .. MaxCalls : \A c \in Call : Asked(c) <=> c <= k

(* From the insert of its step to the record of its outcome a call is in   *)
(* the hands of one process, whoever has the lease.                        *)
OwnedAt == {"run", "undo", "undone", "record"}
Owns(p, c) == driver[p].at \in OwnedAt /\ driver[p].call = c
OwnedByOne == \A p, q \in Engine : \A c \in Call : Owns(p, c) /\ Owns(q, c) => p = q

TakesBack(c, left, won) ==
    /\ asked[c].kind = "undo" /\ left # {} /\ left \subseteq asked[c].of
    /\ \A t \in left : ran[t] # <<>>
    /\ won \subseteq reversed \cap asked[c].of

(* What a process in the gate knows of its call.                           *)
Refusal == {"REJECTED", "EXPIRED"}
Decided == {"begin", "insert", "run", "undo", "undone"}
KnowsItsCall(p) ==
    LET d == driver[p]  c == d.call IN
    /\ d.at = "idle" => mem[p].queue = <<>>
    /\ d.at \in Gate => mem[p].next \in Working /\ c = Head(mem[p].queue)
    /\ d.at \in {"idle", "start", "node", "ask", "wait", "begin", "insert", "run"} => d.won = {}
    /\ d.at \in Decided => d.args = pending[c] /\ pending[c] \in Go
    /\ d.at \in OwnedAt => step[c] = "PENDING"
    /\ d.at = "run" => ran[c] = <<>>
    /\ d.at \in {"undo", "undone"} => TakesBack(c, d.left, d.won)
    /\ d.at \in {"record", "reply"} /\ d.out = "EXECUTED" => Effective(c)
    /\ d.at = "reply" /\ d.out = "EXECUTED" => c \in confirmed
    /\ d.at = "record" => d.out \notin Refusal
    /\ d.at = "reply" /\ d.out \in Refusal => pending[c] = d.out
DriversKnow == \A p \in Engine : KnowsItsCall(p)

(* What the tables say of a call.                                          *)
Recorded(c) ==
    /\ pending[c] # "none" \/ step[c] # "none" \/ told[c] # "none" \/ c \in confirmed => Asked(c)
    /\ asked[c].kind = "undo" => asked[c].of # {}
    /\ ran[c] # <<>> => asked[c].kind # "undo" /\ step[c] # "none" /\ ran[c] = <<pending[c]>>
    /\ step[c] \in {"DONE", "COMPENSATED", "COMPENSATION_FAILED"} => c \in confirmed
    /\ step[c] = "COMPENSATED" => c \in reversed
    /\ c \in confirmed => Effective(c)
    /\ told[c] = "EXECUTED" => c \in confirmed
    /\ told[c] \in Refusal => pending[c] = told[c]
    /\ c \in reversed =>
        /\ ran[c] # <<>>
        /\ \E u \in Call : asked[u].kind = "undo" /\ c \in asked[u].of /\ pending[u] \in Go
CallsRecorded == \A c \in Call : Recorded(c)

(* While no lease ran out under a living run: one process at most is at    *)
(* the session, and no call that was answered before is in a queue.        *)
HoldsLease(p) == driver[p].at # "idle" => lease = p
Alone ==
    ~stalled =>
        /\ \A p \in Engine : HoldsLease(p)
        /\ \A c \in Call : AnsweredOnce(c)

SessionInv ==
    /\ Typed /\ GraphsSound /\ AskedInOrder /\ OwnedByOne
    /\ DriversKnow /\ CallsRecorded /\ Alone

-----------------------------------------------------------------------------
(* Where a process goes *)

LEMMA Went ==
    ASSUME NEW p \in Engine, driver \in [Engine -> Drivers], NEW d, Goes(p, d)
    PROVE  /\ driver'[p] = d
           /\ \A q \in Engine : q # p => driver'[q] = driver[q]
           /\ d \in Drivers => driver' \in [Engine -> Drivers]
  BY DEF Goes

LEMMA IdleTyped == Idle \in Drivers /\ NoGraph \in Graph
  BY DEF Idle, Drivers, NoCall, At, Gate, Approval, Outcome, NoGraph, Graph

(* Only the place changes.                                                 *)
LEMMA WentTo ==
    ASSUME NEW p \in Engine, driver \in [Engine -> Drivers], NEW x \in At, To(p, x)
    PROVE  /\ driver' \in [Engine -> Drivers]
           /\ \A q \in Engine : q # p => driver'[q] = driver[q]
           /\ driver'[p].at = x /\ driver'[p].call = driver[p].call
           /\ driver'[p].args = driver[p].args /\ driver'[p].out = driver[p].out
           /\ driver'[p].left = driver[p].left /\ driver'[p].won = driver[p].won
<1> PICK e \in Drivers : e = driver[p]
  OBVIOUS
<1> DEFINE d == [e EXCEPT !.at = x]
<1>1. d \in Drivers /\ d.at = x /\ d.call = e.call /\ d.args = e.args /\ d.out = e.out /\ d.left = e.left /\ d.won = e.won
  BY DEF Drivers
<1>2. Goes(p, d)
  BY Zenon DEF To
<1> HIDE DEF d
<1> QED
  BY <1>1, <1>2, Went

(* The gate answers the call.                                              *)
LEMMA WentToReply ==
    ASSUME NEW p \in Engine, driver \in [Engine -> Drivers], NEW out \in Outcome, Answers(p, out)
    PROVE  /\ driver' \in [Engine -> Drivers]
           /\ \A q \in Engine : q # p => driver'[q] = driver[q]
           /\ driver'[p].at = "reply" /\ driver'[p].call = driver[p].call /\ driver'[p].out = out
<1> PICK e \in Drivers : e = driver[p]
  OBVIOUS
<1> DEFINE d == [e EXCEPT !.at = "reply", !.out = out]
<1>1. d \in Drivers /\ d.at = "reply" /\ d.call = e.call /\ d.out = out
  BY DEF Drivers, At, Gate
<1>2. Goes(p, d)
  BY Zenon DEF Answers
<1> HIDE DEF d
<1> QED
  BY <1>1, <1>2, Went

(* It leaves its call for good.                                            *)
LEMMA WentAway ==
    ASSUME NEW p \in Engine, driver \in [Engine -> Drivers], NEW x \in At, NEW resumed \in BOOLEAN,
           Goes(p, [Idle EXCEPT !.at = x, !.resumed = resumed])
    PROVE  /\ driver' \in [Engine -> Drivers]
           /\ \A q \in Engine : q # p => driver'[q] = driver[q]
           /\ driver'[p].at = x /\ driver'[p].won = {}
<1> DEFINE d == [Idle EXCEPT !.at = x, !.resumed = resumed]
<1>1. d \in Drivers /\ d.at = x /\ d.won = {}
  BY IdleTyped DEF Drivers, Idle
<1> HIDE DEF d
<1> QED
  BY <1>1, Went DEF d

LEMMA AwayForms ==
    ASSUME NEW x
    PROVE  /\ [Idle EXCEPT !.at = x] = [Idle EXCEPT !.at = x, !.resumed = FALSE]
           /\ Idle = [Idle EXCEPT !.at = "idle", !.resumed = FALSE]
<1> PICK e \in Drivers : e = Idle
  BY IdleTyped
<1>1. e.at = "idle" /\ e.resumed = FALSE
  BY DEF Idle
<1>2. /\ [e EXCEPT !.at = x] = [e EXCEPT !.at = x, !.resumed = FALSE]
      /\ e = [e EXCEPT !.at = "idle", !.resumed = FALSE]
  BY <1>1 DEF Drivers
<1> QED
  BY <1>2, Zenon

-----------------------------------------------------------------------------
(* Initially *)

LEMMA InitInv == Init => SessionInv
<1> SUFFICES ASSUME Init PROVE SessionInv
  OBVIOUS
<1> USE BoundsAssumption, CallsAssumption, IdleTyped
<1>1. Typed
  <2>1. TablesTyped
    BY DEF Init, TablesTyped, Runs, Approval, StepStatus, Outcome
  <2>2. RunsTyped
    BY DEF Init, RunsTyped
  <2>3. session \in [status : SessionStatus, turn : 0 .. MaxTurns]
    BY DEF Init, SessionStatus
  <2>4. stop \in BOOLEAN /\ stalled \in BOOLEAN
    BY Zenon DEF Init
  <2>5. lease \in Engine \cup {Free, Abandoned} /\ latest \in Call \cup {NoCall} /\ resuming \subseteq Call
    BY DEF Init
  <2>6. faults \in 0 .. MaxFaults
    BY DEF Init
  <2>7. SessionTyped
    BY <2>3, <2>4, <2>5, <2>6, Zenon DEF SessionTyped
  <2> QED
    BY <2>1, <2>2, <2>7 DEF Typed
<1>2. Sound(NoGraph, Planned) /\ ToSet(NoGraph.queue) = {}
  BY DEF Sound, NoGraph, Working, ToSet, IsInjective
<1>3. GraphsSound
  BY <1>2, Zenon DEF Init, GraphsSound
<1>4. \A p \in Engine : driver[p] = Idle /\ mem[p] = NoGraph
  BY DEF Init
<1>5. \A c \in Call : /\ asked[c] = NoAsk /\ pending[c] = "none" /\ step[c] = "none"
                      /\ ran[c] = <<>> /\ told[c] = "none"
  BY DEF Init
<1>6. AskedInOrder
  <2>1. \A c \in Call : Asked(c) <=> c <= 0
    BY <1>5 DEF Asked, Call
  <2> QED
    BY <2>1 DEF AskedInOrder
<1>7. OwnedByOne
  BY <1>4 DEF OwnedByOne, Owns, OwnedAt, Idle
<1>8. DriversKnow
  BY <1>4 DEF DriversKnow, KnowsItsCall, Idle, NoGraph, Gate, Decided, OwnedAt
<1>9. CallsRecorded
  BY <1>5 DEF Init, CallsRecorded, Recorded, NoAsk
<1>10. Alone
  BY <1>4, <1>5 DEF Alone, HoldsLease, AnsweredOnce, Idle
<1> QED
  BY <1>1, <1>3, <1>6, <1>7, <1>8, <1>9, <1>10 DEF SessionInv
-----------------------------------------------------------------------------
(* Steps that leave the tables and the conversation alone *)

Quiet == UNCHANGED <<asked, tables, world, told>>
OnlyMoves(p) == \A q \in Engine : q # p => driver'[q] = driver[q] /\ mem'[q] = mem[q]

(* A graph without calls, or with those it had.                            *)
Empty(g) == g.queue = <<>> /\ g.next \notin Working
SameCalls(g, h) == g.queue = h.queue /\ (g.next = h.next \/ g.next \notin Working)
From(p, g) == Empty(g) \/ SameCalls(g, saved) \/ SameCalls(g, mem[p])

(* What Alone says of the processes, after the step.                       *)
StillAlone == ~stalled' => ~stalled /\ \A q \in Engine : HoldsLease(q)'

LEMMA SoundFrom ==
    ASSUME NEW g, NEW h, NEW calls, Sound(h, calls), Empty(g) \/ SameCalls(g, h)
    PROVE  Sound(g, calls) /\ ToSet(g.queue) \subseteq ToSet(h.queue)
<1>1. ToSet(<<>>) = {} /\ IsInjective(<<>>)
  BY DEF ToSet, IsInjective
<1> QED
  BY <1>1 DEF Sound, Empty, SameCalls

LEMMA QuietKeeps ==
    ASSUME SessionInv, Typed', NEW p \in Engine, Quiet, OnlyMoves(p),
           From(p, saved'), From(p, mem'[p]), KnowsItsCall(p)',
           \A c \in Call : Owns(p, c)' => Owns(p, c), StillAlone
    PROVE  SessionInv'
<1> USE DEF SessionInv
<1>1. Planned' = Planned
  BY DEF Planned, Quiet
<1>2. Sound(saved', Planned) /\ Sound(mem'[p], Planned)
      /\ ToSet(saved'.queue) \subseteq ToSet(saved.queue) \cup ToSet(mem[p].queue)
      /\ ToSet(mem'[p].queue) \subseteq ToSet(saved.queue) \cup ToSet(mem[p].queue)
  BY SoundFrom, Zenon DEF From, GraphsSound
<1>3. GraphsSound'
  BY <1>1, <1>2 DEF GraphsSound, OnlyMoves
<1>4. AskedInOrder'
  BY DEF AskedInOrder, Quiet, Asked
<1>5. OwnedByOne'
  BY DEF OwnedByOne, OnlyMoves, Owns
<1>6. DriversKnow'
  <2> SUFFICES ASSUME NEW q \in Engine, q # p PROVE KnowsItsCall(q)'
    BY DEF DriversKnow
  <2>1. KnowsItsCall(q) /\ driver'[q] = driver[q] /\ mem'[q] = mem[q]
    BY DEF DriversKnow, OnlyMoves
  <2> QED
    BY <2>1 DEF KnowsItsCall, Quiet, tables, world, TakesBack, Effective
<1>7. CallsRecorded'
  BY DEF CallsRecorded, Recorded, Quiet, tables, world, Asked, Effective
<1>8. Alone'
  <2> SUFFICES ASSUME ~stalled' PROVE Alone'
    BY DEF Alone
  <2>1. ~stalled /\ \A q \in Engine : HoldsLease(q)'
    BY DEF StillAlone
  <2>2. ASSUME NEW c \in Call PROVE AnsweredOnce(c)'
    <3>1. AnsweredOnce(c)
      BY <2>1 DEF Alone
    <3>2. NotQueued(c) => NotQueued(c)'
      BY <1>2 DEF NotQueued, OnlyMoves
    <3> QED
      BY <3>1, <3>2 DEF AnsweredOnce, Quiet
  <2> QED
    BY <2>1, <2>2 DEF Alone
<1> QED
  BY <1>3, <1>4, <1>5, <1>6, <1>7, <1>8

(* The process is not at a call any more.                                  *)
Rests(p) ==
    /\ driver'[p].at \notin Gate
    /\ driver'[p].at \in {"idle", "start", "node"} => driver'[p].won = {}
    /\ driver'[p].at = "idle" => mem'[p].queue = <<>>

LEMMA RestKeeps ==
    ASSUME SessionInv, Typed', NEW p \in Engine, Quiet, OnlyMoves(p),
           From(p, saved'), From(p, mem'[p]), Rests(p), StillAlone
    PROVE  SessionInv'
<1>1. KnowsItsCall(p)'
  BY DEF Rests, KnowsItsCall, Gate, Decided, OwnedAt
<1>2. \A c \in Call : ~ Owns(p, c)'
  BY DEF Rests, Gate, Owns, OwnedAt
<1> QED
  BY <1>1, <1>2, QuietKeeps

(* Nobody moves.                                                           *)
LEMMA StillKeeps ==
    ASSUME SessionInv, Typed', Quiet, UNCHANGED <<driver, graph>>, StillAlone
    PROVE  SessionInv'
<1> PICK p \in Engine : p = Home
  BY BoundsAssumption
<1>1. OnlyMoves(p) /\ From(p, saved') /\ From(p, mem'[p])
  BY DEF OnlyMoves, From, SameCalls, graph
<1>2. KnowsItsCall(p)'
  BY DEF SessionInv, DriversKnow, KnowsItsCall, Quiet, tables, world, TakesBack, Effective, graph
<1>3. \A c \in Call : Owns(p, c)' => Owns(p, c)
  BY DEF Owns
<1> QED
  BY <1>1, <1>2, <1>3, QuietKeeps
-----------------------------------------------------------------------------
(* Types of what a step assigns *)

LEMMA QuietTyped ==
    ASSUME Typed, Quiet, RunsTyped', SessionTyped'
    PROVE  Typed'
  BY DEF Typed, TablesTyped, Quiet, tables, world

LEMMA GraphVariants ==
    ASSUME NEW g \in Graph, NEW x \in {"none", "plan", "act", "compensate", "end"},
           NEW c \in Call \cup {NoCall}, NEW b \in BOOLEAN
    PROVE  /\ [g EXCEPT !.next = x] \in Graph /\ [g EXCEPT !.next = x].next = x
           /\ [g EXCEPT !.next = x].queue = g.queue
           /\ [g EXCEPT !.answered = b] \in Graph /\ SameCalls([g EXCEPT !.answered = b], g)
           /\ [g EXCEPT !.waiting = c, !.answered = b] \in Graph
           /\ SameCalls([g EXCEPT !.waiting = c, !.answered = b], g)
  BY DEF Graph, SameCalls

LEMMA EmptyGraph ==
    /\ NoGraph \in Graph /\ Empty(NoGraph)
    /\ [NoGraph EXCEPT !.next = "plan"] \in Graph /\ Empty([NoGraph EXCEPT !.next = "plan"])
<1> PICK g \in Graph : g = NoGraph
  BY IdleTyped
<1>1. g.next = "none" /\ g.queue = <<>>
  BY DEF NoGraph
<1>2. [g EXCEPT !.next = "plan"] \in Graph /\ Empty([g EXCEPT !.next = "plan"])
  BY <1>1 DEF Empty, Working, Graph
<1> QED
  BY <1>1, <1>2, Zenon DEF Empty, Working

LEMMA Committed ==
    ASSUME NEW p \in Engine, mem \in [Engine -> Graph], NEW g \in Graph, Commit(p, g)
    PROVE  /\ mem' \in [Engine -> Graph] /\ mem'[p] = g
           /\ saved' \in Graph /\ saved' = g
           /\ \A q \in Engine : q # p => mem'[q] = mem[q]
  BY DEF Commit

LEMMA StatusTyped ==
    ASSUME session \in [status : SessionStatus, turn : 0 .. MaxTurns], NEW from, NEW x \in SessionStatus
    PROVE  /\ Moved(from, x) \in [status : SessionStatus, turn : 0 .. MaxTurns]
           /\ [session EXCEPT !.status = x] \in [status : SessionStatus, turn : 0 .. MaxTurns]
<1>1. [session EXCEPT !.status = x] \in [status : SessionStatus, turn : 0 .. MaxTurns]
  OBVIOUS
<1> QED
  BY <1>1 DEF Moved

-----------------------------------------------------------------------------
(* Who has the lease *)

LEMMA NobodyDrives ==
    ASSUME SessionInv, ~stalled, lease \notin Engine
    PROVE  \A q \in Engine : driver[q].at = "idle"
  BY DEF SessionInv, Alone, HoldsLease

LEMMA OneDrives ==
    ASSUME SessionInv, ~stalled, NEW p \in Engine, driver[p].at # "idle"
    PROVE  lease = p /\ \A q \in Engine : q # p => driver[q].at = "idle"
  BY DEF SessionInv, Alone, HoldsLease

(* A process at work goes on and the lease is as it was.                   *)
LEMMA LeaseKept ==
    ASSUME SessionInv, NEW p \in Engine, driver[p].at # "idle", OnlyMoves(p), UNCHANGED <<lease, stalled>>
    PROVE  StillAlone
  BY OneDrives DEF StillAlone, HoldsLease, OnlyMoves

(* A process takes the lease while it is free.                             *)
LEMMA LeaseTaken ==
    ASSUME SessionInv, NEW p \in Engine, lease = Free, OnlyMoves(p), lease' = p, UNCHANGED stalled
    PROVE  StillAlone
  BY LeaseAssumption, NobodyDrives DEF StillAlone, HoldsLease, OnlyMoves

(* A process stops, with or without the lease.                             *)
LEMMA LeaseLeft ==
    ASSUME SessionInv, NEW p \in Engine, driver'[p].at = "idle", OnlyMoves(p),
           lease = p \/ lease' = lease, UNCHANGED stalled
    PROVE  StillAlone
  BY DEF SessionInv, Alone, StillAlone, HoldsLease, OnlyMoves
-----------------------------------------------------------------------------
(* Requests, the sweep, faults: nobody is at a call *)

LEMMA ChatStep == ASSUME SessionInv, NEW p \in Engine, Chat(p) PROVE SessionInv'
<1> USE DEF Chat
<1>1. Typed /\ driver[p].at = "idle" /\ KnowsItsCall(p) /\ driver[p].won = {}
  BY DEF SessionInv, DriversKnow, KnowsItsCall
<1>2. driver' \in [Engine -> Drivers] /\ driver'[p].at = "start" /\ driver'[p].won = {}
      /\ \A q \in Engine : q # p => driver'[q] = driver[q]
  BY <1>1, WentTo DEF Typed, RunsTyped, At
<1>3. Quiet /\ OnlyMoves(p) /\ From(p, saved') /\ From(p, mem'[p])
  BY <1>2 DEF Quiet, OnlyMoves, From, SameCalls, graph
<1>4. session' \in [status : SessionStatus, turn : 0 .. MaxTurns]
  <2>1. session.turn \in 0 .. MaxTurns /\ session.turn < MaxTurns /\ MaxTurns \in Nat
    BY <1>1, BoundsAssumption DEF Typed, SessionTyped
  <2>2. session.turn + 1 \in 0 .. MaxTurns
    BY <2>1
  <2> QED
    BY <2>2 DEF SessionStatus
<1>5. stop' \in BOOLEAN
  BY Zenon
<1>6. RunsTyped' /\ SessionTyped'
  BY <1>1, <1>2, <1>4, <1>5 DEF Typed, RunsTyped, SessionTyped, graph
<1>7. Typed'
  BY <1>1, <1>3, <1>6, QuietTyped
<1>8. Rests(p)
  BY <1>2 DEF Rests, Gate
<1>9. StillAlone
  BY <1>3, LeaseTaken
<1> QED
  BY <1>3, <1>7, <1>8, <1>9, RestKeeps

(* The status, the lease or the switches change, or resumptions.           *)
LEMMA StillStep ==
    ASSUME SessionInv,
           ChatTooSoon \/ ResumeStalled \/ LeaseExpires \/ AdminStop \/ (\E c \in Call : GiveUp(c)) \/ \E p \in Engine : Stall(p)
    PROVE  SessionInv'
<1>1. Quiet /\ UNCHANGED <<driver, graph>>
  BY DEF ChatTooSoon, ResumeStalled, LeaseExpires, AdminStop, GiveUp, Stall, Quiet
<1>2. Typed
  BY DEF SessionInv
<1>3. SessionTyped'
  <2>1. stop' \in BOOLEAN /\ stalled' \in BOOLEAN
    BY <1>2, Zenon DEF ChatTooSoon, ResumeStalled, LeaseExpires, AdminStop, GiveUp, Stall, Typed, SessionTyped
  <2>2. session' = session /\ latest' = latest
    BY DEF ChatTooSoon, ResumeStalled, LeaseExpires, AdminStop, GiveUp, Stall, sessionRows
  <2>3. lease' \in Engine \cup {Free, Abandoned}
    BY <1>2 DEF ChatTooSoon, ResumeStalled, LeaseExpires, AdminStop, GiveUp, Stall, Typed, SessionTyped
  <2>4. faults' \in 0 .. MaxFaults
    BY <1>2, BoundsAssumption
       DEF ChatTooSoon, ResumeStalled, LeaseExpires, AdminStop, GiveUp, Stall, Fault, Typed, SessionTyped
  <2>5. resuming' \subseteq Call
    BY <1>2, BoundsAssumption
       DEF ChatTooSoon, ResumeStalled, LeaseExpires, AdminStop, GiveUp, Stall, Settled, Typed, SessionTyped
  <2> QED
    BY <1>2, <2>1, <2>2, <2>3, <2>4, <2>5 DEF Typed, SessionTyped
<1>4. Typed'
  BY <1>1, <1>2, <1>3, QuietTyped DEF Typed, RunsTyped, graph
<1>5. StillAlone
  <2>1. (lease' = lease /\ stalled' = stalled) \/ (lease = Abandoned /\ stalled' = stalled) \/ stalled'
    BY DEF ChatTooSoon, ResumeStalled, LeaseExpires, AdminStop, GiveUp, Stall
  <2>2. CASE lease' = lease /\ stalled' = stalled
    BY <1>1, <2>2 DEF SessionInv, Alone, StillAlone, HoldsLease
  <2>3. CASE lease = Abandoned /\ stalled' = stalled
    BY <1>1, <2>3, NobodyDrives, LeaseAssumption DEF StillAlone, HoldsLease
  <2> QED
    BY <2>1, <2>2, <2>3 DEF StillAlone
<1> QED
  BY <1>1, <1>4, <1>5, StillKeeps
-----------------------------------------------------------------------------
(* Along the graph, and off it *)

(* A process at work moves on to a place outside the gate; the status may  *)
(* change with it.                                                         *)
LEMMA MovesOn ==
    ASSUME SessionInv, NEW p \in Engine, Quiet, driver[p].at # "idle",
           RunsTyped', session' \in [status : SessionStatus, turn : 0 .. MaxTurns],
           UNCHANGED <<lease, latest, resuming, stop, stalled>>, faults' \in 0 .. MaxFaults,
           OnlyMoves(p), From(p, saved'), From(p, mem'[p]), Rests(p)
    PROVE  SessionInv'
<1>1. SessionTyped'
  BY DEF SessionInv, Typed, SessionTyped
<1>2. Typed'
  BY <1>1, QuietTyped DEF SessionInv
<1>3. StillAlone
  BY LeaseKept
<1> QED
  BY <1>2, <1>3, RestKeeps

LEMMA PauseStep == ASSUME SessionInv, NEW p \in Engine, Pause(p) PROVE SessionInv'
<1> USE DEF Pause
<1>1. Typed
  BY DEF SessionInv
<1>2. driver' \in [Engine -> Drivers] /\ driver'[p].at = "settle"
      /\ \A q \in Engine : q # p => driver'[q] = driver[q]
  BY <1>1, WentTo DEF Typed, RunsTyped, At
<1>3. PICK h \in Graph, c \in Call \cup {NoCall} : h = mem[p] /\ c = driver[p].call
  BY <1>1 DEF Typed, RunsTyped, Drivers
<1>4. PICK g \in Graph : g = [h EXCEPT !.waiting = c, !.answered = FALSE] /\ SameCalls(g, h)
  BY GraphVariants
<1>5. Commit(p, g)
  BY <1>3, <1>4, Zenon
<1>6. mem' \in [Engine -> Graph] /\ mem'[p] = g /\ saved' = g /\ saved' \in Graph
      /\ \A q \in Engine : q # p => mem'[q] = mem[q]
  BY <1>1, <1>5, Committed DEF Typed, RunsTyped
<1>7. Quiet /\ OnlyMoves(p) /\ From(p, saved') /\ From(p, mem'[p])
  BY <1>2, <1>3, <1>4, <1>6 DEF Quiet, OnlyMoves, From
<1>8. Rests(p)
  BY <1>2 DEF Rests, Gate
<1>9. RunsTyped'
  BY <1>2, <1>6 DEF RunsTyped
<1>10. UNCHANGED <<session, lease, latest, resuming, stop, stalled, faults>>
  BY DEF sessionRows
<1> QED
  BY <1>1, <1>7, <1>8, <1>9, <1>10, MovesOn DEF Typed, SessionTyped

(* SettlePause and Finish set the status and go on.                        *)
LEMMA SettlesStep ==
    ASSUME SessionInv, NEW p \in Engine, SettlePause(p) \/ Finish(p)
    PROVE  SessionInv'
<1>1. Typed
  BY DEF SessionInv
<1>2. PICK x \in {"check", "release"} : To(p, x)
  BY DEF SettlePause, Finish
<1>3. driver' \in [Engine -> Drivers] /\ driver'[p].at = x
      /\ \A q \in Engine : q # p => driver'[q] = driver[q]
  BY <1>1, <1>2, WentTo DEF Typed, RunsTyped, At
<1>4. session' \in [status : SessionStatus, turn : 0 .. MaxTurns]
  BY <1>1, StatusTyped DEF SettlePause, Finish, SessionStatus, Ended, Typed, SessionTyped
<1>5. driver[p].at # "idle"
  BY DEF SettlePause, Finish
<1>6. Quiet /\ OnlyMoves(p) /\ From(p, saved') /\ From(p, mem'[p])
  BY <1>3 DEF SettlePause, Finish, Quiet, OnlyMoves, From, SameCalls, graph
<1>7. Rests(p)
  BY <1>3 DEF Rests, Gate
<1>8. RunsTyped' /\ UNCHANGED <<lease, latest, resuming, stop, stalled, faults>>
  BY <1>1, <1>3 DEF SettlePause, Finish, Typed, RunsTyped, graph
<1> QED
  BY <1>1, <1>4, <1>5, <1>6, <1>7, <1>8, MovesOn DEF Typed, SessionTyped
(* Decided while the run was pausing, it goes on from the checkpoint.      *)
LEMMA CheckDecidedStep == ASSUME SessionInv, NEW p \in Engine, CheckDecided(p) PROVE SessionInv'
<1> USE DEF CheckDecided
<1>1. Typed /\ driver[p].at = "check" /\ Quiet
  BY DEF SessionInv, Quiet
<1>2. \/ /\ session' = [session EXCEPT !.status = "RUNNING"]
         /\ Commit(p, [saved EXCEPT !.answered = TRUE])
         /\ Goes(p, [Idle EXCEPT !.at = "node", !.resumed = TRUE])
      \/ /\ Goes(p, [Idle EXCEPT !.at = "release"])
         /\ UNCHANGED <<session, graph>>
  BY Zenon
<1>3. \E x \in {"node", "release"}, resumed \in BOOLEAN : Goes(p, [Idle EXCEPT !.at = x, !.resumed = resumed])
  BY <1>2, AwayForms
<1>4. driver' \in [Engine -> Drivers] /\ driver'[p].at \in {"node", "release"} /\ driver'[p].won = {}
      /\ \A q \in Engine : q # p => driver'[q] = driver[q]
  BY <1>1, <1>3, WentAway DEF Typed, RunsTyped, At
<1>5. /\ mem' \in [Engine -> Graph] /\ saved' \in Graph
      /\ \A q \in Engine : q # p => mem'[q] = mem[q]
      /\ From(p, saved') /\ From(p, mem'[p])
  <2>1. CASE UNCHANGED graph
    BY <1>1, <2>1 DEF Typed, RunsTyped, graph, From, SameCalls
  <2>2. CASE Commit(p, [saved EXCEPT !.answered = TRUE])
    <3>1. PICK h \in Graph : h = saved
      BY <1>1 DEF Typed, RunsTyped
    <3>2. PICK g \in Graph : g = [h EXCEPT !.answered = TRUE] /\ SameCalls(g, h)
      BY GraphVariants
    <3>3. Commit(p, g)
      BY <2>2, <3>1, <3>2, Zenon
    <3>4. mem' \in [Engine -> Graph] /\ mem'[p] = g /\ saved' = g /\ saved' \in Graph
          /\ \A q \in Engine : q # p => mem'[q] = mem[q]
      BY <1>1, <3>3, Committed DEF Typed, RunsTyped
    <3> QED
      BY <3>1, <3>2, <3>4 DEF From
  <2> QED
    BY <1>2, <2>1, <2>2
<1>6. session' \in [status : SessionStatus, turn : 0 .. MaxTurns]
  BY <1>1, <1>2, StatusTyped DEF SessionStatus, Typed, SessionTyped
<1>7. OnlyMoves(p) /\ Rests(p) /\ RunsTyped'
  BY <1>4, <1>5 DEF OnlyMoves, Rests, Gate, RunsTyped
<1>8. UNCHANGED <<lease, latest, resuming, stop, stalled, faults>> /\ faults' \in 0 .. MaxFaults
  BY <1>1 DEF Typed, SessionTyped
<1> QED
  BY <1>1, <1>5, <1>6, <1>7, <1>8, MovesOn

(* An exception outside the gate.                                          *)
LEMMA SegmentFailsStep == ASSUME SessionInv, NEW p \in Engine, SegmentFails(p) PROVE SessionInv'
<1> USE DEF SegmentFails
<1>1. Typed /\ driver[p].at # "idle" /\ Quiet
  BY DEF SessionInv, Quiet
<1>2. Goes(p, [Idle EXCEPT !.at = "release", !.resumed = FALSE])
  BY AwayForms, Zenon
<1>3. driver' \in [Engine -> Drivers] /\ driver'[p].at = "release"
      /\ \A q \in Engine : q # p => driver'[q] = driver[q]
  BY <1>1, <1>2, WentAway DEF Typed, RunsTyped, At
<1>4. session' \in [status : SessionStatus, turn : 0 .. MaxTurns]
  BY <1>1, StatusTyped DEF SessionStatus, Ended, Typed, SessionTyped
<1>5. OnlyMoves(p) /\ From(p, saved') /\ From(p, mem'[p]) /\ Rests(p) /\ RunsTyped'
  BY <1>1, <1>3 DEF OnlyMoves, From, SameCalls, Rests, Gate, RunsTyped, Typed, graph
<1>6. faults' \in 0 .. MaxFaults
  BY <1>1, BoundsAssumption DEF Fault, Typed, SessionTyped
<1> QED
  BY <1>1, <1>4, <1>5, <1>6, MovesOn

(* A run ends: the lease is given back, lost, or left behind by a crash.   *)
LEMMA EndsStep ==
    ASSUME SessionInv, NEW p \in Engine, Release(p) \/ LoseLease(p) \/ Crash(p)
    PROVE  SessionInv'
<1> USE DEF Release, LoseLease, Crash
<1>1. Typed /\ Quiet /\ Goes(p, Idle) /\ mem' = [mem EXCEPT ![p] = NoGraph] /\ saved' = saved
  BY DEF SessionInv, Quiet
<1>2. Goes(p, [Idle EXCEPT !.at = "idle", !.resumed = FALSE])
  BY <1>1, AwayForms, Zenon
<1>3. driver' \in [Engine -> Drivers] /\ driver'[p].at = "idle" /\ driver'[p].won = {}
      /\ \A q \in Engine : q # p => driver'[q] = driver[q]
  BY <1>1, <1>2, WentAway DEF Typed, RunsTyped, At
<1>4. mem' \in [Engine -> Graph] /\ mem'[p] = NoGraph /\ \A q \in Engine : q # p => mem'[q] = mem[q]
  BY <1>1, EmptyGraph DEF Typed, RunsTyped
<1>5. OnlyMoves(p) /\ From(p, saved') /\ From(p, mem'[p])
  BY <1>1, <1>3, <1>4, EmptyGraph DEF OnlyMoves, From, SameCalls
<1>6. Rests(p)
  BY <1>3, <1>4, EmptyGraph DEF Rests, Gate, Empty
<1>7. lease' \in Engine \cup {Free, Abandoned} /\ (lease = p \/ lease' = lease)
  BY <1>1 DEF Freed, Typed, SessionTyped
<1>8. faults' \in 0 .. MaxFaults /\ resuming' \subseteq Call
  BY <1>1, BoundsAssumption DEF Fault, Typed, SessionTyped
<1>9. UNCHANGED <<session, latest, stop, stalled>>
  BY DEF sessionRows
<1>10. Typed'
  BY <1>1, <1>3, <1>4, <1>7, <1>8, <1>9, QuietTyped DEF Typed, RunsTyped, SessionTyped
<1>11. StillAlone
  BY <1>3, <1>5, <1>7, <1>9, LeaseLeft
<1> QED
  BY <1>1, <1>5, <1>6, <1>10, <1>11, RestKeeps

(* A process takes the session up from its checkpoint.                     *)
LEMMA TakesUp ==
    ASSUME SessionInv, NEW p \in Engine, NEW g \in Graph, NEW resumed \in BOOLEAN,
           Quiet, lease = Free, Drives(p, g, resumed), SameCalls(g, saved),
           saved' \in {saved, g}, UNCHANGED <<latest, stop, stalled, faults>>,
           session' \in [status : SessionStatus, turn : 0 .. MaxTurns], resuming' \subseteq Call
    PROVE  SessionInv'
<1>1. Typed
  BY DEF SessionInv
<1>2. driver' \in [Engine -> Drivers] /\ driver'[p].at = "node" /\ driver'[p].won = {}
      /\ \A q \in Engine : q # p => driver'[q] = driver[q]
  BY <1>1, WentAway DEF Drives, Typed, RunsTyped, At
<1>3. mem' \in [Engine -> Graph] /\ mem'[p] = g /\ \A q \in Engine : q # p => mem'[q] = mem[q]
  BY <1>1 DEF Drives, Typed, RunsTyped
<1>4. OnlyMoves(p) /\ From(p, saved') /\ From(p, mem'[p]) /\ Rests(p)
  BY <1>2, <1>3 DEF OnlyMoves, From, SameCalls, Rests, Gate
<1>5. lease' = p
  BY DEF Drives
<1>6. Typed'
  BY <1>1, <1>2, <1>3, <1>5, QuietTyped DEF Typed, RunsTyped, SessionTyped
<1>7. StillAlone
  BY <1>4, <1>5, LeaseTaken
<1> QED
  BY <1>4, <1>6, <1>7, RestKeeps

LEMMA ResumeStep == ASSUME SessionInv, NEW p \in Engine, NEW c \in Call, Resume(p, c) PROVE SessionInv'
<1> USE DEF Resume
<1>1. Typed /\ Quiet /\ resuming' \subseteq Call
  BY DEF SessionInv, Quiet, Typed, SessionTyped
<1>2. CASE UNCHANGED <<session, graph, lease, driver>>
  <2>1. Typed'
    BY <1>1, <1>2, QuietTyped DEF Typed, RunsTyped, SessionTyped, graph
  <2>2. StillAlone
    BY <1>2 DEF SessionInv, Alone, StillAlone, HoldsLease
  <2> QED
    BY <1>1, <1>2, <2>1, <2>2, StillKeeps
<1>3. CASE /\ session' = [session EXCEPT !.status = "RUNNING"]
           /\ saved' = [saved EXCEPT !.answered = TRUE]
           /\ Drives(p, saved', TRUE)
  <2>1. PICK h \in Graph : h = saved
    BY <1>1 DEF Typed, RunsTyped
  <2>2. PICK g \in Graph : g = [h EXCEPT !.answered = TRUE] /\ SameCalls(g, h)
    BY GraphVariants
  <2>3. saved' = g
    BY <1>3, <2>1, <2>2, Zenon
  <2>4. Drives(p, g, TRUE)
    BY <1>3, <2>3, Zenon
  <2>5. session' \in [status : SessionStatus, turn : 0 .. MaxTurns]
    BY <1>1, <1>3, StatusTyped DEF SessionStatus, Typed, SessionTyped
  <2> QED
    BY <1>1, <2>1, <2>2, <2>3, <2>4, <2>5, TakesUp
<1> QED
  BY <1>2, <1>3

LEMMA RecoverOrphanStep == ASSUME SessionInv, NEW p \in Engine, RecoverOrphan(p) PROVE SessionInv'
<1> USE DEF RecoverOrphan
<1>1. Typed /\ Quiet
  BY DEF SessionInv, Quiet
<1>2. CASE session' = [session EXCEPT !.status = "FAILED"] /\ UNCHANGED <<lease, mem, driver>>
  <2>1. session' \in [status : SessionStatus, turn : 0 .. MaxTurns]
    BY <1>1, <1>2, StatusTyped DEF SessionStatus, Ended, Typed, SessionTyped
  <2>2. Typed'
    BY <1>1, <1>2, <2>1, QuietTyped DEF Typed, RunsTyped, SessionTyped
  <2>3. StillAlone
    BY <1>2 DEF SessionInv, Alone, StillAlone, HoldsLease
  <2> QED
    BY <1>1, <1>2, <2>2, <2>3, StillKeeps DEF graph
<1>3. CASE Drives(p, saved, FALSE) /\ UNCHANGED session
  <2>1. PICK g \in Graph : g = saved
    BY <1>1 DEF Typed, RunsTyped
  <2> QED
    BY <1>1, <1>3, <2>1, TakesUp DEF SameCalls, Typed, SessionTyped
<1> QED
  BY <1>2, <1>3
-----------------------------------------------------------------------------
(* In the gate, before and after the tables change *)

LEMMA RanAsDecided ==
    ASSUME SessionInv, NEW c \in Call, ran[c] # <<>>
    PROVE  ran[c] = <<pending[c]>> /\ pending[c] \in Go
<1>1. ran[c] = <<pending[c]>> /\ ran[c] \in Runs
  BY DEF SessionInv, CallsRecorded, Recorded, Typed, TablesTyped
<1>2. PICK choice \in Go : ran[c] = <<choice>>
  BY <1>1 DEF Runs
<1>3. <<choice>>[1] = <<pending[c]>>[1]
  BY <1>1, <1>2
<1> QED
  BY <1>1, <1>2, <1>3

(* The call at the head of a node's queue was asked for.                   *)
LEMMA HeadAsked ==
    ASSUME SessionInv, NEW p \in Engine, mem[p].next \in Working
    PROVE  /\ mem[p].queue # <<>> /\ Head(mem[p].queue) \in Call /\ Asked(Head(mem[p].queue))
           /\ Head(mem[p].queue) \in ToSet(mem[p].queue)
<1>1. PICK g \in Graph : g = mem[p]
  BY DEF SessionInv, Typed, RunsTyped
<1>2. Sound(g, Planned) /\ g.next \in Working
  BY <1>1 DEF SessionInv, GraphsSound
<1>3. g.queue # <<>> /\ g.queue \in Seq(Call)
  BY <1>2 DEF Sound, Graph
<1>4. Head(g.queue) \in Call /\ Head(g.queue) \in ToSet(g.queue)
  BY <1>3, HeadAndTail
<1>5. Head(g.queue) \in Planned
  BY <1>2, <1>4 DEF Sound
<1> QED
  BY <1>1, <1>3, <1>4, <1>5 DEF Planned, Asked

LEMMA AtItsCall ==
    ASSUME SessionInv, NEW p \in Engine, driver[p].at \in Gate
    PROVE  /\ driver[p].call \in Call /\ Asked(driver[p].call) /\ Recorded(driver[p].call)
           /\ driver[p].call \in ToSet(mem[p].queue)
           /\ KnowsItsCall(p) /\ driver[p] \in Drivers
<1>1. KnowsItsCall(p) /\ driver[p] \in Drivers
  BY DEF SessionInv, DriversKnow, Typed, RunsTyped
<1>2. mem[p].next \in Working /\ driver[p].call = Head(mem[p].queue)
  BY <1>1 DEF KnowsItsCall
<1> QED
  BY <1>1, <1>2, HeadAsked DEF SessionInv, CallsRecorded

LEMMA GateQuiet ==
    ASSUME SessionInv, NEW p \in Engine, Quiet, driver[p].at # "idle",
           driver' \in [Engine -> Drivers], \A q \in Engine : q # p => driver'[q] = driver[q],
           UNCHANGED <<sessionRows, graph, lease, resuming, stop, stalled>>, faults' \in 0 .. MaxFaults,
           KnowsItsCall(p)', \A c \in Call : Owns(p, c)' => Owns(p, c)
    PROVE  SessionInv'
<1>1. Typed
  BY DEF SessionInv
<1>2. OnlyMoves(p) /\ From(p, saved') /\ From(p, mem'[p])
  BY DEF OnlyMoves, From, SameCalls, graph
<1>3. Typed'
  BY <1>1, QuietTyped DEF Typed, RunsTyped, SessionTyped, graph, sessionRows
<1>4. StillAlone
  BY <1>2, LeaseKept
<1> QED
  BY <1>2, <1>3, <1>4, QuietKeeps

LEMMA ActStep == ASSUME SessionInv, NEW p \in Engine, Act(p) PROVE SessionInv'
<1> USE DEF Act
<1>1. Typed /\ driver[p].at = "node" /\ mem[p].next \in Working /\ driver[p].won = {} /\ Quiet
  BY DEF SessionInv, DriversKnow, KnowsItsCall, Working, Quiet, LookUp
<1>2. PICK c \in Call : c = Head(mem[p].queue)
  BY <1>1, HeadAsked
<1>3. PICK e \in Drivers : e = driver[p]
  BY <1>1 DEF Typed, RunsTyped
<1> DEFINE d == [e EXCEPT !.call = c]
           New(x, out) == [d EXCEPT !.at = x, !.out = out]
<1>4. \A x \in {"reply", "wait", "ask"}, out \in Outcome :
          /\ New(x, out) \in Drivers /\ New(x, out).at = x /\ New(x, out).out = out
          /\ New(x, out).call = c /\ New(x, out).won = e.won
  BY DEF Drivers, At, Gate
<1>5. [d EXCEPT !.at = "wait"] = New("wait", d.out) /\ [d EXCEPT !.at = "ask"] = New("ask", d.out) /\ d.out \in Outcome
  BY DEF Drivers
<1>6. LookUp(p, c)
  BY <1>2
<1>7. \/ c \in confirmed /\ Goes(p, New("reply", "EXECUTED"))
      \/ c \notin confirmed /\ pending[c] # "none" /\ Goes(p, New("wait", d.out))
      \/ c \notin confirmed /\ pending[c] = "none" /\ Goes(p, New("ask", d.out))
  <2>1. LET f == [driver[p] EXCEPT !.call = c] IN
            \/ c \in confirmed /\ Goes(p, [f EXCEPT !.at = "reply", !.out = "EXECUTED"])
            \/ c \notin confirmed /\ pending[c] # "none" /\ Goes(p, [f EXCEPT !.at = "wait"])
            \/ c \notin confirmed /\ pending[c] = "none" /\ Goes(p, [f EXCEPT !.at = "ask"])
    BY <1>6, Zenon DEF LookUp
  <2> QED
    BY <1>3, <1>5, <2>1, Zenon
<1> HIDE DEF d, New
<1>8. /\ driver' \in [Engine -> Drivers] /\ \A q \in Engine : q # p => driver'[q] = driver[q]
      /\ driver'[p].call = c /\ driver'[p].won = {}
      /\ \/ c \in confirmed /\ driver'[p].at = "reply" /\ driver'[p].out = "EXECUTED"
         \/ c \notin confirmed /\ driver'[p].at = "wait"
         \/ c \notin confirmed /\ pending[c] = "none" /\ driver'[p].at = "ask"
  <2>1. PICK x \in {"reply", "wait", "ask"}, out \in Outcome :
            /\ Goes(p, New(x, out))
            /\ \/ c \in confirmed /\ x = "reply" /\ out = "EXECUTED"
               \/ c \notin confirmed /\ x = "wait"
               \/ c \notin confirmed /\ pending[c] = "none" /\ x = "ask"
    BY <1>5, <1>7 DEF Outcome
  <2>2. New(x, out) \in Drivers /\ New(x, out).at = x /\ New(x, out).out = out
        /\ New(x, out).call = c /\ New(x, out).won = {}
    BY <1>1, <1>3, <1>4
  <2>3. /\ driver'[p] = New(x, out) /\ driver' \in [Engine -> Drivers]
        /\ \A q \in Engine : q # p => driver'[q] = driver[q]
    BY <1>1, <2>1, <2>2, Went DEF Typed, RunsTyped
  <2> QED
    BY <2>1, <2>2, <2>3
<1>9. Recorded(c) /\ Effective(c)' = Effective(c)
  BY <1>1 DEF SessionInv, CallsRecorded, Effective, Quiet, world
<1>10. KnowsItsCall(p)'
  BY <1>1, <1>2, <1>8, <1>9 DEF KnowsItsCall, Recorded, Refusal, Gate, Decided, OwnedAt, graph, Quiet, tables
<1>11. \A x \in Call : ~ Owns(p, x)'
  BY <1>8 DEF Owns, OwnedAt
<1> QED
  BY <1>1, <1>8, <1>10, <1>11, GateQuiet DEF Typed, SessionTyped
LEMMA ResumedStep == ASSUME SessionInv, NEW p \in Engine, Resumed(p) PROVE SessionInv'
<1> USE DEF Resumed
<1>1. Typed /\ driver[p].at = "wait" /\ Quiet
  BY DEF SessionInv, TakeDecision, Quiet
<1>2. /\ driver[p].call \in Call /\ Recorded(driver[p].call) /\ KnowsItsCall(p) /\ driver[p] \in Drivers
      /\ driver[p].won = {}
  BY <1>1, AtItsCall DEF Gate, KnowsItsCall
<1>3. PICK e \in Drivers, c \in Call, v \in Approval : e = driver[p] /\ c = e.call /\ v = pending[c] /\ v # "PENDING"
  BY <1>1, <1>2 DEF TakeDecision, Typed, TablesTyped
<1> DEFINE d == [e EXCEPT !.at = "begin", !.args = v, !.resumed = FALSE]
           r == [e EXCEPT !.at = "reply", !.out = v, !.resumed = FALSE]
<1>4. \/ v \in Go /\ Goes(p, d)
      \/ v \notin Go /\ Goes(p, r)
  <2>1. TakeDecision(p)
    OBVIOUS
  <2>2. LET f == driver[p]  choice == pending[f.call] IN
           IF choice \in Go
           THEN Goes(p, [f EXCEPT !.at = "begin", !.args = choice, !.resumed = FALSE])
           ELSE Goes(p, [f EXCEPT !.at = "reply", !.out = choice, !.resumed = FALSE])
    BY <2>1, Zenon DEF TakeDecision
  <2>3. e = driver[p] /\ pending[e.call] = v
    BY <1>3
  <2> QED
    BY <2>2, <2>3, Zenon
<1>5. d \in Drivers /\ d.at = "begin" /\ d.args = v /\ d.call = c /\ d.won = e.won
  BY <1>3 DEF Drivers, At, Gate
<1>6. v \notin Go => r \in Drivers /\ r.at = "reply" /\ r.out = v /\ r.call = c /\ r.won = e.won
  <2>1. v \notin Go => v \in Outcome
    BY <1>3 DEF Go, Approval, Outcome
  <2> QED
    BY <1>3, <2>1 DEF Drivers, At, Gate
<1> HIDE DEF d, r
<1>7. /\ driver' \in [Engine -> Drivers] /\ \A q \in Engine : q # p => driver'[q] = driver[q]
      /\ driver'[p].call = c /\ driver'[p].won = {}
      /\ \/ v \in Go /\ driver'[p].at = "begin" /\ driver'[p].args = v
         \/ v \notin Go /\ driver'[p].at = "reply" /\ driver'[p].out = v
  <2>1. CASE v \in Go /\ Goes(p, d)
    BY <1>1, <1>2, <1>3, <1>5, <2>1, Went DEF Typed, RunsTyped
  <2>2. CASE v \notin Go /\ Goes(p, r)
    BY <1>1, <1>2, <1>3, <1>6, <2>2, Went DEF Typed, RunsTyped
  <2> QED
    BY <1>4, <2>1, <2>2
<1>8. KnowsItsCall(p)'
  BY <1>1, <1>2, <1>3, <1>7
     DEF KnowsItsCall, Refusal, Gate, Decided, OwnedAt, graph, Quiet, tables, Approval, Go
<1>9. \A x \in Call : ~ Owns(p, x)'
  BY <1>7 DEF Owns, OwnedAt
<1>10. faults' \in 0 .. MaxFaults /\ driver[p].at # "idle"
  BY <1>1 DEF Typed, SessionTyped
<1> QED
  BY <1>1, <1>7, <1>8, <1>9, <1>10, GateQuiet

LEMMA BeginStepStep == ASSUME SessionInv, NEW p \in Engine, DriveGate(p), BeginStep(p) PROVE SessionInv'
<1> USE DEF DriveGate, BeginStep
<1>1. Typed /\ driver[p].at = "begin" /\ Quiet
  BY DEF SessionInv, Quiet
<1>2. /\ driver[p].call \in Call /\ Recorded(driver[p].call) /\ KnowsItsCall(p) /\ driver[p] \in Drivers
      /\ driver[p].won = {} /\ driver[p].args = pending[driver[p].call] /\ pending[driver[p].call] \in Go
  BY <1>1, AtItsCall DEF Gate, KnowsItsCall, Decided
<1>3. PICK c \in Call : c = driver[p].call
  BY <1>2
<1>4. step[c] \in StepStatus
  BY <1>1 DEF Typed, TablesTyped
<1>5. \/ step[c] = "none" /\ To(p, "insert")
      \/ step[c] = "PENDING" /\ Answers(p, "UNKNOWN")
      \/ step[c] \notin {"none", "PENDING"} /\ Answers(p, "FAILED")
  BY <1>3, Zenon
<1>6. /\ driver' \in [Engine -> Drivers] /\ \A q \in Engine : q # p => driver'[q] = driver[q]
      /\ driver'[p].call = c
      /\ \/ driver'[p].at = "insert" /\ driver'[p].won = {} /\ driver'[p].args = pending[c]
         \/ driver'[p].at = "reply" /\ driver'[p].out = "UNKNOWN"
         \/ /\ step[c] \notin {"none", "PENDING"}
            /\ driver'[p].at = "reply" /\ driver'[p].out = "FAILED"
  <2>1. CASE step[c] = "none" /\ To(p, "insert")
    BY <1>1, <1>2, <1>3, <2>1, WentTo DEF Typed, RunsTyped, At, Gate
  <2>2. CASE step[c] = "PENDING" /\ Answers(p, "UNKNOWN")
    BY <1>1, <1>2, <1>3, <2>2, WentToReply DEF Typed, RunsTyped, Outcome
  <2>3. CASE step[c] \notin {"none", "PENDING"} /\ Answers(p, "FAILED")
    BY <1>1, <1>2, <1>3, <2>3, WentToReply DEF Typed, RunsTyped, Outcome
  <2> QED
    BY <1>5, <2>1, <2>2, <2>3
<1>7. KnowsItsCall(p)'
  BY <1>1, <1>2, <1>3, <1>6 DEF KnowsItsCall, Refusal, Gate, Decided, OwnedAt, graph, Quiet, tables
<1>8. \A x \in Call : ~ Owns(p, x)'
  BY <1>6 DEF Owns, OwnedAt
<1>9. faults' \in 0 .. MaxFaults /\ driver[p].at # "idle"
  BY <1>1 DEF Typed, SessionTyped
<1> QED
  BY <1>1, <1>6, <1>7, <1>8, <1>9, GateQuiet

(* What an undo takes back took effect.                                    *)
LEMMA UndoableRan ==
    ASSUME SessionInv, NEW t \in Call, Undoable(t)
    PROVE  ran[t] # <<>>
  BY DEF SessionInv, CallsRecorded, Recorded, Undoable, Effective

LEMMA SelectStepsStep == ASSUME SessionInv, NEW p \in Engine, DriveGate(p), SelectSteps(p) PROVE SessionInv'
<1> USE DEF DriveGate, SelectSteps
<1>1. Typed /\ driver[p].at = "run" /\ Quiet
  BY DEF SessionInv, Quiet
<1>2. /\ driver[p].call \in Call /\ Recorded(driver[p].call) /\ KnowsItsCall(p) /\ driver[p] \in Drivers
      /\ driver[p].won = {}
  BY <1>1, AtItsCall DEF Gate, KnowsItsCall
<1>3. PICK e \in Drivers, c \in Call, of \in SUBSET Call : e = driver[p] /\ c = e.call /\ of = asked[c].of /\ asked[c].kind = "undo"
  <2>1. asked[driver[p].call] \in Ask \cup {NoAsk} /\ asked[driver[p].call].kind = "undo"
    BY <1>1, <1>2 DEF Typed, TablesTyped
  <2> QED
    BY <1>2, <2>1 DEF Ask, NoAsk
<1> DEFINE d == [e EXCEPT !.at = "undo", !.left = of]
           r == [e EXCEPT !.at = "record", !.out = "INVALID"]
<1>4. \/ (\A t \in of : Undoable(t)) /\ Goes(p, d)
      \/ Goes(p, r)
  <2>1. LET f == driver[p] IN
           IF \A t \in asked[f.call].of : Undoable(t)
           THEN Goes(p, [f EXCEPT !.at = "undo", !.left = asked[f.call].of])
           ELSE Goes(p, [f EXCEPT !.at = "record", !.out = "INVALID"])
    BY Zenon
  <2>2. e = driver[p] /\ asked[e.call].of = of
    BY <1>3
  <2> QED
    BY <2>1, <2>2, Zenon
<1>5. d \in Drivers /\ d.at = "undo" /\ d.left = of /\ d.args = e.args /\ d.call = c /\ d.won = e.won
  BY <1>3 DEF Drivers, At, Gate
<1>6. r \in Drivers /\ r.at = "record" /\ r.out = "INVALID" /\ r.args = e.args /\ r.call = c /\ r.won = e.won
  BY <1>3 DEF Drivers, At, Gate, Outcome
<1> HIDE DEF d, r
<1>7. /\ driver' \in [Engine -> Drivers] /\ \A q \in Engine : q # p => driver'[q] = driver[q]
      /\ driver'[p].call = c /\ driver'[p].args = driver[p].args /\ driver'[p].won = {}
      /\ \/ (\A t \in of : Undoable(t)) /\ driver'[p].at = "undo" /\ driver'[p].left = of
         \/ driver'[p].at = "record" /\ driver'[p].out = "INVALID"
  <2>1. CASE (\A t \in of : Undoable(t)) /\ Goes(p, d)
    <3>1. driver'[p] = d /\ driver' \in [Engine -> Drivers] /\ \A q \in Engine : q # p => driver'[q] = driver[q]
      BY <1>1, <1>5, <2>1, Went DEF Typed, RunsTyped
    <3> QED
      BY <1>2, <1>3, <1>5, <2>1, <3>1
  <2>2. CASE Goes(p, r)
    BY <1>1, <1>2, <1>3, <1>6, <2>2, Went DEF Typed, RunsTyped
  <2> QED
    BY <1>4, <2>1, <2>2
<1>8. of # {} /\ ((\A t \in of : Undoable(t)) => \A t \in of : ran[t] # <<>>)
  BY <1>2, <1>3, UndoableRan DEF Recorded
<1>9. KnowsItsCall(p)'
  BY <1>1, <1>2, <1>3, <1>7, <1>8
     DEF KnowsItsCall, Refusal, TakesBack, Gate, Decided, OwnedAt, graph, Quiet, tables, world
<1>10. \A x \in Call : Owns(p, x)' => Owns(p, x)
  BY <1>1, <1>3, <1>7 DEF Owns, OwnedAt
<1>11. faults' \in 0 .. MaxFaults /\ driver[p].at # "idle"
  BY <1>1 DEF Typed, SessionTyped
<1> QED
  BY <1>1, <1>7, <1>9, <1>10, <1>11, GateQuiet

LEMMA GateFailsStep == ASSUME SessionInv, NEW p \in Engine, GateFails(p) PROVE SessionInv'
<1> USE DEF GateFails, GateBreaks
<1>1. Typed /\ driver[p].at \in {"ask", "begin", "insert", "record"} /\ Quiet
  BY DEF SessionInv, Quiet
<1>2. KnowsItsCall(p) /\ driver[p].call \in Call
  BY <1>1, AtItsCall DEF Gate
<1>3. /\ driver' \in [Engine -> Drivers] /\ \A q \in Engine : q # p => driver'[q] = driver[q]
      /\ driver'[p].at = "reply" /\ driver'[p].call = driver[p].call /\ driver'[p].out = "FAILED"
  BY <1>1, WentToReply DEF Typed, RunsTyped, Outcome
<1>4. KnowsItsCall(p)'
  BY <1>1, <1>2, <1>3 DEF KnowsItsCall, Refusal, Gate, Decided, OwnedAt, graph
<1>5. \A x \in Call : ~ Owns(p, x)'
  BY <1>3 DEF Owns, OwnedAt
<1>6. faults' \in 0 .. MaxFaults
  BY <1>1, BoundsAssumption DEF Fault, Typed, SessionTyped
<1> QED
  BY <1>1, <1>3, <1>4, <1>5, <1>6, GateQuiet
-----------------------------------------------------------------------------
(* In the gate, changing the tables or the world *)

(* What no step takes back: a call once asked for, a decision, the audit   *)
(* entry, an effect, and that it was reversed.                             *)
Grows ==
    /\ \A c \in Call : Asked(c) => asked'[c] = asked[c]
    /\ \A c \in Call : pending[c] \in Go \cup Refusal => pending'[c] = pending[c]
    /\ \A c \in Call : ran[c] # <<>> => ran'[c] = ran[c]
    /\ confirmed \subseteq confirmed' /\ reversed \subseteq reversed'

(* A call in a process's hands is let be by the others.                    *)
Spares(q) == \A c \in Call : Owns(q, c) => step'[c] = step[c] /\ ran'[c] = ran[c]

LEMMA EffectStays ==
    ASSUME NEW c \in Call, Asked(c), Effective(c), Grows
    PROVE  Effective(c)'
<1>1. asked'[c] = asked[c]
  BY DEF Grows
<1>2. CASE asked[c].kind = "undo"
  BY <1>1, <1>2 DEF Grows, Effective
<1>3. CASE asked[c].kind # "undo"
  BY <1>1, <1>3 DEF Grows, Effective
<1> QED
  BY <1>2, <1>3

LEMMA OthersKnow ==
    ASSUME SessionInv, NEW q \in Engine, Grows, Spares(q), driver'[q] = driver[q], mem'[q] = mem[q]
    PROVE  KnowsItsCall(q)'
<1>1. KnowsItsCall(q)
  BY DEF SessionInv, DriversKnow
<1>2. CASE driver[q].at \notin Gate
  BY <1>1, <1>2 DEF KnowsItsCall, Gate, Decided, OwnedAt
<1>3. CASE driver[q].at \in Gate
  <2>1. PICK c \in Call : c = driver[q].call /\ Asked(c)
    BY <1>3, AtItsCall
  <2>2. asked'[c] = asked[c] /\ (Effective(c) => Effective(c)')
    BY <2>1, EffectStays DEF Grows
  <2>3. driver[q].at \in OwnedAt => step'[c] = step[c] /\ ran'[c] = ran[c]
    BY <2>1 DEF Spares, Owns
  <2>4. \A left, won \in SUBSET Call : TakesBack(c, left, won) => TakesBack(c, left, won)'
    BY <2>2 DEF TakesBack, Grows
  <2>5. driver[q].left \in SUBSET Call /\ driver[q].won \in SUBSET Call
    BY <1>3, AtItsCall DEF Drivers
  <2>6. driver[q].at \in {"undo", "undone"} => TakesBack(c, driver[q].left, driver[q].won)'
    BY <1>1, <2>1, <2>4, <2>5 DEF KnowsItsCall
  <2>7. driver[q].at \in Decided => driver[q].args = pending'[c] /\ pending'[c] \in Go
    BY <1>1, <2>1 DEF KnowsItsCall, Grows
  <2>8. driver[q].at \in {"record", "reply"} /\ driver[q].out = "EXECUTED" => Effective(c)'
    BY <1>1, <2>1, <2>2 DEF KnowsItsCall
  <2>9. driver[q].at = "reply" => /\ driver[q].out = "EXECUTED" => c \in confirmed'
                                  /\ driver[q].out \in Refusal => pending'[c] = driver[q].out
    BY <1>1, <2>1 DEF KnowsItsCall, Grows
  <2> HIDE DEF TakesBack, Effective
  <2> QED
    BY <1>1, <2>1, <2>3, <2>6, <2>7, <2>8, <2>9 DEF KnowsItsCall, OwnedAt
<1> QED
  BY <1>2, <1>3

(* It is the process's own call that runs, is begun or recorded.           *)
LEMMA GateTables ==
    ASSUME SessionInv, NEW p \in Engine, driver[p].at \in Gate,
           UNCHANGED <<asked, sessionRows, graph, lease, resuming, told, stop, faults, stalled>>,
           TablesTyped', driver' \in [Engine -> Drivers],
           \A q \in Engine : q # p => driver'[q] = driver[q],
           Grows, \A q \in Engine : q # p => Spares(q),
           KnowsItsCall(p)', CallsRecorded',
           \A c \in Call : Owns(p, c)' => Owns(p, c) \/ step[c] = "none"
    PROVE  SessionInv'
<1>1. Typed'
  BY DEF SessionInv, Typed, RunsTyped, SessionTyped, sessionRows, graph
<1>2. GraphsSound' /\ AskedInOrder'
  BY DEF SessionInv, GraphsSound, AskedInOrder, Planned, Asked, graph
<1>3. OwnedByOne'
  <2> SUFFICES ASSUME NEW q \in Engine, q # p, NEW c \in Call, Owns(p, c)', Owns(q, c)' PROVE FALSE
    BY DEF SessionInv, OwnedByOne, Owns
  <2>1. Owns(q, c) /\ step[c] = "PENDING"
    BY DEF Owns, SessionInv, DriversKnow, KnowsItsCall
  <2> QED
    BY <2>1 DEF SessionInv, OwnedByOne
<1>4. DriversKnow'
  BY OthersKnow DEF DriversKnow, graph
<1>5. Alone'
  <2> SUFFICES ASSUME ~stalled PROVE Alone'
    BY DEF Alone
  <2>1. \A q \in Engine : q # p => driver[q].at = "idle"
    BY OneDrives DEF Gate
  <2>2. \A q \in Engine : HoldsLease(q)'
    BY <2>1, OneDrives DEF HoldsLease, Gate
  <2>3. \A c \in Call : AnsweredOnce(c)'
    BY DEF SessionInv, Alone, AnsweredOnce, NotQueued, graph
  <2> QED
    BY <2>2, <2>3 DEF Alone
<1> QED
  BY <1>1, <1>2, <1>3, <1>4, <1>5 DEF SessionInv
LEMMA AskRepStep == ASSUME SessionInv, NEW p \in Engine, DriveGate(p), AskRep(p) PROVE SessionInv'
<1> USE DEF DriveGate, AskRep
<1>1. Typed /\ driver[p].at = "ask" /\ driver[p].at \in Gate
  BY DEF SessionInv, Gate
<1>2. PICK c \in Call : c = driver[p].call /\ Asked(c) /\ Recorded(c) /\ KnowsItsCall(p)
  BY <1>1, AtItsCall
<1>3. \/ (\E out \in Refused(c) : Answers(p, out)) /\ UNCHANGED pending
      \/ /\ pending' = IF pending[c] = "none" THEN [pending EXCEPT ![c] = "PENDING"] ELSE pending
         /\ To(p, "wait")
  BY <1>2, Zenon
<1>4. CASE (\E out \in Refused(c) : Answers(p, out)) /\ UNCHANGED pending
  <2>1. PICK out \in {"INVALID", "FAILED"} : Answers(p, out)
    BY <1>4 DEF Refused
  <2>2. /\ driver' \in [Engine -> Drivers] /\ \A q \in Engine : q # p => driver'[q] = driver[q]
        /\ driver'[p].at = "reply" /\ driver'[p].call = c /\ driver'[p].out = out
    BY <1>1, <1>2, <2>1, WentToReply DEF Typed, RunsTyped, Outcome
  <2>3. Quiet /\ faults' \in 0 .. MaxFaults
    BY <1>1, <1>4 DEF Quiet, tables, Typed, SessionTyped
  <2>4. KnowsItsCall(p)'
    BY <1>1, <1>2, <2>2 DEF KnowsItsCall, Refusal, Gate, Decided, OwnedAt, graph
  <2>5. \A x \in Call : ~ Owns(p, x)'
    BY <2>2 DEF Owns, OwnedAt
  <2> QED
    BY <1>1, <2>2, <2>3, <2>4, <2>5, GateQuiet
<1>5. CASE /\ pending' = IF pending[c] = "none" THEN [pending EXCEPT ![c] = "PENDING"] ELSE pending
           /\ To(p, "wait")
  <2>1. /\ driver' \in [Engine -> Drivers] /\ \A q \in Engine : q # p => driver'[q] = driver[q]
        /\ driver'[p].at = "wait" /\ driver'[p].call = c /\ driver'[p].won = {}
    BY <1>1, <1>2, <1>5, WentTo DEF Typed, RunsTyped, At, Gate, KnowsItsCall
  <2>2. /\ pending' \in [Call -> Approval]
        /\ \A x \in Call : pending'[x] = pending[x] \/ (x = c /\ pending[c] = "none" /\ pending'[c] = "PENDING")
    BY <1>1, <1>5 DEF Typed, TablesTyped, Approval
  <2>3. TablesTyped'
    BY <1>1, <2>2 DEF Typed, TablesTyped, world
  <2>4. Grows /\ \A q \in Engine : Spares(q)
    BY <2>2 DEF Grows, Spares, world, Go, Refusal
  <2>5. KnowsItsCall(p)'
    BY <1>1, <1>2, <2>1 DEF KnowsItsCall, Gate, Decided, OwnedAt, graph
  <2>6. CallsRecorded'
    <3> SUFFICES ASSUME NEW x \in Call PROVE Recorded(x)'
      BY DEF CallsRecorded
    <3>1. Recorded(x) /\ Asked(c)
      BY <1>2 DEF SessionInv, CallsRecorded
    <3>2. ran[x] # <<>> => pending'[x] = pending[x]
      BY <2>2, RanAsDecided DEF Go
    <3>3. \A u \in Call : pending[u] \in Go => pending'[u] = pending[u]
      BY <2>2 DEF Go
    <3> QED
      BY <2>2, <3>1, <3>2, <3>3 DEF Recorded, Refusal, Asked, Effective, world
  <2>7. \A x \in Call : ~ Owns(p, x)'
    BY <2>1 DEF Owns, OwnedAt
  <2> QED
    BY <1>1, <2>1, <2>3, <2>4, <2>5, <2>6, <2>7, GateTables DEF world
<1> QED
  BY <1>3, <1>4, <1>5

LEMMA InsertStepStep == ASSUME SessionInv, NEW p \in Engine, DriveGate(p), InsertStep(p) PROVE SessionInv'
<1> USE DEF DriveGate, InsertStep
<1>1. Typed /\ driver[p].at = "insert" /\ driver[p].at \in Gate
  BY DEF SessionInv, Gate
<1>2. PICK c \in Call : c = driver[p].call /\ Asked(c) /\ Recorded(c) /\ KnowsItsCall(p)
  BY <1>1, AtItsCall
<1>3. \/ step[c] = "none" /\ step' = [step EXCEPT ![c] = "PENDING"] /\ To(p, "run")
      \/ step[c] # "none" /\ Answers(p, "FAILED") /\ UNCHANGED step
  BY <1>2, Zenon
<1>4. CASE step[c] # "none" /\ Answers(p, "FAILED") /\ UNCHANGED step
  <2>1. /\ driver' \in [Engine -> Drivers] /\ \A q \in Engine : q # p => driver'[q] = driver[q]
        /\ driver'[p].at = "reply" /\ driver'[p].call = c /\ driver'[p].out = "FAILED"
    BY <1>1, <1>2, <1>4, WentToReply DEF Typed, RunsTyped, Outcome
  <2>2. Quiet /\ faults' \in 0 .. MaxFaults
    BY <1>1, <1>4 DEF Quiet, tables, Typed, SessionTyped
  <2>3. KnowsItsCall(p)'
    BY <1>1, <1>2, <2>1 DEF KnowsItsCall, Refusal, Gate, Decided, OwnedAt, graph
  <2>4. \A x \in Call : ~ Owns(p, x)'
    BY <2>1 DEF Owns, OwnedAt
  <2> QED
    BY <1>1, <2>1, <2>2, <2>3, <2>4, GateQuiet
<1>5. CASE step[c] = "none" /\ step' = [step EXCEPT ![c] = "PENDING"] /\ To(p, "run")
  <2>1. /\ driver' \in [Engine -> Drivers] /\ \A q \in Engine : q # p => driver'[q] = driver[q]
        /\ driver'[p].at = "run" /\ driver'[p].call = c /\ driver'[p].won = {} /\ driver'[p].args = driver[p].args
    BY <1>1, <1>2, <1>5, WentTo DEF Typed, RunsTyped, At, Gate, KnowsItsCall
  <2>2. step' \in [Call -> StepStatus] /\ step'[c] = "PENDING" /\ \A x \in Call : x # c => step'[x] = step[x]
    BY <1>1, <1>5 DEF Typed, TablesTyped, StepStatus
  <2>3. TablesTyped'
    BY <1>1, <2>2 DEF Typed, TablesTyped, world
  <2>4. Grows
    BY DEF Grows, world
  <2>5. ASSUME NEW q \in Engine PROVE Spares(q)
    <3>1. \A x \in Call : Owns(q, x) => step[x] = "PENDING"
      BY DEF SessionInv, DriversKnow, KnowsItsCall, Owns
    <3> QED
      BY <1>5, <2>2, <3>1 DEF Spares, world
  <2>6. ran[c] = <<>>
    BY <1>2, <1>5 DEF Recorded
  <2>7. KnowsItsCall(p)'
    BY <1>1, <1>2, <2>1, <2>2, <2>6 DEF KnowsItsCall, Gate, Decided, OwnedAt, graph, world
  <2>8. CallsRecorded'
    <3> SUFFICES ASSUME NEW x \in Call PROVE Recorded(x)'
      BY DEF CallsRecorded
    <3>1. Recorded(x)
      BY DEF SessionInv, CallsRecorded
    <3>2. Asked(c) /\ ran[c] = <<>>
      BY <1>2, <2>6
    <3> QED
      BY <1>5, <2>2, <3>1, <3>2 DEF Recorded, Asked, Effective, world
  <2>9. \A x \in Call : Owns(p, x)' => step[x] = "none"
    BY <1>5, <2>1 DEF Owns
  <2> QED
    BY <1>1, <2>1, <2>3, <2>4, <2>5, <2>7, <2>8, <2>9, GateTables DEF world
<1> QED
  BY <1>3, <1>4, <1>5

LEMMA RunToolStep == ASSUME SessionInv, NEW p \in Engine, DriveGate(p), RunTool(p) PROVE SessionInv'
<1> USE DEF DriveGate, RunTool
<1>1. Typed /\ driver[p].at = "run" /\ driver[p].at \in Gate
  BY DEF SessionInv, Gate
<1>2. PICK c \in Call, e \in Drivers : /\ c = driver[p].call /\ Asked(c) /\ Recorded(c) /\ KnowsItsCall(p)
                                       /\ e = driver[p] /\ c = e.call
  BY <1>1, AtItsCall
<1>3. /\ e.args = pending[c] /\ pending[c] \in Go /\ step[c] = "PENDING" /\ ran[c] = <<>> /\ asked[c].kind # "undo"
  BY <1>1, <1>2 DEF KnowsItsCall, Decided, OwnedAt
<1>4. PICK effect \in BOOLEAN, out \in {"EXECUTED", "UNKNOWN", "FAILED", "INVALID"} :
          /\ out = "EXECUTED" => effect
          /\ ran' = IF effect THEN [ran EXCEPT ![c] = Append(@, e.args)] ELSE ran
          /\ Goes(p, [e EXCEPT !.at = "record", !.out = out])
  BY <1>2, Zenon
<1>5. /\ driver' \in [Engine -> Drivers] /\ \A q \in Engine : q # p => driver'[q] = driver[q]
      /\ driver'[p].at = "record" /\ driver'[p].out = out /\ driver'[p].call = c
  <2> DEFINE d == [e EXCEPT !.at = "record", !.out = out]
  <2>1. d \in Drivers /\ d.at = "record" /\ d.out = out /\ d.call = c
    BY <1>2 DEF Drivers, At, Gate, Outcome
  <2>2. Goes(p, d)
    BY <1>4
  <2> HIDE DEF d
  <2> QED
    BY <1>1, <2>1, <2>2, Went DEF Typed, RunsTyped
<1>6. /\ ran' \in [Call -> Runs] /\ \A x \in Call : x # c => ran'[x] = ran[x]
      /\ effect => ran'[c] = <<pending[c]>> /\ ran'[c] # <<>>
      /\ ~effect => ran'[c] = <<>>
  <2>1. ran \in [Call -> Runs]
    BY <1>1 DEF Typed, TablesTyped
  <2>2. CASE ~effect
    BY <1>3, <1>4, <2>1, <2>2
  <2>3. CASE effect
    <3>1. PICK choice \in Go : choice = e.args /\ choice = pending[c]
      BY <1>3
    <3>2. ran' = [ran EXCEPT ![c] = Append(ran[c], choice)]
      BY <1>4, <2>3, <3>1
    <3>3. Append(ran[c], choice) = <<choice>> /\ <<choice>> # <<>>
      BY <1>3
    <3>4. <<choice>> \in Runs
      BY DEF Runs
    <3> QED
      BY <2>1, <2>3, <3>1, <3>2, <3>3, <3>4
  <2> QED
    BY <2>2, <2>3
<1>7. TablesTyped'
  BY <1>1, <1>6 DEF Typed, TablesTyped, tables
<1>8. Grows
  BY <1>3, <1>6 DEF Grows, tables
<1>9. ASSUME NEW q \in Engine, q # p PROVE Spares(q)
  <2>1. ~ Owns(q, c)
    BY <1>1, <1>2, <1>9 DEF SessionInv, OwnedByOne, Owns, OwnedAt
  <2> QED
    BY <1>6, <2>1 DEF Spares, tables
<1>10. out = "EXECUTED" => Effective(c)'
  BY <1>3, <1>4, <1>6 DEF Effective
<1>11. KnowsItsCall(p)'
  BY <1>1, <1>2, <1>3, <1>4, <1>5, <1>6, <1>10 DEF KnowsItsCall, Refusal, Gate, Decided, OwnedAt, graph, tables
<1>12. CallsRecorded'
  <2> SUFFICES ASSUME NEW x \in Call PROVE Recorded(x)'
    BY DEF CallsRecorded
  <2>1. Recorded(x) /\ (ran[x] # <<>> => ran'[x] = ran[x])
    BY <1>8 DEF SessionInv, CallsRecorded, Grows
  <2>2. Effective(x) => Effective(x)'
    BY <2>1 DEF Effective
  <2>3. ran'[x] # <<>> => /\ asked[x].kind # "undo" /\ step[x] # "none" /\ ran'[x] = <<pending[x]>>
    BY <1>3, <1>6, <2>1 DEF Recorded
  <2> HIDE DEF Effective
  <2> QED
    BY <2>1, <2>2, <2>3 DEF Recorded, Asked, tables
<1>13. \A x \in Call : Owns(p, x)' => Owns(p, x)
  BY <1>1, <1>2, <1>5 DEF Owns, OwnedAt
<1> QED
  BY <1>1, <1>5, <1>7, <1>8, <1>9, <1>11, <1>12, <1>13, GateTables
LEMMA NewestIsIn ==
    ASSUME NEW calls \in SUBSET Call, calls # {}
    PROVE  Newest(calls) \in calls
<1>1. calls \in SUBSET Nat /\ IsFiniteSet(calls)
  <2>1. IsFiniteSet(1 .. MaxCalls)
    BY CallsAssumption, FS_Interval
  <2>2. calls \in SUBSET (1 .. MaxCalls) /\ calls \in SUBSET Nat
    BY CallsAssumption DEF Call
  <2> QED
    BY <2>1, <2>2, FS_Subset
<1>2. \E t \in calls : \A u \in calls : u <= t
  BY <1>1, GreatestIsIn
<1> QED
  BY <1>2, Zenon DEF Newest

LEMMA UndoStepStep == ASSUME SessionInv, NEW p \in Engine, DriveGate(p), UndoStep(p) PROVE SessionInv'
<1> USE DEF DriveGate
<1>1. Typed /\ driver[p].at = "undo" /\ driver[p].at \in Gate
  BY DEF SessionInv, Gate, UndoStep
<1>2. PICK c \in Call, e \in Drivers : /\ c = driver[p].call /\ Asked(c) /\ Recorded(c) /\ KnowsItsCall(p)
                                       /\ e = driver[p] /\ c = e.call
  BY <1>1, AtItsCall
<1>3. /\ e.args = pending[c] /\ pending[c] \in Go /\ step[c] = "PENDING" /\ TakesBack(c, e.left, e.won)
  BY <1>1, <1>2 DEF KnowsItsCall, Decided, OwnedAt
<1>4. PICK t \in e.left : t = Newest(e.left) /\ t \in Call /\ ran[t] # <<>> /\ t \in asked[c].of
  BY <1>2, <1>3, NewestIsIn DEF Drivers, TakesBack
<1>5. /\ UNCHANGED <<tables, ran>>
      /\ \/ \E effect, answered \in BOOLEAN :
              /\ answered => effect
              /\ reversed' = IF effect THEN reversed \cup {t} ELSE reversed
              /\ Goes(p, [e EXCEPT !.at = "undone", !.won = IF answered THEN @ \cup {t} ELSE @])
         \/ /\ Goes(p, [e EXCEPT !.at = "record", !.out = "UNKNOWN"])
            /\ UNCHANGED reversed
  BY <1>2, <1>4, Zenon DEF UndoStep
<1>6. /\ driver' \in [Engine -> Drivers] /\ \A q \in Engine : q # p => driver'[q] = driver[q]
      /\ driver'[p].call = c /\ driver'[p].args = e.args
      /\ reversed' \in {reversed, reversed \cup {t}}
      /\ \/ /\ driver'[p].at = "undone" /\ driver'[p].left = e.left
            /\ driver'[p].won = e.won \/ (t \in reversed' /\ driver'[p].won = e.won \cup {t})
         \/ driver'[p].at = "record" /\ driver'[p].out = "UNKNOWN"
  <2>1. CASE Goes(p, [e EXCEPT !.at = "record", !.out = "UNKNOWN"]) /\ UNCHANGED reversed
    <3> DEFINE d == [e EXCEPT !.at = "record", !.out = "UNKNOWN"]
    <3>1. d \in Drivers /\ d.at = "record" /\ d.out = "UNKNOWN" /\ d.call = c /\ d.args = e.args
      BY <1>2 DEF Drivers, At, Gate, Outcome
    <3>2. Goes(p, d)
      BY <2>1
    <3> HIDE DEF d
    <3>3. driver'[p] = d /\ driver' \in [Engine -> Drivers] /\ \A q \in Engine : q # p => driver'[q] = driver[q]
      BY <1>1, <3>1, <3>2, Went DEF Typed, RunsTyped
    <3> QED
      BY <2>1, <3>1, <3>3
  <2>2. CASE \E effect, answered \in BOOLEAN :
                /\ answered => effect
                /\ reversed' = IF effect THEN reversed \cup {t} ELSE reversed
                /\ Goes(p, [e EXCEPT !.at = "undone", !.won = IF answered THEN @ \cup {t} ELSE @])
    <3>1. PICK effect, answered \in BOOLEAN :
              /\ answered => effect
              /\ reversed' = IF effect THEN reversed \cup {t} ELSE reversed
              /\ Goes(p, [e EXCEPT !.at = "undone", !.won = IF answered THEN @ \cup {t} ELSE @])
      BY <2>2, Zenon
    <3>2. PICK won \in SUBSET Call : won = (IF answered THEN e.won \cup {t} ELSE e.won)
      BY <1>2, <1>4 DEF Drivers
    <3> DEFINE d == [e EXCEPT !.at = "undone", !.won = won]
    <3>3. d \in Drivers /\ d.at = "undone" /\ d.won = won /\ d.left = e.left /\ d.call = c /\ d.args = e.args
      BY <1>2 DEF Drivers, At, Gate
    <3>4. Goes(p, d)
      BY <3>1, <3>2, Zenon
    <3> HIDE DEF d
    <3>5. driver'[p] = d /\ driver' \in [Engine -> Drivers] /\ \A q \in Engine : q # p => driver'[q] = driver[q]
      BY <1>1, <3>3, <3>4, Went DEF Typed, RunsTyped
    <3>6. reversed' \in {reversed, reversed \cup {t}} /\ (won = e.won \/ (t \in reversed' /\ won = e.won \cup {t}))
      BY <3>1, <3>2
    <3> QED
      BY <3>3, <3>5, <3>6
  <2> QED
    BY <1>5, <2>1, <2>2, Zenon
<1>7. TablesTyped'
  BY <1>1, <1>4, <1>5, <1>6 DEF Typed, TablesTyped, tables
<1>8. Grows /\ \A q \in Engine : Spares(q)
  BY <1>5, <1>6 DEF Grows, Spares, tables
<1>9. \A left \in SUBSET Call : TakesBack(c, left, e.won) => TakesBack(c, left, e.won)'
  BY <1>5, <1>6 DEF TakesBack
<1>10. PICK left \in SUBSET Call, won \in SUBSET Call : left = driver'[p].left /\ won = driver'[p].won
  <2>1. driver'[p] \in Drivers
    BY <1>6
  <2> QED
    BY <2>1 DEF Drivers
<1>11. driver'[p].at = "undone" => TakesBack(c, left, won)'
  <2> SUFFICES ASSUME driver'[p].at = "undone" PROVE TakesBack(c, left, won)'
    OBVIOUS
  <2>1. left = e.left /\ (won = e.won \/ (t \in reversed' /\ won = e.won \cup {t}))
    BY <1>6, <1>10
  <2>2. reversed \subseteq reversed' /\ asked' = asked /\ ran' = ran
    BY <1>5, <1>6
  <2>3. won \subseteq reversed' \cap asked[c].of
    BY <1>3, <1>4, <2>1, <2>2 DEF TakesBack
  <2> QED
    BY <1>3, <2>1, <2>2, <2>3 DEF TakesBack
<1>12. KnowsItsCall(p)'
  BY <1>1, <1>2, <1>3, <1>5, <1>6, <1>10, <1>11 DEF KnowsItsCall, Refusal, Gate, Decided, OwnedAt, graph, tables
<1>13. CallsRecorded'
  <2> SUFFICES ASSUME NEW x \in Call PROVE Recorded(x)'
    BY DEF CallsRecorded
  <2>1. Recorded(x)
    BY DEF SessionInv, CallsRecorded
  <2>2. Effective(x) => Effective(x)'
    BY <1>5, <1>6 DEF Effective
  <2>3. asked[c].kind = "undo"
    BY <1>3 DEF TakesBack
  <2>4. x \in reversed' => /\ ran[x] # <<>>
                           /\ \E u \in Call : asked[u].kind = "undo" /\ x \in asked[u].of /\ pending[u] \in Go
    BY <1>3, <1>4, <1>6, <2>1, <2>3 DEF Recorded
  <2>5. reversed \subseteq reversed'
    BY <1>6
  <2> HIDE DEF Effective
  <2> QED
    BY <1>5, <2>1, <2>2, <2>4, <2>5 DEF Recorded, Asked, tables
<1>14. \A x \in Call : Owns(p, x)' => Owns(p, x)
  BY <1>1, <1>2, <1>6 DEF Owns, OwnedAt
<1> QED
  BY <1>1, <1>5, <1>6, <1>7, <1>8, <1>12, <1>13, <1>14, GateTables

LEMMA FinishCompensationStep ==
    ASSUME SessionInv, NEW p \in Engine, DriveGate(p), FinishCompensation(p)
    PROVE  SessionInv'
<1> USE DEF DriveGate
<1>1. Typed /\ driver[p].at = "undone" /\ driver[p].at \in Gate
  BY DEF SessionInv, Gate, FinishCompensation
<1>2. PICK c \in Call, e \in Drivers : /\ c = driver[p].call /\ Asked(c) /\ Recorded(c) /\ KnowsItsCall(p)
                                       /\ e = driver[p] /\ c = e.call
  BY <1>1, AtItsCall
<1>3. /\ e.args = pending[c] /\ pending[c] \in Go /\ step[c] = "PENDING" /\ TakesBack(c, e.left, e.won)
      /\ e.left \in SUBSET Call /\ e.won \in SUBSET Call
  BY <1>1, <1>2 DEF KnowsItsCall, Decided, OwnedAt, Drivers
<1>4. PICK t \in Call, rest \in SUBSET Call : t = Newest(e.left) /\ rest = e.left \ {t}
  BY <1>3, NewestIsIn DEF TakesBack
<1>5. PICK out \in {"EXECUTED", "FAILED"} : out = UndoResult(e.won) /\ (out = "EXECUTED" => e.won # {})
  BY DEF UndoResult
<1> DEFINE d == [e EXCEPT !.at = "record", !.left = {}, !.won = {}, !.out = out]
           r == [e EXCEPT !.at = "undo", !.left = rest]
<1>6. /\ step' = IF step[t] = "DONE"
                 THEN [step EXCEPT ![t] = IF t \in e.won THEN "COMPENSATED" ELSE "COMPENSATION_FAILED"]
                 ELSE step
      /\ Goes(p, IF rest = {} THEN d ELSE r)
      /\ UNCHANGED <<pending, confirmed, world>>
  BY <1>2, <1>4, <1>5, Zenon DEF FinishCompensation
<1>7. /\ d \in Drivers /\ d.at = "record" /\ d.out = out /\ d.call = c
      /\ r \in Drivers /\ r.at = "undo" /\ r.left = rest /\ r.won = e.won /\ r.call = c /\ r.args = e.args
  BY <1>2 DEF Drivers, At, Gate, Outcome
<1> HIDE DEF d, r
<1>8. /\ driver' \in [Engine -> Drivers] /\ \A q \in Engine : q # p => driver'[q] = driver[q]
      /\ driver'[p].call = c
      /\ \/ driver'[p].at = "record" /\ driver'[p].out = out
         \/ /\ driver'[p].at = "undo" /\ driver'[p].left = rest /\ rest # {}
            /\ driver'[p].won = e.won /\ driver'[p].args = e.args
  <2>1. CASE rest = {}
    BY <1>1, <1>6, <1>7, <2>1, Went DEF Typed, RunsTyped
  <2>2. CASE rest # {}
    BY <1>1, <1>6, <1>7, <2>2, Went DEF Typed, RunsTyped
  <2> QED
    BY <2>1, <2>2
<1>9. /\ step' \in [Call -> StepStatus] /\ \A x \in Call : x # t => step'[x] = step[x]
      /\ \/ step'[t] = step[t]
         \/ step[t] = "DONE" /\ step'[t] = "COMPENSATION_FAILED"
         \/ step[t] = "DONE" /\ step'[t] = "COMPENSATED" /\ t \in e.won
  <2>1. step \in [Call -> StepStatus]
    BY <1>1 DEF Typed, TablesTyped
  <2>2. CASE step[t] # "DONE"
    BY <1>6, <2>1, <2>2
  <2>3. CASE step[t] = "DONE"
    <3>1. PICK v \in StepStatus : /\ v = (IF t \in e.won THEN "COMPENSATED" ELSE "COMPENSATION_FAILED")
                                  /\ v = "COMPENSATION_FAILED" \/ (v = "COMPENSATED" /\ t \in e.won)
      BY DEF StepStatus
    <3>2. step' = [step EXCEPT ![t] = v]
      BY <1>6, <2>3, <3>1
    <3> QED
      BY <2>1, <2>3, <3>1, <3>2
  <2> QED
    BY <2>2, <2>3
<1>10. TablesTyped'
  BY <1>1, <1>6, <1>9 DEF Typed, TablesTyped, world
<1>11. Grows
  BY <1>6 DEF Grows, world
<1>12. ASSUME NEW q \in Engine PROVE Spares(q)
  <2>1. \A x \in Call : Owns(q, x) => step[x] = "PENDING"
    BY DEF SessionInv, DriversKnow, KnowsItsCall, Owns
  <2> QED
    BY <1>6, <1>9, <2>1 DEF Spares, world
<1>13. step'[c] = "PENDING"
  BY <1>3, <1>9
<1>14. out = "EXECUTED" => Effective(c)'
  BY <1>2, <1>3, <1>5, <1>6 DEF Effective, TakesBack, Recorded, world
<1>15. rest # {} => TakesBack(c, rest, e.won)'
  BY <1>3, <1>4, <1>6 DEF TakesBack, world
<1>16. KnowsItsCall(p)'
  BY <1>1, <1>2, <1>3, <1>6, <1>8, <1>13, <1>14, <1>15 DEF KnowsItsCall, Refusal, Gate, Decided, OwnedAt, graph, world
<1>17. CallsRecorded'
  <2> SUFFICES ASSUME NEW x \in Call PROVE Recorded(x)'
    BY DEF CallsRecorded
  <2>1. Recorded(x)
    BY DEF SessionInv, CallsRecorded
  <2>2. e.won \subseteq reversed
    BY <1>3 DEF TakesBack
  <2>3. Effective(x)' = Effective(x)
    BY <1>6 DEF Effective, world
  <2> HIDE DEF Effective
  <2> QED
    BY <1>6, <1>9, <2>1, <2>2, <2>3 DEF Recorded, Asked, world
<1>18. \A x \in Call : Owns(p, x)' => Owns(p, x)
  BY <1>1, <1>2, <1>8 DEF Owns, OwnedAt
<1> QED
  BY <1>1, <1>6, <1>8, <1>10, <1>11, <1>12, <1>16, <1>17, <1>18, GateTables DEF world

LEMMA RecordOutcomeStep ==
    ASSUME SessionInv, NEW p \in Engine, DriveGate(p), RecordOutcome(p)
    PROVE  SessionInv'
<1> USE DEF DriveGate
<1>1. Typed /\ driver[p].at = "record" /\ driver[p].at \in Gate
  BY DEF SessionInv, Gate, RecordOutcome
<1>2. PICK c \in Call, out \in Outcome : /\ c = driver[p].call /\ Asked(c) /\ Recorded(c) /\ KnowsItsCall(p)
                                         /\ out = driver[p].out
  BY <1>1, AtItsCall DEF Drivers
<1>3. step[c] = "PENDING" /\ (out = "EXECUTED" => Effective(c)) /\ out \notin Refusal
  BY <1>1, <1>2 DEF KnowsItsCall, OwnedAt
<1>4. /\ confirmed' = IF out = "EXECUTED" THEN confirmed \cup {c} ELSE confirmed
      /\ step' = CASE out = "EXECUTED" -> [step EXCEPT ![c] = "DONE"]
                   [] out = "UNKNOWN" -> step
                   [] OTHER -> [step EXCEPT ![c] = "FAILED"]
      /\ To(p, "reply")
      /\ UNCHANGED <<pending, world>>
  BY <1>2, Zenon DEF RecordOutcome
<1>5. /\ driver' \in [Engine -> Drivers] /\ \A q \in Engine : q # p => driver'[q] = driver[q]
      /\ driver'[p].at = "reply" /\ driver'[p].call = c /\ driver'[p].out = out
  BY <1>1, <1>2, <1>4, WentTo DEF Typed, RunsTyped, At, Gate
<1>6. /\ step' \in [Call -> StepStatus] /\ \A x \in Call : x # c => step'[x] = step[x]
      /\ \/ out = "EXECUTED" /\ step'[c] = "DONE"
         \/ out = "UNKNOWN" /\ step'[c] = "PENDING"
         \/ out \notin {"EXECUTED", "UNKNOWN"} /\ step'[c] = "FAILED"
  <2>1. step \in [Call -> StepStatus] /\ "DONE" \in StepStatus /\ "FAILED" \in StepStatus
    BY <1>1 DEF Typed, TablesTyped, StepStatus
  <2>2. CASE out = "EXECUTED"
    BY <1>4, <2>1, <2>2
  <2>3. CASE out = "UNKNOWN"
    BY <1>3, <1>4, <2>1, <2>3
  <2>4. CASE out \notin {"EXECUTED", "UNKNOWN"}
    BY <1>4, <2>1, <2>4
  <2> QED
    BY <2>2, <2>3, <2>4
<1>7. TablesTyped'
  BY <1>1, <1>4, <1>6 DEF Typed, TablesTyped, world
<1>8. Grows
  BY <1>4 DEF Grows, world
<1>9. ASSUME NEW q \in Engine, q # p PROVE Spares(q)
  <2>1. ~ Owns(q, c)
    BY <1>1, <1>2, <1>9 DEF SessionInv, OwnedByOne, Owns, OwnedAt
  <2> QED
    BY <1>4, <1>6, <2>1 DEF Spares, world
<1>10. \A x \in Call : Effective(x)' = Effective(x)
  BY <1>4 DEF Effective, world
<1> HIDE DEF Effective
<1>11. KnowsItsCall(p)'
  BY <1>1, <1>2, <1>3, <1>4, <1>5, <1>10 DEF KnowsItsCall, Gate, Decided, OwnedAt, graph, world
<1>12. CallsRecorded'
  <2> SUFFICES ASSUME NEW x \in Call PROVE Recorded(x)'
    BY DEF CallsRecorded
  <2>1. Recorded(x)
    BY DEF SessionInv, CallsRecorded
  <2> QED
    BY <1>2, <1>3, <1>4, <1>6, <1>10, <2>1 DEF Recorded, Asked, world
<1>13. \A x \in Call : ~ Owns(p, x)'
  BY <1>5 DEF Owns, OwnedAt
<1> QED
  BY <1>1, <1>4, <1>5, <1>7, <1>8, <1>9, <1>11, <1>12, <1>13, GateTables DEF world
-----------------------------------------------------------------------------
(* Decisions *)

LEMMA ResolveStep ==
    ASSUME SessionInv, NEW c \in Call,
           ExpireStale(c) \/ \E choice \in Verdict : Decide(c, choice)
    PROVE  SessionInv'
<1>1. Typed
  BY DEF SessionInv
<1>2. PICK choice \in Approval : Resolve(c, choice)
  BY DEF ExpireStale, Decide, Verdict, Approval
<1>3. /\ UNCHANGED <<asked, driver, session, graph, lease, told, stop, faults, stalled>>
      /\ UNCHANGED <<step, confirmed, world>>
      /\ latest' = c /\ resuming' \subseteq resuming \cup {c}
  BY DEF ExpireStale, Decide, Resolve
<1>4. /\ pending[c] = "PENDING" /\ pending' \in [Call -> Approval]
      /\ \A x \in Call : x # c => pending'[x] = pending[x]
  BY <1>1, <1>2 DEF Resolve, Typed, TablesTyped
<1>5. Typed'
  BY <1>1, <1>3, <1>4 DEF Typed, TablesTyped, RunsTyped, SessionTyped, graph, world
<1>6. Grows /\ \A q \in Engine : Spares(q)
  BY <1>3, <1>4 DEF Grows, Spares, world, Go, Refusal
<1>7. DriversKnow'
  BY <1>3, <1>6, OthersKnow DEF DriversKnow, graph
<1>8. GraphsSound' /\ AskedInOrder' /\ OwnedByOne'
  BY <1>3 DEF SessionInv, GraphsSound, AskedInOrder, OwnedByOne, Owns, Planned, Asked, graph
<1>9. CallsRecorded'
  <2> SUFFICES ASSUME NEW x \in Call PROVE Recorded(x)'
    BY DEF CallsRecorded
  <2>1. Recorded(x) /\ Asked(c)
    BY <1>4 DEF SessionInv, CallsRecorded, Recorded
  <2>2. ran[x] # <<>> => pending'[x] = pending[x]
    BY <1>4, RanAsDecided DEF Go
  <2>3. \A u \in Call : pending[u] \in Go => pending'[u] = pending[u]
    BY <1>4 DEF Go
  <2>4. pending'[x] # "none" => Asked(x)
    BY <1>4, <2>1 DEF Recorded
  <2> QED
    BY <1>3, <1>4, <2>1, <2>2, <2>3, <2>4 DEF Recorded, Refusal, Asked, Effective, world
<1>10. Alone'
  BY <1>3 DEF SessionInv, Alone, HoldsLease, AnsweredOnce, NotQueued, graph
<1> QED
  BY <1>5, <1>7, <1>8, <1>9, <1>10 DEF SessionInv

-----------------------------------------------------------------------------
(* New calls and answers *)

LEMMA FreshIsNext ==
    ASSUME AskedInOrder
    PROVE  \E k \in 0 .. MaxCalls : Fresh = k + 1 /\ \A c \in Call : Asked(c) <=> c <= k
<1>1. PICK k \in 0 .. MaxCalls : \A c \in Call : Asked(c) <=> c <= k
  BY DEF AskedInOrder
<1>2. Planned = 1 .. k
  BY <1>1, CallsAssumption DEF Planned, Asked, Call
<1>3. Cardinality(1 .. k) = k
  BY CallsAssumption, FS_Interval
<1> QED
  BY <1>1, <1>2, <1>3 DEF Fresh

LEMMA TailOnce ==
    ASSUME NEW S, NEW s \in Seq(S), s # <<>>, IsInjective(s)
    PROVE  IsInjective(Tail(s)) /\ Head(s) \notin ToSet(Tail(s))
<1> DEFINE t == Tail(s)
<1>1. Len(s) \in Nat \ {0} /\ Head(s) = s[1]
  OBVIOUS
<1>2. t \in Seq(S) /\ Len(t) = Len(s) - 1 /\ \A i \in 1 .. Len(s) - 1 : t[i] = s[i + 1]
  OBVIOUS
<1> HIDE DEF t
<1>3. DOMAIN t = 1 .. Len(s) - 1 /\ DOMAIN s = 1 .. Len(s)
  BY <1>2
<1>4. \A i, k \in 1 .. Len(s) : s[i] = s[k] => i = k
  BY <1>3 DEF IsInjective
<1>5. \A i, k \in DOMAIN t : t[i] = t[k] => i = k
  <2> SUFFICES ASSUME NEW i \in 1 .. Len(s) - 1, NEW k \in 1 .. Len(s) - 1, t[i] = t[k] PROVE i = k
    BY <1>3
  <2>1. i + 1 \in 1 .. Len(s) /\ k + 1 \in 1 .. Len(s) /\ s[i + 1] = s[k + 1]
    BY <1>1, <1>2
  <2>2. i + 1 = k + 1
    BY <1>4, <2>1
  <2> QED
    BY <2>2
<1>6. \A i \in DOMAIN t : t[i] # s[1]
  <2> SUFFICES ASSUME NEW i \in 1 .. Len(s) - 1, t[i] = s[1] PROVE FALSE
    BY <1>3
  <2>1. i + 1 \in 1 .. Len(s) /\ 1 \in 1 .. Len(s) /\ s[i + 1] = s[1]
    BY <1>1, <1>2
  <2>2. i + 1 = 1
    BY <1>4, <2>1
  <2> QED
    BY <2>2
<1>7. IsInjective(t)
  BY <1>5 DEF IsInjective
<1>8. Head(s) \notin ToSet(t)
  BY <1>1, <1>6 DEF ToSet
<1> QED
  BY <1>7, <1>8 DEF t

(* A node ends: the call it was at is answered, calls that were queued are *)
(* shown as failed and not queued any more, others may be asked for.       *)
NotAnswering(p, c) == driver[p].at = "reply" => c # driver[p].call
Queued(p) == ToSet(saved.queue) \cup ToSet(mem[p].queue)
Dropped(p, g) == Queued(p) \ ToSet(g.queue)
LEMMA NodeEnds ==
    ASSUME SessionInv, Typed', NEW p \in Engine, NEW g,
           driver[p].at # "idle", driver'[p].at = "node", driver'[p].won = {},
           OnlyMoves(p), saved' = g, mem'[p] = g,
           UNCHANGED <<tables, world, lease, stalled>>,
           Sound(g, Planned'), AskedInOrder',
           \A c \in Call : Asked(c) => asked'[c] = asked[c],
           \A c \in Call : ~ Asked(c) /\ asked'[c].kind = "undo" => asked'[c].of # {},
           \A c \in Call : NotAnswering(p, c) => told'[c] = told[c] \/ (c \in Dropped(p, g) /\ told'[c] = "FAILED"),
           \A c \in Call : ~ NotAnswering(p, c) => told'[c] = driver[p].out,
           \A c \in ToSet(g.queue) :
               /\ c \in Call => NotAnswering(p, c)
               /\ c \in Call => ~ Asked(c) \/ c \in ToSet(mem[p].queue)
    PROVE  SessionInv'
<1>1. Grows /\ \A q \in Engine : Spares(q)
  BY DEF Grows, Spares, tables, world
<1>2. Planned \subseteq Planned'
  BY DEF Planned, Asked
<1>3. GraphsSound'
  BY <1>2 DEF SessionInv, GraphsSound, Sound, OnlyMoves
<1>4. OwnedByOne'
  BY DEF SessionInv, OwnedByOne, Owns, OwnedAt, OnlyMoves
<1>5. DriversKnow'
  <2> SUFFICES ASSUME NEW q \in Engine PROVE KnowsItsCall(q)'
    BY DEF DriversKnow
  <2>1. CASE q # p
    BY <1>1, <2>1, OthersKnow DEF OnlyMoves
  <2>2. CASE q = p
    BY <2>2 DEF KnowsItsCall, Gate, Decided, OwnedAt
  <2> QED
    BY <2>1, <2>2
<1>6. \A c \in Call : ~ NotAnswering(p, c) =>
          /\ Asked(c) /\ (driver[p].out = "EXECUTED" => c \in confirmed)
          /\ driver[p].out \in Refusal => pending[c] = driver[p].out
  BY AtItsCall DEF NotAnswering, Gate, KnowsItsCall
<1>6a. \A c \in Call : c \in Queued(p) => Asked(c)
  BY DEF SessionInv, GraphsSound, Sound, Queued, Planned, Asked
<1>7. CallsRecorded'
  <2> SUFFICES ASSUME NEW x \in Call PROVE Recorded(x)'
    BY DEF CallsRecorded
  <2>1. Recorded(x)
    BY DEF SessionInv, CallsRecorded
  <2>2. Asked(x) => asked'[x] = asked[x] /\ Asked(x)' /\ (Effective(x) => Effective(x)')
    BY <1>1, EffectStays DEF Asked
  <2>3. \A u \in Call : asked[u].kind = "undo" => asked'[u] = asked[u]
    BY DEF Asked, NoAsk
  <2>4. x \in reversed => \E u \in Call : asked'[u].kind = "undo" /\ x \in asked'[u].of /\ pending[u] \in Go
    BY <2>1, <2>3 DEF Recorded
  <2>5. told'[x] # "none" => Asked(x)
    BY <1>6, <1>6a, <2>1 DEF Recorded, Dropped
  <2>6. (told'[x] = "EXECUTED" => x \in confirmed) /\ (told'[x] \in Refusal => pending[x] = told'[x])
    BY <1>6, <2>1 DEF Recorded, Refusal
  <2> HIDE DEF Effective, Asked
  <2>7. CASE Asked(x)
    BY <2>1, <2>2, <2>4, <2>6, <2>7 DEF Recorded, tables, world
  <2>8. CASE ~ Asked(x)
    BY <2>1, <2>4, <2>5, <2>8 DEF Recorded, tables, world
  <2> QED
    BY <2>7, <2>8
<1>8. Alone'
  <2> SUFFICES ASSUME ~stalled PROVE Alone'
    BY DEF Alone
  <2>1. \A q \in Engine : HoldsLease(q)'
    BY OneDrives DEF HoldsLease, OnlyMoves
  <2>2. ASSUME NEW c \in Call PROVE AnsweredOnce(c)'
    <3>1. CASE NotAnswering(p, c) /\ told'[c] = told[c]
      <4>1. AnsweredOnce(c) /\ Recorded(c) /\ told'[c] = told[c]
        BY <3>1 DEF SessionInv, Alone, CallsRecorded
      <4>2. told[c] # "none" => NotQueued(c) /\ Asked(c)
        BY <4>1 DEF AnsweredOnce, Recorded
      <4>3. told[c] # "none" => c \notin ToSet(g.queue)
        BY <4>2 DEF NotQueued
      <4>4. told[c] # "none" => NotQueued(c)'
        BY <4>2, <4>3 DEF NotQueued, OnlyMoves
      <4> QED
        BY <4>1, <4>4 DEF AnsweredOnce
    <3>2. CASE ~ NotAnswering(p, c) \/ c \in Dropped(p, g)
      <4>1. c \notin ToSet(g.queue)
        BY <3>2 DEF Dropped
      <4>2. \A q \in Engine : q # p => mem'[q].queue = <<>>
        BY OneDrives DEF OnlyMoves, SessionInv, DriversKnow, KnowsItsCall
      <4>3. NotQueued(c)'
        BY <4>1, <4>2 DEF NotQueued, ToSet
      <4> QED
        BY <4>3 DEF AnsweredOnce
    <3> QED
      BY <3>1, <3>2
  <2> QED
    BY <2>1, <2>2 DEF Alone
<1> QED
  BY <1>3, <1>4, <1>5, <1>7, <1>8 DEF SessionInv

(* The calls of a checkpoint, or of a graph, are dropped: each is shown as *)
(* failed.                                                                 *)
LEMMA ShownFailedIs ==
    ASSUME SessionInv, NEW p \in Engine, NEW g, NEW calls \in SUBSET Queued(p), told' = ShownFailed(calls),
           ToSet(g.queue) = {}
    PROVE  /\ told' \in [Call -> Outcome]
           /\ \A c \in Call : told'[c] = told[c] \/ (c \in Dropped(p, g) /\ told'[c] = "FAILED")
<1>1. told \in [Call -> Outcome] /\ "FAILED" \in Outcome
  BY DEF SessionInv, Typed, TablesTyped, Outcome
<1> QED
  BY <1>1 DEF ShownFailed, Dropped
(* A node is over without any of its calls having been run.                *)
LEMMA NodeDropped ==
    ASSUME SessionInv, NEW p \in Engine, driver[p].at \in {"start", "node"},
           driver' \in [Engine -> Drivers], driver'[p].at = "node", driver'[p].won = driver[p].won,
           \A q \in Engine : q # p => driver'[q] = driver[q],
           Commit(p, [NoGraph EXCEPT !.next = "plan"]),
           told' = told \/ \E calls \in SUBSET Queued(p) : told' = ShownFailed(calls),
           UNCHANGED <<asked, tables, world, sessionRows, lease, resuming, stop, faults, stalled>>
    PROVE  SessionInv'
<1>1. Typed /\ AskedInOrder /\ driver[p].won = {}
  BY DEF SessionInv, DriversKnow, KnowsItsCall
<1>2. PICK g \in Graph : g = [NoGraph EXCEPT !.next = "plan"] /\ Empty(g)
  BY EmptyGraph
<1>3. Commit(p, g)
  BY <1>2, Zenon
<1>4. mem' \in [Engine -> Graph] /\ mem'[p] = g /\ saved' = g /\ saved' \in Graph
      /\ \A q \in Engine : q # p => mem'[q] = mem[q]
  BY <1>1, <1>3, Committed DEF Typed, RunsTyped
<1>5. ToSet(g.queue) = {} /\ Sound(g, Planned')
  BY <1>2 DEF Empty, Sound, Working, ToSet, IsInjective
<1>6. /\ told' \in [Call -> Outcome]
      /\ \A c \in Call : told'[c] = told[c] \/ (c \in Dropped(p, g) /\ told'[c] = "FAILED")
  BY <1>1, <1>5, ShownFailedIs DEF Typed, TablesTyped
<1>7. Typed'
  BY <1>1, <1>4, <1>6 DEF tables, world, sessionRows, Typed, TablesTyped, RunsTyped, SessionTyped
<1>8. AskedInOrder' /\ (\A c \in Call : NotAnswering(p, c)) /\ OnlyMoves(p)
  BY <1>1, <1>4 DEF AskedInOrder, Asked, NotAnswering, OnlyMoves
<1>9. \A c \in Call : ~ Asked(c) /\ asked'[c].kind = "undo" => asked'[c].of # {}
  <2>1. NoAsk.kind = "none"
    BY DEF NoAsk
  <2> QED
    BY <2>1 DEF Asked
<1> QED
  BY <1>1, <1>4, <1>5, <1>6, <1>7, <1>8, <1>9, NodeEnds

LEMMA EnterStep == ASSUME SessionInv, NEW p \in Engine, Enter(p) PROVE SessionInv'
<1>1. /\ driver[p].at = "start" /\ Commit(p, [NoGraph EXCEPT !.next = "plan"]) /\ To(p, "node")
      /\ UNCHANGED <<asked, tables, world, sessionRows, lease, resuming, stop, faults, stalled>>
  BY DEF Enter
<1>2. /\ driver' \in [Engine -> Drivers] /\ driver'[p].at = "node" /\ driver'[p].won = driver[p].won
      /\ \A q \in Engine : q # p => driver'[q] = driver[q]
  BY <1>1, WentTo DEF SessionInv, Typed, RunsTyped, At
<1>3. told' = told \/ \E calls \in SUBSET Queued(p) : told' = ShownFailed(calls)
  BY DEF Enter, Queued
<1> QED
  BY <1>1, <1>2, <1>3, NodeDropped

LEMMA SkipStoppedStep == ASSUME SessionInv, NEW p \in Engine, SkipStopped(p) PROVE SessionInv'
<1>1. /\ driver[p].at = "node" /\ Commit(p, [NoGraph EXCEPT !.next = "plan"])
      /\ UNCHANGED <<asked, tables, world, driver, sessionRows, lease, resuming, stop, faults, stalled>>
  BY DEF SkipStopped
<1>2. driver' \in [Engine -> Drivers]
  BY <1>1 DEF SessionInv, Typed, RunsTyped
<1>3. told' = told \/ \E calls \in SUBSET Queued(p) : told' = ShownFailed(calls)
  BY DEF SkipStopped, Queued
<1> QED
  BY <1>1, <1>2, <1>3, NodeDropped

LEMMA WishesTyped ==
    ASSUME SessionInv, NEW wish \in Wishes
    PROVE  wish \in Ask /\ (wish.kind = "undo" => wish.of # {})
<1>1. session.turn \in Nat
  BY BoundsAssumption DEF SessionInv, Typed, SessionTyped
<1>2. wish.kind \in {"hold", "mail", "undo"} /\ wish.of \in SUBSET Call /\ wish.turn \in Nat
      /\ (wish.kind = "undo" => wish.of # {})
  <2>1. CASE wish \in [kind : Kinds \ {"undo"}, of : {{}}, turn : {session.turn}]
    BY <1>1, <2>1, BoundsAssumption
  <2>2. CASE wish \in [kind : Kinds \cap {"undo"},
                       of : {{t} : t \in {c \in Call : told[c] = "EXECUTED" /\ asked[c].kind = "hold"}},
                       turn : {session.turn}]
    BY <1>1, <2>2
  <2> QED
    BY <2>1, <2>2 DEF Wishes
<1>3. wish = [kind |-> wish.kind, of |-> wish.of, turn |-> wish.turn]
  BY DEF Wishes
<1> QED
  BY <1>2, <1>3 DEF Ask

(* The model answers.                                                      *)
LEMMA PlanEnds ==
    ASSUME SessionInv, NEW p \in Engine, Plan(p), NEW g \in Graph, SameCalls(g, mem[p]),
           Commit(p, g), To(p, "finish"), UNCHANGED asked
    PROVE  SessionInv'
<1>1. Typed /\ Quiet /\ driver[p].at = "node"
  BY DEF SessionInv, Plan, Quiet
<1>2. driver' \in [Engine -> Drivers] /\ driver'[p].at = "finish"
      /\ \A q \in Engine : q # p => driver'[q] = driver[q]
  BY <1>1, WentTo DEF Typed, RunsTyped, At
<1>3. mem' \in [Engine -> Graph] /\ mem'[p] = g /\ saved' = g /\ \A q \in Engine : q # p => mem'[q] = mem[q]
  BY <1>1, Committed DEF Typed, RunsTyped
<1>4. OnlyMoves(p) /\ From(p, saved') /\ From(p, mem'[p]) /\ Rests(p)
  BY <1>2, <1>3 DEF OnlyMoves, From, Rests, Gate
<1>5. stop' \in BOOLEAN
  BY Zenon DEF Plan
<1>6. UNCHANGED <<session, lease, latest, resuming, stalled, faults>>
  BY DEF Plan, sessionRows
<1>7. SessionTyped'
  BY <1>1, <1>5, <1>6, Zenon DEF Typed, SessionTyped
<1>8. Typed'
  BY <1>1, <1>2, <1>3, <1>7, QuietTyped DEF RunsTyped
<1>9. StillAlone
  BY <1>1, <1>4, <1>6, LeaseKept
<1> QED
  BY <1>1, <1>4, <1>8, <1>9, RestKeeps

(* The model asks for calls.                                               *)
LEMMA PlanAsks ==
    ASSUME SessionInv, NEW p \in Engine, Plan(p), NEW g \in Graph,
           NEW n \in 1 .. 2, NEW wish \in [1 .. n -> Wishes], Fresh + n - 1 <= MaxAsked,
           asked' = [c \in Call |-> IF c \in Fresh .. Fresh + n - 1 THEN wish[c - Fresh + 1] ELSE asked[c]],
           Commit(p, [g EXCEPT !.next = "act", !.queue = [i \in 1 .. n |-> Fresh + i - 1]]),
           UNCHANGED driver
    PROVE  SessionInv'
<1>1. Typed /\ driver[p].at = "node" /\ driver[p].won = {} /\ AskedInOrder
  BY DEF SessionInv, Plan, DriversKnow, KnowsItsCall
<1>2. PICK k \in 0 .. MaxCalls : Fresh = k + 1 /\ \A c \in Call : Asked(c) <=> c <= k
  BY <1>1, FreshIsNext
<1>3. /\ k + n <= MaxCalls /\ k \in Nat /\ n \in {1, 2} /\ MaxCalls \in Nat
      /\ Fresh .. Fresh + n - 1 = k + 1 .. k + n
  BY <1>2, BoundsAssumption, CallsAssumption DEF Call
<1> DEFINE new == k + 1 .. k + n
<1>4. ASSUME NEW c \in Call
      PROVE  IF c \in new THEN asked'[c] \in Ask /\ (asked'[c].kind = "undo" => asked'[c].of # {})
                          ELSE asked'[c] = asked[c]
  <2>1. CASE c \in new
    <3>1. c - Fresh + 1 \in 1 .. n
      BY <1>2, <1>3, <2>1
    <3>2. PICK w \in Wishes : w = wish[c - Fresh + 1]
      BY <3>1
    <3>3. asked'[c] = w
      BY <1>3, <2>1, <3>2
    <3> QED
      BY <2>1, <3>2, <3>3, WishesTyped
  <2>2. CASE c \notin new
    BY <1>3, <2>2
  <2> QED
    BY <2>1, <2>2
<1>5. asked' \in [Call -> Ask \cup {NoAsk}]
  <2>1. asked \in [Call -> Ask \cup {NoAsk}]
    BY <1>1 DEF Typed, TablesTyped
  <2>2. \A c \in Call : asked'[c] \in Ask \cup {NoAsk}
    BY <1>4, <2>1
  <2>3. asked' = [c \in Call |-> asked'[c]]
    OBVIOUS
  <2> HIDE DEF new
  <2> QED
    BY <2>2, <2>3
<1>6. \A a \in Ask : a # NoAsk
  BY DEF Ask, NoAsk
<1>7. \A c \in Call : Asked(c)' <=> c <= k + n
  <2> SUFFICES ASSUME NEW c \in Call PROVE Asked(c)' <=> c <= k + n
    OBVIOUS
  <2>1. c \in Nat /\ c >= 1
    BY <1>3 DEF Call
  <2>2. CASE c \in new
    BY <1>3, <1>4, <1>6, <2>1, <2>2 DEF Asked
  <2>3. CASE c \notin new
    BY <1>2, <1>3, <1>4, <2>1, <2>3 DEF Asked
  <2> QED
    BY <2>2, <2>3
<1>8. AskedInOrder'
  BY <1>3, <1>7 DEF AskedInOrder
<1> DEFINE queue == [i \in 1 .. n |-> Fresh + i - 1]
           h == [g EXCEPT !.next = "act", !.queue = queue]
<1>9. /\ queue \in Seq(Call) /\ queue # <<>> /\ IsInjective(queue) /\ ToSet(queue) = new
      /\ new \subseteq Call
  <2>1. \A i \in 1 .. n : queue[i] = k + i
    BY <1>2, <1>3
  <2>2. new \subseteq Call
    BY <1>3 DEF Call
  <2>3. queue \in [1 .. n -> Call]
    BY <1>3, <2>1, <2>2
  <2>4. queue \in Seq(Call) /\ DOMAIN queue = 1 .. n
    BY <1>3, <2>3
  <2>5. queue # <<>>
    BY <1>3, <2>4
  <2>6. IsInjective(queue)
    <3> HIDE DEF queue
    <3> QED
      BY <1>3, <2>1, <2>4 DEF IsInjective
  <2>7. ASSUME NEW c PROVE c \in ToSet(queue) <=> c \in new
    <3> HIDE DEF queue
    <3>1. c \in ToSet(queue) <=> \E i \in 1 .. n : c = queue[i]
      BY <2>4 DEF ToSet
    <3>2. c \in new <=> \E i \in 1 .. n : c = k + i
      <4>1. c \in new => c - k \in 1 .. n /\ c = k + (c - k)
        BY <1>3
      <4>2. \A i \in 1 .. n : k + i \in new
        BY <1>3
      <4> QED
        BY <4>1, <4>2
    <3> QED
      BY <2>1, <3>1, <3>2
  <2> QED
    BY <2>2, <2>4, <2>5, <2>6, <2>7
<1> HIDE DEF queue
<1>10. h \in Graph /\ h.queue = queue
  BY <1>9 DEF Graph
<1>11. Commit(p, h)
  BY DEF h, queue
<1> HIDE DEF h
<1>12. /\ mem' \in [Engine -> Graph] /\ mem'[p] = h /\ saved' = h /\ saved' \in Graph
       /\ \A q \in Engine : q # p => mem'[q] = mem[q]
  BY <1>1, <1>10, <1>11, Committed DEF Typed, RunsTyped
<1>13. Typed'
  <2>1. stop' \in BOOLEAN
    BY Zenon DEF Plan
  <2>2. SessionTyped'
    BY <1>1, <2>1, Zenon DEF Plan, sessionRows, Typed, SessionTyped
  <2>3. TablesTyped' /\ RunsTyped'
    BY <1>1, <1>5, <1>12 DEF Plan, tables, world, Typed, TablesTyped, RunsTyped
  <2> QED
    BY <2>2, <2>3 DEF Typed
<1>14. \A c \in new : c \in Call /\ ~ Asked(c) /\ Asked(c)'
  BY <1>2, <1>3, <1>7, <1>9
<1>15. Sound(h, Planned')
  BY <1>9, <1>10, <1>14 DEF Sound, Planned, Asked
<1>16. \A c \in Call : NotAnswering(p, c)
  BY <1>1 DEF NotAnswering
<1>17. /\ \A c \in Call : Asked(c) => asked'[c] = asked[c]
       /\ \A c \in Call : ~ Asked(c) /\ asked'[c].kind = "undo" => asked'[c].of # {}
  <2>1. NoAsk.kind = "none"
    BY DEF NoAsk
  <2> HIDE DEF new
  <2> QED
    BY <1>4, <1>14, <2>1 DEF Asked
<1>18. OnlyMoves(p) /\ UNCHANGED <<tables, world, lease, stalled, told>>
  BY <1>12 DEF Plan, OnlyMoves
<1>19. \A c \in ToSet(h.queue) : NotAnswering(p, c) /\ ~ Asked(c)
  BY <1>9, <1>10, <1>14, <1>16
<1>20. driver[p].at # "idle" /\ driver'[p].at = "node" /\ driver'[p].won = {}
  BY <1>1
<1>21. \A c \in Call : told'[c] = told[c]
  BY <1>18
<1> HIDE DEF new
<1> QED
  BY <1>8, <1>12, <1>13, <1>15, <1>16, <1>17, <1>18, <1>19, <1>20, <1>21, NodeEnds

LEMMA PlanStep == ASSUME SessionInv, NEW p \in Engine, Plan(p) PROVE SessionInv'
<1>1. PICK m \in Graph : m = mem[p]
  BY DEF SessionInv, Typed, RunsTyped
<1>2. PICK g \in Graph : g = [m EXCEPT !.waiting = NoCall, !.answered = FALSE] /\ SameCalls(g, m)
  BY GraphVariants
<1>3. \/ Commit(p, [g EXCEPT !.next = "end"]) /\ To(p, "finish") /\ UNCHANGED asked
      \/ \E n \in 1 .. 2 : \E wish \in [1 .. n -> Wishes] :
            /\ Fresh + n - 1 <= MaxAsked
            /\ asked' = [c \in Call |-> IF c \in Fresh .. Fresh + n - 1 THEN wish[c - Fresh + 1] ELSE asked[c]]
            /\ Commit(p, [g EXCEPT !.next = "act", !.queue = [i \in 1 .. n |-> Fresh + i - 1]])
            /\ UNCHANGED driver
  BY <1>1, <1>2, Zenon DEF Plan
<1>4. CASE Commit(p, [g EXCEPT !.next = "end"]) /\ To(p, "finish") /\ UNCHANGED asked
  <2> DEFINE h == [g EXCEPT !.next = "end"]
  <2>1. h \in Graph /\ SameCalls(h, mem[p])
    BY <1>1, <1>2 DEF Graph, SameCalls, Working
  <2>2. Commit(p, h)
    BY <1>4
  <2> HIDE DEF h
  <2> QED
    BY <1>4, <2>1, <2>2, PlanEnds
<1>5. CASE \E n \in 1 .. 2 : \E wish \in [1 .. n -> Wishes] :
            /\ Fresh + n - 1 <= MaxAsked
            /\ asked' = [c \in Call |-> IF c \in Fresh .. Fresh + n - 1 THEN wish[c - Fresh + 1] ELSE asked[c]]
            /\ Commit(p, [g EXCEPT !.next = "act", !.queue = [i \in 1 .. n |-> Fresh + i - 1]])
            /\ UNCHANGED driver
  <2>1. PICK n \in 1 .. 2 : \E wish \in [1 .. n -> Wishes] :
            /\ Fresh + n - 1 <= MaxAsked
            /\ asked' = [c \in Call |-> IF c \in Fresh .. Fresh + n - 1 THEN wish[c - Fresh + 1] ELSE asked[c]]
            /\ Commit(p, [g EXCEPT !.next = "act", !.queue = [i \in 1 .. n |-> Fresh + i - 1]])
            /\ UNCHANGED driver
    BY <1>5, Zenon
  <2>2. PICK wish \in [1 .. n -> Wishes] :
            /\ Fresh + n - 1 <= MaxAsked
            /\ asked' = [c \in Call |-> IF c \in Fresh .. Fresh + n - 1 THEN wish[c - Fresh + 1] ELSE asked[c]]
            /\ Commit(p, [g EXCEPT !.next = "act", !.queue = [i \in 1 .. n |-> Fresh + i - 1]])
            /\ UNCHANGED driver
    BY <2>1, Zenon
  <2> QED
    BY <2>2, PlanAsks, Zenon
<1> QED
  BY <1>3, <1>4, <1>5
LEMMA ReplyEnds ==
    ASSUME SessionInv, NEW p \in Engine, driver[p].at = "reply", NEW h \in Graph, Commit(p, h),
           Goes(p, [Idle EXCEPT !.at = "node"]),
           NEW calls \in SUBSET Dropped(p, h), told' = [ShownFailed(calls) EXCEPT ![driver[p].call] = driver[p].out],
           UNCHANGED <<tables, world, sessionRows, lease, resuming, stop, faults, stalled>>,
           asked' \in [Call -> Ask \cup {NoAsk}], Sound(h, Planned'), AskedInOrder',
           \A c \in Call : Asked(c) => asked'[c] = asked[c],
           \A c \in Call : ~ Asked(c) /\ asked'[c].kind = "undo" => asked'[c].of # {},
           \A c \in ToSet(h.queue) : ~ Asked(c) \/ c \in ToSet(Tail(mem[p].queue))
    PROVE  SessionInv'
<1>1. Typed
  BY DEF SessionInv
<1>2. PICK c \in Call, out \in Outcome : c = driver[p].call /\ out = driver[p].out /\ Asked(c)
  BY AtItsCall DEF Gate, Drivers
<1>3. mem[p].next \in Working /\ c = Head(mem[p].queue)
  BY <1>2, AtItsCall DEF Gate, KnowsItsCall
<1>4. Goes(p, [Idle EXCEPT !.at = "node", !.resumed = FALSE])
  BY AwayForms, Zenon
<1>5. driver' \in [Engine -> Drivers] /\ driver'[p].at = "node" /\ driver'[p].won = {}
      /\ \A q \in Engine : q # p => driver'[q] = driver[q]
  BY <1>1, <1>4, WentAway DEF Typed, RunsTyped, At
<1>6. /\ mem' \in [Engine -> Graph] /\ mem'[p] = h /\ saved' = h /\ saved' \in Graph
      /\ \A q \in Engine : q # p => mem'[q] = mem[q]
  BY <1>1, Committed DEF Typed, RunsTyped
<1>7. /\ told' \in [Call -> Outcome] /\ told'[c] = out
      /\ \A x \in Call : x # c => told'[x] = told[x] \/ (x \in Dropped(p, h) /\ told'[x] = "FAILED")
  BY <1>1, <1>2 DEF Typed, TablesTyped, ShownFailed, Outcome
<1>8. Typed'
  BY <1>1, <1>5, <1>6, <1>7 DEF tables, world, sessionRows, Typed, TablesTyped, RunsTyped, SessionTyped
<1>9. /\ \A x \in Call : NotAnswering(p, x) <=> x # c
  BY <1>2 DEF NotAnswering
<1>10. /\ \A x \in ToSet(Tail(mem[p].queue)) : x # c /\ x \in ToSet(mem[p].queue)
  <2>1. PICK s \in Seq(Call) : s = mem[p].queue /\ s # <<>> /\ IsInjective(s)
    BY <1>1, <1>3, HeadAsked DEF Typed, RunsTyped, Graph, SessionInv, GraphsSound, Sound
  <2>2. Head(s) \notin ToSet(Tail(s)) /\ ToSet(s) = ToSet(Tail(s)) \cup {Head(s)}
    BY <2>1, TailOnce, HeadAndTail
  <2> QED
    BY <1>3, <2>1, <2>2
<1>11. \A x \in ToSet(h.queue) : /\ x \in Call => NotAnswering(p, x)
                                 /\ x \in Call => ~ Asked(x) \/ x \in ToSet(mem[p].queue)
  BY <1>2, <1>9, <1>10
<1>12. \A x \in Call : NotAnswering(p, x) => told'[x] = told[x] \/ (x \in Dropped(p, h) /\ told'[x] = "FAILED")
  BY <1>7, <1>9
<1>13. \A x \in Call : ~ NotAnswering(p, x) => told'[x] = driver[p].out
  BY <1>2, <1>7, <1>9
<1>14. OnlyMoves(p) /\ driver[p].at # "idle" /\ UNCHANGED <<tables, world, lease, stalled>>
  BY <1>5, <1>6 DEF OnlyMoves
<1> QED
  BY <1>5, <1>6, <1>8, <1>11, <1>12, <1>13, <1>14, NodeEnds

LEMMA ReplyStep == ASSUME SessionInv, NEW p \in Engine, Reply(p) PROVE SessionInv'
<1>1. Typed /\ driver[p].at = "reply"
  BY DEF SessionInv, Reply
<1>2. PICK e \in Drivers, m \in Graph : e = driver[p] /\ m = mem[p]
  BY <1>1 DEF Typed, RunsTyped
<1>3. /\ e.call \in Call /\ Asked(e.call) /\ m.next \in Working
      /\ m.queue # <<>> /\ m.queue \in Seq(Call) /\ Sound(m, Planned)
  BY <1>1, <1>2, AtItsCall, HeadAsked DEF Gate, KnowsItsCall, Graph, SessionInv, GraphsSound
<1> DEFINE g == [NoGraph EXCEPT !.wrap = m.wrap]
           rest == Tail(m.queue)
           answers == [g EXCEPT !.next = "plan"]
           warns == [g EXCEPT !.next = "plan", !.wrap = TRUE]
           goesOn == [g EXCEPT !.next = "act", !.queue = rest]
           offers == [g EXCEPT !.next = "compensate", !.queue = <<Fresh>>]
           behind == IF e.out = "EXECUTED" THEN {} ELSE ToSet(rest)
<1>4. /\ Goes(p, [Idle EXCEPT !.at = "node"])
      /\ told' = [ShownFailed(behind) EXCEPT ![driver[p].call] = driver[p].out]
      /\ UNCHANGED <<tables, world, sessionRows, lease, resuming, stop, faults, stalled>>
      /\ \/ Commit(p, warns) /\ UNCHANGED asked
         \/ Commit(p, answers) /\ UNCHANGED asked
         \/ e.out = "EXECUTED" /\ rest # <<>> /\ Commit(p, goesOn) /\ UNCHANGED asked
         \/ /\ UndoableInTurn # {} /\ Fresh <= MaxCalls
            /\ Commit(p, offers)
            /\ asked' = [asked EXCEPT ![Fresh] = [kind |-> "undo", of |-> UndoableInTurn, turn |-> session.turn]]
  BY <1>2, Zenon DEF Reply
<1>5. rest \in Seq(Call) /\ IsInjective(rest) /\ ToSet(rest) \subseteq ToSet(m.queue)
  <2>1. PICK s \in Seq(Call) : s = m.queue /\ s # <<>> /\ IsInjective(s)
    BY <1>3 DEF Sound
  <2>2. IsInjective(Tail(s)) /\ ToSet(s) = ToSet(Tail(s)) \cup {Head(s)} /\ Tail(s) \in Seq(Call)
    BY <2>1, TailOnce, HeadAndTail
  <2> QED
    BY <2>1, <2>2
<1>5a. behind \subseteq Queued(p) /\ (e.out = "EXECUTED" => behind = {}) /\ \A x \in behind : Asked(x)
  BY <1>2, <1>3, <1>5 DEF Queued, Sound, Planned, Asked
<1>6. PICK f \in Graph : f = g /\ f.queue = <<>>
  <2>1. PICK n \in Graph : n = NoGraph /\ n.queue = <<>>
    BY EmptyGraph DEF Empty
  <2>2. m.wrap \in BOOLEAN
    BY <1>2 DEF Graph
  <2>3. [n EXCEPT !.wrap = m.wrap] \in Graph /\ [n EXCEPT !.wrap = m.wrap].queue = <<>>
    BY <2>1, <2>2 DEF Graph
  <2> QED
    BY <2>1, <2>3, Zenon
<1>7. ASSUME UNCHANGED asked
      PROVE  /\ asked' \in [Call -> Ask \cup {NoAsk}] /\ AskedInOrder' /\ Planned' = Planned
             /\ \A c \in Call : Asked(c) => asked'[c] = asked[c]
             /\ \A c \in Call : ~ Asked(c) /\ asked'[c].kind = "undo" => asked'[c].of # {}
  <2>1. AskedInOrder' /\ Planned' = Planned
    BY <1>7 DEF SessionInv, AskedInOrder, Asked, Planned
  <2>2. NoAsk.kind = "none"
    BY DEF NoAsk
  <2> QED
    BY <1>1, <1>7, <2>1, <2>2 DEF Asked, Typed, TablesTyped
<1>8. CASE (Commit(p, warns) \/ Commit(p, answers)) /\ UNCHANGED asked
  <2>1. /\ [f EXCEPT !.next = "plan", !.wrap = TRUE] \in Graph
        /\ [f EXCEPT !.next = "plan", !.wrap = TRUE].queue = <<>>
        /\ [f EXCEPT !.next = "plan", !.wrap = TRUE].next = "plan"
        /\ [f EXCEPT !.next = "plan"] \in Graph
        /\ [f EXCEPT !.next = "plan"].queue = <<>>
        /\ [f EXCEPT !.next = "plan"].next = "plan"
    BY <1>6 DEF Graph
  <2>2. PICK h \in Graph : Commit(p, h) /\ h.queue = <<>> /\ h.next = "plan"
    BY <1>6, <1>8, <2>1, Zenon
  <2>3. Sound(h, Planned) /\ ToSet(h.queue) = {}
    BY <2>2 DEF Sound, Working, ToSet, IsInjective
  <2> HIDE DEF g, rest, answers, warns, goesOn, offers, behind
  <2>4. behind \in SUBSET Dropped(p, h)
    BY <1>5a, <2>3 DEF Dropped
  <2>5. asked' \in [Call -> Ask \cup {NoAsk}] /\ AskedInOrder' /\ Sound(h, Planned')
    BY <1>7, <1>8, <2>3
  <2>6. /\ \A c \in Call : Asked(c) => asked'[c] = asked[c]
        /\ \A c \in Call : ~ Asked(c) /\ asked'[c].kind = "undo" => asked'[c].of # {}
        /\ \A c \in ToSet(h.queue) : ~ Asked(c) \/ c \in ToSet(Tail(mem[p].queue))
    BY <1>7, <1>8, <2>3
  <2> QED
    BY <1>1, <1>4, <2>2, <2>4, <2>5, <2>6, ReplyEnds
<1>9. CASE e.out = "EXECUTED" /\ rest # <<>> /\ Commit(p, goesOn) /\ UNCHANGED asked
  <2>1. PICK t \in Seq(Call) : t = rest /\ t # <<>>
    BY <1>5, <1>9
  <2>2. /\ [f EXCEPT !.next = "act", !.queue = t] \in Graph
        /\ [f EXCEPT !.next = "act", !.queue = t].queue = t
    BY <1>6 DEF Graph
  <2>3. PICK h \in Graph : Commit(p, h) /\ h.queue = t
    BY <1>6, <1>9, <2>1, <2>2, Zenon
  <2>4. Sound(h, Planned)
    BY <1>3, <1>5, <2>1, <2>3 DEF Sound
  <2>5. ToSet(h.queue) = ToSet(Tail(mem[p].queue))
    BY <1>2, <2>1, <2>3
  <2> HIDE DEF g, rest, answers, warns, goesOn, offers, behind
  <2>6. behind \in SUBSET Dropped(p, h)
    BY <1>9, <1>5a
  <2>7. asked' \in [Call -> Ask \cup {NoAsk}] /\ AskedInOrder' /\ Sound(h, Planned')
    BY <1>7, <1>9, <2>4
  <2>8. /\ \A c \in Call : Asked(c) => asked'[c] = asked[c]
        /\ \A c \in Call : ~ Asked(c) /\ asked'[c].kind = "undo" => asked'[c].of # {}
        /\ \A c \in ToSet(h.queue) : ~ Asked(c) \/ c \in ToSet(Tail(mem[p].queue))
    BY <1>7, <1>9, <2>5
  <2> QED
    BY <1>1, <1>4, <2>3, <2>6, <2>7, <2>8, ReplyEnds
<1>10. CASE /\ UndoableInTurn # {} /\ Fresh <= MaxCalls
           /\ Commit(p, offers)
           /\ asked' = [asked EXCEPT ![Fresh] = [kind |-> "undo", of |-> UndoableInTurn, turn |-> session.turn]]
  <2>1. PICK k \in 0 .. MaxCalls : Fresh = k + 1 /\ \A c \in Call : Asked(c) <=> c <= k
    BY FreshIsNext DEF SessionInv
  <2>2. PICK n \in Call : n = Fresh /\ n = k + 1 /\ ~ Asked(n)
    BY <1>10, <2>1, CallsAssumption DEF Call
  <2>3. PICK undo \in Ask : /\ undo = [kind |-> "undo", of |-> UndoableInTurn, turn |-> session.turn]
                            /\ undo.of # {} /\ undo # NoAsk
    <3>1. session.turn \in Nat /\ UndoableInTurn \in SUBSET Call
      BY <1>1, BoundsAssumption DEF Typed, SessionTyped, UndoableInTurn
    <3>2. [kind |-> "undo", of |-> UndoableInTurn, turn |-> session.turn] \in Ask
      BY <3>1 DEF Ask
    <3>3. PICK undo \in Ask : undo = [kind |-> "undo", of |-> UndoableInTurn, turn |-> session.turn]
      BY <3>2
    <3>4. undo.kind = "undo" /\ undo.of = UndoableInTurn
      BY <3>3
    <3>5. NoAsk.kind = "none"
      BY DEF NoAsk
    <3>6. undo # NoAsk
      BY <3>4, <3>5
    <3>7. undo.of # {}
      BY <1>10, <3>4
    <3> QED
      BY <3>3, <3>6, <3>7
  <2>4. asked' = [asked EXCEPT ![n] = undo]
    <3>1. /\ asked' = [asked EXCEPT ![Fresh] = [kind |-> "undo", of |-> UndoableInTurn, turn |-> session.turn]]
          /\ n = Fresh /\ undo = [kind |-> "undo", of |-> UndoableInTurn, turn |-> session.turn]
      BY <1>10, <2>2, <2>3
    <3> QED
      BY <3>1, Zenon
  <2>5. asked' \in [Call -> Ask \cup {NoAsk}] /\ asked'[n] = undo /\ \A c \in Call : c # n => asked'[c] = asked[c]
    BY <1>1, <2>4 DEF Typed, TablesTyped
  <2>6. \A c \in Call : Asked(c)' <=> c <= k + 1
    BY <2>1, <2>2, <2>3, <2>5, CallsAssumption DEF Asked, Call
  <2>7. AskedInOrder'
    <3>1. PICK j \in 0 .. MaxCalls : j = k + 1
      BY <2>2, CallsAssumption DEF Call
    <3>2. \A c \in Call : Asked(c)' <=> c <= j
      BY <2>6, <3>1
    <3> QED
      BY <3>2, Zenon DEF AskedInOrder
  <2>8. /\ [f EXCEPT !.next = "compensate", !.queue = <<n>>] \in Graph
        /\ [f EXCEPT !.next = "compensate", !.queue = <<n>>].queue = <<n>>
    <3>1. PICK s \in Seq(Call) : s = <<n>>
      <4>1. Append(<<>>, n) \in Seq(Call) /\ Append(<<>>, n) = <<n>>
        OBVIOUS
      <4> QED
        BY <4>1, Zenon
    <3>2. [f EXCEPT !.next = "compensate", !.queue = s] \in Graph
          /\ [f EXCEPT !.next = "compensate", !.queue = s].queue = s
      BY DEF Graph
    <3> QED
      BY <3>1, <3>2, Zenon
  <2>9. PICK h \in Graph : Commit(p, h) /\ h.queue = <<n>>
    BY <1>6, <1>10, <2>2, <2>8, Zenon
  <2>10. ToSet(<<n>>) = {n} /\ IsInjective(<<n>>) /\ <<n>> # <<>>
    BY DEF ToSet, IsInjective
  <2>11. n \in Planned'
    BY <2>3, <2>5 DEF Planned
  <2>12. Sound(h, Planned')
    BY <2>9, <2>10, <2>11 DEF Sound
  <2>13. \A c \in ToSet(h.queue) : ~ Asked(c)
    BY <2>2, <2>9, <2>10
  <2>14. /\ \A c \in Call : Asked(c) => asked'[c] = asked[c]
         /\ \A c \in Call : ~ Asked(c) /\ asked'[c].kind = "undo" => asked'[c].of # {}
    <3>1. NoAsk.kind = "none"
      BY DEF NoAsk
    <3> QED
      BY <2>2, <2>3, <2>5, <3>1 DEF Asked
  <2> HIDE DEF g, rest, answers, warns, goesOn, offers, behind
  <2>15. behind \in SUBSET Dropped(p, h)
    BY <1>5a, <2>13 DEF Dropped
  <2> QED
    BY <1>1, <1>4, <2>5, <2>7, <2>9, <2>12, <2>13, <2>14, <2>15, ReplyEnds
<1> HIDE DEF g, rest, answers, warns, goesOn, offers, behind
<1> QED
  BY <1>4, <1>8, <1>9, <1>10
-----------------------------------------------------------------------------
(* The specification keeps the invariant *)

LEMMA DriveInv == ASSUME SessionInv, NEW p \in Engine, Drive(p) PROVE SessionInv'
<1>1. CASE Enter(p)
  BY <1>1, EnterStep
<1>2. CASE Plan(p)
  BY <1>2, PlanStep
<1>3. CASE SkipStopped(p)
  BY <1>3, SkipStoppedStep
<1>4. CASE Act(p)
  BY <1>4, ActStep
<1>5. CASE Reply(p)
  BY <1>5, ReplyStep
<1>6. CASE Resumed(p)
  BY <1>6, ResumedStep
<1>7. CASE Pause(p)
  BY <1>7, PauseStep
<1>8. CASE DriveGate(p)
  <2>1. \/ AskRep(p) \/ BeginStep(p) \/ InsertStep(p) \/ RunTool(p) \/ SelectSteps(p)
        \/ UndoStep(p) \/ FinishCompensation(p) \/ RecordOutcome(p)
    BY <1>8, Zenon DEF DriveGate, GateStep
  <2> QED
    BY <1>8, <2>1, AskRepStep, BeginStepStep, InsertStepStep, RunToolStep, SelectStepsStep,
       UndoStepStep, FinishCompensationStep, RecordOutcomeStep
<1>9. CASE SettlePause(p) \/ Finish(p)
  BY <1>9, SettlesStep
<1>10. CASE CheckDecided(p)
  BY <1>10, CheckDecidedStep
<1>11. CASE Release(p)
  BY <1>11, EndsStep
<1> QED
  BY <1>1, <1>2, <1>3, <1>4, <1>5, <1>6, <1>7, <1>8, <1>9, <1>10, <1>11, Zenon DEF Drive

LEMMA NextInv == SessionInv /\ [Next]_vars => SessionInv'
<1> SUFFICES ASSUME SessionInv, [Next]_vars PROVE SessionInv'
  OBVIOUS
<1>1. CASE UNCHANGED vars
  <2>1. Quiet /\ UNCHANGED <<driver, graph>> /\ UNCHANGED <<sessionRows, lease, resuming, stop, faults, stalled>>
    BY <1>1 DEF vars, Quiet, graph, sessionRows
  <2>2. Typed'
    BY <2>1, QuietTyped DEF SessionInv, Typed, RunsTyped, SessionTyped, graph, sessionRows
  <2>3. StillAlone
    BY <2>1 DEF SessionInv, Alone, StillAlone, HoldsLease
  <2> QED
    BY <2>1, <2>2, <2>3, StillKeeps
<1>2. ASSUME NEW p \in Engine, Chat(p) PROVE SessionInv'
  BY <1>2, ChatStep
<1>3. ASSUME NEW p \in Engine, Drive(p) PROVE SessionInv'
  BY <1>3, DriveInv
<1>4. ASSUME NEW p \in Engine, LoseLease(p) \/ Crash(p) PROVE SessionInv'
  BY <1>4, EndsStep
<1>5. ASSUME NEW p \in Engine, RecoverOrphan(p) PROVE SessionInv'
  BY <1>5, RecoverOrphanStep
<1>6. ASSUME NEW p \in Engine, SegmentFails(p) PROVE SessionInv'
  BY <1>6, SegmentFailsStep
<1>7. ASSUME NEW p \in Engine, GateFails(p) PROVE SessionInv'
  BY <1>7, GateFailsStep
<1>8. ASSUME NEW p \in Engine, NEW c \in Call, Resume(p, c) PROVE SessionInv'
  BY <1>8, ResumeStep
<1>9. ASSUME NEW c \in Call, ExpireStale(c) \/ \E choice \in Verdict : Decide(c, choice) PROVE SessionInv'
  BY <1>9, ResolveStep
<1>10. CASE \/ ChatTooSoon \/ ResumeStalled \/ LeaseExpires \/ AdminStop
            \/ (\E c \in Call : GiveUp(c)) \/ \E p \in Engine : Stall(p)
  BY <1>10, StillStep
<1> QED
  BY <1>1, <1>2, <1>3, <1>4, <1>5, <1>6, <1>7, <1>8, <1>9, <1>10, Zenon DEF Next

LEMMA SessionInvAlways == Spec => []SessionInv
<1> QED
  BY InitInv, NextInv, PTL DEF Spec

-----------------------------------------------------------------------------
(* What follows from it *)

(* A call that never took effect, and one that did once.                   *)
LEMMA OnceAtMost ==
    ASSUME NEW s, NEW x, s = <<>> \/ s = <<x>>
    PROVE  Len(s) <= 1 /\ \A i \in DOMAIN s : s[i] = x
<1>1. CASE s = <<>>
  BY <1>1
<1>2. CASE s = <<x>>
  <2>1. Len(<<x>>) = 1 /\ DOMAIN <<x>> = 1 .. 1 /\ <<x>>[1] = x
    OBVIOUS
  <2>2. \A i \in 1 .. 1 : i = 1
    OBVIOUS
  <2> QED
    BY <1>2, <2>1, <2>2
<1> QED
  BY <1>1, <1>2

(* Every variable of a session keeps its type, whatever the processes, the *)
(* rep, the sweep and the faults do to it: in particular a write is in     *)
(* the list of effects once at most, with approved or edited arguments     *)
(* (gate.py:300, ledger.py:86).                                            *)
THEOREM TypeCorrect == Spec => []TypeOK
<1>1. SessionInv => TypeOK
  <2> SUFFICES ASSUME SessionInv PROVE TypeOK
    OBVIOUS
  <2>1. TablesTyped /\ RunsTyped /\ SessionTyped
    BY DEF SessionInv, Typed
  <2>2. ASSUME NEW c \in Call PROVE Len(ran[c]) <= 1 /\ \A i \in DOMAIN ran[c] : ran[c][i] \in Go
    <3>1. ran[c] = <<>> \/ \E choice \in Go : ran[c] = <<choice>>
      BY <2>1 DEF TablesTyped, Runs
    <3>2. CASE ran[c] = <<>>
      BY <3>2, OnceAtMost
    <3>3. ASSUME NEW choice \in Go, ran[c] = <<choice>>
          PROVE  Len(ran[c]) <= 1 /\ \A i \in DOMAIN ran[c] : ran[c][i] \in Go
      BY <3>3, OnceAtMost
    <3> QED
      BY <3>1, <3>2, <3>3
  <2>3. ASSUME NEW p \in Engine
        PROVE  /\ driver[p].at \in At /\ driver[p].call \in Call \cup {NoCall}
               /\ driver[p].out \in Outcome /\ driver[p].left \subseteq Call
               /\ mem[p] \in Graph
    BY <2>1 DEF RunsTyped, Drivers
  <2>4. session.status \in SessionStatus /\ session.turn \in 0 .. MaxTurns
    BY <2>1 DEF SessionTyped
  <2> QED
    BY <2>1, <2>2, <2>3, <2>4, Zenon DEF TypeOK, TablesTyped, RunsTyped, SessionTyped
<1> QED
  BY <1>1, SessionInvAlways, PTL

(* Every write of a session is done at most once and only as the rep       *)
(* decided, and is taken back only by an undo the rep approved; a call     *)
(* shown as executed took effect, one shown as rejected or expired did     *)
(* not, and what was answered is not taken up again while leases hold:     *)
(* with any number of processes and calls, after crashes, when a run is    *)
(* repeated from its checkpoint, when tools raise after their effect and   *)
(* calls are shown as failed that were not (gate.py:300, :515,             *)
(* orchestrator.py:713, ledger.py:86, pending_actions.py:91, saga.py:106). *)
THEOREM WritesAsDecided == Spec => []ActsAsDecided
<1>1. SessionInv => ActsAsDecided
  <2> SUFFICES ASSUME SessionInv, NEW c \in Call
               PROVE  AtMostOnce(c) /\ OnlyAsDecided(c) /\ ToldTruthfully(c) /\ UndoneAsDecided(c)
    BY DEF ActsAsDecided, SessionInv, Alone
  <2>1. ran[c] = <<>> \/ ran[c] = <<pending[c]>>
    BY RanAsDecided
  <2>2. Recorded(c)
    BY DEF SessionInv, CallsRecorded
  <2>3. AtMostOnce(c) /\ OnlyAsDecided(c)
    BY <2>1, OnceAtMost DEF AtMostOnce, OnlyAsDecided
  <2>4. ToldTruthfully(c)
    <3>1. Refusal \cap Go = {} /\ (told[c] \in Refusal => pending[c] = told[c])
      BY <2>2 DEF Recorded, Refusal, Go
    <3>2. told[c] \in Refusal => ran[c] = <<>>
      BY <3>1, RanAsDecided
    <3> QED
      BY <2>2, <3>1, <3>2 DEF Recorded, ToldTruthfully, Effective, Refusal
  <2>5. UndoneAsDecided(c)
    BY <2>2 DEF Recorded, UndoneAsDecided
  <2> QED
    BY <2>3, <2>4, <2>5
<1> QED
  BY <1>1, SessionInvAlways, PTL
=============================================================================
