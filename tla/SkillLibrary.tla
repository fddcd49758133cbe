---------------------------- MODULE SkillLibrary ----------------------------
(***************************************************************************)
(* The skills of a workspace: a built-in playbook that admins may          *)
(* customize and reset, the workspace's own skills and the private ones of *)
(* a rep, their versions, the switches for one rep and for everyone, and   *)
(* the agent of one rep that lists and loads them.  A request reads in one *)
(* transaction and writes in another, so others act between the two.       *)
(* Sources: sales-agent-engine skills/service.py, skills/store.py,         *)
(* api/skills.py, db/models.py and tools/adapters/skills.py.               *)
(***************************************************************************)
EXTENDS Naturals, FiniteSets, Sequences

CONSTANTS
    MaxEnabled,         \* skills that are on for a rep at once
    MaxOwn,             \* active skills of the workspace, and of a rep
    MaxSaves,           \* bound: contents that are written
    MaxRequests         \* bound: requests of the reps

Admin == {"ann", "bob"}
Rep == Admin \cup {"cal"}
Agent == "cal"
Book == "book"
Row == {"row1", "row2"}
Ref == Row \cup {Book}
Slug == {Book, "book-2", "book-3", "offer", "offer-2", "offer-3"}
Content == 0 .. MaxSaves

VARIABLES
    library,    \* skill: workspace skills, private skills and customizations
    past,       \* skill_version: the content of every version of a row
    switches,   \* skill_setting: the switch of everyone, and of the agent's rep
    req,        \* what each rep has open in the editor, or the request that has not yet written
    agent,      \* what the agent has listed, and the load it is busy with
    saves,      \* contents written so far
    asked,      \* requests so far
    late,       \* requests that wrote although their count was no longer true
    since       \* what was there and what was on since the agent's load began

vars == <<library, past, switches, req, agent, saves, asked, late, since>>

-----------------------------------------------------------------------------
(* Skills as a rep sees them *)

None == "none"
NoRow == [key |-> None, owner |-> None, slug |-> None, version |-> 0, content |-> 0, active |-> FALSE]

IsRow(r) == library[r] # NoRow
Customizations == {r \in Row : library[r].active /\ library[r].key = Book}
Own(owner) == {r \in Row : library[r].active /\ library[r].key = None /\ library[r].owner = owner}

\* _from_builtin and _from_row. A customization goes by the key of its built-in.
Shipped == [ref |-> Book, row |-> None, slug |-> Book, version |-> 1, content |-> 0]
FromRow(r) == [ref |-> IF library[r].key = Book THEN Book ELSE r, row |-> r, slug |-> library[r].slug,
               version |-> library[r].version, content |-> library[r].content]

Skills(u) ==
    (IF Customizations = {} THEN {Shipped} ELSE {FromRow(r) : r \in Customizations})
    \cup {FromRow(r) : r \in Own("everyone") \cup Own(u)}

Entry(u, ref) == {s \in Skills(u) : s.ref = ref}

\* _state: a skill is on unless its switch for everyone or the rep's own is off. The switches of
\* other reps only matter to them and are left out.
IsOn(ref) ==
    /\ (ref \in Row /\ library[ref].owner = Agent) \/ switches["everyone"][ref]
    /\ switches[Agent][ref]

Enabled == {s \in Skills(Agent) : IsOn(s.ref)}

\* Admins write for the workspace, everyone else only their own private skills.
MayWrite(u, owner) == IF owner = "everyone" THEN u \in Admin ELSE owner = u
MayEdit(u, s) == MayWrite(u, IF s.row = None THEN "everyone" ELSE library[s.row].owner)

\* uq_skill_active_slug, and the number a slug gets when an active skill has it already.
Taken == {library[r].slug : r \in {q \in Row : library[q].active}}
Numbered(base) == IF base = Book THEN <<Book, "book-2", "book-3">> ELSE <<"offer", "offer-2", "offer-3">>
FreeSlug(base) == LET n == CHOOSE n \in 1 .. 3 : Numbered(base)[n] \notin Taken
                                                 /\ \A m \in 1 .. n - 1 : Numbered(base)[m] \in Taken
                  IN Numbered(base)[n]
SlugBase(slug) == IF slug \in {Book, "book-2", "book-3"} THEN Book ELSE "offer"

-----------------------------------------------------------------------------
(* Requests: what they read and check *)

NoReq == [op |-> None, ref |-> None, row |-> None, expected |-> 0, content |-> 0, base |-> Shipped,
          owner |-> None, on |-> FALSE, room |-> 0]

Asks(u, r) ==
    /\ req[u] = NoReq
    /\ asked < MaxRequests /\ asked' = asked + 1
    /\ req' = [req EXCEPT ![u] = r]
    /\ UNCHANGED <<library, past, switches, agent, late>>

\* The rep opens a skill: the edit starts from what is shown.
OpensSkill(u) ==
    /\ \E s \in Skills(u) : Asks(u, [NoReq EXCEPT !.op = "edit", !.ref = s.ref, !.base = s])
    /\ UNCHANGED saves

\* update, and restore_version, which saves the content of an earlier version. The version the
\* page shows must be the one of the skill that now goes by this ref, whichever row that is.
AsksSave(u) ==
    /\ req[u].op = "edit"
    /\ \E s \in Entry(u, req[u].ref) :
        /\ MayEdit(u, s)
        /\ s.version = req[u].base.version
        /\ LET save(c) == [req EXCEPT ![u].op = "save", ![u].row = s.row, ![u].expected = s.version, ![u].content = c] IN
           \/ saves < MaxSaves /\ saves' = saves + 1 /\ req' = save(saves + 1)
           \/ s.row # None /\ (\E v \in DOMAIN past[s.row] \ {s.version} : req' = save(past[s.row][v])) /\ UNCHANGED saves
    /\ UNCHANGED <<library, past, switches, agent, asked, late>>

\* create: the limit is checked on a count of its own. `room` is what it found.
Room(owner) == MaxOwn - Cardinality(Own(owner))

AsksCreate(u) ==
    /\ saves < MaxSaves /\ saves' = saves + 1
    /\ \E owner \in {"everyone", u}, base \in {Book, "offer"} :
        /\ MayWrite(u, owner)
        /\ Cardinality(Own(owner)) < MaxOwn
        /\ Asks(u, [NoReq EXCEPT !.op = "create", !.owner = owner, !.ref = base, !.content = saves + 1,
                                 !.room = Room(owner)])

AsksArchive(u) ==
    /\ \E ref \in Ref : \E s \in Entry(u, ref) :
        /\ s.row # None
        /\ MayEdit(u, s)
        /\ Asks(u, [NoReq EXCEPT !.op = "archive", !.ref = ref, !.row = s.row])
    /\ UNCHANGED saves

\* Mutant: what is brought back does not count.
BringBackUnchecked(r) == TRUE
HasRoom(r) == library[r].key = None => Cardinality(Own(library[r].owner)) < MaxOwn

AsksUnarchive(u) ==
    /\ \E r \in Row :
        /\ IsRow(r) /\ ~library[r].active
        /\ MayWrite(u, library[r].owner)
        /\ HasRoom(r)
        /\ Asks(u, [NoReq EXCEPT !.op = "unarchive", !.ref = r, !.row = r, !.owner = library[r].owner,
                                 !.room = Room(library[r].owner)])
    /\ UNCHANGED saves

\* Mutant: at the limit there is room for one more.
OneMoreFits == Cardinality(Enabled) <= MaxEnabled
Fits == Cardinality(Enabled) < MaxEnabled

\* A rep's own switch: not over an admin's, and on only while there is room.
AsksSwitch ==
    /\ \E ref \in Ref, on \in BOOLEAN :
        /\ Entry(Agent, ref) # {}
        /\ on # switches[Agent][ref]
        /\ on => (ref \in Row /\ library[ref].owner = Agent) \/ switches["everyone"][ref]
        /\ on => Fits
        /\ Asks(Agent, [NoReq EXCEPT !.op = "switch", !.ref = ref, !.owner = Agent, !.on = on,
                                     !.room = MaxEnabled - Cardinality(Enabled)])
    /\ UNCHANGED saves

AsksSwitchAll(u) ==
    /\ \E ref \in Ref, on \in BOOLEAN : \E s \in Entry(u, ref) :
        /\ s.row # None => library[s.row].owner = "everyone"
        /\ u \in Admin /\ on # switches["everyone"][ref]
        /\ Asks(u, [NoReq EXCEPT !.op = "switch", !.ref = ref, !.owner = "everyone", !.on = on])
    /\ UNCHANGED saves

-----------------------------------------------------------------------------
(* Requests: what they write *)

\* _forget: the lists kept in this process are dropped, those of other processes are not.
Answers(u) ==
    /\ req' = [req EXCEPT ![u] = NoReq]
    /\ UNCHANGED <<saves, asked>>
Forgets == agent' \in {agent, [agent EXCEPT !.listed = {}]}

Unwritten(u) == Answers(u) /\ UNCHANGED <<library, past, switches, agent, late>>

\* A new row at version 1, with the first entry of its history.
Inserts(key, owner, slug, content) ==
    \E r \in Row :
        /\ ~IsRow(r)
        /\ library' = [library EXCEPT ![r] = [key |-> key, owner |-> owner, slug |-> slug, version |-> 1,
                                        content |-> content, active |-> TRUE]]
        /\ past' = [past EXCEPT ![r] = <<content>>]

\* Mutant: the version is only compared before the transaction.
StillActive(r, expected) == library[r].active
StillAt(r, expected) == library[r].active /\ library[r].version = expected

Saves(u) ==
    /\ req[u].op = "save"
    /\ LET r == req[u].row IN
       IF r = None THEN
           IF Book \in Taken THEN Unwritten(u)
           ELSE Inserts(Book, "everyone", Book, req[u].content) /\ Answers(u) /\ Forgets /\ UNCHANGED <<switches, late>>
       ELSE IF ~StillAt(r, req[u].expected) THEN Unwritten(u)
       ELSE /\ library' = [library EXCEPT ![r].version = @ + 1, ![r].content = req[u].content]
            /\ past' = [past EXCEPT ![r] = Append(@, req[u].content)]
            /\ Answers(u) /\ Forgets /\ UNCHANGED <<switches, late>>

\* A count that others have used up since it was read.
CountsLate(u) == late' = IF Room(req[u].owner) < req[u].room THEN late + 1 ELSE late

Creates(u) ==
    /\ req[u].op = "create"
    /\ Inserts(None, req[u].owner, FreeSlug(req[u].ref), req[u].content)
    /\ CountsLate(u)
    /\ Answers(u) /\ Forgets /\ UNCHANGED switches

Archives(u) ==
    /\ req[u].op = "archive"
    /\ IF library[req[u].row].active
       THEN /\ library' = [library EXCEPT ![req[u].row].active = FALSE]
            /\ Answers(u) /\ Forgets /\ UNCHANGED <<past, switches, late>>
       ELSE Unwritten(u)

\* The name may be taken meanwhile: a skill gets a number, a customization stays archived.
Unarchives(u) ==
    /\ req[u].op = "unarchive"
    /\ LET r == req[u].row IN
       IF library[r].active \/ (library[r].key = Book /\ Book \in Taken) THEN Unwritten(u)
       ELSE /\ library' = [library EXCEPT ![r].active = TRUE,
                                    ![r].slug = IF @ \in Taken THEN FreeSlug(SlugBase(@)) ELSE @]
            /\ CountsLate(u)
            /\ Answers(u) /\ Forgets /\ UNCHANGED <<past, switches>>

Switches(u) ==
    /\ req[u].op = "switch"
    /\ switches' = [switches EXCEPT ![req[u].owner][req[u].ref] = req[u].on]
    /\ Answers(u) /\ Forgets /\ UNCHANGED <<library, past, late>>

-----------------------------------------------------------------------------
(* The agent: the list in its instructions, and the skill it loads *)

\* enabled() keeps a list for some seconds. index_text cuts it off: built-ins, then the workspace's, then the rep's own.
Rank(s) == IF s.ref = Book THEN 0 ELSE IF library[s.ref].owner = "everyone" THEN 1 ELSE 2

Lists ==
    /\ agent.pc = "idle"
    /\ LET on == Enabled IN
       \E shown \in SUBSET on :
        /\ Cardinality(shown) = IF Cardinality(on) < MaxEnabled THEN Cardinality(on) ELSE MaxEnabled
        /\ \A s \in shown, q \in on \ shown : Rank(s) <= Rank(q)
        /\ shown # agent.listed
        /\ agent' = [agent EXCEPT !.listed = shown]
    /\ UNCHANGED <<library, past, switches, req, saves, asked, late>>

\* use_skill, for a skill the agent picked from its list or the rep in the chat: usable()
\* reads the skills, then the switches.
BeginsLoad ==
    /\ agent.pc = "idle"
    /\ \E s \in agent.listed \cup Enabled :
        agent' = [agent EXCEPT !.pc = "loading", !.slug = s.slug, !.saw = Skills(Agent)]
    /\ UNCHANGED <<library, past, switches, req, saves, asked, late>>

\* Mutant: the skill is taken from the list that is kept.
FromTheList(a) == {s \in a.listed : s.slug = a.slug}
Usable(a) == {s \in a.saw : s.slug = a.slug /\ IsOn(s.ref)}

EndsLoad ==
    /\ agent.pc = "loading"
    /\ agent' = [agent EXCEPT !.pc = "idle", !.slug = None, !.saw = {}]
    /\ UNCHANGED <<library, past, switches, req, saves, asked, late>>

-----------------------------------------------------------------------------
(* Specification *)

Off == [there |-> {}, on |-> {}]

\* What was there, and what was on, at some moment of the load.
Remembers ==
    LET there == Skills(Agent)'
        on == {ref \in Ref : IsOn(ref)}'
    IN  since' = IF agent'.pc = "idle" THEN Off
                 ELSE IF agent.pc = "idle" THEN [there |-> there, on |-> on]
                 ELSE [there |-> since.there \cup there, on |-> since.on \cup on]

\* A new workspace, one that has customized the built-in, one that has also reset it, one with
\* an own skill and another that is archived, and one where the agent's rep has switched off
\* a private skill.
SavedOnce(r, key, owner, slug, active) ==
    [key |-> key, owner |-> owner, slug |-> slug, version |-> 1, content |-> 1, active |-> active]
Early ==
    {[r \in Row |-> NoRow],
     [r \in Row |-> IF r = "row1" THEN SavedOnce(r, Book, "everyone", Book, TRUE) ELSE NoRow],
     [r \in Row |-> IF r = "row1" THEN SavedOnce(r, Book, "everyone", Book, FALSE) ELSE NoRow],
     [r \in Row |-> SavedOnce(r, None, "everyone", "offer", r = "row1")],
     [r \in Row |-> IF r = "row1" THEN SavedOnce(r, None, "everyone", "offer", TRUE)
                    ELSE SavedOnce(r, None, Agent, "offer-2", TRUE)]}

Init ==
    /\ library \in Early
    /\ past = [r \in Row |-> IF IsRow(r) THEN <<1>> ELSE <<>>]
    /\ switches = [o \in {Agent, "everyone"} |-> [ref \in Ref |-> o = Agent /\ ref \in Row => library[ref].owner # Agent]]
    /\ req = [u \in Rep |-> NoReq]
    /\ agent = [pc |-> "idle", slug |-> None, saw |-> {}, listed |-> {}]
    /\ saves = 1 /\ asked = 0 /\ late = 0
    /\ since = Off

Reads(u) ==
    \/ OpensSkill(u) \/ AsksSave(u) \/ AsksCreate(u) \/ AsksArchive(u) \/ AsksUnarchive(u)
    \/ AsksSwitchAll(u) \/ (u = Agent /\ AsksSwitch)
Writes(u) == Saves(u) \/ Creates(u) \/ Archives(u) \/ Unarchives(u) \/ Switches(u)

Next == (Lists \/ BeginsLoad \/ EndsLoad \/ \E u \in Rep : Reads(u) \/ Writes(u)) /\ Remembers

Spec == Init /\ [][Next]_vars

-----------------------------------------------------------------------------
(* Properties *)

(* Rows are as they can be: every row is at a version, two active rows     *)
(* never have one slug, and only admins have written for everyone.         *)
SkillsTyped ==
    /\ \A r \in Row : IsRow(r) => library[r].owner \in Rep \cup {"everyone"} /\ library[r].slug \in Slug
    /\ \A r, q \in Row : r # q /\ library[r].active /\ library[q].active => library[r].slug # library[q].slug
    /\ \A u \in Rep : req[u].content \in Content
    /\ agent.pc \in {"idle", "loading"}

(* The limit of active skills holds however they come to be active, and is *)
(* passed by no more than the requests whose count was used up by others   *)
(* before they wrote.                                                      *)
LimitHolds == \A owner \in Rep \cup {"everyone"} : Cardinality(Own(owner)) <= MaxOwn + late

(* A rep's own switch brings the agent no more skills than MaxEnabled,     *)
(* unless others have used up, since the count was read, the room it left. *)
SwitchFits ==
    LET q == req[Agent] IN
    q.op = "switch" /\ q.owner = Agent /\ q.on /\ req'[Agent] = NoReq =>
        Cardinality(Enabled') <= MaxEnabled \/ MaxEnabled - Cardinality(Enabled) < q.room

(* The agent follows no skill that was archived, replaced or switched off  *)
(* for all of the time it took to load it, whatever its list still says.   *)
LoadsWhatIsOn == agent.pc = "loading" => \A s \in Usable(agent) : s \in since.there /\ s.ref \in since.on

(* A save replaces the content its editor has seen and no other, and what  *)
(* it replaced is in the history. A version number alone does not say so:  *)
(* an editor who opened the built-in, or a customization that was reset,   *)
(* may stand at version 1 of another row, and is excepted.                 *)
SavesBuildOnSeen ==
    \A u \in Rep, r \in Row :
        library[r].active /\ library'[r].content # library[r].content /\ req[u].op = "save" /\ req'[u] = NoReq =>
            /\ req[u].base.row = r => req[u].base.content = library[r].content
            /\ library'[r].version > library[r].version
            /\ \A v \in DOMAIN past[r] : past'[r][v] = past[r][v]
            /\ past'[r][library'[r].version] = library'[r].content
=============================================================================
