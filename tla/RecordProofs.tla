---------------------------- MODULE RecordProofs ----------------------------
(***************************************************************************)
(* What the agent engine shares with its workspace, whatever the constants *)
(* are.                                                                    *)
(*                                                                         *)
(* First the skills, which stay as their owners allow, and the outbox of a *)
(* session, through which the workspace comes to show what was delivered   *)
(* to it and never an older record again.                                  *)
(*                                                                         *)
(* Then the catalog, while a file is imported into it: the import reports  *)
(* what it did and leaves alone what is not its own.                       *)
(***************************************************************************)
EXTENDS WorkspaceRecords, CollectionFacts

-----------------------------------------------------------------------------
(* Skills: the invariant *)

SkillRow ==
    [key : {"none", "book"}, owner : Skills!Rep \cup {"everyone"}, slug : Skills!Slug,
     version : Nat \ {0}, content : Skills!Content, active : BOOLEAN]

(* The table: no two active rows have one slug, and a customization goes   *)
(* by the slug of its built-in.                                            *)
LibraryHolds ==
    /\ library \in [Skills!Row -> SkillRow \cup {Skills!NoRow}]
    /\ \A r \in Skills!Row : library[r].key = "book" => library[r].slug = "book"
    /\ \A r, q \in Skills!Row : r # q /\ library[r].active /\ library[q].active => library[r].slug # library[q].slug
    /\ saves \in Skills!Content /\ late \in Nat

(* A row is at the last version of its history.                            *)
HistoryHolds ==
    /\ past \in [Skills!Row -> Seq(Skills!Content)]
    /\ \A r \in Skills!Row : Skills!IsRow(r) =>
          Len(past[r]) = library[r].version /\ past[r][library[r].version] = library[r].content

(* What an editor opened is a version of the row, whatever the row is now. *)
Opened(s) ==
    \/ s.row = "none"
    \/ s.row \in Skills!Row /\ Skills!IsRow(s.row) /\ s.version \in 1 .. Len(past[s.row])
       /\ past[s.row][s.version] = s.content

Base == [ref : Skills!Ref, row : Skills!Row \cup {"none"}, slug : Skills!Slug, version : Nat, content : Skills!Content]

SkillRequest ==
    [op : {"none", "edit", "save", "create", "archive", "unarchive", "switch"},
     ref : Skills!Ref \cup {"none", "offer"}, row : Skills!Row \cup {"none"}, expected : Nat,
     content : Skills!Content, base : Base,
     owner : Skills!Rep \cup {"everyone", "none"}, on : BOOLEAN, room : Int]

(* A request knows what it read: a save the version it was opened at, what *)
(* adds a skill that there was room for it.                                *)
KnowsWhatItRead(q) ==
    /\ q.op \in {"edit", "save"} => Opened(q.base)
    /\ q.op = "save" => q.row = "none" \/ (q.row \in Skills!Row /\ Skills!IsRow(q.row) /\ q.expected = q.base.version)
    /\ q.op = "create" => q.owner # "none" /\ q.room > 0 /\ q.ref \in {"book", "offer"}
    /\ q.op = "archive" => q.row \in Skills!Row
    /\ q.op = "unarchive" =>
          /\ q.row \in Skills!Row /\ Skills!IsRow(q.row) /\ q.owner = library[q.row].owner
          /\ library[q.row].key = "none" => q.room > 0
    /\ q.op = "switch" =>
          /\ q.ref \in Skills!Ref /\ q.owner \in {"cal", "everyone"}
          /\ q.owner = "cal" /\ q.on => q.room > 0

RequestsHold ==
    /\ req \in [Skills!Rep -> SkillRequest]
    /\ \A u \in Skills!Rep : KnowsWhatItRead(req[u])

(* While the agent loads a skill, all it has seen was there at some moment *)
(* of the load, and what is on now is among what was on at some moment.    *)
AgentHolds ==
    /\ agent = [pc |-> agent.pc, slug |-> agent.slug, saw |-> agent.saw, listed |-> agent.listed]
    /\ agent.pc \in {"idle", "loading"}
    /\ \A s \in agent.saw : s.ref \in Skills!Ref
    /\ agent.pc = "loading" =>
          agent.saw \subseteq since.there /\ {ref \in Skills!Ref : Skills!IsOn(ref)} \subseteq since.on

SwitchesHold == switches \in [{"cal", "everyone"} -> [Skills!Ref -> BOOLEAN]]

SkillInv == LibraryHolds /\ HistoryHolds /\ RequestsHold /\ AgentHolds /\ Skills!LimitHolds

-----------------------------------------------------------------------------
(* Skills: how the library changes *)

LEMMA SameCount == ASSUME NEW S PROVE Skills!Cardinality(S) = Cardinality(S)
  BY DEF Skills!Cardinality, Cardinality, Skills!IsFiniteSet, IsFiniteSet

LEMMA CountOfOneMore ==
    ASSUME NEW S, IsFiniteSet(S), NEW r
    PROVE  IsFiniteSet(S \cup {r}) /\ Cardinality(S \cup {r}) <= Cardinality(S) + 1
<1>1. Cardinality(S) \in Nat
  BY FS_CardinalityType
<1>2. Cardinality(S \cup {r}) = IF r \in S THEN Cardinality(S) ELSE Cardinality(S) + 1
  BY FS_AddElement
<1>3. IsFiniteSet(S \cup {r})
  BY FS_AddElement
<1> QED
  BY <1>1, <1>2, <1>3

LEMMA SkillWords ==
    /\ Skills!Row = {"row1", "row2"} /\ Skills!Ref = {"row1", "row2", "book"}
    /\ Skills!Rep = {"ann", "bob", "cal"} /\ Skills!Admin = {"ann", "bob"} /\ Skills!Agent = "cal"
    /\ Skills!Book = "book" /\ Skills!None = "none"
    /\ Skills!Content = 0 .. MaxSaves /\ MaxSaves \in Nat \ {0} /\ MaxOwn \in Nat \ {0}
    /\ Skills!Slug = {"book", "book-2", "book-3", "offer", "offer-2", "offer-3"}
    /\ Skills!NoRow = [key |-> "none", owner |-> "none", slug |-> "none", version |-> 0, content |-> 0, active |-> FALSE]
    /\ Skills!Shipped = [ref |-> "book", row |-> "none", slug |-> "book", version |-> 1, content |-> 0]
    /\ Skills!NoReq = [op |-> "none", ref |-> "none", row |-> "none", expected |-> 0, content |-> 0,
                       base |-> Skills!Shipped, owner |-> "none", on |-> FALSE, room |-> 0]
  BY RecordBounds DEF Skills!Row, Skills!Ref, Skills!Rep, Skills!Admin, Skills!Agent, Skills!Book, Skills!None,
     Skills!Content, Skills!Slug, Skills!NoRow, Skills!Shipped, Skills!NoReq

(* What a rep is shown of a skill.                                         *)
LEMMA ShownSkills ==
    ASSUME LibraryHolds, HistoryHolds, NEW u \in Skills!Rep, NEW s \in Skills!Skills(u)
    PROVE  /\ s \in [ref : Skills!Ref, row : Skills!Row \cup {"none"}, slug : Skills!Slug, version : Nat,
                     content : Skills!Content]
           /\ Opened(s)
           /\ s.row # "none" => s.row \in Skills!Row /\ Skills!IsRow(s.row) /\ s.version = library[s.row].version
<1> USE SkillWords
<1>1. CASE s = Skills!Shipped
  BY <1>1 DEF Opened
<1>2. ASSUME NEW r \in Skills!Row, library[r].active, s = Skills!FromRow(r)
      PROVE  /\ s \in [ref : Skills!Ref, row : Skills!Row \cup {"none"}, slug : Skills!Slug, version : Nat,
                       content : Skills!Content]
             /\ Opened(s)
             /\ s.row # "none" => s.row \in Skills!Row /\ Skills!IsRow(s.row) /\ s.version = library[s.row].version
  <2>1. library[r] \in SkillRow /\ Skills!IsRow(r)
    BY <1>2 DEF LibraryHolds, Skills!IsRow
  <2>2. s = [ref |-> IF library[r].key = "book" THEN "book" ELSE r, row |-> r, slug |-> library[r].slug,
             version |-> library[r].version, content |-> library[r].content]
    BY <1>2 DEF Skills!FromRow
  <2>3. library[r].version \in Nat \ {0} /\ library[r].slug \in Skills!Slug /\ library[r].content \in Skills!Content
    BY <2>1 DEF SkillRow
  <2>4. Opened(s)
    BY <2>1, <2>2, <2>3 DEF Opened, HistoryHolds
  <2>5. s \in [ref : Skills!Ref, row : Skills!Row \cup {"none"}, slug : Skills!Slug, version : Nat,
               content : Skills!Content]
    BY <2>2, <2>3
  <2> QED
    BY <2>1, <2>2, <2>4, <2>5
<1> QED
  BY <1>1, <1>2 DEF Skills!Skills, Skills!Customizations, Skills!Own

(* The skills of an owner are at most the rows.                            *)
LEMMA FewSkills ==
    ASSUME NEW o
    PROVE  /\ IsFiniteSet(Skills!Own(o)) /\ Cardinality(Skills!Own(o)) \in Nat
           /\ IsFiniteSet(Skills!Own(o)') /\ Cardinality(Skills!Own(o)') \in Nat
<1>1. IsFiniteSet({"row1", "row2"})
  <2>1. IsFiniteSet({"row1"}) /\ {"row1"} \cup {"row2"} = {"row1", "row2"}
    BY FS_Singleton
  <2> QED
    BY <2>1, FS_AddElement
<1>2. Skills!Own(o) \subseteq {"row1", "row2"} /\ Skills!Own(o)' \subseteq {"row1", "row2"}
  BY DEF Skills!Own, Skills!Row
<1> QED
  BY <1>1, <1>2, FS_Subset, FS_CardinalityType

(* A rep's agent has at most the built-in and the rows, one for each ref.  *)
LEMMA FewEnabled ==
    /\ IsFiniteSet(Skills!Enabled) /\ Cardinality(Skills!Enabled) \in Nat
    /\ IsFiniteSet(Skills!Enabled') /\ Cardinality(Skills!Enabled') \in Nat
<1>1. ASSUME NEW a, NEW b, NEW c, NEW S, S \subseteq {a, b, c} PROVE IsFiniteSet(S)
  <2>1. IsFiniteSet({}) /\ (({} \cup {a}) \cup {b}) \cup {c} = {a, b, c}
    BY FS_EmptySet
  <2>2. IsFiniteSet({} \cup {a})
    BY <2>1, FS_AddElement
  <2>3. IsFiniteSet(({} \cup {a}) \cup {b})
    BY <2>2, FS_AddElement
  <2>4. IsFiniteSet({a, b, c})
    BY <2>1, <2>3, FS_AddElement
  <2> QED
    BY <1>1, <2>4, FS_Subset
<1>2. Skills!Enabled \subseteq {Skills!Shipped, Skills!FromRow("row1"), Skills!FromRow("row2")}
  BY DEF Skills!Enabled, Skills!Skills, Skills!Customizations, Skills!Own, Skills!Row
<1>3. Skills!Enabled' \subseteq {Skills!Shipped, Skills!FromRow("row1")', Skills!FromRow("row2")'}
  BY DEF Skills!Enabled, Skills!Skills, Skills!Customizations, Skills!Own, Skills!Row, Skills!Shipped, Skills!Book, Skills!None
<1>4. IsFiniteSet(Skills!Enabled) /\ IsFiniteSet(Skills!Enabled')
  <2>1. IsFiniteSet(Skills!Enabled)
    BY <1>1, <1>2
  <2>2. IsFiniteSet(Skills!Enabled')
    BY <1>1, <1>3
  <2> QED
    BY <2>1, <2>2
<1> QED
  BY <1>4, FS_CardinalityType

LEMMA OneForEachRef ==
    ASSUME LibraryHolds, NEW u \in Skills!Rep, NEW s \in Skills!Skills(u), NEW q \in Skills!Skills(u), s.ref = q.ref
    PROVE  s = q
<1> USE SkillWords
<1>1. ASSUME NEW r \in Skills!Row, library[r].active
      PROVE  Skills!FromRow(r).ref = IF library[r].key = "book" THEN "book" ELSE r
  BY DEF Skills!FromRow
<1>2. ASSUME NEW x \in Skills!Skills(u)
      PROVE  \/ x = Skills!Shipped /\ x.ref = "book" /\ Skills!Customizations = {}
             \/ \E r \in Skills!Row : x = Skills!FromRow(r) /\ library[r].active /\ library[r].key = "book" /\ x.ref = "book"
             \/ \E r \in Skills!Row : x = Skills!FromRow(r) /\ library[r].active /\ library[r].key = "none" /\ x.ref = r
  BY <1>1 DEF Skills!Skills, Skills!Customizations, Skills!Own
<1>3. \A r \in Skills!Row : library[r].active /\ library[r].key = "book" => r \in Skills!Customizations
  BY DEF Skills!Customizations
<1>4. \A r, p \in Skills!Row : library[r].active /\ library[p].active /\ library[r].key = "book" /\ library[p].key = "book" => r = p
  BY DEF LibraryHolds
<1>5. "book" \notin Skills!Row
  OBVIOUS
<1> QED
  <2>1. /\ \/ s = Skills!Shipped /\ s.ref = "book" /\ Skills!Customizations = {}
           \/ \E r \in Skills!Row : s = Skills!FromRow(r) /\ library[r].active /\ library[r].key = "book" /\ s.ref = "book"
           \/ \E r \in Skills!Row : s = Skills!FromRow(r) /\ library[r].active /\ library[r].key = "none" /\ s.ref = r
        /\ \/ q = Skills!Shipped /\ q.ref = "book" /\ Skills!Customizations = {}
           \/ \E r \in Skills!Row : q = Skills!FromRow(r) /\ library[r].active /\ library[r].key = "book" /\ q.ref = "book"
           \/ \E r \in Skills!Row : q = Skills!FromRow(r) /\ library[r].active /\ library[r].key = "none" /\ q.ref = r
    BY <1>2
  <2> QED
    BY <1>3, <1>4, <1>5, <2>1

(* One row that becomes active adds one to the skills of its owner.        *)
LEMMA OneMore ==
    ASSUME Skills!LimitHolds, late \in Nat, late' \in Nat, late <= late', NEW w \in Skills!Rep \cup {"everyone"}, NEW r,
           \A o \in Skills!Rep \cup {"everyone"} : Skills!Own(o)' \subseteq Skills!Own(o) \cup (IF o = w THEN {r} ELSE {}),
           Cardinality(Skills!Own(w)) < MaxOwn \/ late' = late + 1
    PROVE  Skills!LimitHolds'
<1> SUFFICES ASSUME NEW o \in Skills!Rep \cup {"everyone"}
             PROVE  Cardinality(Skills!Own(o)') <= MaxOwn + late'
  BY SameCount DEF Skills!LimitHolds
<1>1. Cardinality(Skills!Own(o)) <= MaxOwn + late
  BY SameCount DEF Skills!LimitHolds
<1>2. IsFiniteSet(Skills!Own(o)) /\ Cardinality(Skills!Own(o)) \in Nat /\ Cardinality(Skills!Own(o)') \in Nat
  BY FewSkills
<1>3. CASE o # w
  BY <1>1, <1>2, <1>3, FS_Subset, SkillWords
<1>4. CASE o = w
  <2>1. IsFiniteSet(Skills!Own(o) \cup {r}) /\ Cardinality(Skills!Own(o) \cup {r}) <= Cardinality(Skills!Own(o)) + 1
    BY <1>2, CountOfOneMore
  <2>2. Cardinality(Skills!Own(o)') <= Cardinality(Skills!Own(o) \cup {r})
    BY <1>4, <2>1, FS_Subset
  <2>3. Cardinality(Skills!Own(o) \cup {r}) \in Nat
    BY <2>1, FS_CardinalityType
  <2> QED
    BY <1>1, <1>2, <1>4, <2>1, <2>2, <2>3, SkillWords
<1> QED
  BY <1>3, <1>4

LEMMA NoMore ==
    ASSUME Skills!LimitHolds, late \in Nat, late' \in Nat, late <= late',
           \A o \in Skills!Rep \cup {"everyone"} : Skills!Own(o)' \subseteq Skills!Own(o)
    PROVE  Skills!LimitHolds'
<1> SUFFICES ASSUME NEW o \in Skills!Rep \cup {"everyone"}
             PROVE  Cardinality(Skills!Own(o)') <= MaxOwn + late'
  BY SameCount DEF Skills!LimitHolds
<1>1. Cardinality(Skills!Own(o)) <= MaxOwn + late
  BY SameCount DEF Skills!LimitHolds
<1>2. IsFiniteSet(Skills!Own(o)) /\ Cardinality(Skills!Own(o)) \in Nat /\ Cardinality(Skills!Own(o)') \in Nat
  BY FewSkills
<1> QED
  BY <1>1, <1>2, FS_Subset, SkillWords

(* While a row is not active there is a free name for it.                  *)
LEMMA FreeNames ==
    ASSUME LibraryHolds, NEW r \in Skills!Row, ~library[r].active, NEW b \in {"book", "offer"}
    PROVE  Skills!FreeSlug(b) \in Skills!Slug \ Skills!Taken
<1> USE SkillWords
<1>1. PICK t : Skills!Taken \subseteq {t}
  <2>1. CASE r = "row1"
    BY <2>1 DEF Skills!Taken
  <2>2. CASE r = "row2"
    BY <2>2 DEF Skills!Taken
  <2> QED
    BY <2>1, <2>2
<1> DEFINE names == Skills!Numbered(b)
           Fits(n) == names[n] \notin Skills!Taken /\ \A m \in 1 .. n - 1 : names[m] \in Skills!Taken
<1>2. \A n \in 1 .. 3 : names[n] \in Skills!Slug
  BY DEF Skills!Numbered
<1>3. names[1] # names[2]
  BY DEF Skills!Numbered
<1>4. \E n \in 1 .. 3 : Fits(n)
  <2>1. CASE names[1] \notin Skills!Taken
    BY <2>1
  <2>2. CASE names[1] \in Skills!Taken
    BY <1>1, <1>3, <2>2
  <2> QED
    BY <2>1, <2>2
<1>5. (CHOOSE n \in 1 .. 3 : Fits(n)) \in 1 .. 3 /\ Fits(CHOOSE n \in 1 .. 3 : Fits(n))
  BY <1>4
<1> QED
  BY <1>2, <1>5 DEF Skills!FreeSlug

-----------------------------------------------------------------------------
(* Skills: what a step leaves alone *)

(* Rows are kept, with their key, their owner and their history.           *)
RowsGrow ==
    \A r \in Skills!Row : Skills!IsRow(r) =>
        /\ library'[r] # Skills!NoRow /\ library'[r].owner = library[r].owner /\ library'[r].key = library[r].key
        /\ \A v \in 1 .. Len(past[r]) : v \in 1 .. Len(past'[r]) /\ past'[r][v] = past[r][v]

(* Then a request knows what it knew, whatever the one that wrote.         *)
LEMMA RequestsStay ==
    ASSUME RequestsHold, RowsGrow, NEW u \in Skills!Rep, NEW q \in SkillRequest, KnowsWhatItRead(q)',
           req' = [req EXCEPT ![u] = q]
    PROVE  RequestsHold'
<1>1. req' \in [Skills!Rep -> SkillRequest]
  BY DEF RequestsHold
<1>2. ASSUME NEW x \in Skills!Rep PROVE KnowsWhatItRead(req[x])'
  <2>1. CASE x = u
    BY <2>1 DEF RequestsHold, KnowsWhatItRead, Opened, Skills!IsRow
  <2>2. CASE x # u
    <3>1. req'[x] = req[x] /\ KnowsWhatItRead(req[x])
      BY <2>2 DEF RequestsHold
    <3>2. Opened(req[x].base) => Opened(req[x].base)'
      BY <3>1 DEF Opened, RowsGrow, Skills!IsRow
    <3> QED
      BY <3>1, <3>2 DEF KnowsWhatItRead, RowsGrow, Skills!IsRow
  <2> QED
    BY <2>1, <2>2
<1> QED
  BY <1>1, <1>2 DEF RequestsHold, Skills!Rep, Skills!Admin

(* The agent's load goes on, whatever happens to its list.                 *)
LEMMA AgentStays ==
    ASSUME AgentHolds, Skills!Remembers, NEW shown, agent' = [agent EXCEPT !.listed = shown]
    PROVE  AgentHolds'
<1>1. /\ agent' = [pc |-> agent.pc, slug |-> agent.slug, saw |-> agent.saw, listed |-> shown]
      /\ agent'.pc = agent.pc /\ agent'.saw = agent.saw
  BY DEF AgentHolds
<1>2. agent.pc = "loading" =>
          /\ since.there \subseteq since'.there
          /\ {ref \in Skills!Ref : Skills!IsOn(ref)}' \subseteq since'.on
  BY <1>1 DEF Skills!Remembers
<1> QED
  BY <1>1, <1>2 DEF AgentHolds

(* A step that writes nothing in the library.                              *)
LEMMA LibraryStays ==
    ASSUME SkillInv, UNCHANGED <<library, past, late>>, saves' \in Skills!Content
    PROVE  LibraryHolds' /\ HistoryHolds' /\ Skills!LimitHolds' /\ RowsGrow
<1>1. LibraryHolds' /\ HistoryHolds'
  BY DEF SkillInv, LibraryHolds, HistoryHolds, Skills!IsRow
<1>2. Skills!LimitHolds'
  BY DEF SkillInv, Skills!LimitHolds, Skills!Own
<1>3. RowsGrow
  BY DEF RowsGrow, Skills!IsRow
<1> QED
  BY <1>1, <1>2, <1>3

LEMMA AgentForgets == ASSUME AgentHolds, Skills!Forgets PROVE \E shown : agent' = [agent EXCEPT !.listed = shown]
  BY DEF AgentHolds, Skills!Forgets

LEMMA NothingAsked ==
    /\ Skills!NoReq \in SkillRequest
    /\ KnowsWhatItRead(Skills!NoReq) /\ KnowsWhatItRead(Skills!NoReq)'
<1>1. Skills!NoReq \in SkillRequest
  BY SkillWords DEF SkillRequest, Base
<1>2. KnowsWhatItRead(Skills!NoReq) /\ KnowsWhatItRead(Skills!NoReq)'
  BY SkillWords DEF KnowsWhatItRead
<1> QED
  BY <1>1, <1>2

-----------------------------------------------------------------------------
(* Skills: requests are asked *)

(* A request is as the code that asks it says, the library as it was.      *)
LEMMA RequestAsked ==
    ASSUME SkillInv, Skills!Remembers, UNCHANGED <<library, past, late, agent>>, saves' \in Skills!Content,
           NEW u \in Skills!Rep, NEW q \in SkillRequest, KnowsWhatItRead(q), req' = [req EXCEPT ![u] = q]
    PROVE  SkillInv'
<1>1. LibraryHolds' /\ HistoryHolds' /\ Skills!LimitHolds' /\ RowsGrow
  BY LibraryStays
<1>2. KnowsWhatItRead(q)'
  BY DEF KnowsWhatItRead, Opened, Skills!IsRow
<1>3. RequestsHold'
  BY <1>1, <1>2, RequestsStay DEF SkillInv
<1>4. AgentHolds'
  <2>1. agent' = [agent EXCEPT !.listed = agent.listed]
    BY DEF SkillInv, AgentHolds
  <2> QED
    BY <2>1, AgentStays DEF SkillInv
<1> QED
  BY <1>1, <1>3, <1>4 DEF SkillInv

LEMMA AsksIsOne ==
    ASSUME SkillInv, Skills!Remembers, saves' \in Skills!Content, NEW u \in Skills!Rep,
           NEW q \in SkillRequest, KnowsWhatItRead(q), Skills!Asks(u, q)
    PROVE  SkillInv'
  BY RequestAsked DEF Skills!Asks

LEMMA ReadsKeep ==
    ASSUME SkillInv, Skills!Remembers, NEW u \in Skills!Rep, Skills!Reads(u)
    PROVE  SkillInv'
<1>0. /\ saves \in Skills!Content /\ LibraryHolds /\ HistoryHolds
      /\ req[u] \in SkillRequest /\ KnowsWhatItRead(req[u])
      /\ Skills!NoReq \in SkillRequest
  BY NothingAsked, SkillWords DEF SkillInv, LibraryHolds, RequestsHold
<1>1. CASE Skills!OpensSkill(u)
  <2>1. PICK s \in Skills!Skills(u) : Skills!Asks(u, [Skills!NoReq EXCEPT !.op = "edit", !.ref = s.ref, !.base = s])
    BY <1>1, SkillWords DEF Skills!OpensSkill
  <2>2. PICK q : q = [Skills!NoReq EXCEPT !.op = "edit", !.ref = s.ref, !.base = s]
    OBVIOUS
  <2>3. s \in Base /\ Opened(s) /\ s.ref \in Skills!Ref
    BY <1>0, ShownSkills DEF Base
  <2>4. q \in SkillRequest
    BY <1>0, <2>2, <2>3 DEF SkillRequest, Base
  <2>6. KnowsWhatItRead(q)
    BY <2>2, <2>3 DEF KnowsWhatItRead
  <2>5. saves' \in Skills!Content
    BY <1>0, <1>1, SkillWords DEF Skills!OpensSkill
  <2>8. Skills!Asks(u, q)
    BY <2>1, <2>2
  <2> QED
    BY <2>4, <2>5, <2>6, <2>8, AsksIsOne
<1>2. CASE Skills!AsksSave(u)
  <2>0. PICK s \in Skills!Entry(u, req[u].ref) : \E c :
           /\ req[u].op = "edit"
           /\ s.version = req[u].base.version
           /\ req' = [req EXCEPT ![u].op = "save", ![u].row = s.row, ![u].expected = s.version, ![u].content = c]
           /\ \/ saves < MaxSaves /\ saves' = saves + 1 /\ c = saves + 1
              \/ s.row # "none" /\ saves' = saves /\ \E v \in DOMAIN past[s.row] : c = past[s.row][v]
           /\ UNCHANGED <<library, past, late, agent>>
    BY <1>2, SkillWords DEF Skills!AsksSave
  <2>1. PICK c :
           /\ req[u].op = "edit"
           /\ s.version = req[u].base.version
           /\ req' = [req EXCEPT ![u].op = "save", ![u].row = s.row, ![u].expected = s.version, ![u].content = c]
           /\ \/ saves < MaxSaves /\ saves' = saves + 1 /\ c = saves + 1
              \/ s.row # "none" /\ saves' = saves /\ \E v \in DOMAIN past[s.row] : c = past[s.row][v]
           /\ UNCHANGED <<library, past, late, agent>>
    BY <2>0
  <2>2. PICK q : q = [req[u] EXCEPT !.op = "save", !.row = s.row, !.expected = s.version, !.content = c]
    OBVIOUS
  <2>3. /\ s \in [ref : Skills!Ref, row : Skills!Row \cup {"none"}, slug : Skills!Slug, version : Nat,
                  content : Skills!Content]
        /\ s.row # "none" => s.row \in Skills!Row /\ Skills!IsRow(s.row)
    BY <1>0, ShownSkills, SkillWords DEF Skills!Entry
  <2>4. c \in Skills!Content /\ saves' \in Skills!Content
    BY <1>0, <2>1, <2>3, SkillWords DEF HistoryHolds
  <2>7. s.row \in Skills!Row \cup {"none"} /\ s.version \in Nat
    BY <2>3
  <2>5. q \in SkillRequest
    BY <1>0, <2>2, <2>4, <2>7 DEF SkillRequest
  <2>8. KnowsWhatItRead(q)
    BY <1>0, <2>1, <2>2, <2>3 DEF KnowsWhatItRead, SkillRequest
  <2>6. req' = [req EXCEPT ![u] = q]
    BY <2>1, <2>2, SkillWords DEF SkillInv, RequestsHold
  <2> QED
    BY <2>1, <2>4, <2>5, <2>6, <2>8, RequestAsked
<1>3. CASE Skills!AsksCreate(u)
  <2>1. PICK o \in {"everyone", u}, b \in {"book", "offer"} :
           /\ saves < MaxSaves /\ saves' = saves + 1
           /\ Skills!Cardinality(Skills!Own(o)) < MaxOwn
           /\ Skills!Asks(u, [Skills!NoReq EXCEPT !.op = "create", !.owner = o, !.ref = b, !.content = saves + 1,
                                                  !.room = Skills!Room(o)])
    BY <1>3, SkillWords DEF Skills!AsksCreate
  <2>2. PICK q : q = [Skills!NoReq EXCEPT !.op = "create", !.owner = o, !.ref = b, !.content = saves + 1, !.room = Skills!Room(o)]
    OBVIOUS
  <2>3. Skills!Room(o) \in Int /\ Skills!Room(o) > 0
    BY <2>1, FewSkills, SameCount, SkillWords DEF Skills!Room
  <2>4. saves + 1 \in Skills!Content
    BY <1>0, <2>1, SkillWords
  <2>5. q \in SkillRequest
    <3>1. o \in Skills!Rep \cup {"everyone", "none"} /\ b \in Skills!Ref \cup {"none", "offer"}
      BY DEF Skills!Ref, Skills!Book
    <3> QED
      BY <1>0, <2>2, <2>3, <2>4, <3>1 DEF SkillRequest, Base
  <2>6. KnowsWhatItRead(q)
    BY <2>2, <2>3, SkillWords DEF KnowsWhatItRead
  <2>8. Skills!Asks(u, q)
    BY <2>1, <2>2
  <2>9. saves' \in Skills!Content
    BY <2>1, <2>4
  <2> QED
    BY <2>5, <2>6, <2>8, <2>9, AsksIsOne
<1>4. CASE Skills!AsksArchive(u)
  <2>0. PICK ref \in Skills!Ref : \E s \in Skills!Entry(u, ref) :
           s.row # "none" /\ Skills!Asks(u, [Skills!NoReq EXCEPT !.op = "archive", !.ref = ref, !.row = s.row])
    BY <1>4, SkillWords DEF Skills!AsksArchive
  <2>1. PICK s \in Skills!Entry(u, ref) :
           s.row # "none" /\ Skills!Asks(u, [Skills!NoReq EXCEPT !.op = "archive", !.ref = ref, !.row = s.row])
    BY <2>0
  <2>2. PICK q : q = [Skills!NoReq EXCEPT !.op = "archive", !.ref = ref, !.row = s.row]
    OBVIOUS
  <2>3. s.row \in Skills!Row
    BY <1>0, <2>1, ShownSkills, SkillWords DEF Skills!Entry
  <2>4. q \in SkillRequest
    BY <1>0, <2>2, <2>3 DEF SkillRequest, Base
  <2>6. KnowsWhatItRead(q)
    BY <2>2, <2>3 DEF KnowsWhatItRead
  <2>5. saves' \in Skills!Content
    BY <1>0, <1>4, SkillWords DEF Skills!AsksArchive
  <2>8. Skills!Asks(u, q)
    BY <2>1, <2>2
  <2> QED
    BY <2>4, <2>5, <2>6, <2>8, AsksIsOne
<1>5. CASE Skills!AsksUnarchive(u)
  <2>1. PICK r \in Skills!Row :
           /\ Skills!IsRow(r) /\ Skills!HasRoom(r)
           /\ Skills!Asks(u, [Skills!NoReq EXCEPT !.op = "unarchive", !.ref = r, !.row = r,
                                                  !.owner = library[r].owner, !.room = Skills!Room(library[r].owner)])
    BY <1>5, SkillWords DEF Skills!AsksUnarchive
  <2>2. PICK q : q = [Skills!NoReq EXCEPT !.op = "unarchive", !.ref = r, !.row = r, !.owner = library[r].owner, !.room = Skills!Room(library[r].owner)]
    OBVIOUS
  <2>3. library[r] \in SkillRow
    BY <1>0, <2>1, SkillWords DEF LibraryHolds, Skills!IsRow
  <2>4. /\ Skills!Room(library[r].owner) \in Int
        /\ library[r].key = "none" => Skills!Room(library[r].owner) > 0
    BY <2>1, FewSkills, SameCount, SkillWords DEF Skills!Room, Skills!HasRoom
  <2>9. library[r].owner \in Skills!Rep \cup {"everyone"} /\ r \in Skills!Ref
    BY <2>3 DEF SkillRow, Skills!Ref
  <2>5. q \in SkillRequest
    BY <1>0, <2>2, <2>4, <2>9 DEF SkillRequest, Base
  <2>6. KnowsWhatItRead(q)
    BY <2>1, <2>2, <2>4, SkillWords DEF KnowsWhatItRead
  <2>7. saves' \in Skills!Content
    BY <1>0, <1>5, SkillWords DEF Skills!AsksUnarchive
  <2>8. Skills!Asks(u, q)
    BY <2>1, <2>2
  <2> QED
    BY <2>5, <2>6, <2>7, <2>8, AsksIsOne
<1>6. CASE Skills!AsksSwitchAll(u)
  <2>1. PICK ref \in Skills!Ref, on \in BOOLEAN :
           Skills!Asks(u, [Skills!NoReq EXCEPT !.op = "switch", !.ref = ref, !.owner = "everyone", !.on = on])
    BY <1>6, Zenon DEF Skills!AsksSwitchAll
  <2>2. PICK q : q = [Skills!NoReq EXCEPT !.op = "switch", !.ref = ref, !.owner = "everyone", !.on = on]
    OBVIOUS
  <2>5. {"everyone", "cal"} \subseteq Skills!Rep \cup {"everyone", "none"}
    BY DEF Skills!Rep
  <2>3. q \in SkillRequest
    BY <1>0, <2>2, <2>5 DEF SkillRequest, Base
  <2>6. KnowsWhatItRead(q)
    BY <2>2, SkillWords DEF KnowsWhatItRead
  <2>4. saves' \in Skills!Content
    BY <1>0, <1>6, SkillWords DEF Skills!AsksSwitchAll
  <2>8. Skills!Asks(u, q)
    BY <2>1, <2>2
  <2> QED
    BY <2>3, <2>4, <2>6, <2>8, AsksIsOne
<1>7. CASE u = Skills!Agent /\ Skills!AsksSwitch
  <2>0. PICK n : n = MaxEnabled - Skills!Cardinality(Skills!Enabled)
    OBVIOUS
  <2>1. PICK ref \in Skills!Ref, on \in BOOLEAN :
           /\ on => Skills!Fits
           /\ Skills!Asks(u, [Skills!NoReq EXCEPT !.op = "switch", !.ref = ref, !.owner = "cal", !.on = on, !.room = n])
    BY <1>7, <2>0 DEF Skills!AsksSwitch, Skills!Agent
  <2>2. PICK q : q = [Skills!NoReq EXCEPT !.op = "switch", !.ref = ref, !.owner = "cal", !.on = on, !.room = n]
    OBVIOUS
  <2>9. n \in Int /\ (on => n > 0)
    BY <2>0, <2>1, FewEnabled, SameCount, RecordBounds DEF Skills!Fits
  <2>5. {"everyone", "cal"} \subseteq Skills!Rep \cup {"everyone", "none"}
    BY DEF Skills!Rep
  <2>3. q \in SkillRequest
    BY <1>0, <2>2, <2>5, <2>9 DEF SkillRequest, Base
  <2>6. KnowsWhatItRead(q)
    BY <2>2, <2>9, SkillWords DEF KnowsWhatItRead
  <2>4. saves' \in Skills!Content
    BY <1>0, <1>7, SkillWords DEF Skills!AsksSwitch
  <2>8. Skills!Asks(u, q)
    BY <2>1, <2>2
  <2> QED
    BY <2>3, <2>4, <2>6, <2>8, AsksIsOne
<1> QED
  BY <1>1, <1>2, <1>3, <1>4, <1>5, <1>6, <1>7, SkillWords DEF Skills!Reads

-----------------------------------------------------------------------------
(* Skills: requests write *)

(* A request that is answered is none any more.                            *)
LEMMA RequestAnswered ==
    ASSUME RequestsHold, RowsGrow, NEW u \in Skills!Rep, Skills!Answers(u)
    PROVE  RequestsHold'
<1>1. req' = [req EXCEPT ![u] = Skills!NoReq]
  BY DEF Skills!Answers
<1> QED
  BY <1>1, NothingAsked, RequestsStay

(* The skills of an owner after row r was written, with x.                 *)
LEMMA OwnAfter ==
    ASSUME LibraryHolds, NEW r \in Skills!Row, NEW x \in SkillRow, library' = [library EXCEPT ![r] = x],
           NEW o
    PROVE  /\ Skills!Own(o)' \subseteq Skills!Own(o) \cup {r}
           /\ r \in Skills!Own(o)' <=> x.active /\ x.key = "none" /\ x.owner = o
<1>1. \A q \in Skills!Row : library'[q] = IF q = r THEN x ELSE library[q]
  BY DEF LibraryHolds
<1> QED
  BY <1>1 DEF Skills!Own, Skills!None, Skills!Row

(* A step that writes row r: what was in its history still is, its name is *)
(* free if it is active, and there is room for it if it becomes so.        *)
LEMMA RowWritten ==
    ASSUME SkillInv, Skills!Remembers, NEW u \in Skills!Rep, NEW r \in Skills!Row, NEW x \in SkillRow,
           library' = [library EXCEPT ![r] = x],
           NEW h \in Seq(Skills!Content), past' = [past EXCEPT ![r] = h],
           Len(h) = x.version, h[x.version] = x.content,
           Skills!IsRow(r) => /\ x.owner = library[r].owner /\ x.key = library[r].key
                              /\ \A v \in 1 .. Len(past[r]) : v \in 1 .. Len(h) /\ h[v] = past[r][v],
           x.active => \A q \in Skills!Row : q # r /\ library[q].active => library[q].slug # x.slug,
           x.key = "book" => x.slug = "book",
           late' \in Nat, late <= late',
           x.active /\ x.key = "none" =>
              library[r].active \/ Cardinality(Skills!Own(x.owner)) < MaxOwn \/ late' = late + 1,
           Skills!Answers(u), Skills!Forgets
    PROVE  SkillInv'
<1>0. LibraryHolds /\ HistoryHolds /\ RequestsHold /\ AgentHolds /\ Skills!LimitHolds /\ late \in Nat
  BY DEF SkillInv, LibraryHolds
<1>1. \A q \in Skills!Row : library'[q] = (IF q = r THEN x ELSE library[q]) /\ past'[q] = (IF q = r THEN h ELSE past[q])
  BY <1>0 DEF LibraryHolds, HistoryHolds
<1>2. x # Skills!NoRow
  BY SkillWords DEF SkillRow
<1>3. LibraryHolds'
  <2>1. library' \in [Skills!Row -> SkillRow \cup {Skills!NoRow}]
    BY <1>0 DEF LibraryHolds
  <2>2. \A p, q \in Skills!Row : p # q /\ library'[p].active /\ library'[q].active => library'[p].slug # library'[q].slug
    BY <1>0, <1>1 DEF LibraryHolds
  <2>3. saves' \in Skills!Content
    BY <1>0 DEF LibraryHolds, Skills!Answers
  <2>4. \A q \in Skills!Row : library'[q].key = "book" => library'[q].slug = "book"
    BY <1>0, <1>1 DEF LibraryHolds
  <2> QED
    BY <2>1, <2>2, <2>3, <2>4 DEF LibraryHolds, Skills!Row, Skills!NoRow, SkillRow, Skills!Content, Skills!Rep, Skills!Slug
<1>4. HistoryHolds'
  <2>1. past' \in [Skills!Row -> Seq(Skills!Content)]
    BY <1>0 DEF HistoryHolds
  <2>2. \A q \in Skills!Row : library'[q] # Skills!NoRow =>
           Len(past'[q]) = library'[q].version /\ past'[q][library'[q].version] = library'[q].content
    BY <1>0, <1>1 DEF HistoryHolds, Skills!IsRow
  <2> QED
    BY <2>1, <2>2 DEF HistoryHolds, Skills!IsRow
<1>5. RowsGrow
  <2> SUFFICES ASSUME NEW q \in Skills!Row, Skills!IsRow(q)
               PROVE  /\ library'[q] # Skills!NoRow /\ library'[q].owner = library[q].owner /\ library'[q].key = library[q].key
                      /\ \A v \in 1 .. Len(past[q]) : v \in 1 .. Len(past'[q]) /\ past'[q][v] = past[q][v]
    BY DEF RowsGrow
  <2>1. CASE q = r
    BY <1>1, <1>2, <2>1
  <2>2. CASE q # r
    BY <1>1, <2>2 DEF Skills!IsRow
  <2> QED
    BY <2>1, <2>2
<1>6. RequestsHold'
  BY <1>0, <1>5, RequestAnswered
<1>7. AgentHolds'
  <2>1. PICK shown : agent' = [agent EXCEPT !.listed = shown]
    BY <1>0, AgentForgets
  <2> QED
    BY <1>0, <2>1, AgentStays
<1>8. Skills!LimitHolds'
  <2>1. CASE x.active /\ x.key = "none" /\ ~library[r].active
    <3>1. Cardinality(Skills!Own(x.owner)) < MaxOwn \/ late' = late + 1
      BY <2>1
    <3>2. \A o \in Skills!Rep \cup {"everyone"} :
             Skills!Own(o)' \subseteq Skills!Own(o) \cup (IF o = x.owner THEN {r} ELSE {})
      <4> SUFFICES ASSUME NEW o \in Skills!Rep \cup {"everyone"}
                   PROVE  Skills!Own(o)' \subseteq Skills!Own(o) \cup (IF o = x.owner THEN {r} ELSE {})
        OBVIOUS
      <4>1. /\ Skills!Own(o)' \subseteq Skills!Own(o) \cup {r}
            /\ r \in Skills!Own(o)' <=> x.active /\ x.key = "none" /\ x.owner = o
        BY <1>0, OwnAfter
      <4> QED
        BY <4>1
    <3>3. x.owner \in Skills!Rep \cup {"everyone"}
      BY DEF SkillRow
    <3> QED
      BY <1>0, <3>1, <3>2, <3>3, OneMore
  <2>2. CASE ~(x.active /\ x.key = "none" /\ ~library[r].active)
    <3>1. ASSUME NEW o PROVE Skills!Own(o)' \subseteq Skills!Own(o)
      <4>1. /\ Skills!Own(o)' \subseteq Skills!Own(o) \cup {r}
            /\ r \in Skills!Own(o)' <=> x.active /\ x.key = "none" /\ x.owner = o
        BY <1>0, OwnAfter
      <4>2. x.active /\ x.key = "none" /\ x.owner = o => r \in Skills!Own(o)
        <5>1. library[r].active => Skills!IsRow(r)
          BY SkillWords DEF Skills!IsRow
        <5> QED
          BY <2>2, <5>1 DEF Skills!Own, Skills!None
      <4> QED
        BY <4>1, <4>2
    <3> QED
      BY <1>0, <3>1, NoMore
  <2> QED
    BY <2>1, <2>2
<1> QED
  BY <1>3, <1>4, <1>6, <1>7, <1>8 DEF SkillInv

(* A step that answers and leaves the rows alone.                          *)
LEMMA RowsLeft ==
    ASSUME SkillInv, Skills!Remembers, NEW u \in Skills!Rep, UNCHANGED <<library, past, late>>,
           Skills!Answers(u), Skills!Forgets
    PROVE  SkillInv'
<1>1. saves' \in Skills!Content
  BY DEF SkillInv, LibraryHolds, Skills!Answers
<1>2. LibraryHolds' /\ HistoryHolds' /\ Skills!LimitHolds' /\ RowsGrow
  BY <1>1, LibraryStays
<1>3. RequestsHold'
  BY <1>2, RequestAnswered DEF SkillInv
<1>4. AgentHolds'
  <2>1. PICK shown : agent' = [agent EXCEPT !.listed = shown]
    BY AgentForgets DEF SkillInv
  <2> QED
    BY <2>1, AgentStays DEF SkillInv
<1> QED
  BY <1>2, <1>3, <1>4 DEF SkillInv

LEMMA UnwrittenKeeps ==
    ASSUME SkillInv, Skills!Remembers, NEW u \in Skills!Rep, Skills!Unwritten(u)
    PROVE  SkillInv'
  BY RowsLeft DEF Skills!Unwritten, Skills!Forgets

(* A new row, in the place of none.                                        *)
LEMMA InsertKeeps ==
    ASSUME SkillInv, Skills!Remembers, NEW u \in Skills!Rep, NEW k \in {"none", "book"},
           NEW o \in Skills!Rep \cup {"everyone"}, NEW b, NEW c \in Skills!Content, k = "book" => b = "book",
           \A r \in Skills!Row : ~library[r].active => b \in Skills!Slug \ Skills!Taken,
           Skills!Inserts(k, o, b, c),
           late' \in Nat, late <= late',
           k = "none" => Cardinality(Skills!Own(o)) < MaxOwn \/ late' = late + 1,
           Skills!Answers(u), Skills!Forgets
    PROVE  SkillInv'
<1>1. PICK r \in Skills!Row :
         /\ ~Skills!IsRow(r)
         /\ library' = [library EXCEPT ![r] = [key |-> k, owner |-> o, slug |-> b, version |-> 1, content |-> c,
                                               active |-> TRUE]]
         /\ past' = [past EXCEPT ![r] = <<c>>]
  BY DEF Skills!Inserts
<1>2. ~library[r].active
  BY <1>1, SkillWords DEF Skills!IsRow
<1>3. b \in Skills!Slug /\ \A q \in Skills!Row : library[q].active => library[q].slug # b
  BY <1>2 DEF Skills!Taken
<1>4. PICK x : x = [key |-> k, owner |-> o, slug |-> b, version |-> 1, content |-> c, active |-> TRUE]
  OBVIOUS
<1>5. /\ x \in SkillRow /\ x.key = k /\ x.owner = o /\ x.slug = b /\ x.version = 1 /\ x.content = c
  BY <1>3, <1>4 DEF SkillRow
<1>6. <<c>> \in Seq(Skills!Content) /\ Len(<<c>>) = 1 /\ <<c>>[1] = c
  OBVIOUS
<1> QED
  BY <1>1, <1>3, <1>4, <1>5, <1>6, RowWritten

(* A count that was late when it was used is counted as such.              *)
LEMMA CountIsKnown ==
    ASSUME SkillInv, NEW u \in Skills!Rep, Skills!CountsLate(u), req[u].room \in Int, req[u].room > 0
    PROVE  /\ late' \in Nat /\ late <= late'
           /\ Cardinality(Skills!Own(req[u].owner)) < MaxOwn \/ late' = late + 1
<1>1. late \in Nat
  BY DEF SkillInv, LibraryHolds
<1>2. Cardinality(Skills!Own(req[u].owner)) \in Nat
  BY FewSkills
<1> QED
  BY <1>1, <1>2, SameCount, SkillWords DEF Skills!CountsLate, Skills!Room

LEMMA WritesKeep ==
    ASSUME SkillInv, Skills!Remembers, NEW u \in Skills!Rep, Skills!Writes(u)
    PROVE  SkillInv'
<1>0. /\ LibraryHolds /\ HistoryHolds /\ req[u] \in SkillRequest /\ KnowsWhatItRead(req[u]) /\ late \in Nat
      /\ req[u].content \in Skills!Content
  BY DEF SkillInv, LibraryHolds, RequestsHold, SkillRequest
<1>1. CASE Skills!Saves(u)
  <2>1. CASE Skills!Unwritten(u)
    BY <2>1, UnwrittenKeeps
  <2>2. CASE /\ Skills!Book \notin Skills!Taken
             /\ Skills!Inserts(Skills!Book, "everyone", Skills!Book, req[u].content)
             /\ Skills!Answers(u) /\ Skills!Forgets /\ late' = late
    BY <1>0, <2>2, InsertKeeps, SkillWords
  <2>3. CASE /\ req[u].op = "save" /\ req[u].row # "none" /\ Skills!StillAt(req[u].row, req[u].expected)
             /\ library' = [library EXCEPT ![req[u].row].version = @ + 1, ![req[u].row].content = req[u].content]
             /\ past' = [past EXCEPT ![req[u].row] = Append(@, req[u].content)]
             /\ Skills!Answers(u) /\ Skills!Forgets /\ late' = late
    <3>1. PICK r \in Skills!Row : r = req[u].row
      BY <1>0, <2>3 DEF KnowsWhatItRead
    <3>2. library[r].active /\ library[r] \in SkillRow
      BY <1>0, <2>3, <3>1, SkillWords DEF LibraryHolds, Skills!StillAt
    <3>10. PICK n \in Nat \ {0} : n = library[r].version + 1
      BY <3>2 DEF SkillRow
    <3>3. PICK x : x = [library[r] EXCEPT !.version = n, !.content = req[u].content]
      OBVIOUS
    <3>4. /\ x \in SkillRow /\ x.version = n /\ x.content = req[u].content /\ x.active = library[r].active
          /\ x.owner = library[r].owner /\ x.key = library[r].key /\ x.slug = library[r].slug
      BY <1>0, <3>2, <3>3 DEF SkillRow
    <3>5. PICK h : h = Append(past[r], req[u].content)
      OBVIOUS
    <3>6. /\ past[r] \in Seq(Skills!Content) /\ Len(past[r]) = library[r].version
      BY <1>0, <3>2, SkillWords DEF HistoryHolds, Skills!IsRow
    <3>7. /\ h \in Seq(Skills!Content) /\ Len(h) = x.version /\ h[x.version] = x.content
          /\ \A v \in 1 .. Len(past[r]) : v \in 1 .. Len(h) /\ h[v] = past[r][v]
      BY <1>0, <3>4, <3>5, <3>6, <3>10
    <3>8. library' = [library EXCEPT ![r] = x] /\ past' = [past EXCEPT ![r] = h]
      BY <1>0, <2>3, <3>1, <3>3, <3>5, <3>10 DEF LibraryHolds, HistoryHolds
    <3>9. /\ \A q \in Skills!Row : q # r /\ library[q].active => library[q].slug # x.slug
          /\ x.key = "book" => x.slug = "book"
      BY <1>0, <3>2, <3>4 DEF LibraryHolds
    <3>11. Skills!IsRow(r) => /\ x.owner = library[r].owner /\ x.key = library[r].key
                              /\ \A v \in 1 .. Len(past[r]) : v \in 1 .. Len(h) /\ h[v] = past[r][v]
      BY <3>4, <3>7
    <3>12. late' \in Nat /\ late <= late' /\ Skills!Answers(u) /\ Skills!Forgets
      BY <1>0, <2>3
    <3> QED
      BY <3>2, <3>4, <3>7, <3>8, <3>9, <3>11, <3>12, RowWritten
  <2> QED
    BY <1>1, <2>1, <2>2, <2>3, SkillWords DEF Skills!Saves
<1>2. CASE Skills!Creates(u)
  <2>1. /\ req[u].op = "create" /\ req[u].owner # "none" /\ req[u].room > 0 /\ req[u].ref \in {"book", "offer"}
        /\ req[u].owner \in Skills!Rep \cup {"everyone"} /\ req[u].room \in Int
    BY <1>0, <1>2 DEF Skills!Creates, KnowsWhatItRead, SkillRequest
  <2>2. /\ late' \in Nat /\ late <= late'
        /\ Cardinality(Skills!Own(req[u].owner)) < MaxOwn \/ late' = late + 1
    BY <1>2, <2>1, CountIsKnown DEF Skills!Creates
  <2>3. \A r \in Skills!Row : ~library[r].active => Skills!FreeSlug(req[u].ref) \in Skills!Slug \ Skills!Taken
    BY <1>0, <2>1, FreeNames
  <2>4. /\ Skills!Inserts("none", req[u].owner, Skills!FreeSlug(req[u].ref), req[u].content)
        /\ Skills!Answers(u) /\ Skills!Forgets
    BY <1>2, SkillWords DEF Skills!Creates
  <2> QED
    BY <1>0, <2>1, <2>2, <2>3, <2>4, InsertKeeps
<1>3. CASE Skills!Archives(u)
  <2>1. CASE Skills!Unwritten(u)
    BY <2>1, UnwrittenKeeps
  <2>2. CASE /\ library[req[u].row].active
             /\ library' = [library EXCEPT ![req[u].row].active = FALSE]
             /\ Skills!Answers(u) /\ Skills!Forgets /\ past' = past /\ late' = late
    <3>1. PICK r \in Skills!Row : r = req[u].row
      BY <1>0, <1>3 DEF KnowsWhatItRead, Skills!Archives
    <3>2. library[r].active /\ library[r] \in SkillRow
      BY <1>0, <2>2, <3>1, SkillWords DEF LibraryHolds
    <3>3. PICK x : x = [library[r] EXCEPT !.active = FALSE]
      OBVIOUS
    <3>4. /\ x \in SkillRow /\ x.version = library[r].version /\ x.content = library[r].content
          /\ x.owner = library[r].owner /\ x.key = library[r].key /\ ~x.active
          /\ x.key = "book" => x.slug = "book"
      BY <1>0, <3>2, <3>3 DEF SkillRow, LibraryHolds
    <3>5. PICK h : h = past[r]
      OBVIOUS
    <3>6. /\ h \in Seq(Skills!Content) /\ Len(h) = x.version /\ h[x.version] = x.content
      BY <1>0, <3>2, <3>4, <3>5, SkillWords DEF HistoryHolds, Skills!IsRow
    <3>7. library' = [library EXCEPT ![r] = x] /\ past' = [past EXCEPT ![r] = h]
      BY <1>0, <2>2, <3>1, <3>3, <3>5 DEF LibraryHolds, HistoryHolds
    <3>8. Skills!IsRow(r) => /\ x.owner = library[r].owner /\ x.key = library[r].key
                              /\ \A v \in 1 .. Len(past[r]) : v \in 1 .. Len(h) /\ h[v] = past[r][v]
      BY <3>4, <3>5
    <3>9. late' \in Nat /\ late <= late' /\ Skills!Answers(u) /\ Skills!Forgets
      BY <1>0, <2>2
    <3> QED
      BY <3>4, <3>6, <3>7, <3>8, <3>9, RowWritten
  <2> QED
    BY <1>3, <2>1, <2>2 DEF Skills!Archives
<1>4. CASE Skills!Unarchives(u)
  <2>0. PICK r \in Skills!Row : r = req[u].row /\ Skills!IsRow(r) /\ req[u].owner = library[r].owner
                                /\ (library[r].key = "none" => req[u].room > 0)
    BY <1>0, <1>4 DEF KnowsWhatItRead, Skills!Unarchives
  <2>1. CASE Skills!Unwritten(u)
    BY <2>1, UnwrittenKeeps
  <2>2. CASE /\ ~library[r].active
             /\ library' = [library EXCEPT ![r].active = TRUE,
                                    ![r].slug = IF @ \in Skills!Taken THEN Skills!FreeSlug(Skills!SlugBase(@)) ELSE @]
             /\ Skills!CountsLate(u) /\ Skills!Answers(u) /\ Skills!Forgets /\ past' = past
    <3>1. library[r] \in SkillRow /\ ~library[r].active
      BY <1>0, <2>0, <2>2 DEF LibraryHolds, Skills!IsRow
    <3>2. PICK b : b = IF library[r].slug \in Skills!Taken THEN Skills!FreeSlug(Skills!SlugBase(library[r].slug))
                       ELSE library[r].slug
      OBVIOUS
    <3>3. b \in Skills!Slug \ Skills!Taken
      <4>1. Skills!SlugBase(library[r].slug) \in {"book", "offer"}
        BY DEF Skills!SlugBase, Skills!Book
      <4>2. Skills!FreeSlug(Skills!SlugBase(library[r].slug)) \in Skills!Slug \ Skills!Taken
        BY <1>0, <3>1, <4>1, FreeNames
      <4> QED
        BY <3>1, <3>2, <4>2 DEF SkillRow
    <3>4. PICK x : x = [library[r] EXCEPT !.active = TRUE, !.slug = b]
      OBVIOUS
    <3>5. /\ x \in SkillRow /\ x.version = library[r].version /\ x.content = library[r].content
          /\ x.owner = library[r].owner /\ x.key = library[r].key /\ x.slug = b
      BY <3>1, <3>3, <3>4 DEF SkillRow
    <3>6. PICK h : h = past[r]
      OBVIOUS
    <3>7. /\ h \in Seq(Skills!Content) /\ Len(h) = x.version /\ h[x.version] = x.content
      BY <1>0, <2>0, <3>5, <3>6 DEF HistoryHolds
    <3>8. library' = [library EXCEPT ![r] = x] /\ past' = [past EXCEPT ![r] = h]
      BY <1>0, <2>2, <3>2, <3>4, <3>6 DEF LibraryHolds, HistoryHolds
    <3>9. \A q \in Skills!Row : library[q].active => library[q].slug # x.slug
      BY <3>3, <3>5 DEF Skills!Taken
    <3>14. x.key = "book" => x.slug = "book"
      <4>1. library[r].key = "book" => "book" \notin Skills!Taken \/ Skills!Unwritten(u)
        BY <1>4, <2>0, SkillWords DEF Skills!Unarchives
      <4>2. ~Skills!Unwritten(u)
        <5>1. library'[r].active
          BY <1>0, <2>0, <3>5, <3>8, <3>4 DEF LibraryHolds
        <5> QED
          BY <3>1, <5>1 DEF Skills!Unwritten
      <4>3. library[r].key = "book" => library[r].slug = "book"
        BY <1>0, <2>0 DEF LibraryHolds
      <4> QED
        BY <3>2, <3>5, <4>1, <4>2, <4>3
    <3>10. late' \in Nat /\ late <= late'
      BY <1>0, <2>2 DEF Skills!CountsLate
    <3>11. x.key = "none" => Cardinality(Skills!Own(x.owner)) < MaxOwn \/ late' = late + 1
      <4>1. req[u].room \in Int
        BY <1>0 DEF SkillRequest
      <4> QED
        BY <2>0, <2>2, <3>5, <4>1, CountIsKnown
    <3>12. Skills!IsRow(r) => /\ x.owner = library[r].owner /\ x.key = library[r].key
                              /\ \A v \in 1 .. Len(past[r]) : v \in 1 .. Len(h) /\ h[v] = past[r][v]
      BY <3>5, <3>6
    <3>13. Skills!Answers(u) /\ Skills!Forgets
      BY <2>2
    <3> QED
      BY <3>5, <3>7, <3>8, <3>9, <3>10, <3>11, <3>12, <3>13, <3>14, RowWritten
  <2> QED
    BY <1>4, <2>0, <2>1, <2>2 DEF Skills!Unarchives
<1>5. CASE Skills!Switches(u)
  BY <1>5, RowsLeft DEF Skills!Switches
<1> QED
  BY <1>1, <1>2, <1>3, <1>4, <1>5 DEF Skills!Writes

-----------------------------------------------------------------------------
(* Skills: the agent, and the theorem *)

LEMMA AgentKeeps ==
    ASSUME SkillInv, Skills!Remembers, Skills!Lists \/ Skills!BeginsLoad \/ Skills!EndsLoad
    PROVE  SkillInv'
<1>0. UNCHANGED <<library, past, late, req, saves>> /\ saves \in Skills!Content
  BY DEF Skills!Lists, Skills!BeginsLoad, Skills!EndsLoad, SkillInv, LibraryHolds
<1>1. LibraryHolds' /\ HistoryHolds' /\ Skills!LimitHolds'
  BY <1>0, LibraryStays
<1>2. RequestsHold'
  BY <1>0 DEF SkillInv, RequestsHold, KnowsWhatItRead, Opened, Skills!IsRow
<1>3. CASE Skills!Lists
  <2>1. PICK shown : agent' = [agent EXCEPT !.listed = shown]
    BY <1>3 DEF Skills!Lists
  <2>2. AgentHolds'
    BY <2>1, AgentStays DEF SkillInv
  <2> QED
    BY <1>1, <1>2, <2>2 DEF SkillInv
<1>4. CASE Skills!BeginsLoad
  <2>1. PICK s : agent' = [agent EXCEPT !.pc = "loading", !.slug = s.slug, !.saw = Skills!Skills(Skills!Agent)]
    BY <1>4 DEF Skills!BeginsLoad
  <2>2. /\ agent' = [pc |-> "loading", slug |-> s.slug, saw |-> Skills!Skills(Skills!Agent), listed |-> agent.listed]
        /\ agent.pc = "idle"
    BY <1>4, <2>1 DEF Skills!BeginsLoad, SkillInv, AgentHolds
  <2>3. since' = [there |-> Skills!Skills(Skills!Agent)', on |-> {ref \in Skills!Ref : Skills!IsOn(ref)}']
    BY <2>2 DEF Skills!Remembers
  <2>4. Skills!Skills(Skills!Agent)' = Skills!Skills(Skills!Agent)
    BY <1>0 DEF Skills!Skills, Skills!Customizations, Skills!Own, Skills!FromRow, Skills!Agent, Skills!Shipped
  <2>5. \A q \in Skills!Skills(Skills!Agent) : q.ref \in Skills!Ref
    BY ShownSkills, SkillWords DEF SkillInv
  <2>6. AgentHolds'
    BY <2>2, <2>3, <2>4, <2>5 DEF AgentHolds
  <2> QED
    BY <1>1, <1>2, <2>6 DEF SkillInv
<1>5. CASE Skills!EndsLoad
  <2>1. agent' = [pc |-> "idle", slug |-> "none", saw |-> {}, listed |-> agent.listed]
    BY <1>5 DEF Skills!EndsLoad, Skills!None, SkillInv, AgentHolds
  <2>2. AgentHolds'
    BY <2>1 DEF AgentHolds
  <2> QED
    BY <1>1, <1>2, <2>2 DEF SkillInv
<1> QED
  BY <1>3, <1>4, <1>5

LEMMA SkillStep ==
    ASSUME SkillInv, Skills!Next
    PROVE  SkillInv'
  BY AgentKeeps, ReadsKeep, WritesKeep DEF Skills!Next

LEMMA SwitchStep ==
    ASSUME SkillInv, SwitchesHold, Skills!Next
    PROVE  SwitchesHold'
<1>1. CASE switches' = switches
  BY <1>1 DEF SwitchesHold, Skills!Ref, Skills!Row, Skills!Book
<1>2. ASSUME NEW u \in Skills!Rep, Skills!Switches(u)
      PROVE  SwitchesHold'
  <2>1. /\ req[u] \in SkillRequest /\ req[u].ref \in Skills!Ref /\ req[u].owner \in {"cal", "everyone"}
        /\ switches' = [switches EXCEPT ![req[u].owner][req[u].ref] = req[u].on]
    BY <1>2 DEF SkillInv, RequestsHold, KnowsWhatItRead, Skills!Switches
  <2>2. req[u].on \in BOOLEAN
    BY <2>1 DEF SkillRequest
  <2> QED
    BY <2>1, <2>2 DEF SwitchesHold, Skills!Ref, Skills!Row, Skills!Book
<1>3. switches' = switches \/ \E u \in Skills!Rep : Skills!Switches(u)
  BY DEF Skills!Next, Skills!Lists, Skills!BeginsLoad, Skills!EndsLoad, Skills!Reads, Skills!OpensSkill,
     Skills!AsksSave, Skills!AsksCreate, Skills!AsksArchive, Skills!AsksUnarchive, Skills!AsksSwitchAll,
     Skills!AsksSwitch, Skills!Asks, Skills!Writes, Skills!Saves, Skills!Creates, Skills!Archives, Skills!Unarchives,
     Skills!Unwritten
<1> QED
  BY <1>1, <1>2, <1>3

(* What the save of an edited skill asks.                                  *)
LEMMA SaveIsAsked ==
    ASSUME NEW u, Skills!AsksSave(u)
    PROVE  \E s, c : /\ req[u].op = "edit"
                     /\ req' = [req EXCEPT ![u].op = "save", ![u].row = s.row, ![u].expected = s.version, ![u].content = c]
<1>1. PICK s \in Skills!Entry(u, req[u].ref) : \E c :
           /\ req[u].op = "edit"
           /\ req' = [req EXCEPT ![u].op = "save", ![u].row = s.row, ![u].expected = s.version, ![u].content = c]
  BY DEF Skills!AsksSave
<1> QED
  BY <1>1

(* A switch that is written brings no more than what there was room for.   *)
LEMMA SwitchesFit ==
    ASSUME SkillInv, SwitchesHold, Skills!Next
    PROVE  Skills!SwitchFits
<1> USE SkillWords
<1> DEFINE q == req["cal"]
<1> SUFFICES ASSUME q.op = "switch", q.owner = "cal", q.on, req'["cal"] = Skills!NoReq,
                    ~(MaxEnabled - Skills!Cardinality(Skills!Enabled) < q.room)
             PROVE  Skills!Cardinality(Skills!Enabled') <= MaxEnabled
  BY DEF Skills!SwitchFits
<1>0. /\ LibraryHolds /\ req \in [Skills!Rep -> SkillRequest] /\ KnowsWhatItRead(q) /\ "cal" \in Skills!Rep
      /\ q # Skills!NoReq
  BY DEF SkillInv, RequestsHold
<1>1. PICK w \in Skills!Rep : Skills!Writes(w)
  <2>1. ASSUME NEW u \in Skills!Rep, Skills!Reads(u) PROVE FALSE
    <3>1. ASSUME NEW r, Skills!Asks(u, r) PROVE FALSE
      BY <1>0, <3>1 DEF Skills!Asks
    <3>2. ASSUME Skills!AsksSave(u) PROVE FALSE
      <4>1. req[u].op = "edit" /\ \E x : req' = [req EXCEPT ![u] = x] /\ x.op = "save"
        <5>1. PICK s, c : /\ req[u].op = "edit"
                          /\ req' = [req EXCEPT ![u].op = "save", ![u].row = s.row, ![u].expected = s.version, ![u].content = c]
          BY <3>2, SaveIsAsked
        <5>2. PICK x : x = [req[u] EXCEPT !.op = "save", !.row = s.row, !.expected = s.version, !.content = c]
          OBVIOUS
        <5>3. req' = [req EXCEPT ![u] = x]
          BY <1>0, <5>1, <5>2
        <5>4. x.op = "save"
          BY <1>0, <5>2 DEF SkillRequest
        <5> QED
          BY <5>1, <5>3, <5>4
      <4> QED
        BY <1>0, <4>1
    <3> QED
      BY <2>1, <3>1, <3>2 DEF Skills!Reads, Skills!OpensSkill, Skills!AsksCreate, Skills!AsksArchive,
         Skills!AsksUnarchive, Skills!AsksSwitchAll, Skills!AsksSwitch
  <2>2. ~(Skills!Lists \/ Skills!BeginsLoad \/ Skills!EndsLoad)
    BY <1>0 DEF Skills!Lists, Skills!BeginsLoad, Skills!EndsLoad
  <2> QED
    BY <2>1, <2>2 DEF Skills!Next
<1>2. w = "cal"
  <2>1. req' = [req EXCEPT ![w] = Skills!NoReq]
    BY <1>1 DEF Skills!Writes, Skills!Saves, Skills!Creates, Skills!Archives, Skills!Unarchives, Skills!Switches,
       Skills!Unwritten, Skills!Answers
  <2> QED
    BY <1>0, <2>1
<1>3. library' = library /\ switches' = [switches EXCEPT !["cal"][q.ref] = TRUE]
  <2>1. Skills!Switches("cal")
    BY <1>1, <1>2 DEF Skills!Writes, Skills!Saves, Skills!Creates, Skills!Archives, Skills!Unarchives
  <2>2. q.on = TRUE
    BY <1>0 DEF SkillRequest
  <2> QED
    BY <2>1, <2>2 DEF Skills!Switches
<1>4. q.ref \in Skills!Ref /\ q.room > 0 /\ q.room \in Int
  BY <1>0 DEF KnowsWhatItRead, SkillRequest
<1>5. \A ref \in Skills!Ref : ref # q.ref /\ Skills!IsOn(ref)' => Skills!IsOn(ref)
  BY <1>3, <1>4 DEF SwitchesHold, Skills!IsOn
<1>6. Skills!Skills("cal")' = Skills!Skills("cal")
  BY <1>3 DEF Skills!Skills, Skills!Customizations, Skills!Own, Skills!FromRow
<1>7. PICK x : \A s \in Skills!Skills("cal") : s.ref = q.ref => s = x
  BY <1>0, OneForEachRef
<1>8. Skills!Enabled' \subseteq Skills!Enabled \cup {x}
  <2> SUFFICES ASSUME NEW s \in Skills!Enabled' PROVE s \in Skills!Enabled \cup {x}
    OBVIOUS
  <2>1. s \in Skills!Skills("cal") /\ Skills!IsOn(s.ref)'
    BY <1>6 DEF Skills!Enabled
  <2>2. s.ref \in Skills!Ref
    BY <1>0, <2>1, ShownSkills DEF SkillInv
  <2> QED
    BY <1>5, <1>7, <2>1, <2>2 DEF Skills!Enabled
<1>9. Cardinality(Skills!Enabled') <= Cardinality(Skills!Enabled) + 1
  <2>1. IsFiniteSet(Skills!Enabled \cup {x}) /\ Cardinality(Skills!Enabled \cup {x}) <= Cardinality(Skills!Enabled) + 1
    BY FewEnabled, CountOfOneMore
  <2>2. Cardinality(Skills!Enabled') <= Cardinality(Skills!Enabled \cup {x}) /\ Cardinality(Skills!Enabled \cup {x}) \in Nat
    BY <1>8, <2>1, FS_Subset, FS_CardinalityType
  <2> QED
    BY <2>1, <2>2, FewEnabled
<1> QED
  <2>1. MaxEnabled \in Nat
    BY RecordBounds
  <2>2. ~(MaxEnabled - Cardinality(Skills!Enabled) < q.room)
    BY SameCount
  <2> HIDE DEF q
  <2>3. Cardinality(Skills!Enabled') <= MaxEnabled
    BY <1>4, <1>9, <2>1, <2>2, FewEnabled
  <2> QED
    BY <2>3, SameCount

(* The workspaces a behaviour begins with.                                 *)
LEMMA SkillStart ==
    ASSUME Skills!Init
    PROVE  SkillInv
<1> USE SkillWords
<1>0. library \in Skills!Early /\ past = [r \in Skills!Row |-> IF Skills!IsRow(r) THEN <<1>> ELSE <<>>]
      /\ saves = 1 /\ late = 0
  BY DEF Skills!Init
<1>1. /\ library \in [Skills!Row -> SkillRow \cup {Skills!NoRow}]
      /\ \A r \in Skills!Row : Skills!IsRow(r) => library[r].version = 1 /\ library[r].content = 1
      /\ \A r \in Skills!Row : library[r].key = "book" => library[r].slug = "book"
      /\ ~library["row2"].active \/ (library["row1"].slug # library["row2"].slug /\ library["row1"].owner # library["row2"].owner)
  <2> DEFINE AsNew ==
               /\ library \in [Skills!Row -> SkillRow \cup {Skills!NoRow}]
               /\ \A r \in Skills!Row : Skills!IsRow(r) => library[r].version = 1 /\ library[r].content = 1
               /\ \A r \in Skills!Row : library[r].key = "book" => library[r].slug = "book"
               /\ ~library["row2"].active \/ (library["row1"].slug # library["row2"].slug /\ library["row1"].owner # library["row2"].owner)
             Is(f) == library = f => AsNew
  <2>1. ASSUME NEW k \in {"none", "book"}, NEW g \in {"book", "offer"}, NEW a \in BOOLEAN
        PROVE  Skills!SavedOnce("row1", k, "everyone", g, a) \in SkillRow
    BY DEF Skills!SavedOnce, SkillRow
  <2>2. Is([r \in Skills!Row |-> Skills!NoRow])
    BY DEF Skills!IsRow
  <2>3. ASSUME NEW a \in BOOLEAN
        PROVE  Is([r \in Skills!Row |-> IF r = "row1" THEN Skills!SavedOnce(r, "book", "everyone", "book", a) ELSE Skills!NoRow])
    BY <2>1 DEF Skills!IsRow, Skills!SavedOnce
  <2>4. Is([r \in Skills!Row |-> Skills!SavedOnce(r, "none", "everyone", "offer", r = "row1")])
    <3> SUFFICES ASSUME library = [r \in Skills!Row |-> Skills!SavedOnce(r, "none", "everyone", "offer", r = "row1")]
                 PROVE  /\ library \in [Skills!Row -> SkillRow \cup {Skills!NoRow}]
                        /\ \A r \in Skills!Row : Skills!IsRow(r) => library[r].version = 1 /\ library[r].content = 1
                        /\ \A r \in Skills!Row : library[r].key = "book" => library[r].slug = "book"
                        /\ ~library["row2"].active
      OBVIOUS
    <3>1. ASSUME NEW r \in Skills!Row
          PROVE  /\ library[r] \in SkillRow /\ library[r].version = 1 /\ library[r].content = 1
                 /\ library[r].key = "none"
                 /\ library[r].active <=> r = "row1"
      <4>1. PICK a \in BOOLEAN : a <=> r = "row1"
        OBVIOUS
      <4>2. library[r] = Skills!SavedOnce(r, "none", "everyone", "offer", a)
        BY <4>1
      <4> QED
        BY <4>1, <4>2 DEF Skills!SavedOnce, SkillRow
    <3> QED
      BY <3>1
  <2>5. Is([r \in Skills!Row |-> IF r = "row1" THEN Skills!SavedOnce(r, "none", "everyone", "offer", TRUE)
                                ELSE Skills!SavedOnce(r, "none", "cal", "offer-2", TRUE)])
    <3> SUFFICES ASSUME library = [r \in Skills!Row |-> IF r = "row1" THEN Skills!SavedOnce(r, "none", "everyone", "offer", TRUE)
                                                       ELSE Skills!SavedOnce(r, "none", "cal", "offer-2", TRUE)]
                 PROVE  AsNew
      OBVIOUS
    <3>0. PICK x, y : x = Skills!SavedOnce("row1", "none", "everyone", "offer", TRUE)
                      /\ y = Skills!SavedOnce("row2", "none", "cal", "offer-2", TRUE)
      OBVIOUS
    <3>1. library["row1"] = x /\ library["row2"] = y
      BY <3>0
    <3>2. /\ x.key = "none" /\ x.owner = "everyone" /\ x.slug = "offer" /\ x.version = 1 /\ x.content = 1
          /\ y.key = "none" /\ y.owner = "cal" /\ y.slug = "offer-2" /\ y.version = 1 /\ y.content = 1
      BY <3>0 DEF Skills!SavedOnce
    <3>3. 1 \in Skills!Content /\ 1 \in Nat \ {0}
      OBVIOUS
    <3>4. x \in SkillRow
      BY <3>0, <3>3 DEF Skills!SavedOnce, SkillRow
    <3>5. y \in SkillRow
      BY <3>0, <3>3 DEF Skills!SavedOnce, SkillRow
    <3>6. library \in [Skills!Row -> SkillRow \cup {Skills!NoRow}]
      <4>1. library = [r \in Skills!Row |-> IF r = "row1" THEN x ELSE y]
        BY <3>0
      <4> QED
        BY <4>1, <3>4, <3>5
    <3> QED
      BY <3>1, <3>2, <3>6
  <2> QED
    <3>1. \/ library = [r \in Skills!Row |-> Skills!NoRow]
          \/ \E a \in BOOLEAN : library = [r \in Skills!Row |-> IF r = "row1" THEN Skills!SavedOnce(r, "book", "everyone", "book", a) ELSE Skills!NoRow]
          \/ library = [r \in Skills!Row |-> Skills!SavedOnce(r, "none", "everyone", "offer", r = "row1")]
          \/ library = [r \in Skills!Row |-> IF r = "row1" THEN Skills!SavedOnce(r, "none", "everyone", "offer", TRUE)
                                           ELSE Skills!SavedOnce(r, "none", "cal", "offer-2", TRUE)]
      BY <1>0 DEF Skills!Early
    <3> QED
      BY <2>2, <2>3, <2>4, <2>5, <3>1
<1>2. LibraryHolds
  BY <1>0, <1>1 DEF LibraryHolds
<1>3. HistoryHolds
  <2>1. <<1>> \in Seq(Skills!Content) /\ <<>> \in Seq(Skills!Content) /\ Len(<<1>>) = 1 /\ <<1>>[1] = 1
    OBVIOUS
  <2> QED
    BY <1>0, <1>1, <2>1 DEF HistoryHolds
<1>4. RequestsHold
  <2>1. req = [u \in Skills!Rep |-> Skills!NoReq]
    BY DEF Skills!Init
  <2> QED
    BY <2>1, NothingAsked DEF RequestsHold
<1>5. AgentHolds
  BY DEF Skills!Init, AgentHolds
<1>6. Skills!LimitHolds
  <2> SUFFICES ASSUME NEW o \in Skills!Rep \cup {"everyone"} PROVE Cardinality(Skills!Own(o)) <= MaxOwn + late
    BY SameCount DEF Skills!LimitHolds
  <2>1. PICK x \in {"row1", "row2"} : Skills!Own(o) \subseteq {x}
    BY <1>1 DEF Skills!Own, Skills!Row
  <2>2. IsFiniteSet({x}) /\ Cardinality({x}) = 1
    BY FS_Singleton
  <2>3. Cardinality(Skills!Own(o)) <= 1
    BY <2>1, <2>2, FS_Subset
  <2>4. Cardinality(Skills!Own(o)) \in Nat /\ late = 0
    BY FewSkills DEF Skills!Init
  <2> QED
    BY <2>3, <2>4
<1> QED
  BY <1>2, <1>3, <1>4, <1>5, <1>6 DEF SkillInv

LEMMA SkillInvHolds == RecordsSpec => []SkillInv
<1>1. RecordsInit => SkillInv
  BY SkillStart DEF RecordsInit, SkillsRest
<1>2. SkillInv /\ [RecordsNext]_recordVars => SkillInv'
  <2> SUFFICES ASSUME SkillInv, [RecordsNext]_recordVars PROVE SkillInv'
    OBVIOUS
  <2>1. CASE Skills!Next
    BY <2>1, SkillStep
  <2>2. CASE UNCHANGED skillVars
    BY <2>2 DEF skillVars, SkillInv, LibraryHolds, HistoryHolds, RequestsHold, KnowsWhatItRead, Opened, AgentHolds,
       Skills!LimitHolds, Skills!Own, Skills!IsRow, Skills!IsOn
  <2> QED
    BY <2>1, <2>2 DEF RecordsNext, recordVars
<1> QED
  BY <1>1, <1>2, PTL DEF RecordsSpec

LEMMA SwitchesHoldAlways == RecordsSpec => []SwitchesHold
<1>1. RecordsInit => SwitchesHold
  <2>1. RecordsInit => Skills!Init
    BY DEF RecordsInit, SkillsRest
  <2>2. Skills!Init => SwitchesHold
    <3> SUFFICES ASSUME Skills!Init PROVE SwitchesHold
      OBVIOUS
    <3>1. switches = [o \in {"cal", "everyone"} |-> [ref \in Skills!Ref |->
                        o = "cal" /\ ref \in Skills!Row => library[ref].owner # "cal"]]
      BY DEF Skills!Init, Skills!Agent
    <3>2. ASSUME NEW o \in {"cal", "everyone"}
          PROVE  [ref \in Skills!Ref |-> o = "cal" /\ ref \in Skills!Row => library[ref].owner # "cal"]
                     \in [Skills!Ref -> BOOLEAN]
      <4>1. \A ref \in Skills!Ref : (o = "cal" /\ ref \in Skills!Row => library[ref].owner # "cal") \in BOOLEAN
        OBVIOUS
      <4> QED
        BY <4>1
    <3> QED
      BY <3>1, <3>2 DEF SwitchesHold
  <2> QED
    BY <2>1, <2>2
<1>2. SkillInv /\ SwitchesHold /\ [RecordsNext]_recordVars => SwitchesHold'
  <2> SUFFICES ASSUME SkillInv, SwitchesHold, [RecordsNext]_recordVars PROVE SwitchesHold'
    OBVIOUS
  <2>1. CASE Skills!Next
    BY <2>1, SwitchStep
  <2>2. CASE UNCHANGED skillVars
    BY <2>2 DEF skillVars, SwitchesHold, Skills!Ref, Skills!Row, Skills!Book
  <2> QED
    BY <2>1, <2>2 DEF RecordsNext, recordVars
<1> QED
  BY <1>1, <1>2, SkillInvHolds, PTL DEF RecordsSpec

(* In the library of any workspace, with any limits and whatever requests  *)
(* come between the reads and the writes of others: no owner has more      *)
(* active skills than the limit, besides those of requests whose count was *)
(* used up, a rep switches on no more than fit, unless others took the     *)
(* room that was counted, and the agent follows only what was there and on.*)
THEOREM SkillsStayAllowed == RecordsSpec => SkillsAsAllowed
<1>1. SkillInv /\ SwitchesHold /\ [RecordsNext]_recordVars =>
          [scene = "skills" => Skills!LimitHolds' /\ Skills!LoadsWhatIsOn' /\ Skills!SwitchFits]_recordVars
  <2> SUFFICES ASSUME SkillInv, SwitchesHold, RecordsNext, scene = "skills"
               PROVE  Skills!LimitHolds' /\ Skills!LoadsWhatIsOn' /\ Skills!SwitchFits
    OBVIOUS
  <2>1. Skills!Next
    BY DEF RecordsNext
  <2>2. SkillInv'
    BY <2>1, SkillStep
  <2>3. Skills!LimitHolds' /\ Skills!LoadsWhatIsOn'
    BY <2>2 DEF SkillInv, AgentHolds, Skills!LoadsWhatIsOn, Skills!Usable
  <2> QED
    BY <2>1, <2>3, SwitchesFit
<1> QED
  BY <1>1, SkillInvHolds, SwitchesHoldAlways, PTL DEF RecordsSpec, SkillsAsAllowed

(* A step of a request that changes the content of an active row saves it. *)
LEMMA OnlySavesChange ==
    ASSUME SkillInv, NEW w \in Skills!Rep, Skills!Writes(w),
           NEW r \in Skills!Row, library[r].active, library'[r].content # library[r].content
    PROVE  /\ req[w].op = "save" /\ req[w].row = r /\ Skills!StillAt(r, req[w].expected)
           /\ library' = [library EXCEPT ![r].version = @ + 1, ![r].content = req[w].content]
           /\ past' = [past EXCEPT ![r] = Append(@, req[w].content)]
           /\ Skills!Answers(w)
<1>0. /\ LibraryHolds /\ req[w] \in SkillRequest /\ KnowsWhatItRead(req[w])
      /\ library[r] \in SkillRow /\ Skills!IsRow(r)
  BY SkillWords DEF SkillInv, RequestsHold, LibraryHolds, Skills!IsRow
<1>1. library' # library
  OBVIOUS
<1>2. ASSUME NEW k, NEW o, NEW b, NEW c PROVE ~Skills!Inserts(k, o, b, c)
  BY <1>0 DEF Skills!Inserts, LibraryHolds
<1>3. CASE Skills!Saves(w)
  <2>1. /\ req[w].op = "save" /\ req[w].row # "none" /\ Skills!StillAt(req[w].row, req[w].expected)
        /\ library' = [library EXCEPT ![req[w].row].version = @ + 1, ![req[w].row].content = req[w].content]
        /\ past' = [past EXCEPT ![req[w].row] = Append(@, req[w].content)]
        /\ Skills!Answers(w)
    BY <1>1, <1>2, <1>3, SkillWords DEF Skills!Saves, Skills!Unwritten
  <2>2. req[w].row \in Skills!Row
    BY <1>0, <2>1 DEF KnowsWhatItRead
  <2>3. PICK x : library' = [library EXCEPT ![req[w].row] = x]
    BY <2>1
  <2>4. req[w].row = r
    BY <1>0, <2>2, <2>3 DEF LibraryHolds
  <2> QED
    BY <2>1, <2>4
<1>4. ~Skills!Creates(w)
  BY <1>2 DEF Skills!Creates
<1>5. ~Skills!Archives(w)
  <2>1. ASSUME Skills!Archives(w) PROVE FALSE
    <3>1. req[w].row \in Skills!Row /\ library' = [library EXCEPT ![req[w].row].active = FALSE]
      BY <1>0, <1>1, <2>1 DEF Skills!Archives, Skills!Unwritten, KnowsWhatItRead
    <3>2. library'[r].content = library[r].content
      <4>1. CASE req[w].row = r
        BY <1>0, <3>1, <4>1 DEF LibraryHolds, SkillRow
      <4>2. CASE req[w].row # r
        BY <1>0, <3>1, <4>2 DEF LibraryHolds
      <4> QED
        BY <4>1, <4>2
    <3> QED
      BY <3>2
  <2> QED
    BY <2>1
<1>6. ~Skills!Unarchives(w)
  <2>1. ASSUME Skills!Unarchives(w) PROVE FALSE
    <3>1. req[w].row \in Skills!Row /\ ~library[req[w].row].active
      BY <1>0, <1>1, <2>1 DEF Skills!Unarchives, Skills!Unwritten, KnowsWhatItRead
    <3>2. req[w].row # r
      BY <3>1
    <3>3. PICK x : library' = [library EXCEPT ![req[w].row] = x]
      BY <1>1, <2>1 DEF Skills!Unarchives, Skills!Unwritten
    <3> QED
      BY <1>0, <3>1, <3>2, <3>3 DEF LibraryHolds
  <2> QED
    BY <2>1
<1>7. ~Skills!Switches(w)
  BY <1>1 DEF Skills!Switches
<1> QED
  BY <1>3, <1>4, <1>5, <1>6, <1>7 DEF Skills!Writes

LEMMA SavesAreSeen ==
    ASSUME SkillInv, Skills!Next
    PROVE  Skills!SavesBuildOnSeen
<1> SUFFICES ASSUME NEW u \in Skills!Rep, NEW r \in Skills!Row, library[r].active,
                    library'[r].content # library[r].content, req[u].op = "save", req'[u] = Skills!NoReq
             PROVE  /\ req[u].base.row = r => req[u].base.content = library[r].content
                    /\ library'[r].version > library[r].version
                    /\ \A v \in DOMAIN past[r] : past'[r][v] = past[r][v]
                    /\ past'[r][library'[r].version] = library'[r].content
  BY DEF Skills!SavesBuildOnSeen
<1>0. /\ LibraryHolds /\ HistoryHolds /\ req \in [Skills!Rep -> SkillRequest] /\ KnowsWhatItRead(req[u])
      /\ library[r] \in SkillRow /\ Skills!IsRow(r)
  BY SkillWords DEF SkillInv, RequestsHold, LibraryHolds, Skills!IsRow
<1>1. library' # library
  OBVIOUS
<1>2. PICK w \in Skills!Rep : Skills!Writes(w)
  BY <1>1 DEF Skills!Next, Skills!Lists, Skills!BeginsLoad, Skills!EndsLoad, Skills!Reads, Skills!OpensSkill,
     Skills!AsksSave, Skills!AsksCreate, Skills!AsksArchive, Skills!AsksUnarchive, Skills!AsksSwitchAll,
     Skills!AsksSwitch, Skills!Asks
<1>3. /\ req[w].op = "save" /\ req[w].row = r /\ Skills!StillAt(r, req[w].expected)
      /\ library' = [library EXCEPT ![r].version = @ + 1, ![r].content = req[w].content]
      /\ past' = [past EXCEPT ![r] = Append(@, req[w].content)]
      /\ Skills!Answers(w)
  BY <1>2, OnlySavesChange
<1>4. w = u
  <2>1. req' = [req EXCEPT ![w] = Skills!NoReq]
    BY <1>3 DEF Skills!Answers
  <2> QED
    BY <1>0, <2>1, SkillWords
<1>5. /\ past[r] \in Seq(Skills!Content) /\ Len(past[r]) = library[r].version
      /\ past[r][library[r].version] = library[r].content
      /\ library[r].version \in Nat /\ req[u].content \in Skills!Content
  BY <1>0 DEF HistoryHolds, SkillRow, SkillRequest
<1>6. library'[r].version = library[r].version + 1 /\ library'[r].content = req[u].content
  BY <1>0, <1>3, <1>4, <1>5 DEF LibraryHolds
<1>7. past'[r] = Append(past[r], req[u].content)
  BY <1>0, <1>3, <1>4 DEF HistoryHolds
<1>8. req[u].base.row = r => req[u].base.content = library[r].content
  <2>1. library[r].version = req[u].base.version
    BY <1>0, <1>3, <1>4, SkillWords DEF KnowsWhatItRead, Skills!StillAt
  <2> QED
    BY <1>0, <1>5, <2>1, SkillWords DEF KnowsWhatItRead, Opened
<1> QED
  BY <1>5, <1>6, <1>7, <1>8

-----------------------------------------------------------------------------
(* The session: the invariant *)

OutboxRecord ==
    [target : Session!Target, value : Nat, status : {"PENDING", "DELIVERED", "FAILED"}, attempts : Nat, due : BOOLEAN]
WorkOf ==
    [pc : {"idle", "going", "sending", "heard"}, items : SUBSET Nat, late : BOOLEAN,
     outcome : {"none", "DELIVERED", "NOT FOUND", "REJECTED", "RETRY"}]

OutboxTypes ==
    /\ outbox \in Seq(OutboxRecord)
    /\ written \in [Session!Target -> Nat] /\ mirror \in [Session!Target -> Nat]
    /\ holder \in Worker \cup {"nobody"}
    /\ work \in [Worker -> WorkOf]
    /\ \A q \in adrift : q.target \in strayed /\ q.target \in Session!Target /\ q.value \in Nat
    /\ failures \in Nat

(* The records are in the order in which the run wrote them, and those     *)
(* that are still to be delivered come last.                               *)
OutboxInOrder ==
    /\ \A i \in 1 .. Len(outbox) :
          /\ outbox[i].value <= written[outbox[i].target]
          /\ outbox[i].attempts <= MaxAttempts + MaxNotFound
          /\ Session!Pending(i) => outbox[i].attempts < MaxAttempts + MaxNotFound
    /\ \A i, k \in 1 .. Len(outbox) : i < k =>
          /\ outbox[i].target = outbox[k].target => outbox[i].value < outbox[k].value
          /\ Session!Pending(i) => Session!Pending(k)

(* A worker that can commit has the lock, and the first records that are   *)
(* pending; one that cannot has let its target stray.                      *)
WorkerHolds(w) ==
    /\ work[w].items \subseteq 1 .. Len(outbox)
    /\ work[w].pc \in {"sending", "heard"} => work[w].items # {}
    /\ work[w].late => work[w].pc \in {"sending", "heard"} /\ outbox[Session!Item(w)].target \in strayed
    /\ work[w].pc # "idle" /\ ~work[w].late =>
          /\ holder = w
          /\ work[w].items \subseteq Session!Unsettled
          /\ \A i \in Session!Unsettled \ work[w].items, k \in work[w].items : k < i
    /\ work[w].pc = "heard" /\ work[w].outcome = "DELIVERED" /\ outbox[Session!Item(w)].target \notin strayed =>
          mirror[outbox[Session!Item(w)].target] >= outbox[Session!Item(w)].value

(* What the workspace shows of a target is no newer than what is pending.  *)
MirrorInOrder ==
    /\ \A t \in Session!Target \ strayed : mirror[t] <= written[t]
    /\ \A i \in 1 .. Len(outbox) :
          Session!Pending(i) /\ outbox[i].target \notin strayed => mirror[outbox[i].target] <= outbox[i].value

OutboxInv ==
    OutboxTypes /\ OutboxInOrder /\ (\A w \in Worker : WorkerHolds(w)) /\ MirrorInOrder /\ Session!DeliveredIsShown

-----------------------------------------------------------------------------
(* The session: lemmas *)

LEMMA SessionWords ==
    /\ Session!Target = {"context", "task", "note"} /\ Session!Nobody = "nobody" /\ "nobody" \notin Worker
    /\ MaxAttempts \in Nat \ {0} /\ MaxNotFound \in Nat \ {0} /\ Batch \in Nat \ {0}
    /\ Session!Idle = [pc |-> "idle", items |-> {}, late |-> FALSE, outcome |-> "none"]
    /\ Session!Idle \in WorkOf
<1>1. Session!Idle \in WorkOf
  BY DEF Session!Idle, WorkOf
<1> QED
  BY <1>1, RecordBounds DEF Session!Target, Session!Nobody, Session!Idle

LEMMA SessionMin == ASSUME NEW S PROVE Session!Min(S) = Min(S)
  BY DEF Session!Min, Min

LEMMA SessionCount == ASSUME NEW S PROVE Session!Cardinality(S) = Cardinality(S)
  BY DEF Session!Cardinality, Cardinality, Session!IsFiniteSet, IsFiniteSet

(* The record a worker is at is the first it has.                          *)
LEMMA ItemIs ==
    ASSUME NEW w, work[w].items \subseteq 1 .. Len(outbox), outbox \in Seq(OutboxRecord), work[w].items # {}
    PROVE  /\ Session!Item(w) \in work[w].items /\ Session!Item(w) \in 1 .. Len(outbox)
           /\ \A k \in work[w].items : Session!Item(w) <= k
           /\ outbox[Session!Item(w)] \in OutboxRecord
<1>1. work[w].items \in SUBSET Nat
  OBVIOUS
<1>2. Session!Item(w) \in work[w].items /\ \A k \in work[w].items : Session!Item(w) <= k
  BY <1>1, SessionMin, LeastIsIn DEF Session!Item
<1> QED
  BY <1>2

(* A worker that can commit is at the first record that is pending, and    *)
(* the next one it has is the next of all.                                 *)
LEMMA AtTheFirst ==
    ASSUME OutboxInv, NEW w \in Worker, work[w].pc # "idle", ~work[w].late, work[w].items # {}
    PROVE  /\ Session!Pending(Session!Item(w))
           /\ \A i \in 1 .. Len(outbox) : Session!Pending(i) => Session!Item(w) <= i
           /\ Session!NextIsSame(w) =>
                 /\ Session!Item(w) + 1 \in 1 .. Len(outbox) /\ Session!Pending(Session!Item(w) + 1)
                 /\ outbox[Session!Item(w) + 1].target = outbox[Session!Item(w)].target
<1>0. /\ outbox \in Seq(OutboxRecord) /\ work[w].items \subseteq 1 .. Len(outbox)
      /\ work[w].items \subseteq Session!Unsettled
      /\ \A i \in Session!Unsettled \ work[w].items, k \in work[w].items : k < i
  BY DEF OutboxInv, OutboxTypes, WorkerHolds
<1>u. \A i : i \in Session!Unsettled <=> i \in 1 .. Len(outbox) /\ Session!Pending(i)
  BY <1>0 DEF Session!Unsettled
<1>1. PICK j \in 1 .. Len(outbox) : j = Session!Item(w) /\ j \in work[w].items /\ \A k \in work[w].items : j <= k
  BY <1>0, ItemIs
<1>2. Session!Pending(j)
  BY <1>0, <1>1, <1>u
<1>3. \A i \in 1 .. Len(outbox) : Session!Pending(i) => j <= i
  BY <1>0, <1>1, <1>u
<1>4. ASSUME Session!NextIsSame(w)
      PROVE  j + 1 \in 1 .. Len(outbox) /\ Session!Pending(j + 1) /\ outbox[j + 1].target = outbox[j].target
  <2>1. Session!Rest(w) = work[w].items \ {j} /\ Session!Rest(w) # {}
    BY <1>1, <1>4 DEF Session!Rest, Session!NextIsSame
  <2>2. Session!Rest(w) \in SUBSET Nat
    BY <1>0, <2>1
  <2>3. PICK n : n = Session!Min(Session!Rest(w)) /\ n \in Session!Rest(w) /\ \A k \in Session!Rest(w) : n <= k
    BY <2>1, <2>2, SessionMin, LeastIsIn
  <2>4. n \in 1 .. Len(outbox) /\ j < n
    BY <1>0, <1>1, <2>1, <2>3
  <2>5. j + 1 \in 1 .. Len(outbox) /\ j < j + 1
    BY <2>4
  <2>6. Session!Pending(j + 1)
    BY <1>2, <2>5 DEF OutboxInv, OutboxInOrder
  <2>7. j + 1 \in work[w].items
    <3>1. CASE j + 1 = n
      BY <2>1, <2>3, <3>1
    <3>2. CASE j + 1 < n
      <4>1. j + 1 \in Session!Unsettled
        BY <1>u, <2>5, <2>6
      <4> QED
        BY <1>0, <2>1, <2>3, <2>4, <3>2, <4>1
    <3> QED
      BY <2>4, <3>1, <3>2
  <2>8. n = j + 1
    <3>1. j \in Nat /\ n \in Nat /\ j + 1 # j
      BY <2>4
    <3>2. n <= j + 1
      BY <2>1, <2>3, <2>7, <3>1
    <3> QED
      BY <2>4, <3>1, <3>2
  <2> QED
    BY <1>1, <1>4, <2>3, <2>5, <2>6, <2>8 DEF Session!NextIsSame
<1> QED
  BY <1>1, <1>2, <1>3, <1>4

(* What every step keeps of the records and of what is shown.              *)
OutboxGoesOn ==
    /\ Len(outbox) <= Len(outbox')
    /\ \A i \in 1 .. Len(outbox) : outbox'[i].target = outbox[i].target /\ outbox'[i].value = outbox[i].value
    /\ strayed \subseteq strayed'
    /\ \A t \in Session!Target \ strayed' : mirror[t] <= mirror'[t]

(* A worker that does nothing keeps what it holds.                         *)
LEMMA WorkerStays ==
    ASSUME OutboxTypes, OutboxTypes', OutboxGoesOn, NEW v \in Worker, WorkerHolds(v), work'[v] = work[v],
           work[v].pc # "idle" /\ ~work[v].late =>
              /\ holder' = v
              /\ \A i \in work[v].items : Session!Pending(i)'
              /\ \A i \in 1 .. Len(outbox') : Session!Pending(i)' => i > Len(outbox) \/ Session!Pending(i)
    PROVE  WorkerHolds(v)'
<1>0. /\ outbox \in Seq(OutboxRecord) /\ outbox' \in Seq(OutboxRecord) /\ Len(outbox) \in Nat /\ Len(outbox') \in Nat
      /\ Len(outbox) <= Len(outbox')
      /\ mirror \in [Session!Target -> Nat] /\ mirror' \in [Session!Target -> Nat]
      /\ \A i \in 1 .. Len(outbox) : outbox[i] \in OutboxRecord
  BY DEF OutboxTypes, OutboxGoesOn
<1>1. work'[v].items \subseteq 1 .. Len(outbox')
  BY <1>0 DEF WorkerHolds
<1>2. Session!Item(v)' = Session!Item(v)
  BY DEF Session!Item
<1>3. work[v].items # {} =>
         /\ Session!Item(v) \in 1 .. Len(outbox) /\ outbox[Session!Item(v)] \in OutboxRecord
         /\ outbox'[Session!Item(v)].target = outbox[Session!Item(v)].target
         /\ outbox'[Session!Item(v)].value = outbox[Session!Item(v)].value
  <2>1. ASSUME work[v].items # {} PROVE Session!Item(v) \in 1 .. Len(outbox)
    BY <1>0, <2>1, ItemIs DEF WorkerHolds
  <2> QED
    BY <1>0, <2>1 DEF OutboxGoesOn
<1>4. work[v].late => work[v].pc \in {"sending", "heard"} /\ outbox'[Session!Item(v)].target \in strayed'
  BY <1>3 DEF WorkerHolds, OutboxGoesOn
<1>5. ASSUME work[v].pc # "idle", ~work[v].late
      PROVE  /\ holder' = v
             /\ work[v].items \subseteq Session!Unsettled'
             /\ \A i \in Session!Unsettled' \ work[v].items, k \in work[v].items : k < i
  <2>1. \A i : i \in Session!Unsettled' <=> i \in 1 .. Len(outbox') /\ Session!Pending(i)'
    BY <1>0 DEF Session!Unsettled
  <2>2. \A i : i \in Session!Unsettled <=> i \in 1 .. Len(outbox) /\ Session!Pending(i)
    BY <1>0 DEF Session!Unsettled
  <2>3. work[v].items \subseteq Session!Unsettled'
    BY <1>1, <1>5, <2>1
  <2>4. ASSUME NEW i \in Session!Unsettled' \ work[v].items, NEW k \in work[v].items PROVE k < i
    <3>1. k \in 1 .. Len(outbox) /\ i \in 1 .. Len(outbox')
      BY <2>1, <2>4 DEF WorkerHolds
    <3>2. CASE i > Len(outbox)
      BY <1>0, <3>1, <3>2
    <3>3. CASE ~(i > Len(outbox))
      <4>1. i \in Session!Unsettled
        BY <1>0, <1>5, <2>1, <2>2, <3>1, <3>3
      <4> QED
        BY <1>5, <4>1 DEF WorkerHolds
    <3> QED
      BY <3>2, <3>3
  <2> QED
    BY <1>5, <2>3, <2>4
<1>6. work[v].pc = "heard" /\ work[v].outcome = "DELIVERED" /\ outbox'[Session!Item(v)].target \notin strayed' =>
         mirror'[outbox'[Session!Item(v)].target] >= outbox'[Session!Item(v)].value
  <2> SUFFICES ASSUME work[v].pc = "heard", work[v].outcome = "DELIVERED", outbox'[Session!Item(v)].target \notin strayed'
               PROVE  mirror'[outbox'[Session!Item(v)].target] >= outbox'[Session!Item(v)].value
    OBVIOUS
  <2>1. work[v].items # {}
    BY DEF WorkerHolds
  <2>2. PICK t, n : t = outbox[Session!Item(v)].target /\ n = outbox[Session!Item(v)].value
    OBVIOUS
  <2>3. t \in Session!Target /\ n \in Nat /\ t \notin strayed'
    BY <1>3, <2>1, <2>2 DEF OutboxRecord
  <2>4. t \notin strayed
    BY <2>3 DEF OutboxGoesOn
  <2>5. mirror[t] >= n
    BY <2>2, <2>4 DEF WorkerHolds
  <2>6. mirror[t] <= mirror'[t] /\ mirror[t] \in Nat /\ mirror'[t] \in Nat
    BY <1>0, <2>3 DEF OutboxGoesOn
  <2>7. mirror'[t] >= n
    BY <2>3, <2>5, <2>6
  <2> QED
    BY <1>3, <2>1, <2>2, <2>7
<1> QED
  BY <1>1, <1>2, <1>4, <1>5, <1>6 DEF WorkerHolds

(* What was delivered stays so, in a step that delivers nothing else.      *)
LEMMA DeliveredStays ==
    ASSUME OutboxTypes, OutboxTypes', OutboxGoesOn, Session!DeliveredIsShown,
           \A i \in 1 .. Len(outbox') : outbox'[i].status = "DELIVERED" =>
              \/ i \in 1 .. Len(outbox) /\ outbox[i].status = "DELIVERED"
              \/ outbox'[i].target \in strayed'
              \/ mirror'[outbox'[i].target] >= outbox'[i].value
              \/ i < Len(outbox') /\ outbox'[i + 1].target = outbox'[i].target
    PROVE  Session!DeliveredIsShown'
<1>0. /\ outbox \in Seq(OutboxRecord) /\ outbox' \in Seq(OutboxRecord) /\ Len(outbox) \in Nat /\ Len(outbox') \in Nat
      /\ Len(outbox) <= Len(outbox') /\ DOMAIN outbox = 1 .. Len(outbox) /\ DOMAIN outbox' = 1 .. Len(outbox')
      /\ mirror \in [Session!Target -> Nat] /\ mirror' \in [Session!Target -> Nat]
  BY DEF OutboxTypes, OutboxGoesOn
<1> SUFFICES ASSUME NEW i \in 1 .. Len(outbox'), outbox'[i].status = "DELIVERED", outbox'[i].target \notin strayed'
             PROVE  \/ mirror'[outbox'[i].target] >= outbox'[i].value
                    \/ i < Len(outbox') /\ outbox'[i + 1].target = outbox'[i].target
  BY <1>0 DEF Session!DeliveredIsShown
<1>1. CASE i \in 1 .. Len(outbox) /\ outbox[i].status = "DELIVERED"
  <2>1. /\ outbox'[i].target = outbox[i].target /\ outbox'[i].value = outbox[i].value
        /\ outbox[i].target \in Session!Target /\ outbox[i].value \in Nat /\ outbox[i].target \notin strayed
    <3>1. outbox[i] \in OutboxRecord
      BY <1>0, <1>1
    <3> QED
      BY <1>1, <3>1 DEF OutboxGoesOn, OutboxRecord
  <2>2. CASE mirror[outbox[i].target] >= outbox[i].value
    <3>1. /\ mirror[outbox[i].target] <= mirror'[outbox[i].target] /\ mirror[outbox[i].target] \in Nat
          /\ mirror'[outbox[i].target] \in Nat
      BY <1>0, <2>1 DEF OutboxGoesOn
    <3> QED
      BY <2>1, <2>2, <3>1
  <2>3. CASE i < Len(outbox) /\ outbox[i + 1].target = outbox[i].target
    <3>1. i + 1 \in 1 .. Len(outbox)
      BY <1>0, <2>3
    <3> QED
      BY <1>0, <2>1, <2>3, <3>1 DEF OutboxGoesOn
  <2> QED
    BY <1>0, <1>1, <2>1, <2>2, <2>3 DEF Session!DeliveredIsShown
<1> QED
  BY <1>1

-----------------------------------------------------------------------------
(* The session: steps *)

SessionTimes == UNCHANGED <<outbox, written, mirror>> /\ strayed \subseteq strayed'

LEMMA RecordsLeft ==
    ASSUME OutboxTypes, UNCHANGED outbox, strayed \subseteq strayed', UNCHANGED mirror
    PROVE  OutboxGoesOn
<1>1. \A t \in Session!Target : mirror[t] \in Nat
  BY DEF OutboxTypes
<1>2. Len(outbox) \in Nat
  BY DEF OutboxTypes
<1> QED
  BY <1>1, <1>2 DEF OutboxGoesOn

(* One worker goes on; nothing is written or shown.                        *)
LEMMA OneWorks ==
    ASSUME OutboxInv, NEW w \in Worker, NEW x \in WorkOf, work' = [work EXCEPT ![w] = x], SessionTimes,
           \A q \in adrift' : q.target \in strayed' /\ q.target \in Session!Target /\ q.value \in Nat,
           failures' \in Nat, holder' \in Worker \cup {"nobody"},
           \A v \in Worker : holder = v /\ v # w => holder' = v,
           WorkerHolds(w)'
    PROVE  OutboxInv'
<1>0. OutboxTypes /\ OutboxInOrder /\ MirrorInOrder /\ Session!DeliveredIsShown /\ UNCHANGED <<outbox, written, mirror>>
      /\ strayed \subseteq strayed'
  BY DEF OutboxInv, SessionTimes
<1>1. OutboxTypes'
  BY <1>0 DEF OutboxTypes, Session!Target
<1>2. OutboxGoesOn
  BY <1>0, RecordsLeft
<1>3. OutboxInOrder'
  BY <1>0 DEF OutboxInOrder, Session!Pending
<1>4. MirrorInOrder'
  BY <1>0 DEF MirrorInOrder, Session!Pending, Session!Target
<1>5. Session!DeliveredIsShown'
  BY <1>0 DEF Session!DeliveredIsShown
<1>6. ASSUME NEW v \in Worker PROVE WorkerHolds(v)'
  <2>1. CASE v = w
    BY <2>1
  <2>2. CASE v # w
    <3>1. WorkerHolds(v) /\ work'[v] = work[v]
      BY <1>0, <2>2 DEF OutboxInv, OutboxTypes
    <3>2. work[v].pc # "idle" /\ ~work[v].late =>
             /\ holder' = v
             /\ \A i \in work[v].items : Session!Pending(i)'
             /\ \A i \in 1 .. Len(outbox') : Session!Pending(i)' => i > Len(outbox) \/ Session!Pending(i)
      BY <1>0, <2>2, <3>1 DEF WorkerHolds, Session!Unsettled, Session!Pending
    <3> QED
      BY <1>0, <1>1, <1>2, <3>1, <3>2, WorkerStays
  <2> QED
    BY <2>1, <2>2
<1> QED
  BY <1>1, <1>3, <1>4, <1>5, <1>6 DEF OutboxInv

(* A worker that is through with its session.                              *)
LEMMA OneRests ==
    ASSUME OutboxInv, NEW w \in Worker, work' = [work EXCEPT ![w] = Session!Idle], SessionTimes,
           \A q \in adrift' : q.target \in strayed' /\ q.target \in Session!Target /\ q.value \in Nat,
           failures' \in Nat, holder' \in {holder, IF holder = w THEN "nobody" ELSE holder}
    PROVE  OutboxInv'
<1>0. holder \in Worker \cup {"nobody"} /\ work \in [Worker -> WorkOf]
  BY DEF OutboxInv, OutboxTypes
<1>1. holder' \in Worker \cup {"nobody"} /\ \A v \in Worker : holder = v /\ v # w => holder' = v
  BY <1>0
<1>2. work'[w] = Session!Idle
  BY <1>0
<1>3. WorkerHolds(w)'
  BY <1>2, SessionWords DEF WorkerHolds
<1> QED
  BY <1>1, <1>3, SessionWords, OneWorks

LEMMA LocksKeep ==
    ASSUME OutboxInv, NEW w \in Worker, Session!Locks(w)
    PROVE  OutboxInv'
<1>0. /\ outbox \in Seq(OutboxRecord) /\ Len(outbox) \in Nat /\ work \in [Worker -> WorkOf]
      /\ holder = "nobody" /\ holder' = w
      /\ UNCHANGED <<outbox, written, mirror, adrift, strayed, failures>>
  BY SessionWords DEF OutboxInv, OutboxTypes, Session!Locks, Session!MayLock
<1>u. Session!Unsettled \subseteq 1 .. Len(outbox) /\ Session!Unsettled \in SUBSET Nat
  BY <1>0 DEF Session!Unsettled
<1>1. PICK x : x = [Session!Idle EXCEPT !.pc = "going", !.items = Session!Heads]
  OBVIOUS
<1>2. /\ x \in WorkOf /\ x.pc = "going" /\ x.items = Session!Heads /\ x.late = FALSE /\ x.outcome = "none"
  BY <1>u, <1>1, SessionWords DEF WorkOf, Session!Heads
<1>3. work' = [work EXCEPT ![w] = x] /\ work'[w] = x
  BY <1>0, <1>1 DEF Session!Locks
<1>4. ASSUME NEW i \in Session!Unsettled \ Session!Heads, NEW k \in Session!Heads PROVE k < i
  <2>1. i \in Nat /\ k \in Nat /\ k \in Session!Unsettled
    BY <1>u DEF Session!Heads
  <2>2. CASE i <= k
    <3> DEFINE Before(n) == {j \in Session!Unsettled : j < n}
    <3>1. IsFiniteSet(1 .. Len(outbox))
      BY <1>0, FS_Interval
    <3>2. Before(i) \subseteq Before(k) /\ Before(k) \subseteq 1 .. Len(outbox)
      <4>1. \A j \in Session!Unsettled : j \in Nat /\ (j < i => j < k)
        BY <1>u, <2>1, <2>2
      <4> QED
        BY <1>u, <4>1
    <3>3. IsFiniteSet(Before(k)) /\ IsFiniteSet(Before(i))
      BY <3>1, <3>2, FS_Subset
    <3>4. Cardinality(Before(i)) <= Cardinality(Before(k)) /\ Cardinality(Before(k)) \in Nat /\ Cardinality(Before(i)) \in Nat
      BY <3>2, <3>3, FS_Subset, FS_CardinalityType
    <3>5. Cardinality(Before(k)) < Batch
      BY SessionCount DEF Session!Heads
    <3>6. Cardinality(Before(i)) < Batch
      BY <3>4, <3>5, SessionWords
    <3>7. i \in Session!Heads
      BY <3>6, SessionCount DEF Session!Heads
    <3> QED
      BY <3>7
  <2> QED
    BY <2>1, <2>2
<1>5. WorkerHolds(w)'
  <2>1. Session!Unsettled' = Session!Unsettled
    BY <1>0 DEF Session!Unsettled, Session!Pending
  <2>2. Session!Heads \subseteq Session!Unsettled
    BY DEF Session!Heads
  <2> QED
    BY <1>0, <1>u, <1>2, <1>3, <1>4, <2>1, <2>2 DEF WorkerHolds
<1>6. \A q \in adrift' : q.target \in strayed' /\ q.target \in Session!Target /\ q.value \in Nat
  BY <1>0 DEF OutboxInv, OutboxTypes
<1>7. failures' \in Nat /\ SessionTimes
  BY <1>0 DEF OutboxInv, OutboxTypes, SessionTimes
<1>8. holder' \in Worker \cup {"nobody"} /\ \A v \in Worker : holder = v /\ v # w => holder' = v
  BY <1>0, SessionWords
<1> QED
  BY <1>2, <1>3, <1>5, <1>6, <1>7, <1>8, OneWorks

(* A worker that stays at its record, with what it has heard of it.        *)
LEMMA StaysAtIt ==
    ASSUME OutboxInv, NEW w \in Worker, work[w].pc # "idle", work[w].items # {}, SessionTimes,
           NEW x \in WorkOf, work' = [work EXCEPT ![w] = x],
           x.pc \in {"sending", "heard"}, x.items = work[w].items,
           \/ x.late = work[w].late /\ holder' = holder /\ (x.pc = "heard" => x.outcome # "DELIVERED")
           \/ x.late /\ outbox[Session!Item(w)].target \in strayed' /\ holder' = IF holder = w THEN "nobody" ELSE holder,
           \A q \in adrift' : q.target \in strayed' /\ q.target \in Session!Target /\ q.value \in Nat,
           failures' \in Nat
    PROVE  OutboxInv'
<1>0. /\ outbox \in Seq(OutboxRecord) /\ holder \in Worker \cup {"nobody"} /\ work \in [Worker -> WorkOf]
      /\ WorkerHolds(w) /\ UNCHANGED outbox /\ strayed \subseteq strayed' /\ UNCHANGED mirror
  BY DEF OutboxInv, OutboxTypes, SessionTimes
<1>1. work'[w] = x /\ Session!Item(w)' = Session!Item(w)
  BY <1>0 DEF Session!Item
<1>2. Session!Unsettled' = Session!Unsettled
  BY <1>0 DEF Session!Unsettled, Session!Pending
<1>3. x.items \subseteq 1 .. Len(outbox')
  BY <1>0 DEF WorkerHolds
<1>4. x.late => x.pc \in {"sending", "heard"} /\ outbox'[Session!Item(w)].target \in strayed'
  BY <1>0 DEF WorkerHolds
<1>5. ~x.late => /\ holder' = w /\ x.items \subseteq Session!Unsettled'
                 /\ \A i \in Session!Unsettled' \ x.items, k \in x.items : k < i
  BY <1>0, <1>2 DEF WorkerHolds
<1>6. x.pc = "heard" /\ x.outcome = "DELIVERED" => outbox'[Session!Item(w)].target \in strayed'
  BY <1>0
<1>7. WorkerHolds(w)'
  BY <1>1, <1>3, <1>4, <1>5, <1>6 DEF WorkerHolds
<1>8. holder' \in Worker \cup {"nobody"} /\ \A v \in Worker : holder = v /\ v # w => holder' = v
  BY <1>0
<1> QED
  BY <1>7, <1>8, OneWorks

(* A worker at its record, and what it becomes.                            *)
LEMMA AtItem ==
    ASSUME OutboxInv, NEW w \in Worker, work[w].items # {}
    PROVE  /\ work[w] \in WorkOf
           /\ Session!Item(w) \in 1 .. Len(outbox)
           /\ outbox[Session!Item(w)] \in OutboxRecord
           /\ outbox[Session!Item(w)].target \in Session!Target /\ outbox[Session!Item(w)].value \in Nat
<1>1. outbox \in Seq(OutboxRecord) /\ work[w] \in WorkOf /\ work[w].items \subseteq 1 .. Len(outbox)
  BY DEF OutboxInv, OutboxTypes, WorkerHolds
<1>2. Session!Item(w) \in 1 .. Len(outbox) /\ outbox[Session!Item(w)] \in OutboxRecord
  BY <1>1, ItemIs
<1> QED
  BY <1>1, <1>2 DEF OutboxRecord

LEMMA OnItsWay ==
    ASSUME OutboxInv, NEW w \in Worker, work[w].pc \in {"sending", "heard"}
    PROVE  work[w].items # {}
  BY DEF OutboxInv, WorkerHolds

(* The steps of a worker that write nothing and show nothing.              *)
LEMMA QuietSteps ==
    ASSUME OutboxInv, NEW w \in Worker,
           \/ Session!Stops(w) \/ Session!GivesUp(w) \/ Session!Dies(w)
           \/ Session!Sends(w) \/ Session!IsNotTaken(w) \/ Session!LosesLock(w)
           \/ Session!IsAnswered(w) /\ ~Session!HasContext(outbox[Session!Item(w)].target)
    PROVE  OutboxInv'
<1>0. /\ \A q \in adrift : q.target \in strayed /\ q.target \in Session!Target /\ q.value \in Nat
      /\ failures \in Nat /\ work \in [Worker -> WorkOf] /\ work[w] \in WorkOf
  BY DEF OutboxInv, OutboxTypes
<1>1. CASE Session!Stops(w)
  BY <1>0, <1>1, OneRests, SessionWords DEF Session!Stops, Session!Unlocks, SessionTimes
<1>2. CASE Session!GivesUp(w)
  BY <1>0, <1>2, OneRests DEF Session!GivesUp, SessionTimes
<1>3. CASE Session!Dies(w)
  <2>1. /\ UNCHANGED <<outbox, written, mirror>> /\ failures' = failures + 1
        /\ work' = [work EXCEPT ![w] = Session!Idle] /\ holder' = IF holder = w THEN "nobody" ELSE holder
    BY <1>3, SessionWords DEF Session!Dies, Session!Unlocks, Session!Fault
  <2>2. strayed \subseteq strayed' /\ \A q \in adrift' : q.target \in strayed' /\ q.target \in Session!Target /\ q.value \in Nat
    <3>1. CASE work[w].pc = "sending"
      <4>1. /\ outbox[Session!Item(w)].target \in Session!Target /\ outbox[Session!Item(w)].value \in Nat
        BY <3>1, AtItem, OnItsWay
      <4>2. /\ strayed' = strayed \cup {outbox[Session!Item(w)].target}
            /\ adrift' \subseteq adrift \cup {[target |-> outbox[Session!Item(w)].target, value |-> outbox[Session!Item(w)].value]}
        BY <1>3, <3>1 DEF Session!Dies
      <4> QED
        BY <1>0, <4>1, <4>2
    <3>2. CASE work[w].pc # "sending"
      BY <1>0, <1>3, <3>2 DEF Session!Dies
    <3> QED
      BY <3>1, <3>2
  <2>3. failures' \in Nat /\ holder' \in {holder, IF holder = w THEN "nobody" ELSE holder}
    BY <1>0, <2>1
  <2> QED
    BY <2>1, <2>2, <2>3, OneRests DEF SessionTimes
<1>4. CASE Session!Sends(w)
  <2>1. PICK x : x = [work[w] EXCEPT !.pc = "sending"]
    OBVIOUS
  <2>2. x \in WorkOf /\ x.pc = "sending" /\ x.items = work[w].items /\ x.late = work[w].late
    BY <1>0, <2>1 DEF WorkOf
  <2>3. work' = [work EXCEPT ![w] = x] /\ work[w].pc = "going" /\ work[w].items # {}
        /\ UNCHANGED <<outbox, written, mirror, holder, adrift, strayed, failures>>
    BY <1>0, <1>4, <2>1 DEF Session!Sends
  <2> QED
    BY <1>0, <2>2, <2>3, StaysAtIt DEF SessionTimes
<1>5. CASE Session!IsNotTaken(w)
  <2>0. work[w].pc = "sending" /\ work[w].items # {} /\ failures' \in Nat /\ UNCHANGED <<outbox, written, mirror, holder>>
    BY <1>0, <1>5, OnItsWay DEF Session!IsNotTaken, Session!Fault
  <2>1. PICK o \in {"REJECTED", "RETRY"} : work' = [work EXCEPT ![w].pc = "heard", ![w].outcome = o]
    BY <1>5 DEF Session!IsNotTaken, Session!Hears
  <2>2. PICK x : x = [work[w] EXCEPT !.pc = "heard", !.outcome = o]
    OBVIOUS
  <2>3. x \in WorkOf /\ x.pc = "heard" /\ x.items = work[w].items /\ x.late = work[w].late /\ x.outcome # "DELIVERED"
    BY <1>0, <2>1, <2>2 DEF WorkOf
  <2>4. work' = [work EXCEPT ![w] = x]
    BY <1>0, <2>1, <2>2
  <2>5. strayed \subseteq strayed' /\ \A q \in adrift' : q.target \in strayed' /\ q.target \in Session!Target /\ q.value \in Nat
    <3>1. /\ outbox[Session!Item(w)].target \in Session!Target /\ outbox[Session!Item(w)].value \in Nat
      BY <2>0, AtItem
    <3>2. \/ UNCHANGED <<adrift, strayed>>
          \/ /\ strayed' = strayed \cup {outbox[Session!Item(w)].target}
             /\ adrift' = adrift \cup {[target |-> outbox[Session!Item(w)].target, value |-> outbox[Session!Item(w)].value]}
      BY <1>5 DEF Session!IsNotTaken
    <3> QED
      BY <1>0, <3>1, <3>2
  <2> QED
    BY <2>0, <2>3, <2>4, <2>5, StaysAtIt DEF SessionTimes
<1>6. CASE Session!LosesLock(w)
  <2>0. /\ work[w].pc \in {"sending", "heard"} /\ work[w].items # {} /\ failures' \in Nat
        /\ UNCHANGED <<outbox, written, mirror, adrift>>
        /\ strayed' = strayed \cup {outbox[Session!Item(w)].target}
        /\ holder' = IF holder = w THEN "nobody" ELSE holder
    BY <1>0, <1>6, OnItsWay, SessionWords DEF Session!LosesLock, Session!Fault
  <2>1. PICK x : x = [work[w] EXCEPT !.late = TRUE]
    OBVIOUS
  <2>2. x \in WorkOf /\ x.pc = work[w].pc /\ x.items = work[w].items /\ x.late
    BY <1>0, <2>1 DEF WorkOf
  <2>3. work' = [work EXCEPT ![w] = x]
    BY <1>0, <1>6, <2>1 DEF Session!LosesLock
  <2> QED
    BY <1>0, <2>0, <2>2, <2>3, StaysAtIt DEF SessionTimes
<1>7. CASE Session!IsAnswered(w) /\ ~Session!HasContext(outbox[Session!Item(w)].target)
  <2>0. /\ work[w].pc = "sending" /\ work[w].items # {}
        /\ UNCHANGED <<outbox, written, mirror, holder, adrift, strayed, failures>>
        /\ work' = [work EXCEPT ![w].pc = "heard", ![w].outcome = "NOT FOUND"]
    BY <1>7, OnItsWay DEF Session!IsAnswered, Session!Hears
  <2>1. PICK x : x = [work[w] EXCEPT !.pc = "heard", !.outcome = "NOT FOUND"]
    OBVIOUS
  <2>2. x \in WorkOf /\ x.pc = "heard" /\ x.items = work[w].items /\ x.late = work[w].late /\ x.outcome # "DELIVERED"
    BY <1>0, <2>1 DEF WorkOf
  <2>3. work' = [work EXCEPT ![w] = x]
    BY <1>0, <2>0, <2>1
  <2> QED
    BY <1>0, <2>0, <2>2, <2>3, StaysAtIt DEF SessionTimes
<1> QED
  BY <1>1, <1>2, <1>3, <1>4, <1>5, <1>6, <1>7

(* What a record puts in the workspace is no older than what is there.     *)
PutsForward(t, n) ==
    /\ t \in Session!Target /\ n \in Nat
    /\ mirror' = [mirror EXCEPT ![t] = n]
    /\ t \notin strayed => mirror[t] <= n

LEMMA ForwardIsOnward ==
    ASSUME OutboxTypes, NEW t, NEW n, PutsForward(t, n), UNCHANGED <<outbox, strayed>>
    PROVE  OutboxGoesOn /\ mirror' \in [Session!Target -> Nat]
<1>1. mirror \in [Session!Target -> Nat] /\ Len(outbox) \in Nat
  BY DEF OutboxTypes
<1>2. \A s \in Session!Target : s \notin strayed' => mirror[s] <= mirror'[s]
  BY <1>1 DEF PutsForward
<1> QED
  BY <1>1, <1>2 DEF OutboxGoesOn, PutsForward

LEMMA AnsweredKeeps ==
    ASSUME OutboxInv, NEW w \in Worker, Session!IsAnswered(w), Session!HasContext(outbox[Session!Item(w)].target)
    PROVE  OutboxInv' /\ OutboxGoesOn
<1>0. /\ OutboxTypes /\ OutboxInOrder /\ MirrorInOrder /\ Session!DeliveredIsShown /\ WorkerHolds(w)
      /\ work \in [Worker -> WorkOf] /\ mirror \in [Session!Target -> Nat] /\ outbox \in Seq(OutboxRecord)
      /\ written \in [Session!Target -> Nat]
  BY DEF OutboxInv, OutboxTypes
<1>1. /\ work[w].pc = "sending" /\ work[w].items # {}
      /\ UNCHANGED <<outbox, written, holder, adrift, strayed, failures>>
      /\ work' = [work EXCEPT ![w].pc = "heard", ![w].outcome = "DELIVERED"]
      /\ mirror' = [mirror EXCEPT ![outbox[Session!Item(w)].target] = outbox[Session!Item(w)].value]
  BY OnItsWay DEF Session!IsAnswered, Session!Hears, Session!Put
<1>2. PICK i \in 1 .. Len(outbox), t \in Session!Target, n \in Nat :
         i = Session!Item(w) /\ t = outbox[i].target /\ n = outbox[i].value
  BY <1>1, AtItem
<1>3. ~work[w].late => Session!Pending(i) /\ \A k \in 1 .. Len(outbox) : Session!Pending(k) => i <= k
  BY <1>1, <1>2, AtTheFirst
<1>4. work[w].late => t \in strayed
  BY <1>2 DEF OutboxInv, WorkerHolds
<1>5. t \notin strayed => mirror[t] <= n
  BY <1>0, <1>2, <1>3, <1>4 DEF MirrorInOrder
<1>6. mirror' = [mirror EXCEPT ![t] = n]
  BY <1>1, <1>2
<1>7. OutboxGoesOn /\ mirror' \in [Session!Target -> Nat]
  BY <1>0, <1>1, <1>5, <1>6, ForwardIsOnward DEF PutsForward
<1>8. PICK x : x = [work[w] EXCEPT !.pc = "heard", !.outcome = "DELIVERED"]
  OBVIOUS
<1>9. /\ x \in WorkOf /\ x.pc = "heard" /\ x.items = work[w].items /\ x.late = work[w].late
      /\ work' = [work EXCEPT ![w] = x] /\ work'[w] = x
  BY <1>0, <1>1, <1>8 DEF WorkOf
<1>10. OutboxTypes'
  BY <1>0, <1>1, <1>7, <1>9 DEF OutboxTypes, Session!Target
<1>11. OutboxInOrder'
  BY <1>0, <1>1 DEF OutboxInOrder, Session!Pending
<1>12. MirrorInOrder'
  <2>1. \A s \in Session!Target \ strayed : mirror'[s] <= written[s]
    <3>1. n <= written[t]
      BY <1>0, <1>2 DEF OutboxInOrder
    <3> QED
      BY <1>0, <1>6, <3>1 DEF MirrorInOrder
  <2>2. ASSUME NEW k \in 1 .. Len(outbox), Session!Pending(k), outbox[k].target \notin strayed
        PROVE  mirror'[outbox[k].target] <= outbox[k].value
    <3>1. outbox[k] \in OutboxRecord
      BY <1>0
    <3>2. outbox[k].target \in Session!Target /\ outbox[k].value \in Nat
      BY <3>1 DEF OutboxRecord
    <3>3. CASE outbox[k].target = t
      <4>1. i <= k
        BY <1>3, <1>4, <2>2, <3>3
      <4>2. n <= outbox[k].value
        BY <1>0, <1>2, <3>2, <3>3, <4>1 DEF OutboxInOrder
      <4> QED
        BY <1>0, <1>6, <3>3, <4>2
    <3>4. CASE outbox[k].target # t
      BY <1>0, <1>6, <2>2, <3>2, <3>4 DEF MirrorInOrder
    <3> QED
      BY <3>3, <3>4
  <2> QED
    BY <1>1, <2>1, <2>2 DEF MirrorInOrder, Session!Pending, Session!Target
<1>13. Session!DeliveredIsShown'
  <2>1. \A k \in 1 .. Len(outbox') : outbox'[k].status = "DELIVERED" => k \in 1 .. Len(outbox) /\ outbox[k].status = "DELIVERED"
    BY <1>1
  <2> QED
    BY <1>0, <1>7, <1>10, <2>1, DeliveredStays
<1>14. ASSUME NEW v \in Worker PROVE WorkerHolds(v)'
  <2>1. CASE v = w
    <3>1. Session!Item(w)' = Session!Item(w)
      BY <1>9 DEF Session!Item
    <3>2. Session!Unsettled' = Session!Unsettled
      BY <1>1 DEF Session!Unsettled, Session!Pending
    <3>3. mirror'[t] = n
      BY <1>0, <1>6
    <3>4. mirror'[outbox'[Session!Item(w)].target] >= outbox'[Session!Item(w)].value
      BY <1>1, <1>2, <3>3
    <3>5. work[w].items \subseteq 1 .. Len(outbox') /\ work[w].items # {}
      BY <1>0, <1>1 DEF WorkerHolds
    <3>6. work[w].late => outbox'[Session!Item(w)].target \in strayed'
      BY <1>1, <1>2, <1>4
    <3>7. ~work[w].late => /\ holder' = w /\ work[w].items \subseteq Session!Unsettled'
                           /\ \A k \in Session!Unsettled' \ work[w].items, j \in work[w].items : j < k
      BY <1>0, <1>1, <3>2 DEF WorkerHolds
    <3> QED
      BY <1>9, <2>1, <3>1, <3>4, <3>5, <3>6, <3>7 DEF WorkerHolds
  <2>2. CASE v # w
    <3>1. WorkerHolds(v) /\ work'[v] = work[v]
      BY <1>0, <1>9, <2>2 DEF OutboxInv
    <3>2. work[v].pc # "idle" /\ ~work[v].late =>
             /\ holder' = v
             /\ \A k \in work[v].items : Session!Pending(k)'
             /\ \A k \in 1 .. Len(outbox') : Session!Pending(k)' => k > Len(outbox) \/ Session!Pending(k)
      BY <1>1, <3>1 DEF WorkerHolds, Session!Unsettled, Session!Pending
    <3> QED
      BY <1>0, <1>7, <1>10, <3>1, <3>2, WorkerStays
  <2> QED
    BY <2>1, <2>2
<1> QED
  BY <1>7, <1>10, <1>11, <1>12, <1>13, <1>14 DEF OutboxInv

(* A worker settles the record it is at, and goes on or lets the session go. *)
LEMMA RecordSettled ==
    ASSUME OutboxInv, NEW w \in Worker, work[w].pc # "idle", ~work[w].late, work[w].items # {},
           NEW i \in 1 .. Len(outbox), i = Session!Item(w), NEW r \in OutboxRecord, NEW x \in WorkOf,
           r.target = outbox[i].target, r.value = outbox[i].value,
           r.attempts <= MaxAttempts + MaxNotFound, r.status = "PENDING" => r.attempts < MaxAttempts + MaxNotFound,
           outbox' = [outbox EXCEPT ![i] = r], work' = [work EXCEPT ![w] = x],
           UNCHANGED <<written, mirror, adrift, strayed, failures>>,
           \/ /\ r.status # "PENDING" /\ holder' = holder
              /\ x.pc = "going" /\ x.items = Session!Rest(w) /\ x.late = FALSE
           \/ x = Session!Idle /\ holder' = IF holder = w THEN "nobody" ELSE holder,
           r.status = "DELIVERED" =>
              Session!NextIsSame(w) \/ r.target \in strayed \/ mirror[r.target] >= r.value
    PROVE  OutboxInv'
<1>0. /\ OutboxTypes /\ OutboxInOrder /\ MirrorInOrder /\ Session!DeliveredIsShown /\ WorkerHolds(w)
      /\ work \in [Worker -> WorkOf] /\ mirror \in [Session!Target -> Nat] /\ outbox \in Seq(OutboxRecord)
      /\ Len(outbox) \in Nat /\ holder = w
  BY DEF OutboxInv, OutboxTypes, WorkerHolds
<1>1. i \in work[w].items /\ \A k \in work[w].items : i <= k
  BY <1>0, ItemIs DEF WorkerHolds
<1>2. /\ Session!Pending(i) /\ \A k \in 1 .. Len(outbox) : Session!Pending(k) => i <= k
      /\ Session!NextIsSame(w) => i + 1 \in 1 .. Len(outbox) /\ outbox[i + 1].target = r.target
  BY <1>1, AtTheFirst
<1>3. /\ outbox' \in Seq(OutboxRecord) /\ Len(outbox') = Len(outbox)
      /\ \A k \in 1 .. Len(outbox) : outbox'[k] = IF k = i THEN r ELSE outbox[k]
  BY <1>0, <1>1
<1>4. /\ r.target = outbox[i].target /\ r.value = outbox[i].value /\ outbox[i] \in OutboxRecord
      /\ r.target \in Session!Target /\ r.value \in Nat
  <2>1. outbox[i] \in OutboxRecord
    BY <1>0
  <2> QED
    BY <2>1 DEF OutboxRecord
<1>5. OutboxTypes'
  <2>1. holder' \in Worker \cup {"nobody"}
    BY <1>0
  <2>2. work' \in [Worker -> WorkOf]
    BY <1>0
  <2> QED
    BY <1>0, <1>3, <2>1, <2>2 DEF OutboxTypes, Session!Target
<1>6. OutboxGoesOn
  <2>1. \A t \in Session!Target : mirror[t] \in Nat
    BY <1>0
  <2> QED
    BY <1>0, <1>3, <1>4, <2>1 DEF OutboxGoesOn
<1>7. \A k \in 1 .. Len(outbox) : Session!Pending(k)' => Session!Pending(k)
  BY <1>2, <1>3 DEF Session!Pending
<1>8. OutboxInOrder'
  <2>1. ASSUME NEW k \in 1 .. Len(outbox')
        PROVE  /\ outbox'[k].value <= written'[outbox'[k].target]
               /\ outbox'[k].attempts <= MaxAttempts + MaxNotFound
               /\ Session!Pending(k)' => outbox'[k].attempts < MaxAttempts + MaxNotFound
    BY <1>0, <1>3, <1>4 DEF OutboxInOrder, Session!Pending
  <2>2. ASSUME NEW j \in 1 .. Len(outbox'), NEW k \in 1 .. Len(outbox'), j < k
        PROVE  /\ outbox'[j].target = outbox'[k].target => outbox'[j].value < outbox'[k].value
               /\ Session!Pending(j)' => Session!Pending(k)'
    <3>1. outbox'[j].target = outbox'[k].target => outbox'[j].value < outbox'[k].value
      BY <1>0, <1>3, <1>4, <2>2 DEF OutboxInOrder
    <3>2. ASSUME Session!Pending(j)' PROVE Session!Pending(k)'
      <4>1. Session!Pending(j) /\ i <= j
        BY <1>2, <1>3, <1>7, <3>2
      <4>2. Session!Pending(k) /\ k # i
        BY <1>0, <1>3, <2>2, <4>1 DEF OutboxInOrder
      <4> QED
        BY <1>3, <4>2 DEF Session!Pending
    <3> QED
      BY <3>1, <3>2
  <2> QED
    BY <2>1, <2>2 DEF OutboxInOrder
<1>9. MirrorInOrder'
  <2>1. \A t \in Session!Target \ strayed' : mirror'[t] <= written'[t]
    BY <1>0 DEF MirrorInOrder
  <2>2. \A k \in 1 .. Len(outbox') : Session!Pending(k)' /\ outbox'[k].target \notin strayed' =>
           mirror'[outbox'[k].target] <= outbox'[k].value
    BY <1>0, <1>3, <1>4, <1>7 DEF MirrorInOrder
  <2> QED
    BY <2>1, <2>2 DEF MirrorInOrder, Session!Target
<1>10. Session!DeliveredIsShown'
  <2>1. ASSUME NEW k \in 1 .. Len(outbox'), outbox'[k].status = "DELIVERED"
        PROVE  \/ k \in 1 .. Len(outbox) /\ outbox[k].status = "DELIVERED"
               \/ outbox'[k].target \in strayed'
               \/ mirror'[outbox'[k].target] >= outbox'[k].value
               \/ k < Len(outbox') /\ outbox'[k + 1].target = outbox'[k].target
    <3>1. CASE k # i
      BY <1>3, <2>1, <3>1
    <3>2. CASE k = i
      <4>1. outbox'[k] = r
        BY <1>3, <3>2
      <4>2. CASE Session!NextIsSame(w)
        <5>1. i + 1 \in 1 .. Len(outbox) /\ outbox[i + 1].target = r.target /\ i + 1 # i
          BY <1>2, <4>2
        <5>2. outbox'[i + 1] = outbox[i + 1] /\ i < Len(outbox')
          BY <1>0, <1>3, <5>1
        <5> QED
          BY <3>2, <4>1, <5>1, <5>2
      <4> QED
        BY <2>1, <4>1, <4>2
    <3> QED
      BY <3>1, <3>2
  <2> QED
    BY <1>0, <1>5, <1>6, <2>1, DeliveredStays
<1>11. ASSUME NEW v \in Worker PROVE WorkerHolds(v)'
  <2>1. CASE v = w
    <3>1. work'[w] = x
      BY <1>0
    <3>2. CASE x = Session!Idle
      BY <2>1, <3>1, <3>2, SessionWords DEF WorkerHolds
    <3>3. CASE /\ r.status # "PENDING" /\ holder' = holder
               /\ x.pc = "going" /\ x.items = Session!Rest(w) /\ x.late = FALSE
      <4>1. x.items = work[w].items \ {i}
        BY <1>1, <3>3 DEF Session!Rest
      <4>2. \A k : k \in Session!Unsettled' <=> k \in 1 .. Len(outbox') /\ Session!Pending(k)'
        BY <1>3 DEF Session!Unsettled
      <4>3. \A k : k \in Session!Unsettled <=> k \in 1 .. Len(outbox) /\ Session!Pending(k)
        BY <1>0 DEF Session!Unsettled
      <4>4. x.items \subseteq 1 .. Len(outbox') /\ x.items \subseteq Session!Unsettled'
        BY <1>0, <1>3, <4>1, <4>2, <4>3 DEF WorkerHolds, Session!Pending
      <4>5. ASSUME NEW k \in Session!Unsettled' \ x.items, NEW j \in x.items PROVE j < k
        <5>1. k \in Session!Unsettled /\ k # i
          BY <1>3, <1>7, <3>3, <4>2, <4>3 DEF Session!Pending
        <5> QED
          BY <1>0, <4>1, <5>1 DEF WorkerHolds
      <4> QED
        BY <1>0, <2>1, <3>1, <3>3, <4>4, <4>5 DEF WorkerHolds
    <3> QED
      BY <3>2, <3>3
  <2>2. CASE v # w
    <3>1. WorkerHolds(v) /\ work'[v] = work[v]
      BY <1>0, <2>2 DEF OutboxInv
    <3>2. ~(work[v].pc # "idle" /\ ~work[v].late)
      BY <1>0, <2>2, <3>1 DEF WorkerHolds
    <3> QED
      BY <1>0, <1>5, <1>6, <3>1, <3>2, WorkerStays
  <2> QED
    BY <2>1, <2>2
<1> QED
  BY <1>5, <1>8, <1>9, <1>10, <1>11 DEF OutboxInv

LEMMA SettledKeeps ==
    ASSUME OutboxInv, NEW w \in Worker, Session!Skips(w) \/ Session!Settles(w)
    PROVE  OutboxInv'
<1>0. /\ work \in [Worker -> WorkOf] /\ outbox \in Seq(OutboxRecord) /\ OutboxInOrder /\ WorkerHolds(w)
      /\ work[w] \in WorkOf
  BY DEF OutboxInv, OutboxTypes
<1>1. /\ work[w].pc # "idle" /\ ~work[w].late /\ work[w].items # {}
      /\ UNCHANGED <<written, mirror, adrift, strayed, failures>>
  BY <1>0 DEF Session!Skips, Session!Settles, WorkerHolds
<1>2. PICK i \in 1 .. Len(outbox) : i = Session!Item(w) /\ outbox[i] \in OutboxRecord
  BY <1>1, AtItem
<1>3. Session!Pending(i)
  BY <1>1, <1>2, AtTheFirst
<1>4. outbox[i].attempts < MaxAttempts + MaxNotFound /\ outbox[i].attempts \in Nat
  BY <1>0, <1>2, <1>3 DEF OutboxInOrder, OutboxRecord
<1>5. PICK x : x = [work[w] EXCEPT !.pc = "going", !.items = Session!Rest(w), !.outcome = "none"]
  OBVIOUS
<1>6. x \in WorkOf /\ x.pc = "going" /\ x.items = Session!Rest(w) /\ x.late = FALSE
  BY <1>0, <1>1, <1>5 DEF WorkOf, Session!Rest
<1>7. Session!Goes(w) => work' = [work EXCEPT ![w] = x] /\ holder' = holder
  BY <1>0, <1>5 DEF Session!Goes
<1>8. PICK d : d = [outbox[i] EXCEPT !.status = "DELIVERED"]
  OBVIOUS
<1>9. /\ d \in OutboxRecord /\ d.target = outbox[i].target /\ d.value = outbox[i].value /\ d.attempts = outbox[i].attempts
      /\ d.status = "DELIVERED" /\ d.attempts <= MaxAttempts + MaxNotFound
      /\ d.status = "PENDING" => d.attempts < MaxAttempts + MaxNotFound
  <2>1. MaxAttempts + MaxNotFound \in Nat
    BY SessionWords
  <2>2. /\ d \in OutboxRecord /\ d.target = outbox[i].target /\ d.value = outbox[i].value
        /\ d.attempts = outbox[i].attempts /\ d.status = "DELIVERED"
    BY <1>2, <1>8 DEF OutboxRecord
  <2> QED
    BY <1>4, <2>1, <2>2
<1>10. MaxAttempts + MaxNotFound \in Nat /\ MaxAttempts \in Nat \ {0} /\ MaxNotFound \in Nat \ {0}
  BY SessionWords
<1>11. CASE Session!Skips(w)
  <2>1. outbox' = [outbox EXCEPT ![i] = d] /\ Session!NextIsSame(w) /\ Session!Goes(w)
    BY <1>0, <1>2, <1>8, <1>11 DEF Session!Skips
  <2> QED
    <3>1. work' = [work EXCEPT ![w] = x] /\ holder' = holder
      BY <1>7, <2>1
    <3> QED
      BY <1>1, <1>2, <1>6, <1>9, <2>1, <3>1, RecordSettled
<1>12. CASE Session!Settles(w) /\ work[w].outcome = "DELIVERED"
  <2>1. outbox' = [outbox EXCEPT ![i] = d] /\ Session!Goes(w) /\ work[w].pc = "heard"
    BY <1>0, <1>2, <1>8, <1>12 DEF Session!Settles
  <2>2. d.target \in strayed \/ mirror[d.target] >= d.value
    BY <1>0, <1>2, <1>9, <1>12, <2>1 DEF WorkerHolds
  <2> QED
    <3>1. work' = [work EXCEPT ![w] = x] /\ holder' = holder
      BY <1>7, <2>1
    <3> QED
      BY <1>1, <1>2, <1>6, <1>9, <2>1, <2>2, <3>1, RecordSettled
<1>13. CASE Session!Settles(w) /\ work[w].outcome # "DELIVERED"
  <2>0. PICK n \in Nat : n = outbox[i].attempts + 1 /\ n <= MaxAttempts + MaxNotFound
    BY <1>4, <1>10
  <2>1. CASE outbox' = [outbox EXCEPT ![i].status = "FAILED", ![i].attempts = @ + 1] /\ Session!Goes(w)
    <3>1. PICK f : f = [outbox[i] EXCEPT !.status = "FAILED", !.attempts = n]
      OBVIOUS
    <3>2. /\ f \in OutboxRecord /\ f.target = outbox[i].target /\ f.value = outbox[i].value /\ f.attempts = n
          /\ f.status = "FAILED"
      BY <1>2, <3>1 DEF OutboxRecord
    <3>3. outbox' = [outbox EXCEPT ![i] = f]
      BY <1>0, <1>2, <2>0, <2>1, <3>1
    <3> QED
      <4>1. work' = [work EXCEPT ![w] = x] /\ holder' = holder
        BY <1>7, <2>1
      <4>2. /\ f.attempts <= MaxAttempts + MaxNotFound /\ f.status # "PENDING" /\ f.status # "DELIVERED"
            /\ f.status = "PENDING" => f.attempts < MaxAttempts + MaxNotFound
        BY <2>0, <3>2
      <4> QED
        BY <1>1, <1>2, <1>6, <3>2, <3>3, <4>1, <4>2, RecordSettled
  <2>2. CASE /\ outbox' = [outbox EXCEPT ![i].attempts = @ + 1, ![i].due = FALSE] /\ Session!Unlocks(w)
             /\ n < MaxAttempts + MaxNotFound
    <3>1. PICK f : f = [outbox[i] EXCEPT !.attempts = n, !.due = FALSE]
      OBVIOUS
    <3>2. /\ f \in OutboxRecord /\ f.target = outbox[i].target /\ f.value = outbox[i].value /\ f.attempts = n
          /\ f.status = outbox[i].status
      BY <1>2, <3>1 DEF OutboxRecord
    <3>3. outbox' = [outbox EXCEPT ![i] = f]
      BY <1>0, <1>2, <2>0, <2>2, <3>1
    <3>4. work' = [work EXCEPT ![w] = Session!Idle] /\ holder' = IF holder = w THEN "nobody" ELSE holder
      BY <2>2, SessionWords DEF Session!Unlocks
    <3>5. f.status # "DELIVERED"
      BY <1>3, <3>2 DEF Session!Pending
    <3> QED
      <4>1. Session!Idle \in WorkOf
        BY SessionWords
      <4>2. f.attempts <= MaxAttempts + MaxNotFound /\ f.attempts < MaxAttempts + MaxNotFound
        BY <2>0, <2>2, <3>2
      <4> QED
        BY <1>1, <1>2, <3>2, <3>3, <3>4, <3>5, <4>1, <4>2, RecordSettled
  <2> QED
    <3>1. \/ outbox' = [outbox EXCEPT ![i].status = "FAILED", ![i].attempts = @ + 1] /\ Session!Goes(w)
          \/ /\ outbox' = [outbox EXCEPT ![i].attempts = @ + 1, ![i].due = FALSE] /\ Session!Unlocks(w)
             /\ n < MaxAttempts \/ n < MaxNotFound
      <4> DEFINE limit == IF work[w].outcome = "NOT FOUND" THEN MaxNotFound ELSE MaxAttempts
      <4>1. \/ outbox' = [outbox EXCEPT ![i].status = "FAILED", ![i].attempts = @ + 1] /\ Session!Goes(w)
            \/ /\ outbox' = [outbox EXCEPT ![i].attempts = @ + 1, ![i].due = FALSE] /\ Session!Unlocks(w)
               /\ ~(outbox[i].attempts + 1 >= limit)
        BY <1>2, <1>13 DEF Session!Settles
      <4>2. limit \in {MaxAttempts, MaxNotFound} /\ limit \in Nat
        BY <1>10
      <4> HIDE DEF limit
      <4>3. ~(outbox[i].attempts + 1 >= limit) => n < limit
        BY <1>4, <2>0, <4>2
      <4>4. n < limit => n < MaxAttempts \/ n < MaxNotFound
        BY <4>2
      <4> QED
        BY <4>1, <4>3, <4>4
    <3> QED
      BY <1>10, <2>0, <2>1, <2>2, <3>1
<1> QED
  BY <1>11, <1>12, <1>13

(* A request that arrives although nobody waits for it.                    *)
LEMMA ArrivesLateKeeps ==
    ASSUME OutboxInv, Session!ArrivesLate
    PROVE  OutboxInv' /\ OutboxGoesOn
<1>0. /\ OutboxTypes /\ OutboxInOrder /\ MirrorInOrder /\ Session!DeliveredIsShown
      /\ mirror \in [Session!Target -> Nat] /\ outbox \in Seq(OutboxRecord)
      /\ UNCHANGED <<outbox, written, holder, work, strayed, failures>>
  BY DEF OutboxInv, OutboxTypes, Session!ArrivesLate
<1>1. PICK q \in adrift : mirror' = [mirror EXCEPT ![q.target] = q.value] /\ adrift' = adrift \ {q}
  BY DEF Session!ArrivesLate, Session!Put
<1>2. PICK t, n : t = q.target /\ n = q.value /\ t \in strayed /\ t \in Session!Target /\ n \in Nat
  BY <1>0 DEF OutboxTypes
<1>3. OutboxGoesOn /\ mirror' \in [Session!Target -> Nat]
  BY <1>0, <1>1, <1>2, ForwardIsOnward DEF PutsForward
<1>4. OutboxTypes'
  BY <1>0, <1>1, <1>3 DEF OutboxTypes, Session!Target
<1>5. OutboxInOrder'
  BY <1>0 DEF OutboxInOrder, Session!Pending
<1>6. MirrorInOrder'
  <2>1. \A s \in Session!Target \ strayed : mirror'[s] = mirror[s]
    BY <1>0, <1>1, <1>2
  <2>2. \A k \in 1 .. Len(outbox) : outbox[k].target \in Session!Target
    <3>1. \A k \in 1 .. Len(outbox) : outbox[k] \in OutboxRecord
      BY <1>0
    <3> QED
      BY <3>1 DEF OutboxRecord
  <2> QED
    BY <1>0, <2>1, <2>2 DEF MirrorInOrder, Session!Pending, Session!Target
<1>7. Session!DeliveredIsShown'
  <2>1. \A k \in 1 .. Len(outbox') : outbox'[k].status = "DELIVERED" => k \in 1 .. Len(outbox) /\ outbox[k].status = "DELIVERED"
    BY <1>0
  <2> QED
    BY <1>0, <1>3, <1>4, <2>1, DeliveredStays
<1>8. ASSUME NEW v \in Worker PROVE WorkerHolds(v)'
  <2>1. WorkerHolds(v) /\ work'[v] = work[v]
    BY <1>0 DEF OutboxInv
  <2>2. work[v].pc # "idle" /\ ~work[v].late =>
           /\ holder' = v
           /\ \A k \in work[v].items : Session!Pending(k)'
           /\ \A k \in 1 .. Len(outbox') : Session!Pending(k)' => k > Len(outbox) \/ Session!Pending(k)
    BY <1>0, <2>1 DEF WorkerHolds, Session!Unsettled, Session!Pending
  <2> QED
    BY <1>0, <1>3, <1>4, <2>1, <2>2, WorkerStays
<1> QED
  BY <1>3, <1>4, <1>5, <1>6, <1>7, <1>8 DEF OutboxInv

(* A record whose time comes changes in nothing else.                      *)
LEMMA BackoffEndsKeep ==
    ASSUME OutboxInv, Session!BackoffEnds
    PROVE  OutboxInv'
<1>0. /\ OutboxTypes /\ OutboxInOrder /\ MirrorInOrder /\ Session!DeliveredIsShown
      /\ outbox \in Seq(OutboxRecord) /\ DOMAIN outbox = 1 .. Len(outbox) /\ mirror \in [Session!Target -> Nat]
      /\ UNCHANGED <<written, mirror, holder, work, adrift, strayed, failures>>
  BY DEF OutboxInv, OutboxTypes, Session!BackoffEnds
<1>1. PICK i \in 1 .. Len(outbox) : outbox' = [outbox EXCEPT ![i].due = TRUE]
  BY <1>0 DEF Session!BackoffEnds
<1>2. PICK r : r = [outbox[i] EXCEPT !.due = TRUE]
  OBVIOUS
<1>3. /\ r \in OutboxRecord /\ r.target = outbox[i].target /\ r.value = outbox[i].value
      /\ r.status = outbox[i].status /\ r.attempts = outbox[i].attempts
  <2>1. outbox[i] \in OutboxRecord
    BY <1>0
  <2> QED
    BY <1>2, <2>1 DEF OutboxRecord
<1>4. outbox' = [outbox EXCEPT ![i] = r]
  BY <1>0, <1>1, <1>2
<1>5. /\ outbox' \in Seq(OutboxRecord) /\ Len(outbox') = Len(outbox) /\ Len(outbox) \in Nat
      /\ \A k \in 1 .. Len(outbox) : outbox'[k] = IF k = i THEN r ELSE outbox[k]
  BY <1>0, <1>3, <1>4
<1>6. \A k \in 1 .. Len(outbox) :
         /\ outbox'[k].target = outbox[k].target /\ outbox'[k].value = outbox[k].value
         /\ outbox'[k].status = outbox[k].status /\ outbox'[k].attempts = outbox[k].attempts
  BY <1>3, <1>5
<1>7. OutboxTypes'
  BY <1>0, <1>5 DEF OutboxTypes, Session!Target
<1>8. OutboxGoesOn
  <2>1. \A t \in Session!Target : mirror[t] \in Nat
    BY <1>0
  <2> QED
    BY <1>0, <1>5, <1>6, <2>1 DEF OutboxGoesOn
<1>9. \A k \in 1 .. Len(outbox) : Session!Pending(k)' <=> Session!Pending(k)
  BY <1>6 DEF Session!Pending
<1>10. OutboxInOrder'
  BY <1>0, <1>5, <1>6, <1>9 DEF OutboxInOrder
<1>11. MirrorInOrder'
  BY <1>0, <1>5, <1>6, <1>9 DEF MirrorInOrder, Session!Target
<1>12. Session!DeliveredIsShown'
  BY <1>0, <1>5, <1>6, <1>7, <1>8, DeliveredStays
<1>13. ASSUME NEW v \in Worker PROVE WorkerHolds(v)'
  <2>1. WorkerHolds(v) /\ work'[v] = work[v]
    BY <1>0 DEF OutboxInv
  <2>2. work[v].pc # "idle" /\ ~work[v].late =>
           /\ holder' = v
           /\ \A k \in work[v].items : Session!Pending(k)'
           /\ \A k \in 1 .. Len(outbox') : Session!Pending(k)' => k > Len(outbox) \/ Session!Pending(k)
    BY <1>0, <1>5, <1>9, <2>1 DEF WorkerHolds, Session!Unsettled
  <2> QED
    BY <1>0, <1>7, <1>8, <2>1, <2>2, WorkerStays
<1> QED
  BY <1>7, <1>10, <1>11, <1>12, <1>13 DEF OutboxInv

(* The run records a batch, or fails to.                                   *)
LEMMA EnqueueKeeps ==
    ASSUME OutboxInv, Session!Enqueue
    PROVE  OutboxInv'
<1>0. /\ OutboxTypes /\ OutboxInOrder /\ MirrorInOrder /\ Session!DeliveredIsShown
      /\ outbox \in Seq(OutboxRecord) /\ mirror \in [Session!Target -> Nat] /\ written \in [Session!Target -> Nat]
      /\ UNCHANGED <<mirror, holder, work, adrift, strayed>>
      /\ Len(outbox) \in Nat /\ failures \in Nat
  BY DEF OutboxInv, OutboxTypes, Session!Enqueue
<1>1. PICK b \in Session!Batches :
         /\ written' = [t \in Session!Target |-> written[t] + IF \E i \in DOMAIN b : b[i] = t THEN 1 ELSE 0]
         /\ \/ /\ outbox' = outbox \o [i \in DOMAIN b |-> Session!Record(b[i], written'[b[i]])]
               /\ UNCHANGED failures
            \/ failures' = failures + 1 /\ UNCHANGED outbox
  BY DEF Session!Enqueue
<1>2. /\ b \in Seq(Session!Target) /\ DOMAIN b = 1 .. Len(b) /\ Len(b) \in Nat
      /\ \A i, k \in 1 .. Len(b) : i < k => b[i] # b[k]
  <2>1. b = <<"context">> \/ b = <<"task">> \/ b = <<"note">> \/ b = <<"task", "note">>
    BY DEF Session!Batches
  <2>2. ASSUME NEW t \in Session!Target, b = <<t>>
        PROVE  /\ b \in Seq(Session!Target) /\ DOMAIN b = 1 .. Len(b) /\ Len(b) = 1
    BY <2>2
  <2>3. CASE b = <<"task", "note">>
    <3>1. Len(b) = 2 /\ DOMAIN b = 1 .. 2 /\ b[1] = "task" /\ b[2] = "note" /\ b \in Seq({"context", "task", "note"})
      BY <2>3
    <3>2. \A i, k \in 1 .. 2 : i < k => i = 1 /\ k = 2
      OBVIOUS
    <3> QED
      BY <3>1, <3>2 DEF Session!Target
  <2> QED
    BY <2>1, <2>2, <2>3 DEF Session!Target
<1>3. /\ written' \in [Session!Target -> Nat]
      /\ \A t \in Session!Target : written[t] <= written'[t]
      /\ \A i \in 1 .. Len(b) : b[i] \in Session!Target /\ written'[b[i]] = written[b[i]] + 1
  <2>1. ASSUME NEW t \in Session!Target
        PROVE  written'[t] \in Nat /\ written[t] <= written'[t] /\ ((\E i \in DOMAIN b : b[i] = t) => written'[t] = written[t] + 1)
    BY <1>0, <1>1
  <2>2. \A i \in 1 .. Len(b) : b[i] \in Session!Target
    BY <1>2
  <2>3. written' = [t \in Session!Target |-> written'[t]]
    BY <1>1
  <2> QED
    BY <1>2, <2>1, <2>2, <2>3
<1> DEFINE new == [i \in DOMAIN b |-> Session!Record(b[i], written'[b[i]])]
<1>4. new \in Seq(OutboxRecord) /\ Len(new) = Len(b)
  <2>1. \A i \in 1 .. Len(b) : Session!Record(b[i], written'[b[i]]) \in OutboxRecord
    BY <1>3 DEF Session!Record, OutboxRecord
  <2> QED
    BY <1>2, <2>1
<1>5. \A i \in 1 .. Len(b) : /\ new[i].target = b[i] /\ new[i].value = written'[b[i]] /\ new[i].status = "PENDING"
                             /\ new[i].attempts = 0
  BY <1>2 DEF Session!Record
<1> HIDE DEF new
<1>6. PICK m \in Nat :
         /\ outbox' \in Seq(OutboxRecord) /\ failures' \in Nat
         /\ m <= Len(b) /\ Len(outbox') = Len(outbox) + m
         /\ \A k \in 1 .. Len(outbox) : outbox'[k] = outbox[k]
         /\ \A j \in 1 .. m : outbox'[Len(outbox) + j] = new[j]
  <2>1. CASE outbox' = outbox \o new /\ failures' = failures
    <3>1. /\ outbox' \in Seq(OutboxRecord) /\ Len(outbox') = Len(outbox) + Len(new)
          /\ \A i \in 1 .. Len(outbox) + Len(new) : outbox'[i] =
                IF i <= Len(outbox) THEN outbox[i] ELSE new[i - Len(outbox)]
      BY <1>0, <1>4, <2>1, ConcatProperties
    <3>2. ASSUME NEW k \in 1 .. Len(outbox) PROVE outbox'[k] = outbox[k]
      BY <1>0, <1>2, <1>4, <3>1
    <3>3. ASSUME NEW j \in 1 .. Len(b) PROVE outbox'[Len(outbox) + j] = new[j]
      <4>1. /\ Len(outbox) + j \in 1 .. Len(outbox) + Len(new) /\ ~(Len(outbox) + j <= Len(outbox))
            /\ (Len(outbox) + j) - Len(outbox) = j
        BY <1>0, <1>2, <1>4
      <4> QED
        BY <3>1, <4>1
    <3>4. Len(b) \in Nat /\ Len(b) <= Len(b) /\ Len(outbox') = Len(outbox) + Len(b) /\ failures' \in Nat
      BY <1>0, <1>2, <1>4, <2>1, <3>1
    <3> QED
      BY <3>1, <3>2, <3>3, <3>4
  <2>2. CASE outbox' = outbox /\ failures' = failures + 1
    <3>1. 0 \in Nat /\ 0 <= Len(b) /\ Len(outbox') = Len(outbox) + 0 /\ failures' \in Nat /\ 1 .. 0 = {}
      BY <1>0, <1>2, <2>2
    <3> QED
      BY <1>0, <2>2, <3>1
  <2> QED
    BY <1>1, <2>1, <2>2 DEF new
<1>7. OutboxTypes'
  BY <1>0, <1>3, <1>6 DEF OutboxTypes, Session!Target
<1>8. Len(outbox') \in Nat /\ Len(outbox) <= Len(outbox') /\ \A k \in 1 .. Len(outbox) : outbox'[k] = outbox[k]
  BY <1>0, <1>2, <1>6
<1>9. OutboxGoesOn
  <2>1. \A t \in Session!Target : mirror[t] \in Nat
    BY <1>0
  <2> QED
    BY <1>0, <1>8, <2>1 DEF OutboxGoesOn
<1>16. \A k \in 1 .. Len(outbox') : k > Len(outbox) =>
          \E j \in 1 .. Len(b) : k = Len(outbox) + j /\ outbox'[k] = new[j]
  <2> SUFFICES ASSUME NEW k \in 1 .. Len(outbox'), k > Len(outbox)
               PROVE  \E j \in 1 .. Len(b) : k = Len(outbox) + j /\ outbox'[k] = new[j]
    OBVIOUS
  <2>1. PICK j \in Nat : j = k - Len(outbox)
    BY <1>0, <1>8
  <2>2. j \in 1 .. m /\ j \in 1 .. Len(b) /\ k = Len(outbox) + j
    BY <1>0, <1>2, <1>6, <1>8, <2>1
  <2> QED
    BY <1>6, <2>2
(* A new record: newer than all there were, and not yet delivered.         *)
<1>10. ASSUME NEW k \in 1 .. Len(outbox'), k > Len(outbox)
       PROVE  /\ Session!Pending(k)' /\ outbox'[k].target \in Session!Target
              /\ outbox'[k].attempts = 0 /\ outbox'[k].value = written'[outbox'[k].target]
              /\ outbox'[k].value = written[outbox'[k].target] + 1
  <2>1. PICK j \in 1 .. Len(b) : outbox'[k] = new[j]
    BY <1>16, <1>10
  <2> QED
    BY <1>3, <1>5, <2>1 DEF Session!Pending
<1>11. ASSUME NEW k \in 1 .. Len(outbox)
       PROVE  outbox[k].target \in Session!Target /\ outbox[k].value \in Nat /\ outbox[k].attempts \in Nat
  <2>1. outbox[k] \in OutboxRecord
    BY <1>0
  <2> QED
    BY <2>1 DEF OutboxRecord
<1>12. OutboxInOrder'
  <2>1. ASSUME NEW k \in 1 .. Len(outbox')
        PROVE  /\ outbox'[k].value <= written'[outbox'[k].target]
               /\ outbox'[k].attempts <= MaxAttempts + MaxNotFound
               /\ Session!Pending(k)' => outbox'[k].attempts < MaxAttempts + MaxNotFound
    <3>1. CASE k > Len(outbox)
      BY <1>3, <1>10, <3>1, SessionWords
    <3>2. CASE ~(k > Len(outbox))
      <4>1. k \in 1 .. Len(outbox) /\ outbox'[k] = outbox[k]
        BY <1>0, <1>8, <3>2
      <4>2. outbox[k].value <= written[outbox[k].target] /\ written[outbox[k].target] <= written'[outbox[k].target]
        BY <1>0, <1>3, <1>11, <4>1 DEF OutboxInOrder
      <4>3. outbox[k].value <= written'[outbox[k].target]
        BY <1>0, <1>3, <1>11, <4>1, <4>2
      <4> QED
        BY <1>0, <4>1, <4>3 DEF OutboxInOrder, Session!Pending
    <3> QED
      BY <3>1, <3>2
  <2>2. ASSUME NEW i \in 1 .. Len(outbox'), NEW k \in 1 .. Len(outbox'), i < k
        PROVE  /\ outbox'[i].target = outbox'[k].target => outbox'[i].value < outbox'[k].value
               /\ Session!Pending(i)' => Session!Pending(k)'
    <3>1. CASE i > Len(outbox)
      <4>0. k > Len(outbox)
        BY <1>0, <1>8, <2>2, <3>1
      <4>1. PICK p \in 1 .. Len(b), q \in 1 .. Len(b) :
               /\ i = Len(outbox) + p /\ outbox'[i] = new[p] /\ k = Len(outbox) + q /\ outbox'[k] = new[q]
        BY <1>16, <3>1, <4>0
      <4>3. p < q
        BY <1>0, <1>2, <2>2, <4>1
      <4>2. outbox'[i].target # outbox'[k].target
        BY <1>2, <1>5, <4>1, <4>3
      <4> QED
        BY <1>10, <4>0, <4>2
    <3>2. CASE ~(i > Len(outbox)) /\ k > Len(outbox)
      <4>1. i \in 1 .. Len(outbox) /\ outbox'[i] = outbox[i]
        BY <1>0, <1>8, <3>2
      <4>2. outbox[i].value <= written[outbox[i].target]
        BY <1>0, <4>1 DEF OutboxInOrder
      <4>3. outbox'[k].value = written[outbox'[k].target] + 1 /\ Session!Pending(k)'
        BY <1>10, <3>2
      <4> QED
        BY <1>0, <1>11, <4>1, <4>2, <4>3
    <3>3. CASE ~(k > Len(outbox))
      <4>1. /\ i \in 1 .. Len(outbox) /\ k \in 1 .. Len(outbox) /\ outbox'[i] = outbox[i] /\ outbox'[k] = outbox[k]
        BY <1>0, <1>8, <2>2, <3>3
      <4> QED
        BY <1>0, <2>2, <4>1 DEF OutboxInOrder, Session!Pending
    <3> QED
      BY <3>1, <3>2, <3>3
  <2> QED
    BY <2>1, <2>2 DEF OutboxInOrder
<1>13. MirrorInOrder'
  <2>1. ASSUME NEW t \in Session!Target \ strayed' PROVE mirror'[t] <= written'[t]
    <3>1. mirror[t] <= written[t] /\ written[t] <= written'[t] /\ mirror[t] \in Nat /\ written[t] \in Nat /\ written'[t] \in Nat
      BY <1>0, <1>3 DEF MirrorInOrder
    <3> QED
      BY <1>0, <3>1
  <2>2. ASSUME NEW k \in 1 .. Len(outbox'), Session!Pending(k)', outbox'[k].target \notin strayed'
        PROVE  mirror'[outbox'[k].target] <= outbox'[k].value
    <3>1. CASE k > Len(outbox)
      BY <1>10, <2>1, <2>2, <3>1
    <3>2. CASE ~(k > Len(outbox))
      <4>1. k \in 1 .. Len(outbox) /\ outbox'[k] = outbox[k]
        BY <1>0, <1>8, <3>2
      <4> QED
        BY <1>0, <2>2, <4>1 DEF MirrorInOrder, Session!Pending
    <3> QED
      BY <3>1, <3>2
  <2> QED
    BY <2>1, <2>2 DEF MirrorInOrder, Session!Target
<1>14. Session!DeliveredIsShown'
  <2>1. ASSUME NEW k \in 1 .. Len(outbox'), outbox'[k].status = "DELIVERED"
        PROVE  k \in 1 .. Len(outbox) /\ outbox[k].status = "DELIVERED"
    <3>1. ~(k > Len(outbox))
      BY <1>10, <2>1 DEF Session!Pending
    <3> QED
      BY <1>0, <1>8, <2>1, <3>1
  <2> QED
    BY <1>0, <1>7, <1>9, <2>1, DeliveredStays
<1>15. ASSUME NEW v \in Worker PROVE WorkerHolds(v)'
  <2>1. WorkerHolds(v) /\ work'[v] = work[v]
    BY <1>0 DEF OutboxInv
  <2>2. ASSUME NEW k \in 1 .. Len(outbox) PROVE Session!Pending(k)' <=> Session!Pending(k)
    BY <1>8 DEF Session!Pending
  <2>3. work[v].pc # "idle" /\ ~work[v].late =>
           /\ holder' = v
           /\ \A k \in work[v].items : Session!Pending(k)'
           /\ \A k \in 1 .. Len(outbox') : Session!Pending(k)' => k > Len(outbox) \/ Session!Pending(k)
    BY <1>0, <1>8, <2>1, <2>2 DEF WorkerHolds, Session!Unsettled
  <2> QED
    BY <1>0, <1>7, <1>9, <2>1, <2>3, WorkerStays
<1> QED
  BY <1>7, <1>12, <1>13, <1>14, <1>15 DEF OutboxInv

-----------------------------------------------------------------------------
(* The outbox: its steps together *)

LEMMA SessionStart == ASSUME Session!Init PROVE OutboxInv
<1>1. /\ outbox = <<>> /\ Len(outbox) = 0 /\ written \in [Session!Target -> Nat] /\ mirror \in [Session!Target -> Nat]
      /\ \A t \in Session!Target : mirror[t] = 0 /\ written[t] = 0
      /\ holder = "nobody" /\ work = [w \in Worker |-> Session!Idle] /\ adrift = {} /\ failures = 0
  BY SessionWords DEF Session!Init
<1>2. OutboxTypes
  BY <1>1, SessionWords DEF OutboxTypes
<1>3. OutboxInOrder /\ MirrorInOrder /\ Session!DeliveredIsShown
  BY <1>1 DEF OutboxInOrder, MirrorInOrder, Session!DeliveredIsShown
<1>4. \A w \in Worker : WorkerHolds(w)
  BY <1>1, SessionWords DEF WorkerHolds
<1> QED
  BY <1>2, <1>3, <1>4 DEF OutboxInv

LEMMA SessionStep ==
    ASSUME OutboxInv, Session!Next
    PROVE  OutboxInv'
<1>1. ASSUME NEW w \in Worker, Session!Goon(w) PROVE OutboxInv'
  BY <1>1, QuietSteps, SettledKeeps, AnsweredKeeps DEF Session!Goon
<1>2. ASSUME NEW w \in Worker, Session!Locks(w) \/ Session!IsNotTaken(w) \/ Session!LosesLock(w) \/ Session!Dies(w)
      PROVE  OutboxInv'
  BY <1>2, QuietSteps, LocksKeep
<1> QED
  BY <1>1, <1>2, EnqueueKeeps, ArrivesLateKeeps, BackoffEndsKeep DEF Session!Next

LEMMA OnlyForward ==
    ASSUME OutboxInv, Session!Next
    PROVE  Session!MirrorGoesForward
<1>0. mirror \in [Session!Target -> Nat] /\ \A t \in Session!Target : mirror[t] \in Nat
  BY DEF OutboxInv, OutboxTypes
<1>1. CASE mirror' = mirror
  BY <1>0, <1>1 DEF Session!MirrorGoesForward
<1>2. ASSUME NEW w \in Worker, Session!IsAnswered(w), mirror' # mirror
      PROVE  OutboxGoesOn /\ strayed' = strayed /\ OutboxInv'
  <2>1. Session!HasContext(outbox[Session!Item(w)].target)
    BY <1>2 DEF Session!IsAnswered
  <2> QED
    BY <1>2, <2>1, AnsweredKeeps DEF Session!IsAnswered
<1>3. ASSUME Session!ArrivesLate
      PROVE  OutboxGoesOn /\ strayed' = strayed /\ OutboxInv'
  BY <1>3, ArrivesLateKeeps DEF Session!ArrivesLate
<1>4. ASSUME OutboxGoesOn, strayed' = strayed, OutboxInv' PROVE Session!MirrorGoesForward
  <2>1. \A t \in Session!Target : mirror'[t] \in Nat
    BY <1>4 DEF OutboxInv, OutboxTypes, Session!Target
  <2> QED
    BY <1>0, <1>4, <2>1 DEF OutboxGoesOn, Session!MirrorGoesForward
<1>5. mirror' = mirror \/ Session!ArrivesLate \/ \E w \in Worker : Session!IsAnswered(w)
  BY DEF Session!Next, Session!Goon, Session!Enqueue, Session!BackoffEnds, Session!Locks, Session!Stops, Session!Skips,
     Session!Sends, Session!Settles, Session!GivesUp, Session!IsNotTaken, Session!LosesLock, Session!Dies
<1> QED
  BY <1>1, <1>2, <1>3, <1>4, <1>5

LEMMA OutboxInvHolds == RecordsSpec => []OutboxInv
<1>1. RecordsInit => OutboxInv
  BY SessionStart DEF RecordsInit
<1>2. OutboxInv /\ [RecordsNext]_recordVars => OutboxInv'
  <2> SUFFICES ASSUME OutboxInv, [RecordsNext]_recordVars PROVE OutboxInv'
    OBVIOUS
  <2>1. CASE Session!Next
    BY <2>1, SessionStep
  <2>2. CASE UNCHANGED sessionVars
    BY <2>2 DEF sessionVars, OutboxInv, OutboxTypes, OutboxInOrder, WorkerHolds, MirrorInOrder, Session!DeliveredIsShown,
       Session!Pending, Session!Unsettled, Session!Item, Session!Target
  <2> QED
    BY <2>1, <2>2 DEF RecordsNext, recordVars
<1> QED
  BY <1>1, <1>2, PTL DEF RecordsSpec

-----------------------------------------------------------------------------
(* The import: the invariant *)

ProductRow ==
    [status : {"none", "ACTIVE", "RETIRED"}, category : Import!Category \cup {"none"},
     text : {"none", "page", "file"}, values : SUBSET Import!Value]
SkuRow ==
    [of : Import!Product \cup {"none"}, status : {"none", "ACTIVE", "RETIRED"},
     price : Import!Price \cup {"none"}, value : Import!Value \cup {"none"}]
Catalogs ==
    [categories : SUBSET Import!Category, products : [Import!Product -> ProductRow],
     skus : [Import!Sku -> SkuRow], place : BOOLEAN,
     counts : [Import!Sku -> [onHand : Import!Count, reserved : Import!Count]]]

(* A SKU has a value its product has, units are where there is a place.    *)
CatalogHolds ==
    /\ cat \in Catalogs /\ faced \in Catalogs
    /\ \A k \in Import!Sku :
          IF cat.skus[k].of = "none" THEN cat.skus[k] = Import!NoSku
          ELSE /\ cat.skus[k].price \in Import!Price
               /\ cat.skus[k].value \in cat.products[cat.skus[k].of].values \cup {"none"}
    /\ \A k \in Import!Sku :
          cat.counts[k].reserved <= cat.counts[k].onHand /\ (cat.counts[k].onHand > 0 => cat.place)

ImportStatus == {"none", "PENDING", "PROCESSING", "COMPLETED", "FAILED", "LOST"}
Jobs ==
    [status : ImportStatus, file : Seq(Import!Row), skip : BOOLEAN, adds : BOOLEAN, corrects : BOOLEAN,
     todo : SUBSET Nat, step : Import!Steps, left : SUBSET (Nat \cup (Import!Sku \X Import!Value)),
     merged : SUBSET Import!Value, created : Nat, updated : Nat, skipped : Nat, errors : BOOLEAN]

(* From the options on the job knows what the other SKUs were linked to;   *)
(* it is so still, unless others changed it.                               *)
LinksHold ==
    /\ job.left \subseteq Import!Sku \X Import!Value
    /\ \A l \in job.left :
          /\ l[1] \notin Import!TheSkus /\ cat.skus[l[1]].of = Import!P
          /\ <<"sku", l[1]>> \in meddled \/ cat.skus[l[1]].value = l[2]
          /\ \A m \in job.left : m[1] = l[1] => m = l

(* The values the SKUs of the product have are among those it is to have.  *)
MergeHolds ==
    \A k \in Import!Sku :
        cat.skus[k].of = Import!P => <<"sku", k>> \in meddled \/ cat.skus[k].value \in job.merged \cup {"none"}

CountSteps == {"place", "count"}
OptionSteps == {"options", "set", "links", "variants"}

ImportJobHolds ==
    /\ job \in Jobs
    /\ job.todo \subseteq 1 .. Len(job.file)
    /\ IF job.status = "PROCESSING" THEN job.todo # {} /\ job.step # "none" ELSE job.todo = {} /\ job.step = "none"
    /\ job.status \in {"none", "PENDING"} => job.created = 0 /\ job.updated = 0
    /\ job.step \in {"set", "links"} => LinksHold
    /\ job.step = "set" => MergeHolds
    /\ job.step \in CountSteps =>
          job.left # {} /\ job.left \subseteq Import!CountsIn(job.file, Import!Group)

(* Without an error, what was written so far is as the file has it: all of *)
(* a product that is through, and of the one at hand what its steps did.   *)
CleanHolds ==
    job.status \in {"PROCESSING", "COMPLETED"} /\ ~job.errors =>
        /\ \A i \in 1 .. Len(job.file) : ~Import!ContradictsFile(job.file, i)
        /\ \A i, k \in 1 .. Len(job.file) : job.file[i].product = job.file[k].product /\ i \in job.todo => k \in job.todo
        /\ \A i \in (1 .. Len(job.file)) \ job.todo : Import!Given(job.file[i])
        /\ job.step \in OptionSteps \cup CountSteps =>
              \A i \in Import!Group : Import!ProductGiven(job.file[i])
        /\ job.step \in CountSteps =>
              \A i \in Import!Group :
                  Import!SkuGiven(job.file[i]) /\ (i \notin job.left => Import!CountGiven(job.file[i]))

(* The rows of the product at hand, once its SKUs are written, and those   *)
(* the job is through with.                                                *)
WrittenRows == IF job.step \in CountSteps THEN Import!Group ELSE {}
RowsThrough == ((1 .. Len(job.file)) \ job.todo) \cup WrittenRows

(* The job has counted every SKU it is through with or has changed.        *)
TallyHolds ==
    /\ job.status \in {"PROCESSING", "COMPLETED"} =>
          Cardinality(Import!SkusIn(job.file, RowsThrough)) <= job.created + job.updated + job.skipped
    /\ Cardinality(Import!Changed \cup Import!Filled \cup Import!SkusIn(job.file, WrittenRows)) <= job.created + job.updated

ImportInv == CatalogHolds /\ ImportJobHolds /\ CleanHolds /\ TallyHolds

-----------------------------------------------------------------------------
(* The import: lemmas *)

LEMMA ImportMin == ASSUME NEW S PROVE Import!Min(S) = Min(S)
  BY DEF Import!Min, Min

LEMMA ImportCount == ASSUME NEW S PROVE Import!Cardinality(S) = Cardinality(S)
  BY DEF Import!Cardinality, Cardinality, Import!IsFiniteSet, IsFiniteSet

LEMMA ImportWords ==
    /\ Import!Product = {"tee", "mug"} /\ Import!Sku = {"s", "m", "x"} /\ Import!Value = {"S", "M"}
    /\ Import!Category = {"old", "new"} /\ Import!Price = {"a", "b"} /\ Import!None = "none"
    /\ Import!Count = 0 .. 2 /\ Import!NoCount = 9
    /\ Import!NoSku = [of |-> "none", status |-> "none", price |-> "none", value |-> "none"]
    /\ Import!NoProduct = [status |-> "none", category |-> "none", text |-> "none", values |-> {}]
    /\ Import!Steps = {"none", "category", "product", "options", "set", "links", "variants", "place", "count"}
    /\ Import!File = job.file
  BY DEF Import!Product, Import!Sku, Import!Value, Import!Category, Import!Price, Import!None, Import!Count,
         Import!NoCount, Import!NoSku, Import!NoProduct, Import!Steps, Import!File

(* The rows of a file, and what they say.                                  *)
LEMMA RowWords ==
    ASSUME NEW f \in Seq(Import!Row), NEW i \in 1 .. Len(f)
    PROVE  /\ f[i].product \in Import!Product /\ f[i].sku \in Import!Sku /\ f[i].price \in Import!Price
           /\ f[i].category \in Import!Category /\ f[i].value \in Import!Value \cup {"none"}
           /\ f[i].count \in Import!Count \cup {9}
<1>1. f[i] \in Import!Row
  OBVIOUS
<1> QED
  BY <1>1, ImportWords DEF Import!Row

LEMMA FewSkus == \A K \in SUBSET Import!Sku : IsFiniteSet(K) /\ Cardinality(K) \in Nat
<1>1. Import!Sku = (({} \cup {"s"}) \cup {"m"}) \cup {"x"}
  BY ImportWords
<1>2. IsFiniteSet(Import!Sku)
  BY <1>1, FS_EmptySet, FS_AddElement
<1> QED
  BY <1>2, FS_Subset, FS_CardinalityType

(* Two sets together have no more than one and the other.                  *)
LEMMA AtMostBoth ==
    ASSUME NEW S, NEW T, IsFiniteSet(S), IsFiniteSet(T)
    PROVE  /\ IsFiniteSet(S \cup T) /\ Cardinality(S \cup T) \in Nat
           /\ Cardinality(S \cup T) <= Cardinality(S) + Cardinality(T)
<1>1. /\ IsFiniteSet(S \cup T) /\ IsFiniteSet(S \cap T)
      /\ Cardinality(S \cup T) = Cardinality(S) + Cardinality(T) - Cardinality(S \cap T)
  BY FS_Union, FS_Intersection, FS_Subset
<1>2. Cardinality(S) \in Nat /\ Cardinality(T) \in Nat /\ Cardinality(S \cap T) \in Nat /\ Cardinality(S \cup T) \in Nat
  BY <1>1, FS_CardinalityType
<1> QED
  BY <1>1, <1>2

(* A group of rows names no more SKUs than it has rows.                    *)
LEMMA NamedSkus ==
    ASSUME NEW f \in Seq(Import!Row), NEW S \in SUBSET (1 .. Len(f))
    PROVE  /\ Import!SkusIn(f, S) \subseteq Import!Sku
           /\ IsFiniteSet(S) /\ Cardinality(S) \in Nat
           /\ Cardinality(Import!SkusIn(f, S)) <= Cardinality(S)
<1>1. Len(f) \in Nat
  OBVIOUS
<1>2. IsFiniteSet(S)
  <2>1. IsFiniteSet(1 .. Len(f))
    BY <1>1, FS_Interval
  <2> QED
    BY <2>1, FS_Subset
<1>3. Import!SkusIn(f, S) = {f[i].sku : i \in S}
  BY DEF Import!SkusIn
<1> DEFINE skuOf == [i \in S |-> f[i].sku]
<1>4. skuOf \in Surjection(S, Import!SkusIn(f, S))
  BY <1>3 DEF Surjection
<1>5. Cardinality(Import!SkusIn(f, S)) <= Cardinality(S)
  BY <1>2, <1>4, FS_Surjection
<1>6. Import!SkusIn(f, S) \subseteq Import!Sku
  BY <1>3, RowWords
<1>7. Cardinality(S) \in Nat
  BY <1>2, FS_CardinalityType
<1> QED
  BY <1>2, <1>5, <1>6, <1>7

LEMMA SkusOfBoth ==
    ASSUME NEW f, NEW S, NEW T
    PROVE  Import!SkusIn(f, S \cup T) = Import!SkusIn(f, S) \cup Import!SkusIn(f, T)
  BY DEF Import!SkusIn

(* The product at hand, its rows, and what they name.                      *)
LEMMA AtHand ==
    ASSUME ImportJobHolds, job.status = "PROCESSING"
    PROVE  /\ job.file \in Seq(Import!Row) /\ Len(job.file) \in Nat
           /\ Min(job.todo) \in job.todo /\ Import!P = job.file[Min(job.todo)].product /\ Import!P \in Import!Product
           /\ Import!TheCategory = job.file[Min(job.todo)].category /\ Import!TheCategory \in Import!Category
           /\ Import!Group = {i \in job.todo : job.file[i].product = Import!P} /\ Import!Group # {}
           /\ Import!TheSkus = {job.file[i].sku : i \in Import!Group} /\ Import!TheSkus \subseteq Import!Sku
           /\ Import!TheSkus = Import!SkusIn(job.file, Import!Group)
           /\ Import!TheValues = {job.file[i].value : i \in Import!Group} \ {"none"} /\ Import!TheValues \subseteq Import!Value
<1>1. job.file \in Seq(Import!Row) /\ Len(job.file) \in Nat /\ job.todo \subseteq 1 .. Len(job.file) /\ job.todo # {}
      /\ job.todo \in SUBSET Nat
  BY DEF ImportJobHolds, Jobs
<1>2. Min(job.todo) \in job.todo /\ Import!Min(job.todo) = Min(job.todo)
  BY <1>1, LeastIsIn, ImportMin
<1>3. \A i \in job.todo : i \in 1 .. Len(job.file)
  BY <1>1
<1>4. /\ Import!P = job.file[Min(job.todo)].product /\ Import!P \in Import!Product
      /\ Import!TheCategory = job.file[Min(job.todo)].category /\ Import!TheCategory \in Import!Category
  BY <1>1, <1>2, <1>3, RowWords, ImportWords DEF Import!P, Import!TheCategory
<1>5. Import!Group = {i \in job.todo : job.file[i].product = Import!P}
  BY <1>2, <1>4, ImportWords DEF Import!Group, Import!FirstGroup, Import!Rows
<1>6. Min(job.todo) \in Import!Group
  BY <1>2, <1>4, <1>5
<1>7. Import!TheSkus = {job.file[i].sku : i \in Import!Group} /\ Import!TheSkus = Import!SkusIn(job.file, Import!Group)
  BY ImportWords DEF Import!TheSkus, Import!SkusIn
<1>8. Import!TheValues = {job.file[i].value : i \in Import!Group} \ {"none"}
  BY ImportWords DEF Import!TheValues, Import!ValuesIn
<1>9. Import!TheSkus \subseteq Import!Sku /\ Import!TheValues \subseteq Import!Value
  BY <1>1, <1>3, <1>5, <1>7, <1>8, RowWords
<1> QED
  BY <1>1, <1>2, <1>4, <1>5, <1>6, <1>7, <1>8, <1>9

(* In a file that does not contradict itself all rows of a SKU agree, and  *)
(* one at most has a count.                                                *)
LEMMA RowsAgree ==
    ASSUME NEW f \in Seq(Import!Row), \A i \in 1 .. Len(f) : ~Import!ContradictsFile(f, i),
           NEW i \in 1 .. Len(f), NEW k \in 1 .. Len(f), f[i].sku = f[k].sku
    PROVE  /\ f[i].product = f[k].product /\ f[i].price = f[k].price
           /\ f[i].count # 9 /\ f[k].count # 9 => i = k
<1> DEFINE Before(n) == {l \in 1 .. n - 1 : f[l].sku = f[n].sku}
<1>1. Len(f) \in Nat
  OBVIOUS
<1>2. ASSUME NEW n \in 1 .. Len(f), NEW l \in 1 .. n - 1, f[l].sku = f[n].sku
      PROVE  /\ Min(Before(n)) \in Before(n) /\ \A m \in Before(n) : Min(Before(n)) <= m
             /\ f[Min(Before(n))].product = f[n].product /\ f[Min(Before(n))].price = f[n].price
             /\ \A m \in Before(n) : f[m].count # 9 => f[n].count = 9
  <2>1. Before(n) \in SUBSET Nat /\ l \in Before(n) /\ Before(n) = Import!OfSku(f, n)
    BY <1>1, <1>2 DEF Import!OfSku
  <2> DEFINE first == Min(Before(n))
  <2> HIDE DEF Before
  <2>2. first \in Before(n) /\ \A m \in Before(n) : first <= m
    BY <2>1, LeastIsIn
  <2>3. first \in Import!First(Import!OfSku(f, n))
    BY <2>1, <2>2 DEF Import!First
  <2>4. f[first].product = f[n].product /\ f[first].price = f[n].price
    BY <1>2, <2>3 DEF Import!ContradictsFile
  <2>5. \A m \in Before(n) : 9 \notin {f[m].count, f[n].count} => FALSE
    BY <1>2, <2>1, ImportWords DEF Import!ContradictsFile
  <2> QED
    BY <2>2, <2>4, <2>5
<1>3. ASSUME NEW n \in 1 .. Len(f), NEW l \in 1 .. n - 1, f[l].sku = f[n].sku
      PROVE  /\ f[l].product = f[n].product /\ f[l].price = f[n].price
             /\ f[l].count # 9 => f[n].count = 9
  <2>1. l \in 1 .. Len(f) /\ l \in Before(n)
    BY <1>1, <1>3
  <2>2. /\ Min(Before(n)) \in Before(n) /\ \A m \in Before(n) : Min(Before(n)) <= m
        /\ f[Min(Before(n))].product = f[n].product /\ f[Min(Before(n))].price = f[n].price
        /\ f[l].count # 9 => f[n].count = 9
    BY <1>2, <1>3, <2>1
  <2> DEFINE first == Min(Before(n))
  <2>3. first \in 1 .. n - 1 /\ f[first].sku = f[n].sku /\ first <= l
    BY <2>1, <2>2
  <2> HIDE DEF first
  <2>4. CASE first = l
    BY <2>2, <2>4 DEF first
  <2>5. CASE first # l
    <3>1. first \in 1 .. l - 1 /\ f[first].sku = f[l].sku /\ first \in Before(l)
      BY <1>1, <1>3, <2>3, <2>5
    <3>2. /\ Min(Before(l)) \in Before(l) /\ \A m \in Before(l) : Min(Before(l)) <= m
          /\ f[Min(Before(l))].product = f[l].product /\ f[Min(Before(l))].price = f[l].price
      BY <1>2, <2>1, <3>1
    <3> DEFINE least == Min(Before(l))
    <3>3. least \in 1 .. l - 1 /\ f[least].sku = f[l].sku /\ least <= first
      BY <3>1, <3>2
    <3> HIDE DEF least
    <3>4. least \in Before(n)
      BY <1>1, <1>3, <3>3
    <3>5. first <= least
      BY <2>2, <3>4 DEF first
    <3>6. first = least
      BY <2>3, <3>3, <3>5
    <3> QED
      BY <2>2, <3>2, <3>6 DEF first, least
  <2> QED
    BY <2>4, <2>5
<1>4. CASE i = k
  BY <1>4
<1>5. CASE i < k
  BY <1>1, <1>3, <1>5
<1>6. CASE k < i
  BY <1>1, <1>3, <1>6
<1> QED
  BY <1>1, <1>4, <1>5, <1>6

(* What the rows of the product at hand say of a SKU of theirs.            *)
LEMMA SaidOfSku ==
    ASSUME ImportJobHolds, job.status = "PROCESSING", NEW k \in Import!TheSkus
    PROVE  /\ Import!PriceIn(job.file, Import!Group, k) \in Import!Price
           /\ Import!ValueIn(job.file, Import!Group, k) \in Import!TheValues \cup {"none"}
           /\ \E i \in Import!RowsOf(job.file, Import!Group, k) : Import!PriceIn(job.file, Import!Group, k) = job.file[i].price
<1> DEFINE R == Import!RowsOf(job.file, Import!Group, k)
<1>1. R = {i \in Import!Group : job.file[i].sku = k}
  BY DEF Import!RowsOf
<1>2. R # {} /\ R \in SUBSET Nat /\ R \subseteq 1 .. Len(job.file) /\ R \subseteq Import!Group
  BY <1>1, AtHand DEF ImportJobHolds
<1>3. Min(R) \in R /\ Import!PriceIn(job.file, Import!Group, k) = job.file[Min(R)].price
  BY <1>2, LeastIsIn, ImportMin DEF Import!PriceIn
<1>4. Import!PriceIn(job.file, Import!Group, k) \in Import!Price
  BY <1>2, <1>3, AtHand, RowWords
<1>5. Import!ValuesIn(job.file, R) \subseteq Import!TheValues
  BY <1>2, AtHand, ImportWords DEF Import!ValuesIn
<1>6. Import!ValueIn(job.file, Import!Group, k) =
         IF Import!ValuesIn(job.file, R) = {} THEN "none" ELSE CHOOSE v \in Import!ValuesIn(job.file, R) : TRUE
  BY ImportWords DEF Import!ValueIn
<1>7. Import!ValueIn(job.file, Import!Group, k) \in Import!TheValues \cup {"none"}
  BY <1>5, <1>6
<1> QED
  BY <1>3, <1>4, <1>7

(* Without an error that is what the whole file says of it.                *)
LEMMA SaidByFile ==
    ASSUME ImportJobHolds, CleanHolds, job.status = "PROCESSING", ~job.errors, NEW i \in Import!Group
    PROVE  /\ job.file[i].product = Import!P
           /\ Import!PriceIn(job.file, Import!Group, job.file[i].sku) = job.file[i].price
           /\ Import!ValueIn(job.file, Import!Group, job.file[i].sku) = Import!ValueIn(job.file, 1 .. Len(job.file), job.file[i].sku)
           /\ \A l \in 1 .. Len(job.file) : job.file[l].sku = job.file[i].sku => l \in Import!Group
<1> DEFINE k == job.file[i].sku
<1>1. /\ job.file \in Seq(Import!Row) /\ Import!Group = {l \in job.todo : job.file[l].product = Import!P}
      /\ job.todo \subseteq 1 .. Len(job.file) /\ k \in Import!TheSkus /\ i \in 1 .. Len(job.file)
  BY AtHand DEF ImportJobHolds
<1>2. /\ \A l \in 1 .. Len(job.file) : ~Import!ContradictsFile(job.file, l)
      /\ \A l, m \in 1 .. Len(job.file) : job.file[l].product = job.file[m].product /\ l \in job.todo => m \in job.todo
  BY DEF CleanHolds
<1>3. ASSUME NEW l \in 1 .. Len(job.file), job.file[l].sku = k
      PROVE  l \in Import!Group /\ job.file[l].price = job.file[i].price
  <2>1. job.file[i].product = job.file[l].product /\ job.file[i].price = job.file[l].price
    BY <1>1, <1>2, <1>3, RowsAgree
  <2>2. l \in job.todo
    BY <1>1, <1>2, <2>1
  <2> QED
    BY <1>1, <2>1, <2>2
<1>4. Import!RowsOf(job.file, Import!Group, k) = Import!RowsOf(job.file, 1 .. Len(job.file), k)
  BY <1>1, <1>3 DEF Import!RowsOf
<1>5. Import!ValueIn(job.file, Import!Group, k) = Import!ValueIn(job.file, 1 .. Len(job.file), k)
  BY <1>4 DEF Import!ValueIn
<1>6. PICK l \in Import!RowsOf(job.file, Import!Group, k) : Import!PriceIn(job.file, Import!Group, k) = job.file[l].price
  BY <1>1, SaidOfSku
<1>7. l \in 1 .. Len(job.file) /\ job.file[l].sku = k
  BY <1>1, <1>6 DEF Import!RowsOf
<1> QED
  BY <1>1, <1>3, <1>5, <1>6, <1>7

(* What a row says stays so while nothing but what others change differs.  *)
LEMMA SkuStays ==
    ASSUME NEW i, job'.file = job.file, Import!SkuGiven(job.file[i]),
           <<"sku", job.file[i].sku>> \notin meddled' =>
               <<"sku", job.file[i].sku>> \notin meddled /\ cat'.skus[job.file[i].sku] = cat.skus[job.file[i].sku]
    PROVE  Import!SkuGiven(job.file[i])'
<1> DEFINE r == job.file[i]
           said == Import!ValueIn(job.file, 1 .. Len(job.file), r.sku)
           row == [of |-> r.product, status |-> "ACTIVE", price |-> r.price, value |-> said]
<1>1. Import!SkuGiven(r) <=> (<<"sku", r.sku>> \notin meddled => cat.skus[r.sku] = row)
  BY ImportWords DEF Import!SkuGiven
<1>2. said' = said /\ r' = r /\ Import!File' = job.file
  BY ImportWords DEF Import!ValueIn, Import!ValuesIn, Import!RowsOf, Import!None, Import!File
<1>3. Import!SkuGiven(r)' <=> (<<"sku", r.sku>> \notin meddled' => cat'.skus[r.sku] = row)
  BY <1>2 DEF Import!SkuGiven
<1> QED
  BY <1>1, <1>3

LEMMA CountStays ==
    ASSUME ImportJobHolds, NEW i \in 1 .. Len(job.file), job'.file = job.file, CatalogHolds',
           Import!CountGiven(job.file[i]),
           <<"count", job.file[i].sku>> \notin meddled' =>
               /\ <<"count", job.file[i].sku>> \notin meddled
               /\ cat'.counts[job.file[i].sku].onHand = cat.counts[job.file[i].sku].onHand
    PROVE  Import!CountGiven(job.file[i])'
<1>1. job.file[i].sku \in Import!Sku
  BY RowWords DEF ImportJobHolds, Jobs
<1>2. cat'.counts[job.file[i].sku].onHand > 0 => cat'.place
  <2>1. Import!Sku' = Import!Sku
    BY DEF Import!Sku
  <2> QED
    BY <1>1, <2>1 DEF CatalogHolds
<1> QED
  BY <1>2 DEF Import!CountGiven

LEMMA ProductStays ==
    ASSUME NEW i, job'.file = job.file, Import!ProductGiven(job.file[i]),
           <<"product", job.file[i].product>> \notin meddled' =>
               /\ <<"product", job.file[i].product>> \notin meddled
               /\ cat'.products[job.file[i].product].status \in {"ACTIVE", cat.products[job.file[i].product].status}
    PROVE  Import!ProductGiven(job.file[i])'
  BY DEF Import!ProductGiven

(* The product at hand is the same while the job has the same rows to go.  *)
LEMMA SameGroup ==
    ASSUME job'.file = job.file, job'.todo = job.todo
    PROVE  /\ Import!Group' = Import!Group /\ Import!P' = Import!P /\ Import!TheSkus' = Import!TheSkus
           /\ Import!TheValues' = Import!TheValues /\ Import!File' = Import!File
  BY DEF Import!Group, Import!P, Import!TheSkus, Import!TheValues, Import!File

(* The kinds of records are the same in every state.                       *)
LEMMA SameWords ==
    /\ Jobs' = Jobs /\ Catalogs' = Catalogs /\ Import!Sku' = Import!Sku /\ Import!Product' = Import!Product
    /\ Import!Value' = Import!Value /\ Import!Price' = Import!Price /\ Import!NoSku' = Import!NoSku
  BY DEF Jobs, ImportStatus, Import!Row, Import!Product, Import!Category, Import!Sku, Import!Price, Import!Value,
         Import!Count, Import!None, Import!NoCount, Import!Steps, Import!NoSku, Catalogs, ProductRow, SkuRow

(* Nothing of the job but its counts has changed in j, and the job goes on *)
(* to the next product.                                                    *)
LEMMA GroupDone ==
    ASSUME ImportJobHolds, job.status = "PROCESSING", NEW j \in Jobs,
           j.file = job.file, j.todo = job.todo, j.status = "PROCESSING", job' = Import!NextGroup(j)
    PROVE  /\ job'.file = job.file /\ job'.todo = job.todo \ Import!Group
           /\ job'.status \in {"PROCESSING", "COMPLETED"} /\ job'.step \notin CountSteps \cup OptionSteps
           /\ job'.created = j.created /\ job'.updated = j.updated /\ job'.skipped = j.skipped /\ job'.errors = j.errors
           /\ ImportJobHolds' /\ WrittenRows' = {}
           /\ RowsThrough' = ((1 .. Len(job.file)) \ job.todo) \cup Import!Group
<1>1. Import!Group \subseteq job.todo /\ Import!Group # {} /\ job.todo \subseteq 1 .. Len(job.file)
  BY AtHand DEF ImportJobHolds
<1>2. CASE j.todo = Import!Group
  <2>1. job' = [j EXCEPT !.status = "COMPLETED", !.todo = {}, !.step = "none", !.left = {}]
    BY <1>2, ImportWords DEF Import!NextGroup, Import!Ended
  <2>2. /\ job'.file = job.file /\ job'.todo = {} /\ job'.status = "COMPLETED" /\ job'.step = "none" /\ job'.left = {}
        /\ job'.created = j.created /\ job'.updated = j.updated /\ job'.skipped = j.skipped /\ job'.errors = j.errors
    BY <2>1 DEF Jobs
  <2>3. job' \in Jobs
    BY <2>1, ImportWords DEF Jobs, ImportStatus
  <2>4. ImportJobHolds'
    <3>1. Jobs' = Jobs
      BY SameWords
    <3> QED
      BY <2>2, <2>3, <3>1 DEF ImportJobHolds, CountSteps, OptionSteps
  <2>5. WrittenRows' = {} /\ RowsThrough' = 1 .. Len(job.file)
    BY <2>2 DEF WrittenRows, RowsThrough, CountSteps, OptionSteps
  <2>6. ((1 .. Len(job.file)) \ job.todo) \cup Import!Group = 1 .. Len(job.file)
    BY <1>1, <1>2
  <2> QED
    BY <1>2, <2>2, <2>4, <2>5, <2>6 DEF CountSteps, OptionSteps
<1>3. CASE j.todo # Import!Group
  <2>1. job' = [j EXCEPT !.todo = j.todo \ Import!Group, !.step = "category", !.left = {}]
    BY <1>3 DEF Import!NextGroup
  <2>2. /\ job'.file = job.file /\ job'.todo = job.todo \ Import!Group /\ job'.status = "PROCESSING"
        /\ job'.step = "category" /\ job'.left = {}
        /\ job'.created = j.created /\ job'.updated = j.updated /\ job'.skipped = j.skipped /\ job'.errors = j.errors
    BY <2>1 DEF Jobs
  <2>3. job' \in Jobs
    <3>1. "category" \in Import!Steps /\ "PROCESSING" \in ImportStatus
      BY ImportWords DEF ImportStatus
    <3>2. j.todo \ Import!Group \in SUBSET Nat
      BY DEF Jobs
    <3> HIDE DEF ImportStatus
    <3> QED
      BY <2>1, <3>1, <3>2 DEF Jobs
  <2>4. ImportJobHolds'
    <3>1. Jobs' = Jobs
      BY SameWords
    <3>2. job'.todo # {}
      BY <1>1, <1>3, <2>2
    <3>3. job'.todo \subseteq 1 .. Len(job'.file)
      BY <1>1, <2>2
    <3> QED
      BY <2>2, <2>3, <3>1, <3>2, <3>3 DEF ImportJobHolds, CountSteps, OptionSteps
  <2>5. WrittenRows' = {} /\ RowsThrough' = (1 .. Len(job.file)) \ (job.todo \ Import!Group)
    BY <2>2 DEF WrittenRows, RowsThrough, CountSteps, OptionSteps
  <2>6. (1 .. Len(job.file)) \ (job.todo \ Import!Group) = ((1 .. Len(job.file)) \ job.todo) \cup Import!Group
    BY <1>1
  <2> QED
    BY <2>2, <2>4, <2>5, <2>6 DEF CountSteps, OptionSteps
<1> QED
  BY <1>2, <1>3

LEMMA SameFile ==
    ASSUME job'.file = job.file, NEW i
    PROVE  Import!ContradictsFile(job.file, i)' <=> Import!ContradictsFile(job.file, i)
<1>1. /\ Import!OfProduct(job.file, i)' = Import!OfProduct(job.file, i) /\ Import!OfSku(job.file, i)' = Import!OfSku(job.file, i)
      /\ Import!Value' = Import!Value /\ Import!NoCount' = Import!NoCount
  BY DEF Import!OfProduct, Import!OfSku, Import!Value, Import!NoCount
<1> QED
  BY <1>1 DEF Import!ContradictsFile, Import!First

(* All of its product is in the catalog, and so the clean job goes on.     *)
LEMMA GroupClean ==
    ASSUME ImportJobHolds, CleanHolds, job.status = "PROCESSING", ImportJobHolds',
           job'.file = job.file, job'.todo = job.todo \ Import!Group,
           job'.step \notin CountSteps \cup OptionSteps,
           job'.errors = job.errors,
           ~job.errors => \A i \in ((1 .. Len(job.file)) \ job.todo) \cup Import!Group : Import!Given(job.file[i])'
    PROVE  CleanHolds'
<1> SUFFICES ASSUME ~job.errors
             PROVE  /\ \A i \in 1 .. Len(job.file) : ~Import!ContradictsFile(job.file, i)'
                    /\ \A i, k \in 1 .. Len(job.file) :
                          job.file[i].product = job.file[k].product /\ i \in job'.todo => k \in job'.todo
                    /\ \A i \in (1 .. Len(job.file)) \ job'.todo : Import!Given(job.file[i])'
  BY DEF CleanHolds
<1>1. Import!Group = {i \in job.todo : job.file[i].product = Import!P} /\ job.todo \subseteq 1 .. Len(job.file)
  BY AtHand DEF ImportJobHolds
<1>2. \A i \in 1 .. Len(job.file) : ~Import!ContradictsFile(job.file, i)'
  BY SameFile DEF CleanHolds
<1>3. ASSUME NEW i \in 1 .. Len(job.file), NEW k \in 1 .. Len(job.file),
             job.file[i].product = job.file[k].product, i \in job'.todo
      PROVE  k \in job'.todo
  <2>1. i \in job.todo /\ job.file[i].product # Import!P
    BY <1>1, <1>3
  <2>2. k \in job.todo
    BY <1>3, <2>1 DEF CleanHolds
  <2> QED
    BY <1>1, <1>3, <2>1, <2>2
<1>4. \A i \in (1 .. Len(job.file)) \ job'.todo : Import!Given(job.file[i])'
  BY <1>1
<1> QED
  BY <1>2, <1>3, <1>4

-----------------------------------------------------------------------------
(* The import: the tally *)

Counted == Import!Changed \cup Import!Filled \cup Import!SkusIn(job.file, WrittenRows)
Through == Import!SkusIn(job.file, RowsThrough)

LEMMA TallyRows ==
    ASSUME ImportJobHolds
    PROVE  /\ WrittenRows \subseteq 1 .. Len(job.file) /\ RowsThrough \subseteq 1 .. Len(job.file)
           /\ Counted \subseteq Import!Sku /\ Through \subseteq Import!Sku
<1>1. WrittenRows \subseteq 1 .. Len(job.file)
  <2>1. CASE job.step \in CountSteps
    <3>1. job.status = "PROCESSING"
      BY <2>1 DEF ImportJobHolds, CountSteps, OptionSteps
    <3> QED
      BY <2>1, <3>1, AtHand DEF WrittenRows, ImportJobHolds
  <2> QED
    BY <2>1 DEF WrittenRows
<1>2. RowsThrough \subseteq 1 .. Len(job.file)
  BY <1>1 DEF RowsThrough
<1>3. job.file \in Seq(Import!Row)
  BY DEF ImportJobHolds, Jobs
<1>4. Import!SkusIn(job.file, WrittenRows) \subseteq Import!Sku /\ Import!SkusIn(job.file, RowsThrough) \subseteq Import!Sku
  BY <1>1, <1>2, <1>3, NamedSkus
<1> QED
  BY <1>1, <1>2, <1>4 DEF Counted, Through, Import!Changed, Import!Filled

(* What a step adds to the SKUs that are counted, it counts.               *)
LEMMA TallyStep ==
    ASSUME ImportJobHolds, TallyHolds, job' \in Jobs, NEW more \in SUBSET Import!Sku, NEW out \in SUBSET Import!Sku,
           job'.created + job'.updated = job.created + job.updated + Cardinality(more),
           Counted' \subseteq Counted \cup more,
           job'.status \in {"PROCESSING", "COMPLETED"} =>
               /\ job.status \in {"PROCESSING", "COMPLETED"}
               /\ Through' \subseteq Through \cup more \cup out
               /\ job'.skipped >= job.skipped + Cardinality(out)
    PROVE  TallyHolds'
<1>1. /\ Counted \subseteq Import!Sku /\ Through \subseteq Import!Sku
      /\ job.created \in Nat /\ job.updated \in Nat /\ job.skipped \in Nat
      /\ job'.created \in Nat /\ job'.updated \in Nat /\ job'.skipped \in Nat
  BY TallyRows DEF ImportJobHolds, Jobs
<1>2. /\ IsFiniteSet(Counted) /\ IsFiniteSet(Through) /\ IsFiniteSet(more) /\ IsFiniteSet(out)
      /\ Cardinality(Counted) \in Nat /\ Cardinality(Through) \in Nat /\ Cardinality(more) \in Nat /\ Cardinality(out) \in Nat
  BY <1>1, FewSkus
<1>3. Cardinality(Counted') <= job'.created + job'.updated
  <2>1. /\ IsFiniteSet(Counted \cup more) /\ Cardinality(Counted \cup more) \in Nat
        /\ Cardinality(Counted \cup more) <= Cardinality(Counted) + Cardinality(more)
    BY <1>2, AtMostBoth
  <2>2. Cardinality(Counted') <= Cardinality(Counted \cup more) /\ Cardinality(Counted') \in Nat
    BY <2>1, FS_Subset, FS_CardinalityType
  <2>3. Cardinality(Counted) <= job.created + job.updated
    BY ImportCount DEF TallyHolds, Counted
  <2> QED
    BY <1>1, <1>2, <2>1, <2>2, <2>3
<1>4. ASSUME job'.status \in {"PROCESSING", "COMPLETED"}
      PROVE  Cardinality(Through') <= job'.created + job'.updated + job'.skipped
  <2>1. /\ IsFiniteSet(Through \cup more) /\ Cardinality(Through \cup more) \in Nat
        /\ Cardinality(Through \cup more) <= Cardinality(Through) + Cardinality(more)
    BY <1>2, AtMostBoth
  <2>2. /\ IsFiniteSet((Through \cup more) \cup out) /\ Cardinality((Through \cup more) \cup out) \in Nat
        /\ Cardinality((Through \cup more) \cup out) <= Cardinality(Through \cup more) + Cardinality(out)
    BY <1>2, <2>1, AtMostBoth
  <2>3. Cardinality(Through') <= Cardinality((Through \cup more) \cup out) /\ Cardinality(Through') \in Nat
    BY <1>4, <2>2, FS_Subset, FS_CardinalityType
  <2>4. Cardinality(Through) <= job.created + job.updated + job.skipped
    BY <1>4, ImportCount DEF TallyHolds, Through
  <2> QED
    BY <1>1, <1>2, <1>4, <2>1, <2>2, <2>3, <2>4
<1> QED
  BY <1>3, <1>4, ImportCount DEF TallyHolds, Counted, Through

LEMMA JobCounts ==
    \A j \in Jobs : j.created \in Nat /\ j.updated \in Nat /\ j.skipped \in Nat
  BY DEF Jobs

LEMMA NoneMore == Cardinality({}) = 0
  BY FS_EmptySet

(* The tally when the job goes on to the next product: the rows of the one *)
(* at hand are through.                                                    *)
LEMMA TallyDone ==
    ASSUME job'.file = job.file, WrittenRows' = {},
           RowsThrough' = ((1 .. Len(job.file)) \ job.todo) \cup Import!Group
    PROVE  /\ Through' \subseteq Through \cup Import!SkusIn(job.file, Import!Group)
           /\ Counted' = Import!Changed' \cup Import!Filled'
<1>1. Through' = Import!SkusIn(job.file, ((1 .. Len(job.file)) \ job.todo) \cup Import!Group)
  BY DEF Through, Import!SkusIn
<1>2. Import!SkusIn(job.file, WrittenRows)' = {}
  BY DEF Import!SkusIn
<1>3. Import!SkusIn(job.file, (1 .. Len(job.file)) \ job.todo) \subseteq Through
  BY DEF Through, RowsThrough, Import!SkusIn
<1> QED
  BY <1>1, <1>2, <1>3, SkusOfBoth DEF Counted

-----------------------------------------------------------------------------
(* The import: its steps *)

(* A job that failed or was lost has nothing more to do.                   *)
LEMMA JobIsOver ==
    ASSUME ImportJobHolds, TallyHolds, NEW status \in {"FAILED", "LOST"}, NEW errors \in BOOLEAN,
           job' = [job EXCEPT !.status = status, !.todo = {}, !.step = "none", !.left = {}, !.errors = errors],
           Import!Changed' \subseteq Import!Changed, Import!Filled' \subseteq Import!Filled
    PROVE  ImportJobHolds' /\ CleanHolds' /\ TallyHolds'
<1>1. /\ job'.file = job.file /\ job'.status = status /\ job'.todo = {} /\ job'.step = "none" /\ job'.left = {}
      /\ job'.created = job.created /\ job'.updated = job.updated /\ job' \in Jobs
  BY ImportWords DEF ImportJobHolds, Jobs, ImportStatus
<1>2. ImportJobHolds'
  <2>1. Jobs' = Jobs
    BY SameWords
  <2> QED
    BY <1>1, <2>1 DEF ImportJobHolds, CountSteps, OptionSteps
<1>3. CleanHolds'
  BY <1>1 DEF CleanHolds
<1>4. TallyHolds'
  <2>1. WrittenRows' = {}
    BY <1>1 DEF WrittenRows, CountSteps, OptionSteps
  <2>2. Counted' \subseteq Counted \cup {}
    BY <2>1 DEF Counted, Import!SkusIn
  <2>3. job'.created + job'.updated = job.created + job.updated + Cardinality({})
    BY <1>1, NoneMore DEF ImportJobHolds, Jobs
  <2>4. {} \in SUBSET Import!Sku
    OBVIOUS
  <2> QED
    BY <1>1, <2>2, <2>3, <2>4, TallyStep
<1> QED
  BY <1>2, <1>3, <1>4

(* A step that raises writes nothing.                                      *)
LEMMA RaiseHolds ==
    ASSUME ImportInv, job.status = "PROCESSING", Import!Raises
    PROVE  ImportInv'
<1>1. /\ cat' = cat /\ faced' = faced /\ meddled' = meddled
      /\ ImportJobHolds /\ CatalogHolds /\ TallyHolds /\ job \in Jobs
  BY DEF Import!Raises, ImportInv, ImportJobHolds
<1>2. Import!Group \subseteq job.todo /\ job.todo \subseteq 1 .. Len(job.file) /\ job.file \in Seq(Import!Row)
  BY <1>1, AtHand DEF ImportJobHolds
<1>3. CatalogHolds'
  BY <1>1, SameWords DEF CatalogHolds
<1>4. Import!Changed' = Import!Changed /\ Import!Filled' = Import!Filled
  BY <1>1 DEF Import!Changed, Import!Filled, Import!Sku
<1>5. CASE job.skip
  <2> DEFINE n == Import!Cardinality(Import!Group)
             j == [job EXCEPT !.skipped = job.skipped + n, !.errors = TRUE]
  <2>1. job' = Import!NextGroup(j)
    BY <1>5 DEF Import!Raises, Import!LeftOut
  <2>2. n \in Nat /\ n = Cardinality(Import!Group) /\ Cardinality(Import!SkusIn(job.file, Import!Group)) <= n
        /\ Import!SkusIn(job.file, Import!Group) \subseteq Import!Sku
    BY <1>2, ImportCount, NamedSkus
  <2> HIDE DEF n
  <2>3. /\ j \in Jobs /\ j.file = job.file /\ j.todo = job.todo /\ j.status = "PROCESSING" /\ j.errors = TRUE
        /\ j.created = job.created /\ j.updated = job.updated /\ j.skipped = job.skipped + n
    <3>1. job.skipped + n \in Nat
      BY <1>1, <2>2 DEF Jobs
    <3>2. j \in Jobs
      BY <1>1, <3>1 DEF Jobs
    <3> QED
      BY <1>1, <3>1, <3>2 DEF Jobs
  <2> HIDE DEF j
  <2>4. /\ job'.file = job.file /\ job'.todo = job.todo \ Import!Group
        /\ job'.created = j.created /\ job'.updated = j.updated /\ job'.skipped = j.skipped /\ job'.errors = j.errors
        /\ ImportJobHolds' /\ WrittenRows' = {}
        /\ RowsThrough' = ((1 .. Len(job.file)) \ job.todo) \cup Import!Group
    BY <1>1, <2>1, <2>3, GroupDone
  <2>5. CleanHolds'
    BY <2>3, <2>4 DEF CleanHolds
  <2>6. Through' \subseteq Through \cup {} \cup Import!SkusIn(job.file, Import!Group) /\ Counted' \subseteq Counted \cup {}
    BY <1>4, <2>4, TallyDone DEF Counted
  <2>7. job' \in Jobs
    BY <2>4, SameWords DEF ImportJobHolds
  <2>8. job'.created + job'.updated = job.created + job.updated + Cardinality({})
    BY <1>1, <2>3, <2>4, NoneMore, JobCounts
  <2>9. job'.skipped >= job.skipped + Cardinality(Import!SkusIn(job.file, Import!Group))
    BY <1>1, <2>2, <2>3, <2>4, FewSkus, JobCounts
  <2>10. TallyHolds'
    <3>1. {} \in SUBSET Import!Sku
      OBVIOUS
    <3> QED
      BY <1>1, <2>2, <2>6, <2>7, <2>8, <2>9, <3>1, TallyStep
  <2> QED
    BY <1>3, <2>4, <2>5, <2>10 DEF ImportInv
<1>6. CASE ~job.skip
  <2>1. job' = [job EXCEPT !.status = "FAILED", !.todo = {}, !.step = "none", !.left = {}, !.errors = TRUE]
    BY <1>1, <1>6, ImportWords DEF Import!Raises, Import!Ended, Jobs
  <2> QED
    BY <1>1, <1>3, <1>4, <2>1, JobIsOver DEF ImportInv
<1> QED
  BY <1>5, <1>6

(* A step that is committed: the job goes to another of its steps.         *)
LEMMA MoveHolds ==
    ASSUME ImportJobHolds, job.status = "PROCESSING", NEW to \in Import!Steps \ {"none", "set", "links"},
           job' = [job EXCEPT !.step = to], to \in CountSteps => job.step \in CountSteps
    PROVE  /\ job' \in Jobs /\ job'.status = "PROCESSING" /\ job'.step = to
           /\ job'.file = job.file /\ job'.todo = job.todo /\ job'.left = job.left /\ job'.errors = job.errors
           /\ job'.created = job.created /\ job'.updated = job.updated /\ job'.skipped = job.skipped
           /\ job'.corrects = job.corrects
           /\ ImportJobHolds'
<1>1. /\ job' \in Jobs /\ job'.status = "PROCESSING" /\ job'.step = to
      /\ job'.file = job.file /\ job'.todo = job.todo /\ job'.left = job.left /\ job'.errors = job.errors
      /\ job'.created = job.created /\ job'.updated = job.updated /\ job'.skipped = job.skipped
      /\ job'.corrects = job.corrects
  BY DEF ImportJobHolds, Jobs
<1>2. Import!Group' = Import!Group /\ Import!CountsIn(job.file, Import!Group)' = Import!CountsIn(job.file, Import!Group)
  BY <1>1, SameGroup DEF Import!CountsIn, Import!NoCount
<1>3. ImportJobHolds'
  BY <1>1, <1>2, SameWords DEF ImportJobHolds, CountSteps, OptionSteps
<1> QED
  BY <1>1, <1>3

(* The tally of such a step: no SKU is changed that is not counted.        *)
LEMMA MovesTally ==
    ASSUME ImportJobHolds, TallyHolds, job.status = "PROCESSING", job' \in Jobs,
           job'.file = job.file, job'.todo = job.todo, job'.status = "PROCESSING",
           job'.step \in CountSteps => job.step \in CountSteps,
           job'.created = job.created, job'.updated = job.updated, job'.skipped = job.skipped,
           Import!Changed' \subseteq Counted, Import!Filled' \subseteq Counted
    PROVE  TallyHolds'
<1>1. Import!Group' = Import!Group
  BY SameGroup
<1>2. WrittenRows' \subseteq WrittenRows
  BY <1>1 DEF WrittenRows, CountSteps, OptionSteps
<1>3. RowsThrough' \subseteq RowsThrough
  BY <1>2 DEF RowsThrough
<1>4. /\ Import!SkusIn(job.file, WrittenRows)' \subseteq Import!SkusIn(job.file, WrittenRows)
      /\ Through' \subseteq Through
  BY <1>2, <1>3 DEF Import!SkusIn, Through
<1>5. Counted' \subseteq Counted \cup {} /\ Through' \subseteq Through \cup {} \cup {}
  BY <1>4 DEF Counted
<1>6. /\ job'.created + job'.updated = job.created + job.updated + Cardinality({})
      /\ job'.skipped >= job.skipped + Cardinality({})
  BY NoneMore, JobCounts DEF ImportJobHolds
<1>7. {} \in SUBSET Import!Sku
  OBVIOUS
<1> QED
  BY <1>5, <1>6, <1>7, TallyStep

(* A clean job stays clean when its step changes no SKU and no count that  *)
(* is as the file has it.                                                  *)
LEMMA MovesClean ==
    ASSUME ImportJobHolds, CleanHolds, CatalogHolds', job.status = "PROCESSING",
           job'.file = job.file, job'.todo = job.todo, job'.errors = job.errors,
           job'.step \in CountSteps => job'.left = job.left,
           meddled' = meddled,
           \A k \in Import!Sku : <<"sku", k>> \notin meddled => cat'.skus[k] = cat.skus[k],
           \A k \in Import!Sku : cat'.counts[k] = cat.counts[k],
           \A p \in Import!Product : cat'.products[p].status \in {"ACTIVE", cat.products[p].status},
           job'.step \in OptionSteps \cup CountSteps =>
               job.step \in OptionSteps \cup CountSteps,
           job'.step \in CountSteps => job.step \in CountSteps
    PROVE  CleanHolds'
<1> SUFFICES ASSUME ~job.errors
             PROVE  CleanHolds'
  BY DEF CleanHolds
<1>1. /\ Import!Group = {i \in job.todo : job.file[i].product = Import!P} /\ job.todo \subseteq 1 .. Len(job.file)
      /\ Import!Group' = Import!Group /\ job.file \in Seq(Import!Row)
  BY AtHand, SameGroup DEF ImportJobHolds
<1>2. \A i \in 1 .. Len(job.file) : ~Import!ContradictsFile(job.file, i)'
  BY SameFile DEF CleanHolds
<1>3. ASSUME NEW i \in 1 .. Len(job.file)
      PROVE  /\ Import!SkuGiven(job.file[i]) => Import!SkuGiven(job.file[i])'
             /\ Import!CountGiven(job.file[i]) => Import!CountGiven(job.file[i])'
             /\ Import!ProductGiven(job.file[i]) => Import!ProductGiven(job.file[i])'
  <2>1. job.file[i].sku \in Import!Sku /\ job.file[i].product \in Import!Product
    BY <1>1, RowWords
  <2> QED
    BY <2>1, SkuStays, CountStays, ProductStays
<1>4. \A i \in (1 .. Len(job.file)) \ job.todo : Import!Given(job.file[i])'
  BY <1>3 DEF CleanHolds, Import!Given
<1>5. ASSUME job'.step \in OptionSteps \cup CountSteps, NEW i \in Import!Group
      PROVE  Import!ProductGiven(job.file[i])'
  BY <1>1, <1>3, <1>5 DEF CleanHolds
<1>6. ASSUME job'.step \in CountSteps, NEW i \in Import!Group
      PROVE  Import!SkuGiven(job.file[i])' /\ (i \notin job.left => Import!CountGiven(job.file[i])')
  BY <1>1, <1>3, <1>6 DEF CleanHolds
<1>7. CountSteps' = CountSteps /\ OptionSteps' = OptionSteps
  BY DEF CountSteps, OptionSteps
<1> QED
  BY <1>1, <1>2, <1>4, <1>5, <1>6, <1>7 DEF CleanHolds

LEMMA CategoryStep ==
    ASSUME ImportInv, Import!ImportCategory
    PROVE  ImportInv'
<1>1. /\ job.status = "PROCESSING" /\ job.step = "category"
      /\ CatalogHolds /\ ImportJobHolds /\ CleanHolds /\ TallyHolds
  BY DEF ImportInv, Import!ImportCategory, Import!At
<1>2. /\ job' = [job EXCEPT !.step = "product"] /\ faced' = faced /\ meddled' = meddled
      /\ cat' = IF job.adds THEN [cat EXCEPT !.categories = cat.categories \cup {Import!TheCategory}] ELSE cat
  BY DEF Import!ImportCategory, Import!Commits, Import!WithCategory
<1>3. /\ cat' \in Catalogs /\ cat'.products = cat.products /\ cat'.skus = cat.skus /\ cat'.place = cat.place
      /\ cat'.counts = cat.counts
  <2>1. cat \in Catalogs /\ Import!TheCategory \in Import!Category
    BY <1>1, AtHand DEF CatalogHolds
  <2> QED
    BY <1>2, <2>1 DEF Catalogs
<1>4. CatalogHolds'
  BY <1>1, <1>2, <1>3, SameWords DEF CatalogHolds
<1>5. /\ job' \in Jobs /\ job'.status = "PROCESSING" /\ job'.step = "product"
      /\ job'.file = job.file /\ job'.todo = job.todo /\ job'.left = job.left /\ job'.errors = job.errors
      /\ job'.created = job.created /\ job'.updated = job.updated /\ job'.skipped = job.skipped
      /\ ImportJobHolds'
  BY <1>1, <1>2, MoveHolds, ImportWords DEF CountSteps, OptionSteps
<1>6. CleanHolds'
  BY <1>1, <1>2, <1>3, <1>4, <1>5, MovesClean DEF CountSteps, OptionSteps
<1>7. TallyHolds'
  <2>1. Import!Changed' = Import!Changed /\ Import!Filled' = Import!Filled
    BY <1>2, <1>3, SameWords DEF Import!Changed, Import!Filled
  <2> QED
    BY <1>1, <1>5, <2>1, MovesTally DEF CountSteps, OptionSteps, Counted
<1> QED
  BY <1>4, <1>5, <1>6, <1>7 DEF ImportInv

LEMMA PlaceStep ==
    ASSUME ImportInv, Import!ImportPlace
    PROVE  ImportInv'
<1>1. /\ job.status = "PROCESSING" /\ job.step = "place"
      /\ CatalogHolds /\ ImportJobHolds /\ CleanHolds /\ TallyHolds
  BY DEF ImportInv, Import!ImportPlace, Import!At
<1>2. /\ job' = [job EXCEPT !.step = "count"] /\ faced' = faced /\ meddled' = meddled
      /\ cat' = [cat EXCEPT !.place = TRUE]
  BY DEF Import!ImportPlace, Import!Commits
<1>3. /\ cat' \in Catalogs /\ cat'.products = cat.products /\ cat'.skus = cat.skus /\ cat'.place = TRUE
      /\ cat'.counts = cat.counts
  BY <1>1, <1>2 DEF CatalogHolds, Catalogs
<1>4. CatalogHolds'
  BY <1>1, <1>2, <1>3, SameWords DEF CatalogHolds
<1>5. /\ job' \in Jobs /\ job'.status = "PROCESSING" /\ job'.step = "count"
      /\ job'.file = job.file /\ job'.todo = job.todo /\ job'.left = job.left /\ job'.errors = job.errors
      /\ job'.created = job.created /\ job'.updated = job.updated /\ job'.skipped = job.skipped
      /\ ImportJobHolds'
  BY <1>1, <1>2, MoveHolds, ImportWords DEF CountSteps, OptionSteps
<1>6. CleanHolds'
  BY <1>1, <1>2, <1>3, <1>4, <1>5, MovesClean DEF CountSteps, OptionSteps
<1>7. TallyHolds'
  <2>1. Import!Changed' = Import!Changed /\ Import!Filled' = Import!Filled
    BY <1>2, <1>3, SameWords DEF Import!Changed, Import!Filled
  <2> QED
    BY <1>1, <1>5, <2>1, MovesTally DEF CountSteps, OptionSteps, Counted
<1> QED
  BY <1>4, <1>5, <1>6, <1>7 DEF ImportInv

LEMMA ProductStep ==
    ASSUME ImportInv, Import!ImportProduct
    PROVE  ImportInv'
<1>1. /\ job.status = "PROCESSING" /\ job.step = "product"
      /\ CatalogHolds /\ ImportJobHolds /\ CleanHolds /\ TallyHolds
  BY DEF ImportInv, Import!ImportProduct, Import!At
<1>2. CASE ~Import!MayHaveProduct(cat, Import!TheCategory)
  BY <1>1, <1>2, RaiseHolds DEF Import!ImportProduct
<1>3. CASE Import!MayHaveProduct(cat, Import!TheCategory)
  <2> DEFINE to == IF Import!TheValues = {} THEN "variants" ELSE "options"
             p == Import!P
             row == [cat.products[p] EXCEPT !.status = "ACTIVE", !.category = Import!TheCategory, !.text = "file"]
  <2>1. /\ job' = [job EXCEPT !.step = to] /\ faced' = faced /\ meddled' = meddled
        /\ cat' = Import!WithProduct(cat, p, Import!TheCategory)
    BY <1>3 DEF Import!ImportProduct, Import!Commits
  <2>2. cat \in Catalogs /\ Import!TheCategory \in Import!Category /\ p \in Import!Product
    BY <1>1, AtHand DEF CatalogHolds
  <2> HIDE DEF p
  <2>3. cat' = [cat EXCEPT !.products = [cat.products EXCEPT ![p] = row]] /\ row \in ProductRow
        /\ row.status = "ACTIVE" /\ row.values = cat.products[p].values
    BY <2>1, <2>2 DEF Import!WithProduct, Catalogs, ProductRow
  <2> HIDE DEF row
  <2>4. /\ cat' \in Catalogs /\ cat'.skus = cat.skus /\ cat'.place = cat.place /\ cat'.counts = cat.counts
        /\ cat'.products = [cat.products EXCEPT ![p] = row]
    BY <2>2, <2>3 DEF Catalogs
  <2>5. \A q \in Import!Product :
           /\ cat'.products[q].values = cat.products[q].values
           /\ cat'.products[q].status \in {"ACTIVE", cat.products[q].status}
           /\ q = p => cat'.products[q].status = "ACTIVE"
    BY <2>2, <2>3, <2>4 DEF Catalogs
  <2>6. CatalogHolds'
    <3>1. \A k \in Import!Sku : cat.skus[k].of # "none" => cat.skus[k].of \in Import!Product
      BY <2>2 DEF Catalogs, SkuRow
    <3> QED
      BY <1>1, <2>1, <2>4, <2>5, <3>1, SameWords DEF CatalogHolds
  <2>7. /\ job' \in Jobs /\ job'.status = "PROCESSING" /\ job'.step = to
        /\ job'.file = job.file /\ job'.todo = job.todo /\ job'.left = job.left /\ job'.errors = job.errors
        /\ job'.created = job.created /\ job'.updated = job.updated /\ job'.skipped = job.skipped
        /\ ImportJobHolds'
    BY <1>1, <2>1, MoveHolds, ImportWords DEF CountSteps, OptionSteps
  <2>8. CleanHolds'
    <3> SUFFICES ASSUME ~job.errors
                 PROVE  CleanHolds'
      BY <2>7 DEF CleanHolds
    <3>1. /\ Import!Group = {i \in job.todo : job.file[i].product = p} /\ job.todo \subseteq 1 .. Len(job.file)
          /\ Import!Group' = Import!Group /\ job.file \in Seq(Import!Row)
      BY <1>1, <2>7, AtHand, SameGroup DEF ImportJobHolds, p
    <3>2. \A i \in 1 .. Len(job.file) : ~Import!ContradictsFile(job.file, i)'
      BY <1>1, <2>7, SameFile DEF CleanHolds
    <3>3. ASSUME NEW i \in (1 .. Len(job.file)) \ job.todo
          PROVE  Import!Given(job.file[i])'
      <4>1. job.file[i].sku \in Import!Sku /\ job.file[i].product \in Import!Product
        BY <3>1, RowWords
      <4>2. Import!SkuGiven(job.file[i]) /\ Import!CountGiven(job.file[i]) /\ Import!ProductGiven(job.file[i])
        BY <1>1 DEF CleanHolds, Import!Given
      <4>3. Import!SkuGiven(job.file[i])'
        BY <2>1, <2>4, <2>7, <4>2, SkuStays
      <4>4. Import!CountGiven(job.file[i])'
        BY <1>1, <2>1, <2>4, <2>6, <2>7, <4>2, CountStays
      <4>5. Import!ProductGiven(job.file[i])'
        BY <2>1, <2>5, <2>7, <4>1, <4>2, ProductStays
      <4> QED
        BY <4>3, <4>4, <4>5 DEF Import!Given
    <3>4. \A i \in Import!Group : Import!ProductGiven(job.file[i])'
      <4>1. \A i \in Import!Group : job.file[i].product = p
        BY <2>7, <3>1
      <4> QED
        BY <2>2, <2>5, <2>7, <4>1 DEF Import!ProductGiven
    <3> QED
      BY <1>1, <2>7, <3>1, <3>2, <3>3, <3>4 DEF CleanHolds, CountSteps, OptionSteps
  <2>9. TallyHolds'
    <3>1. Import!Changed' = Import!Changed /\ Import!Filled' = Import!Filled
      BY <2>1, <2>4, SameWords DEF Import!Changed, Import!Filled
    <3> QED
      BY <1>1, <2>7, <3>1, MovesTally DEF CountSteps, OptionSteps, Counted
  <2> QED
    BY <2>6, <2>7, <2>8, <2>9 DEF ImportInv
<1> QED
  BY <1>2, <1>3

(* The options are read, with the values the other SKUs have.              *)
LEMMA OptionsStep ==
    ASSUME ImportInv, Import!ImportOptions
    PROVE  ImportInv' /\ cat' = cat
<1>1. /\ job.status = "PROCESSING" /\ job.step = "options"
      /\ CatalogHolds /\ ImportJobHolds /\ CleanHolds /\ TallyHolds
  BY DEF ImportInv, Import!ImportOptions, Import!At
<1> DEFINE p == Import!P
           values == cat.products[p].values
           merged == values \cup Import!TheValues
<1>2. /\ cat \in Catalogs /\ p \in Import!Product /\ Import!TheValues \subseteq Import!Value
      /\ merged \in SUBSET Import!Value
  <2>1. cat \in Catalogs /\ p \in Import!Product /\ Import!TheValues \subseteq Import!Value
    BY <1>1, AtHand DEF CatalogHolds
  <2> QED
    BY <2>1 DEF Catalogs, ProductRow
<1>3. CASE Import!TheValues \subseteq values
  <2>1. /\ cat' = cat /\ job' = [job EXCEPT !.step = "variants"] /\ faced' = faced /\ meddled' = meddled
    BY <1>3 DEF Import!ImportOptions, Import!Commits
  <2>2. CatalogHolds'
    BY <1>1, <2>1, SameWords DEF CatalogHolds
  <2>3. /\ job' \in Jobs /\ job'.status = "PROCESSING" /\ job'.step = "variants"
        /\ job'.file = job.file /\ job'.todo = job.todo /\ job'.left = job.left /\ job'.errors = job.errors
        /\ job'.created = job.created /\ job'.updated = job.updated /\ job'.skipped = job.skipped
        /\ ImportJobHolds'
    BY <1>1, <2>1, MoveHolds, ImportWords DEF CountSteps, OptionSteps
  <2>4. CleanHolds'
    BY <1>1, <2>1, <2>2, <2>3, MovesClean DEF CountSteps, OptionSteps
  <2>5. TallyHolds'
    <3>1. Import!Changed' = Import!Changed /\ Import!Filled' = Import!Filled
      BY <2>1, SameWords DEF Import!Changed, Import!Filled
    <3> QED
      BY <1>1, <2>3, <3>1, MovesTally DEF CountSteps, OptionSteps, Counted
  <2> QED
    BY <2>1, <2>2, <2>3, <2>4, <2>5 DEF ImportInv
<1>4. CASE ~(Import!TheValues \subseteq values)
  <2> DEFINE links == {<<k, cat.skus[k].value>> : k \in {q \in Import!SkusOf(cat, p) \ Import!TheSkus : cat.skus[q].value # "none"}}
  <2>1. /\ job' = [job EXCEPT !.step = "set", !.merged = merged, !.left = links]
        /\ cat' = cat /\ faced' = faced /\ meddled' = meddled
    BY <1>4, ImportWords DEF Import!ImportOptions, Import!MergedOptions
  <2>2. CatalogHolds'
    BY <1>1, <2>1, SameWords DEF CatalogHolds
  <2>3. \A k \in Import!Sku : cat.skus[k].of = p => cat.skus[k].value \in merged \cup {"none"}
    <3>1. p # "none"
      BY <1>2, ImportWords
    <3> QED
      BY <1>1, <3>1 DEF CatalogHolds
  <2>7. links \subseteq Import!Sku \X Import!Value /\ links \in SUBSET (Nat \cup (Import!Sku \X Import!Value))
    BY <1>2 DEF Import!SkusOf, Catalogs, SkuRow
  <2>8. \A l \in links :
           /\ l[1] \notin Import!TheSkus /\ cat.skus[l[1]].of = p /\ cat.skus[l[1]].value = l[2]
           /\ \A m \in links : m[1] = l[1] => m = l
    BY DEF Import!SkusOf
  <2> HIDE DEF links, merged
  <2>9. /\ job' \in Jobs /\ job'.status = "PROCESSING" /\ job'.step = "set" /\ job'.merged = merged
        /\ job'.file = job.file /\ job'.todo = job.todo /\ job'.left = links /\ job'.errors = job.errors
        /\ job'.created = job.created /\ job'.updated = job.updated /\ job'.skipped = job.skipped
    BY <1>1, <1>2, <2>1, <2>7, ImportWords DEF ImportJobHolds, Jobs
  <2>10. ImportJobHolds'
    <3>1. Import!TheSkus' = Import!TheSkus /\ Import!P' = p
      BY <2>9, SameGroup DEF p
    <3> HIDE DEF p
    <3>2. LinksHold'
      BY <2>1, <2>7, <2>8, <2>9, <3>1, SameWords DEF LinksHold
    <3>3. MergeHolds'
      BY <2>1, <2>3, <2>9, <3>1, SameWords DEF MergeHolds
    <3> QED
      BY <1>1, <2>9, <3>2, <3>3, SameWords DEF ImportJobHolds, CountSteps, OptionSteps
  <2>11. CleanHolds'
    BY <1>1, <2>1, <2>2, <2>9, MovesClean DEF CountSteps, OptionSteps
  <2>12. TallyHolds'
    <3>1. Import!Changed' = Import!Changed /\ Import!Filled' = Import!Filled
      BY <2>1, SameWords DEF Import!Changed, Import!Filled
    <3> QED
      BY <1>1, <2>9, <3>1, MovesTally DEF CountSteps, OptionSteps, Counted
  <2> QED
    BY <2>1, <2>2, <2>10, <2>11, <2>12 DEF ImportInv
<1> QED
  BY <1>3, <1>4

(* The options are set: a SKU loses its value only when others gave it one *)
(* that is not among them.                                                 *)
LEMMA OptionsSetStep ==
    ASSUME ImportInv, Import!ImportOptionsSet
    PROVE  /\ ImportInv' /\ cat'.counts = cat.counts
           /\ \A k \in Import!Sku : cat'.skus[k] # cat.skus[k] => <<"sku", k>> \in meddled /\ cat'.skus[k].of = cat.skus[k].of
<1> DEFINE p == Import!P
           row == [cat.products[p] EXCEPT !.values = job.merged]
           products == [cat.products EXCEPT ![p] = row]
           unlinked(k) == IF cat.skus[k].of = p /\ cat.skus[k].value \notin job.merged
                          THEN [cat.skus[k] EXCEPT !.value = "none"] ELSE cat.skus[k]
           skus == [k \in Import!Sku |-> unlinked(k)]
<1>1. /\ job.status = "PROCESSING" /\ job.step = "set" /\ LinksHold /\ MergeHolds
      /\ CatalogHolds /\ ImportJobHolds /\ CleanHolds /\ TallyHolds
  BY DEF ImportInv, Import!ImportOptionsSet, Import!At, ImportJobHolds
<1>2. cat \in Catalogs /\ p \in Import!Product /\ job.merged \subseteq Import!Value /\ p # "none"
  BY <1>1, AtHand, ImportWords DEF CatalogHolds, ImportJobHolds, Jobs
<1>3. /\ cat' = [cat EXCEPT !.products = products, !.skus = skus]
      /\ job' = [job EXCEPT !.step = "links"] /\ faced' = faced /\ meddled' = meddled
  <2>1. cat' = Import!WithOptions(cat, p, job.merged)
    BY DEF Import!ImportOptionsSet, Import!Commits
  <2>2. Import!WithOptions(cat, p, job.merged) =
           [cat EXCEPT !.products = [cat.products EXCEPT ![p] = [cat.products[p] EXCEPT !.values = job.merged]],
                       !.skus = Import!Unlinked(cat, p, job.merged)]
    BY <1>2 DEF Import!WithOptions, Catalogs
  <2>3. Import!Unlinked(cat, p, job.merged) = skus
    BY ImportWords DEF Import!Unlinked
  <2> QED
    BY <2>1, <2>2, <2>3 DEF Import!ImportOptionsSet, Import!Commits
<1>4. ASSUME NEW k \in Import!Sku
      PROVE  /\ unlinked(k) \in SkuRow /\ unlinked(k).of = cat.skus[k].of /\ unlinked(k).price = cat.skus[k].price
             /\ unlinked(k).value \in {"none", cat.skus[k].value}
             /\ cat.skus[k].of = p => unlinked(k).value \in job.merged \cup {"none"}
             /\ unlinked(k) # cat.skus[k] => <<"sku", k>> \in meddled /\ cat.skus[k].of = p
  <2>1. cat.skus[k] \in SkuRow
    BY <1>2 DEF Catalogs
  <2>2. cat.skus[k].of = p /\ cat.skus[k].value \notin job.merged =>
           <<"sku", k>> \in meddled \/ cat.skus[k].value = "none"
    BY <1>1 DEF MergeHolds
  <2>3. cat.skus[k].value = "none" => [cat.skus[k] EXCEPT !.value = "none"] = cat.skus[k]
    BY <2>1 DEF SkuRow
  <2>4. PICK r : r = [cat.skus[k] EXCEPT !.value = "none"]
    OBVIOUS
  <2>5. r \in SkuRow /\ r.of = cat.skus[k].of /\ r.price = cat.skus[k].price /\ r.value = "none"
    BY <2>1, <2>4 DEF SkuRow
  <2> QED
    BY <2>1, <2>2, <2>3, <2>4, <2>5
<1> HIDE DEF unlinked
<1>5. row \in ProductRow /\ row.status = cat.products[p].status /\ row.values = job.merged
  BY <1>2 DEF Catalogs, ProductRow
<1> HIDE DEF row, p
<1>6. products \in [Import!Product -> ProductRow] /\ skus \in [Import!Sku -> SkuRow]
  BY <1>2, <1>4, <1>5 DEF Catalogs
<1>7. /\ cat' \in Catalogs /\ cat'.place = cat.place /\ cat'.counts = cat.counts
      /\ cat'.products = products /\ cat'.skus = skus
  <2> HIDE DEF products, skus
  <2> QED
    BY <1>2, <1>3, <1>6 DEF Catalogs
<1>8. \A k \in Import!Sku : cat'.skus[k] = unlinked(k)
  BY <1>7
<1>9. \A q \in Import!Product :
         /\ cat'.products[q].values = IF q = p THEN job.merged ELSE cat.products[q].values
         /\ cat'.products[q].status = cat.products[q].status
  BY <1>2, <1>5, <1>7 DEF Catalogs
<1> HIDE DEF products, skus
<1>10. \A k \in Import!Sku : cat'.skus[k] # cat.skus[k] => <<"sku", k>> \in meddled /\ cat'.skus[k].of = cat.skus[k].of
  BY <1>4, <1>8
<1>11. CatalogHolds'
  <2>1. ASSUME NEW k \in Import!Sku
        PROVE  IF cat'.skus[k].of = "none" THEN cat'.skus[k] = Import!NoSku
               ELSE /\ cat'.skus[k].price \in Import!Price
                    /\ cat'.skus[k].value \in cat'.products[cat'.skus[k].of].values \cup {"none"}
    <3>1. IF cat.skus[k].of = "none" THEN cat.skus[k] = Import!NoSku
          ELSE /\ cat.skus[k].price \in Import!Price
               /\ cat.skus[k].value \in cat.products[cat.skus[k].of].values \cup {"none"}
      BY <1>1 DEF CatalogHolds
    <3>2. cat.skus[k].of # "none" => cat.skus[k].of \in Import!Product
      BY <1>2 DEF Catalogs, SkuRow
    <3>3. cat'.skus[k] = unlinked(k)
      BY <1>8
    <3>4. CASE cat.skus[k].of = "none"
      BY <1>2, <1>4, <3>1, <3>3, <3>4
    <3>5. CASE cat.skus[k].of = p
      <4>1. cat'.products[p].values = job.merged
        BY <1>2, <1>9
      <4>2. /\ cat'.skus[k].of = p /\ cat'.skus[k].price = cat.skus[k].price
            /\ cat'.skus[k].value \in job.merged \cup {"none"}
        BY <1>4, <3>3, <3>5
      <4>3. p # "none" /\ cat.skus[k].price \in Import!Price
        BY <1>2, <3>1, <3>5
      <4> QED
        BY <4>1, <4>2, <4>3
    <3>6. CASE cat.skus[k].of \notin {"none", p}
      <4>1. cat'.skus[k] = cat.skus[k]
        BY <1>4, <3>3, <3>6
      <4>2. cat'.products[cat.skus[k].of].values = cat.products[cat.skus[k].of].values
        BY <1>9, <3>2, <3>6
      <4> QED
        BY <3>1, <4>1, <4>2
    <3> QED
      BY <3>4, <3>5, <3>6
  <2> QED
    BY <1>1, <1>3, <1>7, <2>1, SameWords DEF CatalogHolds
<1>12. /\ job' \in Jobs /\ job'.status = "PROCESSING" /\ job'.step = "links"
       /\ job'.file = job.file /\ job'.todo = job.todo /\ job'.left = job.left /\ job'.errors = job.errors
       /\ job'.created = job.created /\ job'.updated = job.updated /\ job'.skipped = job.skipped
  BY <1>1, <1>3, ImportWords DEF ImportJobHolds, Jobs
<1>13. ImportJobHolds'
  <2>1. Import!TheSkus' = Import!TheSkus /\ Import!P' = Import!P
    BY <1>12, SameGroup
  <2>2. LinksHold'
    <3>1. \A l \in job.left : l[1] \in Import!Sku
      BY <1>1 DEF LinksHold
    <3> QED
      BY <1>1, <1>3, <1>4, <1>8, <1>10, <1>12, <2>1, <3>1, SameWords DEF LinksHold
  <2> QED
    BY <1>1, <1>12, <2>2, SameWords DEF ImportJobHolds, CountSteps, OptionSteps
<1>14. CleanHolds'
  BY <1>1, <1>3, <1>7, <1>9, <1>10, <1>11, <1>12, MovesClean DEF CountSteps, OptionSteps
<1>15. TallyHolds'
  <2>1. Import!Changed' = Import!Changed /\ Import!Filled' = Import!Filled
    BY <1>3, <1>7, <1>10, SameWords DEF Import!Changed, Import!Filled
  <2> QED
    BY <1>1, <1>12, <2>1, MovesTally DEF CountSteps, OptionSteps, Counted
<1> QED
  BY <1>7, <1>10, <1>11, <1>13, <1>14, <1>15 DEF ImportInv

(* A SKU is linked again only when others took its value meanwhile.        *)
LEMMA LinksStep ==
    ASSUME ImportInv, Import!ImportLinks
    PROVE  /\ ImportInv' /\ cat'.counts = cat.counts
           /\ \A k \in Import!Sku : cat'.skus[k] # cat.skus[k] => <<"sku", k>> \in meddled /\ cat'.skus[k].of = cat.skus[k].of
<1>1. /\ job.status = "PROCESSING" /\ job.step = "links"
      /\ CatalogHolds /\ ImportJobHolds /\ CleanHolds /\ TallyHolds
  BY DEF ImportInv, Import!ImportLinks, Import!At
<1> DEFINE p == Import!P
           back == {l \in job.left : Import!IsSku(cat, l[1])}
           refused == \E l \in back : cat.skus[l[1]].value = l[2] \/ l[2] \notin cat.products[p].values
<1>2. CASE refused
  <2>1. Import!Raises
    BY <1>2 DEF Import!ImportLinks
  <2> QED
    BY <1>1, <2>1, RaiseHolds DEF Import!Raises
<1>3. CASE ~refused
  <2> DEFINE linked(k) == IF \E l \in back : l[1] = k
                          THEN [cat.skus[k] EXCEPT !.value = (CHOOSE l \in back : l[1] = k)[2]] ELSE cat.skus[k]
             skus == [k \in Import!Sku |-> linked(k)]
  <2>1. /\ cat' = [cat EXCEPT !.skus = skus]
        /\ job' = [job EXCEPT !.step = "variants"] /\ faced' = faced /\ meddled' = meddled
    BY <1>3 DEF Import!ImportLinks, Import!Commits
  <2>2. cat \in Catalogs /\ p \in Import!Product /\ LinksHold
    BY <1>1, AtHand DEF CatalogHolds, ImportJobHolds
  <2>3. \A l \in back :
           /\ l \in Import!Sku \X Import!Value /\ l[2] \in cat.products[p].values
           /\ <<"sku", l[1]>> \in meddled /\ cat.skus[l[1]].of = p
    BY <1>3, <2>2 DEF LinksHold
  <2> HIDE DEF back
  <2>4. ASSUME NEW k \in Import!Sku
        PROVE  /\ linked(k) \in SkuRow /\ linked(k).of = cat.skus[k].of /\ linked(k).price = cat.skus[k].price
               /\ linked(k) = cat.skus[k] \/ (<<"sku", k>> \in meddled /\ cat.skus[k].of = p /\ linked(k).value \in cat.products[p].values)
    <3>1. cat.skus[k] \in SkuRow
      BY <2>2 DEF Catalogs
    <3>2. CASE \E l \in back : l[1] = k
      <4> DEFINE m == CHOOSE l \in back : l[1] = k
      <4>1. m \in back /\ m[1] = k
        BY <3>2
      <4> HIDE DEF m
      <4>2. linked(k) = [cat.skus[k] EXCEPT !.value = m[2]] /\ m[2] \in Import!Value
        BY <2>3, <3>2, <4>1 DEF m
      <4>3. /\ linked(k) \in SkuRow /\ linked(k).of = cat.skus[k].of /\ linked(k).price = cat.skus[k].price
            /\ linked(k).value = m[2]
        BY <3>1, <4>2 DEF SkuRow
      <4> QED
        BY <2>3, <4>1, <4>3
    <3> QED
      BY <3>1, <3>2
  <2>5. /\ cat'.products = cat.products /\ cat'.place = cat.place /\ cat'.counts = cat.counts /\ cat'.skus = skus
        /\ cat' \in Catalogs
    BY <2>1, <2>2, <2>4 DEF Catalogs
  <2>6. \A k \in Import!Sku : cat'.skus[k] = linked(k)
    BY <2>5
  <2> HIDE DEF linked, skus
  <2>7. CatalogHolds'
    <3>1. ASSUME NEW k \in Import!Sku
          PROVE  IF cat'.skus[k].of = "none" THEN cat'.skus[k] = Import!NoSku
                 ELSE /\ cat'.skus[k].price \in Import!Price
                      /\ cat'.skus[k].value \in cat'.products[cat'.skus[k].of].values \cup {"none"}
      <4>1. p # "none"
        BY <2>2, ImportWords
      <4>2. IF cat.skus[k].of = "none" THEN cat.skus[k] = Import!NoSku
            ELSE /\ cat.skus[k].price \in Import!Price
                 /\ cat.skus[k].value \in cat.products[cat.skus[k].of].values \cup {"none"}
        BY <1>1 DEF CatalogHolds
      <4> QED
        BY <2>4, <2>5, <2>6, <4>1, <4>2
    <3> QED
      BY <1>1, <2>1, <2>5, <3>1, SameWords DEF CatalogHolds
  <2>8. /\ job' \in Jobs /\ job'.status = "PROCESSING" /\ job'.step = "variants"
        /\ job'.file = job.file /\ job'.todo = job.todo /\ job'.left = job.left /\ job'.errors = job.errors
        /\ job'.created = job.created /\ job'.updated = job.updated /\ job'.skipped = job.skipped
        /\ ImportJobHolds'
    BY <1>1, <2>1, MoveHolds, ImportWords DEF CountSteps, OptionSteps
  <2>9. \A k \in Import!Sku : cat'.skus[k] # cat.skus[k] => <<"sku", k>> \in meddled /\ cat'.skus[k].of = cat.skus[k].of
    BY <2>4, <2>6
  <2>10. CleanHolds'
    BY <1>1, <2>1, <2>5, <2>7, <2>8, <2>9, MovesClean DEF CountSteps, OptionSteps
  <2>11. TallyHolds'
    <3>1. Import!Changed' = Import!Changed /\ Import!Filled' = Import!Filled
      BY <2>1, <2>5, <2>9, SameWords DEF Import!Changed, Import!Filled
    <3> QED
      BY <1>1, <2>8, <3>1, MovesTally DEF CountSteps, OptionSteps, Counted
  <2> QED
    BY <2>5, <2>7, <2>8, <2>9, <2>10, <2>11 DEF ImportInv
<1> QED
  BY <1>2, <1>3

(* The SKUs of the product at hand are written as the file has them.       *)
LEMMA VariantsStep ==
    ASSUME ImportInv, Import!ImportVariants
    PROVE  /\ ImportInv' /\ cat'.counts = cat.counts
           /\ \A k \in Import!Sku : cat'.skus[k] # cat.skus[k] =>
                 k \in Import!TheSkus /\ cat.skus[k].of \in {"none", cat'.skus[k].of}
<1>1. /\ job.status = "PROCESSING" /\ job.step = "variants"
      /\ CatalogHolds /\ ImportJobHolds /\ CleanHolds /\ TallyHolds
  BY DEF ImportInv, Import!ImportVariants, Import!At
<1> DEFINE p == Import!P
           ks == Import!TheSkus
           new == {k \in ks : ~Import!IsSku(cat, k)}
           refused == (\E k \in ks : Import!IsSku(cat, k) /\ cat.skus[k].of # p) \/ ~(Import!TheValues \subseteq cat.products[p].values)
<1>2. CASE refused
  <2>1. Import!Raises
    BY <1>2 DEF Import!ImportVariants
  <2> QED
    BY <1>1, <2>1, RaiseHolds DEF Import!Raises
<1>3. CASE ~refused
  <2> DEFINE row(k) == [of |-> p, status |-> "ACTIVE", price |-> Import!PriceIn(job.file, Import!Group, k),
                        value |-> Import!ValueIn(job.file, Import!Group, k)]
             skus == [k \in Import!Sku |-> IF k \in ks THEN row(k) ELSE cat.skus[k]]
             j == [job EXCEPT !.created = job.created + Import!Cardinality(new),
                              !.updated = job.updated + Import!Cardinality(ks \ new)]
             counts == Import!CountsIn(job.file, Import!Group)
  <2>1. /\ cat' = [cat EXCEPT !.skus = skus] /\ faced' = faced /\ meddled' = meddled
        /\ job' = IF counts = {} THEN Import!NextGroup(j) ELSE [j EXCEPT !.step = "place", !.left = counts]
    BY <1>3, ImportWords DEF Import!ImportVariants
  <2>2. /\ cat \in Catalogs /\ p \in Import!Product /\ ks \subseteq Import!Sku /\ job \in Jobs
        /\ job.file \in Seq(Import!Row) /\ Import!Group = {i \in job.todo : job.file[i].product = p}
        /\ ks = {job.file[i].sku : i \in Import!Group} /\ ks = Import!SkusIn(job.file, Import!Group)
        /\ job.todo \subseteq 1 .. Len(job.file) /\ Import!Group # {}
    BY <1>1, AtHand DEF CatalogHolds, ImportJobHolds
  <2>3. /\ Import!TheValues \subseteq cat.products[p].values /\ Import!TheValues \subseteq Import!Value
        /\ \A k \in ks : cat.skus[k].of \in {"none", p}
    <3>1. \A k \in ks : ~Import!IsSku(cat, k) => cat.skus[k].of = "none"
      BY ImportWords DEF Import!IsSku
    <3> QED
      BY <1>1, <1>3, <3>1, AtHand
  <2>4. \A k \in ks : row(k) \in SkuRow /\ row(k).price \in Import!Price /\ row(k).value \in cat.products[p].values \cup {"none"}
                      /\ row(k).of = p
    BY <1>1, <2>2, <2>3, SaidOfSku DEF SkuRow
  <2> HIDE DEF new
  <2>5. /\ cat'.products = cat.products /\ cat'.place = cat.place /\ cat'.counts = cat.counts /\ cat'.skus = skus
        /\ cat' \in Catalogs
    <3>1. skus \in [Import!Sku -> SkuRow]
      BY <2>2, <2>4 DEF Catalogs
    <3> QED
      BY <2>1, <2>2, <3>1 DEF Catalogs
  <2>6. \A k \in Import!Sku : cat'.skus[k] = IF k \in ks THEN row(k) ELSE cat.skus[k]
    BY <2>5
  <2>7. p # "none"
    BY <2>2, ImportWords
  <2>8. CatalogHolds'
    <3>1. ASSUME NEW k \in Import!Sku
          PROVE  IF cat'.skus[k].of = "none" THEN cat'.skus[k] = Import!NoSku
                 ELSE /\ cat'.skus[k].price \in Import!Price
                      /\ cat'.skus[k].value \in cat'.products[cat'.skus[k].of].values \cup {"none"}
      <4>1. IF cat.skus[k].of = "none" THEN cat.skus[k] = Import!NoSku
            ELSE /\ cat.skus[k].price \in Import!Price
                 /\ cat.skus[k].value \in cat.products[cat.skus[k].of].values \cup {"none"}
        BY <1>1 DEF CatalogHolds
      <4>2. k \in ks => row(k).of = p /\ row(k).price \in Import!Price /\ row(k).value \in cat.products[p].values \cup {"none"}
        BY <2>4
      <4> HIDE DEF row, skus
      <4> QED
        BY <2>5, <2>6, <2>7, <4>1, <4>2
    <3> QED
      BY <1>1, <2>1, <2>5, <3>1, SameWords DEF CatalogHolds
  <2>9. \A k \in Import!Sku : cat'.skus[k] # cat.skus[k] => k \in ks /\ cat.skus[k].of \in {"none", cat'.skus[k].of}
    BY <2>3, <2>4, <2>6
  <2>10. /\ IsFiniteSet(ks) /\ new \subseteq ks
         /\ Import!Cardinality(new) \in Nat /\ Import!Cardinality(ks \ new) \in Nat
         /\ Import!Cardinality(new) + Import!Cardinality(ks \ new) = Cardinality(ks)
    <3>1. new \subseteq ks /\ IsFiniteSet(ks) /\ ks \cap new = new
      BY <2>2, FewSkus DEF new
    <3>2. IsFiniteSet(new) /\ Cardinality(ks \ new) = Cardinality(ks) - Cardinality(ks \cap new)
      BY <3>1, FS_Difference, FS_Subset
    <3>3. Cardinality(new) \in Nat /\ Cardinality(ks) \in Nat /\ Cardinality(ks \ new) \in Nat
      BY <2>2, <3>1, FewSkus
    <3> QED
      BY <3>1, <3>2, <3>3, ImportCount
  <2>11. /\ j \in Jobs /\ j.file = job.file /\ j.todo = job.todo /\ j.status = "PROCESSING" /\ j.errors = job.errors
         /\ j.created + j.updated = job.created + job.updated + Cardinality(ks) /\ j.skipped = job.skipped
         /\ j.step = job.step
    <3>1. job.created + Import!Cardinality(new) \in Nat /\ job.updated + Import!Cardinality(ks \ new) \in Nat
      BY <2>2, <2>10, JobCounts
    <3>2. /\ j \in Jobs /\ j.file = job.file /\ j.todo = job.todo /\ j.status = "PROCESSING" /\ j.errors = job.errors
          /\ j.created = job.created + Import!Cardinality(new) /\ j.updated = job.updated + Import!Cardinality(ks \ new)
          /\ j.skipped = job.skipped /\ j.step = job.step
      BY <1>1, <2>2, <3>1 DEF Jobs
    <3> QED
      BY <2>2, <2>10, <3>2, FewSkus, JobCounts
  <2> HIDE DEF j
  (* What the rows of the file say then. *)
  <2>12. ASSUME ~job.errors, NEW i \in (1 .. Len(job.file)) \ job.todo, job'.file = job.file
         PROVE  Import!Given(job.file[i])'
    <3>1. job.file[i].sku \in Import!Sku /\ Import!Given(job.file[i])
      <4>1. job.file[i].sku \in Import!Sku
        BY <2>2, RowWords
      <4>2. Import!Given(job.file[i])
        BY <1>1, <2>12 DEF CleanHolds
      <4> QED
        BY <4>1, <4>2
    <3>2. job.file[i].sku \notin ks
      <4>1. SUFFICES ASSUME NEW l \in Import!Group, job.file[l].sku = job.file[i].sku
                     PROVE  FALSE
        BY <2>2
      <4>2. i \in Import!Group
        BY <1>1, <2>12, <4>1, SaidByFile
      <4> QED
        BY <2>2, <4>2
    <3>3. cat'.skus[job.file[i].sku] = cat.skus[job.file[i].sku]
      BY <2>6, <3>1, <3>2
    <3>4. Import!SkuGiven(job.file[i])'
      BY <2>1, <2>12, <3>1, <3>3, SkuStays DEF Import!Given
    <3>5. Import!CountGiven(job.file[i])'
      BY <1>1, <2>1, <2>5, <2>8, <2>12, <3>1, CountStays DEF Import!Given
    <3>6. Import!ProductGiven(job.file[i])'
      BY <2>1, <2>5, <2>12, <3>1, ProductStays DEF Import!Given
    <3> QED
      BY <3>4, <3>5, <3>6 DEF Import!Given
  <2>13. ASSUME ~job.errors, NEW i \in Import!Group, job'.file = job.file
         PROVE  Import!SkuGiven(job.file[i])' /\ Import!ProductGiven(job.file[i])'
    <3> DEFINE k == job.file[i].sku
    <3>1. /\ job.file[i].product = p /\ Import!PriceIn(job.file, Import!Group, k) = job.file[i].price
          /\ Import!ValueIn(job.file, Import!Group, k) = Import!ValueIn(job.file, 1 .. Len(job.file), k)
      BY <1>1, <2>13, SaidByFile
    <3>2. k \in ks /\ k \in Import!Sku
      BY <2>2
    <3>3. cat'.skus[k] = row(k)
      BY <2>6, <3>2
    <3>4. Import!ValueIn(job.file, 1 .. Len(job.file), k)' = Import!ValueIn(job.file, 1 .. Len(job.file), k)
      BY <2>13 DEF Import!ValueIn, Import!ValuesIn, Import!RowsOf, Import!None
    <3>5. Import!SkuGiven(job.file[i])'
      BY <2>13, <3>1, <3>3, <3>4 DEF Import!SkuGiven, Import!File
    <3>6. Import!ProductGiven(job.file[i])
      BY <1>1, <2>13 DEF CleanHolds, OptionSteps
    <3>7. Import!ProductGiven(job.file[i])'
      BY <2>1, <2>5, <2>13, <3>6, ProductStays
    <3> QED
      BY <3>5, <3>7
  <2>14. ASSUME NEW i \in Import!Group \ counts, job'.file = job.file
         PROVE  Import!CountGiven(job.file[i])'
    <3>1. job.file[i].count = 9
      BY ImportWords DEF Import!CountsIn
    <3> QED
      BY <2>14, <3>1 DEF Import!CountGiven, Import!NoCount
  <2>15. Import!Changed' \subseteq Import!Changed \cup ks /\ Import!Filled' = Import!Filled
    BY <2>1, <2>5, <2>9, SameWords DEF Import!Changed, Import!Filled
  <2> HIDE DEF row, skus
  <2>16. {} \in SUBSET Import!Sku /\ ks \in SUBSET Import!Sku
    BY <2>2
  <2>17. CASE counts = {}
    <3>1. job' = Import!NextGroup(j)
      BY <2>1, <2>17
    <3>2. /\ job'.file = job.file /\ job'.todo = job.todo \ Import!Group
          /\ job'.step \notin CountSteps \cup OptionSteps
          /\ job'.created = j.created /\ job'.updated = j.updated /\ job'.skipped = j.skipped /\ job'.errors = j.errors
          /\ ImportJobHolds' /\ WrittenRows' = {}
          /\ RowsThrough' = ((1 .. Len(job.file)) \ job.todo) \cup Import!Group
      BY <1>1, <2>11, <3>1, GroupDone
    <3>3. ~job.errors => \A i \in ((1 .. Len(job.file)) \ job.todo) \cup Import!Group : Import!Given(job.file[i])'
      BY <2>12, <2>13, <2>14, <2>17, <3>2 DEF Import!Given
    <3>4. CleanHolds'
      BY <1>1, <2>11, <3>2, <3>3, GroupClean
    <3>5. Through' \subseteq Through \cup ks \cup {} /\ Counted' \subseteq Counted \cup ks
      BY <2>2, <2>15, <3>2, TallyDone DEF Counted
    <3>6. job' \in Jobs
      BY <3>2, SameWords DEF ImportJobHolds
    <3>7. /\ job'.created + job'.updated = job.created + job.updated + Cardinality(ks)
          /\ job'.skipped >= job.skipped + Cardinality({})
      BY <2>2, <2>11, <3>2, NoneMore, JobCounts
    <3>8. TallyHolds'
      BY <1>1, <2>16, <3>5, <3>6, <3>7, TallyStep
    <3> QED
      BY <2>5, <2>8, <2>9, <3>2, <3>4, <3>8 DEF ImportInv
  <2>18. CASE counts # {}
    <3>1. job' = [j EXCEPT !.step = "place", !.left = counts]
      BY <2>1, <2>18
    <3>2. counts \subseteq Import!Group /\ counts \in SUBSET (Nat \cup (Import!Sku \X Import!Value))
      BY <2>2 DEF Import!CountsIn
    <3> HIDE DEF counts
    <3>3. /\ job' \in Jobs /\ job'.file = job.file /\ job'.todo = job.todo /\ job'.status = "PROCESSING"
          /\ job'.step = "place" /\ job'.left = counts /\ job'.errors = job.errors
          /\ job'.created = j.created /\ job'.updated = j.updated /\ job'.skipped = j.skipped
      BY <2>11, <3>1, <3>2, ImportWords DEF Jobs
    <3>4. Import!Group' = Import!Group
      BY <3>3, SameGroup
    <3>5. ImportJobHolds'
      <4>1. Import!CountsIn(job.file, Import!Group)' = counts
        BY <3>3, <3>4 DEF Import!CountsIn, Import!NoCount, counts
      <4> QED
        BY <1>1, <2>2, <2>18, <3>3, <4>1, SameWords DEF ImportJobHolds, CountSteps, OptionSteps
    <3>6. CleanHolds'
      <4> SUFFICES ASSUME ~job.errors
                   PROVE  CleanHolds'
        BY <3>3 DEF CleanHolds
      <4>1. \A i \in 1 .. Len(job.file) : ~Import!ContradictsFile(job.file, i)'
        BY <1>1, <3>3, SameFile DEF CleanHolds
      <4>2. \A i \in (1 .. Len(job.file)) \ job.todo : Import!Given(job.file[i])'
        BY <2>12, <3>3
      <4>3. \A i \in Import!Group : Import!SkuGiven(job.file[i])' /\ Import!ProductGiven(job.file[i])'
        BY <2>13, <3>3
      <4>4. \A i \in Import!Group \ counts : Import!CountGiven(job.file[i])'
        BY <2>14, <3>3
      <4> QED
        BY <1>1, <3>3, <3>4, <4>1, <4>2, <4>3, <4>4 DEF CleanHolds, CountSteps, OptionSteps
    <3>7. WrittenRows' = Import!Group /\ RowsThrough' = ((1 .. Len(job.file)) \ job.todo) \cup Import!Group
      BY <3>3, <3>4 DEF WrittenRows, RowsThrough, CountSteps, OptionSteps
    <3>8. Through' \subseteq Through \cup ks \cup {} /\ Counted' \subseteq Counted \cup ks
      <4>1. Through' = Import!SkusIn(job.file, ((1 .. Len(job.file)) \ job.todo) \cup Import!Group)
        BY <3>3, <3>7 DEF Through, Import!SkusIn
      <4>2. Import!SkusIn(job.file, WrittenRows)' = ks
        BY <2>2, <3>3, <3>7 DEF Import!SkusIn
      <4>3. Import!SkusIn(job.file, (1 .. Len(job.file)) \ job.todo) \subseteq Through
        BY DEF Through, RowsThrough, Import!SkusIn
      <4> QED
        BY <2>2, <2>15, <4>1, <4>2, <4>3, SkusOfBoth DEF Counted
    <3>9. /\ job'.created + job'.updated = job.created + job.updated + Cardinality(ks)
          /\ job'.skipped >= job.skipped + Cardinality({})
      BY <2>2, <2>11, <3>3, NoneMore, JobCounts
    <3>10. TallyHolds'
      BY <1>1, <2>16, <3>3, <3>8, <3>9, TallyStep
    <3> QED
      BY <2>5, <2>8, <2>9, <3>5, <3>6, <3>10 DEF ImportInv
  <2> QED
    BY <2>17, <2>18
<1> QED
  BY <1>2, <1>3

(* One count is set, of a SKU the tally has already.                       *)
LEMMA CountStep ==
    ASSUME ImportInv, Import!ImportCount
    PROVE  /\ ImportInv' /\ cat'.skus = cat.skus
           /\ \A k \in Import!Sku : cat'.counts[k] # cat.counts[k] =>
                 (job.corrects \/ cat.counts[k].onHand = 0) /\ cat'.counts[k].onHand >= cat.counts[k].reserved
<1>1. /\ job.status = "PROCESSING" /\ job.step = "count"
      /\ CatalogHolds /\ ImportJobHolds /\ CleanHolds /\ TallyHolds
  BY DEF ImportInv, Import!ImportCount, Import!At
<1> DEFINE n == Min(job.left)
           r == job.file[n]
           refused == ~cat.place \/ ~Import!MaySet(cat, job, r.sku, r.count)
<1>2. /\ job \in Jobs /\ job.file \in Seq(Import!Row) /\ job.todo \subseteq 1 .. Len(job.file)
      /\ Import!Group = {i \in job.todo : job.file[i].product = Import!P}
      /\ job.left # {} /\ job.left \subseteq Import!CountsIn(job.file, Import!Group)
  BY <1>1, AtHand DEF ImportJobHolds, CountSteps, OptionSteps
<1>3. /\ n \in job.left /\ n \in Import!Group /\ n \in 1 .. Len(job.file) /\ Import!Min(job.left) = n
      /\ r.sku \in Import!Sku /\ r.count \in Import!Count /\ r.count # 9
  <2>1. job.left \subseteq Import!Group /\ \A i \in job.left : job.file[i].count # 9
    BY <1>2, ImportWords DEF Import!CountsIn
  <2>2. n \in job.left /\ Import!Min(job.left) = n
    <3>1. Len(job.file) \in Nat /\ job.left \in SUBSET Nat
      BY <1>2, <2>1
    <3> QED
      BY <1>2, <3>1, LeastIsIn, ImportMin
  <2>3. n \in 1 .. Len(job.file)
    BY <1>2, <2>1, <2>2
  <2>4. r.sku \in Import!Sku /\ r.count \in Import!Count \cup {9}
    BY <1>2, <2>3, RowWords
  <2> QED
    BY <2>1, <2>2, <2>3, <2>4
<1> HIDE DEF n
<1>4. CASE refused
  <2>1. Import!Raises
    BY <1>3, <1>4, ImportWords DEF Import!ImportCount
  <2> QED
    BY <1>1, <2>1, RaiseHolds DEF Import!Raises
<1>5. CASE ~refused
  <2> DEFINE level == [cat.counts[r.sku] EXCEPT !.onHand = r.count]
             last == job.left = {n}
  <2>1. /\ cat' = [cat EXCEPT !.counts[r.sku].onHand = r.count] /\ faced' = faced /\ meddled' = meddled
        /\ job' = IF last THEN Import!NextGroup(job) ELSE [job EXCEPT !.left = job.left \ {n}]
    <3> HIDE DEF r
    <3> QED
      BY <1>3, <1>5, ImportWords DEF Import!ImportCount, r
  <2>2. cat \in Catalogs /\ cat.place = TRUE /\ cat.counts[r.sku] \in [onHand : Import!Count, reserved : Import!Count]
    BY <1>1, <1>3, <1>5 DEF CatalogHolds, Catalogs
  <2>3. /\ level \in [onHand : Import!Count, reserved : Import!Count]
        /\ level.onHand = r.count /\ level.reserved = cat.counts[r.sku].reserved
        /\ cat' = [cat EXCEPT !.counts = [cat.counts EXCEPT ![r.sku] = level]]
    <3>1. cat.counts[r.sku].onHand \in Import!Count /\ cat.counts[r.sku].reserved \in Import!Count
      BY <2>2
    <3>2. /\ level \in [onHand : Import!Count, reserved : Import!Count]
          /\ level.onHand = r.count /\ level.reserved = cat.counts[r.sku].reserved
      BY <1>3, <2>2, <3>1
    <3> QED
      BY <2>1, <3>2
  <2>4. \/ r.count = cat.counts[r.sku].onHand
        \/ (cat.counts[r.sku].onHand = 0 \/ job.corrects) /\ r.count >= cat.counts[r.sku].reserved
    BY <1>5 DEF Import!MaySet
  <2> HIDE DEF level
  <2>5. /\ cat' \in Catalogs /\ cat'.products = cat.products /\ cat'.skus = cat.skus /\ cat'.place = TRUE
        /\ cat'.counts = [cat.counts EXCEPT ![r.sku] = level]
    BY <1>3, <2>2, <2>3 DEF Catalogs
  <2>6. cat'.counts[r.sku] = level /\ \A k \in Import!Sku : k # r.sku => cat'.counts[k] = cat.counts[k]
    BY <1>3, <2>2, <2>5 DEF Catalogs
  <2>7. level.reserved <= level.onHand
    BY <1>1, <1>3, <2>3, <2>4 DEF CatalogHolds
  <2>8. CatalogHolds'
    <3>1. \A k \in Import!Sku : cat'.counts[k].reserved <= cat'.counts[k].onHand
      BY <1>1, <2>6, <2>7 DEF CatalogHolds
    <3>2. faced' \in Catalogs
      BY <1>1, <2>1 DEF CatalogHolds
    <3> QED
      BY <1>1, <2>5, <3>1, <3>2, SameWords DEF CatalogHolds
  <2>9. \A k \in Import!Sku : cat'.counts[k] # cat.counts[k] =>
           (job.corrects \/ cat.counts[k].onHand = 0) /\ cat'.counts[k].onHand >= cat.counts[k].reserved
    <3>1. r.count = cat.counts[r.sku].onHand => level = cat.counts[r.sku]
      BY <2>2, <2>3
    <3> QED
      BY <2>3, <2>4, <2>6, <3>1
  <2>10. r.sku \in Counted /\ Import!Changed' = Import!Changed /\ Import!Filled' \subseteq Import!Filled \cup {r.sku}
    <3>1. r.sku \in Import!SkusIn(job.file, WrittenRows)
      BY <1>1, <1>3 DEF WrittenRows, CountSteps, OptionSteps, Import!SkusIn
    <3> QED
      BY <1>3, <2>1, <2>5, <2>6, <3>1, SameWords DEF Counted, Import!Changed, Import!Filled
  (* What the rows of the file say then. *)
  <2>11. ASSUME ~job.errors, NEW i \in 1 .. Len(job.file), job'.file = job.file
         PROVE  /\ Import!SkuGiven(job.file[i]) => Import!SkuGiven(job.file[i])'
                /\ Import!ProductGiven(job.file[i]) => Import!ProductGiven(job.file[i])'
                /\ Import!CountGiven(job.file[i]) /\ (job.file[i].count = 9 \/ i = n \/ job.file[i].sku # r.sku) =>
                      Import!CountGiven(job.file[i])'
    <3>1. job.file[i].sku \in Import!Sku /\ job.file[i].product \in Import!Product
      BY <1>2, RowWords
    <3>2. Import!CountGiven(job.file[i]) /\ job.file[i].sku # r.sku => Import!CountGiven(job.file[i])'
      BY <1>1, <2>1, <2>6, <2>8, <2>11, <3>1, CountStays
    <3>3. job.file[i].count = 9 => Import!CountGiven(job.file[i])'
      BY <2>11 DEF Import!CountGiven, Import!NoCount
    <3>4. i = n => Import!CountGiven(job.file[i])'
      BY <2>3, <2>5, <2>6, <2>11 DEF Import!CountGiven
    <3> QED
      BY <2>1, <2>5, <2>11, <3>2, <3>3, <3>4, SkuStays, ProductStays
  <2>12. ASSUME ~job.errors, NEW i \in (1 .. Len(job.file)) \ job.todo, job'.file = job.file
         PROVE  Import!Given(job.file[i])'
    <3>1. Import!Given(job.file[i])
      BY <1>1, <2>12 DEF CleanHolds
    <3>2. job.file[i].sku # r.sku
      <4>1. SUFFICES ASSUME job.file[i].sku = r.sku
                     PROVE  FALSE
        OBVIOUS
      <4>2. i \in Import!Group
        BY <1>1, <1>3, <2>12, <4>1, SaidByFile
      <4> QED
        BY <1>2, <4>2
    <3> QED
      BY <2>11, <2>12, <3>1, <3>2 DEF Import!Given
  <2>13. ASSUME ~job.errors, NEW i \in Import!Group, job'.file = job.file
         PROVE  /\ Import!SkuGiven(job.file[i])' /\ Import!ProductGiven(job.file[i])'
                /\ i \notin job.left \ {n} => Import!CountGiven(job.file[i])'
    <3>1. /\ Import!SkuGiven(job.file[i]) /\ Import!ProductGiven(job.file[i])
          /\ i \notin job.left => Import!CountGiven(job.file[i])
          /\ \A l \in 1 .. Len(job.file) : ~Import!ContradictsFile(job.file, l)
      BY <1>1, <2>13 DEF CleanHolds, CountSteps, OptionSteps
    <3>2. i \in 1 .. Len(job.file)
      BY <1>2
    <3>3. i # n /\ job.file[i].sku = r.sku => job.file[i].count = 9
      BY <1>2, <1>3, <3>1, <3>2, RowsAgree
    <3>4. CASE i = n
      <4>1. Import!CountGiven(job.file[i])'
        BY <2>3, <2>5, <2>6, <2>13, <3>4 DEF Import!CountGiven
      <4> QED
        BY <2>11, <2>13, <3>1, <3>2, <4>1
    <3>5. CASE i # n
      BY <2>11, <2>13, <3>1, <3>2, <3>3, <3>5
    <3> QED
      BY <3>4, <3>5
  <2> HIDE DEF r
  <2>14. {} \in SUBSET Import!Sku
    OBVIOUS
  <2>15. CASE last
    <3>1. job' = Import!NextGroup(job)
      BY <2>1, <2>15
    <3>2. /\ job'.file = job.file /\ job'.todo = job.todo \ Import!Group
          /\ job'.step \notin CountSteps \cup OptionSteps
          /\ job'.created = job.created /\ job'.updated = job.updated /\ job'.skipped = job.skipped /\ job'.errors = job.errors
          /\ ImportJobHolds' /\ WrittenRows' = {}
          /\ RowsThrough' = ((1 .. Len(job.file)) \ job.todo) \cup Import!Group
      BY <1>1, <1>2, <3>1, GroupDone
    <3>3. ~job.errors => \A i \in ((1 .. Len(job.file)) \ job.todo) \cup Import!Group : Import!Given(job.file[i])'
      BY <2>12, <2>13, <2>15, <3>2 DEF Import!Given
    <3>4. CleanHolds'
      BY <1>1, <3>2, <3>3, GroupClean
    <3>5. Through' \subseteq Through \cup {} \cup {} /\ Counted' \subseteq Counted \cup {}
      <4>1. Import!SkusIn(job.file, Import!Group) \subseteq Through
        BY <1>1 DEF Through, RowsThrough, WrittenRows, CountSteps, OptionSteps, Import!SkusIn
      <4> QED
        BY <2>10, <3>2, <4>1, TallyDone DEF Counted
    <3>6. job' \in Jobs
      BY <3>2, SameWords DEF ImportJobHolds
    <3>7. /\ job'.created + job'.updated = job.created + job.updated + Cardinality({})
          /\ job'.skipped >= job.skipped + Cardinality({})
      BY <1>2, <3>2, NoneMore, JobCounts
    <3>8. TallyHolds'
      BY <1>1, <2>14, <3>5, <3>6, <3>7, TallyStep
    <3> QED
      BY <2>5, <2>8, <2>9, <3>2, <3>4, <3>8 DEF ImportInv
  <2>16. CASE ~last
    <3>1. job' = [job EXCEPT !.left = job.left \ {n}]
      BY <2>1, <2>16
    <3>2. /\ job' \in Jobs /\ job'.file = job.file /\ job'.todo = job.todo /\ job'.status = "PROCESSING"
          /\ job'.step = "count" /\ job'.left = job.left \ {n} /\ job'.errors = job.errors
          /\ job'.created = job.created /\ job'.updated = job.updated /\ job'.skipped = job.skipped
      BY <1>1, <1>2, <3>1 DEF Jobs
    <3>3. Import!Group' = Import!Group
      BY <3>2, SameGroup
    <3>4. ImportJobHolds'
      <4>1. Import!CountsIn(job.file, Import!Group)' = Import!CountsIn(job.file, Import!Group)
        BY <3>2, <3>3 DEF Import!CountsIn, Import!NoCount
      <4>2. job'.left # {}
        BY <1>3, <2>16, <3>2
      <4> QED
        BY <1>1, <1>2, <3>2, <4>1, <4>2, SameWords DEF ImportJobHolds, CountSteps, OptionSteps
    <3>5. CleanHolds'
      <4> SUFFICES ASSUME ~job.errors
                   PROVE  CleanHolds'
        BY <3>2 DEF CleanHolds
      <4>1. \A i \in 1 .. Len(job.file) : ~Import!ContradictsFile(job.file, i)'
        BY <1>1, <3>2, SameFile DEF CleanHolds
      <4>2. \A i \in (1 .. Len(job.file)) \ job.todo : Import!Given(job.file[i])'
        BY <2>12, <3>2
      <4>3. \A i \in Import!Group :
               /\ Import!SkuGiven(job.file[i])' /\ Import!ProductGiven(job.file[i])'
               /\ i \notin job'.left => Import!CountGiven(job.file[i])'
        BY <2>13, <3>2
      <4> QED
        BY <1>1, <3>2, <3>3, <4>1, <4>2, <4>3 DEF CleanHolds, CountSteps, OptionSteps
    <3>6. TallyHolds'
      <4>1. Import!Changed' \subseteq Counted /\ Import!Filled' \subseteq Counted
        BY <2>10 DEF Counted
      <4> QED
        BY <1>1, <3>2, <4>1, MovesTally DEF CountSteps, OptionSteps
    <3> QED
      BY <2>5, <2>8, <2>9, <3>4, <3>5, <3>6 DEF ImportInv
  <2> QED
    BY <2>15, <2>16
<1> QED
  BY <1>4, <1>5

(* What others do through the pages leaves a catalog as it can be, and no  *)
(* SKU goes from one product to another.                                   *)
LEMMA PageKeeps ==
    ASSUME CatalogHolds, NEW c \in Import!Pages(cat), cat' = c, faced' = faced
    PROVE  CatalogHolds' /\ \A k \in Import!Sku : cat.skus[k].of # "none" => cat'.skus[k].of = cat.skus[k].of
<1>1. /\ cat \in Catalogs /\ faced \in Catalogs
      /\ \A k \in Import!Sku :
            IF cat.skus[k].of = "none" THEN cat.skus[k] = Import!NoSku
            ELSE /\ cat.skus[k].price \in Import!Price
                 /\ cat.skus[k].value \in cat.products[cat.skus[k].of].values \cup {"none"}
      /\ \A k \in Import!Sku :
            cat.counts[k].reserved <= cat.counts[k].onHand /\ (cat.counts[k].onHand > 0 => cat.place)
  BY DEF CatalogHolds
<1>2. \A k \in Import!Sku : cat.skus[k] \in SkuRow /\ cat.skus[k].of \in Import!Product \cup {"none"}
  BY <1>1 DEF Catalogs, SkuRow
<1>0. \A p \in Import!Product : cat.products[p] \in ProductRow
  BY <1>1 DEF Catalogs
<1> DEFINE Fits(d) ==
             /\ d \in Catalogs
             /\ \A k \in Import!Sku :
                   IF d.skus[k].of = "none" THEN d.skus[k] = Import!NoSku
                   ELSE /\ d.skus[k].price \in Import!Price
                        /\ d.skus[k].value \in d.products[d.skus[k].of].values \cup {"none"}
             /\ \A k \in Import!Sku :
                   d.counts[k].reserved <= d.counts[k].onHand /\ (d.counts[k].onHand > 0 => d.place)
             /\ \A k \in Import!Sku : cat.skus[k].of # "none" => d.skus[k].of = cat.skus[k].of
<1> SUFFICES Fits(c)
  BY <1>1, SameWords DEF CatalogHolds
<1>3. CASE c \in Import!DeleteProduct(cat)
  <2> DEFINE gone(p) == [cat.products[p] EXCEPT !.status = "RETIRED"]
             retired(p) == [k \in Import!Sku |-> IF cat.skus[k].of = p THEN [cat.skus[k] EXCEPT !.status = "RETIRED"] ELSE cat.skus[k]]
  <2>1. PICK p \in Import!Product : c = [cat EXCEPT !.products[p].status = "RETIRED", !.skus = retired(p)]
    BY <1>3 DEF Import!DeleteProduct, Import!Products
  <2>2. gone(p) \in ProductRow /\ gone(p).values = cat.products[p].values
    BY <1>0 DEF ProductRow
  <2>3. \A k \in Import!Sku :
           /\ retired(p)[k] \in SkuRow /\ retired(p)[k].of = cat.skus[k].of /\ retired(p)[k].price = cat.skus[k].price
           /\ retired(p)[k].value = cat.skus[k].value /\ (cat.skus[k].of = "none" => retired(p)[k] = cat.skus[k])
    BY <1>2, ImportWords DEF SkuRow
  <2>4. c = [cat EXCEPT !.products = [cat.products EXCEPT ![p] = gone(p)], !.skus = retired(p)]
    BY <1>1, <2>1 DEF Catalogs
  <2>5. retired(p) \in [Import!Sku -> SkuRow]
    BY <2>3
  <2> HIDE DEF gone, retired
  <2>6. /\ c \in Catalogs /\ c.skus = retired(p) /\ c.counts = cat.counts /\ c.place = cat.place
        /\ \A q \in Import!Product : c.products[q].values = cat.products[q].values
    BY <1>1, <2>2, <2>4, <2>5 DEF Catalogs
  <2> QED
    BY <1>1, <1>2, <2>3, <2>6
<1>4. CASE c \in Import!SetOptions(cat)
  <2> DEFINE row(p, vs) == [cat.products[p] EXCEPT !.values = vs]
             skus(p, vs) == Import!Unlinked(cat, p, vs)
  <2>1. PICK p \in Import!Product, vs \in SUBSET Import!Value :
           c = [cat EXCEPT !.products[p].values = vs, !.skus = skus(p, vs)]
    <3>3. \E p \in Import!Products(cat), vs \in SUBSET Import!Value : c = Import!WithOptions(cat, p, vs)
      BY <1>4 DEF Import!SetOptions
    <3>2. Import!Products(cat) \subseteq Import!Product
      BY DEF Import!Products
    <3> QED
      BY <3>2, <3>3 DEF Import!WithOptions
  <2>2. row(p, vs) \in ProductRow /\ row(p, vs).values = vs
    BY <1>0 DEF ProductRow
  <2>3. \A k \in Import!Sku :
           /\ skus(p, vs)[k] \in SkuRow /\ skus(p, vs)[k].of = cat.skus[k].of /\ skus(p, vs)[k].price = cat.skus[k].price
           /\ skus(p, vs)[k].value \in {"none", cat.skus[k].value}
           /\ cat.skus[k].of = p => skus(p, vs)[k].value \in vs \cup {"none"}
           /\ cat.skus[k].of # p => skus(p, vs)[k] = cat.skus[k]
    BY <1>2, ImportWords DEF SkuRow, Import!Unlinked
  <2>4. c = [cat EXCEPT !.products = [cat.products EXCEPT ![p] = row(p, vs)], !.skus = skus(p, vs)]
    BY <1>1, <2>1 DEF Catalogs
  <2>5. skus(p, vs) \in [Import!Sku -> SkuRow]
    BY <2>3 DEF Import!Unlinked
  <2> HIDE DEF row, skus
  <2>6. /\ c \in Catalogs /\ c.skus = skus(p, vs) /\ c.counts = cat.counts /\ c.place = cat.place
        /\ \A q \in Import!Product : c.products[q].values = IF q = p THEN vs ELSE cat.products[q].values
    BY <1>1, <2>2, <2>4, <2>5 DEF Catalogs
  <2>7. p # "none"
    BY ImportWords
  <2> QED
    BY <1>1, <1>2, <2>3, <2>6, <2>7
<1>5. CASE c \in Import!UpsertVariants(cat)
  <2> DEFINE priced(k) == [cat.skus[k] EXCEPT !.price = "a"]
             added(p) == [of |-> p, status |-> "ACTIVE", price |-> "a", value |-> "none"]
  <2>1. \/ \E k \in Import!Sku : Import!IsSku(cat, k) /\ c = [cat EXCEPT !.skus[k].price = "a"]
        \/ \E p \in Import!Product : ~Import!IsSku(cat, "x") /\ c = [cat EXCEPT !.skus["x"] = added(p)]
    <3>1. \/ \E k \in {q \in Import!Sku : Import!IsSku(cat, q)} : c = [cat EXCEPT !.skus[k].price = "a"]
          \/ \E p \in {q \in Import!Products(cat) : ~Import!IsSku(cat, "x")} :
                c = [cat EXCEPT !.skus["x"] = added(p)]
      BY <1>5, ImportWords DEF Import!UpsertVariants
    <3>3. Import!Products(cat) \subseteq Import!Product
      BY DEF Import!Products
    <3> HIDE DEF added
    <3>4. CASE \E k \in {q \in Import!Sku : Import!IsSku(cat, q)} : c = [cat EXCEPT !.skus[k].price = "a"]
      BY <3>4
    <3>5. CASE \E p \in {q \in Import!Products(cat) : ~Import!IsSku(cat, "x")} :
                c = [cat EXCEPT !.skus["x"] = added(p)]
      BY <3>3, <3>5
    <3> QED
      BY <3>1, <3>4, <3>5
  <2>2. ASSUME NEW k \in Import!Sku, NEW row \in SkuRow, c = [cat EXCEPT !.skus = [cat.skus EXCEPT ![k] = row]],
               row.of # "none", row.of \in Import!Product, cat.skus[k].of \in {"none", row.of},
               row.price \in Import!Price, row.value \in cat.products[row.of].values \cup {"none"}
        PROVE  Fits(c)
    <3>1. /\ c \in Catalogs /\ c.products = cat.products /\ c.counts = cat.counts /\ c.place = cat.place
          /\ \A q \in Import!Sku : c.skus[q] = IF q = k THEN row ELSE cat.skus[q]
      BY <1>1, <2>2 DEF Catalogs
    <3> QED
      BY <1>1, <1>2, <2>2, <3>1
  <2>3. ASSUME NEW k \in Import!Sku, Import!IsSku(cat, k), c = [cat EXCEPT !.skus[k].price = "a"]
        PROVE  Fits(c)
    <3>1. cat.skus[k].of # "none" /\ cat.skus[k].of \in Import!Product
      BY <1>1, <1>2, <2>3 DEF Import!IsSku
    <3>2. /\ priced(k) \in SkuRow /\ priced(k).of = cat.skus[k].of /\ priced(k).value = cat.skus[k].value
          /\ priced(k).price \in Import!Price
      BY <1>2, ImportWords DEF SkuRow
    <3>3. c = [cat EXCEPT !.skus = [cat.skus EXCEPT ![k] = priced(k)]]
      BY <2>3
    <3> HIDE DEF priced
    <3> QED
      BY <1>1, <2>2, <3>1, <3>2, <3>3
  <2>4. ASSUME NEW p \in Import!Product, ~Import!IsSku(cat, "x"), c = [cat EXCEPT !.skus["x"] = added(p)]
        PROVE  Fits(c)
    <3>1. cat.skus["x"].of = "none" /\ "x" \in Import!Sku /\ p # "none"
      BY <2>4, ImportWords DEF Import!IsSku
    <3>2. /\ added(p) \in SkuRow /\ added(p).of = p /\ added(p).value = "none" /\ added(p).price \in Import!Price
      BY ImportWords DEF SkuRow
    <3>3. c = [cat EXCEPT !.skus = [cat.skus EXCEPT !["x"] = added(p)]]
      BY <2>4
    <3> HIDE DEF added
    <3> QED
      BY <2>2, <3>1, <3>2, <3>3
  <2> QED
    BY <2>1, <2>3, <2>4
<1>6. CASE c \in Import!DeleteCategory(cat)
  <2>1. PICK g \in Import!Category : c = [cat EXCEPT !.categories = cat.categories \ {g}]
    BY <1>1, <1>6 DEF Import!DeleteCategory, Catalogs
  <2>2. /\ c \in Catalogs /\ c.skus = cat.skus /\ c.counts = cat.counts /\ c.place = cat.place
        /\ c.products = cat.products
    BY <1>1, <2>1 DEF Catalogs
  <2> QED
    BY <1>1, <2>2
<1>7. CASE c \in Import!DeleteLocation(cat)
  <2>1. Import!PlaceIsEmpty(cat) /\ c = [cat EXCEPT !.place = FALSE]
    BY <1>7 DEF Import!DeleteLocation
  <2>2. /\ c \in Catalogs /\ c.skus = cat.skus /\ c.counts = cat.counts /\ c.products = cat.products
    BY <1>1, <2>1 DEF Catalogs
  <2>3. \A k \in Import!Sku : cat.counts[k].onHand = 0
    BY <2>1 DEF Import!PlaceIsEmpty
  <2> QED
    BY <1>1, <2>2, <2>3
<1>8. CASE c \in Import!AdjustStock(cat) \cup Import!ReserveStock(cat)
  <2> DEFINE less(k) == [cat.counts[k] EXCEPT !.onHand = cat.counts[k].onHand - 1]
             held(k) == [cat.counts[k] EXCEPT !.reserved = cat.counts[k].reserved + 1]
  <2>1. PICK k \in Import!Sku :
           /\ cat.counts[k].onHand > cat.counts[k].reserved
           /\ \/ c = [cat EXCEPT !.counts[k].onHand = cat.counts[k].onHand - 1]
              \/ c = [cat EXCEPT !.counts[k].reserved = cat.counts[k].reserved + 1]
    BY <1>8 DEF Import!AdjustStock, Import!ReserveStock, Import!InStock
  <2>2. cat.counts[k] \in [onHand : Import!Count, reserved : Import!Count]
    BY <1>1 DEF Catalogs
  <2>3. PICK row \in [onHand : Import!Count, reserved : Import!Count] :
           /\ row.reserved <= row.onHand /\ c = [cat EXCEPT !.counts = [cat.counts EXCEPT ![k] = row]]
    <3>1. cat.counts[k].onHand \in 0 .. 2 /\ cat.counts[k].reserved \in 0 .. 2
      BY <2>2, ImportWords
    <3>2. /\ less(k) \in [onHand : Import!Count, reserved : Import!Count]
          /\ less(k).onHand = cat.counts[k].onHand - 1 /\ less(k).reserved = cat.counts[k].reserved
      BY <2>1, <2>2, <3>1, ImportWords
    <3>3. /\ held(k) \in [onHand : Import!Count, reserved : Import!Count]
          /\ held(k).onHand = cat.counts[k].onHand /\ held(k).reserved = cat.counts[k].reserved + 1
      BY <2>1, <2>2, <3>1, ImportWords
    <3>4. \/ c = [cat EXCEPT !.counts = [cat.counts EXCEPT ![k] = less(k)]]
          \/ c = [cat EXCEPT !.counts = [cat.counts EXCEPT ![k] = held(k)]]
      BY <2>1
    <3>5. less(k).reserved <= less(k).onHand /\ held(k).reserved <= held(k).onHand
      BY <2>1, <3>1, <3>2, <3>3
    <3> HIDE DEF less, held
    <3> QED
      BY <3>2, <3>3, <3>4, <3>5
  <2>4. /\ c \in Catalogs /\ c.skus = cat.skus /\ c.products = cat.products /\ c.place = cat.place
        /\ \A q \in Import!Sku : c.counts[q] = IF q = k THEN row ELSE cat.counts[q]
    BY <1>1, <2>3 DEF Catalogs
  <2>5. cat.place = TRUE
    <3>1. cat.counts[k].onHand > 0
      BY <2>1, <2>2, ImportWords
    <3> QED
      BY <1>1, <3>1 DEF Catalogs
  <2> QED
    BY <1>1, <2>3, <2>4, <2>5
<1> QED
  BY <1>3, <1>4, <1>5, <1>6, <1>7, <1>8 DEF Import!Pages

LEMMA CommitStep ==
    ASSUME RecordBounds, ImportInv, Import!CommitImportJob
    PROVE  ImportInv' /\ cat' = cat
<1>1. /\ CatalogHolds /\ ImportJobHolds /\ TallyHolds
      /\ job = Import!NoJob /\ cat' = cat /\ faced' = faced /\ meddled' = meddled
  BY DEF ImportInv, Import!CommitImportJob
<1>2. CatalogHolds'
  BY <1>1, SameWords DEF CatalogHolds
<1>3. /\ job' \in Jobs /\ job'.status = "PENDING" /\ job'.todo = {} /\ job'.step = "none"
      /\ job'.created = 0 /\ job'.updated = 0
  <2>1. PICK f \in Files, skip \in BOOLEAN, adds \in BOOLEAN, isAdmin \in BOOLEAN :
           job' = [status |-> "PENDING", file |-> f, skip |-> skip, adds |-> adds, corrects |-> isAdmin,
                   todo |-> {}, step |-> "none", left |-> {}, merged |-> {}, created |-> 0, updated |-> 0, skipped |-> 0, errors |-> FALSE]
    <3>1. PICK j \in Import!Payload, isAdmin \in BOOLEAN : job' = [j EXCEPT !.status = "PENDING", !.corrects = isAdmin]
      BY DEF Import!CommitImportJob
    <3>2. PICK f \in Files, skip \in BOOLEAN, adds \in BOOLEAN :
             j = [status |-> "none", file |-> f, skip |-> skip, adds |-> adds, corrects |-> FALSE, todo |-> {}, step |-> "none",
                  left |-> {}, merged |-> {}, created |-> 0, updated |-> 0, skipped |-> 0, errors |-> FALSE]
      <4>1. PICK f \in Files, skip \in BOOLEAN, adds \in BOOLEAN : j = Import!Requested(f, skip, adds)
        BY DEF Import!Payload
      <4> QED
        BY <4>1, ImportWords DEF Import!Requested, Import!NoJob
    <3> QED
      BY <3>1, <3>2
  <2>2. f \in Seq(Import!Row) /\ "none" \in Import!Steps
    BY ImportWords DEF RecordBounds
  <2> QED
    BY <2>1, <2>2 DEF Jobs, ImportStatus
<1>4. ImportJobHolds'
  BY <1>3, SameWords DEF ImportJobHolds, CountSteps, OptionSteps
<1>5. CleanHolds'
  BY <1>3 DEF CleanHolds
<1>6. TallyHolds'
  <2>1. job.created = 0 /\ job.updated = 0 /\ job.step = "none"
    BY <1>1, ImportWords DEF Import!NoJob
  <2>2. WrittenRows' = {}
    BY <1>3 DEF WrittenRows, CountSteps, OptionSteps
  <2>3. Counted' \subseteq Counted \cup {}
    BY <1>1, <2>2, SameWords DEF Counted, Import!SkusIn, Import!Changed, Import!Filled
  <2>4. {} \in SUBSET Import!Sku /\ job'.created + job'.updated = job.created + job.updated + Cardinality({})
    BY <1>3, <2>1, NoneMore
  <2> QED
    BY <1>1, <1>3, <2>3, <2>4, TallyStep
<1> QED
  BY <1>1, <1>2, <1>4, <1>5, <1>6 DEF ImportInv

(* The rows that are not valid are counted as skipped; with none of them   *)
(* the file does not contradict itself.                                    *)
LEMMA ValidateStep ==
    ASSUME ImportInv, Import!Validate
    PROVE  ImportInv' /\ cat' = cat
<1> DEFINE rows_ == 1 .. Len(job.file)
           valid == {i \in rows_ : Import!RowIsValid(cat, job, job.file, i)}
           bad == Len(job.file) - Import!Cardinality(valid)
           begun == [job EXCEPT !.status = "PROCESSING", !.skipped = bad, !.errors = bad > 0,
                                !.todo = valid, !.step = "category"]
<1>1. /\ CatalogHolds /\ ImportJobHolds /\ TallyHolds /\ job.status = "PENDING"
      /\ cat' = cat /\ faced' = cat /\ meddled' = {}
      /\ job' = IF bad > 0 /\ ~job.skip
                THEN [[job EXCEPT !.status = "FAILED", !.todo = {}, !.step = "none", !.left = {}] EXCEPT !.errors = TRUE]
                ELSE IF valid = {} THEN [begun EXCEPT !.status = "COMPLETED", !.todo = {}, !.step = "none", !.left = {}] ELSE begun
  BY ImportWords DEF ImportInv, Import!Validate, Import!Ended
<1>2. CatalogHolds'
  BY <1>1, SameWords DEF CatalogHolds
<1>3. /\ job \in Jobs /\ job.file \in Seq(Import!Row) /\ Len(job.file) \in Nat
      /\ job.created = 0 /\ job.updated = 0 /\ job.step = "none"
  BY <1>1 DEF ImportJobHolds, Jobs
<1>4. Import!Changed' = {} /\ Import!Filled' = {}
  BY <1>1 DEF Import!Changed, Import!Filled
<1>5. /\ bad \in Nat /\ Cardinality(rows_ \ valid) = bad /\ IsFiniteSet(rows_ \ valid)
      /\ bad = 0 => valid = rows_
  <2>1. IsFiniteSet(rows_) /\ Cardinality(rows_) = Len(job.file)
    <3>1. 1 \in Int /\ Len(job.file) \in Int
      BY <1>3
    <3>2. IsFiniteSet(1 .. Len(job.file)) /\ Cardinality(1 .. Len(job.file)) = IF 1 > Len(job.file) THEN 0 ELSE Len(job.file) - 1 + 1
      BY <3>1, FS_Interval
    <3> QED
      BY <1>3, <3>2
  <2>2. valid \subseteq rows_ /\ rows_ \cap valid = valid
    OBVIOUS
  <2> HIDE DEF valid, rows_
  <2>3. /\ IsFiniteSet(valid) /\ IsFiniteSet(rows_ \ valid) /\ Cardinality(rows_ \ valid) = Cardinality(rows_) - Cardinality(valid)
    <3>1. IsFiniteSet(valid)
      BY <2>1, <2>2, FS_Subset
    <3>2. IsFiniteSet(rows_ \ valid) /\ Cardinality(rows_ \ valid) = Cardinality(rows_) - Cardinality(rows_ \cap valid)
      BY <2>1, FS_Difference
    <3> QED
      BY <2>2, <3>1, <3>2
  <2>4. Cardinality(valid) \in Nat /\ Cardinality(rows_ \ valid) \in Nat /\ Import!Cardinality(valid) = Cardinality(valid)
    BY <2>3, FS_CardinalityType, ImportCount
  <2>5. Cardinality(rows_ \ valid) = 0 => rows_ \ valid = {}
    BY <2>3, FS_EmptySet
  <2> QED
    BY <1>3, <2>1, <2>2, <2>3, <2>4, <2>5
<1>6. valid \subseteq rows_
  OBVIOUS
<1>7. \A i \in valid : ~Import!ContradictsFile(job.file, i)
  BY DEF Import!RowIsValid
<1> HIDE DEF valid, bad
<1>8. CASE bad > 0 /\ ~job.skip
  <2>1. job' = [job EXCEPT !.status = "FAILED", !.todo = {}, !.step = "none", !.left = {}, !.errors = TRUE]
    BY <1>1, <1>8
  <2> QED
    <3>1. Import!Changed' \subseteq Import!Changed /\ Import!Filled' \subseteq Import!Filled
      BY <1>4
    <3>2. ImportJobHolds' /\ CleanHolds' /\ TallyHolds'
      BY <1>1, <2>1, <3>1, JobIsOver
    <3> QED
      BY <1>1, <1>2, <3>2 DEF ImportInv
<1>9. CASE ~(bad > 0 /\ ~job.skip)
  <2> DEFINE wrong == bad > 0
             started == [job EXCEPT !.status = "PROCESSING", !.skipped = bad, !.errors = wrong, !.todo = valid, !.step = "category"]
  <2>0. begun = started /\ wrong \in BOOLEAN /\ (bad # 0 => wrong = TRUE)
    BY <1>5
  <2> HIDE DEF wrong
  <2>1. begun \in Jobs
    <3>1. valid \in SUBSET Nat
      BY <1>3, <1>6
    <3>2. started \in Jobs
      BY <1>3, <1>5, <2>0, <3>1, ImportWords DEF Jobs, ImportStatus
    <3> QED
      BY <2>0, <3>2
  <2>2. /\ job' \in Jobs /\ job'.file = job.file /\ job'.skipped = bad /\ job'.errors = wrong /\ job'.todo = valid
        /\ job'.created = 0 /\ job'.updated = 0
        /\ IF valid = {} THEN job'.status = "COMPLETED" /\ job'.step = "none"
           ELSE job'.status = "PROCESSING" /\ job'.step = "category"
    <3>1. CASE valid = {}
      <4>1. job' = [begun EXCEPT !.status = "COMPLETED", !.todo = {}, !.step = "none", !.left = {}]
        BY <1>1, <1>9, <3>1
      <4>2. begun.file = job.file /\ begun.skipped = bad /\ begun.errors = wrong /\ begun.created = 0 /\ begun.updated = 0
        BY <1>3, <2>0 DEF Jobs
      <4> HIDE DEF begun
      <4> QED
        BY <2>1, <3>1, <4>1, <4>2, ImportWords DEF Jobs, ImportStatus
    <3>2. CASE valid # {}
      BY <1>1, <1>3, <1>9, <2>0, <2>1, <3>2 DEF Jobs
    <3> QED
      BY <3>1, <3>2
  <2>3. ImportJobHolds'
    BY <1>6, <2>2, SameWords DEF ImportJobHolds, CountSteps, OptionSteps
  <2>4. CleanHolds'
    <3> SUFFICES ASSUME bad = 0
                 PROVE  CleanHolds'
      <4>1. bad # 0 => job'.errors = TRUE
        BY <2>0, <2>2
      <4> QED
        BY <4>1 DEF CleanHolds
    <3>1. job'.todo = rows_
      BY <1>5, <2>2
    <3>2. \A i \in rows_ : ~Import!ContradictsFile(job.file, i)'
      BY <1>5, <1>7, <2>2, SameFile
    <3> QED
      BY <2>2, <3>1, <3>2 DEF CleanHolds, CountSteps, OptionSteps
  <2>5. TallyHolds'
    <3>1. WrittenRows' = {} /\ RowsThrough' = rows_ \ valid
      BY <2>2 DEF WrittenRows, RowsThrough, CountSteps, OptionSteps
    <3>2. Import!SkusIn(job.file, WrittenRows)' = {} /\ Import!SkusIn(job.file, RowsThrough)' = Import!SkusIn(job.file, rows_ \ valid)
      BY <2>2, <3>1 DEF Import!SkusIn
    <3>3. Cardinality(Import!SkusIn(job.file, rows_ \ valid)) <= bad
      <4>1. rows_ \ valid \in SUBSET rows_
        OBVIOUS
      <4> QED
        BY <1>3, <1>5, <4>1, NamedSkus
    <3>4. Import!Cardinality(Import!SkusIn(job'.file, RowsThrough')) <= job'.created + job'.updated + job'.skipped
      BY <1>5, <2>2, <3>2, <3>3, ImportCount
    <3>5. Import!Cardinality(Import!Changed' \cup Import!Filled' \cup Import!SkusIn(job'.file, WrittenRows')) <= job'.created + job'.updated
      BY <1>4, <2>2, <3>2, NoneMore, ImportCount
    <3> QED
      BY <3>4, <3>5, ImportCount DEF TallyHolds
  <2> QED
    BY <1>1, <1>2, <2>3, <2>4, <2>5 DEF ImportInv
<1> QED
  BY <1>8, <1>9

LEMMA ImportEndsStep ==
    ASSUME ImportInv, Import!ProcessEnds
    PROVE  ImportInv' /\ cat' = cat
<1>1. /\ CatalogHolds /\ ImportJobHolds /\ TallyHolds /\ job \in Jobs
      /\ cat' = cat /\ faced' = faced /\ meddled' = meddled
      /\ job' = [job EXCEPT !.status = "LOST", !.todo = {}, !.step = "none", !.left = {}]
  BY ImportWords DEF ImportInv, ImportJobHolds, Import!ProcessEnds, Import!Ended
<1>2. CatalogHolds'
  BY <1>1, SameWords DEF CatalogHolds
<1>3. job' = [job EXCEPT !.status = "LOST", !.todo = {}, !.step = "none", !.left = {}, !.errors = job.errors]
      /\ job.errors \in BOOLEAN
  BY <1>1 DEF Jobs
<1>4. Import!Changed' = Import!Changed /\ Import!Filled' = Import!Filled
  BY <1>1, SameWords DEF Import!Changed, Import!Filled
<1> QED
  BY <1>1, <1>2, <1>3, <1>4, JobIsOver DEF ImportInv

(* What others change is theirs from then on.                              *)
LEMMA MeddlesStep ==
    ASSUME ImportInv, Import!Meddles
    PROVE  ImportInv'
<1>1. /\ CatalogHolds /\ ImportJobHolds /\ CleanHolds /\ TallyHolds
      /\ job' = job /\ faced' = faced /\ cat' \in Import!Pages(cat) /\ meddled \subseteq meddled'
      /\ \A p \in Import!Product : <<"product", p>> \notin meddled' => cat'.products[p] = cat.products[p]
      /\ \A k \in Import!Sku : <<"sku", k>> \notin meddled' => cat'.skus[k] = cat.skus[k]
      /\ \A k \in Import!Sku : <<"count", k>> \notin meddled' => cat'.counts[k] = cat.counts[k]
  BY DEF ImportInv, Import!Meddles
<1>2. CatalogHolds' /\ \A k \in Import!Sku : cat.skus[k].of # "none" => cat'.skus[k].of = cat.skus[k].of
  BY <1>1, PageKeeps
<1>3. /\ Import!Group' = Import!Group /\ Import!P' = Import!P /\ Import!TheSkus' = Import!TheSkus
      /\ Import!CountsIn(job.file, Import!Group)' = Import!CountsIn(job.file, Import!Group)
      /\ WrittenRows' = WrittenRows /\ RowsThrough' = RowsThrough
  BY <1>1, SameGroup DEF Import!CountsIn, Import!NoCount, WrittenRows, RowsThrough, CountSteps, OptionSteps
<1>4. ImportJobHolds'
  <2>1. job.step \in {"set", "links"} => LinksHold'
    <3> SUFFICES ASSUME job.step \in {"set", "links"}
                 PROVE  LinksHold'
      OBVIOUS
    <3>1. LinksHold /\ job.status = "PROCESSING"
      BY <1>1 DEF ImportJobHolds
    <3>2. Import!P # "none"
      BY <1>1, <3>1, AtHand, ImportWords
    <3> QED
      BY <1>1, <1>2, <1>3, <3>1, <3>2, SameWords DEF LinksHold
  <2>2. job.step = "set" => MergeHolds'
    <3> SUFFICES ASSUME job.step = "set"
                 PROVE  MergeHolds'
      OBVIOUS
    <3>1. MergeHolds
      BY <1>1 DEF ImportJobHolds
    <3> QED
      BY <1>1, <1>3, <3>1, SameWords DEF MergeHolds
  <2> QED
    BY <1>1, <1>3, <2>1, <2>2, SameWords DEF ImportJobHolds, CountSteps, OptionSteps
<1>5. CleanHolds'
  <2> SUFFICES ASSUME job.status \in {"PROCESSING", "COMPLETED"}, ~job.errors
               PROVE  CleanHolds'
    BY <1>1 DEF CleanHolds
  <2>1. \A i \in 1 .. Len(job.file) : ~Import!ContradictsFile(job.file, i)'
    BY <1>1, SameFile DEF CleanHolds
  <2>2. ASSUME NEW i \in 1 .. Len(job.file)
        PROVE  /\ Import!SkuGiven(job.file[i]) => Import!SkuGiven(job.file[i])'
               /\ Import!CountGiven(job.file[i]) => Import!CountGiven(job.file[i])'
               /\ Import!ProductGiven(job.file[i]) => Import!ProductGiven(job.file[i])'
    <3>1. job.file[i].sku \in Import!Sku /\ job.file[i].product \in Import!Product
      BY <1>1, RowWords DEF ImportJobHolds, Jobs
    <3> QED
      BY <1>1, <1>2, <3>1, SkuStays, CountStays, ProductStays
  <2>3. \A i \in (1 .. Len(job.file)) \ job.todo : Import!Given(job.file[i])'
    BY <1>1, <2>2 DEF CleanHolds, Import!Given
  <2>4. \A i \in Import!Group : job.step \in OptionSteps \cup CountSteps => i \in 1 .. Len(job.file)
    <3>1. job.step \in OptionSteps \cup CountSteps => job.status = "PROCESSING"
      BY <1>1 DEF ImportJobHolds, CountSteps, OptionSteps
    <3> QED
      BY <1>1, <3>1, AtHand DEF ImportJobHolds
  <2>5. job.step \in OptionSteps \cup CountSteps => \A i \in Import!Group : Import!ProductGiven(job.file[i])'
    BY <1>1, <2>2, <2>4 DEF CleanHolds
  <2>6. job.step \in CountSteps => \A i \in Import!Group :
           Import!SkuGiven(job.file[i])' /\ (i \notin job.left => Import!CountGiven(job.file[i])')
    BY <1>1, <2>2, <2>4 DEF CleanHolds
  <2>7. CountSteps' = CountSteps /\ OptionSteps' = OptionSteps
    BY DEF CountSteps, OptionSteps
  <2> QED
    BY <1>1, <1>3, <2>1, <2>3, <2>5, <2>6, <2>7 DEF CleanHolds
<1>6. TallyHolds'
  <2>1. Import!Changed' \subseteq Import!Changed /\ Import!Filled' \subseteq Import!Filled
    BY <1>1, SameWords DEF Import!Changed, Import!Filled
  <2>2. Counted' \subseteq Counted \cup {} /\ Through' \subseteq Through \cup {} \cup {}
    BY <1>1, <1>3, <2>1 DEF Counted, Through, Import!SkusIn
  <2>3. /\ {} \in SUBSET Import!Sku /\ job'.created + job'.updated = job.created + job.updated + Cardinality({})
        /\ job'.skipped >= job.skipped + Cardinality({}) /\ job' \in Jobs
    BY <1>1, NoneMore, JobCounts DEF ImportJobHolds
  <2> QED
    BY <1>1, <2>2, <2>3, TallyStep
<1> QED
  BY <1>2, <1>4, <1>5, <1>6 DEF ImportInv

-----------------------------------------------------------------------------
(* The import: the theorems *)

(* Every step keeps the invariant, and those that change a SKU or a count  *)
(* change what they may.                                                   *)
LEMMA ImportStep ==
    ASSUME RecordBounds, ImportInv, meddling \in Nat, Import!Next
    PROVE  ImportInv' /\ Import!NothingElseTouched
<1> DEFINE Same == \A k \in Import!Sku : cat'.skus[k] = cat.skus[k] /\ cat'.counts[k] = cat.counts[k]
<1>1. Same => Import!NothingElseTouched
  BY DEF Import!NothingElseTouched
<1>2. ASSUME job.status = "PROCESSING", Import!Raises PROVE ImportInv' /\ Same
  BY <1>2, RaiseHolds DEF Import!Raises
<1>3. CASE Import!CommitImportJob \/ Import!Validate \/ Import!ProcessEnds
  BY <1>1, <1>3, CommitStep, ValidateStep, ImportEndsStep
<1>4. CASE Import!StepFails
  BY <1>1, <1>2, <1>4 DEF Import!StepFails
<1>5. CASE Import!ImportCategory
  <2>1. cat'.skus = cat.skus /\ cat'.counts = cat.counts
    BY <1>5 DEF Import!ImportCategory, Import!Commits, Import!WithCategory, ImportInv, CatalogHolds, Catalogs
  <2> QED
    BY <1>1, <1>5, <2>1, CategoryStep
<1>6. CASE Import!ImportProduct
  <2>1. CASE Import!Raises
    BY <1>1, <1>2, <1>6, <2>1 DEF Import!ImportProduct, Import!At
  <2>2. CASE cat' = Import!WithProduct(cat, Import!P, Import!TheCategory)
    <3>1. cat'.skus = cat.skus /\ cat'.counts = cat.counts
      BY <2>2 DEF Import!WithProduct, ImportInv, CatalogHolds, Catalogs
    <3> QED
      BY <1>1, <1>6, <3>1, ProductStep
  <2> QED
    BY <1>6, <2>1, <2>2 DEF Import!ImportProduct, Import!Commits
<1>7. CASE Import!ImportOptions
  BY <1>1, <1>7, OptionsStep
<1>13. CASE Import!ImportOptionsSet
  <2>1. /\ ImportInv' /\ cat'.counts = cat.counts
        /\ \A k \in Import!Sku : cat'.skus[k] # cat.skus[k] => <<"sku", k>> \in meddled /\ cat'.skus[k].of = cat.skus[k].of
    BY <1>13, OptionsSetStep
  <2> QED
    BY <2>1 DEF Import!NothingElseTouched
<1>8. CASE Import!ImportLinks
  <2>1. /\ ImportInv' /\ cat'.counts = cat.counts
        /\ \A k \in Import!Sku : cat'.skus[k] # cat.skus[k] => <<"sku", k>> \in meddled /\ cat'.skus[k].of = cat.skus[k].of
    BY <1>8, LinksStep
  <2> QED
    BY <2>1 DEF Import!NothingElseTouched
<1>9. CASE Import!ImportVariants
  <2>1. /\ ImportInv' /\ cat'.counts = cat.counts
        /\ \A k \in Import!Sku : cat'.skus[k] # cat.skus[k] =>
              k \in Import!TheSkus /\ cat.skus[k].of \in {"none", cat'.skus[k].of}
    BY <1>9, VariantsStep
  <2>2. Import!TheSkus \subseteq Import!SkusIn(Import!File, 1 .. Len(Import!File))
    <3>1. ImportJobHolds /\ job.status = "PROCESSING"
      BY <1>9 DEF ImportInv, Import!ImportVariants, Import!At
    <3>2. Import!TheSkus = Import!SkusIn(job.file, Import!Group) /\ Import!Group \subseteq 1 .. Len(job.file)
      BY <3>1, AtHand DEF ImportJobHolds
    <3> QED
      BY <3>2, ImportWords DEF Import!SkusIn
  <2> QED
    BY <2>1, <2>2, ImportWords DEF Import!NothingElseTouched
<1>10. CASE Import!ImportPlace
  <2>1. cat'.skus = cat.skus /\ cat'.counts = cat.counts
    BY <1>10 DEF Import!ImportPlace, Import!Commits, ImportInv, CatalogHolds, Catalogs
  <2> QED
    BY <1>1, <1>10, <2>1, PlaceStep
<1>11. CASE Import!ImportCount
  <2>1. /\ ImportInv' /\ cat'.skus = cat.skus
        /\ \A k \in Import!Sku : cat'.counts[k] # cat.counts[k] =>
              (job.corrects \/ cat.counts[k].onHand = 0) /\ cat'.counts[k].onHand >= cat.counts[k].reserved
    BY <1>11, CountStep
  <2> QED
    BY <2>1 DEF Import!NothingElseTouched
<1>12. CASE Import!Meddles
  <2>1. meddling' # meddling
    BY <1>12 DEF Import!Meddles
  <2>2. ImportInv'
    BY <1>12, MeddlesStep
  <2> QED
    BY <1>12, <2>1, <2>2 DEF Import!Meddles, Import!NothingElseTouched
<1> QED
  BY <1>3, <1>4, <1>5, <1>6, <1>7, <1>8, <1>9, <1>10, <1>11, <1>12, <1>13 DEF Import!Next, Import!Works

LEMMA CatalogsThere == Import!Catalog \in Catalogs /\ Import!Nowhere \in Catalogs
<1> DEFINE small == [of |-> "tee", status |-> "ACTIVE", price |-> "a", value |-> "S"]
           tee == [status |-> "ACTIVE", category |-> "old", text |-> "page", values |-> {"S"}]
           mug == [status |-> "RETIRED", category |-> "old", text |-> "page", values |-> {}]
<1>1. /\ small \in SkuRow /\ Import!NoSku \in SkuRow /\ tee \in ProductRow /\ mug \in ProductRow
      /\ Import!NoProduct \in ProductRow
  BY ImportWords DEF SkuRow, ProductRow
<1> HIDE DEF small, tee, mug
<1>2. \A n \in {0, 1, 2}, m \in {0, 1, 2} : [onHand |-> n, reserved |-> m] \in [onHand : Import!Count, reserved : Import!Count]
  BY ImportWords
<1>3. Import!Catalog =
        [categories |-> {"old"}, products |-> [p \in Import!Product |-> IF p = "tee" THEN tee ELSE mug],
         skus |-> [k \in Import!Sku |-> IF k = "s" THEN small ELSE Import!NoSku], place |-> TRUE,
         counts |-> [k \in Import!Sku |-> [onHand |-> IF k = "s" THEN 2 ELSE 0, reserved |-> IF k = "s" THEN 1 ELSE 0]]]
  BY DEF Import!Catalog, small, tee, mug
<1>4. Import!Catalog \in Catalogs
  <2>1. [k \in Import!Sku |-> [onHand |-> IF k = "s" THEN 2 ELSE 0, reserved |-> IF k = "s" THEN 1 ELSE 0]]
           \in [Import!Sku -> [onHand : Import!Count, reserved : Import!Count]]
    BY <1>2
  <2>2. {"old"} \in SUBSET Import!Category
    BY ImportWords
  <2> QED
    BY <1>1, <1>3, <2>1, <2>2 DEF Catalogs
<1>5. Import!Nowhere =
        [categories |-> {}, products |-> [p \in Import!Product |-> Import!NoProduct],
         skus |-> [k \in Import!Sku |-> Import!NoSku], place |-> FALSE,
         counts |-> [k \in Import!Sku |-> [onHand |-> 0, reserved |-> 0]]]
  BY DEF Import!Nowhere
<1>6. Import!Nowhere \in Catalogs
  <2>1. [k \in Import!Sku |-> [onHand |-> 0, reserved |-> 0]] \in [Import!Sku -> [onHand : Import!Count, reserved : Import!Count]]
    BY <1>2
  <2> QED
    BY <1>1, <1>5, <2>1 DEF Catalogs
<1> QED
  BY <1>4, <1>6

LEMMA ImportStart ==
    ASSUME cat \in {Import!Catalog, Import!Nowhere}, job = Import!NoJob, faced = cat, meddled = {}
    PROVE  ImportInv
<1>1. /\ job.status = "none" /\ job.file = <<>> /\ job.todo = {} /\ job.step = "none" /\ job.created = 0 /\ job.updated = 0
      /\ job \in Jobs
  BY ImportWords DEF Import!NoJob, Jobs, ImportStatus
<1>2. CatalogHolds
  <2>1. cat \in Catalogs /\ faced \in Catalogs
    BY CatalogsThere
  <2>2. ASSUME cat = Import!Catalog
        PROVE  CatalogHolds
    BY <2>1, <2>2, ImportWords DEF CatalogHolds, Import!Catalog
  <2>3. ASSUME cat = Import!Nowhere
        PROVE  CatalogHolds
    BY <2>1, <2>3, ImportWords DEF CatalogHolds, Import!Nowhere
  <2> QED
    BY <2>2, <2>3
<1>3. ImportJobHolds /\ CleanHolds
  BY <1>1 DEF ImportJobHolds, CleanHolds, CountSteps, OptionSteps
<1>4. TallyHolds
  <2>1. Import!Changed = {} /\ Import!Filled = {} /\ Import!SkusIn(job.file, WrittenRows) = {}
    BY <1>1 DEF Import!Changed, Import!Filled, WrittenRows, CountSteps, OptionSteps, Import!SkusIn
  <2>2. Import!Changed \cup Import!Filled \cup Import!SkusIn(job.file, WrittenRows) = {}
    BY <2>1
  <2>3. Cardinality({}) = 0
    BY NoneMore
  <2>4. job.status \notin {"PROCESSING", "COMPLETED"} /\ job.created + job.updated = 0
    BY <1>1
  <2>5. Cardinality(Import!Changed \cup Import!Filled \cup Import!SkusIn(job.file, WrittenRows)) <= job.created + job.updated
    BY <2>2, <2>3, <2>4
  <2> QED
    BY <2>4, <2>5 DEF TallyHolds
<1> QED
  BY <1>2, <1>3, <1>4 DEF ImportInv

MeddlingCounted == meddling \in Nat

LEMMA MeddlingIsCounted == RecordsSpec => []MeddlingCounted
<1>1. RecordsInit => MeddlingCounted
  BY DEF MeddlingCounted, RecordsInit, ImportRests, Import!Init
<1>2. MeddlingCounted /\ [RecordsNext]_recordVars => MeddlingCounted'
  <2> SUFFICES ASSUME meddling \in Nat, [RecordsNext]_recordVars, meddling' # meddling PROVE meddling' \in Nat
    BY DEF MeddlingCounted
  <2>1. Import!Next
    BY DEF RecordsNext, recordVars, importVars
  <2>2. Import!Meddles
    BY <2>1 DEF Import!Next, Import!Works, Import!CommitImportJob, Import!Validate, Import!ImportCategory, Import!ImportProduct,
       Import!ImportOptions, Import!ImportOptionsSet, Import!ImportLinks, Import!ImportVariants, Import!ImportPlace, Import!ImportCount,
       Import!StepFails, Import!ProcessEnds, Import!Commits, Import!Raises
  <2> QED
    BY <2>2 DEF Import!Meddles
<1> QED
  BY <1>1, <1>2, PTL DEF RecordsSpec

LEMMA ImportInvHolds == RecordsSpec => []ImportInv
<1>1. RecordsInit => ImportInv
  BY ImportStart DEF RecordsInit, ImportRests, Import!Init
<1>2. RecordBounds /\ MeddlingCounted /\ ImportInv /\ [RecordsNext]_recordVars => ImportInv'
  <2> SUFFICES ASSUME RecordBounds, meddling \in Nat, ImportInv, [RecordsNext]_recordVars PROVE ImportInv'
    BY DEF MeddlingCounted
  <2>1. CASE Import!Next
    BY <2>1, ImportStep
  <2>2. CASE UNCHANGED importVars
    <3>1. cat' = cat /\ job' = job /\ faced' = faced /\ meddled' = meddled
      BY <2>2 DEF importVars
    <3>2. CatalogHolds'
      BY <3>1, SameWords DEF ImportInv, CatalogHolds
    <3>3. /\ Import!Group' = Import!Group /\ Import!P' = Import!P /\ Import!TheSkus' = Import!TheSkus
          /\ Import!CountsIn(job.file, Import!Group)' = Import!CountsIn(job.file, Import!Group)
          /\ WrittenRows' = WrittenRows /\ RowsThrough' = RowsThrough /\ CountSteps' = CountSteps
      BY <3>1, SameGroup DEF Import!CountsIn, Import!NoCount, WrittenRows, RowsThrough, CountSteps, OptionSteps
    <3>4. (LinksHold' <=> LinksHold) /\ (MergeHolds' <=> MergeHolds)
      BY <3>1, <3>3, SameWords DEF LinksHold, MergeHolds
    <3>5. ImportJobHolds'
      BY <3>1, <3>3, <3>4, SameWords DEF ImportInv, ImportJobHolds
    <3>6. \A i : /\ Import!ContradictsFile(job.file, i)' <=> Import!ContradictsFile(job.file, i)
                 /\ Import!SkuGiven(job.file[i])' <=> Import!SkuGiven(job.file[i])
                 /\ Import!CountGiven(job.file[i])' <=> Import!CountGiven(job.file[i])
                 /\ Import!ProductGiven(job.file[i])' <=> Import!ProductGiven(job.file[i])
      <4> TAKE i
      <4>1. Import!ContradictsFile(job.file, i)' <=> Import!ContradictsFile(job.file, i)
        BY <3>1, SameFile
      <4>2. Import!SkuGiven(job.file[i])' <=> Import!SkuGiven(job.file[i])
        <5>1. Import!ValueIn(Import!File, 1 .. Len(Import!File), job.file[i].sku)' =
                 Import!ValueIn(Import!File, 1 .. Len(Import!File), job.file[i].sku)
          BY <3>1 DEF Import!ValueIn, Import!ValuesIn, Import!RowsOf, Import!None, Import!File
        <5> QED
          BY <3>1, <5>1 DEF Import!SkuGiven
      <4>3. Import!CountGiven(job.file[i])' <=> Import!CountGiven(job.file[i])
        BY <3>1 DEF Import!CountGiven, Import!NoCount
      <4>4. Import!ProductGiven(job.file[i])' <=> Import!ProductGiven(job.file[i])
        BY <3>1 DEF Import!ProductGiven
      <4> QED
        BY <4>1, <4>2, <4>3, <4>4
    <3>7. CleanHolds'
      BY <3>1, <3>3, <3>6 DEF ImportInv, CleanHolds, Import!Given
    <3>8. TallyHolds'
      <4>1. Import!Changed' = Import!Changed /\ Import!Filled' = Import!Filled
        BY <3>1, SameWords DEF Import!Changed, Import!Filled
      <4>2. /\ Import!SkusIn(job.file, WrittenRows)' = Import!SkusIn(job.file, WrittenRows)
            /\ Import!SkusIn(job.file, RowsThrough)' = Import!SkusIn(job.file, RowsThrough)
        BY <3>1, <3>3 DEF Import!SkusIn
      <4> QED
        BY <3>1, <4>1, <4>2, ImportCount DEF ImportInv, TallyHolds
    <3> QED
      BY <3>2, <3>5, <3>7, <3>8 DEF ImportInv
  <2> QED
    BY <2>1, <2>2 DEF RecordsNext, recordVars
<1> QED
  BY <1>1, <1>2, RecordBounds, MeddlingIsCounted, PTL DEF RecordsSpec

(* What the job reports follows from what it has counted and written.      *)
LEMMA ReportsAreTrue == ASSUME ImportInv PROVE Import!ReportsTrue
<1>1. ImportJobHolds /\ CleanHolds /\ TallyHolds
  BY DEF ImportInv
<1>2. job.status = "COMPLETED" => job.todo = {} /\ job.step = "none"
  BY <1>1 DEF ImportJobHolds
<1>3. job.status = "COMPLETED" /\ ~job.errors => \A i \in 1 .. Len(job.file) : Import!Given(job.file[i])
  BY <1>1, <1>2 DEF CleanHolds
<1>4. job.status = "COMPLETED" => RowsThrough = 1 .. Len(job.file)
  BY <1>2 DEF RowsThrough, WrittenRows, CountSteps, OptionSteps
<1>5. Cardinality(Import!Changed \cup Import!Filled) <= job.created + job.updated
  <2>1. Counted \subseteq Import!Sku /\ Import!Changed \cup Import!Filled \subseteq Counted
    BY <1>1, TallyRows DEF Counted
  <2>2. IsFiniteSet(Counted) /\ Cardinality(Counted) \in Nat /\ Cardinality(Import!Changed \cup Import!Filled) \in Nat
    BY <2>1, FewSkus
  <2>3. Cardinality(Import!Changed \cup Import!Filled) <= Cardinality(Counted)
    BY <2>1, <2>2, FS_Subset
  <2>4. Cardinality(Counted) <= job.created + job.updated
    BY <1>1, ImportCount DEF TallyHolds, Counted
  <2> QED
    BY <1>1, <2>2, <2>3, <2>4, JobCounts DEF ImportJobHolds
<1> QED
  BY <1>1, <1>3, <1>4, <1>5, ImportWords, ImportCount DEF TallyHolds, Import!ReportsTrue

LEMMA ImportIsTyped == ASSUME ImportInv PROVE Import!ImportTyped
<1>1. cat \in Catalogs /\ job \in Jobs
  BY DEF ImportInv, CatalogHolds, ImportJobHolds
<1>2. \A k \in Import!Sku : Import!IsSku(cat, k) => cat.skus[k].of \in Import!Product /\ cat.skus[k].price \in Import!Price
  <2> SUFFICES ASSUME NEW k \in Import!Sku, Import!IsSku(cat, k)
               PROVE  cat.skus[k].of \in Import!Product /\ cat.skus[k].price \in Import!Price
    OBVIOUS
  <2>1. cat.skus[k] \in SkuRow
    BY <1>1 DEF Catalogs
  <2> QED
    BY <2>1 DEF ImportInv, CatalogHolds, Import!IsSku, SkuRow
<1>3. \A p \in Import!Product : cat.products[p].status \in {"none", "ACTIVE", "RETIRED"} /\ cat.products[p].values \subseteq Import!Value
  <2>1. \A p \in Import!Product : cat.products[p] \in ProductRow
    BY <1>1 DEF Catalogs
  <2> QED
    BY <2>1 DEF ProductRow
<1>4. \A k \in Import!Sku : cat.counts[k].onHand \in Import!Count /\ cat.counts[k].reserved \in Import!Count
  <2>1. \A k \in Import!Sku : cat.counts[k] \in [onHand : Import!Count, reserved : Import!Count]
    BY <1>1 DEF Catalogs
  <2> QED
    BY <2>1
<1>5. cat.categories \subseteq Import!Category /\ job.status \in ImportStatus /\ job.step \in Import!Steps
  BY <1>1 DEF Catalogs, Jobs
<1> QED
  BY <1>2, <1>3, <1>4, <1>5, ImportWords DEF Import!ImportTyped, ImportStatus

-----------------------------------------------------------------------------
(* The records: the theorems *)

(* For any workers, batches, attempts, records and failures: what is       *)
(* marked delivered is in the workspace, or the next record of its target  *)
(* stands for it. And for any files, changes and failing steps: an import  *)
(* that has completed without an error has written every row but for what  *)
(* others changed since, one that has completed has counted every SKU, and *)
(* none has changed more SKUs or counts than it has counted.               *)
THEOREM ReportsStayTrue == RecordsSpec => []ReportedIsSo
<1>1. OutboxInv => Session!DeliveredIsShown
  BY DEF OutboxInv
<1>2. ImportInv => Import!ReportsTrue
  BY ReportsAreTrue
<1>3. OutboxInv /\ ImportInv => ReportedIsSo
  BY <1>1, <1>2 DEF ReportedIsSo
<1> QED
  BY <1>3, OutboxInvHolds, ImportInvHolds, PTL

(* For the same: whichever workers take turns, what the workspace shows of *)
(* a session only moves forward; whoever saves a skill replaces the        *)
(* content that was opened, and what is replaced stays in the history; and *)
(* an import changes no SKU its file does not name and no count it may not *)
(* replace, and takes no SKU from another product.                         *)
THEOREM WorkOfOthersStays == RecordsSpec => OthersWorkStays
<1>1. OutboxInv /\ [RecordsNext]_recordVars => [scene = "session" => Session!MirrorGoesForward]_recordVars
  BY OnlyForward DEF RecordsNext
<1>2. SkillInv /\ [RecordsNext]_recordVars => [scene = "skills" => Skills!SavesBuildOnSeen]_recordVars
  BY SavesAreSeen DEF RecordsNext
<1>3. RecordBounds /\ MeddlingCounted /\ ImportInv /\ [RecordsNext]_recordVars =>
          [scene = "import" => Import!NothingElseTouched]_recordVars
  BY ImportStep DEF RecordsNext, MeddlingCounted
<1> QED
  BY <1>1, <1>2, <1>3, RecordBounds, OutboxInvHolds, SkillInvHolds, ImportInvHolds, MeddlingIsCounted, PTL
  DEF RecordsSpec, OthersWorkStays

(* The skills, the outbox, the catalog and its import are as they can be.  *)
THEOREM SharedRecordsTyped == RecordsSpec => [](Skills!SkillsTyped /\ Session!OutboxTyped /\ Import!ImportTyped)
<1>1. SkillInv => Skills!SkillsTyped
  <2> SUFFICES ASSUME SkillInv PROVE Skills!SkillsTyped
    OBVIOUS
  <2>1. \A r \in Skills!Row : Skills!IsRow(r) => library[r].owner \in Skills!Rep \cup {"everyone"} /\ library[r].slug \in Skills!Slug
    BY DEF SkillInv, LibraryHolds, Skills!IsRow, SkillRow
  <2>2. \A r, q \in Skills!Row : r # q /\ library[r].active /\ library[q].active => library[r].slug # library[q].slug
    BY DEF SkillInv, LibraryHolds
  <2>3. \A u \in Skills!Rep : req[u].content \in Skills!Content
    BY DEF SkillInv, RequestsHold, SkillRequest
  <2>4. agent.pc \in {"idle", "loading"}
    BY DEF SkillInv, AgentHolds
  <2> QED
    BY <2>1, <2>2, <2>3, <2>4 DEF Skills!SkillsTyped
<1>2. OutboxInv => Session!OutboxTyped
  <2> SUFFICES ASSUME OutboxInv PROVE Session!OutboxTyped
    OBVIOUS
  <2>1. outbox \in Seq(OutboxRecord) /\ DOMAIN outbox = 1 .. Len(outbox)
    BY DEF OutboxInv, OutboxTypes
  <2>2. ASSUME NEW i \in 1 .. Len(outbox)
        PROVE  /\ outbox[i].target \in Session!Target /\ outbox[i].status \in {"PENDING", "DELIVERED", "FAILED"}
               /\ outbox[i].attempts \in 0 .. MaxAttempts + MaxNotFound
    <3>1. outbox[i] \in OutboxRecord
      BY <2>1
    <3>2. outbox[i].attempts <= MaxAttempts + MaxNotFound /\ MaxAttempts + MaxNotFound \in Nat
      BY SessionWords DEF OutboxInv, OutboxInOrder
    <3> QED
      BY <3>1, <3>2 DEF OutboxRecord
  <2>3. holder \in Worker \cup {Session!Nobody} /\ \A w \in Worker : work[w].pc \in {"idle", "going", "sending", "heard"}
    BY SessionWords DEF OutboxInv, OutboxTypes, WorkOf
  <2> QED
    BY <2>1, <2>2, <2>3 DEF Session!OutboxTyped
<1>3. ImportInv => Import!ImportTyped
  BY ImportIsTyped
<1> QED
  BY <1>1, <1>2, <1>3, SkillInvHolds, OutboxInvHolds, ImportInvHolds, PTL
=============================================================================
