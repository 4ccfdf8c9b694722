---------------------------- MODULE RecordsProofs ----------------------------
(***************************************************************************)
(* Proofs about a workspace's records (Crm, Dedup, Import, Connectors),    *)
(* for every number of callers, readers, records and files and every page  *)
(* size: what a walk reads, what the timeline tells, what a merge keeps,   *)
(* what an import's preview promises and how often an external identity    *)
(* is born.                                                                *)
(*                                                                         *)
(* Everything rests on the ids.  They are minted in order, a row that is   *)
(* gone never comes back, and an id that ever named a contact, a company   *)
(* or a deal never names another kind, even where it is only remembered:   *)
(* in a merge under way, a mapping, a bag or a deal's reference.           *)
(***************************************************************************)
EXTENDS Connectors, FiniteSetTheorems, TLAPS

-----------------------------------------------------------------------------
(* Types *)

ContactRecords == [id : Nat, email : Emails \cup {NoEmail}, company : Nat]
CompanyRecords == [id : Nat, name : Names \cup {Blank}, domain : Domains \cup {Blank}]
DealRecords ==
  [id : Nat, contact : Nat, company : Nat, stage : Stages \cup {"none"}, closed : BOOLEAN]
NoteRecords == [id : Nat, on : Nat, author : Clients]
TaskRecords == [id : Nat, on : Nat, done : BOOLEAN]
BagRecords == [on : Nat, n : Nat, vals : SUBSET {"csv", "score", "follow_up"}]
Activities == [on : Nat, stage : Stages \cup {"none", "unsaid"}]

Merging == {"loaded", "repointed"}

HttpTyped(q) ==
  /\ q.pc = "contact" => q.in \in [email : Emails \cup {NoEmail}, company : Nat]
  /\ q.pc = "company" => q.in \in [name : Names \cup {Blank}, domain : {Blank}]
  /\ q.pc = "deal" => q.in \in [contact : Nat, company : Nat, stage : Stages]
  /\ q.pc = "moving" => q.stage \in Stages
  /\ q.pc \in Merging =>
       /\ q.survivor \in Nat /\ q.loser \in Nat /\ q.survivor # q.loser
       /\ q.row \in ContactRecords \cup CompanyRecords /\ q.row.id = q.survivor
  /\ q.pc = "previewed" => q.kind \in DOMAIN Files /\ q.policy \in Policies /\ q.rows \in Files[q.kind]
  /\ q.pc = "event" => q.ev \in Events
  /\ q.pc = "resolved" =>
       /\ q.ev \in Events /\ q.found \subseteq Nat /\ q.contact \subseteq Nat
       /\ \A i, j \in q.contact : i = j

HttpOK == http = [c \in Clients |-> http[c]] /\ \A c \in Clients : HttpTyped(http[c])

TablesOK ==
  /\ contacts \subseteq ContactRecords
  /\ companies \subseteq CompanyRecords
  /\ deals \subseteq DealRecords
  /\ notes \subseteq NoteRecords /\ tasks \subseteq TaskRecords
  /\ objects \subseteq BagRecords /\ timeline \subseteq Activities
  /\ \A e \in trail : e[2] \in Nat
  /\ \A m \in mappings : m.id \in Nat
  /\ next \in 1..(MaxRecords + 1)
TypeOK == TablesOK /\ HttpOK

(* An id is a person's, a firm's or a deal's wherever it is remembered as   *)
(* such; bags, mappings and lookups name persons and deals.                 *)
MergesContacts(q) == q.pc \in Merging /\ q.row \in ContactRecords
MergesCompanies(q) == q.pc \in Merging /\ q.row \in CompanyRecords
IsPerson(i) ==
  \/ i \in Ids(contacts)
  \/ \E d \in deals : d.contact = i
  \/ \E c \in Clients : MergesContacts(http[c]) /\ i \in {http[c].survivor, http[c].loser}
IsFirm(i) ==
  \/ i \in Ids(companies)
  \/ \E d \in deals : d.company = i
  \/ \E c \in Clients : MergesCompanies(http[c]) /\ i \in {http[c].survivor, http[c].loser}
IsDeal(i) == i \in Ids(deals)
IsNamed(i) ==
  \/ \E o \in objects : o.on = i
  \/ \E m \in mappings : m.id = i
  \/ \E c \in Clients : http[c].pc = "resolved" /\ i \in http[c].found
IsTold(i) ==
  \/ \E x \in timeline : x.on = i
  \/ \E e \in trail : e[1] \in {"deleted", "merged"} /\ e[2] = i

Apart(i) ==
  /\ ~(IsPerson(i) /\ IsFirm(i))
  /\ ~(IsPerson(i) /\ IsDeal(i))
  /\ ~(IsFirm(i) /\ IsDeal(i))
  /\ ~(IsFirm(i) /\ IsNamed(i))

KindsInv ==
  /\ \A i \in Nat \ {0} :
       /\ IsPerson(i) \/ IsFirm(i) \/ IsDeal(i) \/ IsNamed(i) \/ IsTold(i) => i < next
       /\ Apart(i)
  /\ 0 \notin Known /\ ~IsNamed(0)
  /\ \A c \in Clients : http[c].pc \in Merging => 0 \notin {http[c].survivor, http[c].loser}

(* A merge that updated its survivor holds its lock, and the survivor is    *)
(* there for as long, unless it was gone already.                           *)
MergeInv ==
  \A c \in Clients : http[c].pc = "repointed" =>
    /\ http[c].survivor \in http[c].locked
    /\ http[c].survivor \in Known \/ http[c].loser \in astray

(* What a reader holds half way: everything that was there from the start   *)
(* and is not above the cursor is still to come.                            *)
WalkRecords ==
  [pc : {"paging", "read"}, list : {"contacts", "companies", "deals"}, export : BOOLEAN,
   cursor : Nat, seen : SUBSET Nat, rows : Nat, there : SUBSET Nat]
WalkOK(w) ==
  w.pc \in {"paging", "read"} =>
    /\ w \in WalkRecords
    /\ IsFiniteSet(w.seen) /\ w.rows = Cardinality(w.seen)
    /\ \A i \in w.there : i < next
    /\ w.pc = "paging" =>
         /\ \A i \in w.seen : i >= w.cursor
         /\ \A i \in w.there \cap Ids(TableOf(w.list)) : i < w.cursor \/ i \in w.seen
    /\ w.pc = "read" => w.there \cap Ids(TableOf(w.list)) \subseteq w.seen
WalkInv == walks = [r \in Readers |-> walks[r]] /\ \A r \in Readers : WalkOK(walks[r])

(* An identity that brought a record into being is mapped, and whoever      *)
(* looked for it before that is overtaken.                                  *)
BornInv ==
  /\ \A b \in born : b.ext # NoUrl => Mapped(b.ext) # {}
  /\ \A c \in Clients :
       http[c].pc = "resolved" /\ http[c].found = {} /\ http[c].ev.ext # NoUrl
       /\ (\E b \in born : b.ext = http[c].ev.ext) => c \in overtaken
  /\ \A a, b \in born :
       a.ext = b.ext /\ a.ext # NoUrl /\ ~a.overtaken /\ ~b.overtaken => a = b
-----------------------------------------------------------------------------
(* Requests *)

LEMMA TurnsIs ==
  ASSUME HttpOK, NEW c \in Clients, NEW q, Turns(c, q)
  PROVE  /\ http'[c] = q
         /\ \A d \in Clients : d # c => http'[d] = http[d]
         /\ http' = [d \in Clients |-> http'[d]]
         /\ UNCHANGED walks
  BY DEF HttpOK, Turns

LEMMA QuietTyped == HttpTyped(Quiet) /\ Quiet.pc = "idle"
  BY DEF HttpTyped, Quiet, Merging

(* One caller's request changes, to one that is not under a merge's locks   *)
(* nor between a connector's lookup and its write.                          *)
PlainTurn(c) ==
  /\ http' = [d \in Clients |-> http'[d]]
  /\ \A d \in Clients : d # c => http'[d] = http[d]
  /\ http'[c].pc \notin Merging \cup {"resolved"}

LEMMA AnswerIsPlain ==
  ASSUME HttpOK, NEW c \in Clients, Answers(c)
  PROVE  PlainTurn(c) /\ http'[c] = Quiet /\ UNCHANGED walks
  BY TurnsIs, QuietTyped DEF Answers, PlainTurn, Merging

LEMMA TurnIsPlain ==
  ASSUME HttpOK, NEW c \in Clients, NEW q, Turns(c, q), q.pc \notin Merging \cup {"resolved"}
  PROVE  PlainTurn(c) /\ http'[c] = q /\ UNCHANGED walks
  BY TurnsIs DEF PlainTurn

LEMMA PostsTurn ==
  ASSUME HttpOK, NEW c \in Clients, NEW kind \in {"contact", "company", "deal"}, NEW in, NEW k,
         Posts(c, kind, in, k)
  PROVE  /\ PlainTurn(c) /\ UNCHANGED walks
         /\ http'[c] = Quiet \/ http'[c] = [pc |-> kind, in |-> in, key |-> k]
  <1>1. CASE Answers(c) BY <1>1, AnswerIsPlain
  <1>2. CASE Turns(c, [pc |-> kind, in |-> in, key |-> k])
    <2>1. [pc |-> kind, in |-> in, key |-> k].pc \notin Merging \cup {"resolved"}
      BY DEF Merging
    <2> QED BY <1>2, <2>1, TurnIsPlain
  <1> QED BY <1>1, <1>2 DEF Posts

LEMMA RequestIsPlain ==
  ASSUME HttpOK, NEW c \in Clients, RecordWrites(c) \/ NoteWrites(c)
  PROVE  PlainTurn(c) /\ UNCHANGED walks
  <1>1. CASE contactHandlers(c)
    BY <1>1, PostsTurn, AnswerIsPlain DEF contactHandlers
  <1>2. CASE companyHandlers(c)
    BY <1>2, PostsTurn, AnswerIsPlain DEF companyHandlers
  <1>3. CASE dealHandlers(c)
    BY <1>3, PostsTurn, AnswerIsPlain DEF dealHandlers
  <1>4. CASE PatchDealStage(c)
    <2>1. PICK id \in Ids(deals), s \in Stages : Turns(c, [pc |-> "moving", id |-> id, stage |-> s])
      BY <1>4 DEF PatchDealStage
    <2>2. [pc |-> "moving", id |-> id, stage |-> s].pc \notin Merging \cup {"resolved"}
      BY DEF Merging
    <2> QED BY <2>1, <2>2, TurnIsPlain
  <1>5. CASE CreateContact(c) \/ CreateCompany(c) \/ CreateDeal(c) \/ TransitionDealStage(c)
    BY <1>5, AnswerIsPlain DEF CreateContact, CreateCompany, CreateDeal, TransitionDealStage
  <1>6. CASE NoteWrites(c)
    BY <1>6, AnswerIsPlain DEF NoteWrites, createNote, UpdateNote, DeleteNote, CreateTask,
       UpdateTask, ToggleTaskCompletion, DeleteTask
  <1> QED BY <1>1, <1>2, <1>3, <1>4, <1>5, <1>6 DEF RecordWrites

LEMMA ImportIsPlain ==
  ASSUME HttpOK, NEW c \in Clients, ImportPreview(c) \/ ImportCommit(c) \/ Cancel(c)
  PROVE  PlainTurn(c) /\ UNCHANGED walks
  <1>1. CASE ImportPreview(c)
    <2>1. PICK kind \in DOMAIN Files, policy \in Policies : \E rows \in Files[kind] :
            Turns(c, [pc |-> "previewed", kind |-> kind, policy |-> policy, rows |-> rows,
                      told |-> process(kind, policy, FALSE, rows).outcomes,
                      base |-> <<contacts, companies>>])
      BY <1>1 DEF ImportPreview
    <2>2. PICK rows \in Files[kind] :
            Turns(c, [pc |-> "previewed", kind |-> kind, policy |-> policy, rows |-> rows,
                      told |-> process(kind, policy, FALSE, rows).outcomes,
                      base |-> <<contacts, companies>>])
      BY <2>1
    <2> DEFINE q == [pc |-> "previewed", kind |-> kind, policy |-> policy, rows |-> rows,
                     told |-> process(kind, policy, FALSE, rows).outcomes,
                     base |-> <<contacts, companies>>]
    <2>3. q.pc \notin Merging \cup {"resolved"} BY DEF Merging
    <2>4. Turns(c, q) BY <2>2
    <2> HIDE DEF q
    <2> QED BY <2>3, <2>4, TurnIsPlain
  <1>2. CASE ImportCommit(c) \/ Cancel(c)
    BY <1>2, AnswerIsPlain DEF ImportCommit, Cancel
  <1> QED BY <1>1, <1>2

LEMMA MergeTurn ==
  ASSUME HttpOK, NEW c \in Clients,
         \/ ListDuplicates(c) \/ markDistinct(c) \/ LoadMerge(c, contacts) \/ LoadMerge(c, companies)
         \/ RepointMerge(c) \/ MergeContacts(c) \/ MergeCompanies(c) \/ RolledBack(c)
  PROVE  /\ http' = [d \in Clients |-> http'[d]]
         /\ \A d \in Clients : d # c => http'[d] = http[d]
         /\ http'[c].pc # "resolved" /\ UNCHANGED walks
  <1> DEFINE Turned == /\ http' = [d \in Clients |-> http'[d]]
                       /\ \A d \in Clients : d # c => http'[d] = http[d]
                       /\ http'[c].pc # "resolved" /\ UNCHANGED walks
  <1>0. \A q : Turns(c, q) /\ q.pc # "resolved" => Turned BY TurnsIs
  <1>1. Answers(c) => Turned BY <1>0, QuietTyped DEF Answers
  <1> HIDE DEF Turned
  <1>2. CASE ListDuplicates(c)
    <2>1. PICK p : Turns(c, [pc |-> "reviewing", pair |-> p]) BY <1>2 DEF ListDuplicates
    <2>2. [pc |-> "reviewing", pair |-> p].pc # "resolved" OBVIOUS
    <2>3. Turned BY <2>1, <2>2, <1>0
    <2> QED BY <2>3 DEF Turned
  <1>3. ASSUME NEW T, LoadMerge(c, T) PROVE Turned
    <2>1. PICK s, l \in http[c].pair :
            IF {s, l} \subseteq Ids(T)
            THEN \E pick \in {The(T, s), The(T, l)} :
                   Turns(c, [pc |-> "loaded", survivor |-> s, loser |-> l, row |-> [pick EXCEPT !.id = s]])
            ELSE Answers(c)
      BY <1>3 DEF LoadMerge
    <2>2. \A row : [pc |-> "loaded", survivor |-> s, loser |-> l, row |-> row].pc # "resolved"
      OBVIOUS
    <2>3. \A row : Turns(c, [pc |-> "loaded", survivor |-> s, loser |-> l, row |-> row]) => Turned
      BY <2>2, <1>0
    <2> QED BY <2>1, <2>3, <1>1, Zenon
  <1>4. CASE RepointMerge(c)
    <2>1. \A s, l, row, h, ds, st, lk :
            Turns(c, [pc |-> "repointed", survivor |-> s, loser |-> l, row |-> row, hung |-> h,
                      deals |-> ds, staff |-> st, locked |-> lk]) => Turned
      <3> TAKE s, l, row, h, ds, st, lk
      <3>1. [pc |-> "repointed", survivor |-> s, loser |-> l, row |-> row, hung |-> h,
             deals |-> ds, staff |-> st, locked |-> lk].pc # "resolved"
        OBVIOUS
      <3> QED BY <3>1, <1>0
    <2>2. Turned BY <1>4, <2>1, <1>1, Zenon DEF RepointMerge
    <2> QED BY <2>2 DEF Turned
  <1>5. CASE markDistinct(c) \/ MergeContacts(c) \/ MergeCompanies(c) \/ RolledBack(c)
    <2>1. Answers(c) BY <1>5 DEF markDistinct, MergeContacts, MergeCompanies, RolledBack, Merged
    <2> QED BY <2>1, <1>1 DEF Turned
  <1> QED BY <1>2, <1>3, <1>4, <1>5 DEF Turned
-----------------------------------------------------------------------------
(* Born once *)

(* A step that brings nothing into being and ends no lookup.                *)
LEMMA BornKept ==
  ASSUME BornInv, UNCHANGED connectorVars,
         \A c \in Clients : http'[c] = http[c] \/ http'[c].pc # "resolved"
  PROVE  BornInv'
  BY DEF BornInv, connectorVars, Mapped

LEMMA MappedMatches ==
  ASSUME NEW ext, NEW S, Mapped(ext) # {}, S = {m.id : m \in Mapped(ext)}
  PROVE  S # {}
  OBVIOUS

LEMMA ResolveKeepsBorn ==
  ASSUME HttpOK, BornInv, NEW c \in Clients, Resolve(c) PROVE BornInv'
  <1> DEFINE ev == http[c].ev
             found == IF ev.kind = "enriched" THEN upsertConnectorContact(ev)
                      ELSE findOrCreateInvitationDeal(ev)
             contact == IF ev.kind = "enriched" THEN {} ELSE resolveCandidateContact(ev)
             q == [pc |-> "resolved", ev |-> ev, found |-> found, contact |-> contact]
  <1>1. Turns(c, q) BY DEF Resolve
  <1>2. q.ev = ev /\ q.found = found OBVIOUS
  <1>3. found = {} /\ ev.ext # NoUrl => Mapped(ev.ext) = {}
    BY MappedMatches DEF upsertConnectorContact, findOrCreateInvitationDeal
  <1> HIDE DEF q, found, contact
  <1>4. http'[c] = q /\ \A d \in Clients : d # c => http'[d] = http[d] BY <1>1, TurnsIs
  <1>5. UNCHANGED <<mappings, born>> /\ overtaken' = overtaken \ {c} BY DEF Resolve
  <1>6. \A b \in born' : b.ext # NoUrl => Mapped(b.ext)' # {} BY <1>5 DEF BornInv, Mapped
  <1>7. ASSUME NEW d \in Clients, http'[d].pc = "resolved", http'[d].found = {},
               http'[d].ev.ext # NoUrl, \E b \in born' : b.ext = http'[d].ev.ext
        PROVE  d \in overtaken'
    <2>1. CASE d = c
      <3>1. found = {} /\ ev.ext # NoUrl /\ \E b \in born : b.ext = ev.ext
        BY <1>7, <2>1, <1>4, <1>2, <1>5
      <3>2. Mapped(ev.ext) = {} BY <3>1, <1>3
      <3> QED BY <3>1, <3>2 DEF BornInv
    <2>2. CASE d # c
      BY <1>7, <2>2, <1>4, <1>5 DEF BornInv
    <2> QED BY <2>1, <2>2
  <1> QED BY <1>5, <1>6, <1>7 DEF BornInv

(* The two ways a handler ends: something is created, or nothing is.        *)
LEMMA CreationKeepsBorn ==
  ASSUME HttpOK, BornInv, NEW c \in Clients, NEW type, NEW id, NEW ext,
         http[c].pc = "resolved", http[c].found = {}, ext = http[c].ev.ext,
         Answers(c), MapTo(ext, type, id, TRUE), Overtakes(c, ext, id)
  PROVE  BornInv'
  <1> DEFINE new == [ext |-> ext, id |-> id, overtaken |-> c \in overtaken]
  <1>1. /\ born' = born \cup {new}
        /\ overtaken' = (overtaken \ {c}) \cup
             {d \in Clients \ {c} : http[d].pc = "resolved" /\ Same(http[d].ev, http[c].ev)}
    BY DEF Overtakes
  <1>2. new.ext = ext /\ new.overtaken = (c \in overtaken) OBVIOUS
  <1> HIDE DEF new
  <1>3. /\ http'[c] = Quiet /\ Quiet.pc = "idle"
        /\ \A d \in Clients : d # c => http'[d] = http[d]
    BY TurnsIs, QuietTyped DEF Answers
  <1>4. \A e : Mapped(e) \subseteq Mapped(e)' BY DEF MapTo, Mapped
  <1>5. ext # NoUrl => Mapped(ext)' # {}
    <2> DEFINE m == [ext |-> ext, type |-> type, id |-> id]
    <2>1. m.ext = ext OBVIOUS
    <2>2. CASE Mapped(ext) # {} BY <2>2, <1>4
    <2>3. CASE Mapped(ext) = {} /\ ext # NoUrl
      <3>1. m \in mappings' BY <2>3 DEF MapTo
      <3> QED BY <3>1, <2>1 DEF Mapped
    <2> QED BY <2>2, <2>3
  <1>6. \A b \in born' : b.ext # NoUrl => Mapped(b.ext)' # {}
    BY <1>1, <1>2, <1>4, <1>5 DEF BornInv
  <1>7. ASSUME NEW d \in Clients, http'[d].pc = "resolved", http'[d].found = {},
               http'[d].ev.ext # NoUrl, NEW b \in born', b.ext = http'[d].ev.ext
        PROVE  d \in overtaken'
    <2>1. d # c /\ http'[d] = http[d] BY <1>7, <1>3
    <2>2. CASE b \in born BY <1>1, <1>7, <2>1, <2>2 DEF BornInv
    <2>3. CASE b = new
      <3>1. Same(http[d].ev, http[c].ev) BY <1>2, <1>7, <2>1, <2>3 DEF Same
      <3> QED BY <1>1, <1>7, <2>1, <3>1
    <2> QED BY <1>1, <2>2, <2>3
  <1>8. \A b \in born : b.ext = ext /\ ext # NoUrl => new.overtaken
    BY <1>2 DEF BornInv
  <1>9. \A a, b \in born' :
          a.ext = b.ext /\ a.ext # NoUrl /\ ~a.overtaken /\ ~b.overtaken => a = b
    BY <1>1, <1>2, <1>8 DEF BornInv
  <1> QED BY <1>6, <1>7, <1>9 DEF BornInv

LEMMA QuietKeepsBorn ==
  ASSUME HttpOK, BornInv, NEW c \in Clients, UNCHANGED <<mappings, born>>,
         overtaken' = overtaken \ {c}, Answers(c)
  PROVE  BornInv'
  <1>1. /\ http'[c].pc = "idle" /\ \A d \in Clients : d # c => http'[d] = http[d]
    BY TurnsIs, QuietTyped DEF Answers
  <1> QED BY <1>1 DEF BornInv, Mapped

LEMMA HandlersKeepBorn ==
  ASSUME HttpOK, BornInv, NEW c \in Clients,
         \/ handleCandidateEnriched(c) \/ handleInvitationStage(c)
         \/ handleInvitationReplyPositive(c) \/ Failed(c)
  PROVE  BornInv'
  <1>1. http[c].pc = "resolved" /\ Answers(c)
    BY DEF handleCandidateEnriched, handleInvitationStage, handleInvitationReplyPositive, Failed,
           Continues
  <1>2. \A ext, type, id, linked : MapTo(ext, type, id, linked) => MapTo(ext, type, id, TRUE)
    BY DEF MapTo
  <1>3. CASE handleCandidateEnriched(c)
    <2>1. CASE http[c].found = {}
      <3>1. MapTo(http[c].ev.ext, "contact", next, TRUE) /\ Overtakes(c, http[c].ev.ext, next)
        BY <1>3, <2>1 DEF handleCandidateEnriched
      <3> QED BY <1>1, <2>1, <3>1, CreationKeepsBorn
    <2>2. CASE http[c].found # {}
      BY <1>1, <1>3, <2>2, QuietKeepsBorn DEF handleCandidateEnriched, Quietly
    <2> QED BY <2>1, <2>2
  <1>4. ASSUME NEW id, FindOrCreate(c, id) PROVE BornInv'
    <2>1. CASE http[c].found = {}
      <3>1. MapTo(http[c].ev.ext, "deal", id, TRUE) /\ Overtakes(c, http[c].ev.ext, id)
        BY <1>2, <1>4, <2>1 DEF FindOrCreate
      <3> QED BY <1>1, <2>1, <3>1, CreationKeepsBorn
    <2>2. CASE http[c].found # {}
      BY <1>1, <1>4, <2>2, QuietKeepsBorn DEF FindOrCreate, Quietly
    <2> QED BY <2>1, <2>2
  <1>5. CASE handleInvitationStage(c) BY <1>4, <1>5 DEF handleInvitationStage
  <1>6. CASE handleInvitationReplyPositive(c) BY <1>4, <1>6 DEF handleInvitationReplyPositive
  <1>7. CASE Failed(c) BY <1>1, <1>7, QuietKeepsBorn DEF Failed
  <1> QED BY <1>3, <1>5, <1>6, <1>7

LEMMA PostIsPlain ==
  ASSUME HttpOK, NEW c \in Clients, PostConnectorEvent(c)
  PROVE  PlainTurn(c) /\ UNCHANGED walks
  <1>1. PICK ev \in knownConnectorEvents : Answers(c) \/ Turns(c, [pc |-> "event", ev |-> ev])
    BY DEF PostConnectorEvent
  <1>2. [pc |-> "event", ev |-> ev].pc \notin Merging \cup {"resolved"} BY DEF Merging
  <1> QED BY <1>1, <1>2, AnswerIsPlain, TurnIsPlain

LEMMA BornStep ==
  ASSUME HttpOK, BornInv, [WorkspaceNext]_workspaceVars PROVE BornInv'
  <1> USE DEF PlainTurn
  <1>1. CASE RequestStep
    BY <1>1, RequestIsPlain, BornKept DEF RequestStep
  <1>2. CASE WalkStep
    BY <1>2, BornKept DEF WalkStep, Walks, BeginWalk, ReadPage
  <1>3. CASE DedupStep
    BY <1>3, MergeTurn, BornKept DEF DedupStep, DedupNext
  <1>4. CASE ImportStep
    BY <1>4, ImportIsPlain, BornKept DEF ImportStep, ImportNext
  <1>5. CASE ConnectorsNext
    <2>1. ASSUME NEW c \in Clients, PostConnectorEvent(c) PROVE BornInv'
      BY <2>1, PostIsPlain, BornKept DEF PostConnectorEvent
    <2> QED BY <1>5, <2>1, ResolveKeepsBorn, HandlersKeepBorn DEF ConnectorsNext
  <1>6. CASE UNCHANGED workspaceVars
    BY <1>6, BornKept DEF workspaceVars, crmVars
  <1> QED BY <1>1, <1>2, <1>3, <1>4, <1>5, <1>6 DEF WorkspaceNext

LEMMA BornInvHolds == BornInv => BornOnce
  <1> SUFFICES ASSUME BornInv, NEW ext \in Urls \cup Invitations
               PROVE  Cardinality({b \in born : b.ext = ext /\ ~b.overtaken}) <= 1
    BY DEF BornOnce
  <1> DEFINE S == {b \in born : b.ext = ext /\ ~b.overtaken}
  <1>1. \A a, b \in S : a = b BY ExternalIdsAssumption DEF BornInv
  <1>2. CASE S = {} BY <1>2, FS_EmptySet
  <1>3. CASE S # {}
    <2>1. PICK b \in S : TRUE BY <1>3
    <2>2. S = {b} BY <1>1, <2>1
    <2> HIDE DEF S
    <2>3. Cardinality(S) = 1 BY <2>2, FS_Singleton
    <2> QED BY <2>3 DEF S
  <1> QED BY <1>2, <1>3
-----------------------------------------------------------------------------
(* Numbers                                                                  *)

LessThan == {p \in Nat \X Nat : p[1] < p[2]}

LEMMA LessThanIsWellFounded == IsWellFoundedOn(LessThan, Nat)
  BY NatLessThanWellFounded DEF OpToRel, LessThan

LEMMA LeastExists ==
  ASSUME NEW S, S \subseteq Nat, S # {}
  PROVE  \E n \in S : \A k \in S : n <= k
  <1>1. PICK n \in S : \A k \in S : ~(<<k, n>> \in LessThan)
    BY LessThanIsWellFounded, WFMin
  <1>2. \A k \in S : ~(k < n)
    <2> TAKE k \in S
    <2>1. k \in Nat /\ n \in Nat OBVIOUS
    <2>2. <<k, n>> \in Nat \X Nat /\ <<k, n>>[1] = k /\ <<k, n>>[2] = n BY <2>1
    <2> QED BY <1>1, <2>2 DEF LessThan
  <1> QED BY <1>2

LEMMA LeastIs ==
  ASSUME NEW S, S \subseteq Nat, S # {}
  PROVE  Least(S) \in S /\ \A k \in S : Least(S) <= k
  BY LeastExists DEF Least

LEMMA OldestIs ==
  ASSUME NEW T, Ids(T) \subseteq Nat
  PROVE  /\ Oldest(T) \subseteq Ids(T) /\ (Oldest(T) = {} <=> T = {})
         /\ T # {} => Oldest(T) = {Least(Ids(T))} /\ Least(Oldest(T)) = Least(Ids(T))
  <1>1. CASE T = {} BY <1>1 DEF Oldest, Ids
  <1>2. CASE T # {}
    <2>1. Ids(T) # {} BY <1>2 DEF Ids
    <2>2. Least(Ids(T)) \in Ids(T) BY <2>1, LeastIs
    <2>3. Oldest(T) = {Least(Ids(T))} BY <1>2 DEF Oldest
    <2> DEFINE n == Least(Ids(T))
    <2> HIDE DEF n
    <2>4. n \in Nat /\ Least({n}) = n BY <2>2, LeastIs DEF n
    <2> QED BY <1>2, <2>2, <2>3, <2>4 DEF n
  <1> QED BY <1>1, <1>2

-----------------------------------------------------------------------------
(* Files: the engine, row after row                                         *)

Begun(f, kind, policy, write, rows, m) ==
  f = [n \in 0..m |-> IF n = 0 THEN Engine ELSE Classified(f[n - 1], kind, policy, write, rows[n])]

LEMMA BegunIs ==
  ASSUME NEW kind, NEW policy, NEW write, NEW rows, NEW m \in Nat, NEW f,
         f = [n \in 0..m |-> f[n]],
         \A n \in 0..m :
           f[n] = IF n = 0 THEN Engine ELSE Classified(f[n - 1], kind, policy, write, rows[n])
  PROVE  Begun(f, kind, policy, write, rows, m)
  BY DEF Begun

LEMMA BegunExists ==
  ASSUME NEW kind, NEW policy, NEW write, NEW rows, NEW m \in Nat
  PROVE  \E f : Begun(f, kind, policy, write, rows, m)
  <1> DEFINE Bad == {n \in Nat : ~\E f : Begun(f, kind, policy, write, rows, n)}
  <1>1. SUFFICES ASSUME m \in Bad PROVE FALSE OBVIOUS
  <1>2. PICK n \in Bad : \A k \in Bad : n <= k BY <1>1, LeastExists
  <1>3. CASE n = 0
    <2> DEFINE z == [i \in 0..0 |-> Engine]
    <2>1. /\ z = [i \in 0..0 |-> z[i]]
          /\ \A i \in 0..0 :
               z[i] = IF i = 0 THEN Engine ELSE Classified(z[i - 1], kind, policy, write, rows[i])
      OBVIOUS
    <2> HIDE DEF z
    <2>2. Begun(z, kind, policy, write, rows, 0) BY <2>1, BegunIs
    <2> QED BY <2>2, <1>3
  <1>4. CASE n # 0
    <2>1. n - 1 \in Nat /\ n - 1 \notin Bad BY <1>2, <1>4
    <2>2. PICK f : Begun(f, kind, policy, write, rows, n - 1) BY <2>1
    <2> DEFINE g == [i \in 0..n |-> IF i = n THEN Classified(f[n - 1], kind, policy, write, rows[n])
                                    ELSE f[i]]
    <2>3. \A i \in 0..(n - 1) :
            f[i] = IF i = 0 THEN Engine ELSE Classified(f[i - 1], kind, policy, write, rows[i])
      BY <2>1, <2>2 DEF Begun
    <2>4. \A i \in 0..n :
            g[i] = IF i = 0 THEN Engine ELSE Classified(g[i - 1], kind, policy, write, rows[i])
      <3> TAKE i \in 0..n
      <3>1. CASE i = n BY <3>1, <1>4
      <3>2. CASE i # n BY <3>2, <2>3
      <3> QED BY <3>1, <3>2
    <2>5. g = [i \in 0..n |-> g[i]] OBVIOUS
    <2> HIDE DEF g
    <2>6. Begun(g, kind, policy, write, rows, n) BY <2>4, <2>5, BegunIs
    <2> QED BY <2>6
  <1> QED BY <1>3, <1>4

LEMMA EnginesIs ==
  ASSUME NEW kind, NEW policy, NEW write, NEW rows, Len(rows) \in Nat
  PROVE  LET e == Engines(kind, policy, write, rows) IN
         /\ e[0] = Engine
         /\ \A n \in 1..Len(rows) : e[n] = Classified(e[n - 1], kind, policy, write, rows[n])
         /\ process(kind, policy, write, rows) = e[Len(rows)]
  <1> DEFINE g == CHOOSE f : Begun(f, kind, policy, write, rows, Len(rows))
  <1>1. Engines(kind, policy, write, rows) = g BY DEF Engines, Begun
  <1>2. Begun(g, kind, policy, write, rows, Len(rows)) BY BegunExists
  <1> HIDE DEF g
  <1>3. \A n \in 0..Len(rows) :
          g[n] = IF n = 0 THEN Engine ELSE Classified(g[n - 1], kind, policy, write, rows[n])
    BY <1>2 DEF Begun
  <1> QED BY <1>1, <1>3 DEF process

RowTyped(kind, row) ==
  /\ kind \in {"contact", "company", "deal"}
  /\ kind = "contact" => row \in ContactRows
  /\ kind = "company" => row \in CompanyRows
  /\ kind = "deal" => row \in DealRows

LEMMA FileRows ==
  ASSUME NEW kind \in DOMAIN Files, NEW rows \in Files[kind]
  PROVE  Len(rows) \in Nat /\ DOMAIN rows = 1..Len(rows) /\ \A n \in 1..Len(rows) : RowTyped(kind, rows[n])
  BY FilesAssumption DEF RowTyped

Outcomes == {"error", "skip", "update", "create"}
EngineRecords ==
  [contacts : SUBSET ContactRecords, companies : SUBSET CompanyRecords, deals : SUBSET DealRecords,
   objects : SUBSET BagRecords, timeline : SUBSET Activities, next : Nat,
   seen : SUBSET (Emails \cup Domains \cup Names), outcomes : Seq(Outcomes)]

Tables(e, f) ==
  /\ f.contacts = e.contacts /\ f.companies = e.companies /\ f.deals = e.deals
  /\ f.objects = e.objects /\ f.timeline = e.timeline /\ f.next = e.next

Longer(s, a) == Append(s, a)
LEMMA RecordIs ==
  ASSUME NEW e \in EngineRecords, NEW a \in Outcomes
  PROVE  /\ record(e, a) \in EngineRecords
         /\ Tables(e, record(e, a)) /\ record(e, a).seen = e.seen
         /\ record(e, a).outcomes = Longer(e.outcomes, a)
  <1>1. Append(e.outcomes, a) \in Seq(Outcomes) BY DEF EngineRecords
  <1> DEFINE longer == Append(e.outcomes, a)
  <1> HIDE DEF longer
  <1>2. LET f == [e EXCEPT !.outcomes = longer] IN
        f \in EngineRecords /\ Tables(e, f) /\ f.seen = e.seen /\ f.outcomes = longer
    BY <1>1 DEF EngineRecords, Tables, longer
  <1>3. record(e, a) = [e EXCEPT !.outcomes = longer] BY DEF record, longer
  <1> QED BY <1>2, <1>3 DEF longer, Longer

Noted(e, keySet) == [e EXCEPT !.seen = @ \cup keySet]
LEMMA NotedIs ==
  ASSUME NEW e \in EngineRecords, NEW keySet \in SUBSET (Emails \cup Domains \cup Names)
  PROVE  /\ Noted(e, keySet) \in EngineRecords
         /\ Tables(e, Noted(e, keySet)) /\ Noted(e, keySet).seen = e.seen \cup keySet
         /\ Noted(e, keySet).outcomes = e.outcomes
  BY DEF Noted, EngineRecords, Tables

LEMMA KeysAreTyped ==
  ASSUME NEW kind, NEW row, RowTyped(kind, row)
  PROVE  dedupeKey(kind, row) \in SUBSET (Emails \cup Domains \cup Names)
  BY DEF RowTyped, dedupeKey, ContactRows, CompanyRows, DealRows

TellsOf(e, f, kind, id) ==
  /\ f.contacts = e.contacts /\ f.companies = e.companies /\ f.deals = e.deals
  /\ f.seen = e.seen /\ f.outcomes = e.outcomes
  /\ f.timeline = e.timeline \cup {[on |-> id, stage |-> "unsaid"]}
  /\ f.next \in {e.next, e.next + 1}
  /\ \A o \in f.objects : o \in e.objects \/ o.on = id
  /\ kind = "company" => f.objects = e.objects

LEMMA AfterWriteIs ==
  ASSUME NEW e \in EngineRecords, NEW id \in Nat, NEW kind, NEW row, RowTyped(kind, row)
  PROVE  afterWrite(e, id, row) \in EngineRecords /\ TellsOf(e, afterWrite(e, id, row), kind, id)
  <1> USE DEF TellsOf
  <1> DEFINE told == [e EXCEPT !.timeline = @ \cup {[on |-> id, stage |-> "unsaid"]}]
  <1>0. [on |-> id, stage |-> "unsaid"] \in Activities BY DEF Activities
  <1>1. /\ told \in EngineRecords
        /\ told.contacts = e.contacts /\ told.companies = e.companies /\ told.deals = e.deals
        /\ told.seen = e.seen /\ told.outcomes = e.outcomes /\ told.next = e.next
        /\ told.objects = e.objects /\ told.timeline = e.timeline \cup {[on |-> id, stage |-> "unsaid"]}
    BY <1>0 DEF EngineRecords
  <1> DEFINE bag == [on |-> id, n |-> e.next, vals |-> BagOf(e.objects, id) \cup {"csv"}]
  <1>2. bag.on = id OBVIOUS
  <1>3. bag \in BagRecords
    <2>1. BagOf(e.objects, id) \subseteq {"csv", "score", "follow_up"}
      BY DEF BagOf, On, EngineRecords, BagRecords
    <2>2. e.next \in Nat BY DEF EngineRecords
    <2> HIDE DEF BagOf
    <2> QED BY <2>1, <2>2 DEF BagRecords
  <1>4. CASE ~row.custom
    <2>1. afterWrite(e, id, row) = told BY <1>4 DEF afterWrite
    <2> HIDE DEF told
    <2> QED BY <2>1, <1>1
  <1>5. CASE row.custom
    <2> DEFINE bags == (told.objects \ On(told.objects, id)) \cup {bag}
               later == told.next + 1
               f == [told EXCEPT !.next = later, !.objects = bags]
    <2>1. afterWrite(e, id, row) = f BY <1>5, <1>1 DEF afterWrite
    <2>2. kind # "company" BY <1>5 DEF RowTyped, CompanyRows
    <2>4. \A o \in bags : o \in told.objects \/ o = bag OBVIOUS
    <2> HIDE DEF told, bag
    <2>5. bags \in SUBSET BagRecords BY <1>1, <1>3 DEF EngineRecords
    <2>6. later \in Nat BY <1>1 DEF EngineRecords
    <2> HIDE DEF bags, later
    <2>3. /\ f \in EngineRecords
          /\ f.contacts = told.contacts /\ f.companies = told.companies /\ f.deals = told.deals
          /\ f.seen = told.seen /\ f.outcomes = told.outcomes /\ f.next = later
          /\ f.objects = bags /\ f.timeline = told.timeline
      BY <1>1, <2>5, <2>6 DEF EngineRecords
    <2> HIDE DEF f
    <2> QED BY <2>1, <2>2, <2>3, <2>4, <1>1, <1>2 DEF later
  <1> QED BY <1>4, <1>5

(* The row a creation inserts.                                              *)
NewRow(kind, id, row) ==
  CASE kind = "contact" -> [id |-> id, email |-> row.email, company |-> 0]
    [] kind = "company" -> [id |-> id, name |-> row.name, domain |-> row.domain]
    [] kind = "deal" -> [id |-> id, contact |-> 0, company |-> 0, stage |-> row.stage, closed |-> FALSE]

LEMMA NewRowIs ==
  ASSUME NEW kind, NEW id \in Nat, NEW row, RowTyped(kind, row)
  PROVE  /\ NewRow(kind, id, row).id = id
         /\ kind = "contact" => NewRow(kind, id, row) \in ContactRecords
                                /\ NewRow(kind, id, row).email = row.email
         /\ kind = "company" => NewRow(kind, id, row) \in CompanyRecords
                                /\ NewRow(kind, id, row).name = row.name
                                /\ NewRow(kind, id, row).domain = row.domain
         /\ kind = "deal" => NewRow(kind, id, row) \in DealRecords
                             /\ NewRow(kind, id, row).contact = 0 /\ NewRow(kind, id, row).company = 0
  BY DEF NewRow, RowTyped, ContactRows, CompanyRows, DealRows, ContactRecords, CompanyRecords, DealRecords

Inserts(e, f, kind, r) ==
  /\ f.next = e.next + 1
  /\ f.objects = e.objects /\ f.timeline = e.timeline
  /\ f.seen = e.seen /\ f.outcomes = e.outcomes
  /\ f.contacts = IF kind = "contact" THEN e.contacts \cup {r} ELSE e.contacts
  /\ f.companies = IF kind = "company" THEN e.companies \cup {r} ELSE e.companies
  /\ f.deals = IF kind = "deal" THEN e.deals \cup {r} ELSE e.deals

LEMMA ApplyCreateIs ==
  ASSUME NEW e \in EngineRecords, NEW kind, NEW row, RowTyped(kind, row)
  PROVE  /\ applyCreate(e, kind, row) \in EngineRecords
         /\ Inserts(e, applyCreate(e, kind, row), kind, NewRow(kind, e.next, row))
  <1> USE DEF Inserts
  <1> DEFINE r == NewRow(kind, e.next, row)
             in == Inserted(e)
             f == applyCreate(e, kind, row)
  <1>1. e.next \in Nat BY DEF EngineRecords
  <1>2. /\ in \in EngineRecords /\ in.next = e.next + 1
        /\ in.contacts = e.contacts /\ in.companies = e.companies /\ in.deals = e.deals
        /\ in.objects = e.objects /\ in.timeline = e.timeline
        /\ in.seen = e.seen /\ in.outcomes = e.outcomes
    BY DEF EngineRecords, Inserted
  <1>3. CASE kind = "contact"
    <2>1. f = [in EXCEPT !.contacts = @ \cup {r}] BY <1>3 DEF applyCreate, NewRow
    <2>2. r \in ContactRecords BY <1>1, <1>3, NewRowIs
    <2> HIDE DEF r, in, f
    <2>3. /\ f \in EngineRecords /\ f.contacts = in.contacts \cup {r}
          /\ f.companies = in.companies /\ f.deals = in.deals /\ f.next = in.next
          /\ f.objects = in.objects /\ f.timeline = in.timeline
          /\ f.seen = in.seen /\ f.outcomes = in.outcomes
      BY <1>2, <2>1, <2>2 DEF EngineRecords
    <2> QED BY <1>2, <1>3, <2>3 DEF r, f
  <1>4. CASE kind = "company"
    <2>1. f = [in EXCEPT !.companies = @ \cup {r}] BY <1>4 DEF applyCreate, NewRow
    <2>2. r \in CompanyRecords BY <1>1, <1>4, NewRowIs
    <2> HIDE DEF r, in, f
    <2>3. /\ f \in EngineRecords /\ f.companies = in.companies \cup {r}
          /\ f.contacts = in.contacts /\ f.deals = in.deals /\ f.next = in.next
          /\ f.objects = in.objects /\ f.timeline = in.timeline
          /\ f.seen = in.seen /\ f.outcomes = in.outcomes
      BY <1>2, <2>1, <2>2 DEF EngineRecords
    <2> QED BY <1>2, <1>4, <2>3 DEF r, f
  <1>5. CASE kind = "deal"
    <2>1. f = [in EXCEPT !.deals = @ \cup {r}] BY <1>5 DEF applyCreate, NewRow
    <2>2. r \in DealRecords BY <1>1, <1>5, NewRowIs
    <2> HIDE DEF r, in, f
    <2>3. /\ f \in EngineRecords /\ f.deals = in.deals \cup {r}
          /\ f.contacts = in.contacts /\ f.companies = in.companies /\ f.next = in.next
          /\ f.objects = in.objects /\ f.timeline = in.timeline
          /\ f.seen = in.seen /\ f.outcomes = in.outcomes
      BY <1>2, <2>1, <2>2 DEF EngineRecords
    <2> QED BY <1>2, <1>5, <2>3 DEF r, f
  <1> QED BY <1>3, <1>4, <1>5 DEF RowTyped

(* The row an update leaves.                                                *)
Overlaid(r, id, row) ==
  IF r.id = id THEN [r EXCEPT !.name = row.name,
                              !.domain = IF row.domain = Blank THEN @ ELSE row.domain]
  ELSE r

LEMMA OverlaidIs ==
  ASSUME NEW r \in CompanyRecords, NEW id, NEW row \in CompanyRows
  PROVE  /\ Overlaid(r, id, row) \in CompanyRecords /\ Overlaid(r, id, row).id = r.id
         /\ r.id # id => Overlaid(r, id, row) = r
         /\ r.id = id => /\ Overlaid(r, id, row).name = row.name
                         /\ row.domain # Blank => Overlaid(r, id, row).domain = row.domain
                         /\ row.domain = Blank => Overlaid(r, id, row).domain = r.domain
  BY DEF Overlaid, CompanyRecords, CompanyRows

Overlays(e, f, kind, id, row) ==
  /\ f.next = e.next
  /\ f.objects = e.objects /\ f.timeline = e.timeline
  /\ f.seen = e.seen /\ f.outcomes = e.outcomes
  /\ f.contacts = e.contacts /\ f.deals = e.deals
  /\ f.companies = IF kind = "contact" THEN e.companies
                   ELSE {Overlaid(r, id, row) : r \in e.companies}

LEMMA ApplyUpdateIs ==
  ASSUME NEW e \in EngineRecords, NEW kind, kind \in {"contact", "company"}, NEW row,
         RowTyped(kind, row), NEW id
  PROVE  /\ applyUpdate(e, kind, id, row) \in EngineRecords
         /\ Overlays(e, applyUpdate(e, kind, id, row), kind, id, row)
  <1> USE DEF Overlays
  <1>1. CASE kind = "contact" BY <1>1 DEF applyUpdate
  <1>2. CASE kind = "company"
    <2> DEFINE new == {Overlaid(r, id, row) : r \in e.companies}
    <2>1. row \in CompanyRows BY <1>2 DEF RowTyped
    <2>2. e.companies \subseteq CompanyRecords BY DEF EngineRecords
    <2>3. new \in SUBSET CompanyRecords BY <2>1, <2>2, OverlaidIs
    <2>4. applyUpdate(e, kind, id, row) = [e EXCEPT !.companies = new]
      BY <1>2 DEF applyUpdate, Overlaid
    <2> HIDE DEF new
    <2>5. LET f == [e EXCEPT !.companies = new] IN
          /\ f \in EngineRecords /\ f.next = e.next
          /\ f.objects = e.objects /\ f.timeline = e.timeline
          /\ f.seen = e.seen /\ f.outcomes = e.outcomes
          /\ f.contacts = e.contacts /\ f.deals = e.deals /\ f.companies = new
      BY <2>3 DEF EngineRecords
    <2> QED BY <2>4, <2>5, <1>2 DEF new
  <1> QED BY <1>1, <1>2

(* What one row does to the tables.                                         *)
Untouched(e, f, kind, id) ==
  /\ f.timeline = e.timeline \cup {[on |-> id, stage |-> "unsaid"]}
  /\ \A o \in f.objects : o \in e.objects \/ o.on = id
  /\ kind = "company" => f.objects = e.objects
Updated(e, f, kind, id, row) ==
  /\ f.contacts = e.contacts /\ f.deals = e.deals
  /\ f.companies = IF kind = "contact" THEN e.companies
                   ELSE {Overlaid(r, id, row) : r \in e.companies}
  /\ f.next \in {e.next, e.next + 1}
  /\ Untouched(e, f, kind, id)
Created(e, f, kind, row) ==
  /\ f.contacts = IF kind = "contact" THEN e.contacts \cup {NewRow(kind, e.next, row)} ELSE e.contacts
  /\ f.companies = IF kind = "company" THEN e.companies \cup {NewRow(kind, e.next, row)} ELSE e.companies
  /\ f.deals = IF kind = "deal" THEN e.deals \cup {NewRow(kind, e.next, row)} ELSE e.deals
  /\ f.next \in {e.next + 1, e.next + 2}
  /\ Untouched(e, f, kind, e.next)

(* What one row is told.                                                    *)
Recognised(e, kind, row) == lookupMatch(e, kind, row) # {} \/ dedupeKey(kind, row) \cap e.seen # {}
Verdict(e, kind, policy, write, row) ==
  IF ~row.ok THEN "error"
  ELSE IF policy = "create" \/ ~Recognised(e, kind, row) THEN "create"
  ELSE IF policy = "skip" THEN "skip"
  ELSE IF write /\ lookupMatch(e, kind, row) = {} THEN "error"
  ELSE "update"

MatchingContacts(e, row) == {r \in e.contacts : row.email # NoEmail /\ r.email = row.email}
MatchingCompanies(e, row) == {r \in e.companies : SameFirm(r, row)}

LEMMA LookupIs ==
  ASSUME NEW e \in EngineRecords, NEW kind, NEW row, RowTyped(kind, row),
         lookupMatch(e, kind, row) # {}
  PROVE  LET id == Least(lookupMatch(e, kind, row)) IN
         /\ lookupMatch(e, kind, row) = {id} /\ id \in Nat
         /\ \/ kind = "contact" /\ id \in Ids(MatchingContacts(e, row))
            \/ kind = "company" /\ id \in Ids(MatchingCompanies(e, row))
  <1>1. ASSUME NEW T, Ids(T) \subseteq Nat, lookupMatch(e, kind, row) = Oldest(T)
        PROVE  LET id == Least(lookupMatch(e, kind, row)) IN
               lookupMatch(e, kind, row) = {id} /\ id \in Ids(T) /\ id \in Nat
    BY <1>1, OldestIs
  <1>2. CASE kind = "contact"
    <2>1. Ids(MatchingContacts(e, row)) \subseteq Nat
      BY DEF Ids, EngineRecords, ContactRecords, MatchingContacts
    <2>2. lookupMatch(e, kind, row) = Oldest(MatchingContacts(e, row))
      BY <1>2 DEF lookupMatch, MatchingContacts
    <2>3. LET id == Least(lookupMatch(e, kind, row)) IN
          lookupMatch(e, kind, row) = {id} /\ id \in Ids(MatchingContacts(e, row)) /\ id \in Nat
      BY <1>1, <2>1, <2>2
    <2> QED BY <1>2, <2>3
  <1>3. CASE kind = "company"
    <2>1. Ids(MatchingCompanies(e, row)) \subseteq Nat
      BY DEF Ids, EngineRecords, CompanyRecords, MatchingCompanies
    <2>2. lookupMatch(e, kind, row) = Oldest(MatchingCompanies(e, row))
      BY <1>3 DEF lookupMatch, MatchingCompanies
    <2> QED BY <1>1, <1>3, <2>1, <2>2
  <1>4. kind # "deal" BY DEF lookupMatch
  <1> QED BY <1>2, <1>3, <1>4 DEF RowTyped

(* What it notes: the row's key, if the row is in order, and its outcome.    *)
Notes(e, f, kind, row, outcome) ==
  /\ f.outcomes = Longer(e.outcomes, outcome)
  /\ f.seen = IF row.ok THEN e.seen \cup dedupeKey(kind, row) ELSE e.seen

LEMMA ClassifiedIs ==
  ASSUME NEW e \in EngineRecords, NEW kind, NEW policy \in Policies, NEW write \in BOOLEAN, NEW row,
         RowTyped(kind, row)
  PROVE  LET f == Classified(e, kind, policy, write, row)
             found == lookupMatch(e, kind, row)
             v == Verdict(e, kind, policy, write, row) IN
         /\ f \in EngineRecords /\ Notes(e, f, kind, row, v)
         /\ ~write \/ v \in {"error", "skip"} => Tables(e, f)
         /\ write /\ v = "update" =>
              found # {} /\ kind \in {"contact", "company"} /\ Updated(e, f, kind, Least(found), row)
         /\ write /\ v = "create" => Created(e, f, kind, row)
  <1> DEFINE f == Classified(e, kind, policy, write, row)
             found == lookupMatch(e, kind, row)
             v == Verdict(e, kind, policy, write, row)
             known == Noted(e, dedupeKey(kind, row))
             id == Least(found)
             updated == afterWrite(applyUpdate(known, kind, id, row), id, row)
             made == afterWrite(applyCreate(known, kind, row), e.next, row)
  <1>1. /\ known \in EngineRecords /\ Tables(e, known)
        /\ known.seen = e.seen \cup dedupeKey(kind, row) /\ known.outcomes = e.outcomes
    BY NotedIs, KeysAreTyped
  <1>2. f = IF ~row.ok THEN record(e, "error")
            ELSE IF policy # "create" /\ Recognised(e, kind, row) /\ policy = "skip" THEN record(known, "skip")
            ELSE IF policy # "create" /\ Recognised(e, kind, row) /\ policy = "update"
                 THEN IF ~write THEN record(known, "update")
                      ELSE IF found = {} THEN record(known, "error")
                      ELSE record(updated, "update")
            ELSE IF ~write THEN record(known, "create")
            ELSE record(made, "create")
    BY DEF Classified, Noted, Recognised
  <1> DEFINE Goal == /\ f \in EngineRecords /\ f.outcomes = Longer(e.outcomes, v)
                     /\ f.seen = IF row.ok THEN e.seen \cup dedupeKey(kind, row) ELSE e.seen
                     /\ ~write \/ v \in {"error", "skip"} => Tables(e, f)
                     /\ write /\ v = "update" =>
                          found # {} /\ kind \in {"contact", "company"}
                          /\ Updated(e, f, kind, Least(found), row)
                     /\ write /\ v = "create" => Created(e, f, kind, row)
  <1> SUFFICES Goal BY DEF Notes
  <1>3. e.next \in Nat BY DEF EngineRecords
  <1> HIDE DEF known, f
  <1>4. CASE ~row.ok
    <2>1. f = record(e, "error") /\ v = "error" BY <1>2, <1>4 DEF Verdict
    <2>2. f \in EngineRecords /\ Tables(e, f) /\ f.seen = e.seen /\ f.outcomes = Longer(e.outcomes, "error")
      BY <2>1, RecordIs DEF Outcomes
    <2> QED BY <2>1, <2>2, <1>4
  <1>5. ASSUME row.ok, f = record(known, v), v \in Outcomes, ~write \/ v \in {"error", "skip"}
        PROVE  Goal
    <2>1. f \in EngineRecords /\ Tables(known, f) /\ f.seen = known.seen
          /\ f.outcomes = Longer(known.outcomes, v)
      BY <1>1, <1>5, RecordIs
    <2>2. Tables(e, f) BY <1>1, <2>1 DEF Tables
    <2> QED BY <1>1, <1>5, <2>1, <2>2
  <1>6. CASE row.ok /\ write /\ v = "update"
    <2>1. found # {} /\ f = record(updated, "update") BY <1>2, <1>6 DEF Verdict, Policies
    <2>2. kind \in {"contact", "company"} /\ id \in Nat BY <2>1, LookupIs
    <2> DEFINE g == applyUpdate(known, kind, id, row)
    <2> HIDE DEF id
    <2>3. g \in EngineRecords /\ Overlays(known, g, kind, id, row)
      BY <1>1, <2>2, ApplyUpdateIs
    <2>4. updated = afterWrite(g, id, row) BY DEF id
    <2> HIDE DEF g, updated
    <2>5. updated \in EngineRecords /\ TellsOf(g, updated, kind, id)
      BY <2>2, <2>3, <2>4, AfterWriteIs
    <2>6. /\ f \in EngineRecords /\ Tables(updated, f) /\ f.seen = updated.seen
          /\ f.outcomes = Longer(updated.outcomes, "update")
      BY <2>1, <2>5, RecordIs DEF Outcomes
    <2>7. Updated(e, f, kind, id, row)
      BY <1>1, <2>3, <2>5, <2>6 DEF Tables, Updated, Untouched, Overlays, TellsOf
    <2>8. f.seen = e.seen \cup dedupeKey(kind, row) /\ f.outcomes = Longer(e.outcomes, "update")
      BY <1>1, <2>3, <2>5, <2>6 DEF Overlays, TellsOf
    <2> QED BY <1>6, <2>1, <2>2, <2>6, <2>7, <2>8 DEF id
  <1>7. CASE row.ok /\ write /\ v = "create"
    <2>1. f = record(made, "create") BY <1>2, <1>7 DEF Verdict, Policies
    <2> DEFINE g == applyCreate(known, kind, row)
               r == NewRow(kind, known.next, row)
    <2>2. known.next = e.next BY <1>1 DEF Tables
    <2>3. g \in EngineRecords /\ Inserts(known, g, kind, r)
      BY <1>1, ApplyCreateIs
    <2>4. made = afterWrite(g, e.next, row) OBVIOUS
    <2>10. r = NewRow(kind, e.next, row) BY <2>2
    <2> HIDE DEF g, made, r
    <2>5. made \in EngineRecords /\ TellsOf(g, made, kind, e.next)
      BY <1>3, <2>3, <2>4, AfterWriteIs
    <2>6. /\ f \in EngineRecords /\ Tables(made, f) /\ f.seen = made.seen
          /\ f.outcomes = Longer(made.outcomes, "create")
      BY <2>1, <2>5, RecordIs DEF Outcomes
    <2>7. f.next \in {e.next + 1, e.next + 2} BY <1>1, <1>3, <2>3, <2>5, <2>6 DEF Tables, Inserts, TellsOf
    <2>9. Created(e, f, kind, row)
      BY <1>1, <2>3, <2>5, <2>6, <2>7, <2>10 DEF Tables, Created, Untouched, Inserts, TellsOf
    <2>8. f.seen = e.seen \cup dedupeKey(kind, row) /\ f.outcomes = Longer(e.outcomes, "create")
      BY <1>1, <2>3, <2>5, <2>6 DEF Inserts, TellsOf
    <2> QED BY <1>7, <2>6, <2>9, <2>8
  <1>8. ASSUME row.ok PROVE /\ v \in Outcomes
                            /\ ~write \/ v \in {"skip", "error"} => f = record(known, v)
    <2>1. v \in Outcomes BY DEF Verdict, Outcomes
    <2>2. CASE policy = "create" \/ ~Recognised(e, kind, row)
      <3>1. v = "create" BY <1>8, <2>2 DEF Verdict
      <3>2. ~write => f = record(known, "create") BY <1>2, <1>8, <2>2
      <3> QED BY <2>1, <3>1, <3>2
    <2>3. CASE policy = "skip" /\ Recognised(e, kind, row)
      <3>1. v = "skip" BY <1>8, <2>3 DEF Verdict
      <3>2. f = record(known, "skip") BY <1>2, <1>8, <2>3
      <3> QED BY <2>1, <3>1, <3>2
    <2>4. CASE policy = "update" /\ Recognised(e, kind, row) /\ write /\ found = {}
      <3>1. v = "error" BY <1>8, <2>4 DEF Verdict
      <3>2. f = record(known, "error") BY <1>2, <1>8, <2>4
      <3> QED BY <2>1, <3>1, <3>2
    <2>5. CASE policy = "update" /\ Recognised(e, kind, row) /\ ~(write /\ found = {})
      <3>1. v = "update" BY <1>8, <2>5 DEF Verdict
      <3>2. ~write => f = record(known, "update") BY <1>2, <1>8, <2>5
      <3> QED BY <2>1, <3>1, <3>2
    <2> QED BY <2>2, <2>3, <2>4, <2>5 DEF Policies
  <1> DEFINE Done == Goal
  <1>10. ~row.ok => Done BY <1>4
  <1>12. row.ok /\ write /\ v \in {"update", "create"} => Done
    BY <1>6, <1>7
  <1>11. row.ok /\ (~write \/ v \in {"skip", "error"}) => Done BY <1>5, <1>8
  <1> HIDE DEF Done, v
  <1>9. Done BY <1>8, <1>10, <1>11, <1>12 DEF Outcomes
  <1> QED BY <1>9 DEF Done

(* The tables as the file's rows have changed them so far: what was there   *)
(* is there, what is new has a new id and is told of, bags are put on       *)
(* contacts and deals only.                                                 *)
NewIds(e) == next..(e.next - 1)
Grown(kind, e) ==
  /\ e \in EngineRecords /\ e.next >= next
  /\ kind # "contact" => e.contacts = contacts
  /\ kind # "company" => e.companies = companies
  /\ contacts \subseteq e.contacts
  /\ \A r \in e.contacts : r \in contacts \/ r.id \in NewIds(e)
  /\ Ids(companies) \subseteq Ids(e.companies)
  /\ \A i \in Ids(e.companies) : i \in Ids(companies) \/ i \in NewIds(e)
  /\ kind # "deal" => e.deals = deals
  /\ deals \subseteq e.deals
  /\ \A d \in e.deals :
       \/ d \in deals
       \/ /\ d.id \in NewIds(e) /\ d.contact = 0 /\ d.company = 0
          /\ [on |-> d.id, stage |-> "unsaid"] \in e.timeline
  /\ \A o \in e.objects : o \in objects \/ o.on \in Ids(e.contacts) \cup Ids(e.deals)
  /\ timeline \subseteq e.timeline
  /\ \A x \in e.timeline :
       x \in timeline \/ (x.stage = "unsaid"
                          /\ x.on \in Ids(e.contacts) \cup Ids(e.companies) \cup Ids(e.deals))

LEMMA GrowthBegins ==
  ASSUME TablesOK, NEW kind PROVE Grown(kind, Engine)
  <1>1. Engine \in EngineRecords
    BY DEF TablesOK, Engine, EngineRecords
  <1>2. /\ Engine.contacts = contacts /\ Engine.companies = companies /\ Engine.deals = deals
        /\ Engine.objects = objects /\ Engine.timeline = timeline /\ Engine.next = next
    BY DEF Engine
  <1> HIDE DEF Engine
  <1> QED BY <1>1, <1>2 DEF Grown, EngineRecords

LEMMA SameTablesGrow ==
  ASSUME NEW kind, NEW e, Grown(kind, e), NEW f \in EngineRecords, Tables(e, f)
  PROVE  Grown(kind, f)
  BY DEF Grown, Tables, NewIds

LEMMA UpdatesGrow ==
  ASSUME next \in Nat, NEW kind, kind \in {"contact", "company"}, NEW row, RowTyped(kind, row), NEW e, Grown(kind, e),
         NEW f \in EngineRecords, NEW id, Updated(e, f, kind, id, row),
         id \in Ids(e.contacts) \cup Ids(e.companies),
         kind = "contact" => id \in Ids(e.contacts)
  PROVE  Grown(kind, f)
  <1>1. Ids(f.companies) = Ids(e.companies)
    <2>1. CASE kind = "contact" BY <2>1 DEF Updated
    <2>2. CASE kind = "company"
      <3>1. \A r \in e.companies : Overlaid(r, id, row).id = r.id
        BY <2>2, OverlaidIs DEF RowTyped, Grown, EngineRecords
      <3>2. f.companies = {Overlaid(r, id, row) : r \in e.companies} BY <2>2 DEF Updated
      <3> QED BY <3>1, <3>2 DEF Ids
    <2> QED BY <2>1, <2>2
  <1>2. f.next >= e.next /\ NewIds(e) \subseteq NewIds(f)
    BY DEF Updated, NewIds, Grown, EngineRecords
  <1>3. f.contacts = e.contacts /\ f.deals = e.deals /\ e.timeline \subseteq f.timeline
    BY DEF Updated, Untouched
  <1>4. \A x \in f.timeline :
          x \in timeline \/ (x.stage = "unsaid"
                             /\ x.on \in Ids(f.contacts) \cup Ids(f.companies) \cup Ids(f.deals))
    <2> DEFINE new == [on |-> id, stage |-> "unsaid"]
    <2>1. new.on = id /\ new.stage = "unsaid" OBVIOUS
    <2> HIDE DEF new
    <2>2. f.timeline = e.timeline \cup {new} BY DEF Updated, Untouched, new
    <2> QED BY <2>1, <2>2, <1>1, <1>3 DEF Grown
  <1>5. \A o \in f.objects : o \in objects \/ o.on \in Ids(f.contacts) \cup Ids(f.deals)
    BY <1>3 DEF Grown, Updated, Untouched
  <1>6. kind # "company" => f.companies = companies
    BY DEF Updated, Grown
  <1>7. f.next >= next BY <1>2 DEF Grown, EngineRecords
  <1> QED BY <1>1, <1>2, <1>3, <1>4, <1>5, <1>6, <1>7 DEF Grown

LEMMA CreationsGrow ==
  ASSUME next \in Nat, NEW kind, NEW row, RowTyped(kind, row), NEW e, Grown(kind, e),
         NEW f \in EngineRecords, Created(e, f, kind, row)
  PROVE  Grown(kind, f)
  <1> DEFINE r == NewRow(kind, e.next, row)
             new == [on |-> e.next, stage |-> "unsaid"]
  <1>0. e.next \in Nat /\ f.next \in Nat /\ e.next >= next /\ f.next > e.next
    BY DEF Grown, EngineRecords, Created
  <1>1. r.id = e.next /\ new.on = e.next /\ new.stage = "unsaid"
        /\ (kind = "deal" => r.contact = 0 /\ r.company = 0)
    BY <1>0, NewRowIs
  <1>2. /\ f.contacts = IF kind = "contact" THEN e.contacts \cup {r} ELSE e.contacts
        /\ f.companies = IF kind = "company" THEN e.companies \cup {r} ELSE e.companies
        /\ f.deals = IF kind = "deal" THEN e.deals \cup {r} ELSE e.deals
        /\ f.timeline = e.timeline \cup {new}
        /\ \A o \in f.objects : o \in e.objects \/ o.on = e.next
        /\ kind = "company" => f.objects = e.objects
    BY DEF Created, Untouched
  <1>3. \A d \in f.deals : d \in e.deals \/ (kind = "deal" /\ d.id = e.next /\ d.contact = 0 /\ d.company = 0
                                             /\ [on |-> d.id, stage |-> "unsaid"] \in f.timeline)
    BY <1>1, <1>2
  <1> HIDE DEF r, new
  <1>4. /\ e.next \in NewIds(f) /\ NewIds(e) \subseteq NewIds(f) /\ f.next >= next
    BY <1>0 DEF NewIds
  <1>5. /\ Ids(f.contacts) = IF kind = "contact" THEN Ids(e.contacts) \cup {e.next} ELSE Ids(e.contacts)
        /\ Ids(f.companies) = IF kind = "company" THEN Ids(e.companies) \cup {e.next} ELSE Ids(e.companies)
        /\ Ids(f.deals) = IF kind = "deal" THEN Ids(e.deals) \cup {e.next} ELSE Ids(e.deals)
    BY <1>1, <1>2 DEF Ids
  <1>6. e.next \in Ids(f.contacts) \cup Ids(f.companies) \cup Ids(f.deals)
        /\ (kind # "company" => e.next \in Ids(f.contacts) \cup Ids(f.deals))
    BY <1>5 DEF RowTyped
  <1>7. \A x \in f.timeline :
          x \in timeline \/ (x.stage = "unsaid"
                             /\ x.on \in Ids(f.contacts) \cup Ids(f.companies) \cup Ids(f.deals))
    BY <1>1, <1>2, <1>5, <1>6 DEF Grown
  <1>8. \A o \in f.objects : o \in objects \/ o.on \in Ids(f.contacts) \cup Ids(f.deals)
    BY <1>2, <1>5, <1>6 DEF Grown
  <1>9. /\ kind # "contact" => f.contacts = contacts
        /\ kind # "company" => f.companies = companies
        /\ kind # "deal" => f.deals = deals
        /\ contacts \subseteq f.contacts /\ Ids(companies) \subseteq Ids(f.companies)
        /\ deals \subseteq f.deals /\ timeline \subseteq f.timeline
    BY <1>2, <1>5 DEF Grown
  <1>10. \A x \in f.contacts : x \in contacts \/ x.id \in NewIds(f)
    BY <1>1, <1>2, <1>4 DEF Grown
  <1>11. \A i \in Ids(f.companies) : i \in Ids(companies) \/ i \in NewIds(f)
    BY <1>4, <1>5 DEF Grown
  <1>12. \A d \in f.deals :
           \/ d \in deals
           \/ /\ d.id \in NewIds(f) /\ d.contact = 0 /\ d.company = 0
              /\ [on |-> d.id, stage |-> "unsaid"] \in f.timeline
    BY <1>2, <1>3, <1>4 DEF Grown
  <1> QED BY <1>4, <1>7, <1>8, <1>9, <1>10, <1>11, <1>12 DEF Grown

LEMMA RowsGrow ==
  ASSUME TablesOK, NEW kind, NEW policy \in Policies, NEW write \in BOOLEAN, NEW row, RowTyped(kind, row),
         NEW e, Grown(kind, e)
  PROVE  Grown(kind, Classified(e, kind, policy, write, row))
  <1> DEFINE f == Classified(e, kind, policy, write, row)
             found == lookupMatch(e, kind, row)
             v == Verdict(e, kind, policy, write, row)
  <1>1. e \in EngineRecords /\ next \in Nat BY DEF Grown, TablesOK
  <1>2. /\ f \in EngineRecords
        /\ ~write \/ v \in {"error", "skip"} => Tables(e, f)
        /\ write /\ v = "update" =>
             found # {} /\ kind \in {"contact", "company"} /\ Updated(e, f, kind, Least(found), row)
        /\ write /\ v = "create" => Created(e, f, kind, row)
    BY <1>1, ClassifiedIs
  <1>3. v \in {"error", "skip", "update", "create"} BY DEF Verdict
  <1>4. found # {} => LET id == Least(found) IN
          /\ id \in Ids(e.contacts) \cup Ids(e.companies)
          /\ kind = "contact" => id \in Ids(e.contacts)
    <2>1. /\ Ids(MatchingContacts(e, row)) \subseteq Ids(e.contacts)
          /\ Ids(MatchingCompanies(e, row)) \subseteq Ids(e.companies)
      BY DEF Ids, MatchingContacts, MatchingCompanies
    <2> QED BY <1>1, <2>1, LookupIs
  <1> HIDE DEF f, found, v
  <1>5. CASE ~write \/ v \in {"error", "skip"} BY <1>2, <1>5, SameTablesGrow DEF f
  <1>6. CASE write /\ v = "update" BY <1>1, <1>2, <1>4, <1>6, UpdatesGrow DEF f
  <1>7. CASE write /\ v = "create" BY <1>1, <1>2, <1>7, CreationsGrow DEF f
  <1> QED BY <1>3, <1>5, <1>6, <1>7

LEMMA FilesGrow ==
  ASSUME TablesOK, NEW kind \in DOMAIN Files, NEW rows \in Files[kind], NEW policy \in Policies,
         NEW write \in BOOLEAN
  PROVE  /\ \A n \in 0..Len(rows) : Grown(kind, Engines(kind, policy, write, rows)[n])
         /\ Grown(kind, process(kind, policy, write, rows))
  <1> DEFINE e == Engines(kind, policy, write, rows)
             Bad == {n \in Nat : n \in 0..Len(rows) /\ ~Grown(kind, e[n])}
  <1>1. /\ e[0] = Engine
        /\ \A n \in 1..Len(rows) : e[n] = Classified(e[n - 1], kind, policy, write, rows[n])
        /\ process(kind, policy, write, rows) = e[Len(rows)]
    BY FileRows, EnginesIs
  <1>2. Len(rows) \in Nat /\ \A n \in 1..Len(rows) : RowTyped(kind, rows[n]) BY FileRows
  <1> HIDE DEF e
  <1>3. ASSUME Bad # {} PROVE FALSE
    <2>1. PICK n \in Bad : \A k \in Bad : n <= k BY <1>3, LeastExists
    <2>2. n # 0 BY <1>1, <2>1, GrowthBegins
    <2>3. n - 1 \in 0..Len(rows) /\ n \in 1..Len(rows) /\ n - 1 \notin Bad BY <1>2, <2>1, <2>2
    <2>4. Grown(kind, e[n - 1]) BY <2>3
    <2>5. Grown(kind, Classified(e[n - 1], kind, policy, write, rows[n]))
      BY <1>2, <2>3, <2>4, RowsGrow
    <2> QED BY <1>1, <2>1, <2>3, <2>5
  <1>4. \A n \in 0..Len(rows) : Grown(kind, e[n]) BY <1>2, <1>3
  <1> QED BY <1>1, <1>2, <1>4 DEF e
-----------------------------------------------------------------------------
(* Types                                                                    *)

LEMMA TurnsTyped ==
  ASSUME HttpOK, NEW c \in Clients, NEW q, Turns(c, q), HttpTyped(q)
  PROVE  HttpOK'
  BY TurnsIs DEF HttpOK, HttpTyped

LEMMA AnswersTyped ==
  ASSUME HttpOK, NEW c \in Clients, Answers(c) PROVE HttpOK'
  BY TurnsTyped, QuietTyped DEF Answers

LEMMA NothingTyped ==
  ASSUME TablesOK, Nothing, UNCHANGED mappings PROVE TablesOK'
  BY DEF TablesOK, Nothing, records, beside, books

LEMMA AuditTyped ==
  ASSUME TablesOK, NEW event, NEW id \in Nat, EmitAudit(event, id)
  PROVE  \A e \in trail' : e[2] \in Nat
  <1>1. <<event, id>>[2] = id OBVIOUS
  <1> QED BY <1>1 DEF TablesOK, EmitAudit

LEMMA ActivityTyped ==
  ASSUME TablesOK, NEW on \in Nat, NEW stage \in Stages \cup {"none", "unsaid"}, EmitActivity(on, stage)
  PROVE  timeline' \subseteq Activities
  BY DEF TablesOK, EmitActivity, Activities

LEMMA MintsTyped ==
  ASSUME TablesOK, Mints PROVE next \in Nat /\ next' \in 1..(MaxRecords + 1)
  BY CrmBoundsAssumption DEF TablesOK, Mints

LEMMA KnownTyped ==
  ASSUME TablesOK
  PROVE  /\ Ids(contacts) \subseteq Nat /\ Ids(companies) \subseteq Nat /\ Ids(deals) \subseteq Nat
         /\ Known \subseteq Nat /\ Hooks \subseteq Nat /\ next \in Nat
  BY CrmBoundsAssumption DEF TablesOK, Ids, Known, Hooks, ContactRecords, CompanyRecords, DealRecords

LEMMA InputsTyped ==
  ASSUME TablesOK
  PROVE  /\ ContactInputs \subseteq [email : Emails \cup {NoEmail}, company : Nat]
         /\ DealInputs \subseteq [contact : Nat, company : Nat, stage : Stages]
         /\ CompanyInputs = [name : Names \cup {Blank}, domain : {Blank}]
         /\ Targets \subseteq Nat
  BY KnownTyped DEF ContactInputs, DealInputs, CompanyInputs, Targets

LEMMA ContactTables ==
  ASSUME TablesOK, NEW in \in [email : Emails \cup {NoEmail}, company : Nat], NEW id \in Nat
  PROVE  /\ insertContact(in) => contacts' \subseteq ContactRecords
         /\ setContact(id, in) => contacts' \subseteq ContactRecords
         /\ dropContact(id) => contacts' \subseteq ContactRecords /\ deals' \subseteq DealRecords
  <1>1. next \in Nat BY KnownTyped
  <1>2. insertContact(in) => contacts' \subseteq ContactRecords
    BY <1>1 DEF TablesOK, insertContact, ContactRecords
  <1>3. setContact(id, in) => contacts' \subseteq ContactRecords
    BY DEF TablesOK, setContact, ContactRecords
  <1>4. dropContact(id) => contacts' \subseteq ContactRecords /\ deals' \subseteq DealRecords
    BY DEF TablesOK, dropContact, DealRecords
  <1> QED BY <1>2, <1>3, <1>4

LEMMA CompanyTables ==
  ASSUME TablesOK, NEW in \in [name : Names \cup {Blank}, domain : {Blank}], NEW id \in Nat
  PROVE  /\ insertCompany(in) => companies' \subseteq CompanyRecords
         /\ setCompany(id, in) => companies' \subseteq CompanyRecords
         /\ dropCompany(id) => /\ companies' \subseteq CompanyRecords
                               /\ contacts' \subseteq ContactRecords /\ deals' \subseteq DealRecords
  <1>1. next \in Nat BY KnownTyped
  <1>2. insertCompany(in) => companies' \subseteq CompanyRecords
    BY <1>1 DEF TablesOK, insertCompany, CompanyRecords
  <1>3. setCompany(id, in) => companies' \subseteq CompanyRecords
    BY DEF TablesOK, setCompany, CompanyRecords
  <1>4. dropCompany(id) => companies' \subseteq CompanyRecords /\ deals' \subseteq DealRecords
    BY DEF TablesOK, dropCompany, DealRecords
  <1>5. dropCompany(id) => contacts' \subseteq ContactRecords
    BY DEF TablesOK, dropCompany, ContactRecords
  <1> QED BY <1>2, <1>3, <1>4, <1>5

LEMMA DealTables ==
  ASSUME TablesOK, NEW in \in [contact : Nat, company : Nat, stage : Stages], NEW id \in Nat
  PROVE  /\ insertDeal(in) => deals' \subseteq DealRecords
         /\ setDeal(id, in) => deals' \subseteq DealRecords
         /\ dropDeal(id) => deals' \subseteq DealRecords
  <1>1. next \in Nat BY KnownTyped
  <1>2. insertDeal(in) => deals' \subseteq DealRecords
    <2> DEFINE r == [id |-> next, contact |-> in.contact, company |-> in.company,
                     stage |-> in.stage, closed |-> FALSE]
    <2>1. r \in DealRecords BY <1>1 DEF DealRecords
    <2> HIDE DEF r
    <2>2. insertDeal(in) => deals' = deals \cup {r} BY DEF insertDeal, r
    <2> QED BY <2>1, <2>2 DEF TablesOK
  <1>3. setDeal(id, in) => deals' \subseteq DealRecords
    BY DEF TablesOK, setDeal, DealRecords
  <1>4. dropDeal(id) => deals' \subseteq DealRecords
    BY DEF TablesOK, dropDeal
  <1> QED BY <1>2, <1>3, <1>4

LEMMA ContactOpsTyped ==
  ASSUME TablesOK, NEW id \in Nat, NEW in \in [email : Emails \cup {NoEmail}, company : Nat],
         UpdateContact(id, in) \/ DeleteContact(id), UNCHANGED mappings
  PROVE  TablesOK'
  <1>1. CASE UpdateContact(id, in)
    BY <1>1, NothingTyped, ContactTables, AuditTyped, ActivityTyped
    DEF UpdateContact, emitEntityActivity, TablesOK, beside
  <1>2. CASE DeleteContact(id)
    BY <1>2, NothingTyped, ContactTables, AuditTyped, ActivityTyped
    DEF DeleteContact, emitEntityActivity, TablesOK, beside
  <1> QED BY <1>1, <1>2

LEMMA CompanyOpsTyped ==
  ASSUME TablesOK, NEW id \in Nat, NEW in \in [name : Names \cup {Blank}, domain : {Blank}],
         UpdateCompany(id, in) \/ DeleteCompany(id), UNCHANGED mappings
  PROVE  TablesOK'
  <1>1. CASE UpdateCompany(id, in)
    BY <1>1, NothingTyped, CompanyTables, AuditTyped, ActivityTyped
    DEF UpdateCompany, emitEntityActivity, TablesOK, beside
  <1>2. CASE DeleteCompany(id)
    BY <1>2, NothingTyped, CompanyTables, AuditTyped, ActivityTyped
    DEF DeleteCompany, emitEntityActivity, TablesOK, beside
  <1> QED BY <1>1, <1>2

LEMMA DealOpsTyped ==
  ASSUME TablesOK, NEW id \in Nat, NEW in \in [contact : Nat, company : Nat, stage : Stages],
         UpdateDeal(id, in) \/ DeleteDeal(id), UNCHANGED mappings
  PROVE  TablesOK'
  <1>1. CASE UpdateDeal(id, in)
    BY <1>1, NothingTyped, DealTables, AuditTyped, ActivityTyped
    DEF UpdateDeal, emitEntityActivity, TablesOK, beside
  <1>2. CASE DeleteDeal(id)
    BY <1>2, NothingTyped, DealTables, AuditTyped, ActivityTyped
    DEF DeleteDeal, emitEntityActivity, TablesOK, beside
  <1> QED BY <1>1, <1>2

LEMMA CreationsTyped ==
  ASSUME TypeOK, NEW c \in Clients, UNCHANGED mappings,
         CreateContact(c) \/ CreateCompany(c) \/ CreateDeal(c) \/ TransitionDealStage(c)
  PROVE  TypeOK'
  <1>0. TablesOK /\ HttpOK /\ HttpTyped(http[c]) BY DEF TypeOK, HttpOK
  <1>1. HttpOK'
    BY <1>0, AnswersTyped DEF CreateContact, CreateCompany, CreateDeal, TransitionDealStage
  <1>2. CASE CreateContact(c)
    <2>1. http[c].in \in [email : Emails \cup {NoEmail}, company : Nat]
      BY <1>0, <1>2 DEF CreateContact, Continues, HttpTyped
    <2>2. TablesOK'
      BY <1>0, <1>2, <2>1, NothingTyped, ContactTables, AuditTyped, ActivityTyped, MintsTyped
      DEF CreateContact, emitEntityActivity, TablesOK, beside
    <2> QED BY <1>1, <2>2 DEF TypeOK
  <1>3. CASE CreateCompany(c)
    <2>1. http[c].in \in [name : Names \cup {Blank}, domain : {Blank}]
      BY <1>0, <1>3 DEF CreateCompany, Continues, HttpTyped
    <2>2. TablesOK'
      BY <1>0, <1>3, <2>1, CompanyTables, AuditTyped, ActivityTyped, MintsTyped
      DEF CreateCompany, emitEntityActivity, TablesOK, beside
    <2> QED BY <1>1, <2>2 DEF TypeOK
  <1>4. CASE CreateDeal(c)
    <2>1. http[c].in \in [contact : Nat, company : Nat, stage : Stages]
      BY <1>0, <1>4 DEF CreateDeal, Continues, HttpTyped
    <2>3. http[c].in.stage \in Stages BY <2>1
    <2>2. TablesOK'
      BY <1>0, <1>4, <2>1, <2>3, NothingTyped, DealTables, AuditTyped, ActivityTyped, MintsTyped
      DEF CreateDeal, emitEntityActivity, TablesOK, beside
    <2> QED BY <1>1, <2>2 DEF TypeOK
  <1>5. CASE TransitionDealStage(c)
    <2>1. http[c].stage \in Stages
      BY <1>0, <1>5 DEF TransitionDealStage, Continues, HttpTyped
    <2>2. CASE http[c].id \notin Ids(deals)
      BY <1>0, <1>1, <1>5, <2>2, NothingTyped DEF TransitionDealStage, TypeOK
    <2>3. CASE http[c].id \in Ids(deals)
      <3>1. http[c].id \in Nat BY <1>0, <2>3, KnownTyped
      <3>2. deals' \subseteq DealRecords
        BY <1>0, <1>5, <2>1, <2>3 DEF TransitionDealStage, setDealStage, TablesOK, DealRecords
      <3>3. timeline' \subseteq Activities
        BY <1>0, <1>5, <2>1, <2>3, <3>1, ActivityTyped DEF TransitionDealStage
      <3>4. UNCHANGED <<contacts, companies, notes, tasks, objects, trail, next>>
        BY <1>5, <2>3 DEF TransitionDealStage, beside
      <3> QED BY <1>0, <1>1, <3>2, <3>3, <3>4 DEF TypeOK, TablesOK
    <2> QED BY <2>2, <2>3
  <1> QED BY <1>2, <1>3, <1>4, <1>5

LEMMA PostTyped ==
  ASSUME TypeOK, NEW c \in Clients, NEW kind, NEW in, NEW k, Posts(c, kind, in, k), UNCHANGED mappings,
         \/ kind = "contact" /\ in \in [email : Emails \cup {NoEmail}, company : Nat]
         \/ kind = "company" /\ in \in [name : Names \cup {Blank}, domain : {Blank}]
         \/ kind = "deal" /\ in \in [contact : Nat, company : Nat, stage : Stages]
  PROVE  TypeOK'
  <1> DEFINE q == [pc |-> kind, in |-> in, key |-> k]
  <1>1. q.pc = kind /\ q.in = in OBVIOUS
  <1>2. Answers(c) \/ Turns(c, q) BY DEF Posts
  <1> HIDE DEF q
  <1>3. HttpTyped(q) BY <1>1 DEF HttpTyped, Merging
  <1>4. HttpOK' BY <1>2, <1>3, TurnsTyped, AnswersTyped DEF TypeOK
  <1> QED BY <1>4, NothingTyped DEF TypeOK, Posts

LEMMA RequestTyped ==
  ASSUME TypeOK, NEW c \in Clients, RecordWrites(c), UNCHANGED mappings
  PROVE  TypeOK'
  <1>0. TablesOK /\ HttpOK BY DEF TypeOK
  <1>1. CASE contactHandlers(c)
    <2>1. CASE \E in \in ContactInputs, k \in Keys \cup {NoKey} : Posts(c, "contact", in, k)
      BY <1>0, <2>1, PostTyped, InputsTyped
    <2>2. CASE \E id \in Targets, in \in ContactInputs : Begins(c) /\ Answers(c) /\ UpdateContact(id, in)
      BY <1>0, <2>2, InputsTyped, ContactOpsTyped, AnswersTyped DEF TypeOK
    <2>3. CASE \E id \in Targets : Begins(c) /\ Answers(c) /\ DeleteContact(id)
      <3>1. [email |-> NoEmail, company |-> 0] \in [email : Emails \cup {NoEmail}, company : Nat]
        OBVIOUS
      <3> QED BY <1>0, <2>3, <3>1, InputsTyped, ContactOpsTyped, AnswersTyped DEF TypeOK
    <2> QED BY <1>1, <2>1, <2>2, <2>3 DEF contactHandlers
  <1>2. CASE companyHandlers(c)
    <2>1. PICK in \in CompanyInputs :
            \/ \E k \in Keys \cup {NoKey} : Posts(c, "company", in, k)
            \/ \E id \in Targets :
                 Begins(c) /\ Answers(c) /\ (UpdateCompany(id, in) \/ DeleteCompany(id))
      BY <1>2 DEF companyHandlers
    <2>2. CASE \E k \in Keys \cup {NoKey} : Posts(c, "company", in, k)
      BY <1>0, <2>1, <2>2, PostTyped, InputsTyped
    <2>3. CASE \E id \in Targets :
                 Begins(c) /\ Answers(c) /\ (UpdateCompany(id, in) \/ DeleteCompany(id))
      BY <1>0, <2>1, <2>3, InputsTyped, CompanyOpsTyped, AnswersTyped DEF TypeOK
    <2> QED BY <2>1, <2>2, <2>3
  <1>3. CASE dealHandlers(c)
    <2>1. CASE \E in \in DealInputs, k \in Keys \cup {NoKey} : Posts(c, "deal", in, k)
      BY <1>0, <2>1, PostTyped, InputsTyped
    <2>2. CASE \E id \in Targets, in \in DealInputs : Begins(c) /\ Answers(c) /\ UpdateDeal(id, in)
      BY <1>0, <2>2, InputsTyped, DealOpsTyped, AnswersTyped DEF TypeOK
    <2>3. CASE \E id \in Targets : Begins(c) /\ Answers(c) /\ DeleteDeal(id)
      <3>1. [contact |-> 0, company |-> 0, stage |-> "closed"]
              \in [contact : Nat, company : Nat, stage : Stages]
        BY DEF Stages
      <3> QED BY <1>0, <2>3, <3>1, InputsTyped, DealOpsTyped, AnswersTyped DEF TypeOK
    <2> QED BY <1>3, <2>1, <2>2, <2>3 DEF dealHandlers
  <1>4. CASE PatchDealStage(c)
    <2>1. PICK id \in Ids(deals), s \in Stages : Turns(c, [pc |-> "moving", id |-> id, stage |-> s])
      BY <1>4 DEF PatchDealStage
    <2> DEFINE q == [pc |-> "moving", id |-> id, stage |-> s]
    <2>2. HttpTyped(q) BY DEF HttpTyped, Merging
    <2>3. Turns(c, q) BY <2>1
    <2> HIDE DEF q
    <2>4. HttpOK' BY <1>0, <2>2, <2>3, TurnsTyped
    <2> QED BY <1>0, <1>4, <2>4, NothingTyped DEF PatchDealStage, TypeOK
  <1> QED BY <1>1, <1>2, <1>3, <1>4, CreationsTyped DEF RecordWrites

LEMMA NotesTyped ==
  ASSUME TypeOK, NEW c \in Clients, NoteWrites(c), UNCHANGED mappings
  PROVE  TypeOK'
  <1>0. TablesOK /\ HttpOK /\ Hooks \subseteq Nat /\ next \in Nat BY KnownTyped DEF TypeOK
  <1>1. HttpOK'
    BY <1>0, AnswersTyped DEF NoteWrites, createNote, UpdateNote, DeleteNote, CreateTask, UpdateTask,
       ToggleTaskCompletion, DeleteTask
  <1>2. UNCHANGED <<contacts, companies, deals, objects>>
    BY DEF NoteWrites, createNote, UpdateNote, DeleteNote, CreateTask, UpdateTask,
       ToggleTaskCompletion, DeleteTask, records, beside
  <1>3. notes' \subseteq NoteRecords /\ tasks' \subseteq TaskRecords
    <2>1. CASE createNote(c)
      BY <1>0, <2>1 DEF createNote, insertNote, NoteRecords, TablesOK
    <2>2. CASE UpdateNote(c) \/ DeleteNote(c)
      BY <1>0, <2>2 DEF UpdateNote, DeleteNote, TablesOK, beside
    <2>3. CASE CreateTask(c)
      <3>1. PICK on \in Hooks \cup {0} : insertTask(on) BY <2>3 DEF CreateTask
      <3> DEFINE t == [id |-> next, on |-> on, done |-> FALSE]
      <3>2. t \in TaskRecords BY <1>0 DEF TaskRecords
      <3> HIDE DEF t
      <3>3. tasks' = tasks \cup {t} BY <3>1 DEF insertTask, t
      <3> QED BY <1>0, <2>3, <3>2, <3>3 DEF CreateTask, TablesOK
    <2>4. CASE UpdateTask(c)
      <3>1. PICK t \in tasks, on \in Hooks : tasks' = (tasks \ {t}) \cup {[t EXCEPT !.on = on]}
        BY <2>4 DEF UpdateTask, SetTask
      <3>2. [t EXCEPT !.on = on] \in TaskRecords BY <1>0 DEF TablesOK, TaskRecords
      <3> QED BY <1>0, <2>4, <3>1, <3>2 DEF UpdateTask, TablesOK
    <2>5. CASE ToggleTaskCompletion(c)
      <3>1. PICK t \in tasks : tasks' = (tasks \ {t}) \cup {[t EXCEPT !.done = ~@]}
        BY <2>5 DEF ToggleTaskCompletion, SetTask
      <3>2. [t EXCEPT !.done = ~@] \in TaskRecords BY <1>0 DEF TablesOK, TaskRecords
      <3> QED BY <1>0, <2>5, <3>1, <3>2 DEF ToggleTaskCompletion, TablesOK
    <2>6. CASE DeleteTask(c)
      BY <1>0, <2>6 DEF DeleteTask, SetTask, TablesOK
    <2> QED BY <2>1, <2>2, <2>3, <2>4, <2>5, <2>6 DEF NoteWrites
  <1>4. /\ \A e \in trail' : e[2] \in Nat
        /\ timeline' \subseteq Activities /\ next' \in 1..(MaxRecords + 1)
    <2>0. \A event : \A id \in Nat : EmitAudit(event, id) => \A e \in trail' : e[2] \in Nat
      BY <1>0, AuditTyped
    <2>1. (\A n \in notes : n.id \in Nat) /\ (\A t \in tasks : t.id \in Nat)
      BY <1>0 DEF TablesOK, NoteRecords, TaskRecords
    <2>2. CASE createNote(c)
      BY <1>0, <2>0, <2>2, MintsTyped, ActivityTyped DEF createNote
    <2>3. CASE CreateTask(c)
      BY <1>0, <2>0, <2>3, MintsTyped DEF CreateTask, TablesOK
    <2>4. CASE UpdateNote(c)
      BY <1>0, <2>0, <2>1, <2>4 DEF UpdateNote, TablesOK
    <2>5. CASE DeleteNote(c)
      BY <1>0, <2>0, <2>1, <2>5 DEF DeleteNote, TablesOK
    <2>6. CASE UpdateTask(c)
      BY <1>0, <2>0, <2>1, <2>6 DEF UpdateTask, TablesOK
    <2>7. CASE ToggleTaskCompletion(c)
      BY <1>0, <2>0, <2>1, <2>7 DEF ToggleTaskCompletion, TablesOK
    <2>8. CASE DeleteTask(c)
      BY <1>0, <2>0, <2>1, <2>8 DEF DeleteTask, TablesOK
    <2> QED BY <2>2, <2>3, <2>4, <2>5, <2>6, <2>7, <2>8 DEF NoteWrites
  <1> QED BY <1>0, <1>1, <1>2, <1>3, <1>4 DEF TypeOK, TablesOK

LEMMA MovedTyped ==
  ASSUME TablesOK, NEW those, NEW to \in Nat
  PROVE  /\ Moved(notes, those, to) \subseteq NoteRecords
         /\ Moved(tasks, those, to) \subseteq TaskRecords
         /\ Moved(timeline, those, to) \subseteq Activities
  <1>1. Moved(notes, those, to) \subseteq NoteRecords BY DEF TablesOK, Moved, NoteRecords
  <1>2. Moved(tasks, those, to) \subseteq TaskRecords BY DEF TablesOK, Moved, TaskRecords
  <1>3. Moved(timeline, those, to) \subseteq Activities BY DEF TablesOK, Moved, Activities
  <1> QED BY <1>1, <1>2, <1>3

LEMMA TheIs ==
  ASSUME NEW T, NEW id \in Ids(T)
  PROVE  The(T, id) \in T /\ The(T, id).id = id
  BY DEF Ids, The

LEMMA LoadTyped ==
  ASSUME TypeOK, NEW c \in Clients, NEW T, T = contacts \/ T = companies, LoadMerge(c, T)
  PROVE  HttpOK'
  <1>0. HttpOK /\ TablesOK /\ Ids(T) \subseteq Nat BY KnownTyped DEF TypeOK
  <1>1. PICK s, l \in http[c].pair :
          /\ s # l
          /\ IF {s, l} \subseteq Ids(T)
             THEN \E pick \in {The(T, s), The(T, l)} :
                    Turns(c, [pc |-> "loaded", survivor |-> s, loser |-> l, row |-> [pick EXCEPT !.id = s]])
             ELSE Answers(c)
    BY DEF LoadMerge
  <1>2. CASE {s, l} \subseteq Ids(T)
    <2>1. PICK pick \in T :
            Turns(c, [pc |-> "loaded", survivor |-> s, loser |-> l, row |-> [pick EXCEPT !.id = s]])
      BY <1>1, <1>2, TheIs
    <2> DEFINE row == [pick EXCEPT !.id = s]
    <2>2. s \in Nat /\ l \in Nat BY <1>0, <1>2
    <2>3. row \in ContactRecords \cup CompanyRecords /\ row.id = s
      <3>1. CASE T = contacts
        <4>1. pick \in ContactRecords BY <1>0, <3>1 DEF TablesOK
        <4> QED BY <4>1, <2>2 DEF ContactRecords
      <3>2. CASE T = companies
        <4>1. pick \in CompanyRecords BY <1>0, <3>2 DEF TablesOK
        <4> QED BY <4>1, <2>2 DEF CompanyRecords
      <3> QED BY <3>1, <3>2
    <2> DEFINE q == [pc |-> "loaded", survivor |-> s, loser |-> l, row |-> row]
    <2>4. Turns(c, q) BY <2>1
    <2>5. q.pc = "loaded" /\ q.survivor = s /\ q.loser = l /\ q.row = row OBVIOUS
    <2> HIDE DEF row, q
    <2>6. HttpTyped(q) BY <1>1, <2>2, <2>3, <2>5 DEF HttpTyped, Merging
    <2> QED BY <1>0, <2>4, <2>6, TurnsTyped
  <1>3. CASE ~({s, l} \subseteq Ids(T))
    BY <1>0, <1>1, <1>3, AnswersTyped
  <1> QED BY <1>2, <1>3

LEMMA RepointTyped ==
  ASSUME TypeOK, NEW c \in Clients, RepointMerge(c)
  PROVE  HttpOK'
  <1>0. HttpOK /\ HttpTyped(http[c]) BY DEF TypeOK, HttpOK
  <1>1. http[c].pc = "loaded" BY DEF RepointMerge, Continues
  <1>2. ASSUME NEW h, NEW ds, NEW st, NEW lk,
               Turns(c, [pc |-> "repointed", survivor |-> http[c].survivor, loser |-> http[c].loser,
                         row |-> http[c].row, hung |-> h, deals |-> ds, staff |-> st, locked |-> lk])
        PROVE  HttpOK'
    <2> DEFINE q == [pc |-> "repointed", survivor |-> http[c].survivor, loser |-> http[c].loser,
                     row |-> http[c].row, hung |-> h, deals |-> ds, staff |-> st, locked |-> lk]
    <2>1. Turns(c, q) BY <1>2
    <2>2. q.pc = "repointed" /\ q.survivor = http[c].survivor /\ q.loser = http[c].loser
          /\ q.row = http[c].row
      OBVIOUS
    <2> HIDE DEF q
    <2>3. HttpTyped(q) BY <1>0, <1>1, <2>2 DEF HttpTyped, Merging
    <2> QED BY <1>0, <2>1, <2>3, TurnsTyped
  <1>3. Answers(c) => HttpOK' BY <1>0, AnswersTyped
  <1> QED BY <1>2, <1>3, Zenon DEF RepointMerge

LEMMA MergesTyped ==
  ASSUME TypeOK, NEW c \in Clients, MergeContacts(c) \/ MergeCompanies(c), UNCHANGED mappings
  PROVE  TypeOK'
  <1>0. HttpOK /\ TablesOK /\ HttpTyped(http[c]) /\ http[c].pc = "repointed"
    BY DEF TypeOK, HttpOK, MergeContacts, MergeCompanies, Merged, Continues
  <1> DEFINE q == http[c]
  <1>1. q.survivor \in Nat /\ q.loser \in Nat /\ q.row \in ContactRecords \cup CompanyRecords
    BY <1>0 DEF HttpTyped, Merging
  <1>2. Merged(c, q) BY DEF MergeContacts, MergeCompanies
  <1> HIDE DEF q
  <1>3. HttpOK' BY <1>0, <1>2, AnswersTyped DEF Merged
  <1>4. /\ notes' \subseteq NoteRecords /\ tasks' \subseteq TaskRecords /\ timeline' \subseteq Activities
        /\ \A e \in trail' : e[2] \in Nat
    BY <1>0, <1>1, <1>2, MovedTyped, AuditTyped DEF Merged, Hung
  <1>5. next' = next BY <1>2 DEF Merged
  <1>6. CASE MergeContacts(c)
    <2>1. q.row \in ContactRecords /\ contacts' = Settled(contacts, q) /\ companies' = companies
          /\ objects' \subseteq objects
          /\ deals' = {[d EXCEPT !.contact = IF d.id \in q.deals THEN q.survivor
                                            ELSE IF @ = q.loser THEN 0 ELSE @] : d \in deals}
      BY <1>1, <1>6 DEF MergeContacts, CompanyRecords, q
    <2>2. contacts' \subseteq ContactRecords BY <1>0, <2>1 DEF Settled, TablesOK
    <2>3. deals' \subseteq DealRecords BY <1>0, <1>1, <2>1 DEF TablesOK, DealRecords
    <2> QED BY <1>0, <1>3, <1>4, <1>5, <2>1, <2>2, <2>3 DEF TypeOK, TablesOK
  <1>7. CASE MergeCompanies(c)
    <2>1. q.row \in CompanyRecords /\ companies' = Settled(companies, q) /\ objects' = objects
          /\ contacts' = {[r EXCEPT !.company = IF r.id \in q.staff THEN q.survivor
                                                  ELSE IF @ = q.loser THEN 0 ELSE @] : r \in contacts}
          /\ deals' = {[d EXCEPT !.company = IF d.id \in q.deals THEN q.survivor
                                            ELSE IF @ = q.loser THEN 0 ELSE @] : d \in deals}
      BY <1>1, <1>7 DEF MergeCompanies, ContactRecords, q
    <2>2. companies' \subseteq CompanyRecords BY <1>0, <2>1 DEF Settled, TablesOK
    <2>3. deals' \subseteq DealRecords BY <1>0, <1>1, <2>1 DEF TablesOK, DealRecords
    <2>4. contacts' \subseteq ContactRecords BY <1>0, <1>1, <2>1 DEF TablesOK, ContactRecords
    <2> QED BY <1>0, <1>3, <1>4, <1>5, <2>1, <2>2, <2>3, <2>4 DEF TypeOK, TablesOK
  <1> QED BY <1>6, <1>7

LEMMA DedupTyped ==
  ASSUME TypeOK, DedupStep PROVE TypeOK'
  <1>0. HttpOK /\ TablesOK /\ UNCHANGED mappings BY DEF TypeOK, DedupStep, connectorVars
  <1> PICK c \in Clients :
        \/ ListDuplicates(c) \/ markDistinct(c)
        \/ LoadMerge(c, contacts) \/ LoadMerge(c, companies)
        \/ RepointMerge(c) \/ MergeContacts(c) \/ MergeCompanies(c) \/ RolledBack(c)
    BY DEF DedupStep, DedupNext
  <1>1. CASE ListDuplicates(c)
    <2>1. PICK p : Turns(c, [pc |-> "reviewing", pair |-> p]) BY <1>1 DEF ListDuplicates
    <2> DEFINE q == [pc |-> "reviewing", pair |-> p]
    <2>2. HttpTyped(q) BY DEF HttpTyped, Merging
    <2>3. Turns(c, q) BY <2>1
    <2> HIDE DEF q
    <2> QED BY <1>0, <1>1, <2>2, <2>3, TurnsTyped, NothingTyped DEF ListDuplicates, TypeOK
  <1>2. CASE LoadMerge(c, contacts) \/ LoadMerge(c, companies)
    BY <1>0, <1>2, LoadTyped, NothingTyped DEF LoadMerge, TypeOK
  <1>3. CASE RepointMerge(c)
    BY <1>0, <1>3, RepointTyped, NothingTyped DEF RepointMerge, TypeOK
  <1>4. CASE MergeContacts(c) \/ MergeCompanies(c) BY <1>0, <1>4, MergesTyped
  <1>5. CASE markDistinct(c) \/ RolledBack(c)
    BY <1>0, <1>5, AnswersTyped, NothingTyped DEF markDistinct, RolledBack, TypeOK
  <1> QED BY <1>1, <1>2, <1>3, <1>4, <1>5

LEMMA ImportTyped ==
  ASSUME TypeOK, ImportStep PROVE TypeOK'
  <1>0. HttpOK /\ TablesOK /\ UNCHANGED mappings BY DEF TypeOK, ImportStep, connectorVars
  <1> PICK c \in Clients : ImportPreview(c) \/ ImportCommit(c) \/ Cancel(c)
    BY DEF ImportStep, ImportNext
  <1>1. CASE ImportPreview(c)
    <2>1. PICK kind \in DOMAIN Files, policy \in Policies : \E rows \in Files[kind] :
            Turns(c, [pc |-> "previewed", kind |-> kind, policy |-> policy, rows |-> rows,
                      told |-> process(kind, policy, FALSE, rows).outcomes,
                      base |-> <<contacts, companies>>])
      BY <1>1 DEF ImportPreview
    <2>2. PICK rows \in Files[kind] :
            Turns(c, [pc |-> "previewed", kind |-> kind, policy |-> policy, rows |-> rows,
                      told |-> process(kind, policy, FALSE, rows).outcomes,
                      base |-> <<contacts, companies>>])
      BY <2>1
    <2> DEFINE q == [pc |-> "previewed", kind |-> kind, policy |-> policy, rows |-> rows,
                     told |-> process(kind, policy, FALSE, rows).outcomes,
                     base |-> <<contacts, companies>>]
    <2>3. q.pc = "previewed" /\ q.kind = kind /\ q.policy = policy /\ q.rows = rows OBVIOUS
    <2>4. Turns(c, q) BY <2>2
    <2> HIDE DEF q
    <2>5. HttpTyped(q) BY <2>3 DEF HttpTyped, Merging
    <2> QED BY <1>0, <1>1, <2>4, <2>5, TurnsTyped, NothingTyped DEF ImportPreview, TypeOK
  <1>2. CASE ImportCommit(c)
    <2> DEFINE e == process(http[c].kind, http[c].policy, TRUE, http[c].rows)
    <2>1. /\ http[c].kind \in DOMAIN Files /\ http[c].policy \in Policies
          /\ http[c].rows \in Files[http[c].kind]
      BY <1>0, <1>2 DEF ImportCommit, Continues, HttpOK, HttpTyped
    <2>2. e \in EngineRecords /\ e.next >= next BY <1>0, <2>1, FilesGrow DEF Grown
    <2>3. /\ e.next <= MaxRecords + 1
          /\ contacts' = e.contacts /\ companies' = e.companies /\ deals' = e.deals
          /\ objects' = e.objects /\ timeline' = e.timeline /\ next' = e.next
          /\ EmitAudit("import.committed", 0) /\ UNCHANGED <<notes, tasks>> /\ Answers(c)
      BY <1>2 DEF ImportCommit
    <2> HIDE DEF e
    <2>4. HttpOK' BY <1>0, <2>3, AnswersTyped
    <2>5. \A x \in trail' : x[2] \in Nat BY <1>0, <2>3, AuditTyped
    <2>6. next' \in 1..(MaxRecords + 1)
      BY <1>0, <2>2, <2>3, CrmBoundsAssumption DEF TablesOK, EngineRecords
    <2> QED BY <1>0, <2>2, <2>3, <2>4, <2>5, <2>6 DEF TypeOK, TablesOK, EngineRecords
  <1>3. CASE Cancel(c)
    BY <1>0, <1>3, AnswersTyped, NothingTyped DEF Cancel, TypeOK
  <1> QED BY <1>1, <1>2, <1>3

LEMMA EventIs ==
  ASSUME NEW ev \in Events
  PROVE  /\ ev.kind \in {"enriched"} \cup DOMAIN Invitation /\ ev.email \in Emails \cup {NoEmail}
         /\ ev.kind # "enriched" => Invitation[ev.kind].stage \in Stages \cup {""}
                                    /\ Invitation[ev.kind].closing \in BOOLEAN
  <1>1. \A k \in DOMAIN Invitation :
          Invitation[k].stage \in Stages \cup {""} /\ Invitation[k].closing \in BOOLEAN
    <2>1. DOMAIN Invitation = {"created", "sent", "opened", "claimed", "expired", "replied"}
      BY DEF Invitation
    <2>2. /\ Invitation["created"].stage = "discovery" /\ Invitation["sent"].stage = "proposal"
          /\ Invitation["opened"].stage = "" /\ Invitation["claimed"].stage = "closed"
          /\ Invitation["expired"].stage = "closed" /\ Invitation["replied"].stage = ""
      BY DEF Invitation
    <2>3. \A k \in DOMAIN Invitation : Invitation[k].stage \in Stages \cup {""}
      BY <2>1, <2>2 DEF Stages
    <2>4. /\ Invitation["created"].closing \in BOOLEAN /\ Invitation["sent"].closing \in BOOLEAN
          /\ Invitation["opened"].closing \in BOOLEAN /\ Invitation["claimed"].closing \in BOOLEAN
          /\ Invitation["expired"].closing \in BOOLEAN /\ Invitation["replied"].closing \in BOOLEAN
      BY DEF Invitation
    <2>5. \A k \in DOMAIN Invitation : Invitation[k].closing \in BOOLEAN
      BY <2>1, <2>4, Zenon
    <2> QED BY <2>3, <2>5
  <1>2. ev.kind \in {"enriched"} \cup DOMAIN Invitation /\ ev.email \in Emails \cup {NoEmail}
    BY DEF Events
  <1> QED BY <1>1, <1>2

LEMMA ByUrlIs ==
  ASSUME TablesOK, NEW url
  PROVE  ByUrl(url) \subseteq Nat /\ \A i, j \in ByUrl(url) : i = j
  <1> DEFINE T == Mapped(url)
  <1>1. Ids(T) \subseteq Nat BY DEF TablesOK, Mapped, Ids
  <1>2. ByUrl(url) = Oldest(T) BY DEF ByUrl
  <1>3. \A i, j \in Oldest(T) : i = j BY DEF Oldest
  <1> HIDE DEF T
  <1> QED BY <1>1, <1>2, <1>3, OldestIs

LEMMA ByEmailIs ==
  ASSUME TablesOK, NEW email
  PROVE  /\ ByEmail(email) \subseteq Ids(contacts) /\ ByEmail(email) \subseteq Nat
         /\ \A i, j \in ByEmail(email) : i = j
  <1> DEFINE T == {r \in contacts : email # NoEmail /\ r.email = email}
  <1>1. Ids(T) \subseteq Ids(contacts) /\ Ids(contacts) \subseteq Nat BY KnownTyped DEF Ids
  <1>2. ByEmail(email) = Oldest(T) BY DEF ByEmail
  <1> HIDE DEF T
  <1> QED BY <1>1, <1>2, OldestIs

LEMMA ResolveTyped ==
  ASSUME TypeOK, NEW c \in Clients, Resolve(c) PROVE TypeOK'
  <1>0. HttpOK /\ TablesOK /\ UNCHANGED mappings BY DEF TypeOK, Resolve
  <1> DEFINE ev == http[c].ev
             found == IF ev.kind = "enriched" THEN upsertConnectorContact(ev)
                      ELSE findOrCreateInvitationDeal(ev)
             contact == IF ev.kind = "enriched" THEN {} ELSE resolveCandidateContact(ev)
             q == [pc |-> "resolved", ev |-> ev, found |-> found, contact |-> contact]
  <1>1. Turns(c, q) BY DEF Resolve
  <1>2. q.pc = "resolved" /\ q.ev = ev /\ q.found = found /\ q.contact = contact OBVIOUS
  <1>3. ev \in Events BY <1>0 DEF Resolve, Continues, HttpOK, HttpTyped
  <1>4. found \subseteq Nat /\ contact \subseteq Nat /\ \A i, j \in contact : i = j
    <2>1. {m.id : m \in Mapped(ev.ext)} \subseteq Nat BY <1>0 DEF TablesOK, Mapped
    <2> QED BY <1>0, <2>1, ByEmailIs, ByUrlIs
            DEF upsertConnectorContact, findOrCreateInvitationDeal, resolveCandidateContact
  <1> HIDE DEF q, found, contact
  <1>5. HttpTyped(q) BY <1>2, <1>3, <1>4 DEF HttpTyped, Merging
  <1>6. HttpOK' BY <1>0, <1>1, <1>5, TurnsTyped
  <1> QED BY <1>0, <1>6, NothingTyped DEF Resolve, TypeOK

LEMMA MapTyped ==
  ASSUME TablesOK, NEW ext, NEW type, NEW id \in Nat, NEW linked, MapTo(ext, type, id, linked)
  PROVE  \A m \in mappings' : m.id \in Nat
  <1> DEFINE new == [ext |-> ext, type |-> type, id |-> id]
  <1>1. new.id = id OBVIOUS
  <1> HIDE DEF new
  <1>2. mappings' \subseteq mappings \cup {new} BY DEF MapTo, new
  <1> QED BY <1>1, <1>2 DEF TablesOK

LEMMA BagTyped ==
  ASSUME TablesOK, NEW id \in Nat, NEW key \in {"score", "follow_up"}, NEW n \in Nat, MergedBag(id, key, n)
  PROVE  objects' \subseteq BagRecords
  <1> DEFINE bag == [on |-> id, n |-> n, vals |-> BagOf(objects, id) \cup {key}]
  <1>1. BagOf(objects, id) \subseteq {"csv", "score", "follow_up"}
    BY DEF BagOf, On, TablesOK, BagRecords
  <1> HIDE DEF BagOf
  <1>2. bag \in BagRecords BY <1>1 DEF BagRecords
  <1> HIDE DEF bag
  <1>3. objects' \subseteq objects \cup {bag} BY DEF MergedBag, bag
  <1> QED BY <1>2, <1>3 DEF TablesOK

LEMMA ResolvedTyped ==
  ASSUME TypeOK, NEW c \in Clients, http[c].pc = "resolved"
  PROVE  LET q == http[c]
             id == IF q.found = {} THEN next ELSE Least(q.found) IN
         /\ q.ev \in Events /\ q.found \subseteq Nat /\ q.contact \subseteq Nat
         /\ id \in Nat /\ next \in Nat
         /\ q.found # {} => id \in q.found
         /\ Deal(q) \in DealRecords /\ Deal(q).id = next /\ Deal(q).company = 0
         /\ Deal(q).contact \in Ids(contacts) \cup {0}
  <1> DEFINE q == http[c]
  <1>1. q.ev \in Events /\ q.found \subseteq Nat /\ q.contact \subseteq Nat
    BY DEF TypeOK, HttpOK, HttpTyped
  <1>2. next \in Nat BY KnownTyped DEF TypeOK
  <1>3. q.found # {} => Least(q.found) \in q.found BY <1>1, LeastIs
  <1>4. q.contact # {} => Least(q.contact) \in q.contact BY <1>1, LeastIs
  <1> DEFINE i == IF q.contact \cap Ids(contacts) = {} THEN 0 ELSE Least(q.contact)
  <1>5. i \in Nat /\ i \in Ids(contacts) \cup {0}
    <2>1. \A j, k \in q.contact : j = k BY DEF TypeOK, HttpOK, HttpTyped
    <2> QED BY <1>1, <1>4, <2>1
  <1>6. Deal(q) = [id |-> next, company |-> 0, stage |-> "discovery", closed |-> FALSE, contact |-> i]
    BY DEF Deal
  <1> HIDE DEF i, q
  <1>7. /\ Deal(q) \in DealRecords /\ Deal(q).id = next /\ Deal(q).company = 0 /\ Deal(q).contact = i
    BY <1>2, <1>5, <1>6 DEF DealRecords, Stages
  <1> QED BY <1>1, <1>2, <1>3, <1>5, <1>7 DEF q

LEMMA EnrichedTyped ==
  ASSUME TypeOK, NEW c \in Clients, handleCandidateEnriched(c) PROVE TypeOK'
  <1> DEFINE q == http[c]
             ev == q.ev
             id == IF q.found = {} THEN next ELSE Least(q.found)
             minted == IF q.found = {} THEN 1 ELSE 0
  <1>0. HttpOK /\ TablesOK /\ q.pc = "resolved" BY DEF TypeOK, handleCandidateEnriched, Continues
  <1>1. ev \in Events /\ id \in Nat /\ next \in Nat /\ minted \in {0, 1}
    BY <1>0, ResolvedTyped
  <1>2. ev.email \in Emails \cup {NoEmail} BY <1>1, EventIs
  <1>3. /\ next' = next + minted + (IF ev.scored THEN 1 ELSE 0) /\ next' <= MaxRecords + 1
        /\ IF q.found = {}
           THEN /\ contacts' = contacts \cup {[id |-> id, email |-> ev.email, company |-> 0]}
                /\ MapTo(ev.ext, "contact", id, TRUE)
           ELSE /\ contacts' = {IF r.id = id /\ ev.email # NoEmail THEN [r EXCEPT !.email = ev.email]
                                ELSE r : r \in contacts}
                /\ UNCHANGED mappings
        /\ IF ev.scored THEN MergedBag(id, "score", next + minted) ELSE UNCHANGED objects
        /\ EmitAudit("enriched", id) /\ EmitActivity(id, "none")
        /\ UNCHANGED <<companies, deals, notes, tasks>> /\ Answers(c)
    BY DEF handleCandidateEnriched, emitEntityActivity
  <1> HIDE DEF q, ev, id, minted
  <1>4. HttpOK' BY <1>0, <1>3, AnswersTyped
  <1>5. (\A x \in trail' : x[2] \in Nat) /\ timeline' \subseteq Activities
    BY <1>0, <1>1, <1>3, AuditTyped, ActivityTyped
  <1>6. next' \in 1..(MaxRecords + 1)
    BY <1>0, <1>1, <1>3, CrmBoundsAssumption DEF TablesOK
  <1>7. objects' \subseteq BagRecords
    <2>1. next + minted \in Nat BY <1>1
    <2> QED BY <1>0, <1>1, <1>3, <2>1, BagTyped DEF TablesOK
  <1>8. contacts' \subseteq ContactRecords
    <2>1. CASE q.found = {}
      <3>1. [id |-> id, email |-> ev.email, company |-> 0] \in ContactRecords
        BY <1>1, <1>2 DEF ContactRecords
      <3> QED BY <1>0, <1>3, <2>1, <3>1 DEF TablesOK
    <2>2. CASE q.found # {}
      <3>1. \A r \in ContactRecords : [r EXCEPT !.email = ev.email] \in ContactRecords
        BY <1>2 DEF ContactRecords
      <3>2. contacts' = {IF r.id = id /\ ev.email # NoEmail THEN [r EXCEPT !.email = ev.email]
                         ELSE r : r \in contacts}
        BY <1>3, <2>2
      <3>3. contacts \subseteq ContactRecords BY <1>0 DEF TablesOK
      <3> QED BY <3>1, <3>2, <3>3
    <2> QED BY <2>1, <2>2
  <1>9. \A m \in mappings' : m.id \in Nat
    <2>1. CASE q.found = {} BY <1>0, <1>1, <1>3, <2>1, MapTyped
    <2>2. CASE q.found # {} BY <1>0, <1>3, <2>2 DEF TablesOK
    <2> QED BY <2>1, <2>2
  <1> QED BY <1>0, <1>3, <1>4, <1>5, <1>6, <1>7, <1>8, <1>9 DEF TypeOK, TablesOK

LEMMA TableTyped ==
  ASSUME TypeOK, NEW c \in Clients, http[c].pc = "resolved"
  PROVE  Table(http[c]) \subseteq DealRecords
  BY ResolvedTyped DEF Table, TypeOK, TablesOK

LEMMA FoundTyped ==
  ASSUME TypeOK, NEW c \in Clients, NEW id \in Nat, FindOrCreate(c, id)
  PROVE  \A m \in mappings' : m.id \in Nat
  <1>1. CASE http[c].found = {} BY <1>1, MapTyped DEF FindOrCreate, TypeOK
  <1>2. CASE http[c].found # {} BY <1>2 DEF FindOrCreate, TypeOK, TablesOK
  <1> QED BY <1>1, <1>2

LEMMA StageTyped ==
  ASSUME TypeOK, NEW c \in Clients, handleInvitationStage(c) PROVE TypeOK'
  <1> DEFINE q == http[c]
             id == IF q.found = {} THEN next ELSE Least(q.found)
             target == Invitation[q.ev.kind]
  <1>0. HttpOK /\ TablesOK /\ q.pc = "resolved" BY DEF TypeOK, handleInvitationStage, Continues
  <1>1. q.ev \in Events /\ id \in Nat /\ next \in Nat /\ Table(q) \subseteq DealRecords
    BY <1>0, ResolvedTyped, TableTyped
  <1>2. q.ev.kind \in DOMAIN Invitation \ {"replied"} BY DEF handleInvitationStage
  <1>3. target.stage \in Stages \cup {""} /\ target.closing \in BOOLEAN
    BY <1>1, <1>2, EventIs DEF Invitation
  <1>4. /\ IF q.found = {} THEN Mints ELSE UNCHANGED next
        /\ FindOrCreate(c, id)
        /\ deals' = {IF d.id = id /\ target.stage # ""
                     THEN [d EXCEPT !.stage = target.stage, !.closed = @ \/ target.closing]
                     ELSE d : d \in Table(q)}
        /\ EmitAudit("invitation", id) /\ EmitActivity(id, Told(target))
        /\ UNCHANGED <<contacts, companies, notes, tasks, objects>> /\ Answers(c)
    BY DEF handleInvitationStage, emitEntityActivity, beside
  <1> HIDE DEF q, id, target
  <1>5. HttpOK' BY <1>0, <1>4, AnswersTyped
  <1>6. Told(target) \in Stages \cup {"none", "unsaid"} BY <1>3 DEF Told
  <1>7. (\A x \in trail' : x[2] \in Nat) /\ timeline' \subseteq Activities
    BY <1>0, <1>1, <1>4, <1>6, AuditTyped, ActivityTyped
  <1>8. next' \in 1..(MaxRecords + 1) BY <1>0, <1>4, MintsTyped DEF TablesOK
  <1>9. deals' \subseteq DealRecords
    <2>1. \A d \in DealRecords : target.stage # "" =>
            [d EXCEPT !.stage = target.stage, !.closed = @ \/ target.closing] \in DealRecords
      BY <1>3 DEF DealRecords
    <2> QED BY <1>1, <1>4, <2>1
  <1>10. \A m \in mappings' : m.id \in Nat BY <1>1, <1>4, FoundTyped
  <1> QED BY <1>0, <1>4, <1>5, <1>7, <1>8, <1>9, <1>10 DEF TypeOK, TablesOK

LEMMA RepliedTyped ==
  ASSUME TypeOK, NEW c \in Clients, handleInvitationReplyPositive(c) PROVE TypeOK'
  <1> DEFINE q == http[c]
             id == IF q.found = {} THEN next ELSE Least(q.found)
             minted == IF q.found = {} THEN 1 ELSE 0
  <1>0. HttpOK /\ TablesOK /\ q.pc = "resolved"
    BY DEF TypeOK, handleInvitationReplyPositive, Continues
  <1>1. id \in Nat /\ next \in Nat /\ Table(q) \subseteq DealRecords /\ minted \in {0, 1}
    BY <1>0, ResolvedTyped, TableTyped
  <1>2. /\ next' = next + minted + 1 /\ next' <= MaxRecords + 1
        /\ FindOrCreate(c, id)
        /\ deals' = Table(q)
        /\ MergedBag(id, "follow_up", next + minted)
        /\ EmitAudit("invitation", id) /\ EmitActivity(id, "unsaid")
        /\ UNCHANGED <<contacts, companies, notes, tasks>> /\ Answers(c)
    BY DEF handleInvitationReplyPositive, emitEntityActivity
  <1> HIDE DEF q, id, minted
  <1>3. HttpOK' BY <1>0, <1>2, AnswersTyped
  <1>4. (\A x \in trail' : x[2] \in Nat) /\ timeline' \subseteq Activities
    BY <1>0, <1>1, <1>2, AuditTyped, ActivityTyped
  <1>5. next' \in 1..(MaxRecords + 1)
    BY <1>0, <1>1, <1>2, CrmBoundsAssumption DEF TablesOK
  <1>6. objects' \subseteq BagRecords
    <2>1. next + minted \in Nat BY <1>1
    <2> QED BY <1>0, <1>1, <1>2, <2>1, BagTyped
  <1>7. \A m \in mappings' : m.id \in Nat BY <1>1, <1>2, FoundTyped
  <1> QED BY <1>0, <1>1, <1>2, <1>3, <1>4, <1>5, <1>6, <1>7 DEF TypeOK, TablesOK

LEMMA ConnectorsTyped ==
  ASSUME TypeOK, ConnectorsNext PROVE TypeOK'
  <1>0. HttpOK /\ TablesOK BY DEF TypeOK
  <1>1. ASSUME NEW c \in Clients, PostConnectorEvent(c) PROVE TypeOK'
    <2>1. PICK ev \in knownConnectorEvents : Answers(c) \/ Turns(c, [pc |-> "event", ev |-> ev])
      BY <1>1 DEF PostConnectorEvent
    <2> DEFINE q == [pc |-> "event", ev |-> ev]
    <2>2. HttpTyped(q) BY DEF HttpTyped, Merging, knownConnectorEvents
    <2>3. Answers(c) \/ Turns(c, q) BY <2>1
    <2> HIDE DEF q
    <2>4. HttpOK' BY <1>0, <2>2, <2>3, TurnsTyped, AnswersTyped
    <2> QED BY <1>0, <1>1, <2>4, NothingTyped DEF PostConnectorEvent, TypeOK, connectorVars
  <1>2. ASSUME NEW c \in Clients, Failed(c) PROVE TypeOK'
    BY <1>0, <1>2, AnswersTyped, NothingTyped DEF Failed, TypeOK
  <1> QED BY <1>1, <1>2, ResolveTyped, EnrichedTyped, StageTyped, RepliedTyped DEF ConnectorsNext

LEMMA TypeStep ==
  ASSUME TypeOK, [WorkspaceNext]_workspaceVars PROVE TypeOK'
  <1>1. CASE RequestStep
    BY <1>1, RequestTyped, NotesTyped DEF RequestStep, connectorVars
  <1>2. CASE WalkStep
    <2>1. Nothing /\ UNCHANGED <<http, mappings>>
      BY <1>2 DEF WalkStep, Walks, BeginWalk, ReadPage, connectorVars
    <2> QED BY <2>1, NothingTyped DEF TypeOK, HttpOK, HttpTyped
  <1>3. CASE DedupStep BY <1>3, DedupTyped
  <1>4. CASE ImportStep BY <1>4, ImportTyped
  <1>5. CASE ConnectorsNext BY <1>5, ConnectorsTyped
  <1>6. CASE UNCHANGED workspaceVars
    <2>1. Nothing /\ UNCHANGED <<http, mappings>>
      BY <1>6 DEF workspaceVars, crmVars, connectorVars, Nothing
    <2> QED BY <2>1, NothingTyped DEF TypeOK, HttpOK, HttpTyped
  <1> QED BY <1>1, <1>2, <1>3, <1>4, <1>5, <1>6 DEF WorkspaceNext

LEMMA TypeInit ==
  ASSUME WorkspaceInit PROVE TypeOK
  <1>1. CrmInit /\ mappings = {} BY DEF WorkspaceInit, ConnectorsInit
  <1> DEFINE name == CHOOSE n \in Names : TRUE
             email == CHOOSE e \in Emails : TRUE
             author == CHOOSE c \in Clients : TRUE
  <1>2. name \in Names /\ email \in Emails /\ author \in Clients BY CrmRecordsAssumption
  <1>3. /\ companies = {[id |-> 1, name |-> name, domain |-> Blank]}
        /\ contacts = {[id |-> 2, email |-> email, company |-> 1],
                       [id |-> 3, email |-> NoEmail, company |-> 0]}
        /\ deals = {[id |-> 4, contact |-> 2, company |-> 1, stage |-> "discovery", closed |-> FALSE]}
        /\ notes = {[id |-> 5, on |-> 2, author |-> author]}
        /\ tasks = {} /\ objects = {} /\ trail = {} /\ next = 6
        /\ timeline = {[on |-> i, stage |-> "none"] : i \in 1..3} \cup {[on |-> 4, stage |-> "discovery"]}
        /\ http = [c \in Clients |-> Quiet]
    BY <1>1 DEF CrmInit
  <1> HIDE DEF name, email, author
  <1>4. contacts \subseteq ContactRecords /\ companies \subseteq CompanyRecords
    BY <1>2, <1>3 DEF ContactRecords, CompanyRecords
  <1>5. deals \subseteq DealRecords /\ notes \subseteq NoteRecords
    BY <1>2, <1>3 DEF DealRecords, NoteRecords, Stages
  <1>6. timeline \subseteq Activities BY <1>3 DEF Activities, Stages
  <1>7. next \in 1..(MaxRecords + 1) BY <1>3, CrmBoundsAssumption
  <1>8. HttpOK BY <1>3, QuietTyped DEF HttpOK
  <1> QED BY <1>1, <1>3, <1>4, <1>5, <1>6, <1>7, <1>8 DEF TypeOK, TablesOK

(* Every record, request and mapping keeps its type.                        *)
THEOREM TypeCorrect == WorkspaceSpec => []TypeOK
  <1>1. WorkspaceInit => TypeOK BY TypeInit
  <1>2. TypeOK /\ [WorkspaceNext]_workspaceVars => TypeOK' BY TypeStep
  <1> QED BY <1>1, <1>2, PTL DEF WorkspaceSpec

LEMMA BornInit ==
  ASSUME WorkspaceInit PROVE BornInv
  BY QuietTyped DEF WorkspaceInit, ConnectorsInit, CrmInit, BornInv, Mapped

(* Connectors!BornOnce (connectors.go 305-364, 449-491): whatever is        *)
(* delivered twice, late or out of order, an external identity brings one   *)
(* record into being, but for lookups that another creation overtook.       *)
THEOREM EachIsBornOnce == WorkspaceSpec => []BornOnce
  <1> DEFINE Inv == TypeOK /\ BornInv
  <1>1. WorkspaceInit => Inv BY TypeInit, BornInit
  <1>2. Inv /\ [WorkspaceNext]_workspaceVars => Inv'
    BY TypeStep, BornStep DEF TypeOK
  <1>3. Inv => BornOnce BY BornInvHolds
  <1> QED BY <1>1, <1>2, <1>3, PTL DEF WorkspaceSpec

-----------------------------------------------------------------------------
(* Kinds: what an id once named it names for good                           *)

LEMMA KindsStep ==
  ASSUME KindsInv, next \in Nat \ {0}, next' \in Nat, next' >= next,
         NEW P, NEW F, NEW D, P \cap F = {}, P \cap D = {}, F \cap D = {},
         P \cup F \cup D \subseteq next..(next' - 1),
         \A i \in Nat \ {0} :
           /\ IsPerson(i)' => IsPerson(i) \/ i \in P
           /\ IsFirm(i)' => IsFirm(i) \/ i \in F
           /\ IsDeal(i)' => IsDeal(i) \/ i \in D
           /\ IsNamed(i)' => IsNamed(i) \/ IsPerson(i) \/ IsDeal(i) \/ i \in P \cup D
           /\ IsTold(i)' => i < next',
         0 \notin Known', ~IsNamed(0)',
         \A c \in Clients : http'[c].pc \in Merging => 0 \notin {http'[c].survivor, http'[c].loser}
  PROVE  KindsInv'
  <1>1. ASSUME NEW i \in Nat \ {0}
        PROVE  /\ IsPerson(i)' \/ IsFirm(i)' \/ IsDeal(i)' \/ IsNamed(i)' \/ IsTold(i)' => i < next'
               /\ Apart(i)'
    <2>1. /\ IsPerson(i) \/ IsFirm(i) \/ IsDeal(i) \/ IsNamed(i) => i < next
          /\ Apart(i)
      BY DEF KindsInv
    <2>2. /\ IsPerson(i)' => IsPerson(i) \/ i \in P
          /\ IsFirm(i)' => IsFirm(i) \/ i \in F
          /\ IsDeal(i)' => IsDeal(i) \/ i \in D
          /\ IsNamed(i)' => IsNamed(i) \/ IsPerson(i) \/ IsDeal(i) \/ i \in P \cup D
          /\ IsTold(i)' => i < next'
      OBVIOUS
    <2>3. i \in P \cup F \cup D => i < next' /\ ~(i < next) OBVIOUS
    <2>4. i < next => i < next' OBVIOUS
    <2>5. IsPerson(i)' \/ IsFirm(i)' \/ IsDeal(i)' \/ IsNamed(i)' \/ IsTold(i)' => i < next'
      BY <2>1, <2>2, <2>3, <2>4
    <2>6. Apart(i)' BY <2>1, <2>2, <2>3 DEF Apart
    <2> QED BY <2>5, <2>6
  <1> QED BY <1>1 DEF KindsInv

Tells(e) == e[1] \in {"deleted", "merged"}

(* A step that changes tables and one request.                              *)
LEMMA PlainKinds ==
  ASSUME KindsInv, next \in Nat \ {0}, next' \in Nat, next' >= next,
         NEW c \in Clients, PlainTurn(c),
         NEW P, NEW F, NEW D, P \cap F = {}, P \cap D = {}, F \cap D = {},
         P \cup F \cup D \subseteq next..(next' - 1),
         \A r \in contacts' : r.id \in P \cup Ids(contacts),
         \A r \in companies' : r.id \in F \cup Ids(companies),
         \A d \in deals' : /\ d.id \in D \cup Ids(deals)
                           /\ d.contact = 0 \/ d.contact \in P \/ IsPerson(d.contact)
                           /\ d.company = 0 \/ d.company \in F \/ IsFirm(d.company),
         \A o \in objects' :
           o.on # 0 /\ (o.on \in P \cup D \/ IsNamed(o.on) \/ IsPerson(o.on) \/ IsDeal(o.on)),
         \A m \in mappings' : m.id \in P \cup D \/ IsNamed(m.id),
         \A x \in timeline' : x.on < next',
         \A e \in trail' : Tells(e) => e[2] < next'
  PROVE  KindsInv'
  <1>0. ~IsNamed(0) /\ 0 \notin Known
        /\ (\A d \in Clients : http[d].pc \in Merging => 0 \notin {http[d].survivor, http[d].loser})
    BY DEF KindsInv
  <1>1. \A d \in Clients : http'[d].pc \in Merging \cup {"resolved"} => http'[d] = http[d]
    BY DEF PlainTurn
  <1>2. \A i \in Nat \ {0} : IsPerson(i)' => IsPerson(i) \/ i \in P
    BY <1>1 DEF IsPerson, Ids, MergesContacts
  <1>3. \A i \in Nat \ {0} : IsFirm(i)' => IsFirm(i) \/ i \in F
    BY <1>1 DEF IsFirm, Ids, MergesCompanies
  <1>4. \A i \in Nat \ {0} : IsDeal(i)' => IsDeal(i) \/ i \in D
    BY DEF IsDeal, Ids
  <1>5. \A i \in Nat \ {0} : IsNamed(i)' => IsNamed(i) \/ IsPerson(i) \/ IsDeal(i) \/ i \in P \cup D
    <2> SUFFICES ASSUME NEW i \in Nat \ {0}, IsNamed(i)'
                 PROVE  IsNamed(i) \/ IsPerson(i) \/ IsDeal(i) \/ i \in P \cup D
      OBVIOUS
    <2>1. CASE \E o \in objects' : o.on = i BY <2>1
    <2>2. CASE \E m \in mappings' : m.id = i BY <2>2
    <2>3. CASE \E d \in Clients : http'[d].pc = "resolved" /\ i \in http'[d].found
      BY <1>1, <2>3 DEF IsNamed
    <2> QED BY <2>1, <2>2, <2>3 DEF IsNamed
  <1>6. \A i \in Nat \ {0} : IsTold(i)' => i < next' BY DEF IsTold, Tells
  <1>7. 0 \notin P \cup F \cup D OBVIOUS
  <1>8. 0 \notin Known' BY <1>0, <1>7 DEF Known, Ids
  <1>9. ~IsNamed(0)'
    <2>1. \A o \in objects' : o.on # 0 OBVIOUS
    <2>2. \A m \in mappings' : m.id # 0 BY <1>0, <1>7
    <2>3. \A d \in Clients : http'[d].pc = "resolved" => 0 \notin http'[d].found
      BY <1>0, <1>1 DEF IsNamed
    <2> QED BY <2>1, <2>2, <2>3 DEF IsNamed
  <1>10. \A d \in Clients : http'[d].pc \in Merging => 0 \notin {http'[d].survivor, http'[d].loser}
    BY <1>0, <1>1
  <1> QED BY <1>2, <1>3, <1>4, <1>5, <1>6, <1>8, <1>9, <1>10, KindsStep

LEMMA KindsNow ==
  ASSUME TablesOK, KindsInv
  PROVE  /\ next \in Nat \ {0}
         /\ \A r \in contacts : r.id \in Ids(contacts) /\ IsPerson(r.id) /\ r.id < next
         /\ \A r \in companies : r.id \in Ids(companies) /\ IsFirm(r.id) /\ r.id < next
         /\ \A d \in deals : /\ d.id \in Ids(deals) /\ IsDeal(d.id) /\ d.id < next
                             /\ d.contact = 0 \/ IsPerson(d.contact)
                             /\ d.company = 0 \/ IsFirm(d.company)
         /\ \A o \in objects : o.on # 0 /\ IsNamed(o.on)
         /\ \A m \in mappings : IsNamed(m.id)
         /\ \A x \in timeline : x.on < next
         /\ \A e \in trail : Tells(e) => e[2] < next
         /\ \A i \in Known \cup Hooks : i < next
  <1>1. next \in Nat \ {0} BY CrmBoundsAssumption DEF TablesOK
  <1>2. /\ \A i \in Nat \ {0} :
             IsPerson(i) \/ IsFirm(i) \/ IsDeal(i) \/ IsNamed(i) \/ IsTold(i) => i < next
        /\ 0 \notin Known /\ ~IsNamed(0)
    BY DEF KindsInv
  <1>3. \A r \in contacts : r.id \in Ids(contacts) /\ IsPerson(r.id) /\ r.id < next
    BY <1>2 DEF TablesOK, ContactRecords, Ids, IsPerson, Known
  <1>4. \A r \in companies : r.id \in Ids(companies) /\ IsFirm(r.id) /\ r.id < next
    BY <1>2 DEF TablesOK, CompanyRecords, Ids, IsFirm, Known
  <1>5. \A d \in deals : d.id \in Ids(deals) /\ IsDeal(d.id) /\ d.id < next
    BY <1>2 DEF TablesOK, DealRecords, Ids, IsDeal, Known
  <1>6. \A d \in deals : IsPerson(d.contact) /\ IsFirm(d.company)
    BY DEF IsPerson, IsFirm
  <1>7. \A o \in objects : o.on # 0 /\ IsNamed(o.on)
    BY <1>2 DEF IsNamed
  <1>8. \A m \in mappings : IsNamed(m.id) BY DEF IsNamed
  <1>9. \A x \in timeline : x.on < next
    BY <1>1, <1>2 DEF IsTold, TablesOK, Activities
  <1>10. \A e \in trail : Tells(e) => e[2] < next
    BY <1>1, <1>2 DEF IsTold, TablesOK, Tells
  <1>11. \A i \in Known : i < next BY <1>3, <1>4, <1>5 DEF Known, Ids
  <1>12. \A i \in Hooks : i < next BY <1>10, <1>11 DEF Hooks, Tells
  <1> QED BY <1>1, <1>3, <1>4, <1>5, <1>6, <1>7, <1>8, <1>9, <1>10, <1>11, <1>12

(* What a step writes in the books of a record that is there or new.        *)
LEMMA BooksKept ==
  ASSUME TablesOK, KindsInv, next' \in Nat, next' >= next, NEW id \in Nat, id < next', NEW event, NEW stage
  PROVE  /\ UNCHANGED trail \/ EmitAudit(event, id) => \A e \in trail' : Tells(e) => e[2] < next'
         /\ UNCHANGED timeline \/ EmitActivity(id, stage) => \A x \in timeline' : x.on < next'
  <1> DEFINE x0 == [on |-> id, stage |-> stage]
             e0 == <<event, id>>
  <1>1. x0.on = id /\ e0[2] = id OBVIOUS
  <1> HIDE DEF x0, e0
  <1>2. /\ UNCHANGED trail \/ EmitAudit(event, id) => trail' \subseteq trail \cup {e0}
        /\ UNCHANGED timeline \/ EmitActivity(id, stage) => timeline' \subseteq timeline \cup {x0}
    BY DEF EmitAudit, EmitActivity, x0, e0
  <1>3. next \in Nat /\ (\A x \in timeline : x.on < next) /\ (\A e \in trail : Tells(e) => e[2] < next)
    BY KindsNow
  <1>4. (\A x \in timeline : x.on \in Nat) /\ (\A e \in trail : e[2] \in Nat)
    BY DEF TablesOK, Activities
  <1>5. (\A x \in timeline : x.on < next') /\ (\A e \in trail : Tells(e) => e[2] < next')
    BY <1>3, <1>4
  <1> QED BY <1>1, <1>2, <1>5

(* A step that brings nothing into being.                                   *)
LEMMA NoneBorn ==
  ASSUME TablesOK, KindsInv, NEW c \in Clients, PlainTurn(c), UNCHANGED <<next, objects, mappings>>,
         Ids(contacts') \subseteq Ids(contacts), Ids(companies') \subseteq Ids(companies),
         \A d \in deals' : /\ d.id \in Ids(deals)
                           /\ d.contact = 0 \/ IsPerson(d.contact)
                           /\ d.company = 0 \/ IsFirm(d.company),
         \A x \in timeline' : x.on < next,
         \A e \in trail' : Tells(e) => e[2] < next
  PROVE  KindsInv'
  <1> DEFINE N == {}
  <1>1. N \cap N = {} /\ N \cup N \cup N \subseteq next..(next' - 1) /\ N \cup N = N OBVIOUS
  <1>2. /\ \A r \in contacts' : r.id \in N \cup Ids(contacts)
        /\ \A r \in companies' : r.id \in N \cup Ids(companies)
    BY DEF Ids
  <1>3. /\ next \in Nat \ {0} /\ next' \in Nat /\ next' >= next
        /\ \A o \in objects' : o.on # 0 /\ IsNamed(o.on)
        /\ \A m \in mappings' : IsNamed(m.id)
    BY KindsNow
  <1> HIDE DEF N
  <1>4. /\ \A d \in deals' : /\ d.id \in N \cup Ids(deals)
                             /\ d.contact = 0 \/ d.contact \in N \/ IsPerson(d.contact)
                             /\ d.company = 0 \/ d.company \in N \/ IsFirm(d.company)
        /\ \A o \in objects' :
             o.on # 0 /\ (o.on \in N \cup N \/ IsNamed(o.on) \/ IsPerson(o.on) \/ IsDeal(o.on))
        /\ \A m \in mappings' : m.id \in N \cup N \/ IsNamed(m.id)
    BY <1>3
  <1>5. (\A x \in timeline' : x.on < next') /\ (\A e \in trail' : Tells(e) => e[2] < next')
    OBVIOUS
  <1> QED BY <1>1, <1>2, <1>3, <1>4, <1>5, PlainKinds

LEMMA NothingKinds ==
  ASSUME TablesOK, KindsInv, NEW c \in Clients, PlainTurn(c), Nothing, UNCHANGED mappings
  PROVE  KindsInv'
  <1>1. UNCHANGED <<contacts, companies, deals, objects, timeline, trail, next, mappings>>
    BY DEF Nothing, records, beside, books
  <1> QED BY <1>1, KindsNow, NoneBorn

LEMMA SameIds ==
  ASSUME NEW S, NEW T, \A r \in S : \E t \in T : t.id = r.id, \A t \in T : \E r \in S : r.id = t.id
  PROVE  Ids(T) = Ids(S)
  BY DEF Ids

(* What the statements do to ids and references.                            *)
LEMMA StatementsKeepIds ==
  ASSUME TablesOK, NEW id, NEW in
  PROVE  /\ setContact(id, in) => Ids(contacts') = Ids(contacts)
         /\ setCompany(id, in) => Ids(companies') = Ids(companies)
         /\ dropContact(id) =>
              /\ Ids(contacts') = Ids(contacts) \ {id}
              /\ \A e \in deals' : \E d \in deals :
                   e.id = d.id /\ e.company = d.company /\ e.stage = d.stage
                   /\ e.contact = (IF d.contact = id THEN 0 ELSE d.contact)
         /\ dropCompany(id) =>
              /\ Ids(companies') = Ids(companies) \ {id} /\ Ids(contacts') = Ids(contacts)
              /\ \A e \in deals' : \E d \in deals :
                   e.id = d.id /\ e.contact = d.contact /\ e.stage = d.stage
                   /\ e.company = (IF d.company = id THEN 0 ELSE d.company)
  <1>1. ASSUME setContact(id, in) PROVE Ids(contacts') = Ids(contacts)
    <2>1. \A r \in contacts : [r EXCEPT !.email = in.email, !.company = in.company].id = r.id
      BY DEF TablesOK, ContactRecords
    <2>2. /\ \A r \in contacts : \E t \in contacts' : t.id = r.id
          /\ \A t \in contacts' : \E r \in contacts : r.id = t.id
      BY <1>1, <2>1 DEF setContact
    <2> QED BY <2>2, SameIds
  <1>2. ASSUME setCompany(id, in) PROVE Ids(companies') = Ids(companies)
    <2>1. \A r \in companies : [r EXCEPT !.name = in.name, !.domain = in.domain].id = r.id
      BY DEF TablesOK, CompanyRecords
    <2>2. /\ \A r \in companies : \E t \in companies' : t.id = r.id
          /\ \A t \in companies' : \E r \in companies : r.id = t.id
      BY <1>2, <2>1 DEF setCompany
    <2> QED BY <2>2, SameIds
  <1>3. dropContact(id) => Ids(contacts') = Ids(contacts) \ {id}
    BY DEF dropContact, Ids
  <1>4. dropContact(id) => \A e \in deals' : \E d \in deals :
          e.id = d.id /\ e.company = d.company /\ e.stage = d.stage
          /\ e.contact = (IF d.contact = id THEN 0 ELSE d.contact)
    BY DEF dropContact, TablesOK, DealRecords
  <1>5. dropCompany(id) => Ids(companies') = Ids(companies) \ {id}
    BY DEF dropCompany, Ids
  <1>6. ASSUME dropCompany(id) PROVE Ids(contacts') = Ids(contacts)
    <2>1. \A r \in contacts : [r EXCEPT !.company = IF @ = id THEN 0 ELSE @].id = r.id
      BY DEF TablesOK, ContactRecords
    <2>2. /\ \A r \in contacts : \E t \in contacts' : t.id = r.id
          /\ \A t \in contacts' : \E r \in contacts : r.id = t.id
      BY <1>6, <2>1 DEF dropCompany
    <2> QED BY <2>2, SameIds
  <1>7. dropCompany(id) => \A e \in deals' : \E d \in deals :
          e.id = d.id /\ e.contact = d.contact /\ e.stage = d.stage
          /\ e.company = (IF d.company = id THEN 0 ELSE d.company)
    BY DEF dropCompany, TablesOK, DealRecords
  <1> QED BY <1>1, <1>2, <1>3, <1>4, <1>5, <1>6, <1>7

LEMMA ContactOpsKinds ==
  ASSUME TablesOK, KindsInv, NEW c \in Clients, PlainTurn(c), NEW id \in Targets, NEW in,
         UpdateContact(id, in) \/ DeleteContact(id), UNCHANGED mappings
  PROVE  KindsInv'
  <1>1. CASE id \notin Ids(contacts)
    <2>1. Nothing BY <1>1 DEF UpdateContact, DeleteContact, Ids
    <2> QED BY <2>1, NothingKinds
  <1>2. CASE Nothing BY <1>2, NothingKinds
  <1>3. CASE id \in Ids(contacts) /\ ~Nothing
    <2>0. id \in Nat /\ id < next /\ next \in Nat
      BY <1>3, KindsNow, KnownTyped DEF Known
    <2>1. UNCHANGED <<companies, objects, next>>
          /\ (EmitAudit("updated", id) \/ EmitAudit("deleted", id)) /\ EmitActivity(id, "none")
      BY <1>3 DEF UpdateContact, DeleteContact, emitEntityActivity, beside
    <2>2. (\A x \in timeline' : x.on < next) /\ (\A e \in trail' : Tells(e) => e[2] < next)
      BY <2>0, <2>1, BooksKept
    <2>3. CASE UpdateContact(id, in)
      <3>1. Ids(contacts') = Ids(contacts) /\ UNCHANGED deals
        BY <1>3, <2>3, StatementsKeepIds DEF UpdateContact
      <3> QED BY <2>1, <2>2, <3>1, KindsNow, NoneBorn
    <2>4. CASE DeleteContact(id)
      <3>1. dropContact(id) BY <1>3, <2>4 DEF DeleteContact
      <3>2. /\ Ids(contacts') = Ids(contacts) \ {id}
            /\ \A e \in deals' : \E d \in deals :
                 e.id = d.id /\ e.company = d.company /\ e.stage = d.stage
                 /\ e.contact = (IF d.contact = id THEN 0 ELSE d.contact)
        BY <3>1, StatementsKeepIds
      <3>3. \A d \in deals' : /\ d.id \in Ids(deals)
                              /\ d.contact = 0 \/ IsPerson(d.contact)
                              /\ d.company = 0 \/ IsFirm(d.company)
        BY <3>2, KindsNow
      <3> QED BY <2>1, <2>2, <3>2, <3>3, NoneBorn
    <2> QED BY <2>3, <2>4
  <1> QED BY <1>1, <1>2, <1>3

LEMMA CompanyOpsKinds ==
  ASSUME TablesOK, KindsInv, NEW c \in Clients, PlainTurn(c), NEW id \in Targets, NEW in,
         UpdateCompany(id, in) \/ DeleteCompany(id), UNCHANGED mappings
  PROVE  KindsInv'
  <1>1. CASE id \notin Ids(companies)
    <2>1. Nothing BY <1>1 DEF UpdateCompany, DeleteCompany
    <2> QED BY <2>1, NothingKinds
  <1>3. CASE id \in Ids(companies)
    <2>0. id \in Nat /\ id < next /\ next \in Nat
      BY <1>3, KindsNow, KnownTyped DEF Known
    <2>1. UNCHANGED <<objects, next>>
          /\ (EmitAudit("updated", id) \/ EmitAudit("deleted", id)) /\ EmitActivity(id, "none")
      BY <1>3 DEF UpdateCompany, DeleteCompany, emitEntityActivity, beside
    <2>2. (\A x \in timeline' : x.on < next) /\ (\A e \in trail' : Tells(e) => e[2] < next)
      BY <2>0, <2>1, BooksKept
    <2>3. CASE UpdateCompany(id, in)
      <3>1. Ids(companies') = Ids(companies) /\ UNCHANGED <<contacts, deals>>
        BY <1>3, <2>3, StatementsKeepIds DEF UpdateCompany
      <3> QED BY <2>1, <2>2, <3>1, KindsNow, NoneBorn
    <2>4. CASE DeleteCompany(id)
      <3>1. dropCompany(id) BY <1>3, <2>4 DEF DeleteCompany
      <3>2. /\ Ids(companies') = Ids(companies) \ {id} /\ Ids(contacts') = Ids(contacts)
            /\ \A e \in deals' : \E d \in deals :
                 e.id = d.id /\ e.contact = d.contact /\ e.stage = d.stage
                 /\ e.company = (IF d.company = id THEN 0 ELSE d.company)
        BY <3>1, StatementsKeepIds
      <3>3. \A d \in deals' : /\ d.id \in Ids(deals)
                              /\ d.contact = 0 \/ IsPerson(d.contact)
                              /\ d.company = 0 \/ IsFirm(d.company)
        BY <3>2, KindsNow
      <3> QED BY <2>1, <2>2, <3>2, <3>3, NoneBorn
    <2> QED BY <2>3, <2>4
  <1> QED BY <1>1, <1>3

(* References come from a table.                                            *)
LEMMA RefsAre ==
  ASSUME KindsInv, NEW in, DealRefs(in)
  PROVE  /\ in.contact = 0 \/ IsPerson(in.contact)
         /\ in.company = 0 \/ IsFirm(in.company)
  BY DEF DealRefs, Holds, IsPerson, IsFirm

LEMMA DealOpsKinds ==
  ASSUME TablesOK, KindsInv, NEW c \in Clients, PlainTurn(c), NEW id \in Targets,
         NEW in \in [contact : Nat, company : Nat, stage : Stages],
         UpdateDeal(id, in) \/ DeleteDeal(id), UNCHANGED mappings
  PROVE  KindsInv'
  <1>1. CASE Nothing BY <1>1, NothingKinds
  <1>2. CASE UpdateDeal(id, in) /\ ~Nothing
    <2>1. /\ id \in Ids(deals) /\ DealRefs(in) /\ setDeal(id, in)
          /\ EmitAudit("updated", id) /\ EmitActivity(id, in.stage)
          /\ UNCHANGED <<contacts, companies, objects, next>>
      BY <1>2 DEF UpdateDeal, emitEntityActivity, beside
    <2>2. id \in Nat /\ id < next /\ next \in Nat
      BY <2>1, KindsNow, KnownTyped DEF Known
    <2>3. (\A x \in timeline' : x.on < next) /\ (\A e \in trail' : Tells(e) => e[2] < next)
      BY <2>1, <2>2, BooksKept
    <2>4. \A e \in deals' : \E d \in deals :
            e.id = d.id /\ (e.contact \in {d.contact, in.contact}) /\ (e.company \in {d.company, in.company})
      BY <2>1 DEF setDeal, TablesOK, DealRecords
    <2>5. \A d \in deals' : /\ d.id \in Ids(deals)
                            /\ d.contact = 0 \/ IsPerson(d.contact)
                            /\ d.company = 0 \/ IsFirm(d.company)
      BY <2>1, <2>4, RefsAre, KindsNow
    <2> QED BY <2>1, <2>3, <2>5, NoneBorn
  <1>3. CASE DeleteDeal(id) /\ ~Nothing
    <2>1. /\ id \in Ids(deals) /\ deals' \subseteq deals
          /\ EmitAudit("deleted", id) /\ EmitActivity(id, "none")
          /\ UNCHANGED <<contacts, companies, objects, next>>
      BY <1>3 DEF DeleteDeal, dropDeal, emitEntityActivity, beside
    <2>2. id \in Nat /\ id < next /\ next \in Nat
      BY <2>1, KindsNow, KnownTyped DEF Known
    <2>3. (\A x \in timeline' : x.on < next) /\ (\A e \in trail' : Tells(e) => e[2] < next)
      BY <2>1, <2>2, BooksKept
    <2> QED BY <2>1, <2>3, KindsNow, NoneBorn
  <1> QED BY <1>1, <1>2, <1>3

(* A step that brings at most the ids of N into being, all of one kind.     *)
LEMMA SomeBorn ==
  ASSUME TablesOK, KindsInv, next' \in Nat, next' >= next, NEW c \in Clients, PlainTurn(c),
         NEW kind, NEW N, N \subseteq next..(next' - 1),
         \A r \in contacts' : r.id \in Ids(contacts) \/ (kind = "contact" /\ r.id \in N),
         \A r \in companies' : r.id \in Ids(companies) \/ (kind = "company" /\ r.id \in N),
         \A d \in deals' : /\ d.id \in Ids(deals) \/ (kind = "deal" /\ d.id \in N)
                           /\ d.contact = 0 \/ IsPerson(d.contact)
                           /\ d.company = 0 \/ IsFirm(d.company),
         \A o \in objects' :
           /\ o.on # 0
           /\ \/ IsNamed(o.on) \/ IsPerson(o.on) \/ IsDeal(o.on)
              \/ kind \in {"contact", "deal"} /\ o.on \in N,
         \A m \in mappings' : IsNamed(m.id) \/ (kind \in {"contact", "deal"} /\ m.id \in N),
         \A x \in timeline' : x.on < next',
         \A e \in trail' : Tells(e) => e[2] < next'
  PROVE  KindsInv'
  <1> DEFINE P == IF kind = "contact" THEN N ELSE {}
             F == IF kind = "company" THEN N ELSE {}
             D == IF kind = "deal" THEN N ELSE {}
  <1>1. P \cap F = {} /\ P \cap D = {} /\ F \cap D = {} /\ P \cup F \cup D \subseteq next..(next' - 1)
    OBVIOUS
  <1>2. /\ \A i : kind = "contact" /\ i \in N => i \in P
        /\ \A i : kind = "company" /\ i \in N => i \in F
        /\ \A i : kind = "deal" /\ i \in N => i \in D
        /\ \A i : kind \in {"contact", "deal"} /\ i \in N => i \in P \cup D
    OBVIOUS
  <1> HIDE DEF P, F, D
  <1>3. next \in Nat \ {0} BY KindsNow
  <1>4. /\ \A r \in contacts' : r.id \in P \cup Ids(contacts)
        /\ \A r \in companies' : r.id \in F \cup Ids(companies)
    BY <1>2
  <1>5. \A d \in deals' : /\ d.id \in D \cup Ids(deals)
                          /\ d.contact = 0 \/ d.contact \in P \/ IsPerson(d.contact)
                          /\ d.company = 0 \/ d.company \in F \/ IsFirm(d.company)
    BY <1>2
  <1>6. \A o \in objects' :
          o.on # 0 /\ (o.on \in P \cup D \/ IsNamed(o.on) \/ IsPerson(o.on) \/ IsDeal(o.on))
    BY <1>2
  <1>7. \A m \in mappings' : m.id \in P \cup D \/ IsNamed(m.id) BY <1>2
  <1> QED BY <1>1, <1>3, <1>4, <1>5, <1>6, <1>7, PlainKinds

LEMMA CreationsKinds ==
  ASSUME TypeOK, KindsInv, NEW c \in Clients, UNCHANGED mappings,
         CreateContact(c) \/ CreateCompany(c) \/ CreateDeal(c) \/ TransitionDealStage(c)
  PROVE  KindsInv'
  <1>0. TablesOK /\ HttpOK /\ next \in Nat /\ PlainTurn(c)
    BY KnownTyped, AnswerIsPlain DEF TypeOK, CreateContact, CreateCompany, CreateDeal, TransitionDealStage
  <1> DEFINE in == http[c].in
             N == {next}
  <1>1. CASE Nothing BY <1>0, <1>1, NothingKinds
  <1>2. CASE CreateContact(c) /\ ~Nothing
    <2>1. /\ next' = next + 1 /\ contacts' = contacts \cup {[id |-> next, email |-> in.email, company |-> in.company]}
          /\ EmitAudit("created", next) /\ EmitActivity(next, "none")
          /\ UNCHANGED <<companies, deals, objects>>
      BY <1>2 DEF CreateContact, Mints, insertContact, emitEntityActivity, beside
    <2>2. \A r \in contacts' : r.id \in Ids(contacts) \/ r.id \in N BY <2>1 DEF Ids
    <2>3. N \subseteq next..(next' - 1) /\ next' \in Nat /\ next' >= next /\ next < next' BY <1>0, <2>1
    <2>4. (\A x \in timeline' : x.on < next') /\ (\A e \in trail' : Tells(e) => e[2] < next')
      BY <1>0, <2>1, <2>3, BooksKept
    <2> HIDE DEF N
    <2> QED BY <1>0, <2>1, <2>2, <2>3, <2>4, KindsNow, SomeBorn
  <1>3. CASE CreateCompany(c)
    <2>1. /\ next' = next + 1 /\ companies' = companies \cup {[id |-> next, name |-> in.name, domain |-> in.domain]}
          /\ EmitAudit("created", next) /\ EmitActivity(next, "none")
          /\ UNCHANGED <<contacts, deals, objects>>
      BY <1>3 DEF CreateCompany, Mints, insertCompany, emitEntityActivity, beside
    <2>2. \A r \in companies' : r.id \in Ids(companies) \/ r.id \in N BY <2>1 DEF Ids
    <2>3. N \subseteq next..(next' - 1) /\ next' \in Nat /\ next' >= next /\ next < next' BY <1>0, <2>1
    <2>4. (\A x \in timeline' : x.on < next') /\ (\A e \in trail' : Tells(e) => e[2] < next')
      BY <1>0, <2>1, <2>3, BooksKept
    <2> HIDE DEF N
    <2> QED BY <1>0, <2>1, <2>2, <2>3, <2>4, KindsNow, SomeBorn
  <1>4. CASE CreateDeal(c) /\ ~Nothing
    <2> DEFINE d0 == [id |-> next, contact |-> in.contact, company |-> in.company,
                      stage |-> in.stage, closed |-> FALSE]
    <2>0. d0.id = next /\ d0.contact = in.contact /\ d0.company = in.company OBVIOUS
    <2>1. /\ next' = next + 1 /\ deals' = deals \cup {d0} /\ DealRefs(in)
          /\ EmitAudit("created", next) /\ EmitActivity(next, in.stage)
          /\ UNCHANGED <<contacts, companies, objects>>
      BY <1>4 DEF CreateDeal, Mints, insertDeal, emitEntityActivity, beside
    <2> HIDE DEF d0
    <2>2. \A d \in deals' : /\ d.id \in Ids(deals) \/ d.id \in N
                            /\ d.contact = 0 \/ IsPerson(d.contact)
                            /\ d.company = 0 \/ IsFirm(d.company)
      BY <1>0, <2>0, <2>1, RefsAre, KindsNow
    <2>3. N \subseteq next..(next' - 1) /\ next' \in Nat /\ next' >= next /\ next < next' BY <1>0, <2>1
    <2>4. (\A x \in timeline' : x.on < next') /\ (\A e \in trail' : Tells(e) => e[2] < next')
      BY <1>0, <2>1, <2>3, BooksKept
    <2> HIDE DEF N
    <2> QED BY <1>0, <2>1, <2>2, <2>3, <2>4, KindsNow, SomeBorn
  <1>5. CASE TransitionDealStage(c) /\ ~Nothing
    <2>1. /\ http[c].id \in Ids(deals) /\ setDealStage(http[c].id, http[c].stage)
          /\ EmitActivity(http[c].id, http[c].stage)
          /\ UNCHANGED <<contacts, companies, objects, trail, next>>
      BY <1>5 DEF TransitionDealStage, beside
    <2>2. http[c].id \in Nat /\ http[c].id < next BY <1>0, <2>1, KindsNow, KnownTyped DEF Known
    <2>3. (\A x \in timeline' : x.on < next') /\ (\A e \in trail' : Tells(e) => e[2] < next')
      BY <1>0, <2>1, <2>2, BooksKept
    <2>4. \A e \in deals' : \E d \in deals :
            e.id = d.id /\ e.contact = d.contact /\ e.company = d.company
      BY <1>0, <2>1 DEF setDealStage, TablesOK, DealRecords
    <2>5. \A d \in deals' : /\ d.id \in Ids(deals)
                            /\ d.contact = 0 \/ IsPerson(d.contact)
                            /\ d.company = 0 \/ IsFirm(d.company)
      BY <1>0, <2>4, KindsNow
    <2> QED BY <1>0, <2>1, <2>3, <2>5, NoneBorn
  <1> QED BY <1>1, <1>2, <1>3, <1>4, <1>5

LEMMA RequestKinds ==
  ASSUME TypeOK, KindsInv, NEW c \in Clients, RecordWrites(c), UNCHANGED mappings
  PROVE  KindsInv'
  <1>0. TablesOK /\ HttpOK /\ PlainTurn(c) BY RequestIsPlain DEF TypeOK
  <1>1. ASSUME NEW kind, NEW in, NEW k, Posts(c, kind, in, k) PROVE KindsInv'
    BY <1>0, <1>1, NothingKinds DEF Posts
  <1>2. CASE contactHandlers(c)
    BY <1>0, <1>1, <1>2, ContactOpsKinds DEF contactHandlers
  <1>3. CASE companyHandlers(c)
    BY <1>0, <1>1, <1>3, CompanyOpsKinds DEF companyHandlers
  <1>4. CASE dealHandlers(c)
    <2>1. [contact |-> 0, company |-> 0, stage |-> "closed"] \in [contact : Nat, company : Nat, stage : Stages]
      BY DEF Stages
    <2>2. ASSUME NEW id \in Targets, NEW in \in DealInputs, UpdateDeal(id, in) PROVE KindsInv'
      BY <1>0, <2>2, InputsTyped, DealOpsKinds
    <2>3. ASSUME NEW id \in Targets, DeleteDeal(id) PROVE KindsInv'
      BY <1>0, <2>1, <2>3, DealOpsKinds
    <2> QED BY <1>1, <1>4, <2>2, <2>3 DEF dealHandlers
  <1>5. CASE PatchDealStage(c)
    BY <1>0, <1>5, NothingKinds DEF PatchDealStage
  <1>6. CASE CreateContact(c) \/ CreateCompany(c) \/ CreateDeal(c) \/ TransitionDealStage(c)
    BY <1>6, CreationsKinds
  <1> QED BY <1>2, <1>3, <1>4, <1>5, <1>6 DEF RecordWrites

(* A request about notes and tasks.                                         *)
LEMMA NotesKinds ==
  ASSUME TypeOK, KindsInv, NEW c \in Clients, NoteWrites(c), UNCHANGED mappings
  PROVE  KindsInv'
  <1>0. TablesOK /\ HttpOK /\ PlainTurn(c) /\ next \in Nat BY RequestIsPlain, KnownTyped DEF TypeOK
  <1>1. UNCHANGED <<contacts, companies, deals, objects>>
    BY DEF NoteWrites, createNote, UpdateNote, DeleteNote, CreateTask, UpdateTask,
       ToggleTaskCompletion, DeleteTask, records, beside
  <1>2. next' \in {next, next + 1}
    BY DEF NoteWrites, createNote, UpdateNote, DeleteNote, CreateTask, UpdateTask,
       ToggleTaskCompletion, DeleteTask, Mints
  <1>3. \A x \in timeline' : x.on < next
    <2>1. CASE createNote(c)
      <3>1. PICK on \in Hooks : EmitActivity(on, "none") BY <2>1 DEF createNote
      <3>2. on \in Nat /\ on < next BY <1>0, KindsNow, KnownTyped
      <3> DEFINE x0 == [on |-> on, stage |-> "none"]
      <3>3. x0.on = on OBVIOUS
      <3>4. timeline' = timeline \cup {x0} BY <3>1 DEF EmitActivity
      <3> HIDE DEF x0
      <3> QED BY <1>0, <3>2, <3>3, <3>4, KindsNow
    <2>2. CASE UNCHANGED timeline BY <1>0, <2>2, KindsNow
    <2> QED BY <2>1, <2>2 DEF NoteWrites, UpdateNote, DeleteNote, CreateTask, UpdateTask,
       ToggleTaskCompletion, DeleteTask
  <1>4. \A e \in trail' : Tells(e) => e \in trail
    <2>1. ASSUME NEW event \in {"note.created", "note.updated", "note.deleted", "task.created",
                                "task.updated", "task.reopened", "task.completed", "task.deleted"},
                 NEW id, EmitAudit(event, id)
          PROVE  \A e \in trail' : Tells(e) => e \in trail
      <3> DEFINE e0 == <<event, id>>
      <3>1. ~Tells(e0) BY DEF Tells
      <3>2. trail' = trail \cup {e0} BY <2>1 DEF EmitAudit
      <3> HIDE DEF e0
      <3> QED BY <3>1, <3>2
    <2> QED BY <2>1 DEF NoteWrites, createNote, UpdateNote, DeleteNote, CreateTask, UpdateTask,
       ToggleTaskCompletion, DeleteTask
  <1>5. next' \in Nat /\ next' >= next BY <1>0, <1>2
  <1>6. \A x \in timeline' : x.on < next'
    <2>1. timeline' \subseteq Activities
      <3>1. TypeOK' BY NotesTyped
      <3> QED BY <3>1 DEF TypeOK, TablesOK
    <2>2. \A x \in timeline' : x.on \in Nat BY <2>1 DEF Activities
    <2> QED BY <1>0, <1>3, <1>5, <2>2
  <1>7. \A e \in trail' : Tells(e) => e[2] < next'
    BY <1>0, <1>4, <1>5, KindsNow DEF TablesOK
  <1> DEFINE N == {}
  <1>8. N \subseteq next..(next' - 1) OBVIOUS
  <1>9. \A m \in mappings' : IsNamed(m.id) BY <1>0, KindsNow
  <1> HIDE DEF N
  <1> QED BY <1>0, <1>1, <1>5, <1>6, <1>7, <1>8, <1>9, KindsNow, SomeBorn

(* A merge's request names rows of one table.                               *)
LEMMA MergeRequestKinds ==
  ASSUME TablesOK, KindsInv, NEW c \in Clients, Nothing, UNCHANGED mappings,
         \A d \in Clients : d # c => http'[d] = http[d],
         http'[c].pc # "resolved",
         http'[c].pc \in Merging =>
           /\ 0 \notin {http'[c].survivor, http'[c].loser}
           /\ \A i \in {http'[c].survivor, http'[c].loser} :
                /\ MergesContacts(http'[c]) => IsPerson(i)
                /\ MergesCompanies(http'[c]) => IsFirm(i)
  PROVE  KindsInv'
  <1>1. UNCHANGED <<contacts, companies, deals, objects, mappings, timeline, trail, next>>
    BY DEF Nothing, records, beside, books
  <1>2. next \in Nat \ {0} BY KindsNow
  <1> DEFINE N == {}
  <1>3. N \cap N = {} /\ N \cup N \cup N \subseteq next..(next' - 1) OBVIOUS
  <1>4. \A i \in Nat \ {0} : IsPerson(i)' => IsPerson(i)
    <2> SUFFICES ASSUME NEW i \in Nat \ {0}, IsPerson(i)' PROVE IsPerson(i) OBVIOUS
    <2>1. CASE i \in Ids(contacts') \/ \E d \in deals' : d.contact = i
      BY <1>1, <2>1 DEF IsPerson
    <2>2. CASE \E d \in Clients : MergesContacts(http'[d]) /\ i \in {http'[d].survivor, http'[d].loser}
      BY <2>2 DEF IsPerson, MergesContacts
    <2> QED BY <2>1, <2>2 DEF IsPerson, MergesContacts
  <1>5. \A i \in Nat \ {0} : IsFirm(i)' => IsFirm(i)
    <2> SUFFICES ASSUME NEW i \in Nat \ {0}, IsFirm(i)' PROVE IsFirm(i) OBVIOUS
    <2>1. CASE i \in Ids(companies') \/ \E d \in deals' : d.company = i
      BY <1>1, <2>1 DEF IsFirm
    <2>2. CASE \E d \in Clients : MergesCompanies(http'[d]) /\ i \in {http'[d].survivor, http'[d].loser}
      BY <2>2 DEF IsFirm, MergesCompanies
    <2> QED BY <2>1, <2>2 DEF IsFirm, MergesCompanies
  <1>6. \A i \in Nat \ {0} : IsDeal(i)' => IsDeal(i) BY <1>1 DEF IsDeal, Ids
  <1>7. \A i \in Nat : IsNamed(i)' => IsNamed(i) BY <1>1 DEF IsNamed
  <1>8. \A i \in Nat \ {0} : IsTold(i)' => i < next' BY <1>1 DEF IsTold, KindsInv
  <1>9. 0 \notin Known' /\ ~IsNamed(0)' BY <1>1, <1>7 DEF KindsInv, Known, Ids
  <1>10. \A d \in Clients : http'[d].pc \in Merging => 0 \notin {http'[d].survivor, http'[d].loser}
    BY DEF KindsInv
  <1>11. \A i \in Nat \ {0} :
           /\ IsPerson(i)' => IsPerson(i) \/ i \in N
           /\ IsFirm(i)' => IsFirm(i) \/ i \in N
           /\ IsDeal(i)' => IsDeal(i) \/ i \in N
           /\ IsNamed(i)' => IsNamed(i) \/ IsPerson(i) \/ IsDeal(i) \/ i \in N \cup N
           /\ IsTold(i)' => i < next'
    BY <1>4, <1>5, <1>6, <1>7, <1>8
  <1>12. next' \in Nat /\ next' >= next BY <1>1, <1>2
  <1> HIDE DEF N
  <1> QED BY <1>2, <1>3, <1>9, <1>10, <1>11, <1>12, KindsStep

LEMMA LoadKinds ==
  ASSUME TypeOK, KindsInv, NEW c \in Clients, NEW T, T = contacts \/ T = companies, LoadMerge(c, T),
         UNCHANGED mappings
  PROVE  KindsInv'
  <1>0. TablesOK /\ HttpOK /\ Nothing BY DEF TypeOK, LoadMerge
  <1>1. PICK s, l \in http[c].pair :
          /\ s # l
          /\ IF {s, l} \subseteq Ids(T)
             THEN \E pick \in {The(T, s), The(T, l)} :
                    Turns(c, [pc |-> "loaded", survivor |-> s, loser |-> l, row |-> [pick EXCEPT !.id = s]])
             ELSE Answers(c)
    BY DEF LoadMerge
  <1>2. CASE {s, l} \subseteq Ids(T)
    <2>1. PICK pick \in T :
            Turns(c, [pc |-> "loaded", survivor |-> s, loser |-> l, row |-> [pick EXCEPT !.id = s]])
      BY <1>1, <1>2, TheIs
    <2> DEFINE row == [pick EXCEPT !.id = s]
               q == [pc |-> "loaded", survivor |-> s, loser |-> l, row |-> row]
    <2>2. Turns(c, q) BY <2>1
    <2>3. q.pc = "loaded" /\ q.survivor = s /\ q.loser = l /\ q.row = row OBVIOUS
    <2>4. s \in Nat BY <1>0, <1>2, KnownTyped
    <2>5. \/ T = contacts /\ row \in ContactRecords
          \/ T = companies /\ row \in CompanyRecords
      <3>1. CASE T = contacts
        <4>1. pick \in ContactRecords BY <1>0, <3>1 DEF TablesOK
        <4>2. row \in ContactRecords BY <4>1, <2>4 DEF ContactRecords
        <4> QED BY <3>1, <4>2
      <3>2. CASE T = companies
        <4>1. pick \in CompanyRecords BY <1>0, <3>2 DEF TablesOK
        <4>2. row \in CompanyRecords BY <4>1, <2>4 DEF CompanyRecords
        <4> QED BY <3>2, <4>2
      <3> QED BY <3>1, <3>2
    <2> HIDE DEF row, q
    <2>6. http'[c] = q /\ \A d \in Clients : d # c => http'[d] = http[d] BY <1>0, <2>2, TurnsIs
    <2>7. ~(row \in ContactRecords /\ row \in CompanyRecords)
      BY DEF ContactRecords, CompanyRecords
    <2>8. s # 0 /\ l # 0 BY <1>2 DEF KindsInv, Known
    <2>9. \A i \in {s, l} : /\ MergesContacts(q) => IsPerson(i)
                            /\ MergesCompanies(q) => IsFirm(i)
      BY <1>2, <2>3, <2>5, <2>7 DEF MergesContacts, MergesCompanies, IsPerson, IsFirm
    <2> QED BY <1>0, <2>3, <2>6, <2>8, <2>9, MergeRequestKinds
  <1>3. CASE ~({s, l} \subseteq Ids(T))
    BY <1>0, <1>1, <1>3, AnswerIsPlain, NothingKinds
  <1> QED BY <1>2, <1>3

LEMMA RepointKinds ==
  ASSUME TypeOK, KindsInv, NEW c \in Clients, RepointMerge(c), UNCHANGED mappings
  PROVE  KindsInv'
  <1>0. TablesOK /\ HttpOK /\ Nothing /\ http[c].pc = "loaded" BY DEF TypeOK, RepointMerge, Continues
  <1>1. ASSUME NEW h, NEW ds, NEW st, NEW lk,
               Turns(c, [pc |-> "repointed", survivor |-> http[c].survivor, loser |-> http[c].loser,
                         row |-> http[c].row, hung |-> h, deals |-> ds, staff |-> st, locked |-> lk])
        PROVE  KindsInv'
    <2> DEFINE q == [pc |-> "repointed", survivor |-> http[c].survivor, loser |-> http[c].loser,
                     row |-> http[c].row, hung |-> h, deals |-> ds, staff |-> st, locked |-> lk]
    <2>1. Turns(c, q) BY <1>1
    <2>2. q.pc = "repointed" /\ q.survivor = http[c].survivor /\ q.loser = http[c].loser
          /\ q.row = http[c].row
      OBVIOUS
    <2> HIDE DEF q
    <2>3. http'[c] = q /\ \A d \in Clients : d # c => http'[d] = http[d] BY <1>0, <2>1, TurnsIs
    <2>4. 0 \notin {http[c].survivor, http[c].loser} BY <1>0 DEF KindsInv, Merging
    <2>5. \A i \in {q.survivor, q.loser} : /\ MergesContacts(q) => IsPerson(i)
                                           /\ MergesCompanies(q) => IsFirm(i)
      BY <1>0, <2>2 DEF MergesContacts, MergesCompanies, IsPerson, IsFirm, Merging
    <2> QED BY <1>0, <2>2, <2>3, <2>4, <2>5, MergeRequestKinds
  <1>2. Answers(c) => KindsInv' BY <1>0, AnswerIsPlain, NothingKinds
  <1> QED BY <1>1, <1>2, Zenon DEF RepointMerge

(* What a merge commits, of contacts and of companies.                      *)
LEMMA MergeCommits ==
  ASSUME TypeOK, KindsInv, NEW c \in Clients, MergeContacts(c) \/ MergeCompanies(c)
  PROVE  LET q == http[c] IN
         /\ PlainTurn(c) /\ next' = next /\ EmitAudit("merged", q.loser)
         /\ q.survivor \in Nat \ {0} /\ q.loser \in Nat \ {0} /\ q.survivor # q.loser
         /\ q.survivor < next /\ q.loser < next
         /\ \A x \in timeline' : \E y \in timeline : x.stage = y.stage /\ x.on \in {y.on, q.survivor}
         /\ MergeContacts(c) =>
              /\ MergesContacts(q)
              /\ Ids(contacts') \subseteq Ids(contacts) /\ companies' = companies
              /\ Ids(contacts) \ {q.loser} \subseteq Ids(contacts')
              /\ objects' \subseteq objects
              /\ \A e \in deals' : \E d \in deals :
                   /\ e.id = d.id /\ e.stage = d.stage /\ e.company = d.company
                   /\ e.contact = (IF d.id \in q.deals THEN q.survivor ELSE IF d.contact = q.loser THEN 0 ELSE d.contact)
         /\ MergeCompanies(c) =>
              /\ MergesCompanies(q)
              /\ Ids(companies') \subseteq Ids(companies) /\ Ids(contacts') = Ids(contacts)
              /\ Ids(companies) \ {q.loser} \subseteq Ids(companies')
              /\ objects' = objects
              /\ \A e \in deals' : \E d \in deals :
                   /\ e.id = d.id /\ e.stage = d.stage /\ e.contact = d.contact
                   /\ e.company = (IF d.id \in q.deals THEN q.survivor ELSE IF d.company = q.loser THEN 0 ELSE d.company)
  <1> DEFINE q == http[c]
  <1>0. /\ HttpOK /\ TablesOK /\ HttpTyped(q) /\ q.pc = "repointed" /\ Merged(c, q)
    BY DEF TypeOK, HttpOK, MergeContacts, MergeCompanies, Merged, Continues
  <1>1. q.survivor \in Nat /\ q.loser \in Nat /\ q.row \in ContactRecords \cup CompanyRecords
        /\ q.survivor # q.loser /\ q.row.id = q.survivor
    BY <1>0 DEF HttpTyped, Merging
  <1>2. PlainTurn(c) /\ next' = next /\ EmitAudit("merged", q.loser)
    BY <1>0, AnswerIsPlain DEF Merged
  <1>3. q.survivor # 0 /\ q.loser # 0 BY <1>0 DEF KindsInv, Merging
  <1>4. q.survivor < next /\ q.loser < next
    <2>1. MergesContacts(q) \/ MergesCompanies(q)
      BY <1>0, <1>1 DEF MergesContacts, MergesCompanies, Merging
    <2>2. \A i \in {q.survivor, q.loser} : IsPerson(i) \/ IsFirm(i)
      BY <2>1 DEF IsPerson, IsFirm
    <2> QED BY <1>1, <1>3, <2>2 DEF KindsInv
  <1>5. \A x \in timeline' : \E y \in timeline : x.stage = y.stage /\ x.on \in {y.on, q.survivor}
    BY <1>0 DEF Merged, Hung, Moved, TablesOK, Activities
  <1>6. ASSUME MergeContacts(c)
        PROVE  /\ MergesContacts(q)
               /\ Ids(contacts') \subseteq Ids(contacts) /\ companies' = companies
               /\ Ids(contacts) \ {q.loser} \subseteq Ids(contacts')
               /\ objects' \subseteq objects
               /\ \A e \in deals' : \E d \in deals :
                    /\ e.id = d.id /\ e.stage = d.stage /\ e.company = d.company
                    /\ e.contact = (IF d.id \in q.deals THEN q.survivor ELSE IF d.contact = q.loser THEN 0 ELSE d.contact)
    <2>1. q.row \in ContactRecords
      BY <1>1, <1>6 DEF MergeContacts, CompanyRecords
    <2>2. contacts' = Settled(contacts, q) /\ companies' = companies /\ objects' \subseteq objects
          /\ deals' = {[d EXCEPT !.contact = IF d.id \in q.deals THEN q.survivor
                                            ELSE IF @ = q.loser THEN 0 ELSE @] : d \in deals}
      BY <1>6 DEF MergeContacts
    <2> HIDE DEF q
    <2>3. Ids(contacts') = Ids(contacts) \ {q.loser} BY <1>1, <2>2 DEF Settled, Ids
    <2>4. \A e \in deals' : \E d \in deals :
            /\ e.id = d.id /\ e.stage = d.stage /\ e.company = d.company
            /\ e.contact = (IF d.id \in q.deals THEN q.survivor ELSE IF d.contact = q.loser THEN 0 ELSE d.contact)
      BY <1>0, <2>2 DEF TablesOK, DealRecords
    <2> QED BY <1>0, <2>1, <2>2, <2>3, <2>4 DEF MergesContacts, Merging
  <1>7. ASSUME MergeCompanies(c)
        PROVE  /\ MergesCompanies(q)
               /\ Ids(companies') \subseteq Ids(companies) /\ Ids(contacts') = Ids(contacts)
               /\ Ids(companies) \ {q.loser} \subseteq Ids(companies')
               /\ objects' = objects
               /\ \A e \in deals' : \E d \in deals :
                    /\ e.id = d.id /\ e.stage = d.stage /\ e.contact = d.contact
                    /\ e.company = (IF d.id \in q.deals THEN q.survivor ELSE IF d.company = q.loser THEN 0 ELSE d.company)
    <2>1. q.row \in CompanyRecords
      BY <1>1, <1>7 DEF MergeCompanies, ContactRecords
    <2>2. companies' = Settled(companies, q) /\ objects' = objects
          /\ contacts' = {[r EXCEPT !.company = IF r.id \in q.staff THEN q.survivor
                                                  ELSE IF @ = q.loser THEN 0 ELSE @] : r \in contacts}
          /\ deals' = {[d EXCEPT !.company = IF d.id \in q.deals THEN q.survivor
                                            ELSE IF @ = q.loser THEN 0 ELSE @] : d \in deals}
      BY <1>7 DEF MergeCompanies
    <2> HIDE DEF q
    <2>3. Ids(companies') = Ids(companies) \ {q.loser} BY <1>1, <2>2 DEF Settled, Ids
    <2>4. \A e \in deals' : \E d \in deals :
            /\ e.id = d.id /\ e.stage = d.stage /\ e.contact = d.contact
            /\ e.company = (IF d.id \in q.deals THEN q.survivor ELSE IF d.company = q.loser THEN 0 ELSE d.company)
      BY <1>0, <2>2 DEF TablesOK, DealRecords
    <2>5. Ids(contacts') = Ids(contacts)
      <3>1. \A r \in contacts : [r EXCEPT !.company = IF r.id \in q.staff THEN q.survivor
                                                      ELSE IF @ = q.loser THEN 0 ELSE @].id = r.id
        BY <1>0 DEF TablesOK, ContactRecords
      <3>2. /\ \A r \in contacts : \E t \in contacts' : t.id = r.id
            /\ \A t \in contacts' : \E r \in contacts : r.id = t.id
        BY <2>2, <3>1
      <3> QED BY <3>2, SameIds
    <2> QED BY <1>0, <2>1, <2>2, <2>3, <2>4, <2>5 DEF MergesCompanies, Merging
  <1> QED BY <1>1, <1>2, <1>3, <1>4, <1>5, <1>6, <1>7

LEMMA MergesKinds ==
  ASSUME TypeOK, KindsInv, NEW c \in Clients, MergeContacts(c) \/ MergeCompanies(c), UNCHANGED mappings
  PROVE  KindsInv'
  <1> DEFINE q == http[c]
             N == {}
  <1>0. TablesOK /\ next \in Nat BY KnownTyped DEF TypeOK
  <1>1. /\ PlainTurn(c) /\ next' = next /\ EmitAudit("merged", q.loser)
        /\ q.loser \in Nat /\ q.loser < next /\ q.survivor < next
        /\ \A x \in timeline' : \E y \in timeline : x.on \in {y.on, q.survivor}
    BY MergeCommits
  <1>2. \A x \in timeline' : x.on < next' BY <1>0, <1>1, KindsNow
  <1>3. \A e \in trail' : Tells(e) => e[2] < next' BY <1>0, <1>1, BooksKept
  <1>4. \A d \in deals : /\ d.contact = 0 \/ IsPerson(d.contact)
                         /\ d.company = 0 \/ IsFirm(d.company)
    BY <1>0, KindsNow
  <1>5. /\ Ids(contacts') \subseteq Ids(contacts) /\ Ids(companies') \subseteq Ids(companies)
        /\ objects' \subseteq objects
        /\ \A d \in deals' : /\ d.id \in Ids(deals)
                             /\ d.contact = 0 \/ IsPerson(d.contact)
                             /\ d.company = 0 \/ IsFirm(d.company)
    <2>1. CASE MergeContacts(c)
      <3>1. /\ Ids(contacts') \subseteq Ids(contacts) /\ companies' = companies /\ objects' \subseteq objects
            /\ MergesContacts(q)
            /\ \A e \in deals' : \E d \in deals :
                 e.id = d.id /\ e.company = d.company /\ e.contact \in {0, q.survivor, d.contact}
        BY <2>1, MergeCommits
      <3>2. IsPerson(q.survivor) BY <3>1 DEF IsPerson
      <3> QED BY <1>4, <3>1, <3>2 DEF Ids
    <2>2. CASE MergeCompanies(c)
      <3>1. /\ Ids(companies') \subseteq Ids(companies) /\ Ids(contacts') = Ids(contacts) /\ objects' = objects
            /\ MergesCompanies(q)
            /\ \A e \in deals' : \E d \in deals :
                 e.id = d.id /\ e.contact = d.contact /\ e.company \in {0, q.survivor, d.company}
        BY <2>2, MergeCommits
      <3>2. IsFirm(q.survivor) BY <3>1 DEF IsFirm
      <3> QED BY <1>4, <3>1, <3>2 DEF Ids
    <2> QED BY <2>1, <2>2
  <1>6. N \subseteq next..(next' - 1) /\ next' \in Nat /\ next' >= next BY <1>0, <1>1
  <1>7. \A r \in contacts' : r.id \in Ids(contacts) BY <1>5 DEF Ids
  <1>8. \A r \in companies' : r.id \in Ids(companies) BY <1>5 DEF Ids
  <1>9. /\ \A o \in objects' : o.on # 0 /\ IsNamed(o.on)
        /\ \A m \in mappings' : IsNamed(m.id)
    BY <1>0, <1>5, KindsNow
  <1> HIDE DEF N, q
  <1> QED BY <1>0, <1>1, <1>2, <1>3, <1>5, <1>6, <1>7, <1>8, <1>9, SomeBorn

LEMMA DedupKinds ==
  ASSUME TypeOK, KindsInv, DedupStep PROVE KindsInv'
  <1>0. HttpOK /\ TablesOK /\ UNCHANGED mappings BY DEF TypeOK, DedupStep, connectorVars
  <1> PICK c \in Clients :
        \/ ListDuplicates(c) \/ markDistinct(c)
        \/ LoadMerge(c, contacts) \/ LoadMerge(c, companies)
        \/ RepointMerge(c) \/ MergeContacts(c) \/ MergeCompanies(c) \/ RolledBack(c)
    BY DEF DedupStep, DedupNext
  <1>1. CASE ListDuplicates(c)
    <2>1. PICK p : Turns(c, [pc |-> "reviewing", pair |-> p]) BY <1>1 DEF ListDuplicates
    <2>2. [pc |-> "reviewing", pair |-> p].pc \notin Merging \cup {"resolved"} BY DEF Merging
    <2> QED BY <1>0, <1>1, <2>1, <2>2, TurnIsPlain, NothingKinds DEF ListDuplicates
  <1>2. CASE LoadMerge(c, contacts) \/ LoadMerge(c, companies)
    BY <1>0, <1>2, LoadKinds
  <1>3. CASE RepointMerge(c) BY <1>0, <1>3, RepointKinds
  <1>4. CASE MergeContacts(c) \/ MergeCompanies(c) BY <1>0, <1>4, MergesKinds
  <1>5. CASE markDistinct(c) \/ RolledBack(c)
    BY <1>0, <1>5, AnswerIsPlain, NothingKinds DEF markDistinct, RolledBack
  <1> QED BY <1>1, <1>2, <1>3, <1>4, <1>5

(* What an import commits.                                                  *)
LEMMA ImportCommits ==
  ASSUME TypeOK, NEW c \in Clients, ImportCommit(c)
  PROVE  \E kind \in DOMAIN Files : \E e :
           /\ Grown(kind, e)
           /\ contacts' = e.contacts /\ companies' = e.companies /\ deals' = e.deals
           /\ objects' = e.objects /\ timeline' = e.timeline /\ next' = e.next
           /\ next' \in Nat /\ next' >= next /\ kind \in {"contact", "company", "deal"}
           /\ EmitAudit("import.committed", 0) /\ Answers(c)
  <1> DEFINE kind == http[c].kind
             e == process(http[c].kind, http[c].policy, TRUE, http[c].rows)
  <1>0. TablesOK BY DEF TypeOK
  <1>1. /\ kind \in DOMAIN Files /\ http[c].policy \in Policies
        /\ http[c].rows \in Files[kind]
    BY DEF ImportCommit, Continues, HttpOK, HttpTyped, TypeOK
  <1>2. Grown(kind, e) BY <1>0, <1>1, FilesGrow
  <1>3. e \in EngineRecords /\ e.next >= next BY <1>2 DEF Grown
  <1>4. /\ contacts' = e.contacts /\ companies' = e.companies /\ deals' = e.deals
        /\ objects' = e.objects /\ timeline' = e.timeline /\ next' = e.next
        /\ EmitAudit("import.committed", 0) /\ Answers(c)
    BY DEF ImportCommit
  <1> HIDE DEF kind, e
  <1>5. next' \in Nat BY <1>3, <1>4 DEF EngineRecords
  <1>6. kind \in {"contact", "company", "deal"} BY <1>1, FilesAssumption
  <1> QED BY <1>1, <1>2, <1>3, <1>4, <1>5, <1>6

LEMMA ImportKinds ==
  ASSUME TypeOK, KindsInv, ImportStep PROVE KindsInv'
  <1>0. HttpOK /\ TablesOK /\ UNCHANGED mappings /\ next \in Nat \ {0}
    BY KindsNow DEF TypeOK, ImportStep, connectorVars
  <1> PICK c \in Clients : ImportPreview(c) \/ ImportCommit(c) \/ Cancel(c)
    BY DEF ImportStep, ImportNext
  <1>1. CASE ImportPreview(c) \/ Cancel(c)
    <2>1. PlainTurn(c) /\ Nothing BY <1>0, <1>1, ImportIsPlain DEF ImportPreview, Cancel
    <2> QED BY <1>0, <2>1, NothingKinds
  <1>2. CASE ImportCommit(c)
    <2>0. PICK kind \in DOMAIN Files : \E e :
            /\ Grown(kind, e)
            /\ contacts' = e.contacts /\ companies' = e.companies /\ deals' = e.deals
            /\ objects' = e.objects /\ timeline' = e.timeline /\ next' = e.next
            /\ next' \in Nat /\ next' >= next /\ kind \in {"contact", "company", "deal"}
            /\ EmitAudit("import.committed", 0) /\ Answers(c)
      BY <1>2, ImportCommits
    <2>1. PICK e :
            /\ Grown(kind, e)
            /\ contacts' = e.contacts /\ companies' = e.companies /\ deals' = e.deals
            /\ objects' = e.objects /\ timeline' = e.timeline /\ next' = e.next
            /\ next' \in Nat /\ next' >= next /\ kind \in {"contact", "company", "deal"}
            /\ EmitAudit("import.committed", 0) /\ Answers(c)
      BY <2>0
    <2>2. PlainTurn(c) BY <1>0, <2>1, AnswerIsPlain
    <2> DEFINE N == next..(next' - 1)
    <2>3. NewIds(e) = N BY <2>1 DEF NewIds
    <2>4. N \subseteq next..(next' - 1) /\ \A i \in N : i # 0 /\ i < next' BY <1>0, <2>1
    <2> HIDE DEF N
    <2>5. /\ \A r \in contacts' : r.id \in Ids(contacts) \/ (kind = "contact" /\ r.id \in N)
          /\ \A i \in Ids(companies') : i \in Ids(companies) \/ (kind = "company" /\ i \in N)
          /\ \A d \in deals' :
               d \in deals \/ (kind = "deal" /\ d.id \in N /\ d.contact = 0 /\ d.company = 0)
          /\ \A o \in objects' : o \in objects \/ o.on \in Ids(contacts') \cup Ids(deals')
          /\ \A x \in timeline' :
               x \in timeline \/ x.on \in Ids(contacts') \cup Ids(companies') \cup Ids(deals')
      BY <2>1, <2>3 DEF Grown, Ids
    <2>6. \A d \in deals' : /\ d.id \in Ids(deals) \/ (kind = "deal" /\ d.id \in N)
                            /\ d.contact = 0 \/ IsPerson(d.contact)
                            /\ d.company = 0 \/ IsFirm(d.company)
      BY <1>0, <2>5, KindsNow
    <2>7. \A r \in companies' : r.id \in Ids(companies) \/ (kind = "company" /\ r.id \in N)
      BY <2>5 DEF Ids
    <2>8. /\ \A i \in Ids(contacts') : i \in Ids(contacts) \/ (kind = "contact" /\ i \in N)
          /\ \A i \in Ids(deals') : i \in Ids(deals) \/ (kind = "deal" /\ i \in N)
      BY <2>5 DEF Ids
    <2>9. \A i \in Ids(contacts) \cup Ids(companies) \cup Ids(deals) : i # 0 /\ i < next
      BY <1>0, KindsNow DEF Known, KindsInv
    <2>10. \A o \in objects' :
             /\ o.on # 0
             /\ \/ IsNamed(o.on) \/ IsPerson(o.on) \/ IsDeal(o.on)
                \/ kind \in {"contact", "deal"} /\ o.on \in N
      <3> TAKE o \in objects'
      <3>1. CASE o \in objects BY <1>0, <3>1, KindsNow
      <3>2. CASE o.on \in Ids(contacts') BY <2>4, <2>8, <2>9, <3>2 DEF IsPerson
      <3>3. CASE o.on \in Ids(deals') BY <2>4, <2>8, <2>9, <3>3 DEF IsDeal
      <3> QED BY <2>5, <3>1, <3>2, <3>3
    <2>11. \A i \in Nat : i < next => i < next' BY <1>0, <2>1
    <2>12. \A x \in timeline' : x.on < next'
      <3>1. \A x \in timeline : x.on < next'
        BY <1>0, <2>11, KindsNow DEF TablesOK, Activities
      <3>2. \A i \in Ids(contacts) \cup Ids(companies) \cup Ids(deals) : i < next'
        BY <1>0, <2>9, <2>11, KnownTyped
      <3>3. \A x \in timeline' : x \in timeline \/ x.on \in Ids(contacts) \cup Ids(companies) \cup Ids(deals) \cup N
        BY <2>5, <2>8
      <3> QED BY <2>4, <3>1, <3>2, <3>3
    <2>13. \A x \in trail' : Tells(x) => x[2] < next'
      <3> DEFINE e0 == <<"import.committed", 0>>
      <3>1. ~Tells(e0) BY DEF Tells
      <3>2. trail' = trail \cup {e0} BY <2>1 DEF EmitAudit
      <3> HIDE DEF e0
      <3>3. \A x \in trail : Tells(x) => x[2] < next'
        BY <1>0, <2>11, KindsNow DEF TablesOK
      <3> QED BY <3>1, <3>2, <3>3
    <2>14. \A m \in mappings' : IsNamed(m.id) BY <1>0, KindsNow
    <2> QED BY <1>0, <2>1, <2>2, <2>4, <2>5, <2>6, <2>7, <2>10, <2>12, <2>13, <2>14, SomeBorn
  <1> QED BY <1>1, <1>2

LEMMA ResolveKinds ==
  ASSUME TypeOK, KindsInv, NEW c \in Clients, Resolve(c) PROVE KindsInv'
  <1>0. HttpOK /\ TablesOK /\ Nothing /\ UNCHANGED mappings BY DEF TypeOK, Resolve
  <1> DEFINE ev == http[c].ev
             found == IF ev.kind = "enriched" THEN upsertConnectorContact(ev)
                      ELSE findOrCreateInvitationDeal(ev)
             contact == IF ev.kind = "enriched" THEN {} ELSE resolveCandidateContact(ev)
             q == [pc |-> "resolved", ev |-> ev, found |-> found, contact |-> contact]
             N == {}
  <1>1. Turns(c, q) BY DEF Resolve
  <1>2. q.pc = "resolved" /\ q.found = found OBVIOUS
  <1>3. \A i \in found : (\E m \in mappings : m.id = i) \/ i \in Ids(contacts)
    BY <1>0, ByEmailIs DEF upsertConnectorContact, findOrCreateInvitationDeal, Mapped
  <1> HIDE DEF q, found, contact
  <1>4. http'[c] = q /\ \A d \in Clients : d # c => http'[d] = http[d] BY <1>0, <1>1, TurnsIs
  <1>5. UNCHANGED <<contacts, companies, deals, objects, mappings, timeline, trail, next>>
    BY <1>0 DEF Nothing, records, beside, books
  <1>6. \A d \in Clients : http'[d].pc \in Merging => http'[d] = http[d]
    BY <1>2, <1>4 DEF Merging
  <1>7. \A i \in Nat \ {0} : /\ IsPerson(i)' => IsPerson(i)
                             /\ IsFirm(i)' => IsFirm(i)
                             /\ IsDeal(i)' => IsDeal(i)
    <2>1. \A i \in Nat \ {0} : IsPerson(i)' => IsPerson(i)
      BY <1>5, <1>6 DEF IsPerson, MergesContacts
    <2>2. \A i \in Nat \ {0} : IsFirm(i)' => IsFirm(i)
      BY <1>5, <1>6 DEF IsFirm, MergesCompanies
    <2>3. \A i \in Nat \ {0} : IsDeal(i)' => IsDeal(i) BY <1>5 DEF IsDeal
    <2> QED BY <2>1, <2>2, <2>3
  <1>8. \A i \in Nat : IsNamed(i)' => IsNamed(i) \/ i \in Ids(contacts)
    BY <1>2, <1>3, <1>4, <1>5 DEF IsNamed
  <1>9. \A i \in Nat \ {0} : IsTold(i)' => i < next' BY <1>5 DEF IsTold, KindsInv
  <1>10. 0 \notin Known' /\ ~IsNamed(0)' BY <1>5, <1>8 DEF KindsInv, Known, Ids
  <1>11. \A d \in Clients : http'[d].pc \in Merging => 0 \notin {http'[d].survivor, http'[d].loser}
    BY <1>6 DEF KindsInv
  <1>12. \A i \in Nat \ {0} :
           /\ IsPerson(i)' => IsPerson(i) \/ i \in N
           /\ IsFirm(i)' => IsFirm(i) \/ i \in N
           /\ IsDeal(i)' => IsDeal(i) \/ i \in N
           /\ IsNamed(i)' => IsNamed(i) \/ IsPerson(i) \/ IsDeal(i) \/ i \in N \cup N
           /\ IsTold(i)' => i < next'
    <2>1. \A i \in Ids(contacts) : IsPerson(i) BY DEF IsPerson
    <2> QED BY <1>7, <1>8, <1>9, <2>1
  <1>13. next \in Nat \ {0} /\ next' \in Nat /\ next' >= next BY <1>0, <1>5, KindsNow
  <1>14. N \cap N = {} /\ N \cup N \cup N \subseteq next..(next' - 1) OBVIOUS
  <1> HIDE DEF N
  <1> QED BY <1>10, <1>11, <1>12, <1>13, <1>14, KindsStep

(* What a connector's handler does to the mappings and the bags.            *)
LEMMA MapBooks ==
  ASSUME TablesOK, KindsInv, NEW ext, NEW type, NEW id, NEW linked, MapTo(ext, type, id, linked)
  PROVE  \A m \in mappings' : IsNamed(m.id) \/ m.id = id
  <1> DEFINE m0 == [ext |-> ext, type |-> type, id |-> id]
  <1>1. m0.id = id OBVIOUS
  <1>2. mappings' \subseteq mappings \cup {m0} BY DEF MapTo
  <1>3. \A m \in mappings : IsNamed(m.id) BY KindsNow
  <1> HIDE DEF m0
  <1> QED BY <1>1, <1>2, <1>3

LEMMA BagBooks ==
  ASSUME NEW id, NEW key, NEW n, MergedBag(id, key, n)
  PROVE  \A o \in objects' : o \in objects \/ o.on = id
  <1> DEFINE o0 == [on |-> id, n |-> n, vals |-> BagOf(objects, id) \cup {key}]
  <1>1. o0.on = id OBVIOUS
  <1>2. objects' \subseteq objects \cup {o0} BY DEF MergedBag
  <1> HIDE DEF o0
  <1> QED BY <1>1, <1>2

(* Where a connector's handler works: on the record found, or on a new one. *)
LEMMA HandlerIs ==
  ASSUME TypeOK, KindsInv, NEW c \in Clients, http[c].pc = "resolved"
  PROVE  LET q == http[c]
             id == IF q.found = {} THEN next ELSE Least(q.found) IN
         /\ id \in Nat /\ next \in Nat \ {0} /\ id # 0
         /\ q.found # {} => IsNamed(id) /\ id < next
         /\ q.found = {} => id = next
         /\ \A d \in Table(q) :
              \/ d \in deals
              \/ q.found = {} /\ d.id = next /\ d.company = 0 /\ (d.contact = 0 \/ IsPerson(d.contact))
  <1> DEFINE q == http[c]
             id == IF q.found = {} THEN next ELSE Least(q.found)
  <1>1. /\ q.found \subseteq Nat /\ id \in Nat
        /\ q.found # {} => id \in q.found
        /\ Deal(q).id = next /\ Deal(q).company = 0
        /\ Deal(q).contact \in Ids(contacts) \cup {0}
    BY ResolvedTyped
  <1>2. next \in Nat \ {0} BY KindsNow DEF TypeOK
  <1>3. q.found # {} => IsNamed(id) BY <1>1, Zenon DEF IsNamed
  <1>4. ~IsNamed(0) /\ \A i \in Nat \ {0} : IsNamed(i) => i < next BY DEF KindsInv
  <1>5. \A d \in Table(q) : d \in deals \/ (q.found = {} /\ d = Deal(q))
    BY DEF Table
  <1>6. Deal(q).contact = 0 \/ IsPerson(Deal(q).contact) BY <1>1 DEF IsPerson
  <1> HIDE DEF q
  <1> QED BY <1>1, <1>2, <1>3, <1>4, <1>5, <1>6 DEF q

LEMMA EnrichedKinds ==
  ASSUME TypeOK, KindsInv, NEW c \in Clients, handleCandidateEnriched(c) PROVE KindsInv'
  <1> DEFINE q == http[c]
             ev == q.ev
             id == IF q.found = {} THEN next ELSE Least(q.found)
             minted == IF q.found = {} THEN 1 ELSE 0
             N == IF q.found = {} THEN {next} ELSE {}
  <1>0. HttpOK /\ TablesOK /\ q.pc = "resolved" BY DEF TypeOK, handleCandidateEnriched, Continues
  <1>1. /\ id \in Nat /\ next \in Nat \ {0} /\ id # 0
        /\ q.found # {} => IsNamed(id) /\ id < next
        /\ q.found = {} => id = next
    BY <1>0, HandlerIs
  <1>2. /\ next' = next + minted + (IF ev.scored THEN 1 ELSE 0)
        /\ IF q.found = {}
           THEN /\ contacts' = contacts \cup {[id |-> id, email |-> ev.email, company |-> 0]}
                /\ MapTo(ev.ext, "contact", id, TRUE)
           ELSE /\ contacts' = {IF r.id = id /\ ev.email # NoEmail THEN [r EXCEPT !.email = ev.email]
                                ELSE r : r \in contacts}
                /\ UNCHANGED mappings
        /\ IF ev.scored THEN MergedBag(id, "score", next + minted) ELSE UNCHANGED objects
        /\ EmitAudit("enriched", id) /\ EmitActivity(id, "none")
        /\ UNCHANGED <<companies, deals>> /\ Answers(c)
    BY DEF handleCandidateEnriched, emitEntityActivity
  <1>3. PlainTurn(c) BY <1>0, <1>2, AnswerIsPlain
  <1>4. minted = (IF q.found = {} THEN 1 ELSE 0) /\ (q.found = {} => next \in N)
    OBVIOUS
  <1>5. \A i \in N : i = next /\ q.found = {} OBVIOUS
  <1> HIDE DEF q, ev, id, minted, N
  <1>6. next' \in Nat /\ next' >= next /\ id < next' /\ N \subseteq next..(next' - 1)
    BY <1>1, <1>2, <1>4, <1>5
  <1>7. (\A x \in timeline' : x.on < next') /\ (\A e \in trail' : Tells(e) => e[2] < next')
    BY <1>0, <1>1, <1>2, <1>6, BooksKept
  <1>8. \A r \in contacts' : r.id \in Ids(contacts) \/ r.id \in N
    <2>1. CASE q.found = {}
      <3> DEFINE r0 == [id |-> id, email |-> ev.email, company |-> 0]
      <3>1. r0.id = id OBVIOUS
      <3>2. contacts' = contacts \cup {r0} BY <1>2, <2>1
      <3> HIDE DEF r0
      <3> QED BY <1>1, <1>4, <2>1, <3>1, <3>2 DEF Ids
    <2>2. CASE q.found # {}
      <3>1. \A r \in contacts : [r EXCEPT !.email = ev.email].id = r.id
        BY <1>0 DEF TablesOK, ContactRecords
      <3>2. contacts' = {IF r.id = id /\ ev.email # NoEmail THEN [r EXCEPT !.email = ev.email]
                         ELSE r : r \in contacts}
        BY <1>2, <2>2
      <3>3. \A t \in contacts' : \E r \in contacts : t.id = r.id BY <3>1, <3>2
      <3> QED BY <3>3 DEF Ids
    <2> QED BY <2>1, <2>2
  <1>9. \A m \in mappings' : IsNamed(m.id) \/ m.id \in N
    <2>1. CASE q.found = {}
      <3>1. MapTo(ev.ext, "contact", id, TRUE) BY <1>2, <2>1
      <3>2. \A m \in mappings' : IsNamed(m.id) \/ m.id = id BY <1>0, <3>1, MapBooks
      <3> QED BY <1>1, <1>4, <2>1, <3>2
    <2>2. CASE q.found # {} BY <1>0, <1>2, <2>2, KindsNow
    <2> QED BY <2>1, <2>2
  <1>10. \A o \in objects' : o.on # 0 /\ (IsNamed(o.on) \/ o.on \in N)
    <2>1. \A o \in objects' : o \in objects \/ o.on = id BY <1>2, BagBooks
    <2> QED BY <1>0, <1>1, <1>4, <2>1, KindsNow
  <1> DEFINE kind == "contact"
  <1>11. /\ \A r \in contacts' : r.id \in Ids(contacts) \/ (kind = "contact" /\ r.id \in N)
         /\ \A m \in mappings' : IsNamed(m.id) \/ (kind \in {"contact", "deal"} /\ m.id \in N)
         /\ \A o \in objects' :
              /\ o.on # 0
              /\ \/ IsNamed(o.on) \/ IsPerson(o.on) \/ IsDeal(o.on)
                 \/ kind \in {"contact", "deal"} /\ o.on \in N
    BY <1>8, <1>9, <1>10
  <1>12. /\ \A r \in companies' : r.id \in Ids(companies)
         /\ \A d \in deals' : /\ d.id \in Ids(deals)
                              /\ d.contact = 0 \/ IsPerson(d.contact)
                              /\ d.company = 0 \/ IsFirm(d.company)
    BY <1>0, <1>2, KindsNow
  <1> HIDE DEF kind
  <1> QED BY <1>0, <1>3, <1>6, <1>7, <1>11, <1>12, SomeBorn

(* What findOrCreateInvitationDeal leaves in the tables.                    *)
LEMMA FindOrCreateKinds ==
  ASSUME TypeOK, KindsInv, NEW c \in Clients, http[c].pc = "resolved", PlainTurn(c),
         next' \in Nat, next' >= next,
         http[c].found = {} => next < next',
         NEW id, id = IF http[c].found = {} THEN next ELSE Least(http[c].found),
         FindOrCreate(c, id),
         NEW D, D \subseteq DealRecords,
         \A d \in D : \E t \in Table(http[c]) :
           d.id = t.id /\ d.contact = t.contact /\ d.company = t.company,
         deals' = D, UNCHANGED <<contacts, companies>>,
         \A o \in objects' : o \in objects \/ o.on = id,
         NEW stage, EmitAudit("invitation", id), EmitActivity(id, stage)
  PROVE  KindsInv'
  <1> DEFINE q == http[c]
             N == IF q.found = {} THEN {next} ELSE {}
             kind == "deal"
  <1>0. HttpOK /\ TablesOK BY DEF TypeOK
  <1>1. /\ id \in Nat /\ next \in Nat \ {0} /\ id # 0
        /\ q.found # {} => IsNamed(id) /\ id < next
        /\ q.found = {} => id = next
        /\ \A d \in Table(q) :
             \/ d \in deals
             \/ q.found = {} /\ d.id = next /\ d.company = 0 /\ (d.contact = 0 \/ IsPerson(d.contact))
    BY HandlerIs
  <1>2. /\ q.found = {} => next \in N
        /\ \A i \in N : i = next /\ q.found = {}
    OBVIOUS
  <1> HIDE DEF N
  <1>3. id < next' /\ N \subseteq next..(next' - 1) BY <1>1, <1>2
  <1>4. (\A x \in timeline' : x.on < next') /\ (\A e \in trail' : Tells(e) => e[2] < next')
    BY <1>0, <1>1, <1>3, BooksKept
  <1>5. \A d \in deals' : /\ d.id \in Ids(deals) \/ (kind = "deal" /\ d.id \in N)
                          /\ d.contact = 0 \/ IsPerson(d.contact)
                          /\ d.company = 0 \/ IsFirm(d.company)
    <2> SUFFICES ASSUME NEW d \in D
                 PROVE  /\ d.id \in Ids(deals) \/ d.id \in N
                        /\ d.contact = 0 \/ IsPerson(d.contact)
                        /\ d.company = 0 \/ IsFirm(d.company)
      OBVIOUS
    <2>1. PICK t \in Table(q) : d.id = t.id /\ d.contact = t.contact /\ d.company = t.company
      OBVIOUS
    <2>2. CASE t \in deals BY <1>0, <2>1, <2>2, KindsNow
    <2>3. CASE q.found = {} /\ t.id = next /\ t.company = 0 /\ (t.contact = 0 \/ IsPerson(t.contact))
      BY <1>2, <2>1, <2>3
    <2> QED BY <1>1, <2>2, <2>3
  <1>6. \A m \in mappings' : IsNamed(m.id) \/ (kind \in {"contact", "deal"} /\ m.id \in N)
    <2>1. CASE q.found = {}
      <3> DEFINE linked == q.contact # {}
                 ext == q.ev.ext
      <3>1. MapTo(ext, "deal", id, linked) BY <2>1 DEF FindOrCreate
      <3> HIDE DEF linked, ext, q
      <3>2. \A m \in mappings' : IsNamed(m.id) \/ m.id = id BY <1>0, <3>1, MapBooks
      <3> QED BY <1>1, <1>2, <2>1, <3>2
    <2>2. CASE q.found # {}
      BY <1>0, <2>2, KindsNow DEF FindOrCreate
    <2> QED BY <2>1, <2>2
  <1>7. \A o \in objects' :
          /\ o.on # 0
          /\ \/ IsNamed(o.on) \/ IsPerson(o.on) \/ IsDeal(o.on)
             \/ kind \in {"contact", "deal"} /\ o.on \in N
    BY <1>0, <1>1, <1>2, KindsNow
  <1>8. /\ \A r \in contacts' : r.id \in Ids(contacts)
        /\ \A r \in companies' : r.id \in Ids(companies)
    BY <1>0, KindsNow
  <1> HIDE DEF q, kind
  <1> QED BY <1>0, <1>3, <1>4, <1>5, <1>6, <1>7, <1>8, SomeBorn

LEMMA StageKinds ==
  ASSUME TypeOK, KindsInv, NEW c \in Clients, handleInvitationStage(c) PROVE KindsInv'
  <1> DEFINE q == http[c]
             id == IF q.found = {} THEN next ELSE Least(q.found)
             target == Invitation[q.ev.kind]
             Staged(d) == [d EXCEPT !.stage = target.stage, !.closed = @ \/ target.closing]
             D == {IF d.id = id /\ target.stage # "" THEN Staged(d) ELSE d : d \in Table(q)}
  <1>0. HttpOK /\ TablesOK /\ q.pc = "resolved" /\ next \in Nat
    BY KnownTyped DEF TypeOK, handleInvitationStage, Continues
  <1>1. /\ IF q.found = {} THEN Mints ELSE UNCHANGED next
        /\ FindOrCreate(c, id) /\ deals' = D
        /\ EmitAudit("invitation", id) /\ EmitActivity(id, Told(target))
        /\ UNCHANGED <<contacts, companies, objects>> /\ Answers(c)
    BY DEF handleInvitationStage, emitEntityActivity, beside
  <1>2. Table(q) \subseteq DealRecords BY <1>0, TableTyped
  <1>3. \A d \in DealRecords :
          /\ Staged(d).id = d.id /\ Staged(d).contact = d.contact /\ Staged(d).company = d.company
    BY DEF DealRecords
  <1>5. TypeOK' BY StageTyped
  <1> HIDE DEF Staged
  <1>4. \A d \in D : \E t \in Table(q) : d.id = t.id /\ d.contact = t.contact /\ d.company = t.company
    BY <1>2, <1>3
  <1> HIDE DEF D, target
  <1>6. D \subseteq DealRecords BY <1>1, <1>5 DEF TypeOK, TablesOK
  <1>7. PlainTurn(c) BY <1>0, <1>1, AnswerIsPlain
  <1>8. next' \in Nat /\ next' >= next /\ (q.found = {} => next < next') BY <1>0, <1>1 DEF Mints
  <1> DEFINE stage == Told(target)
  <1>9. EmitActivity(id, stage) /\ \A o \in objects' : o \in objects \/ o.on = id BY <1>1
  <1>10. id = IF http[c].found = {} THEN next ELSE Least(http[c].found) OBVIOUS
  <1>11. \A d \in D : \E t \in Table(http[c]) :
           d.id = t.id /\ d.contact = t.contact /\ d.company = t.company
    BY <1>4
  <1>12. http[c].pc = "resolved" /\ (http[c].found = {} => next < next') BY <1>0, <1>8
  <1> HIDE DEF stage, id, q
  <1> QED BY <1>1, <1>6, <1>7, <1>8, <1>9, <1>10, <1>11, <1>12, FindOrCreateKinds

LEMMA RepliedKinds ==
  ASSUME TypeOK, KindsInv, NEW c \in Clients, handleInvitationReplyPositive(c) PROVE KindsInv'
  <1> DEFINE q == http[c]
             id == IF q.found = {} THEN next ELSE Least(q.found)
             minted == IF q.found = {} THEN 1 ELSE 0
             D == Table(q)
             stage == "unsaid"
  <1>0. HttpOK /\ TablesOK /\ q.pc = "resolved" /\ next \in Nat
    BY KnownTyped DEF TypeOK, handleInvitationReplyPositive, Continues
  <1>1. /\ next' = next + minted + 1
        /\ FindOrCreate(c, id) /\ deals' = D
        /\ MergedBag(id, "follow_up", next + minted)
        /\ EmitAudit("invitation", id) /\ EmitActivity(id, stage)
        /\ UNCHANGED <<contacts, companies>> /\ Answers(c)
    BY DEF handleInvitationReplyPositive, emitEntityActivity
  <1>2. D \subseteq DealRecords BY <1>0, TableTyped
  <1>3. \A d \in D : \E t \in Table(http[c]) :
          d.id = t.id /\ d.contact = t.contact /\ d.company = t.company
    OBVIOUS
  <1>4. PlainTurn(c) BY <1>0, <1>1, AnswerIsPlain
  <1>5. next' \in Nat /\ next' >= next /\ next < next' BY <1>0, <1>1
  <1>6. id = IF http[c].found = {} THEN next ELSE Least(http[c].found) OBVIOUS
  <1>7. http[c].pc = "resolved" BY <1>0
  <1> HIDE DEF D, stage, id, minted, q
  <1>8. \A o \in objects' : o \in objects \/ o.on = id BY <1>1, BagBooks
  <1> QED BY <1>1, <1>2, <1>3, <1>4, <1>5, <1>6, <1>7, <1>8, FindOrCreateKinds

LEMMA KindsKept ==
  ASSUME TypeOK, KindsInv, [WorkspaceNext]_workspaceVars PROVE KindsInv'
  <1>0. TablesOK /\ HttpOK BY DEF TypeOK
  <1>1. CASE RequestStep
    BY <1>1, RequestKinds, NotesKinds DEF RequestStep, connectorVars
  <1>2. ASSUME Nothing, UNCHANGED <<http, mappings>> PROVE KindsInv'
    BY <1>2 DEF Nothing, records, beside, books, KindsInv, Apart, IsPerson, IsFirm, IsDeal, IsNamed,
       IsTold, Ids, Known
  <1>3. CASE WalkStep
    BY <1>2, <1>3 DEF WalkStep, Walks, BeginWalk, ReadPage, connectorVars
  <1>4. CASE DedupStep BY <1>4, DedupKinds
  <1>5. CASE ImportStep BY <1>5, ImportKinds
  <1>6. CASE ConnectorsNext
    <2>1. ASSUME NEW c \in Clients, PostConnectorEvent(c) PROVE KindsInv'
      BY <1>0, <2>1, PostIsPlain, NothingKinds DEF PostConnectorEvent, connectorVars
    <2>2. ASSUME NEW c \in Clients, Failed(c) PROVE KindsInv'
      BY <1>0, <2>2, AnswerIsPlain, NothingKinds DEF Failed
    <2> QED BY <1>6, <2>1, <2>2, ResolveKinds, EnrichedKinds, StageKinds, RepliedKinds DEF ConnectorsNext
  <1>7. CASE UNCHANGED workspaceVars
    BY <1>2, <1>7 DEF workspaceVars, crmVars, connectorVars, Nothing
  <1> QED BY <1>1, <1>3, <1>4, <1>5, <1>6, <1>7 DEF WorkspaceNext

LEMMA KindsInit ==
  ASSUME WorkspaceInit PROVE KindsInv
  <1>1. CrmInit /\ mappings = {} BY DEF WorkspaceInit, ConnectorsInit
  <1> DEFINE name == CHOOSE n \in Names : TRUE
             email == CHOOSE e \in Emails : TRUE
  <1>2. /\ companies = {[id |-> 1, name |-> name, domain |-> Blank]}
        /\ contacts = {[id |-> 2, email |-> email, company |-> 1],
                       [id |-> 3, email |-> NoEmail, company |-> 0]}
        /\ deals = {[id |-> 4, contact |-> 2, company |-> 1, stage |-> "discovery", closed |-> FALSE]}
        /\ objects = {} /\ trail = {} /\ next = 6
        /\ timeline = {[on |-> i, stage |-> "none"] : i \in 1..3} \cup {[on |-> 4, stage |-> "discovery"]}
        /\ http = [c \in Clients |-> Quiet]
    BY <1>1 DEF CrmInit
  <1> HIDE DEF name, email
  <1>3. \A c \in Clients : http[c].pc = "idle" BY <1>2, QuietTyped
  <1>4. Ids(contacts) = {2, 3} /\ Ids(companies) = {1} /\ Ids(deals) = {4}
    BY <1>2 DEF Ids
  <1>5. \A d \in deals : d.contact = 2 /\ d.company = 1 BY <1>2
  <1>6. \A i : /\ IsPerson(i) => i \in {2, 3}
               /\ IsFirm(i) => i = 1
               /\ IsDeal(i) => i = 4
               /\ ~IsNamed(i)
    BY <1>1, <1>2, <1>3, <1>4, <1>5 DEF IsPerson, IsFirm, IsDeal, IsNamed, MergesContacts, MergesCompanies, Merging
  <1>7. \A i : IsTold(i) => i \in 1..4 BY <1>2 DEF IsTold
  <1>8. Known = {1, 2, 3, 4} BY <1>4 DEF Known
  <1> QED BY <1>2, <1>3, <1>6, <1>7, <1>8 DEF KindsInv, Apart, Merging

-----------------------------------------------------------------------------
(* Stages: what the timeline tells of a deal                                *)

Says(x, i, s) == x.on = i /\ x.stage = s
LEMMA StageIsToldIs ==
  StageIsTold <=>
    \A d \in deals :
      \/ \E x \in timeline : Says(x, d.id, d.stage)
      \/ /\ \A x \in timeline : x.on = d.id => x.stage \notin Stages
         /\ \E x \in timeline : Says(x, d.id, "unsaid")
  BY DEF StageIsTold, Says

(* Nothing is told but of deals that are new, and nothing moves.            *)
LEMMA QuietTelling ==
  ASSUME StageIsTold, timeline \subseteq timeline',
         \A x \in timeline' : x \in timeline \/ x.stage \notin Stages,
         \A e \in deals' :
           \/ \E d \in deals : d.id = e.id /\ d.stage = e.stage
           \/ /\ \A x \in timeline : x.on # e.id
              /\ \E x \in timeline' : Says(x, e.id, "unsaid")
  PROVE  StageIsTold'
  <1>1. \A d \in deals :
          \/ \E x \in timeline : Says(x, d.id, d.stage)
          \/ /\ \A x \in timeline : x.on = d.id => x.stage \notin Stages
             /\ \E x \in timeline : Says(x, d.id, "unsaid")
    BY StageIsToldIs
  <1>2. ASSUME NEW e \in deals'
        PROVE  \/ \E x \in timeline' : Says(x, e.id, e.stage)
               \/ /\ \A x \in timeline' : x.on = e.id => x.stage \notin Stages
                  /\ \E x \in timeline' : Says(x, e.id, "unsaid")
    <2>1. CASE \E d \in deals : d.id = e.id /\ d.stage = e.stage
      <3>1. PICK d \in deals : d.id = e.id /\ d.stage = e.stage BY <2>1
      <3>2. CASE \E x \in timeline : Says(x, d.id, d.stage) BY <3>1, <3>2
      <3>3. CASE /\ \A x \in timeline : x.on = d.id => x.stage \notin Stages
                 /\ \E x \in timeline : Says(x, d.id, "unsaid")
        BY <3>1, <3>3
      <3> QED BY <1>1, <3>2, <3>3
    <2>2. CASE /\ \A x \in timeline : x.on # e.id
               /\ \E x \in timeline' : Says(x, e.id, "unsaid")
      BY <2>2
    <2> QED BY <2>1, <2>2
  <1> QED BY <1>2 DEF StageIsTold, Says

(* One deal is put in a stage, and the stage is told.                       *)
LEMMA LoudTelling ==
  ASSUME StageIsTold, NEW id, NEW stage, EmitActivity(id, stage),
         \A e \in deals' :
           \/ e.id = id /\ e.stage = stage
           \/ e.id # id /\ \E d \in deals : d.id = e.id /\ d.stage = e.stage
  PROVE  StageIsTold'
  <1> DEFINE x0 == [on |-> id, stage |-> stage]
  <1>0. x0.on = id /\ x0.stage = stage /\ timeline' = timeline \cup {x0} BY DEF EmitActivity
  <1> HIDE DEF x0
  <1>1. \A d \in deals :
          \/ \E x \in timeline : Says(x, d.id, d.stage)
          \/ /\ \A x \in timeline : x.on = d.id => x.stage \notin Stages
             /\ \E x \in timeline : Says(x, d.id, "unsaid")
    BY StageIsToldIs
  <1>2. ASSUME NEW e \in deals'
        PROVE  \/ \E x \in timeline' : Says(x, e.id, e.stage)
               \/ /\ \A x \in timeline' : x.on = e.id => x.stage \notin Stages
                  /\ \E x \in timeline' : Says(x, e.id, "unsaid")
    <2>1. CASE e.id = id /\ e.stage = stage BY <1>0, <2>1 DEF Says
    <2>2. CASE e.id # id /\ \E d \in deals : d.id = e.id /\ d.stage = e.stage
      <3>1. PICK d \in deals : d.id = e.id /\ d.stage = e.stage BY <2>2
      <3>2. CASE \E x \in timeline : Says(x, d.id, d.stage) BY <1>0, <3>1, <3>2
      <3>3. CASE /\ \A x \in timeline : x.on = d.id => x.stage \notin Stages
                 /\ \E x \in timeline : Says(x, d.id, "unsaid")
        BY <1>0, <2>2, <3>1, <3>3
      <3> QED BY <1>1, <3>2, <3>3
    <2> QED BY <2>1, <2>2
  <1> QED BY <1>2 DEF StageIsTold, Says

LEMMA QuietActivity ==
  ASSUME StageIsTold, NEW id, NEW stage, stage \notin Stages, EmitActivity(id, stage),
         \A e \in deals' :
           \/ \E d \in deals : d.id = e.id /\ d.stage = e.stage
           \/ stage = "unsaid" /\ e.id = id /\ \A x \in timeline : x.on # id
  PROVE  StageIsTold'
  <1> DEFINE x0 == [on |-> id, stage |-> stage]
  <1>1. x0.on = id /\ x0.stage = stage /\ timeline' = timeline \cup {x0} BY DEF EmitActivity
  <1> HIDE DEF x0
  <1>2. stage = "unsaid" => \E x \in timeline' : Says(x, id, "unsaid") BY <1>1 DEF Says
  <1> QED BY <1>1, <1>2, QuietTelling

LEMMA NothingTold ==
  ASSUME StageIsTold, UNCHANGED <<deals, timeline>> PROVE StageIsTold'
  BY DEF StageIsTold

LEMMA StageOpsTold ==
  ASSUME TablesOK, StageIsTold, NEW id \in Nat,
         NEW in \in [contact : Nat, company : Nat, stage : Stages], NEW any
  PROVE  /\ UpdateContact(id, any) => StageIsTold'
         /\ DeleteContact(id) => StageIsTold'
         /\ UpdateCompany(id, any) => StageIsTold'
         /\ DeleteCompany(id) => StageIsTold'
         /\ UpdateDeal(id, in) => StageIsTold'
         /\ DeleteDeal(id) => StageIsTold'
  <1>1. Nothing => StageIsTold' BY NothingTold DEF Nothing, records, books
  <1>2. "none" \notin Stages BY DEF Stages
  <1>3. EmitActivity(id, "none") /\ (\A e \in deals' : \E d \in deals : d.id = e.id /\ d.stage = e.stage)
          => StageIsTold'
    BY <1>2, QuietActivity
  <1>4. UpdateContact(id, any) => StageIsTold'
    BY <1>1, <1>3 DEF UpdateContact, emitEntityActivity
  <1>5. DeleteContact(id) => StageIsTold'
    BY <1>1, <1>3, StatementsKeepIds DEF DeleteContact, emitEntityActivity
  <1>6. UpdateCompany(id, any) => StageIsTold'
    BY <1>1, <1>3 DEF UpdateCompany, emitEntityActivity
  <1>7. DeleteCompany(id) => StageIsTold'
    BY <1>1, <1>3, StatementsKeepIds DEF DeleteCompany, emitEntityActivity
  <1>8. ASSUME UpdateDeal(id, in), ~Nothing PROVE StageIsTold'
    <2>1. setDeal(id, in) /\ EmitActivity(id, in.stage)
      BY <1>8 DEF UpdateDeal, emitEntityActivity
    <2> DEFINE Set(d) == [d EXCEPT !.contact = in.contact, !.company = in.company, !.stage = in.stage]
    <2>2. \A d \in deals : Set(d).id = d.id /\ Set(d).stage = in.stage
      BY DEF TablesOK, DealRecords
    <2>4. deals' = {IF d.id = id THEN Set(d) ELSE d : d \in deals} BY <2>1 DEF setDeal
    <2> HIDE DEF Set
    <2>3. \A e \in deals' :
            \/ e.id = id /\ e.stage = in.stage
            \/ e.id # id /\ \E d \in deals : d.id = e.id /\ d.stage = e.stage
      BY <2>2, <2>4
    <2> QED BY <2>1, <2>3, LoudTelling
  <1>9. DeleteDeal(id) => StageIsTold'
    BY <1>1, <1>3 DEF DeleteDeal, dropDeal, emitEntityActivity
  <1> QED BY <1>1, <1>4, <1>5, <1>6, <1>7, <1>8, <1>9

LEMMA CreationsTold ==
  ASSUME TypeOK, KindsInv, StageIsTold, NEW c \in Clients,
         CreateContact(c) \/ CreateCompany(c) \/ CreateDeal(c) \/ TransitionDealStage(c)
  PROVE  StageIsTold'
  <1>0. TablesOK /\ "none" \notin Stages BY DEF TypeOK, Stages
  <1>1. Nothing => StageIsTold' BY NothingTold DEF Nothing, records, books
  <1>2. ASSUME CreateContact(c) \/ CreateCompany(c), ~Nothing PROVE StageIsTold'
    <2>1. EmitActivity(next, "none") /\ UNCHANGED deals
      BY <1>2 DEF CreateContact, CreateCompany, emitEntityActivity
    <2> QED BY <1>0, <2>1, QuietActivity
  <1>3. ASSUME CreateDeal(c), ~Nothing PROVE StageIsTold'
    <2> DEFINE in == http[c].in
               d0 == [id |-> next, contact |-> in.contact, company |-> in.company,
                      stage |-> in.stage, closed |-> FALSE]
    <2>0. d0.id = next /\ d0.stage = in.stage OBVIOUS
    <2>1. deals' = deals \cup {d0} /\ EmitActivity(next, in.stage)
      BY <1>3 DEF CreateDeal, insertDeal, emitEntityActivity
    <2> HIDE DEF d0
    <2>2. next \in Nat /\ \A d \in deals : d.id < next BY <1>0, KindsNow
    <2>3. \A e \in deals' :
            \/ e.id = next /\ e.stage = in.stage
            \/ e.id # next /\ \E d \in deals : d.id = e.id /\ d.stage = e.stage
      BY <2>0, <2>1, <2>2
    <2> QED BY <2>1, <2>3, LoudTelling
  <1>4. ASSUME TransitionDealStage(c), ~Nothing PROVE StageIsTold'
    <2> DEFINE id == http[c].id
               stage == http[c].stage
               Set(d) == [d EXCEPT !.stage = stage]
    <2>1. deals' = {IF d.id = id THEN Set(d) ELSE d : d \in deals} /\ EmitActivity(id, stage)
      BY <1>4 DEF TransitionDealStage, setDealStage
    <2>2. \A d \in deals : Set(d).id = d.id /\ Set(d).stage = stage
      BY <1>0 DEF TablesOK, DealRecords
    <2> HIDE DEF Set, id, stage
    <2>3. \A e \in deals' :
            \/ e.id = id /\ e.stage = stage
            \/ e.id # id /\ \E d \in deals : d.id = e.id /\ d.stage = e.stage
      BY <2>1, <2>2
    <2> QED BY <2>1, <2>3, LoudTelling
  <1> QED BY <1>1, <1>2, <1>3, <1>4

LEMMA RequestTold ==
  ASSUME TypeOK, KindsInv, StageIsTold, NEW c \in Clients, RecordWrites(c) \/ NoteWrites(c)
  PROVE  StageIsTold'
  <1>0. TablesOK /\ Targets \subseteq Nat /\ "none" \notin Stages BY InputsTyped DEF TypeOK, Stages
  <1>1. Nothing => StageIsTold' BY NothingTold DEF Nothing, records, books
  <1>2. CASE contactHandlers(c)
    <2>1. [contact |-> 0, company |-> 0, stage |-> "closed"] \in [contact : Nat, company : Nat, stage : Stages]
      BY DEF Stages
    <2> QED BY <1>0, <1>1, <1>2, <2>1, StageOpsTold DEF contactHandlers, Posts
  <1>3. CASE companyHandlers(c)
    <2>1. [contact |-> 0, company |-> 0, stage |-> "closed"] \in [contact : Nat, company : Nat, stage : Stages]
      BY DEF Stages
    <2> QED BY <1>0, <1>1, <1>3, <2>1, StageOpsTold DEF companyHandlers, Posts
  <1>4. CASE dealHandlers(c)
    <2>1. [contact |-> 0, company |-> 0, stage |-> "closed"] \in [contact : Nat, company : Nat, stage : Stages]
      BY DEF Stages
    <2> QED BY <1>0, <1>1, <1>4, <2>1, InputsTyped, StageOpsTold DEF dealHandlers, Posts
  <1>5. CASE PatchDealStage(c) BY <1>1, <1>5 DEF PatchDealStage
  <1>6. CASE CreateContact(c) \/ CreateCompany(c) \/ CreateDeal(c) \/ TransitionDealStage(c)
    BY <1>6, CreationsTold
  <1>7. CASE NoteWrites(c)
    <2>1. UNCHANGED deals
      BY <1>7 DEF NoteWrites, createNote, UpdateNote, DeleteNote, CreateTask, UpdateTask,
         ToggleTaskCompletion, DeleteTask, records
    <2>2. CASE UNCHANGED timeline BY <2>1, <2>2, NothingTold
    <2>3. CASE createNote(c)
      <3>1. PICK on \in Hooks : EmitActivity(on, "none") BY <2>3 DEF createNote
      <3> QED BY <1>0, <2>1, <3>1, QuietActivity
    <2> QED BY <1>7, <2>2, <2>3 DEF NoteWrites, UpdateNote, DeleteNote, CreateTask, UpdateTask,
         ToggleTaskCompletion, DeleteTask
  <1> QED BY <1>2, <1>3, <1>4, <1>5, <1>6, <1>7 DEF RecordWrites

LEMMA DedupTold ==
  ASSUME TypeOK, KindsInv, StageIsTold, DedupStep PROVE StageIsTold'
  <1>1. Nothing => StageIsTold' BY NothingTold DEF Nothing, records, books
  <1>2. ASSUME NEW c \in Clients, MergeContacts(c) \/ MergeCompanies(c) PROVE StageIsTold'
    <2> DEFINE q == http[c]
    <2>0. TablesOK /\ HttpTyped(q) /\ Merged(c, q) /\ q.pc \in Merging
      BY <1>2 DEF TypeOK, HttpOK, MergeContacts, MergeCompanies, Merged, Continues, Merging
    <2>1. \A e \in deals' : \E d \in deals : d.id = e.id /\ d.stage = e.stage
      <3>1. CASE MergeContacts(c) BY <3>1, MergeCommits
      <3>2. CASE MergeCompanies(c) BY <3>2, MergeCommits
      <3> QED BY <1>2, <3>1, <3>2
    <2>2. q.survivor \in Nat \ {0} /\ q.loser \in Nat \ {0} BY <1>2, MergeCommits
    <2>3. ~IsDeal(q.survivor) /\ ~IsDeal(q.loser)
      <3>1. \/ IsPerson(q.survivor) /\ IsPerson(q.loser)
            \/ IsFirm(q.survivor) /\ IsFirm(q.loser)
        <4>1. CASE MergeContacts(c)
          <5>1. MergesContacts(q) BY <4>1, MergeCommits
          <5>2. IsPerson(q.survivor) /\ IsPerson(q.loser) BY <5>1 DEF IsPerson
          <5> QED BY <5>2
        <4>2. CASE MergeCompanies(c)
          <5>1. MergesCompanies(q) BY <4>2, MergeCommits
          <5>2. IsFirm(q.survivor) /\ IsFirm(q.loser) BY <5>1 DEF IsFirm
          <5> QED BY <5>2
        <4> QED BY <1>2, <4>1, <4>2
      <3>2. Apart(q.survivor) /\ Apart(q.loser) BY <2>2 DEF KindsInv
      <3> QED BY <3>1, <3>2 DEF Apart
    <2> HIDE DEF q
    <2>4. timeline' = {IF x \in On(timeline, q.loser) \cap q.hung THEN [x EXCEPT !.on = q.survivor] ELSE x
                       : x \in timeline}
      BY <2>0 DEF Merged, Hung, Moved
    <2>5. \A x \in timeline : [x EXCEPT !.on = q.survivor].on = q.survivor
      BY <2>0 DEF TablesOK, Activities
    <2>6. \A x \in timeline : x.on # q.loser => x \in timeline' BY <2>4 DEF On
    <2>7. \A x \in timeline' : x \in timeline \/ x.on = q.survivor BY <2>4, <2>5
    <2>8. \A d \in deals : d.id # q.survivor /\ d.id # q.loser BY <2>3 DEF IsDeal, Ids
    <2>9. \A d \in deals :
            \/ \E x \in timeline : Says(x, d.id, d.stage)
            \/ /\ \A x \in timeline : x.on = d.id => x.stage \notin Stages
               /\ \E x \in timeline : Says(x, d.id, "unsaid")
      BY StageIsToldIs
    <2>10. ASSUME NEW e \in deals'
           PROVE  \/ \E x \in timeline' : Says(x, e.id, e.stage)
                  \/ /\ \A x \in timeline' : x.on = e.id => x.stage \notin Stages
                     /\ \E x \in timeline' : Says(x, e.id, "unsaid")
      <3>1. PICK d \in deals : d.id = e.id /\ d.stage = e.stage BY <2>1
      <3>2. CASE \E x \in timeline : Says(x, d.id, d.stage) BY <2>6, <2>8, <3>1, <3>2 DEF Says
      <3>3. CASE /\ \A x \in timeline : x.on = d.id => x.stage \notin Stages
                 /\ \E x \in timeline : Says(x, d.id, "unsaid")
        BY <2>6, <2>7, <2>8, <3>1, <3>3 DEF Says
      <3> QED BY <2>9, <3>2, <3>3
    <2> QED BY <2>10 DEF StageIsTold, Says
  <1> QED BY <1>1, <1>2 DEF DedupStep, DedupNext, ListDuplicates, markDistinct, LoadMerge, RepointMerge,
       RolledBack

LEMMA ImportTold ==
  ASSUME TypeOK, KindsInv, StageIsTold, ImportStep PROVE StageIsTold'
  <1>0. TablesOK /\ next \in Nat \ {0} BY KindsNow DEF TypeOK
  <1>1. ASSUME Nothing PROVE StageIsTold' BY <1>1, NothingTold DEF Nothing, records, books
  <1>2. ASSUME NEW c \in Clients, ImportCommit(c) PROVE StageIsTold'
    <2>1. PICK kind \in DOMAIN Files : \E e :
            Grown(kind, e) /\ deals' = e.deals /\ timeline' = e.timeline /\ next' = e.next
      BY <1>2, ImportCommits
    <2>2. PICK e : Grown(kind, e) /\ deals' = e.deals /\ timeline' = e.timeline /\ next' = e.next
      BY <2>1
    <2>3. /\ timeline \subseteq timeline'
          /\ \A x \in timeline' : x \in timeline \/ x.stage = "unsaid"
          /\ \A d \in deals' :
               \/ d \in deals
               \/ d.id \in NewIds(e) /\ [on |-> d.id, stage |-> "unsaid"] \in timeline'
      BY <2>2 DEF Grown
    <2>4. "unsaid" \notin Stages BY DEF Stages
    <2>5. \A x \in timeline : x.on < next BY <1>0, KindsNow
    <2>6. \A i \in NewIds(e) : \A x \in timeline : x.on # i
      BY <1>0, <2>5 DEF NewIds, TablesOK, Activities
    <2>7. \A i : Says([on |-> i, stage |-> "unsaid"], i, "unsaid") BY DEF Says
    <2>8. \A d \in deals' :
            \/ \E t \in deals : t.id = d.id /\ t.stage = d.stage
            \/ /\ \A x \in timeline : x.on # d.id
               /\ \E x \in timeline' : Says(x, d.id, "unsaid")
      BY <2>3, <2>6, <2>7
    <2>9. \A x \in timeline' : x \in timeline \/ x.stage \notin Stages BY <2>3, <2>4
    <2> QED BY <2>3, <2>8, <2>9, QuietTelling
  <1> QED BY <1>1, <1>2 DEF ImportStep, ImportNext, ImportPreview, Cancel

LEMMA ConnectorsTold ==
  ASSUME TypeOK, KindsInv, StageIsTold, ConnectorsNext PROVE StageIsTold'
  <1>0. TablesOK /\ next \in Nat \ {0} /\ "none" \notin Stages /\ "unsaid" \notin Stages
    BY KindsNow DEF TypeOK, Stages
  <1>1. ASSUME Nothing PROVE StageIsTold' BY <1>1, NothingTold DEF Nothing, records, books
  <1>2. \A x \in timeline : x.on # next BY <1>0, KindsNow DEF TablesOK, Activities
  <1>3. ASSUME NEW c \in Clients, handleCandidateEnriched(c) PROVE StageIsTold'
    <2>1. PICK id : EmitActivity(id, "none")
      BY <1>3 DEF handleCandidateEnriched, emitEntityActivity
    <2>2. UNCHANGED deals BY <1>3 DEF handleCandidateEnriched
    <2> QED BY <1>0, <2>1, <2>2, QuietActivity
  <1>4. ASSUME NEW c \in Clients, http[c].pc = "resolved"
        PROVE  LET q == http[c]
                   id == IF q.found = {} THEN next ELSE Least(q.found) IN
               \A d \in Table(q) : d \in DealRecords /\ (d \in deals \/ (q.found = {} /\ d.id = next /\ id = next))
    BY <1>4, HandlerIs, TableTyped
  <1>5. ASSUME NEW c \in Clients, handleInvitationStage(c) PROVE StageIsTold'
    <2> DEFINE q == http[c]
               id == IF q.found = {} THEN next ELSE Least(q.found)
               target == Invitation[q.ev.kind]
               Staged(d) == [d EXCEPT !.stage = target.stage, !.closed = @ \/ target.closing]
    <2>1. deals' = {IF d.id = id /\ target.stage # "" THEN Staged(d) ELSE d : d \in Table(q)}
          /\ EmitActivity(id, Told(target)) /\ q.pc = "resolved"
      BY <1>5 DEF handleInvitationStage, emitEntityActivity, Continues
    <2>2. \A d \in DealRecords : Staged(d).id = d.id /\ Staged(d).stage = target.stage
      BY DEF DealRecords
    <2>3. \A d \in Table(q) : d \in DealRecords /\ (d \in deals \/ (d.id = next /\ id = next))
      BY <1>4, <2>1
    <2> HIDE DEF q, id, target, Staged
    <2>4. CASE target.stage # ""
      <3>1. Told(target) = target.stage BY <2>4 DEF Told
      <3>2. \A e \in deals' :
              \/ e.id = id /\ e.stage = target.stage
              \/ e.id # id /\ \E d \in deals : d.id = e.id /\ d.stage = e.stage
        BY <2>1, <2>2, <2>3, <2>4
      <3>3. EmitActivity(id, target.stage) BY <2>1, <3>1
      <3> HIDE DEF target
      <3> QED BY <3>2, <3>3, LoudTelling
    <2>5. CASE target.stage = ""
      <3>1. Told(target) = "unsaid" BY <2>5 DEF Told
      <3>2. deals' = Table(q) BY <2>1, <2>5
      <3>3. \A e \in deals' :
              \/ \E d \in deals : d.id = e.id /\ d.stage = e.stage
              \/ e.id = id /\ \A x \in timeline : x.on # id
        BY <1>2, <2>3, <3>2
      <3>4. EmitActivity(id, "unsaid") BY <2>1, <3>1
      <3> QED BY <1>0, <3>3, <3>4, QuietActivity
    <2> QED BY <2>4, <2>5
  <1>6. ASSUME NEW c \in Clients, handleInvitationReplyPositive(c) PROVE StageIsTold'
    <2> DEFINE q == http[c]
               id == IF q.found = {} THEN next ELSE Least(q.found)
    <2>1. deals' = Table(q) /\ EmitActivity(id, "unsaid") /\ q.pc = "resolved"
      BY <1>6 DEF handleInvitationReplyPositive, emitEntityActivity, Continues
    <2>2. \A d \in Table(q) : d \in deals \/ (d.id = next /\ id = next)
      BY <1>4, <2>1
    <2> HIDE DEF q, id
    <2>3. \A e \in deals' :
            \/ \E d \in deals : d.id = e.id /\ d.stage = e.stage
            \/ e.id = id /\ \A x \in timeline : x.on # id
      BY <1>2, <2>1, <2>2
    <2> QED BY <1>0, <2>1, <2>3, QuietActivity
  <1> QED BY <1>1, <1>3, <1>5, <1>6 DEF ConnectorsNext, PostConnectorEvent, Resolve, Failed

LEMMA ToldKept ==
  ASSUME TypeOK, KindsInv, StageIsTold, [WorkspaceNext]_workspaceVars PROVE StageIsTold'
  <1>1. CASE RequestStep BY <1>1, RequestTold DEF RequestStep
  <1>2. CASE WalkStep
    BY <1>2, NothingTold DEF WalkStep, Walks, BeginWalk, ReadPage, Nothing, records, books
  <1>3. CASE DedupStep BY <1>3, DedupTold
  <1>4. CASE ImportStep BY <1>4, ImportTold
  <1>5. CASE ConnectorsNext BY <1>5, ConnectorsTold
  <1>6. CASE UNCHANGED workspaceVars
    BY <1>6, NothingTold DEF workspaceVars, crmVars, records, books
  <1> QED BY <1>1, <1>2, <1>3, <1>4, <1>5, <1>6 DEF WorkspaceNext

LEMMA ToldInit ==
  ASSUME WorkspaceInit PROVE StageIsTold
  <1> DEFINE x0 == [on |-> 4, stage |-> "discovery"]
             d0 == [id |-> 4, contact |-> 2, company |-> 1, stage |-> "discovery", closed |-> FALSE]
  <1>1. Says(x0, 4, "discovery") /\ d0.id = 4 /\ d0.stage = "discovery" BY DEF Says
  <1>2. x0 \in timeline /\ deals = {d0} BY DEF WorkspaceInit, CrmInit
  <1> HIDE DEF x0, d0
  <1> QED BY <1>1, <1>2, StageIsToldIs

(* Crm!StageIsTold (ops.go 729-758, 812-933, connectors.go 368-417): the    *)
(* timeline of a deal knows the stage the deal is in, whoever put it there  *)
(* and whatever is merged; only a deal that an import or an event created   *)
(* may never have been said to be in any stage.                             *)
THEOREM TheStageIsTold == WorkspaceSpec => []StageIsTold
  <1> DEFINE Inv == TypeOK /\ KindsInv /\ StageIsTold
  <1>1. WorkspaceInit => Inv BY TypeInit, KindsInit, ToldInit
  <1>2. Inv /\ [WorkspaceNext]_workspaceVars => Inv'
    BY TypeStep, KindsKept, ToldKept
  <1>3. Inv => StageIsTold OBVIOUS
  <1> QED BY <1>1, <1>2, <1>3, PTL DEF WorkspaceSpec

-----------------------------------------------------------------------------
(* Relations: what a merge leaves hanging                                   *)

LEMMA KindsAlways == WorkspaceSpec => [](TypeOK /\ KindsInv)
  <1>1. WorkspaceInit => TypeOK /\ KindsInv BY TypeInit, KindsInit
  <1>2. TypeOK /\ KindsInv /\ [WorkspaceNext]_workspaceVars => (TypeOK /\ KindsInv)'
    BY TypeStep, KindsKept
  <1> QED BY <1>1, <1>2, PTL DEF WorkspaceSpec

(* Whatever of a table hung on the loser when it was re-pointed is moved.   *)
LEMMA MovedAway ==
  ASSUME NEW T, NEW hung, NEW l, NEW s, s # l, NEW U, U = Moved(T, On(T, l) \cap hung, s),
         \A x \in T : [x EXCEPT !.on = s].on = s
  PROVE  \A x \in U : x \in hung => x.on # l
  BY DEF Moved, On

LEMMA MergeMoves ==
  ASSUME TypeOK, KindsInv, NEW c \in Clients, MergeContacts(c) \/ MergeCompanies(c)
  PROVE  \A x \in notes' \cup tasks' \cup objects' \cup timeline' :
           x \in http[c].hung => x.on # http[c].loser
  <1> DEFINE q == http[c]
  <1>1. /\ TablesOK /\ q.survivor \in Nat /\ q.loser \in Nat \ {0} /\ q.survivor # q.loser
        /\ Hung(q)
    BY MergeCommits DEF TypeOK, MergeContacts, MergeCompanies, Merged
  <1>2. \A x \in objects' : x \in q.hung => x.on # q.loser
    <2>1. CASE MergeContacts(c) BY <2>1 DEF MergeContacts
    <2>2. CASE MergeCompanies(c)
      <3>1. MergesCompanies(q) /\ objects' = objects BY <2>2, MergeCommits
      <3>2. IsFirm(q.loser) /\ Apart(q.loser) BY <1>1, <3>1 DEF IsFirm, KindsInv
      <3>3. ~IsNamed(q.loser) BY <3>2 DEF Apart
      <3> QED BY <3>1, <3>3 DEF IsNamed
    <2> QED BY <2>1, <2>2
  <1> HIDE DEF q
  <1>3. /\ \A x \in notes : [x EXCEPT !.on = q.survivor].on = q.survivor
        /\ \A x \in tasks : [x EXCEPT !.on = q.survivor].on = q.survivor
        /\ \A x \in timeline : [x EXCEPT !.on = q.survivor].on = q.survivor
    BY <1>1 DEF TablesOK, NoteRecords, TaskRecords, Activities
  <1>4. \A x \in notes' : x \in q.hung => x.on # q.loser BY <1>1, <1>3, MovedAway DEF Hung
  <1>5. \A x \in tasks' : x \in q.hung => x.on # q.loser BY <1>1, <1>3, MovedAway DEF Hung
  <1>6. \A x \in timeline' : x \in q.hung => x.on # q.loser BY <1>1, <1>3, MovedAway DEF Hung
  <1> QED BY <1>2, <1>4, <1>5, <1>6 DEF q

(* What hangs on the loser afterwards hung there before, and not when it    *)
(* was re-pointed.                                                          *)
LEMMA MergeLeaves ==
  ASSUME TypeOK, KindsInv, NEW c \in Clients, MergeContacts(c) \/ MergeCompanies(c)
  PROVE  On((notes \cup tasks \cup objects \cup timeline)', http[c].loser) \subseteq WrittenMeanwhile(http[c])
  <1> DEFINE q == http[c]
             M(T) == Moved(T, On(T, q.loser) \cap q.hung, q.survivor)
  <1>1. TablesOK /\ q.survivor # q.loser /\ Hung(q)
    BY MergeCommits DEF TypeOK, MergeContacts, MergeCompanies, Merged
  <1>2. objects' \subseteq objects
    <2>1. CASE MergeContacts(c) BY <2>1, MergeCommits
    <2>2. CASE MergeCompanies(c) BY <2>2, MergeCommits
    <2> QED BY <2>1, <2>2
  <1> HIDE DEF q
  <1>3. notes' = M(notes) /\ tasks' = M(tasks) /\ timeline' = M(timeline) BY <1>1 DEF Hung
  <1>4. /\ \A x \in notes : [x EXCEPT !.on = q.survivor].on = q.survivor
        /\ \A x \in tasks : [x EXCEPT !.on = q.survivor].on = q.survivor
        /\ \A x \in timeline : [x EXCEPT !.on = q.survivor].on = q.survivor
    BY <1>1 DEF TablesOK, NoteRecords, TaskRecords, Activities
  <1>5. ASSUME NEW T, \A x \in T : [x EXCEPT !.on = q.survivor].on = q.survivor
        PROVE  \A x \in M(T) : x.on = q.loser => x \in On(T, q.loser)
    BY <1>1, <1>5 DEF Moved, On
  <1> HIDE DEF M
  <1>6. /\ \A x \in notes' : x.on = q.loser => x \in On(notes, q.loser)
        /\ \A x \in tasks' : x.on = q.loser => x \in On(tasks, q.loser)
        /\ \A x \in timeline' : x.on = q.loser => x \in On(timeline, q.loser)
        /\ \A x \in objects' : x.on = q.loser => x \in On(objects, q.loser)
    <2>1. \A x \in objects' : x.on = q.loser => x \in On(objects, q.loser) BY <1>2 DEF On
    <2> QED BY <1>3, <1>4, <1>5, <2>1
  <1>7. \A x \in (notes \cup tasks \cup objects \cup timeline)' : x.on = q.loser => x \in Hangs(q.loser)
    BY <1>6 DEF Hangs
  <1>8. \A x \in (notes \cup tasks \cup objects \cup timeline)' : x \in q.hung => x.on # q.loser
    BY MergeMoves DEF q
  <1>9. On((notes \cup tasks \cup objects \cup timeline)', q.loser) \subseteq WrittenMeanwhile(q)
    BY <1>7, <1>8 DEF On, WrittenMeanwhile
  <1> QED BY <1>9 DEF q

LEMMA MergeUnlinks ==
  ASSUME TypeOK, KindsInv, NEW c \in Clients, MergeContacts(c) \/ MergeCompanies(c)
  PROVE  \A e \in deals' : http[c].loser \notin {e.contact, e.company}
  <1> DEFINE q == http[c]
  <1>1. TablesOK /\ q.loser # 0 /\ q.survivor # q.loser /\ q.loser \in Nat \ {0}
    BY MergeCommits DEF TypeOK
  <1>2. \A d \in deals : IsPerson(d.contact) /\ IsFirm(d.company) BY DEF IsPerson, IsFirm
  <1>3. Apart(q.loser) BY <1>1 DEF KindsInv
  <1>4. CASE MergeContacts(c)
    <2>1. /\ MergesContacts(q)
          /\ \A e \in deals' : \E d \in deals :
               /\ e.company = d.company
               /\ e.contact = (IF d.id \in q.deals THEN q.survivor ELSE IF d.contact = q.loser THEN 0 ELSE d.contact)
      BY <1>4, MergeCommits
    <2>2. IsPerson(q.loser) BY <2>1 DEF IsPerson
    <2> QED BY <1>1, <1>2, <1>3, <2>1, <2>2 DEF Apart
  <1>5. CASE MergeCompanies(c)
    <2>1. /\ MergesCompanies(q)
          /\ \A e \in deals' : \E d \in deals :
               /\ e.contact = d.contact
               /\ e.company = (IF d.id \in q.deals THEN q.survivor ELSE IF d.company = q.loser THEN 0 ELSE d.company)
      BY <1>5, MergeCommits
    <2>2. IsFirm(q.loser) BY <2>1 DEF IsFirm
    <2> QED BY <1>1, <1>2, <1>3, <2>1, <2>2 DEF Apart
  <1> QED BY <1>4, <1>5

(* What hung on the loser is there again, on the survivor.                  *)
LEMMA MergeCarries ==
  ASSUME NEW c \in Clients, MergeContacts(c) \/ MergeCompanies(c)
  PROVE  /\ Carried(notes, http[c]) \subseteq notes' /\ Carried(tasks, http[c]) \subseteq tasks'
         /\ Carried(timeline, http[c]) \subseteq timeline'
  <1> DEFINE q == http[c]
  <1>1. Hung(q) BY DEF MergeContacts, MergeCompanies, Merged
  <1>2. ASSUME NEW T, NEW U, U = Moved(T, On(T, q.loser) \cap q.hung, q.survivor)
        PROVE  Carried(T, q) \subseteq U
    <2>1. \A x \in On(T, q.loser) : x \in T BY DEF On
    <2>2. \A x \in On(T, q.loser) \cap q.hung : [x EXCEPT !.on = q.survivor] \in U
      BY <1>2, <2>1, Zenon DEF Moved
    <2> QED BY <2>2, Zenon DEF Carried
  <1> HIDE DEF q
  <1>3. Carried(notes, q) \subseteq notes' /\ Carried(tasks, q) \subseteq tasks'
        /\ Carried(timeline, q) \subseteq timeline'
    BY <1>1, <1>2, Zenon DEF Hung
  <1> QED BY <1>3 DEF q

(* What a merge re-pointed names the survivor.                              *)
LEMMA MergeRepoints ==
  ASSUME TypeOK, KindsInv, NEW c \in Clients
  PROVE  /\ MergeContacts(c) \/ MergeCompanies(c) =>
              \A e \in deals' : e.id \in http[c].deals => http[c].survivor \in {e.contact, e.company}
         /\ MergeCompanies(c) =>
              \A r \in contacts' : /\ r.company # http[c].loser
                                   /\ r.id \in http[c].staff => r.company = http[c].survivor
  <1> DEFINE q == http[c]
             New(r) == [r EXCEPT !.company = IF r.id \in q.staff THEN q.survivor
                                             ELSE IF @ = q.loser THEN 0 ELSE @]
  <1>1. ASSUME MergeContacts(c) \/ MergeCompanies(c), NEW e \in deals', e.id \in q.deals
        PROVE  q.survivor \in {e.contact, e.company}
    <2>1. CASE MergeContacts(c)
      <3>1. \A x \in deals' : \E d \in deals :
              /\ x.id = d.id
              /\ x.contact = (IF d.id \in q.deals THEN q.survivor
                             ELSE IF d.contact = q.loser THEN 0 ELSE d.contact)
        BY <2>1, MergeCommits
      <3> QED BY <1>1, <3>1
    <2>2. CASE MergeCompanies(c)
      <3>1. \A x \in deals' : \E d \in deals :
              /\ x.id = d.id
              /\ x.company = (IF d.id \in q.deals THEN q.survivor
                             ELSE IF d.company = q.loser THEN 0 ELSE d.company)
        BY <2>2, MergeCommits
      <3> QED BY <1>1, <3>1
    <2> QED BY <1>1, <2>1, <2>2
  <1>2. ASSUME MergeCompanies(c), NEW r \in contacts'
        PROVE  /\ r.company # q.loser
               /\ r.id \in q.staff => r.company = q.survivor
    <2>1. TablesOK /\ q.loser # 0 /\ q.survivor # q.loser BY <1>2, MergeCommits DEF TypeOK
    <2>2. contacts' = {New(x) : x \in contacts} BY <1>2 DEF MergeCompanies
    <2> HIDE DEF q
    <2>3. \A x \in contacts : /\ New(x).id = x.id
                              /\ New(x).company = IF x.id \in q.staff THEN q.survivor
                                                  ELSE IF x.company = q.loser THEN 0 ELSE x.company
      BY <2>1 DEF TablesOK, ContactRecords
    <2> HIDE DEF New
    <2> QED BY <2>1, <2>2, <2>3
  <1> QED BY <1>1, <1>2

(* Dedup!NoRelationIsOrphaned (dedup.go 1-32, 540-613, 704-772): when a     *)
(* merge commits, whatever hung on the loser as it was re-pointed hangs on  *)
(* the survivor, its deals and contacts name the survivor, nothing names    *)
(* the loser, and nothing hangs on it but what was written since then,      *)
(* whoever wrote or merged between its two steps.                           *)
THEOREM NoneIsOrphaned == WorkspaceSpec => NoRelationIsOrphaned
  <1> DEFINE Kept(c) ==
        LET q == http[c] IN
        /\ MergeContacts(c) \/ MergeCompanies(c) =>
             /\ On((notes \cup tasks \cup objects \cup timeline)', q.loser) \subseteq WrittenMeanwhile(q)
             /\ Carried(notes, q) \subseteq notes' /\ Carried(tasks, q) \subseteq tasks'
             /\ Carried(timeline, q) \subseteq timeline'
             /\ \A d \in deals' : /\ q.loser \notin {d.contact, d.company}
                                  /\ d.id \in q.deals => q.survivor \in {d.contact, d.company}
        /\ MergeCompanies(c) =>
             \A r \in contacts' : /\ r.company # q.loser
                                  /\ r.id \in q.staff => r.company = q.survivor
  <1>1. TypeOK /\ KindsInv => [\A c \in Clients : Kept(c)]_crmVars
    <2> SUFFICES ASSUME TypeOK, KindsInv, NEW c \in Clients PROVE Kept(c)
      OBVIOUS
    <2>1. MergeContacts(c) \/ MergeCompanies(c) =>
            On((notes \cup tasks \cup objects \cup timeline)', http[c].loser) \subseteq WrittenMeanwhile(http[c])
      BY MergeLeaves
    <2> QED BY <2>1, MergeCarries, MergeUnlinks, MergeRepoints
  <1> QED BY <1>1, KindsAlways, PTL DEF NoRelationIsOrphaned

-----------------------------------------------------------------------------
(* Coming and going: ids are minted, and go only when nobody locks them     *)

Freed(i) == \A c \in Clients : LockedBy(c, i) => http'[c].pc # "repointed"
IdsMove ==
  /\ next' \in Nat /\ next' >= next
  /\ Ids(contacts') \subseteq Ids(contacts) \cup next..(next' - 1)
  /\ Ids(companies') \subseteq Ids(companies) \cup next..(next' - 1)
  /\ Ids(deals') \subseteq Ids(deals) \cup next..(next' - 1)
  /\ \A i \in Ids(contacts) : i \in Ids(contacts') \/ Freed(i)
  /\ \A i \in Ids(companies) : i \in Ids(companies') \/ Freed(i)
  /\ \A i \in Ids(deals) : i \in Ids(deals') \/ Freed(i)

(* Some come, and one that nobody locks may go.                             *)
LEMMA OneGoes ==
  ASSUME next' \in Nat, next' >= next, NEW N, N \subseteq next..(next' - 1), NEW id, Freed(id),
         Ids(contacts') \subseteq Ids(contacts) \cup N, Ids(contacts) \ {id} \subseteq Ids(contacts'),
         Ids(companies') \subseteq Ids(companies) \cup N, Ids(companies) \ {id} \subseteq Ids(companies'),
         Ids(deals') \subseteq Ids(deals) \cup N, Ids(deals) \ {id} \subseteq Ids(deals')
  PROVE  IdsMove
  <1>1. /\ \A i \in Ids(contacts) : i # id => i \in Ids(contacts')
        /\ \A i \in Ids(companies) : i # id => i \in Ids(companies')
        /\ \A i \in Ids(deals) : i # id => i \in Ids(deals')
    OBVIOUS
  <1> QED BY <1>1 DEF IdsMove

LEMMA NoneGoes ==
  ASSUME next' \in Nat, next' >= next, NEW N, N \subseteq next..(next' - 1),
         Ids(contacts') \subseteq Ids(contacts) \cup N, Ids(contacts) \subseteq Ids(contacts'),
         Ids(companies') \subseteq Ids(companies) \cup N, Ids(companies) \subseteq Ids(companies'),
         Ids(deals') \subseteq Ids(deals) \cup N, Ids(deals) \subseteq Ids(deals')
  PROVE  IdsMove
  BY DEF IdsMove

LEMMA RecordsStay ==
  ASSUME TablesOK, UNCHANGED <<contacts, companies, deals>>, next' \in Nat, next' >= next
  PROVE  IdsMove
  <1> DEFINE N == {}
  <1>1. N \subseteq next..(next' - 1) OBVIOUS
  <1>2. /\ Ids(contacts') \subseteq Ids(contacts) \cup N /\ Ids(contacts) \subseteq Ids(contacts')
        /\ Ids(companies') \subseteq Ids(companies) \cup N /\ Ids(companies) \subseteq Ids(companies')
        /\ Ids(deals') \subseteq Ids(deals) \cup N /\ Ids(deals) \subseteq Ids(deals')
    OBVIOUS
  <1> HIDE DEF N
  <1> QED BY <1>1, <1>2, NoneGoes

LEMMA NothingMoves ==
  ASSUME TablesOK, Nothing PROVE IdsMove
  <1>1. next \in Nat BY KnownTyped
  <1>2. UNCHANGED <<contacts, companies, deals, next>> BY DEF Nothing, records, books
  <1> QED BY <1>1, <1>2, RecordsStay

LEMMA DealStatements ==
  ASSUME TablesOK, NEW id, NEW in, NEW stage
  PROVE  /\ setDeal(id, in) => Ids(deals') = Ids(deals)
         /\ setDealStage(id, stage) => Ids(deals') = Ids(deals)
         /\ dropDeal(id) => Ids(deals') = Ids(deals) \ {id}
         /\ dropContact(id) => Ids(deals') = Ids(deals)
         /\ dropCompany(id) => Ids(deals') = Ids(deals)
  <1> USE DEF TablesOK, DealRecords
  <1>1. ASSUME setDeal(id, in) PROVE Ids(deals') = Ids(deals)
    <2> DEFINE Put(d) == [d EXCEPT !.contact = in.contact, !.company = in.company, !.stage = in.stage]
    <2>1. \A d \in deals : Put(d).id = d.id OBVIOUS
    <2>3. deals' = {IF d.id = id THEN Put(d) ELSE d : d \in deals} BY <1>1 DEF setDeal
    <2> HIDE DEF Put
    <2>2. /\ \A r \in deals : \E t \in deals' : t.id = r.id
          /\ \A t \in deals' : \E r \in deals : r.id = t.id
      BY <2>1, <2>3
    <2> QED BY <2>2, SameIds
  <1>2. ASSUME setDealStage(id, stage) PROVE Ids(deals') = Ids(deals)
    <2>1. \A d \in deals : [d EXCEPT !.stage = stage].id = d.id OBVIOUS
    <2>2. /\ \A r \in deals : \E t \in deals' : t.id = r.id
          /\ \A t \in deals' : \E r \in deals : r.id = t.id
      BY <1>2, <2>1 DEF setDealStage
    <2> QED BY <2>2, SameIds
  <1>3. dropDeal(id) => Ids(deals') = Ids(deals) \ {id} BY DEF dropDeal, Ids
  <1>4. ASSUME dropContact(id) PROVE Ids(deals') = Ids(deals)
    <2>1. \A d \in deals : [d EXCEPT !.contact = IF @ = id THEN 0 ELSE @].id = d.id OBVIOUS
    <2>2. /\ \A r \in deals : \E t \in deals' : t.id = r.id
          /\ \A t \in deals' : \E r \in deals : r.id = t.id
      BY <1>4, <2>1 DEF dropContact
    <2> QED BY <2>2, SameIds
  <1>5. ASSUME dropCompany(id) PROVE Ids(deals') = Ids(deals)
    <2>1. \A d \in deals : [d EXCEPT !.company = IF @ = id THEN 0 ELSE @].id = d.id OBVIOUS
    <2>2. /\ \A r \in deals : \E t \in deals' : t.id = r.id
          /\ \A t \in deals' : \E r \in deals : r.id = t.id
      BY <1>5, <2>1 DEF dropCompany
    <2> QED BY <2>2, SameIds
  <1> QED BY <1>1, <1>2, <1>3, <1>4, <1>5

LEMMA OpsMove ==
  ASSUME TablesOK, NEW id, NEW in,
         \/ UpdateContact(id, in) \/ DeleteContact(id) \/ UpdateCompany(id, in) \/ DeleteCompany(id)
         \/ UpdateDeal(id, in) \/ DeleteDeal(id)
  PROVE  IdsMove
  <1> DEFINE N == {}
  <1>0. next \in Nat BY KnownTyped
  <1>1. CASE Nothing BY <1>1, NothingMoves
  <1>2. CASE ~Nothing
    <2>1. (Unlocked(id) \/ Deletable(id, Clients)) /\ next' = next
      BY <1>2 DEF UpdateContact, DeleteContact, UpdateCompany, DeleteCompany, UpdateDeal, DeleteDeal
    <2>2. Freed(id) BY <2>1 DEF Freed, Unlocked, Deletable
    <2>3. \/ setContact(id, in) /\ UNCHANGED <<companies, deals>>
          \/ dropContact(id) /\ UNCHANGED companies
          \/ setCompany(id, in) /\ UNCHANGED <<contacts, deals>>
          \/ dropCompany(id)
          \/ setDeal(id, in) /\ UNCHANGED <<contacts, companies>>
          \/ dropDeal(id) /\ UNCHANGED <<contacts, companies>>
      BY <1>2 DEF UpdateContact, DeleteContact, UpdateCompany, DeleteCompany, UpdateDeal, DeleteDeal
    <2>4. /\ Ids(contacts') \subseteq Ids(contacts) /\ Ids(contacts) \ {id} \subseteq Ids(contacts')
          /\ Ids(companies') \subseteq Ids(companies) /\ Ids(companies) \ {id} \subseteq Ids(companies')
          /\ Ids(deals') \subseteq Ids(deals) /\ Ids(deals) \ {id} \subseteq Ids(deals')
      BY <2>3, StatementsKeepIds, DealStatements
    <2>5. /\ Ids(contacts') \subseteq Ids(contacts) \cup N
          /\ Ids(companies') \subseteq Ids(companies) \cup N
          /\ Ids(deals') \subseteq Ids(deals) \cup N
          /\ N \subseteq next..(next' - 1) /\ next' \in Nat /\ next' >= next
      BY <1>0, <2>1, <2>4
    <2> HIDE DEF N
    <2> QED BY <2>2, <2>4, <2>5, OneGoes
  <1> QED BY <1>1, <1>2

LEMMA WithNew ==
  ASSUME NEW T, NEW U, NEW r, U = T \cup {r}
  PROVE  Ids(U) = Ids(T) \cup {r.id}
  BY DEF Ids

LEMMA CreationsMove ==
  ASSUME TablesOK, NEW c \in Clients,
         CreateContact(c) \/ CreateCompany(c) \/ CreateDeal(c) \/ TransitionDealStage(c)
  PROVE  IdsMove
  <1> DEFINE in == http[c].in
             N == {next}
             r1 == [id |-> next, email |-> in.email, company |-> in.company]
             r2 == [id |-> next, name |-> in.name, domain |-> in.domain]
             r3 == [id |-> next, contact |-> in.contact, company |-> in.company,
                    stage |-> in.stage, closed |-> FALSE]
  <1>0. next \in Nat BY KnownTyped
  <1>1. CASE Nothing BY <1>1, NothingMoves
  <1>2. CASE TransitionDealStage(c) /\ ~Nothing
    <2>1. setDealStage(http[c].id, http[c].stage) /\ UNCHANGED <<contacts, companies, next>>
      BY <1>2 DEF TransitionDealStage
    <2> DEFINE M == {}
    <2>2. Ids(deals') = Ids(deals) BY <2>1, DealStatements
    <2>3. /\ Ids(contacts') \subseteq Ids(contacts) \cup M /\ Ids(contacts) \subseteq Ids(contacts')
          /\ Ids(companies') \subseteq Ids(companies) \cup M /\ Ids(companies) \subseteq Ids(companies')
          /\ Ids(deals') \subseteq Ids(deals) \cup M /\ Ids(deals) \subseteq Ids(deals')
          /\ M \subseteq next..(next' - 1) /\ next' \in Nat /\ next' >= next
      BY <1>0, <2>1, <2>2
    <2> HIDE DEF M
    <2> QED BY <2>3, NoneGoes
  <1>3. CASE ~TransitionDealStage(c) /\ ~Nothing
    <2>1. r1.id = next /\ r2.id = next /\ r3.id = next OBVIOUS
    <2>2. /\ next' = next + 1
          /\ \/ contacts' = contacts \cup {r1} /\ UNCHANGED <<companies, deals>>
             \/ companies' = companies \cup {r2} /\ UNCHANGED <<contacts, deals>>
             \/ deals' = deals \cup {r3} /\ UNCHANGED <<contacts, companies>>
      BY <1>3 DEF CreateContact, CreateCompany, CreateDeal, Mints, insertContact, insertCompany, insertDeal
    <2>3. N \subseteq next..(next' - 1) /\ next' \in Nat /\ next' >= next BY <1>0, <2>2
    <2> HIDE DEF r1, r2, r3
    <2>4. /\ Ids(contacts') \subseteq Ids(contacts) \cup N /\ Ids(contacts) \subseteq Ids(contacts')
          /\ Ids(companies') \subseteq Ids(companies) \cup N /\ Ids(companies) \subseteq Ids(companies')
          /\ Ids(deals') \subseteq Ids(deals) \cup N /\ Ids(deals) \subseteq Ids(deals')
      <3>1. \/ Ids(contacts') = Ids(contacts) \cup N /\ UNCHANGED <<companies, deals>>
            \/ Ids(companies') = Ids(companies) \cup N /\ UNCHANGED <<contacts, deals>>
            \/ Ids(deals') = Ids(deals) \cup N /\ UNCHANGED <<contacts, companies>>
        BY <2>1, <2>2, WithNew
      <3> HIDE DEF N
      <3> QED BY <3>1
    <2> HIDE DEF N
    <2> QED BY <2>3, <2>4, NoneGoes
  <1> QED BY <1>1, <1>2, <1>3

LEMMA RequestMoves ==
  ASSUME TypeOK, RequestStep PROVE IdsMove
  <1> PICK c \in Clients : RecordWrites(c) \/ NoteWrites(c) BY DEF RequestStep
  <1>0. TablesOK /\ next \in Nat BY KnownTyped DEF TypeOK
  <1>1. ASSUME NEW kind, NEW in, NEW k, Posts(c, kind, in, k) PROVE IdsMove
    BY <1>0, <1>1, NothingMoves DEF Posts
  <1>2. CASE contactHandlers(c) BY <1>0, <1>1, <1>2, OpsMove DEF contactHandlers
  <1>3. CASE companyHandlers(c) BY <1>0, <1>1, <1>3, OpsMove DEF companyHandlers
  <1>4. CASE dealHandlers(c) BY <1>0, <1>1, <1>4, OpsMove DEF dealHandlers
  <1>5. CASE PatchDealStage(c) BY <1>0, <1>5, NothingMoves DEF PatchDealStage
  <1>6. CASE CreateContact(c) \/ CreateCompany(c) \/ CreateDeal(c) \/ TransitionDealStage(c)
    BY <1>0, <1>6, CreationsMove
  <1>7. CASE NoteWrites(c)
    <2>1. UNCHANGED <<contacts, companies, deals>> /\ next' \in {next, next + 1}
      BY <1>7 DEF NoteWrites, createNote, UpdateNote, DeleteNote, CreateTask, UpdateTask,
         ToggleTaskCompletion, DeleteTask, records, Mints
    <2>2. next' \in Nat /\ next' >= next BY <1>0, <2>1
    <2> QED BY <1>0, <2>1, <2>2, RecordsStay
  <1> QED BY <1>2, <1>3, <1>4, <1>5, <1>6, <1>7 DEF RecordWrites

LEMMA CommitsMove ==
  ASSUME TypeOK, KindsInv, NEW c \in Clients, MergeContacts(c) \/ MergeCompanies(c)
  PROVE  IdsMove
  <1> DEFINE q == http[c]
             N == {}
  <1>0. TablesOK /\ next \in Nat BY KnownTyped DEF TypeOK
  <1>1. PlainTurn(c) /\ next' = next BY MergeCommits
  <1>2. \A d \in Clients \ {c} : ~LockedBy(d, q.loser)
    BY DEF MergeContacts, MergeCompanies, Merged, Deletable
  <1>3. Freed(q.loser) BY <1>1, <1>2 DEF Freed, PlainTurn, Merging
  <1>4. /\ Ids(contacts') \subseteq Ids(contacts) /\ Ids(contacts) \ {q.loser} \subseteq Ids(contacts')
        /\ Ids(companies') \subseteq Ids(companies) /\ Ids(companies) \ {q.loser} \subseteq Ids(companies')
    <2>1. CASE MergeContacts(c) BY <2>1, MergeCommits
    <2>2. CASE MergeCompanies(c) BY <2>2, MergeCommits
    <2> QED BY <2>1, <2>2
  <1>5. Ids(deals') = Ids(deals)
    <2> DEFINE ByContact(d) == [d EXCEPT !.contact = IF d.id \in q.deals THEN q.survivor
                                                    ELSE IF @ = q.loser THEN 0 ELSE @]
               ByCompany(d) == [d EXCEPT !.company = IF d.id \in q.deals THEN q.survivor
                                                    ELSE IF @ = q.loser THEN 0 ELSE @]
    <2>1. \A d \in deals : ByContact(d).id = d.id /\ ByCompany(d).id = d.id
      BY <1>0 DEF TablesOK, DealRecords
    <2>2. deals' = {ByContact(d) : d \in deals} \/ deals' = {ByCompany(d) : d \in deals}
      BY DEF MergeContacts, MergeCompanies
    <2> HIDE DEF q, ByContact, ByCompany
    <2>3. /\ \A r \in deals : \E t \in deals' : t.id = r.id
          /\ \A t \in deals' : \E r \in deals : r.id = t.id
      BY <2>1, <2>2
    <2> QED BY <2>3, SameIds
  <1>6. /\ Ids(contacts') \subseteq Ids(contacts) \cup N
        /\ Ids(companies') \subseteq Ids(companies) \cup N
        /\ Ids(deals') \subseteq Ids(deals) \cup N /\ Ids(deals) \ {q.loser} \subseteq Ids(deals')
        /\ N \subseteq next..(next' - 1) /\ next' \in Nat /\ next' >= next
    BY <1>0, <1>1, <1>4, <1>5
  <1> HIDE DEF N, q
  <1> QED BY <1>3, <1>4, <1>6, OneGoes

LEMMA DedupMoves ==
  ASSUME TypeOK, KindsInv, DedupStep PROVE IdsMove
  <1>1. TablesOK BY DEF TypeOK
  <1> QED BY <1>1, NothingMoves, CommitsMove DEF DedupStep, DedupNext, ListDuplicates, markDistinct,
       LoadMerge, RepointMerge, RolledBack

LEMMA ImportMoves ==
  ASSUME TypeOK, ImportStep PROVE IdsMove
  <1>0. TablesOK /\ next \in Nat BY KnownTyped DEF TypeOK
  <1>1. ASSUME NEW c \in Clients, ImportCommit(c) PROVE IdsMove
    <2>1. PICK kind \in DOMAIN Files : \E e :
            /\ Grown(kind, e) /\ next' \in Nat /\ next' >= next
            /\ contacts' = e.contacts /\ companies' = e.companies /\ deals' = e.deals /\ next' = e.next
      BY <1>1, ImportCommits
    <2>2. PICK e :
            /\ Grown(kind, e) /\ next' \in Nat /\ next' >= next
            /\ contacts' = e.contacts /\ companies' = e.companies /\ deals' = e.deals /\ next' = e.next
      BY <2>1
    <2> DEFINE N == next..(next' - 1)
    <2>3. /\ Ids(contacts') \subseteq Ids(contacts) \cup N /\ Ids(contacts) \subseteq Ids(contacts')
          /\ Ids(companies') \subseteq Ids(companies) \cup N /\ Ids(companies) \subseteq Ids(companies')
          /\ Ids(deals') \subseteq Ids(deals) \cup N /\ Ids(deals) \subseteq Ids(deals')
      <3>1. N = NewIds(e) BY <2>2 DEF NewIds
      <3> HIDE DEF N
      <3>2. /\ Ids(companies') \subseteq Ids(companies) \cup N /\ Ids(companies) \subseteq Ids(companies')
        BY <2>2, <3>1 DEF Grown
      <3>3. /\ Ids(contacts') \subseteq Ids(contacts) \cup N /\ Ids(contacts) \subseteq Ids(contacts')
            /\ Ids(deals') \subseteq Ids(deals) \cup N /\ Ids(deals) \subseteq Ids(deals')
        BY <2>2, <3>1 DEF Grown, Ids
      <3> QED BY <3>2, <3>3
    <2>4. N \subseteq next..(next' - 1) OBVIOUS
    <2> HIDE DEF N
    <2> QED BY <2>2, <2>3, <2>4, NoneGoes
  <1> QED BY <1>0, <1>1, NothingMoves DEF ImportStep, ImportNext, ImportPreview, Cancel

(* Where a connector works, the id it found or mints is no merge's: it      *)
(* brings one in, or none.                                                  *)
LEMMA EnrichedMoves ==
  ASSUME TypeOK, KindsInv, NEW c \in Clients, handleCandidateEnriched(c) PROVE IdsMove
  <1> DEFINE q == http[c]
             ev == q.ev
             id == IF q.found = {} THEN next ELSE Least(q.found)
             minted == IF q.found = {} THEN 1 ELSE 0
             N == IF q.found = {} THEN {next} ELSE {}
             r0 == [id |-> id, email |-> ev.email, company |-> 0]
  <1>0. TablesOK /\ next \in Nat BY KnownTyped DEF TypeOK
  <1>1. /\ next' = next + minted + (IF ev.scored THEN 1 ELSE 0)
        /\ IF q.found = {} THEN contacts' = contacts \cup {r0}
           ELSE contacts' = {IF r.id = id /\ ev.email # NoEmail THEN [r EXCEPT !.email = ev.email]
                             ELSE r : r \in contacts}
        /\ UNCHANGED <<companies, deals>>
    BY DEF handleCandidateEnriched
  <1>2. N \subseteq next..(next' - 1) /\ next' \in Nat /\ next' >= next BY <1>0, <1>1
  <1>3. Ids(contacts') = Ids(contacts) \cup N
    <2>1. CASE q.found = {}
      <3>1. r0.id = next /\ N = {next} /\ contacts' = contacts \cup {r0} BY <1>1, <2>1
      <3> HIDE DEF r0
      <3> QED BY <3>1, WithNew
    <2>2. CASE q.found # {}
      <3>1. \A r \in contacts : [r EXCEPT !.email = ev.email].id = r.id
        BY <1>0 DEF TablesOK, ContactRecords
      <3>2. contacts' = {IF r.id = id /\ ev.email # NoEmail THEN [r EXCEPT !.email = ev.email]
                         ELSE r : r \in contacts} /\ N = {}
        BY <1>1, <2>2
      <3> HIDE DEF q, ev, id, N
      <3>3. /\ \A r \in contacts : \E t \in contacts' : t.id = r.id
            /\ \A t \in contacts' : \E r \in contacts : r.id = t.id
        BY <3>1, <3>2
      <3>4. Ids(contacts') = Ids(contacts) BY <3>3, SameIds
      <3> QED BY <3>2, <3>4
    <2> QED BY <2>1, <2>2
  <1> HIDE DEF N
  <1>4. /\ Ids(contacts') \subseteq Ids(contacts) \cup N /\ Ids(contacts) \subseteq Ids(contacts')
        /\ Ids(companies') \subseteq Ids(companies) \cup N /\ Ids(companies) \subseteq Ids(companies')
        /\ Ids(deals') \subseteq Ids(deals) \cup N /\ Ids(deals) \subseteq Ids(deals')
    BY <1>1, <1>3
  <1> QED BY <1>2, <1>4, NoneGoes

LEMMA InvitedMoves ==
  ASSUME TypeOK, NEW c \in Clients,
         handleInvitationStage(c) \/ handleInvitationReplyPositive(c)
  PROVE  IdsMove
  <1> DEFINE q == http[c]
             id == IF q.found = {} THEN next ELSE Least(q.found)
             N == IF q.found = {} THEN {next} ELSE {}
             target == Invitation[q.ev.kind]
             Staged(d) == [d EXCEPT !.stage = target.stage, !.closed = @ \/ target.closing]
  <1>0. TablesOK /\ next \in Nat /\ q.pc = "resolved"
    BY KnownTyped DEF TypeOK, handleInvitationStage, handleInvitationReplyPositive, Continues
  <1>1. /\ UNCHANGED <<contacts, companies>>
        /\ \/ deals' = Table(q)
           \/ deals' = {IF d.id = id /\ target.stage # "" THEN Staged(d) ELSE d : d \in Table(q)}
    BY DEF handleInvitationStage, handleInvitationReplyPositive
  <1>8. IF q.found = {} THEN next' = next + 1 \/ next' = next + 2 ELSE next' = next \/ next' = next + 1
    <2>1. CASE handleInvitationStage(c)
      <3>1. IF q.found = {} THEN next' = next + 1 ELSE next' = next
        BY <2>1 DEF handleInvitationStage, Mints
      <3> QED BY <3>1
    <2>2. CASE handleInvitationReplyPositive(c)
      <3>1. next' = next + (IF q.found = {} THEN 1 ELSE 0) + 1
        BY <2>2 DEF handleInvitationReplyPositive
      <3> QED BY <1>0, <3>1
    <2> QED BY <2>1, <2>2
  <1>2. N \subseteq next..(next' - 1) /\ next' \in Nat /\ next' >= next BY <1>0, <1>8
  <1>3. Table(q) \subseteq DealRecords BY <1>0, TableTyped
  <1>4. \A d \in DealRecords : Staged(d).id = d.id BY DEF DealRecords
  <1>5. Ids(Table(q)) = Ids(deals) \cup N
    <2>1. CASE q.found = {}
      <3>1. Deal(q).id = next BY DEF Deal
      <3>2. Table(q) = deals \cup {Deal(q)} /\ N = {next} BY <2>1 DEF Table
      <3> QED BY <3>1, <3>2, WithNew
    <2>2. CASE q.found # {} BY <2>2 DEF Table
    <2> QED BY <2>1, <2>2
  <1> HIDE DEF N, q, id, target, Staged
  <1>6. Ids(deals') = Ids(Table(q))
    <2>1. CASE deals' = Table(q) BY <2>1
    <2>2. CASE deals' = {IF d.id = id /\ target.stage # "" THEN Staged(d) ELSE d : d \in Table(q)}
      <3>1. /\ \A r \in Table(q) : \E t \in deals' : t.id = r.id
            /\ \A t \in deals' : \E r \in Table(q) : r.id = t.id
        BY <1>3, <1>4, <2>2
      <3> QED BY <3>1, SameIds
    <2> QED BY <1>1, <2>1, <2>2
  <1>7. /\ Ids(contacts') \subseteq Ids(contacts) \cup N /\ Ids(contacts) \subseteq Ids(contacts')
        /\ Ids(companies') \subseteq Ids(companies) \cup N /\ Ids(companies) \subseteq Ids(companies')
        /\ Ids(deals') \subseteq Ids(deals) \cup N /\ Ids(deals) \subseteq Ids(deals')
    BY <1>1, <1>5, <1>6
  <1> QED BY <1>2, <1>7, NoneGoes

LEMMA AllMove ==
  ASSUME TypeOK, KindsInv, [WorkspaceNext]_workspaceVars PROVE IdsMove
  <1>0. TablesOK BY DEF TypeOK
  <1>1. CASE Nothing BY <1>0, <1>1, NothingMoves
  <1>2. CASE ConnectorsNext
    BY <1>0, <1>2, NothingMoves, EnrichedMoves, InvitedMoves
    DEF ConnectorsNext, PostConnectorEvent, Resolve, Failed
  <1>3. CASE WalkStep \/ UNCHANGED workspaceVars
    BY <1>1, <1>3 DEF WalkStep, Walks, BeginWalk, ReadPage, workspaceVars, crmVars, Nothing
  <1> QED BY <1>2, <1>3, RequestMoves, DedupMoves, ImportMoves DEF WorkspaceNext

-----------------------------------------------------------------------------
(* Survivors: a merge keeps one of the two                                  *)

LEMMA SurvivorsKept ==
  ASSUME MergeInv, IdsMove, astray \subseteq astray',
         \A d \in Clients : http'[d].pc = "repointed" => http'[d] = http[d]
  PROVE  MergeInv'
  <1> SUFFICES ASSUME NEW d \in Clients, http'[d].pc = "repointed"
               PROVE  /\ http'[d].survivor \in http'[d].locked
                      /\ \/ http'[d].survivor \in Ids(contacts') \cup Ids(companies') \cup Ids(deals')
                         \/ http'[d].loser \in astray'
    BY DEF MergeInv, Known
  <1>1. http'[d] = http[d] /\ http[d].pc = "repointed" OBVIOUS
  <1>2. /\ http[d].survivor \in http[d].locked
        /\ \/ http[d].survivor \in Ids(contacts) \cup Ids(companies) \cup Ids(deals)
           \/ http[d].loser \in astray
    BY <1>1 DEF MergeInv, Known
  <1>3. LockedBy(d, http[d].survivor) BY <1>1, <1>2 DEF LockedBy
  <1>4. ~Freed(http[d].survivor) BY <1>1, <1>3 DEF Freed
  <1> QED BY <1>1, <1>2, <1>4 DEF IdsMove

LEMMA RepointSurvives ==
  ASSUME TypeOK, MergeInv, NEW c \in Clients, RepointMerge(c) PROVE MergeInv'
  <1>0. HttpOK /\ UNCHANGED <<contacts, companies, deals>> BY DEF TypeOK, RepointMerge, Nothing, records
  <1>1. Known' = Known BY <1>0 DEF Known, Ids
  <1>2. astray \subseteq astray' BY DEF RepointMerge
  <1>3. ASSUME \A d \in Clients : http'[d].pc = "repointed" =>
                 \/ http'[d] = http[d]
                 \/ /\ http'[d].survivor \in http'[d].locked
                    /\ http'[d].survivor \in Known \/ http'[d].loser \in astray'
        PROVE  MergeInv'
    BY <1>1, <1>2, <1>3 DEF MergeInv
  <1>4. ASSUME NEW h, NEW ds, NEW st, NEW lk,
               Turns(c, [pc |-> "repointed", survivor |-> http[c].survivor, loser |-> http[c].loser,
                         row |-> http[c].row, hung |-> h, deals |-> ds, staff |-> st,
                         locked |-> {http[c].survivor} \cup lk]),
               http[c].survivor \in Known \/ http[c].loser \in astray'
        PROVE  MergeInv'
    <2> DEFINE q == [pc |-> "repointed", survivor |-> http[c].survivor, loser |-> http[c].loser,
                     row |-> http[c].row, hung |-> h, deals |-> ds, staff |-> st,
                     locked |-> {http[c].survivor} \cup lk]
    <2>1. Turns(c, q) BY <1>4
    <2>2. q.survivor \in q.locked /\ q.survivor = http[c].survivor /\ q.loser = http[c].loser
      OBVIOUS
    <2> HIDE DEF q
    <2>3. http'[c] = q /\ \A d \in Clients : d # c => http'[d] = http[d] BY <1>0, <2>1, TurnsIs
    <2> QED BY <1>3, <1>4, <2>2, <2>3
  <1>5. ASSUME Answers(c) PROVE MergeInv'
    <2>1. http'[c].pc = "idle" /\ \A d \in Clients : d # c => http'[d] = http[d]
      BY <1>0, <1>5, TurnsIs, QuietTyped DEF Answers
    <2> QED BY <1>3, <2>1
  <1>6. CASE Unkeyed(http[c])
    <2>1. Answers(c) BY <1>6 DEF RepointMerge
    <2> QED BY <2>1, <1>5
  <1>7. CASE ~Unkeyed(http[c])
    <2> DEFINE q == http[c]
    <2>1. astray' = IF q.survivor \in Known THEN astray ELSE astray \cup {q.loser}
      BY <1>7 DEF RepointMerge
    <2>2. q.survivor \in Known \/ q.loser \in astray' BY <2>1
    <2>3. Turns(c, [pc |-> "repointed", survivor |-> q.survivor, loser |-> q.loser,
                    row |-> q.row, hung |-> Hangs(q.loser), deals |-> Ids(DealsOf(q.loser)),
                    staff |-> Ids(ContactsOf(q.loser)),
                    locked |-> {q.survivor} \cup Ids(Rows(q.loser))])
      BY <1>7 DEF RepointMerge
    <2> QED BY <1>4, <2>2, <2>3
  <1> QED BY <1>6, <1>7

LEMMA LoadTurns ==
  ASSUME HttpOK, NEW c \in Clients, NEW T, LoadMerge(c, T)
  PROVE  \A d \in Clients : http'[d].pc = "repointed" => http'[d] = http[d]
  <1> DEFINE Goal == \A d \in Clients : http'[d].pc = "repointed" => http'[d] = http[d]
  <1>1. \A q : Turns(c, q) /\ q.pc # "repointed" => Goal BY TurnsIs
  <1>2. Answers(c) => Goal BY <1>1, QuietTyped DEF Answers
  <1> HIDE DEF Goal
  <1>3. \A s, l, row : [pc |-> "loaded", survivor |-> s, loser |-> l, row |-> row].pc # "repointed"
    OBVIOUS
  <1>4. \A s, l, row : Turns(c, [pc |-> "loaded", survivor |-> s, loser |-> l, row |-> row]) => Goal
    BY <1>1, <1>3
  <1>5. Goal BY <1>2, <1>4, Zenon DEF LoadMerge
  <1> QED BY <1>5 DEF Goal

LEMMA ResolveTurns ==
  ASSUME HttpOK, NEW c \in Clients, Resolve(c)
  PROVE  \A d \in Clients : http'[d].pc = "repointed" => http'[d] = http[d]
  <1> DEFINE ev == http[c].ev
             found == IF ev.kind = "enriched" THEN upsertConnectorContact(ev)
                      ELSE findOrCreateInvitationDeal(ev)
             contact == IF ev.kind = "enriched" THEN {} ELSE resolveCandidateContact(ev)
             q == [pc |-> "resolved", ev |-> ev, found |-> found, contact |-> contact]
  <1>1. Turns(c, q) BY DEF Resolve
  <1>2. q.pc = "resolved" OBVIOUS
  <1> HIDE DEF q
  <1> QED BY <1>1, <1>2, TurnsIs

LEMMA OthersTurn ==
  ASSUME TypeOK, [WorkspaceNext]_workspaceVars
  PROVE  \/ \E c \in Clients : RepointMerge(c)
         \/ /\ UNCHANGED astray
            /\ \A d \in Clients : http'[d].pc = "repointed" => http'[d] = http[d]
  <1> USE DEF PlainTurn, Merging, dedupVars
  <1>0. HttpOK BY DEF TypeOK
  <1>1. CASE RequestStep BY <1>0, <1>1, RequestIsPlain DEF RequestStep
  <1>2. CASE WalkStep BY <1>2 DEF WalkStep, Walks, BeginWalk, ReadPage
  <1>3. CASE DedupStep
    <2> PICK c \in Clients :
          \/ ListDuplicates(c) \/ markDistinct(c)
          \/ LoadMerge(c, contacts) \/ LoadMerge(c, companies)
          \/ RepointMerge(c) \/ MergeContacts(c) \/ MergeCompanies(c) \/ RolledBack(c)
      BY <1>3 DEF DedupStep, DedupNext
    <2>1. CASE ListDuplicates(c)
      <3>1. PICK p : Turns(c, [pc |-> "reviewing", pair |-> p]) BY <2>1 DEF ListDuplicates
      <3>2. [pc |-> "reviewing", pair |-> p].pc \notin Merging \cup {"resolved"} OBVIOUS
      <3> QED BY <1>0, <2>1, <3>1, <3>2, TurnIsPlain DEF ListDuplicates
    <2>2. CASE LoadMerge(c, contacts) \/ LoadMerge(c, companies)
      BY <1>0, <2>2, LoadTurns DEF LoadMerge
    <2>3. CASE markDistinct(c) \/ MergeContacts(c) \/ MergeCompanies(c) \/ RolledBack(c)
      BY <1>0, <2>3, AnswerIsPlain DEF markDistinct, MergeContacts, MergeCompanies, Merged, RolledBack
    <2> QED BY <2>1, <2>2, <2>3
  <1>4. CASE ImportStep
    BY <1>0, <1>4, ImportIsPlain DEF ImportStep, ImportNext, ImportPreview, ImportCommit, Cancel
  <1>5. CASE ConnectorsNext
    <2>1. UNCHANGED astray
      BY <1>5 DEF ConnectorsNext, PostConnectorEvent, Resolve, handleCandidateEnriched,
         handleInvitationStage, handleInvitationReplyPositive, Failed
    <2>2. ASSUME NEW c \in Clients, Answers(c)
          PROVE  \A d \in Clients : http'[d].pc = "repointed" => http'[d] = http[d]
      BY <1>0, <2>2, AnswerIsPlain
    <2>3. ASSUME NEW c \in Clients, PostConnectorEvent(c)
          PROVE  \A d \in Clients : http'[d].pc = "repointed" => http'[d] = http[d]
      BY <1>0, <2>3, PostIsPlain
    <2> QED BY <1>0, <1>5, <2>1, <2>2, <2>3, ResolveTurns
         DEF ConnectorsNext, handleCandidateEnriched, handleInvitationStage,
             handleInvitationReplyPositive, Failed
  <1>6. CASE UNCHANGED workspaceVars BY <1>6 DEF workspaceVars, crmVars
  <1> QED BY <1>1, <1>2, <1>3, <1>4, <1>5, <1>6 DEF WorkspaceNext

LEMMA MergeInvKept ==
  ASSUME TypeOK, KindsInv, MergeInv, [WorkspaceNext]_workspaceVars PROVE MergeInv'
  BY AllMove, OthersTurn, RepointSurvives, SurvivorsKept

LEMMA MergeInvInit ==
  ASSUME WorkspaceInit PROVE MergeInv
  BY QuietTyped DEF WorkspaceInit, CrmInit, MergeInv

(* Dedup!MergeKeepsOne (dedup.go 512-538): when a merge commits, the        *)
(* survivor is there, unless it was gone before the merge updated it: from  *)
(* that update on its row lock keeps everybody else from removing it.       *)
THEOREM OneIsKept == WorkspaceSpec => MergeKeepsOne
  <1> DEFINE Inv == TypeOK /\ KindsInv /\ MergeInv
             Kept(c) == LET q == http[c] IN
               MergeContacts(c) \/ MergeCompanies(c) => q.survivor \in Known' \/ q.loser \in astray'
  <1>1. WorkspaceInit => Inv BY TypeInit, KindsInit, MergeInvInit
  <1>2. Inv /\ [WorkspaceNext]_workspaceVars => Inv' BY TypeStep, KindsKept, MergeInvKept
  <1>3. Inv => [\A c \in Clients : Kept(c)]_crmVars
    <2> SUFFICES ASSUME TypeOK, KindsInv, MergeInv, NEW c \in Clients, MergeContacts(c) \/ MergeCompanies(c)
                 PROVE  http[c].survivor \in Known' \/ http[c].loser \in astray'
      OBVIOUS
    <2>1. http[c].pc = "repointed" /\ UNCHANGED astray
      BY DEF MergeContacts, MergeCompanies, Merged, Continues
    <2>2. CASE http[c].loser \in astray BY <2>1, <2>2
    <2>3. CASE http[c].survivor \in Known
      <3>1. http[c].survivor # http[c].loser BY MergeCommits
      <3>2. /\ Ids(contacts) \ {http[c].loser} \subseteq Ids(contacts')
            /\ Ids(companies) \ {http[c].loser} \subseteq Ids(companies')
        <4>1. CASE MergeContacts(c) BY <4>1, MergeCommits
        <4>2. CASE MergeCompanies(c) BY <4>2, MergeCommits
        <4> QED BY <4>1, <4>2
      <3>3. ~IsDeal(http[c].survivor)
        <4>1. http[c].survivor \in Nat \ {0} BY MergeCommits
        <4>2. IsPerson(http[c].survivor) \/ IsFirm(http[c].survivor)
          <5>1. CASE MergeContacts(c)
            <6>1. MergesContacts(http[c]) BY <5>1, MergeCommits
            <6> QED BY <6>1 DEF IsPerson
          <5>2. CASE MergeCompanies(c)
            <6>1. MergesCompanies(http[c]) BY <5>2, MergeCommits
            <6> QED BY <6>1 DEF IsFirm
          <5> QED BY <5>1, <5>2
        <4> QED BY <4>1, <4>2 DEF KindsInv, Apart
      <3>4. http[c].survivor \in Ids(contacts) \cup Ids(companies) BY <2>3, <3>3 DEF Known, IsDeal
      <3>5. http[c].survivor \in Ids(contacts') \cup Ids(companies') BY <3>1, <3>2, <3>4
      <3> QED BY <3>5 DEF Known
    <2> QED BY <2>1, <2>2, <2>3 DEF MergeInv
  <1> QED BY <1>1, <1>2, <1>3, PTL DEF WorkspaceSpec, MergeKeepsOne

-----------------------------------------------------------------------------
(* Walks: what a reader that follows the cursors has read                   *)

LEMMA GreatestExists ==
  ASSUME NEW m \in Nat, NEW S, S \subseteq 0..m, S # {}
  PROVE  \E n \in S : \A k \in S : k <= n
  <1> DEFINE M == {k \in 0..m : m - k \in S}
  <1>1. M \subseteq Nat OBVIOUS
  <1>2. M # {}
    <2>1. PICK k \in S : TRUE OBVIOUS
    <2>2. k \in 0..m OBVIOUS
    <2>3. m - k \in 0..m /\ m - (m - k) = k BY <2>2
    <2> QED BY <2>1, <2>3
  <1>3. \A k \in S : m - k \in M
    <2> TAKE k \in S
    <2>1. k \in 0..m OBVIOUS
    <2> QED BY <2>1
  <1>4. PICK n \in M : \A k \in M : n <= k BY <1>1, <1>2, LeastExists
  <1>5. n \in 0..m /\ m - n \in S BY <1>4
  <1>6. ASSUME NEW k \in S PROVE k <= m - n
    <2>1. k \in 0..m /\ n <= m - k BY <1>3, <1>4
    <2> QED BY <1>5, <2>1
  <1> QED BY <1>5, <1>6

(* The n greatest of a set.                                                 *)
Above(S, i) == {j \in S : i < j}
Top(S, n) == {i \in S : Cardinality(Above(S, i)) < n}

LEMMA TopIs ==
  ASSUME NEW m \in Nat, NEW S, S \subseteq 0..m, NEW n \in Nat \ {0}
  PROVE  /\ Top(S, n) \subseteq S /\ IsFiniteSet(Top(S, n))
         /\ \A i \in Top(S, n), j \in S : i < j => j \in Top(S, n)
         /\ Cardinality(Top(S, n)) \in 0..n
         /\ Cardinality(Top(S, n)) < n => Top(S, n) = S
  <1> DEFINE U == Top(S, n)
  <1>1. IsFiniteSet(S)
    <2>1. IsFiniteSet(0..m) BY FS_Interval
    <2> QED BY <2>1, FS_Subset
  <1>2. U \subseteq S /\ \A i \in S : i \in U <=> Cardinality(Above(S, i)) < n BY DEF Top
  <1>8. \A i \in S : i \in 0..m OBVIOUS
  <1> HIDE DEF U
  <1>3. IsFiniteSet(U) /\ Cardinality(U) \in Nat BY <1>1, <1>2, FS_Subset, FS_CardinalityType
  <1>4. \A i : IsFiniteSet(Above(S, i)) /\ Cardinality(Above(S, i)) \in Nat
    <2>1. \A i : Above(S, i) \in SUBSET S BY DEF Above
    <2> QED BY <1>1, <2>1, FS_Subset, FS_CardinalityType
  <1>5. ASSUME NEW i \in U, NEW j \in S, i < j PROVE j \in U
    <2>1. i \in S /\ i \in 0..m /\ j \in 0..m /\ \A k \in S : k \in 0..m BY <1>2, <1>8
    <2>2. Above(S, j) \in SUBSET Above(S, i)
      <3>1. \A k \in S : j < k => i < k BY <1>5, <2>1
      <3> QED BY <3>1 DEF Above
    <2>3. Cardinality(Above(S, j)) <= Cardinality(Above(S, i)) BY <1>4, <2>2, FS_Subset
    <2>4. Cardinality(Above(S, i)) < n BY <1>2, <2>1
    <2>5. Cardinality(Above(S, j)) < n BY <1>4, <2>3, <2>4
    <2> QED BY <1>2, <2>5
  <1>6. Cardinality(U) <= n
    <2>1. CASE U = {} BY <2>1, FS_EmptySet
    <2>2. CASE U # {}
      <3>0. U \subseteq Nat BY <1>2, <1>8
      <3>1. PICK i \in U : \A k \in U : i <= k BY <3>0, <2>2, LeastExists
      <3>2. i \in S /\ i \in Nat /\ \A k \in U : k \in S /\ k \in Nat BY <1>2, <1>8, <3>0
      <3>3. U \in SUBSET (Above(S, i) \cup {i}) BY <1>2, <3>1, <3>2 DEF Above
      <3>4. IsFiniteSet(Above(S, i) \cup {i})
            /\ Cardinality(Above(S, i) \cup {i}) = Cardinality(Above(S, i)) + 1
        BY <1>4, <3>2, FS_AddElement DEF Above
      <3>5. Cardinality(U) <= Cardinality(Above(S, i)) + 1 BY <3>3, <3>4, FS_Subset
      <3>6. Cardinality(Above(S, i)) < n BY <1>2, <3>2
      <3> QED BY <1>3, <1>4, <3>5, <3>6
    <2> QED BY <2>1, <2>2
  <1>7. ASSUME Cardinality(U) < n, U # S PROVE FALSE
    <2> DEFINE V == S \ U
    <2>1. V # {} /\ V \subseteq 0..m BY <1>2, <1>7
    <2>2. PICK i \in V : \A k \in V : k <= i BY <2>1, GreatestExists
    <2>3. i \in S /\ i \notin U /\ i \in 0..m /\ \A k \in S : k \in 0..m BY <1>8, <2>2
    <2>4. Above(S, i) \in SUBSET U
      <3>1. \A k \in S : i < k => ~(k <= i) BY <2>3
      <3> QED BY <2>2, <2>3, <3>1 DEF Above
    <2>5. Cardinality(Above(S, i)) <= Cardinality(U) BY <1>3, <2>4, FS_Subset
    <2>6. ~(Cardinality(Above(S, i)) < n) BY <1>2, <2>3
    <2> QED BY <1>3, <1>4, <1>7, <2>5, <2>6
  <1> QED BY <1>2, <1>3, <1>5, <1>6, <1>7 DEF U

LEMMA NewestIs ==
  ASSUME NEW T, NEW cursor, NEW n
  PROVE  NewestBelow(T, cursor, n) = Top({i \in Ids(T) : i < cursor}, n)
  <1> DEFINE S == {i \in Ids(T) : i < cursor}
  <1>1. \A i : Above(S, i) = {j \in Ids(T) : i < j /\ j < cursor} BY DEF Above
  <1> QED BY <1>1 DEF NewestBelow, Top

(* A page of S, the rows below the cursor: it leaves none out that is above *)
(* its own cursor, and the last one leaves none out.                        *)
Turned(page, S) ==
  /\ page.ids \subseteq S /\ IsFiniteSet(page.ids)
  /\ page.cursor \in Nat /\ page.more \in BOOLEAN
  /\ page.more =>
       /\ page.cursor \in S
       /\ \A i \in page.ids : i >= page.cursor
       /\ \A i \in S : i < page.cursor \/ i \in page.ids
  /\ ~page.more => page.ids = S

LEMMA StartIs == Start \in Nat BY CrmBoundsAssumption DEF Start

LEMMA PageIs ==
  ASSUME NEW ids, NEW cursor, NEW more
  PROVE  /\ Page(ids, cursor, more).ids = ids
         /\ Page(ids, cursor, more).cursor = cursor
         /\ Page(ids, cursor, more).more = more
  BY DEF Page

LEMMA ListedPages ==
  ASSUME NEW m \in Nat, NEW S, S \subseteq 0..m
  PROVE  Turned(PageOf(Top(S, PageLimit + 1)), S)
  <1> DEFINE n == PageLimit + 1
             ids == Top(S, n)
             least == Least(ids)
             shown == ids \ {least}
  <1>0. PageLimit \in Nat /\ n \in Nat \ {0} /\ PageLimit > 0 BY CrmBoundsAssumption
  <1>1. /\ ids \subseteq S /\ IsFiniteSet(ids)
        /\ \A i \in ids, j \in S : i < j => j \in ids
        /\ Cardinality(ids) \in 0..n
        /\ Cardinality(ids) < n => ids = S
    BY <1>0, TopIs
  <1>2. CASE Cardinality(ids) <= PageLimit
    <2>1. PageOf(ids) = Page(ids, Start, FALSE) BY <1>2 DEF PageOf
    <2>2. ids = S BY <1>0, <1>1, <1>2
    <2> DEFINE page == PageOf(ids)
    <2> HIDE DEF ids
    <2>3. page.ids = ids /\ page.cursor = Start /\ page.more = FALSE BY <2>1 DEF Page
    <2> HIDE DEF page
    <2>4. Turned(page, S) BY <1>1, <2>2, <2>3, StartIs DEF Turned
    <2> QED BY <2>4 DEF page, ids
  <1>3. CASE ~(Cardinality(ids) <= PageLimit)
    <2>1. PageOf(ids) = Page(shown, Least(shown), TRUE) BY <1>3 DEF PageOf
    <2>2. \A i \in S : i \in Nat OBVIOUS
    <2> HIDE DEF ids, n
    <2>3. ids # {} /\ ids \subseteq Nat
      <3>1. Cardinality(ids) # 0 BY <1>0, <1>3
      <3> QED BY <1>1, <2>2, <3>1, FS_EmptySet
    <2>4. least \in ids /\ \A k \in ids : least <= k BY <2>3, LeastIs
    <2>5. IsFiniteSet(shown) /\ Cardinality(shown) = Cardinality(ids) - 1
      BY <1>1, <2>4, FS_RemoveElement
    <2>6. shown # {} /\ shown \subseteq Nat
      <3>1. Cardinality(shown) # 0 BY <1>0, <1>1, <1>3, <2>5
      <3> QED BY <2>3, <3>1, FS_EmptySet
    <2> HIDE DEF shown, least
    <2>7. Least(shown) \in shown /\ \A k \in shown : Least(shown) <= k BY <2>6, LeastIs
    <2> DEFINE cursor == Least(shown)
    <2>8. cursor \in ids /\ cursor # least /\ least < cursor
      <3>1. cursor \in ids /\ cursor # least BY <2>7 DEF shown
      <3> HIDE DEF cursor
      <3>2. cursor \in Nat /\ least \in Nat /\ least <= cursor BY <2>3, <2>4, <3>1
      <3> QED BY <3>1, <3>2
    <2>9. ASSUME NEW i \in S, ~(i < cursor) PROVE i \in shown
      <3>1. i \in Nat /\ cursor \in Nat BY <2>2, <2>3, <2>8
      <3>2. i \in ids BY <1>1, <2>8, <2>9, <3>1
      <3>3. least \in Nat BY <2>3, <2>4
      <3>4. i # least BY <2>8, <2>9, <3>1, <3>3
      <3> QED BY <3>2, <3>4 DEF shown
    <2>10. shown \subseteq S /\ cursor \in S /\ cursor \in Nat BY <1>1, <2>2, <2>8 DEF shown
    <2>11. \A k \in shown : k >= cursor BY <2>6, <2>7, <2>10
    <2>14. PageOf(ids) = Page(shown, cursor, TRUE) BY <2>1
    <2> HIDE DEF cursor
    <2> DEFINE page == PageOf(ids)
    <2>12. page.ids = shown /\ page.cursor = cursor /\ page.more = TRUE
      BY <2>14 DEF Page
    <2> HIDE DEF page
    <2>13. Turned(page, S) BY <2>5, <2>9, <2>10, <2>11, <2>12 DEF Turned
    <2> QED BY <2>13 DEF page, ids, n
  <1> QED BY <1>2, <1>3

LEMMA ExportedPages ==
  ASSUME NEW m \in Nat, NEW S, S \subseteq 0..m
  PROVE  Turned(ExportPage(Top(S, PageLimit)), S)
  <1> DEFINE ids == Top(S, PageLimit)
             page == ExportPage(ids)
  <1>0. PageLimit \in Nat \ {0} BY CrmBoundsAssumption
  <1>1. /\ ids \subseteq S /\ IsFiniteSet(ids)
        /\ \A i \in ids, j \in S : i < j => j \in ids
        /\ Cardinality(ids) \in 0..PageLimit
        /\ Cardinality(ids) < PageLimit => ids = S
    BY <1>0, TopIs
  <1>2. /\ page.ids = ids /\ page.cursor = (IF ids = {} THEN Start ELSE Least(ids))
        /\ page.more = (Cardinality(ids) = PageLimit)
    BY PageIs DEF ExportPage
  <1> SUFFICES Turned(page, S) OBVIOUS
  <1> HIDE DEF ids, page
  <1>3. \A i \in S : i \in Nat OBVIOUS
  <1>4. CASE Cardinality(ids) = PageLimit
    <2>1. ids # {} /\ ids \subseteq Nat
      <3>1. Cardinality(ids) # 0 BY <1>0, <1>4
      <3> QED BY <1>1, <1>3, <3>1, FS_EmptySet
    <2>2. Least(ids) \in ids /\ \A k \in ids : Least(ids) <= k BY <2>1, LeastIs
    <2> DEFINE cursor == Least(ids)
    <2>3. page.cursor = cursor /\ page.more = TRUE BY <1>2, <1>4, <2>1
    <2>4. cursor \in ids /\ \A k \in ids : cursor <= k BY <2>2
    <2> HIDE DEF cursor
    <2>5. cursor \in S /\ cursor \in Nat BY <1>1, <1>3, <2>4
    <2>6. \A i \in ids : i >= cursor BY <2>1, <2>4, <2>5
    <2>7. \A i \in S : i < cursor \/ i \in ids BY <1>1, <1>3, <2>4, <2>5
    <2>8. page.ids = ids BY <1>2
    <2>9. page.ids \subseteq S /\ IsFiniteSet(page.ids) BY <1>1, <2>8
    <2>10. page.cursor \in Nat /\ page.cursor \in S /\ page.more \in BOOLEAN BY <2>3, <2>5
    <2>11. /\ \A i \in page.ids : i >= page.cursor
           /\ \A i \in S : i < page.cursor \/ i \in page.ids
      BY <2>3, <2>6, <2>7, <2>8
    <2> QED BY <2>3, <2>9, <2>10, <2>11 DEF Turned
  <1>5. CASE Cardinality(ids) # PageLimit
    <2>1. ids = S BY <1>0, <1>1, <1>5
    <2>2. page.more = FALSE BY <1>2, <1>5
    <2>3. page.cursor \in Nat
      <3>1. CASE ids = {} BY <1>2, <3>1, StartIs
      <3>2. CASE ids # {}
        <4>1. Least(ids) \in ids BY <1>1, <1>3, <3>2, LeastIs
        <4>2. page.cursor = Least(ids) BY <1>2, <3>2
        <4> QED BY <1>1, <1>3, <4>1, <4>2
      <3> QED BY <3>1, <3>2
    <2>4. page.ids = ids BY <1>2
    <2>5. page.ids = S /\ IsFiniteSet(page.ids) BY <1>1, <2>1, <2>4
    <2> QED BY <2>2, <2>3, <2>5 DEF Turned
  <1> QED BY <1>4, <1>5

LEMMA TableIds ==
  ASSUME TablesOK, KindsInv, NEW list
  PROVE  list \in {"contacts", "companies", "deals"} =>
           /\ Ids(TableOf(list)) \subseteq 0..MaxRecords
           /\ \A i \in Ids(TableOf(list)) : i < next /\ i < Start
  <1>1. next \in 1..(MaxRecords + 1) /\ MaxRecords \in Nat BY CrmBoundsAssumption DEF TablesOK
  <1>2. \A i \in Ids(contacts) \cup Ids(companies) \cup Ids(deals) : i \in Nat /\ i < next
    BY KindsNow DEF TablesOK, ContactRecords, CompanyRecords, DealRecords, Ids
  <1>3. \A i \in Nat : i < next => i \in 0..MaxRecords /\ i < MaxRecords + 1 BY <1>1
  <1>4. \A i \in Ids(contacts) \cup Ids(companies) \cup Ids(deals) :
          i \in 0..MaxRecords /\ i < next /\ i < MaxRecords + 1
    BY <1>2, <1>3
  <1>5. list \in {"contacts", "companies", "deals"} =>
          Ids(TableOf(list)) \subseteq Ids(contacts) \cup Ids(companies) \cup Ids(deals)
    BY DEF TableOf
  <1> QED BY <1>4, <1>5 DEF Start

LEMMA WalkPages ==
  ASSUME TablesOK, KindsInv, NEW w \in WalkRecords
  PROVE  Turned(Pages(w), {i \in Ids(TableOf(w.list)) : i < w.cursor})
  <1> DEFINE T == TableOf(w.list)
             S == {i \in Ids(T) : i < w.cursor}
  <1>1. w.list \in {"contacts", "companies", "deals"} /\ w.export \in BOOLEAN BY DEF WalkRecords
  <1>2. MaxRecords \in Nat /\ S \subseteq 0..MaxRecords BY <1>1, TableIds, CrmBoundsAssumption
  <1>3. Pages(w) = IF w.export THEN ExportPage(NewestBelow(T, w.cursor, PageLimit))
                   ELSE PageOf(NewestBelow(T, w.cursor, PageLimit + 1))
    <2>1. CASE w.list = "contacts"
      <3>1. T = contacts BY <2>1 DEF TableOf
      <3> QED BY <2>1, <3>1 DEF Pages, ExportContacts, ListContacts, listContacts
    <2>2. CASE w.list = "companies"
      <3>1. T = companies BY <2>2 DEF TableOf
      <3> QED BY <2>2, <3>1 DEF Pages, ExportCompanies, ListCompanies, listCompanies
    <2>3. CASE w.list = "deals"
      <3>1. T = deals BY <2>3 DEF TableOf
      <3> QED BY <2>3, <3>1 DEF Pages, ExportDeals, ListDeals, listDeals
    <2> QED BY <1>1, <2>1, <2>2, <2>3
  <1>4. \A n : NewestBelow(T, w.cursor, n) = Top(S, n) BY NewestIs
  <1>5. Pages(w) = IF w.export THEN ExportPage(Top(S, PageLimit)) ELSE PageOf(Top(S, PageLimit + 1))
    BY <1>3, <1>4
  <1> HIDE DEF S
  <1>6. Turned(Pages(w), S)
    <2>1. CASE w.export BY <1>2, <1>5, <2>1, ExportedPages
    <2>2. CASE ~w.export BY <1>2, <1>5, <2>2, ListedPages
    <2> QED BY <2>1, <2>2
  <1> QED BY <1>6 DEF S

(* Reading a page.                                                          *)
LEMMA PageTurns ==
  ASSUME TablesOK, KindsInv, NEW w, WalkOK(w), w.pc = "paging", NEW page, page = Pages(w),
         NEW v, v = [w EXCEPT !.pc = IF page.more THEN "paging" ELSE "read", !.cursor = page.cursor,
                              !.seen = @ \cup page.ids, !.rows = @ + Cardinality(page.ids)]
  PROVE  WalkOK(v)
  <1> DEFINE S == {i \in Ids(TableOf(w.list)) : i < w.cursor}
  <1>1. /\ w \in WalkRecords /\ IsFiniteSet(w.seen) /\ w.rows = Cardinality(w.seen)
        /\ \A i \in w.there : i < next
        /\ \A i \in w.seen : i >= w.cursor
        /\ \A i \in w.there \cap Ids(TableOf(w.list)) : i < w.cursor \/ i \in w.seen
    BY DEF WalkOK
  <1>2. Turned(page, S) BY <1>1, WalkPages
  <1>3. /\ page.ids \subseteq S /\ IsFiniteSet(page.ids)
        /\ page.cursor \in Nat /\ page.more \in BOOLEAN
        /\ page.more =>
             /\ page.cursor \in S
             /\ \A i \in page.ids : i >= page.cursor
             /\ \A i \in S : i < page.cursor \/ i \in page.ids
        /\ ~page.more => page.ids = S
    BY <1>2 DEF Turned
  <1>4. /\ w.cursor \in Nat /\ w.seen \subseteq Nat /\ w.rows \in Nat /\ w.there \subseteq Nat
        /\ w.list \in {"contacts", "companies", "deals"}
    BY <1>1 DEF WalkRecords
  <1>5. S \subseteq Nat /\ \A i \in S : i < w.cursor
    BY <1>4, TableIds, CrmBoundsAssumption
  <1>6. \A i \in w.there \cap Ids(TableOf(w.list)) : i \in S \/ i \in w.seen BY <1>1
  <1> HIDE DEF S
  <1> DEFINE n == w.rows + Cardinality(page.ids)
             seen == w.seen \cup page.ids
             pc == IF page.more THEN "paging" ELSE "read"
  <1>7. Cardinality(page.ids) \in Nat /\ IsFiniteSet(seen) /\ n = Cardinality(seen)
    <2>1. w.seen \cap page.ids = {}
      <3>1. \A i \in w.seen : ~(i < w.cursor) BY <1>1, <1>4
      <3> QED BY <1>3, <1>5, <3>1
    <2>2. IsFiniteSet(seen)
          /\ Cardinality(seen) = Cardinality(w.seen) + Cardinality(page.ids) - Cardinality(w.seen \cap page.ids)
      BY <1>1, <1>3, FS_Union
    <2>3. Cardinality(w.seen \cap page.ids) = 0 BY <2>1, FS_EmptySet
    <2>4. Cardinality(page.ids) \in Nat /\ Cardinality(w.seen) \in Nat
      BY <1>1, <1>3, FS_CardinalityType
    <2> QED BY <1>1, <2>2, <2>3, <2>4
  <1>8. n \in Nat /\ seen \in SUBSET Nat /\ pc \in {"paging", "read"}
    BY <1>3, <1>4, <1>5, <1>7
  <1>9. v = [w EXCEPT !.pc = pc, !.cursor = page.cursor, !.seen = seen, !.rows = n]
    BY <1>1 DEF WalkRecords
  <1>16. (pc = "paging" => page.more) /\ (pc = "read" => ~page.more) OBVIOUS
  <1> HIDE DEF n, seen, pc
  <1>10. /\ v \in WalkRecords
         /\ v.pc = pc /\ v.cursor = page.cursor /\ v.seen = seen /\ v.rows = n
         /\ v.there = w.there /\ v.list = w.list
    BY <1>1, <1>3, <1>8, <1>9 DEF WalkRecords
  <1>11. IsFiniteSet(v.seen) /\ v.rows = Cardinality(v.seen) BY <1>7, <1>10
  <1>12. \A i \in v.there : i < next BY <1>1, <1>10
  <1>13. ASSUME v.pc = "paging"
         PROVE  /\ \A i \in v.seen : i >= v.cursor
                /\ \A i \in v.there \cap Ids(TableOf(v.list)) : i < v.cursor \/ i \in v.seen
    <2>1. page.more BY <1>10, <1>13, <1>16
    <2>2. page.cursor < w.cursor BY <1>3, <1>5, <2>1
    <2>3. \A i \in w.seen : i >= page.cursor BY <1>1, <1>3, <1>4, <2>2
    <2>4. \A i \in seen : i >= page.cursor BY <1>3, <2>1, <2>3 DEF seen
    <2>5. \A i \in w.there \cap Ids(TableOf(w.list)) : i < page.cursor \/ i \in seen
      BY <1>3, <1>6, <2>1 DEF seen
    <2> QED BY <1>10, <2>4, <2>5
  <1>14. ASSUME v.pc = "read"
         PROVE  v.there \cap Ids(TableOf(v.list)) \subseteq v.seen
    <2>1. page.ids = S BY <1>3, <1>10, <1>14, <1>16
    <2> QED BY <1>6, <1>10, <2>1 DEF seen
  <1> QED BY <1>10, <1>11, <1>12, <1>13, <1>14 DEF WalkOK

(* An id below the sequence is none of those it hands out next.             *)
LEMMA BelowIsOld ==
  ASSUME NEW a \in Nat, NEW b \in Nat, NEW k \in Nat, k < a PROVE k \notin a..(b - 1)
  OBVIOUS

(* While the tables change nothing appears among what was there.            *)
LEMMA WalksKept ==
  ASSUME TablesOK, IdsMove, WalkInv, UNCHANGED walks PROVE WalkInv'
  <1>0. next \in Nat /\ next' \in Nat /\ next' >= next BY KnownTyped DEF IdsMove
  <1>1. ASSUME NEW list \in {"contacts", "companies", "deals"}, NEW i \in Nat, i < next,
               i \in Ids(TableOf(list)')
        PROVE  i \in Ids(TableOf(list))
    <2>1. i \notin next..(next' - 1) BY <1>0, <1>1, BelowIsOld
    <2>2. CASE list = "contacts" BY <1>1, <2>1, <2>2 DEF TableOf, IdsMove
    <2>3. CASE list = "companies" BY <1>1, <2>1, <2>3 DEF TableOf, IdsMove
    <2>4. CASE list = "deals" BY <1>1, <2>1, <2>4 DEF TableOf, IdsMove
    <2> QED BY <1>1, <2>2, <2>3, <2>4
  <1>2. ASSUME NEW r \in Readers, walks[r].pc \in {"paging", "read"}
        PROVE  /\ \A i \in walks[r].there : i < next'
               /\ walks[r].there \cap Ids(TableOf(walks[r].list)')
                    \subseteq walks[r].there \cap Ids(TableOf(walks[r].list))
    <2>1. /\ walks[r] \in WalkRecords /\ \A i \in walks[r].there : i < next
      BY <1>2 DEF WalkInv, WalkOK
    <2>2. walks[r].there \subseteq Nat /\ walks[r].list \in {"contacts", "companies", "deals"}
      BY <2>1 DEF WalkRecords
    <2>3. \A i \in walks[r].there : i < next' BY <1>0, <2>1, <2>2
    <2> QED BY <1>1, <2>1, <2>2, <2>3
  <1> QED BY <1>2 DEF WalkInv, WalkOK

LEMMA WalkStepKept ==
  ASSUME TablesOK, KindsInv, WalkInv, Walks PROVE WalkInv'
  <1>0. UNCHANGED <<contacts, companies, deals, next>>
    BY DEF Walks, BeginWalk, ReadPage, Nothing, records, books
  <1>1. ASSUME NEW r \in Readers, NEW v, WalkOK(v), walks' = [walks EXCEPT ![r] = v]
        PROVE  WalkInv'
    <2>1. /\ walks' = [s \in Readers |-> walks'[s]] /\ walks'[r] = v
          /\ \A s \in Readers : s # r => walks'[s] = walks[s]
      BY <1>1 DEF WalkInv
    <2>2. \A s \in Readers : WalkOK(walks'[s]) BY <1>1, <2>1 DEF WalkInv
    <2>3. \A s \in Readers : WalkOK(walks[s])' BY <1>0, <2>2 DEF WalkOK, TableOf, Ids
    <2> QED BY <2>1, <2>3 DEF WalkInv
  <1>2. ASSUME NEW r \in Readers, ReadPage(r) PROVE WalkInv'
    <2> DEFINE w == walks[r]
               page == Pages(w)
               v == [w EXCEPT !.pc = IF page.more THEN "paging" ELSE "read", !.cursor = page.cursor,
                              !.seen = @ \cup page.ids, !.rows = @ + Cardinality(page.ids)]
    <2>1. WalkOK(w) /\ w.pc = "paging" /\ walks' = [walks EXCEPT ![r] = v]
      BY <1>2 DEF ReadPage, WalkInv
    <2>2. WalkOK(v) BY <2>1, PageTurns
    <2> HIDE DEF v
    <2> QED BY <1>1, <2>1, <2>2
  <1>3. ASSUME NEW r \in Readers, NEW list \in {"contacts", "companies", "deals"},
               NEW export \in BOOLEAN, BeginWalk(r, list, export)
        PROVE  WalkInv'
    <2> DEFINE there == Ids(TableOf(list))
               v == [pc |-> "paging", list |-> list, export |-> export, cursor |-> Start,
                     seen |-> {}, rows |-> 0, there |-> there]
    <2>1. walks' = [walks EXCEPT ![r] = v] BY <1>3 DEF BeginWalk
    <2>2. /\ there \subseteq 0..MaxRecords /\ MaxRecords \in Nat
          /\ \A i \in there : i < next /\ i < Start
      BY TableIds, CrmBoundsAssumption
    <2> HIDE DEF there
    <2>3. there \in SUBSET Nat /\ Start \in Nat BY <2>2, StartIs
    <2>4. v \in WalkRecords BY <2>3 DEF WalkRecords
    <2>5. /\ v.pc = "paging" /\ v.list = list /\ v.cursor = Start /\ v.seen = {} /\ v.rows = 0
          /\ v.there = there
      OBVIOUS
    <2> HIDE DEF v
    <2>6. IsFiniteSet(v.seen) /\ v.rows = Cardinality(v.seen) BY <2>5, FS_EmptySet
    <2>7. WalkOK(v) BY <2>2, <2>4, <2>5, <2>6 DEF WalkOK
    <2> QED BY <1>1, <2>1, <2>7
  <1> QED BY <1>2, <1>3 DEF Walks

LEMMA WalkInvKept ==
  ASSUME TypeOK, KindsInv, WalkInv, [WorkspaceNext]_workspaceVars PROVE WalkInv'
  <1>0. TablesOK /\ HttpOK /\ IdsMove BY AllMove DEF TypeOK
  <1>1. CASE WalkStep BY <1>0, <1>1, WalkStepKept DEF WalkStep
  <1>2. UNCHANGED walks => WalkInv' BY <1>0, WalksKept
  <1>3. CASE RequestStep BY <1>0, <1>2, <1>3, RequestIsPlain DEF RequestStep
  <1>4. CASE DedupStep BY <1>0, <1>2, <1>4, MergeTurn DEF DedupStep, DedupNext
  <1>5. CASE ImportStep BY <1>0, <1>2, <1>5, ImportIsPlain DEF ImportStep, ImportNext
  <1>6. CASE ConnectorsNext
    <2>1. UNCHANGED walks
      BY <1>6 DEF ConnectorsNext, PostConnectorEvent, Resolve, handleCandidateEnriched,
         handleInvitationStage, handleInvitationReplyPositive, Failed, Answers, Turns
    <2> QED BY <1>2, <2>1
  <1>7. CASE UNCHANGED workspaceVars BY <1>2, <1>7 DEF workspaceVars, crmVars
  <1> QED BY <1>1, <1>3, <1>4, <1>5, <1>6, <1>7 DEF WorkspaceNext

LEMMA WalkInvInit ==
  ASSUME WorkspaceInit PROVE WalkInv
  BY QuietTyped DEF WorkspaceInit, CrmInit, WalkInv, WalkOK

LEMMA WalkInvHolds ==
  ASSUME WalkInv PROVE WalkIsComplete
  BY DEF WalkInv, WalkOK, WalkIsComplete

(* Crm!WalkIsComplete (ops.go 211-248, export.go 152-210): whoever follows  *)
(* the cursors of a list or an export to the end has read every record that *)
(* was there from the start to the end, and none twice, for every page size *)
(* and whatever is created, deleted or merged between two pages.            *)
THEOREM TheWalkIsComplete == WorkspaceSpec => []WalkIsComplete
  <1> DEFINE Inv == TypeOK /\ KindsInv /\ WalkInv
  <1>1. WorkspaceInit => Inv BY TypeInit, KindsInit, WalkInvInit
  <1>2. Inv /\ [WorkspaceNext]_workspaceVars => Inv' BY TypeStep, KindsKept, WalkInvKept
  <1>3. Inv => WalkIsComplete BY WalkInvHolds
  <1> QED BY <1>1, <1>2, <1>3, PTL DEF WorkspaceSpec

-----------------------------------------------------------------------------
(* Previews: what one tells depends on the file and on the two tables that  *)
(* rows are matched with, and the commit's rows are matched alike           *)

Matches(kind, row, C, F) ==
  \/ kind = "contact" /\ \E r \in C : row.email # NoEmail /\ r.email = row.email
  \/ kind = "company" /\ \E r \in F : SameFirm(r, row)
InOrder(rows, n) == {rows[k] : k \in {i \in 1..n : rows[i].ok}}
Noticed(kind, P) == UNION {dedupeKey(kind, p) : p \in P}
Foretold(kind, policy, row, P, C, F) ==
  IF ~row.ok THEN "error"
  ELSE IF \/ policy = "create"
          \/ ~Matches(kind, row, C, F) /\ dedupeKey(kind, row) \cap Noticed(kind, P) = {}
       THEN "create"
  ELSE IF policy = "skip" THEN "skip" ELSE "update"
Forecast(kind, policy, rows, C, F) ==
  [n \in 1..Len(rows) |-> Foretold(kind, policy, rows[n], InOrder(rows, n - 1), C, F)]

PreviewInv ==
  \A c \in Clients : LET q == http[c] IN
    q.pc = "previewed" => q.told = Forecast(q.kind, q.policy, q.rows, q.base[1], q.base[2])
FirmsInv == \A a, b \in companies : a.id = b.id => a = b

LEMMA MatchesIs ==
  ASSUME NEW e \in EngineRecords, NEW kind, NEW row, RowTyped(kind, row)
  PROVE  lookupMatch(e, kind, row) # {} <=> Matches(kind, row, e.contacts, e.companies)
  <1>1. CASE kind = "contact"
    <2>1. Ids(MatchingContacts(e, row)) \subseteq Nat
      BY DEF Ids, EngineRecords, ContactRecords, MatchingContacts
    <2>2. lookupMatch(e, kind, row) = Oldest(MatchingContacts(e, row))
      BY <1>1 DEF lookupMatch, MatchingContacts
    <2>3. lookupMatch(e, kind, row) # {} <=> MatchingContacts(e, row) # {} BY <2>1, <2>2, OldestIs
    <2> QED BY <1>1, <2>3 DEF Matches, MatchingContacts
  <1>2. CASE kind = "company"
    <2>1. Ids(MatchingCompanies(e, row)) \subseteq Nat
      BY DEF Ids, EngineRecords, CompanyRecords, MatchingCompanies
    <2>2. lookupMatch(e, kind, row) = Oldest(MatchingCompanies(e, row))
      BY <1>2 DEF lookupMatch, MatchingCompanies
    <2>3. lookupMatch(e, kind, row) # {} <=> MatchingCompanies(e, row) # {} BY <2>1, <2>2, OldestIs
    <2> QED BY <1>2, <2>3 DEF Matches, MatchingCompanies
  <1>3. CASE kind = "deal" BY <1>3 DEF Matches, lookupMatch
  <1> QED BY <1>1, <1>2, <1>3 DEF RowTyped

LEMMA InOrderGrows ==
  ASSUME NEW rows, NEW n \in Nat \ {0}
  PROVE  InOrder(rows, n) = IF rows[n].ok THEN InOrder(rows, n - 1) \cup {rows[n]} ELSE InOrder(rows, n - 1)
  <1>1. n - 1 \in Nat /\ \A k : k \in 1..n <=> (k \in 1..(n - 1) \/ k = n) OBVIOUS
  <1> QED BY <1>1 DEF InOrder

LEMMA NoneInOrder ==
  ASSUME NEW rows PROVE InOrder(rows, 0) = {}
  <1>1. \A k : k \notin 1..0 OBVIOUS
  <1> QED BY <1>1 DEF InOrder

LEMMA NoticedIs ==
  ASSUME NEW kind, NEW P, NEW row
  PROVE  /\ \A x : x \in Noticed(kind, P) <=> \E p \in P : x \in dedupeKey(kind, p)
         /\ Noticed(kind, P \cup {row}) = Noticed(kind, P) \cup dedupeKey(kind, row)
  <1>1. \A Q : \A x : x \in Noticed(kind, Q) <=> \E p \in Q : x \in dedupeKey(kind, p)
    BY DEF Noticed
  <1>2. \A x : x \in Noticed(kind, P \cup {row})
                <=> (x \in Noticed(kind, P) \/ x \in dedupeKey(kind, row))
    BY <1>1
  <1> QED BY <1>1, <1>2

(* How a row changes what the file has noticed so far.                      *)
LEMMA RowNoticed ==
  ASSUME NEW kind, NEW rows, NEW n \in Nat \ {0}, NEW e, NEW f, NEW outcome,
         Notes(e, f, kind, rows[n], outcome), e.seen = Noticed(kind, InOrder(rows, n - 1))
  PROVE  f.seen = Noticed(kind, InOrder(rows, n))
  <1> DEFINE row == rows[n]
             P == InOrder(rows, n - 1)
  <1>1. InOrder(rows, n) = IF row.ok THEN P \cup {row} ELSE P BY InOrderGrows
  <1>2. f.seen = IF row.ok THEN e.seen \cup dedupeKey(kind, row) ELSE e.seen BY DEF Notes
  <1>3. Noticed(kind, P \cup {row}) = Noticed(kind, P) \cup dedupeKey(kind, row) BY NoticedIs
  <1> HIDE DEF row, P
  <1> QED BY <1>1, <1>2, <1>3 DEF P

LEMMA OneMore ==
  ASSUME NEW n \in Nat \ {0}, NEW v, \A k \in 1..n : v[k] \in Outcomes,
         NEW s, s = [k \in 1..(n - 1) |-> v[k]]
  PROVE  Append(s, v[n]) = [k \in 1..n |-> v[k]]
  <1>1. s \in Seq(Outcomes) /\ Len(s) = n - 1 OBVIOUS
  <1> QED BY <1>1

LEMMA OutcomesAre ==
  ASSUME NEW m \in Nat, NEW s, NEW v, v = [k \in 1..m |-> v[k]], \A k \in 1..m : v[k] \in Outcomes,
         s[0] = <<>>, \A n \in 1..m : s[n] = Longer(s[n - 1], v[n])
  PROVE  s[m] = v
  <1> DEFINE Bad == {n \in Nat : n \in 0..m /\ s[n] # [k \in 1..n |-> v[k]]}
  <1>1. ASSUME Bad # {} PROVE FALSE
    <2>1. PICK n \in Bad : \A k \in Bad : n <= k BY <1>1, LeastExists
    <2>2. s[0] = [k \in 1..0 |-> v[k]] OBVIOUS
    <2>3. n # 0 BY <2>1, <2>2
    <2>8. n \in Nat /\ n \in 0..m BY <2>1
    <2> HIDE DEF Bad
    <2>9. n - 1 \notin Bad BY <2>1, <2>8
    <2> USE DEF Bad
    <2>4. n - 1 \in Nat /\ n - 1 \in 0..m /\ n \in 1..m BY <2>3, <2>8
    <2>5. s[n - 1] = [k \in 1..(n - 1) |-> v[k]] BY <2>4, <2>9
    <2>6. \A k \in 1..n : v[k] \in Outcomes BY <2>4
    <2>7. Longer(s[n - 1], v[n]) = [k \in 1..n |-> v[k]] BY <2>3, <2>4, <2>5, <2>6, OneMore DEF Longer
    <2> QED BY <2>1, <2>4, <2>7
  <1>2. m \notin Bad BY <1>1
  <1> QED BY <1>2

LEMMA ForetoldIs ==
  ASSUME NEW kind, NEW policy \in Policies, NEW rows, NEW C, NEW F, NEW m \in Nat, m = Len(rows)
  PROVE  LET v == Forecast(kind, policy, rows, C, F) IN
         /\ v = [k \in 1..m |-> v[k]]
         /\ \A k \in 1..m : /\ v[k] = Foretold(kind, policy, rows[k], InOrder(rows, k - 1), C, F)
                            /\ v[k] \in Outcomes
  <1>1. \A row, P : Foretold(kind, policy, row, P, C, F) \in Outcomes BY DEF Foretold, Outcomes
  <1> HIDE DEF Foretold
  <1> QED BY <1>1 DEF Forecast

(* A preview writes nothing and notices every row that is in order.         *)
LEMMA PreviewTells ==
  ASSUME TablesOK, NEW kind \in DOMAIN Files, NEW rows \in Files[kind], NEW policy \in Policies,
         NEW write \in BOOLEAN
  PROVE  ~write => process(kind, policy, write, rows).outcomes = Forecast(kind, policy, rows, contacts, companies)
  <1> DEFINE e == Engines(kind, policy, write, rows)
             m == Len(rows)
             v == Forecast(kind, policy, rows, contacts, companies)
             Mirrors(n) == e[n].contacts = contacts /\ e[n].companies = companies
                        /\ e[n].seen = Noticed(kind, InOrder(rows, n))
             Bad == {n \in Nat : n \in 0..m /\ ~Mirrors(n)}
  <1>1. /\ e[0] = Engine
        /\ \A n \in 1..m : e[n] = Classified(e[n - 1], kind, policy, write, rows[n])
        /\ process(kind, policy, write, rows) = e[m]
    BY FileRows, EnginesIs
  <1>2. m \in Nat /\ \A n \in 1..m : RowTyped(kind, rows[n]) BY FileRows
  <1>3. \A n \in 0..m : e[n] \in EngineRecords BY FilesGrow DEF Grown
  <1>4. Engine.contacts = contacts /\ Engine.companies = companies /\ Engine.seen = {}
        /\ Engine.outcomes = <<>>
    BY DEF Engine
  <1>10. \A k \in 1..m : v[k] = Foretold(kind, policy, rows[k], InOrder(rows, k - 1), contacts, companies)
                         /\ v[k] \in Outcomes
    BY <1>2, ForetoldIs
  <1>11. v = [k \in 1..m |-> v[k]] BY <1>2, ForetoldIs
  <1> HIDE DEF e, m, v
  <1>5. \A n \in 1..m :
          /\ ~write => Tables(e[n - 1], e[n])
          /\ Notes(e[n - 1], e[n], kind, rows[n], Verdict(e[n - 1], kind, policy, write, rows[n]))
    <2> TAKE n \in 1..m
    <2>1. n - 1 \in 0..m BY <1>2
    <2>2. e[n - 1] \in EngineRecords /\ RowTyped(kind, rows[n]) BY <1>2, <1>3, <2>1
    <2>3. e[n] = Classified(e[n - 1], kind, policy, write, rows[n]) BY <1>1
    <2> QED BY <2>2, <2>3, ClassifiedIs
  <1> SUFFICES ASSUME ~write PROVE e[m].outcomes = v BY <1>1 DEF v
  <1>6. ASSUME Bad # {} PROVE FALSE
    <2>1. PICK n \in Bad : \A k \in Bad : n <= k BY <1>6, LeastExists
    <2>2. Mirrors(0) BY <1>1, <1>4, NoneInOrder DEF Noticed
    <2>3. n # 0 BY <2>1, <2>2
    <2>4. n - 1 \in Nat /\ n - 1 \in 0..m /\ n \in 1..m /\ n - 1 \notin Bad BY <1>2, <2>1, <2>3
    <2>5. Mirrors(n - 1) BY <2>4
    <2>7. n \in Nat \ {0} BY <2>1, <2>3
    <2>8. /\ Tables(e[n - 1], e[n])
          /\ Notes(e[n - 1], e[n], kind, rows[n], Verdict(e[n - 1], kind, policy, write, rows[n]))
      BY <1>5, <2>4
    <2>9. e[n - 1].seen = Noticed(kind, InOrder(rows, n - 1)) BY <2>5
    <2>10. e[n].seen = Noticed(kind, InOrder(rows, n)) BY <2>7, <2>8, <2>9, RowNoticed
    <2>6. Mirrors(n) BY <2>5, <2>8, <2>10 DEF Tables
    <2> QED BY <2>1, <2>6
  <1>7. \A n \in 1..m : Verdict(e[n - 1], kind, policy, write, rows[n]) = v[n]
    <2> TAKE n \in 1..m
    <2>1. n - 1 \in 0..m /\ n - 1 \in Nat BY <1>2
    <2>2. Mirrors(n - 1) BY <1>6, <2>1
    <2>3. lookupMatch(e[n - 1], kind, rows[n]) # {} <=> Matches(kind, rows[n], contacts, companies)
      BY <1>2, <1>3, <2>1, <2>2, MatchesIs
    <2>4. v[n] = Foretold(kind, policy, rows[n], InOrder(rows, n - 1), contacts, companies) BY <1>10
    <2> HIDE DEF Matches, lookupMatch, dedupeKey
    <2>5. Recognised(e[n - 1], kind, rows[n]) <=>
            Matches(kind, rows[n], contacts, companies)
            \/ dedupeKey(kind, rows[n]) \cap Noticed(kind, InOrder(rows, n - 1)) # {}
      BY <2>2, <2>3 DEF Recognised
    <2> QED BY <2>4, <2>5 DEF Verdict, Foretold
  <1>8. \A n \in 1..m : e[n].outcomes = Longer(e[n - 1].outcomes, v[n]) BY <1>5, <1>7 DEF Notes
  <1>9. e[0].outcomes = <<>> BY <1>1, <1>4
  <1>13. \A k \in 1..m : v[k] \in Outcomes BY <1>10
  <1> HIDE DEF Mirrors
  <1> DEFINE s == [n \in 0..m |-> e[n].outcomes]
  <1>14. s[0] = <<>> /\ s[m] = e[m].outcomes /\ \A n \in 1..m : s[n] = Longer(s[n - 1], v[n])
    BY <1>2, <1>8, <1>9
  <1> HIDE DEF s
  <1>12. s[m] = v BY <1>2, <1>11, <1>13, <1>14, OutcomesAre
  <1> QED BY <1>12, <1>14

-----------------------------------------------------------------------------
(* What a commit's tables keep of the rows above                            *)

PeopleTrack(policy, e, P) ==
  /\ contacts \subseteq e.contacts
  /\ \A r \in e.contacts : r \in contacts \/ r.email = NoEmail \/ \E p \in P : r.email = p.email
  /\ policy = "update" => \A p \in P : p.email # NoEmail => \E r \in e.contacts : r.email = p.email

Twin(a, b) == a.name = b.name /\ a.domain = b.domain
Strangers(a, b) ==
  /\ a.name # b.name /\ (a.domain = Blank \/ a.domain # b.domain)
  /\ \A r \in companies : ~(SameFirm(r, a) /\ SameFirm(r, b))
From(r, row) ==
  /\ r.name = row.name
  /\ \/ r.domain = row.domain
     \/ row.domain = Blank /\ \E f \in companies : SameFirm(f, row) /\ f.domain = r.domain
FirmsTrack(policy, e, P) ==
  /\ \A a, b \in e.companies : a.id = b.id => a = b
  /\ \A a \in e.companies : a.id < e.next
  /\ \A r \in e.companies : r \in companies \/ \E p \in P : From(r, p)
  /\ \A r \in companies : r \in e.companies \/ \E p \in P : SameFirm(r, p)
  /\ policy = "update" => \A p \in P : \E r \in e.companies : SameFirm(r, p)

Track(kind, policy, e, P) ==
  /\ kind = "contact" => PeopleTrack(policy, e, P)
  /\ kind = "company" => FirmsTrack(policy, e, P)

(* A row is recognised as the preview recognised it, and an update finds    *)
(* the row it updates.                                                      *)
Alikes(e, kind, policy, P, row) ==
  /\ Recognised(e, kind, row) <=>
       Matches(kind, row, contacts, companies) \/ dedupeKey(kind, row) \cap Noticed(kind, P) # {}
  /\ policy = "update" /\ Recognised(e, kind, row) => lookupMatch(e, kind, row) # {}

LEMMA PeopleAlike ==
  ASSUME NEW e \in EngineRecords, NEW P \in SUBSET ContactRows, NEW row \in ContactRows, NEW policy,
         PeopleTrack(policy, e, P), e.seen = Noticed("contact", P)
  PROVE  Alikes(e, "contact", policy, P, row)
  <1>0. RowTyped("contact", row) BY DEF RowTyped
  <1>1. lookupMatch(e, "contact", row) # {} <=> \E r \in e.contacts : row.email # NoEmail /\ r.email = row.email
    BY <1>0, MatchesIs DEF Matches
  <1>2. Matches("contact", row, contacts, companies)
          <=> \E r \in contacts : row.email # NoEmail /\ r.email = row.email
    BY DEF Matches
  <1>3. \A p \in ContactRows : dedupeKey("contact", p) = IF p.email = NoEmail THEN {} ELSE {p.email}
    BY DEF dedupeKey
  <1>4. dedupeKey("contact", row) \cap Noticed("contact", P) # {}
          <=> row.email # NoEmail /\ \E p \in P : p.email = row.email
    <2>1. \A x : x \in Noticed("contact", P) <=> \E p \in P : x \in dedupeKey("contact", p) BY NoticedIs
    <2>2. \A x : x \in dedupeKey("contact", row) <=> row.email # NoEmail /\ x = row.email BY <1>3
    <2>3. \A p \in P : \A x : x \in dedupeKey("contact", p) <=> p.email # NoEmail /\ x = p.email BY <1>3
    <2> HIDE DEF dedupeKey
    <2> QED BY <2>1, <2>2, <2>3
  <1>5. Recognised(e, "contact", row) <=>
          lookupMatch(e, "contact", row) # {} \/ dedupeKey("contact", row) \cap Noticed("contact", P) # {}
    BY DEF Recognised
  <1> HIDE DEF Recognised, lookupMatch, dedupeKey, Matches
  <1>6. lookupMatch(e, "contact", row) # {} =>
          Matches("contact", row, contacts, companies) \/ dedupeKey("contact", row) \cap Noticed("contact", P) # {}
    BY <1>1, <1>2, <1>4 DEF PeopleTrack
  <1>7. Matches("contact", row, contacts, companies) => lookupMatch(e, "contact", row) # {}
    BY <1>1, <1>2 DEF PeopleTrack
  <1>8. policy = "update" /\ dedupeKey("contact", row) \cap Noticed("contact", P) # {}
          => lookupMatch(e, "contact", row) # {}
    BY <1>1, <1>4 DEF PeopleTrack
  <1> QED BY <1>5, <1>6, <1>7, <1>8 DEF Alikes

LEMMA TwinsKey ==
  ASSUME NEW a \in CompanyRows, NEW b \in CompanyRows, Twin(a, b)
  PROVE  /\ dedupeKey("company", a) = dedupeKey("company", b) /\ dedupeKey("company", a) # {}
         /\ \A r : SameFirm(r, a) <=> SameFirm(r, b)
  BY DEF Twin, dedupeKey, SameFirm

LEMMA KeysTwin ==
  ASSUME NEW a \in CompanyRows, NEW b \in CompanyRows, Twin(a, b) \/ Strangers(a, b),
         dedupeKey("company", a) \cap dedupeKey("company", b) # {}
  PROVE  Twin(a, b)
  BY FilesAssumption DEF Twin, Strangers, dedupeKey, CompanyRows

LEMMA OneFits ==
  ASSUME NEW a \in CompanyRows, NEW b \in CompanyRows, Twin(a, b) \/ Strangers(a, b),
         NEW r \in companies, SameFirm(r, a), SameFirm(r, b)
  PROVE  Twin(a, b)
  BY DEF Strangers

LEMMA FromFits ==
  ASSUME NEW a \in CompanyRows, NEW b \in CompanyRows, Twin(a, b) \/ Strangers(a, b),
         NEW r, From(r, a), SameFirm(r, b)
  PROVE  Twin(a, b)
  BY DEF Strangers, From, SameFirm

LEMMA FirmsAlike ==
  ASSUME NEW e \in EngineRecords, NEW P \in SUBSET CompanyRows, NEW row \in CompanyRows, NEW policy,
         \A p \in P : Twin(p, row) \/ Strangers(p, row),
         FirmsTrack(policy, e, P), e.seen = Noticed("company", P)
  PROVE  Alikes(e, "company", policy, P, row)
  <1>0. RowTyped("company", row) BY DEF RowTyped
  <1>1. lookupMatch(e, "company", row) # {} <=> \E r \in e.companies : SameFirm(r, row)
    BY <1>0, MatchesIs DEF Matches
  <1>2. Matches("company", row, contacts, companies) <=> \E r \in companies : SameFirm(r, row)
    BY DEF Matches
  <1>3. dedupeKey("company", row) \cap Noticed("company", P) # {} <=> \E p \in P : Twin(p, row)
    <2>1. ASSUME dedupeKey("company", row) \cap Noticed("company", P) # {} PROVE \E p \in P : Twin(p, row)
      <3>1. PICK p \in P : dedupeKey("company", p) \cap dedupeKey("company", row) # {} BY <2>1, NoticedIs
      <3> QED BY <3>1, KeysTwin
    <2>2. ASSUME NEW p \in P, Twin(p, row)
          PROVE  dedupeKey("company", row) \cap Noticed("company", P) # {}
      <3>1. dedupeKey("company", p) = dedupeKey("company", row) /\ dedupeKey("company", p) # {}
        BY <2>2, TwinsKey
      <3> QED BY <3>1, NoticedIs
    <2> QED BY <2>1, <2>2
  <1>5. Recognised(e, "company", row) <=>
          lookupMatch(e, "company", row) # {} \/ dedupeKey("company", row) \cap Noticed("company", P) # {}
    BY DEF Recognised
  <1>6. ASSUME NEW r \in e.companies, SameFirm(r, row)
        PROVE  (\E f \in companies : SameFirm(f, row)) \/ \E p \in P : Twin(p, row)
    <2>1. CASE r \in companies BY <1>6, <2>1
    <2>2. ASSUME NEW p \in P, From(r, p) PROVE Twin(p, row) BY <1>6, <2>2, FromFits
    <2> QED BY <2>1, <2>2 DEF FirmsTrack
  <1>7. ASSUME NEW r \in companies, SameFirm(r, row)
        PROVE  (\E f \in e.companies : SameFirm(f, row)) \/ \E p \in P : Twin(p, row)
    <2>1. CASE r \in e.companies BY <1>7, <2>1
    <2>2. ASSUME NEW p \in P, SameFirm(r, p) PROVE Twin(p, row) BY <1>7, <2>2, OneFits
    <2> QED BY <2>1, <2>2 DEF FirmsTrack
  <1>8. ASSUME policy = "update", NEW p \in P, Twin(p, row)
        PROVE  \E r \in e.companies : SameFirm(r, row)
    <2>1. PICK r \in e.companies : SameFirm(r, p) BY <1>8 DEF FirmsTrack
    <2> QED BY <1>8, <2>1, TwinsKey
  <1> QED BY <1>1, <1>2, <1>3, <1>5, <1>6, <1>7, <1>8 DEF Alikes

LEMMA RowAlike ==
  ASSUME NEW e \in EngineRecords, NEW kind, NEW P, NEW row, RowTyped(kind, row), NEW policy,
         \A p \in P : RowTyped(kind, p),
         kind = "company" => \A p \in P : Twin(p, row) \/ Strangers(p, row),
         Track(kind, policy, e, P), e.seen = Noticed(kind, P)
  PROVE  Alikes(e, kind, policy, P, row)
  <1>1. CASE kind = "contact"
    <2>1. P \in SUBSET ContactRows /\ row \in ContactRows BY <1>1 DEF RowTyped
    <2> QED BY <1>1, <2>1, PeopleAlike DEF Track
  <1>2. CASE kind = "company"
    <2>1. P \in SUBSET CompanyRows /\ row \in CompanyRows BY <1>2 DEF RowTyped
    <2> QED BY <1>2, <2>1, FirmsAlike DEF Track
  <1>3. CASE kind = "deal"
    <2>1. lookupMatch(e, kind, row) = {} /\ dedupeKey(kind, row) = {} BY <1>3 DEF lookupMatch, dedupeKey
    <2>2. ~Matches(kind, row, contacts, companies) BY <1>3 DEF Matches
    <2> QED BY <2>1, <2>2 DEF Alikes, Recognised
  <1> QED BY <1>1, <1>2, <1>3 DEF RowTyped

(* How a row changes the tables that the rows below are matched with.       *)
LEMMA PeopleKept ==
  ASSUME NEW e \in EngineRecords, NEW f \in EngineRecords, NEW P, NEW row \in ContactRows, NEW policy,
         PeopleTrack(policy, e, P), e.contacts \subseteq f.contacts,
         \A r \in f.contacts : r \in e.contacts \/ r.email = row.email,
         policy = "update" /\ row.email # NoEmail => \E r \in f.contacts : r.email = row.email
  PROVE  PeopleTrack(policy, f, P \cup {row})
  BY DEF PeopleTrack

LEMMA FirmsSame ==
  ASSUME NEW e \in EngineRecords, NEW f \in EngineRecords, NEW P, NEW row, NEW policy,
         policy # "update", FirmsTrack(policy, e, P), Tables(e, f)
  PROVE  FirmsTrack(policy, f, P \cup {row})
  BY DEF FirmsTrack, Tables

LEMMA FirmMade ==
  ASSUME NEW e \in EngineRecords, NEW f \in EngineRecords, NEW P, NEW row \in CompanyRows, NEW policy,
         FirmsTrack(policy, e, P), Created(e, f, "company", row)
  PROVE  FirmsTrack(policy, f, P \cup {row})
  <1> DEFINE r == NewRow("company", e.next, row)
  <1>1. e.next \in Nat /\ f.next > e.next BY DEF EngineRecords, Created
  <1>2. RowTyped("company", row) BY DEF RowTyped
  <1>3. r.id = e.next /\ r.name = row.name /\ r.domain = row.domain BY <1>1, <1>2, NewRowIs
  <1>4. f.companies = e.companies \cup {r} BY DEF Created
  <1>5. From(r, row) /\ SameFirm(r, row) BY <1>3 DEF From, SameFirm
  <1> HIDE DEF r
  <1>6. e.companies \subseteq CompanyRecords BY DEF EngineRecords
  <1>7. \A a \in e.companies : a.id \in Nat BY <1>6 DEF CompanyRecords
  <1>8. \A a, b \in f.companies : a.id = b.id => a = b BY <1>1, <1>3, <1>4, <1>7 DEF FirmsTrack
  <1>9. \A a \in f.companies : a.id < f.next
    <2>1. f.next \in Nat BY DEF EngineRecords
    <2> QED BY <1>1, <1>3, <1>4, <1>7, <2>1 DEF FirmsTrack
  <1> QED BY <1>4, <1>5, <1>8, <1>9 DEF FirmsTrack

LEMMA FirmUpdated ==
  ASSUME NEW e \in EngineRecords, NEW f \in EngineRecords, NEW P \in SUBSET CompanyRows,
         NEW row \in CompanyRows, NEW policy,
         \A p, q \in P \cup {row} : Twin(p, q) \/ Strangers(p, q),
         FirmsTrack(policy, e, P), NEW m \in e.companies, SameFirm(m, row),
         Updated(e, f, "company", m.id, row)
  PROVE  FirmsTrack(policy, f, P \cup {row})
  <1> DEFINE New(r) == Overlaid(r, m.id, row)
  <1>0. e.companies \subseteq CompanyRecords /\ m \in CompanyRecords BY DEF EngineRecords
  <1>1. f.companies = {New(r) : r \in e.companies} BY DEF Updated
  <1>2. \A r \in e.companies :
          /\ New(r).id = r.id
          /\ r # m => New(r) = r
    BY <1>0, OverlaidIs DEF FirmsTrack
  <1>3. /\ New(m).id = m.id /\ New(m).name = row.name
        /\ row.domain # Blank => New(m).domain = row.domain
        /\ row.domain = Blank => New(m).domain = m.domain
    BY <1>0, OverlaidIs
  <1> HIDE DEF New
  <1>4. From(New(m), row)
    <2>1. CASE row.domain # Blank BY <1>3, <2>1 DEF From
    <2>2. CASE row.domain = Blank /\ m \in companies BY <1>3, <2>2 DEF From
    <2>3. ASSUME row.domain = Blank, NEW p \in P, From(m, p) PROVE From(New(m), row)
      <3>1. Twin(p, row) BY <2>3, FromFits
      <3>2. \A r : SameFirm(r, p) <=> SameFirm(r, row) BY <3>1, TwinsKey
      <3> QED BY <1>3, <2>3, <3>1, <3>2 DEF From, Twin
    <2> QED BY <2>1, <2>2, <2>3 DEF FirmsTrack
  <1>5. SameFirm(New(m), row) BY <1>3 DEF SameFirm
  <1>6. ASSUME NEW p \in P, SameFirm(m, p) PROVE SameFirm(New(m), p)
    <2>1. CASE m \in companies
      <3>1. Twin(p, row) BY <1>6, <2>1, OneFits
      <3> QED BY <1>5, <3>1, TwinsKey
    <2>2. ASSUME NEW q \in P, From(m, q) PROVE SameFirm(New(m), p)
      <3>1. Twin(q, row) /\ Twin(q, p) BY <1>6, <2>2, FromFits
      <3>2. SameFirm(New(m), q) BY <1>5, <3>1, TwinsKey
      <3> QED BY <3>1, <3>2, TwinsKey
    <2> QED BY <2>1, <2>2 DEF FirmsTrack
  <1>7. \A a, b \in f.companies : a.id = b.id => a = b BY <1>1, <1>2 DEF FirmsTrack
  <1>8. \A a \in f.companies : a.id < f.next
    <2>1. f.next \in Nat /\ e.next \in Nat /\ f.next >= e.next BY DEF EngineRecords, Updated
    <2>2. \A a \in e.companies : a.id \in Nat /\ a.id < e.next BY <1>0 DEF CompanyRecords, FirmsTrack
    <2> QED BY <1>1, <1>2, <2>1, <2>2
  <1>9. \A r \in f.companies : r \in companies \/ \E p \in P \cup {row} : From(r, p)
    <2>1. \A r \in f.companies : r = New(m) \/ r \in e.companies BY <1>1, <1>2
    <2> QED BY <1>4, <2>1 DEF FirmsTrack
  <1>10. \A r \in companies : r \in f.companies \/ \E p \in P \cup {row} : SameFirm(r, p)
    <2>1. \A r \in e.companies : r = m \/ r \in f.companies BY <1>1, <1>2
    <2> QED BY <2>1 DEF FirmsTrack
  <1>11. ASSUME policy = "update", NEW p \in P \cup {row} PROVE \E r \in f.companies : SameFirm(r, p)
    <2>1. CASE p = row BY <1>1, <1>5, <2>1
    <2>2. CASE p \in P
      <3>1. PICK r \in e.companies : SameFirm(r, p) BY <1>11, <2>2 DEF FirmsTrack
      <3>2. CASE r = m BY <1>1, <1>6, <2>2, <3>1, <3>2
      <3>3. CASE r # m BY <1>1, <1>2, <3>1, <3>3
      <3> QED BY <3>2, <3>3
    <2> QED BY <2>1, <2>2
  <1> QED BY <1>7, <1>8, <1>9, <1>10, <1>11 DEF FirmsTrack

LEMMA PersonTracked ==
  ASSUME NEW e \in EngineRecords, NEW policy \in Policies, NEW write \in BOOLEAN, NEW P,
         NEW row \in ContactRows, row.ok, PeopleTrack(policy, e, P), Alikes(e, "contact", policy, P, row)
  PROVE  write => PeopleTrack(policy, Classified(e, "contact", policy, write, row), P \cup {row})
  <1> DEFINE f == Classified(e, "contact", policy, write, row)
             found == lookupMatch(e, "contact", row)
             v == Verdict(e, "contact", policy, write, row)
             r == NewRow("contact", e.next, row)
  <1>0. RowTyped("contact", row) BY DEF RowTyped
  <1>1. /\ f \in EngineRecords
        /\ ~write \/ v \in {"error", "skip"} => Tables(e, f)
        /\ write /\ v = "update" => Updated(e, f, "contact", Least(found), row)
        /\ write /\ v = "create" => Created(e, f, "contact", row)
    BY <1>0, ClassifiedIs
  <1>2. found # {} <=> \E x \in e.contacts : row.email # NoEmail /\ x.email = row.email
    BY <1>0, MatchesIs DEF Matches
  <1>3. /\ v \in {"skip", "update", "create"}
        /\ v = "skip" => policy = "skip"
        /\ v = "update" => found # {}
    <2> HIDE DEF lookupMatch, Recognised
    <2>1. policy = "update" /\ Recognised(e, "contact", row) => found # {} BY DEF Alikes
    <2> QED BY <2>1 DEF Verdict, Policies
  <1>4. e.next \in Nat BY DEF EngineRecords
  <1>5. r.email = row.email BY <1>0, <1>4, NewRowIs
  <1> HIDE DEF f, found, v, r
  <1> SUFFICES ASSUME write PROVE PeopleTrack(policy, f, P \cup {row}) BY DEF f
  <1>6. CASE v = "skip"
    <2>1. f.contacts = e.contacts /\ policy = "skip" BY <1>1, <1>3, <1>6 DEF Tables
    <2> QED BY <1>1, <2>1, PeopleKept
  <1>7. CASE v = "update"
    <2>1. f.contacts = e.contacts BY <1>1, <1>7 DEF Updated
    <2> QED BY <1>1, <1>2, <1>3, <1>7, <2>1, PeopleKept
  <1>8. CASE v = "create"
    <2>1. f.contacts = e.contacts \cup {r} BY <1>1, <1>8 DEF Created, r
    <2> QED BY <1>1, <1>5, <2>1, PeopleKept
  <1> QED BY <1>3, <1>6, <1>7, <1>8

LEMMA FirmTracked ==
  ASSUME NEW e \in EngineRecords, NEW policy \in Policies, NEW write \in BOOLEAN,
         NEW P \in SUBSET CompanyRows, NEW row \in CompanyRows, row.ok,
         \A p, q \in P \cup {row} : Twin(p, q) \/ Strangers(p, q),
         FirmsTrack(policy, e, P), Alikes(e, "company", policy, P, row)
  PROVE  write => FirmsTrack(policy, Classified(e, "company", policy, write, row), P \cup {row})
  <1> DEFINE f == Classified(e, "company", policy, write, row)
             found == lookupMatch(e, "company", row)
             v == Verdict(e, "company", policy, write, row)
  <1>0. RowTyped("company", row) BY DEF RowTyped
  <1>1. /\ f \in EngineRecords
        /\ ~write \/ v \in {"error", "skip"} => Tables(e, f)
        /\ write /\ v = "update" => found # {} /\ Updated(e, f, "company", Least(found), row)
        /\ write /\ v = "create" => Created(e, f, "company", row)
    BY <1>0, ClassifiedIs
  <1>2. found # {} => Least(found) \in Ids(MatchingCompanies(e, row)) BY <1>0, LookupIs
  <1>3. /\ v \in {"skip", "update", "create"}
        /\ v = "skip" => policy = "skip"
    <2> HIDE DEF lookupMatch, Recognised
    <2>1. policy = "update" /\ Recognised(e, "company", row) => found # {} BY DEF Alikes
    <2> QED BY <2>1 DEF Verdict, Policies
  <1> HIDE DEF f, found, v
  <1> SUFFICES ASSUME write PROVE FirmsTrack(policy, f, P \cup {row}) BY DEF f
  <1>6. CASE v = "skip"
    <2>1. Tables(e, f) /\ policy # "update" BY <1>1, <1>3, <1>6
    <2> QED BY <1>1, <2>1, FirmsSame
  <1>7. CASE v = "update"
    <2>1. found # {} /\ Updated(e, f, "company", Least(found), row) BY <1>1, <1>7
    <2>2. PICK m \in e.companies : SameFirm(m, row) /\ m.id = Least(found)
      BY <1>2, <2>1 DEF Ids, MatchingCompanies
    <2>3. Updated(e, f, "company", m.id, row) BY <2>1, <2>2
    <2> QED BY <1>1, <2>2, <2>3, FirmUpdated
  <1>8. CASE v = "create" BY <1>1, <1>8, FirmMade
  <1> QED BY <1>3, <1>6, <1>7, <1>8

LEMMA RowTracked ==
  ASSUME NEW e \in EngineRecords, NEW kind, NEW policy \in Policies, NEW write \in BOOLEAN, NEW P,
         NEW row, RowTyped(kind, row), \A p \in P : RowTyped(kind, p), row.ok,
         kind = "company" => \A p, q \in P \cup {row} : Twin(p, q) \/ Strangers(p, q),
         Track(kind, policy, e, P), Alikes(e, kind, policy, P, row)
  PROVE  write => Track(kind, policy, Classified(e, kind, policy, write, row), P \cup {row})
  <1>1. CASE kind = "contact"
    <2>1. row \in ContactRows BY <1>1 DEF RowTyped
    <2> QED BY <1>1, <2>1, PersonTracked DEF Track
  <1>2. CASE kind = "company"
    <2>1. P \in SUBSET CompanyRows /\ row \in CompanyRows BY <1>2 DEF RowTyped
    <2> QED BY <1>2, <2>1, FirmTracked DEF Track
  <1>3. CASE kind = "deal" BY <1>3 DEF Track
  <1> QED BY <1>1, <1>2, <1>3 DEF RowTyped

LEMMA TrackSame ==
  ASSUME NEW e, NEW f, NEW kind, NEW policy, NEW P, Track(kind, policy, e, P), Tables(e, f)
  PROVE  Track(kind, policy, f, P)
  BY DEF Track, PeopleTrack, FirmsTrack, Tables

LEMMA TrackBegins ==
  ASSUME FirmsInv, \A a \in companies : a.id < next, NEW kind, NEW policy
  PROVE  Track(kind, policy, Engine, {})
  <1>1. Engine.contacts = contacts /\ Engine.companies = companies /\ Engine.next = next BY DEF Engine
  <1> HIDE DEF Engine
  <1> QED BY <1>1 DEF Track, PeopleTrack, FirmsTrack, FirmsInv

(* The rows of a separate file are one company or strangers.                *)
LEMMA RowsApart ==
  ASSUME NEW kind \in DOMAIN Files, NEW rows \in Files[kind], Separate(kind, rows), NEW n \in 0..Len(rows)
  PROVE  /\ \A p \in InOrder(rows, n) : RowTyped(kind, p)
         /\ kind = "company" => \A p, q \in InOrder(rows, n) : Twin(p, q) \/ Strangers(p, q)
  <1>1. Len(rows) \in Nat /\ DOMAIN rows = 1..Len(rows) /\ \A k \in 1..Len(rows) : RowTyped(kind, rows[k])
    BY FileRows
  <1>2. \A p \in InOrder(rows, n) : \E k \in 1..Len(rows) : p = rows[k] BY <1>1 DEF InOrder
  <1>3. kind = "company" => \A i, j \in 1..Len(rows) : Twin(rows[i], rows[j]) \/ Strangers(rows[i], rows[j])
    BY <1>1 DEF Separate, Twin, Strangers
  <1> HIDE DEF Twin, Strangers, RowTyped
  <1> QED BY <1>1, <1>2, <1>3

(* A commit's verdicts are the preview's, and its tables keep the track.    *)
ToldAlike(e, kind, policy, write, row, P) ==
  write => Verdict(e, kind, policy, write, row) = Foretold(kind, policy, row, P, contacts, companies)
LEMMA RowForetold ==
  ASSUME NEW e \in EngineRecords, NEW kind, NEW policy \in Policies, NEW write \in BOOLEAN,
         NEW row, RowTyped(kind, row), NEW P, row.ok, Alikes(e, kind, policy, P, row)
  PROVE  ToldAlike(e, kind, policy, write, row, P)
  <1> HIDE DEF Matches, lookupMatch, dedupeKey, Noticed, Recognised
  <1>1. Recognised(e, kind, row) <=>
          Matches(kind, row, contacts, companies) \/ dedupeKey(kind, row) \cap Noticed(kind, P) # {}
    BY DEF Alikes
  <1>2. policy = "update" /\ Recognised(e, kind, row) => lookupMatch(e, kind, row) # {}
    BY DEF Alikes
  <1>3. Foretold(kind, policy, row, P, contacts, companies)
          = IF policy = "create" \/ ~Recognised(e, kind, row) THEN "create"
            ELSE IF policy = "skip" THEN "skip" ELSE "update"
    BY <1>1 DEF Foretold
  <1> QED BY <1>2, <1>3 DEF ToldAlike, Verdict, Policies

LEMMA CommitTells ==
  ASSUME TablesOK, FirmsInv, \A a \in companies : a.id < next,
         NEW kind \in DOMAIN Files, NEW rows \in Files[kind], NEW policy \in Policies,
         Separate(kind, rows), NEW write \in BOOLEAN
  PROVE  write => process(kind, policy, write, rows).outcomes = Forecast(kind, policy, rows, contacts, companies)
  <1> DEFINE e == Engines(kind, policy, write, rows)
             m == Len(rows)
             v == Forecast(kind, policy, rows, contacts, companies)
             w(n) == Verdict(e[n - 1], kind, policy, write, rows[n])
             Tracks(n) == Track(kind, policy, e[n], InOrder(rows, n))
                          /\ e[n].seen = Noticed(kind, InOrder(rows, n))
             Bad == {n \in Nat : n \in 0..m /\ ~Tracks(n)}
  <1>1. /\ e[0] = Engine
        /\ \A n \in 1..m : e[n] = Classified(e[n - 1], kind, policy, write, rows[n])
        /\ process(kind, policy, write, rows) = e[m]
    BY FileRows, EnginesIs
  <1>2. m \in Nat /\ \A n \in 1..m : RowTyped(kind, rows[n]) BY FileRows
  <1>3. \A n \in 0..m : e[n] \in EngineRecords BY FilesGrow DEF Grown
  <1>4. Engine.seen = {} /\ Engine.outcomes = <<>> BY DEF Engine
  <1>5. \A k \in 1..m : v[k] = Foretold(kind, policy, rows[k], InOrder(rows, k - 1), contacts, companies)
                        /\ v[k] \in Outcomes
    BY <1>2, ForetoldIs
  <1>6. v = [k \in 1..m |-> v[k]] BY <1>2, ForetoldIs
  <1>7. Track(kind, policy, e[0], {}) BY <1>1, TrackBegins
  <1> HIDE DEF e, m, v
  <1>8. \A n \in 0..m :
          /\ \A p \in InOrder(rows, n) : RowTyped(kind, p)
          /\ kind = "company" => \A p, q \in InOrder(rows, n) : Twin(p, q) \/ Strangers(p, q)
    BY RowsApart DEF m
  <1>9. \A n \in 1..m :
          /\ n \in Nat \ {0} /\ n - 1 \in 0..m /\ n - 1 \in Nat /\ n \in 0..m
          /\ e[n - 1] \in EngineRecords /\ RowTyped(kind, rows[n])
          /\ InOrder(rows, n) = IF rows[n].ok THEN InOrder(rows, n - 1) \cup {rows[n]}
                                ELSE InOrder(rows, n - 1)
    <2> TAKE n \in 1..m
    <2>1. n \in Nat \ {0} /\ n - 1 \in 0..m /\ n - 1 \in Nat /\ n \in 0..m BY <1>2
    <2> QED BY <1>2, <1>3, <2>1, InOrderGrows
  <1>11. \A n \in 1..m :
           /\ ~rows[n].ok => Tables(e[n - 1], e[n])
           /\ Notes(e[n - 1], e[n], kind, rows[n], w(n))
    <2> TAKE n \in 1..m
    <2>1. e[n - 1] \in EngineRecords /\ RowTyped(kind, rows[n]) BY <1>9
    <2>2. e[n] = Classified(e[n - 1], kind, policy, write, rows[n]) BY <1>1
    <2>3. ~rows[n].ok => Verdict(e[n - 1], kind, policy, write, rows[n]) = "error" BY DEF Verdict
    <2> QED BY <2>1, <2>2, <2>3, ClassifiedIs
  <1>13. Tracks(0) BY <1>1, <1>4, <1>7, NoneInOrder DEF Noticed
  <1> HIDE DEF Tracks
  <1>10. ASSUME NEW n \in 1..m, Tracks(n - 1)
         PROVE  write => Tracks(n) /\ w(n) = Foretold(kind, policy, rows[n], InOrder(rows, n - 1), contacts, companies)
    <2> DEFINE P == InOrder(rows, n - 1)
               a == e[n - 1]
               b == e[n]
               row == rows[n]
    <2>1. a \in EngineRecords /\ RowTyped(kind, row) /\ n \in Nat \ {0} BY <1>9
    <2>2. Track(kind, policy, a, P) /\ a.seen = Noticed(kind, P) BY <1>10 DEF Tracks
    <2>3. Notes(a, b, kind, row, w(n)) /\ (~row.ok => Tables(a, b)) BY <1>11
    <2>4. b = Classified(a, kind, policy, write, row) BY <1>1
    <2>5. InOrder(rows, n) = IF row.ok THEN P \cup {row} ELSE P BY <1>9
    <2>6. row.ok => /\ \A p \in P \cup {row} : RowTyped(kind, p)
                    /\ kind = "company" => \A p, q \in P \cup {row} : Twin(p, q) \/ Strangers(p, q)
      BY <1>8, <1>9
    <2>7. write => w(n) = Verdict(a, kind, policy, write, row) OBVIOUS
    <2>8. Tracks(n) <=> Track(kind, policy, b, InOrder(rows, n)) /\ b.seen = Noticed(kind, InOrder(rows, n))
      BY DEF Tracks
    <2> HIDE DEF a, b, P, w
    <2>9. b.seen = Noticed(kind, InOrder(rows, n))
      <3>1. a.seen = Noticed(kind, InOrder(rows, n - 1)) BY <2>2 DEF P
      <3>2. Notes(a, b, kind, rows[n], w(n)) BY <2>3
      <3>3. n \in Nat \ {0} BY <2>1
      <3> QED BY <3>1, <3>2, <3>3, RowNoticed
    <2>10. row.ok => Alikes(a, kind, policy, P, row) BY <2>1, <2>2, <2>6, RowAlike
    <2>11. write => Verdict(a, kind, policy, write, row) = Foretold(kind, policy, row, P, contacts, companies)
      <3>1. CASE ~row.ok BY <3>1 DEF Verdict, Foretold
      <3>2. CASE row.ok
        <4>1. a \in EngineRecords /\ RowTyped(kind, row) BY <2>1
        <4>2. row.ok /\ Alikes(a, kind, policy, P, row) BY <2>10, <3>2
        <4>3. ToldAlike(a, kind, policy, write, row, P) BY <4>1, <4>2, RowForetold
        <4> QED BY <4>3 DEF ToldAlike
      <3> QED BY <3>1, <3>2
    <2>14. write => w(n) = Foretold(kind, policy, rows[n], InOrder(rows, n - 1), contacts, companies)
      BY <2>7, <2>11 DEF P
    <2>12. CASE ~row.ok
      <3>1. Track(kind, policy, b, P) BY <2>2, <2>3, <2>12, TrackSame
      <3> QED BY <2>5, <2>8, <2>9, <2>12, <2>14, <3>1
    <2>13. CASE row.ok
      <3>1. write => Track(kind, policy, Classified(a, kind, policy, write, row), P \cup {row})
        BY <2>1, <2>2, <2>6, <2>10, <2>13, RowTracked
      <3> QED BY <2>4, <2>5, <2>8, <2>9, <2>13, <2>14, <3>1
    <2> QED BY <2>12, <2>13
  <1> HIDE DEF w
  <1> SUFFICES ASSUME write PROVE e[m].outcomes = v BY <1>1 DEF v
  <1>14. ASSUME Bad # {} PROVE FALSE
    <2>1. PICK n \in Bad : \A k \in Bad : n <= k BY <1>14, LeastExists
    <2>2. n # 0 BY <1>13, <2>1
    <2>3. n - 1 \in Nat /\ n - 1 \in 0..m /\ n \in 1..m /\ n - 1 \notin Bad BY <1>2, <2>1, <2>2
    <2>4. Tracks(n - 1) BY <2>3
    <2>5. Tracks(n) BY <1>10, <2>3, <2>4
    <2> QED BY <2>1, <2>5
  <1>15. \A n \in 1..m : w(n) = v[n] BY <1>5, <1>9, <1>10, <1>14
  <1>16. \A n \in 1..m : e[n].outcomes = Longer(e[n - 1].outcomes, v[n]) BY <1>11, <1>15 DEF Notes
  <1> DEFINE s == [n \in 0..m |-> e[n].outcomes]
  <1>17. s[0] = <<>> /\ s[m] = e[m].outcomes /\ \A n \in 1..m : s[n] = Longer(s[n - 1], v[n])
    BY <1>1, <1>2, <1>4, <1>16
  <1>18. \A k \in 1..m : v[k] \in Outcomes BY <1>5
  <1> HIDE DEF s
  <1>19. s[m] = v BY <1>2, <1>6, <1>17, <1>18, OutcomesAre
  <1> QED BY <1>17, <1>19

-----------------------------------------------------------------------------
(* No two companies have one id, in the table and in an import's engine      *)

OwnIds(S) == \A a, b \in S : a.id = b.id => a = b
FirmsOwn(e) == OwnIds(e.companies) /\ \A a \in e.companies : a.id < e.next

LEMMA RowsOwn ==
  ASSUME NEW e \in EngineRecords, FirmsOwn(e), NEW kind, NEW policy \in Policies, NEW write \in BOOLEAN,
         NEW row, RowTyped(kind, row)
  PROVE  FirmsOwn(Classified(e, kind, policy, write, row))
  <1> DEFINE f == Classified(e, kind, policy, write, row)
             found == lookupMatch(e, kind, row)
             v == Verdict(e, kind, policy, write, row)
             id == Least(found)
             r == NewRow(kind, e.next, row)
  <1>1. /\ f \in EngineRecords
        /\ ~write \/ v \in {"error", "skip"} => Tables(e, f)
        /\ write /\ v = "update" => kind \in {"contact", "company"} /\ Updated(e, f, kind, id, row)
        /\ write /\ v = "create" => Created(e, f, kind, row)
    BY ClassifiedIs
  <1>2. v \in {"error", "skip", "update", "create"} BY DEF Verdict
  <1>3. e.next \in Nat /\ f.next \in Nat /\ e.companies \subseteq CompanyRecords BY <1>1 DEF EngineRecords
  <1>4. r.id = e.next BY <1>3, NewRowIs
  <1>5. \A a \in e.companies : a.id \in Nat BY <1>3 DEF CompanyRecords
  <1> HIDE DEF f, found, v, id, r
  <1>6. CASE ~write \/ v \in {"error", "skip"}
    <2>1. f.companies = e.companies /\ f.next = e.next BY <1>1, <1>6 DEF Tables
    <2> QED BY <2>1 DEF FirmsOwn, f
  <1>7. CASE write /\ v = "update"
    <2>1. /\ f.next >= e.next
          /\ f.companies = IF kind = "contact" THEN e.companies ELSE {Overlaid(a, id, row) : a \in e.companies}
      BY <1>1, <1>3, <1>7 DEF Updated
    <2>2. CASE kind = "contact" BY <1>3, <1>5, <2>1, <2>2 DEF FirmsOwn, OwnIds, f
    <2>3. CASE kind = "company"
      <3>1. row \in CompanyRows BY <2>3 DEF RowTyped
      <3>2. \A a \in e.companies : Overlaid(a, id, row).id = a.id BY <1>3, <3>1, OverlaidIs
      <3>3. f.companies = {Overlaid(a, id, row) : a \in e.companies} BY <2>1, <2>3
      <3> QED BY <1>3, <1>5, <2>1, <3>2, <3>3 DEF FirmsOwn, OwnIds, f
    <2> QED BY <1>1, <1>7, <2>2, <2>3
  <1>8. CASE write /\ v = "create"
    <2>1. /\ f.next > e.next
          /\ f.companies = IF kind = "company" THEN e.companies \cup {r} ELSE e.companies
      BY <1>1, <1>3, <1>8 DEF Created, r
    <2>2. \A a \in f.companies : a \in e.companies \/ a = r BY <2>1
    <2> QED BY <1>3, <1>4, <1>5, <2>1, <2>2 DEF FirmsOwn, OwnIds, f
  <1> QED BY <1>2, <1>6, <1>7, <1>8

LEMMA FilesOwn ==
  ASSUME TablesOK, FirmsInv, \A a \in companies : a.id < next,
         NEW kind \in DOMAIN Files, NEW rows \in Files[kind], NEW policy \in Policies, NEW write \in BOOLEAN
  PROVE  OwnIds(process(kind, policy, write, rows).companies)
  <1> DEFINE e == Engines(kind, policy, write, rows)
             Bad == {n \in Nat : n \in 0..Len(rows) /\ ~FirmsOwn(e[n])}
  <1>1. /\ e[0] = Engine
        /\ \A n \in 1..Len(rows) : e[n] = Classified(e[n - 1], kind, policy, write, rows[n])
        /\ process(kind, policy, write, rows) = e[Len(rows)]
    BY FileRows, EnginesIs
  <1>2. Len(rows) \in Nat /\ \A n \in 1..Len(rows) : RowTyped(kind, rows[n]) BY FileRows
  <1>3. \A n \in 0..Len(rows) : e[n] \in EngineRecords BY FilesGrow DEF Grown
  <1>4. FirmsOwn(Engine)
    <2>1. Engine.companies = companies /\ Engine.next = next BY DEF Engine
    <2> QED BY <2>1 DEF FirmsOwn, FirmsInv, OwnIds
  <1> HIDE DEF e
  <1>5. ASSUME Bad # {} PROVE FALSE
    <2>1. PICK n \in Bad : \A k \in Bad : n <= k BY <1>5, LeastExists
    <2>2. n # 0 BY <1>1, <1>4, <2>1
    <2>3. n - 1 \in 0..Len(rows) /\ n \in 1..Len(rows) /\ n - 1 \notin Bad BY <1>2, <2>1, <2>2
    <2>4. FirmsOwn(e[n - 1]) BY <2>3
    <2>5. FirmsOwn(Classified(e[n - 1], kind, policy, write, rows[n]))
      BY <1>2, <1>3, <2>3, <2>4, RowsOwn
    <2> QED BY <1>1, <2>1, <2>3, <2>5
  <1>6. FirmsOwn(e[Len(rows)]) BY <1>2, <1>5
  <1> QED BY <1>1, <1>6 DEF FirmsOwn

-----------------------------------------------------------------------------
(* One id, one company, whatever the step                                   *)

LEMMA FewerFirms ==
  ASSUME FirmsInv, companies' \subseteq companies PROVE FirmsInv'
  BY DEF FirmsInv

LEMMA FirmOpsOwn ==
  ASSUME TablesOK, FirmsInv, NEW id, NEW in,
         in \in [name : Names \cup {Blank}, domain : Domains \cup {Blank}],
         UpdateCompany(id, in) \/ DeleteCompany(id)
  PROVE  FirmsInv'
  <1>1. CASE Nothing BY <1>1, FewerFirms DEF Nothing, records
  <1>2. CASE dropCompany(id) BY <1>2, FewerFirms DEF dropCompany
  <1>3. CASE setCompany(id, in)
    <2> DEFINE New(r) == IF r.id = id THEN [r EXCEPT !.name = in.name, !.domain = in.domain] ELSE r
    <2>1. \A r \in companies : New(r).id = r.id BY DEF TablesOK, CompanyRecords
    <2>2. companies' = {New(r) : r \in companies} BY <1>3 DEF setCompany
    <2> HIDE DEF New
    <2> QED BY <2>1, <2>2 DEF FirmsInv
  <1> QED BY <1>1, <1>2, <1>3 DEF UpdateCompany, DeleteCompany

LEMMA FirmCreationsOwn ==
  ASSUME TypeOK, KindsInv, FirmsInv, NEW c \in Clients, CreateCompany(c) PROVE FirmsInv'
  <1> DEFINE r == [id |-> next, name |-> http[c].in.name, domain |-> http[c].in.domain]
  <1>1. companies' = companies \cup {r} BY DEF CreateCompany, insertCompany
  <1>2. r.id = next OBVIOUS
  <1>3. next \in Nat /\ (\A a \in companies : a.id < next /\ a.id \in Nat)
    BY KindsNow, KnownTyped DEF TypeOK, TablesOK, CompanyRecords
  <1> HIDE DEF r
  <1> QED BY <1>1, <1>2, <1>3 DEF FirmsInv

LEMMA FirmMergesOwn ==
  ASSUME TypeOK, FirmsInv, NEW c \in Clients, MergeContacts(c) \/ MergeCompanies(c) PROVE FirmsInv'
  <1> DEFINE q == http[c]
  <1>1. CASE MergeContacts(c) BY <1>1, FewerFirms DEF MergeContacts
  <1>2. CASE MergeCompanies(c)
    <2>1. companies' = Settled(companies, q) BY <1>2 DEF MergeCompanies
    <2>2. q.row.id = q.survivor
      BY <1>2 DEF MergeCompanies, Merged, Continues, TypeOK, HttpOK, HttpTyped, Merging
    <2> HIDE DEF q
    <2> QED BY <2>1, <2>2 DEF Settled, FirmsInv
  <1> QED BY <1>1, <1>2

LEMMA FirmImportsOwn ==
  ASSUME TypeOK, KindsInv, FirmsInv, NEW c \in Clients, ImportCommit(c) PROVE FirmsInv'
  <1> DEFINE kind == http[c].kind
             policy == http[c].policy
             rows == http[c].rows
  <1>1. kind \in DOMAIN Files /\ policy \in Policies /\ rows \in Files[kind]
    BY DEF ImportCommit, Continues, HttpOK, HttpTyped, TypeOK
  <1>2. companies' = process(kind, policy, TRUE, rows).companies BY DEF ImportCommit
  <1> HIDE DEF kind, policy, rows
  <1>3. TablesOK /\ \A a \in companies : a.id < next BY KindsNow DEF TypeOK
  <1>4. \A w \in BOOLEAN : OwnIds(process(kind, policy, w, rows).companies)
    <2> TAKE w \in BOOLEAN
    <2> QED BY <1>1, <1>3, FilesOwn
  <1>5. OwnIds(process(kind, policy, TRUE, rows).companies) BY <1>4
  <1> QED BY <1>2, <1>5 DEF OwnIds, FirmsInv

LEMMA FirmsKept ==
  ASSUME TypeOK, KindsInv, FirmsInv, [WorkspaceNext]_workspaceVars PROVE FirmsInv'
  <1>0. TablesOK /\ HttpOK BY DEF TypeOK
  <1>1. Nothing => FirmsInv' BY FewerFirms DEF Nothing, records
  <1>2. ASSUME UNCHANGED companies PROVE FirmsInv' BY <1>2, FewerFirms
  <1>3. CASE RequestStep
    <2> PICK c \in Clients : RecordWrites(c) \/ NoteWrites(c) BY <1>3 DEF RequestStep
    <2>1. CASE contactHandlers(c)
      BY <1>1, <1>2, <2>1 DEF contactHandlers, Posts, UpdateContact, DeleteContact, Nothing, records
    <2>2. CASE companyHandlers(c)
      <3>1. PICK in \in CompanyInputs :
              \/ \E k \in Keys \cup {NoKey} : Posts(c, "company", in, k)
              \/ \E id \in Targets : UpdateCompany(id, in) \/ DeleteCompany(id)
        BY <2>2 DEF companyHandlers
      <3>2. in \in [name : Names \cup {Blank}, domain : Domains \cup {Blank}] BY <3>1 DEF CompanyInputs
      <3>3. CASE \E k \in Keys \cup {NoKey} : Posts(c, "company", in, k) BY <1>1, <3>3 DEF Posts
      <3> QED BY <1>0, <3>1, <3>2, <3>3, FirmOpsOwn
    <2>3. CASE dealHandlers(c)
      BY <1>1, <1>2, <2>3 DEF dealHandlers, Posts, UpdateDeal, DeleteDeal, Nothing, records
    <2>4. CASE PatchDealStage(c) BY <1>1, <2>4 DEF PatchDealStage
    <2>5. CASE CreateContact(c) \/ CreateDeal(c) \/ TransitionDealStage(c)
      BY <1>1, <1>2, <2>5 DEF CreateContact, CreateDeal, TransitionDealStage, Nothing, records
    <2>6. CASE CreateCompany(c) BY <2>6, FirmCreationsOwn
    <2>7. CASE NoteWrites(c)
      BY <1>2, <2>7 DEF NoteWrites, createNote, UpdateNote, DeleteNote, CreateTask, UpdateTask,
         ToggleTaskCompletion, DeleteTask, records
    <2> QED BY <2>1, <2>2, <2>3, <2>4, <2>5, <2>6, <2>7 DEF RecordWrites
  <1>4. CASE WalkStep BY <1>1, <1>4 DEF WalkStep, Walks, BeginWalk, ReadPage
  <1>5. CASE DedupStep
    <2> PICK c \in Clients :
          \/ ListDuplicates(c) \/ markDistinct(c)
          \/ LoadMerge(c, contacts) \/ LoadMerge(c, companies)
          \/ RepointMerge(c) \/ MergeContacts(c) \/ MergeCompanies(c) \/ RolledBack(c)
      BY <1>5 DEF DedupStep, DedupNext
    <2>1. CASE MergeContacts(c) \/ MergeCompanies(c) BY <2>1, FirmMergesOwn
    <2>2. CASE ~(MergeContacts(c) \/ MergeCompanies(c))
      BY <1>1, <2>2 DEF ListDuplicates, markDistinct, LoadMerge, RepointMerge, RolledBack
    <2> QED BY <2>1, <2>2
  <1>6. CASE ImportStep
    BY <1>1, <1>6, FirmImportsOwn DEF ImportStep, ImportNext, ImportPreview, Cancel
  <1>7. CASE ConnectorsNext
    BY <1>1, <1>2, <1>7 DEF ConnectorsNext, PostConnectorEvent, Resolve, handleCandidateEnriched,
       handleInvitationStage, handleInvitationReplyPositive, Failed
  <1>8. CASE UNCHANGED workspaceVars BY <1>2, <1>8 DEF workspaceVars, crmVars, records
  <1> QED BY <1>3, <1>4, <1>5, <1>6, <1>7, <1>8 DEF WorkspaceNext

(* A preview that is shown was shown before, or is this step's.             *)
Shown == \A d \in Clients : http'[d].pc = "previewed" => http'[d] = http[d]

LEMMA TurnShows ==
  ASSUME HttpOK, NEW c \in Clients, NEW q, Turns(c, q), q.pc # "previewed" PROVE Shown
  BY TurnsIs DEF Shown

LEMMA AnswerShows ==
  ASSUME HttpOK, NEW c \in Clients, Answers(c) PROVE Shown
  BY TurnShows, QuietTyped DEF Answers

LEMMA PostShows ==
  ASSUME HttpOK, NEW c \in Clients, NEW kind \in {"contact", "company", "deal"}, NEW in, NEW k,
         Posts(c, kind, in, k)
  PROVE  Shown
  <1>1. [pc |-> kind, in |-> in, key |-> k].pc # "previewed" OBVIOUS
  <1> QED BY <1>1, TurnShows, AnswerShows DEF Posts

LEMMA RequestShows ==
  ASSUME HttpOK, NEW c \in Clients, RecordWrites(c) \/ NoteWrites(c) PROVE Shown
  <1>1. CASE contactHandlers(c) BY <1>1, PostShows, AnswerShows DEF contactHandlers
  <1>2. CASE companyHandlers(c) BY <1>2, PostShows, AnswerShows DEF companyHandlers
  <1>3. CASE dealHandlers(c) BY <1>3, PostShows, AnswerShows DEF dealHandlers
  <1>4. CASE PatchDealStage(c)
    <2>1. PICK id \in Ids(deals), s \in Stages : Turns(c, [pc |-> "moving", id |-> id, stage |-> s])
      BY <1>4 DEF PatchDealStage
    <2>2. [pc |-> "moving", id |-> id, stage |-> s].pc # "previewed" OBVIOUS
    <2> QED BY <2>1, <2>2, TurnShows
  <1>5. CASE CreateContact(c) \/ CreateCompany(c) \/ CreateDeal(c) \/ TransitionDealStage(c)
    BY <1>5, AnswerShows DEF CreateContact, CreateCompany, CreateDeal, TransitionDealStage
  <1>6. CASE NoteWrites(c)
    BY <1>6, AnswerShows DEF NoteWrites, createNote, UpdateNote, DeleteNote, CreateTask,
       UpdateTask, ToggleTaskCompletion, DeleteTask
  <1> QED BY <1>1, <1>2, <1>3, <1>4, <1>5, <1>6 DEF RecordWrites

LEMMA DedupShows ==
  ASSUME HttpOK, DedupNext PROVE Shown
  <1> PICK c \in Clients :
        \/ ListDuplicates(c) \/ markDistinct(c)
        \/ LoadMerge(c, contacts) \/ LoadMerge(c, companies)
        \/ RepointMerge(c) \/ MergeContacts(c) \/ MergeCompanies(c) \/ RolledBack(c)
    BY DEF DedupNext
  <1>1. CASE ListDuplicates(c)
    <2>1. PICK p : Turns(c, [pc |-> "reviewing", pair |-> p]) BY <1>1 DEF ListDuplicates
    <2>2. [pc |-> "reviewing", pair |-> p].pc # "previewed" OBVIOUS
    <2> QED BY <2>1, <2>2, TurnShows
  <1>2. \A T : LoadMerge(c, T) => Shown
    <2>1. \A s, l, row : [pc |-> "loaded", survivor |-> s, loser |-> l, row |-> row].pc # "previewed"
      OBVIOUS
    <2>2. \A s, l, row : Turns(c, [pc |-> "loaded", survivor |-> s, loser |-> l, row |-> row]) => Shown
      BY <2>1, TurnShows
    <2> HIDE DEF Shown
    <2> QED BY <2>2, AnswerShows, Zenon DEF LoadMerge
  <1>3. CASE RepointMerge(c)
    <2>1. ASSUME NEW s, NEW l, NEW row, NEW h, NEW ds, NEW st, NEW lk,
                 Turns(c, [pc |-> "repointed", survivor |-> s, loser |-> l, row |-> row, hung |-> h,
                           deals |-> ds, staff |-> st, locked |-> lk])
          PROVE  Shown
      <3> DEFINE q == [pc |-> "repointed", survivor |-> s, loser |-> l, row |-> row, hung |-> h,
                       deals |-> ds, staff |-> st, locked |-> lk]
      <3>1. Turns(c, q) BY <2>1
      <3>2. q.pc # "previewed" OBVIOUS
      <3> HIDE DEF q
      <3> QED BY <3>1, <3>2, TurnShows
    <2> QED BY <1>3, <2>1, AnswerShows, Zenon DEF RepointMerge
  <1>4. CASE markDistinct(c) \/ MergeContacts(c) \/ MergeCompanies(c) \/ RolledBack(c)
    BY <1>4, AnswerShows DEF markDistinct, MergeContacts, MergeCompanies, Merged, RolledBack
  <1> QED BY <1>1, <1>2, <1>3, <1>4

LEMMA ConnectorsShow ==
  ASSUME HttpOK, ConnectorsNext PROVE Shown
  <1> PICK c \in Clients :
        \/ PostConnectorEvent(c) \/ Resolve(c)
        \/ handleCandidateEnriched(c) \/ handleInvitationStage(c) \/ handleInvitationReplyPositive(c)
        \/ Failed(c)
    BY DEF ConnectorsNext
  <1>1. CASE PostConnectorEvent(c)
    <2>1. PICK ev \in knownConnectorEvents : Answers(c) \/ Turns(c, [pc |-> "event", ev |-> ev])
      BY <1>1 DEF PostConnectorEvent
    <2>2. [pc |-> "event", ev |-> ev].pc # "previewed" OBVIOUS
    <2> QED BY <2>1, <2>2, TurnShows, AnswerShows
  <1>2. CASE Resolve(c)
    <2> DEFINE ev == http[c].ev
               found == IF ev.kind = "enriched" THEN upsertConnectorContact(ev)
                        ELSE findOrCreateInvitationDeal(ev)
               contact == IF ev.kind = "enriched" THEN {} ELSE resolveCandidateContact(ev)
               q == [pc |-> "resolved", ev |-> ev, found |-> found, contact |-> contact]
    <2>1. Turns(c, q) BY <1>2 DEF Resolve
    <2>2. q.pc # "previewed" OBVIOUS
    <2> HIDE DEF q
    <2> QED BY <2>1, <2>2, TurnShows
  <1>3. CASE handleCandidateEnriched(c) \/ handleInvitationStage(c) \/ handleInvitationReplyPositive(c)
             \/ Failed(c)
    BY <1>3, AnswerShows DEF handleCandidateEnriched, handleInvitationStage,
       handleInvitationReplyPositive, Failed
  <1> QED BY <1>1, <1>2, <1>3

LEMMA OthersShow ==
  ASSUME HttpOK, [WorkspaceNext]_workspaceVars
  PROVE  Shown \/ \E c \in Clients : ImportPreview(c)
  <1>1. CASE RequestStep BY <1>1, RequestShows DEF RequestStep
  <1>2. CASE WalkStep BY <1>2 DEF WalkStep, Walks, BeginWalk, ReadPage, Shown
  <1>3. CASE DedupStep BY <1>3, DedupShows DEF DedupStep
  <1>4. CASE ImportStep BY <1>4, AnswerShows DEF ImportStep, ImportNext, ImportCommit, Cancel
  <1>5. CASE ConnectorsNext BY <1>5, ConnectorsShow
  <1>6. CASE UNCHANGED workspaceVars BY <1>6 DEF workspaceVars, crmVars, Shown
  <1> QED BY <1>1, <1>2, <1>3, <1>4, <1>5, <1>6 DEF WorkspaceNext

Fits(q) == q.told = Forecast(q.kind, q.policy, q.rows, q.base[1], q.base[2])

LEMMA PreviewFits ==
  ASSUME TypeOK, NEW c \in Clients, ImportPreview(c)
  PROVE  Fits(http'[c]) /\ \A d \in Clients : d # c => http'[d] = http[d]
  <1>0. HttpOK /\ TablesOK BY DEF TypeOK
  <1>1. PICK kind \in DOMAIN Files, policy \in Policies : \E rows \in Files[kind] :
          Turns(c, [pc |-> "previewed", kind |-> kind, policy |-> policy, rows |-> rows,
                    told |-> process(kind, policy, FALSE, rows).outcomes,
                    base |-> <<contacts, companies>>])
    BY DEF ImportPreview
  <1>2. PICK rows \in Files[kind] :
          Turns(c, [pc |-> "previewed", kind |-> kind, policy |-> policy, rows |-> rows,
                    told |-> process(kind, policy, FALSE, rows).outcomes,
                    base |-> <<contacts, companies>>])
    BY <1>1
  <1> DEFINE q == [pc |-> "previewed", kind |-> kind, policy |-> policy, rows |-> rows,
                   told |-> process(kind, policy, FALSE, rows).outcomes,
                   base |-> <<contacts, companies>>]
  <1>3. Turns(c, q) BY <1>2
  <1>4. \A w \in BOOLEAN :
          ~w => process(kind, policy, w, rows).outcomes = Forecast(kind, policy, rows, contacts, companies)
    <2> TAKE w \in BOOLEAN
    <2> QED BY <1>0, PreviewTells
  <1>5. q.told = Forecast(kind, policy, rows, contacts, companies) BY <1>4
  <1>6. q.kind = kind /\ q.policy = policy /\ q.rows = rows
        /\ q.base[1] = contacts /\ q.base[2] = companies
    OBVIOUS
  <1> HIDE DEF q
  <1>7. Fits(q) BY <1>5, <1>6 DEF Fits
  <1> QED BY <1>0, <1>3, <1>7, TurnsIs

LEMMA PreviewInvKept ==
  ASSUME TypeOK, PreviewInv, [WorkspaceNext]_workspaceVars PROVE PreviewInv'
  <1>1. \A c \in Clients : http[c].pc = "previewed" => Fits(http[c]) BY DEF PreviewInv, Fits
  <1>2. \A c \in Clients : http'[c].pc = "previewed" => Fits(http'[c])
    <2>1. CASE Shown BY <1>1, <2>1 DEF Shown
    <2>2. ASSUME NEW c \in Clients, ImportPreview(c)
          PROVE  \A d \in Clients : http'[d].pc = "previewed" => Fits(http'[d])
      BY <1>1, <2>2, PreviewFits
    <2> QED BY <2>1, <2>2, OthersShow DEF TypeOK
  <1> QED BY <1>2 DEF PreviewInv, Fits

LEMMA CommitFits ==
  ASSUME TypeOK, KindsInv, FirmsInv, PreviewInv, PreviewIsCommit, NEW c \in Clients, ImportCommit(c)
  PROVE  PreviewIsCommit'
  <1> DEFINE kind == http[c].kind
             policy == http[c].policy
             rows == http[c].rows
             told == http[c].told
             base == http[c].base
             did == process(kind, policy, TRUE, rows).outcomes
             same == base = <<contacts, companies>>
             separate == Separate(kind, rows)
             i == [kind |-> kind, rows |-> rows, policy |-> policy, told |-> told,
                   did |-> did, same |-> same, separate |-> separate]
  <1>1. kind \in DOMAIN Files /\ policy \in Policies /\ rows \in Files[kind] /\ http[c].pc = "previewed"
    BY DEF ImportCommit, Continues, HttpOK, HttpTyped, TypeOK
  <1>2. imports' = imports \cup {i} BY DEF ImportCommit
  <1>3. i.told = told /\ i.did = did /\ i.same = same /\ i.separate = separate OBVIOUS
  <1>4. told = Forecast(kind, policy, rows, base[1], base[2]) BY <1>1 DEF PreviewInv
  <1>5. TablesOK /\ \A a \in companies : a.id < next BY KindsNow DEF TypeOK
  <1>6. same => base[1] = contacts /\ base[2] = companies OBVIOUS
  <1>7. separate => did = Forecast(kind, policy, rows, contacts, companies)
    <2> HIDE DEF kind, policy, rows
    <2> SUFFICES ASSUME Separate(kind, rows)
                 PROVE  process(kind, policy, TRUE, rows).outcomes = Forecast(kind, policy, rows, contacts, companies)
      OBVIOUS
    <2>1. \A w \in BOOLEAN :
            w => process(kind, policy, w, rows).outcomes = Forecast(kind, policy, rows, contacts, companies)
      <3> TAKE w \in BOOLEAN
      <3> QED BY <1>1, <1>5, CommitTells
    <2> QED BY <2>1
  <1> HIDE DEF i, did, told, same, separate, base, kind, policy, rows
  <1>8. i.same /\ i.separate => i.told = i.did BY <1>3, <1>4, <1>6, <1>7
  <1>9. \A x \in imports : x.same /\ x.separate => x.told = x.did BY DEF PreviewIsCommit
  <1>10. \A x \in imports' : x.same /\ x.separate => x.told = x.did BY <1>2, <1>8, <1>9
  <1> QED BY <1>10 DEF PreviewIsCommit

LEMMA CommitsFit ==
  ASSUME TypeOK, KindsInv, FirmsInv, PreviewInv, PreviewIsCommit, [WorkspaceNext]_workspaceVars
  PROVE  PreviewIsCommit'
  <1>1. imports' = imports => PreviewIsCommit' BY DEF PreviewIsCommit
  <1>2. imports' = imports \/ \E c \in Clients : ImportCommit(c)
    BY DEF WorkspaceNext, RequestStep, WalkStep, DedupStep, ImportStep, ImportNext, ImportPreview, Cancel,
       ConnectorsNext, PostConnectorEvent, Resolve, handleCandidateEnriched, handleInvitationStage,
       handleInvitationReplyPositive, Failed, workspaceVars
  <1> QED BY <1>1, <1>2, CommitFits

LEMMA PreviewInit ==
  ASSUME WorkspaceInit PROVE FirmsInv /\ PreviewInv /\ PreviewIsCommit
  <1>1. CrmInit /\ imports = {} BY DEF WorkspaceInit, ImportInit
  <1> DEFINE firm == [id |-> 1, name |-> CHOOSE n \in Names : TRUE, domain |-> Blank]
  <1>2. companies = {firm} BY <1>1 DEF CrmInit
  <1> HIDE DEF firm
  <1>3. \A c \in Clients : http[c].pc = "idle" BY <1>1, QuietTyped DEF CrmInit
  <1> QED BY <1>1, <1>2, <1>3 DEF FirmsInv, PreviewInv, PreviewIsCommit

(* Import!PreviewIsCommit (import.go 261-264): a commit does to each row    *)
(* what its preview told, for every file whose rows are separate, when no   *)
(* contact or company changed in between.                                   *)
THEOREM TheCommitIsThePreview == WorkspaceSpec => []PreviewIsCommit
  <1> DEFINE Inv == TypeOK /\ KindsInv /\ FirmsInv /\ PreviewInv /\ PreviewIsCommit
  <1>1. WorkspaceInit => Inv BY TypeInit, KindsInit, PreviewInit
  <1>2. Inv /\ [WorkspaceNext]_workspaceVars => Inv'
    BY TypeStep, KindsKept, FirmsKept, PreviewInvKept, CommitsFit
  <1>3. Inv => PreviewIsCommit OBVIOUS
  <1> QED BY <1>1, <1>2, <1>3, PTL DEF WorkspaceSpec
=============================================================================
