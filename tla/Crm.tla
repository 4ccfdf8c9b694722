--------------------------------- MODULE Crm ---------------------------------
(* The CRM's records in one workspace: contacts, companies, deals, their    *)
(* notes, tasks and timeline, with the HTTP handlers and the capability     *)
(* operations on them (internal/crm, capability/ops.go, internal/sqlcgen).  *)
(* A request is split where another transaction can come between what it    *)
(* reads and what it commits.                                               *)
EXTENDS Integers, FiniteSets

CONSTANTS
  Clients,         \* callers that write, each with at most one request
  Readers,         \* callers that page through a list or export it
  Role,            \* caller -> "none", "member" or "admin"
  Emails, NoEmail,
  Names, Blank,    \* company names; Blank is an empty cell or field
  Keys, NoKey,     \* idempotency keys
  PageLimit,       \* rows of a page
  MaxRecords,      \* UUIDs minted in a behaviour
  MaxWrites        \* writing requests started in a behaviour

ASSUME RoleAssumption == Role \in [Clients \cup Readers -> {"none", "member", "admin"}]
(* CrmInit has minted the first five UUIDs.                                 *)
ASSUME CrmBoundsAssumption ==
  PageLimit \in Nat \ {0} /\ MaxRecords \in Nat \ 0..4 /\ MaxWrites \in Nat
ASSUME CrmNamesAssumption == NoEmail \notin Emails /\ Blank \notin Names /\ NoKey \notin Keys
(* CrmInit's first records have a name, an e-mail and an author.            *)
ASSUME CrmRecordsAssumption == Names # {} /\ Emails # {} /\ Clients # {}

VARIABLES
  contacts,    \* rows [id, email, company]
  companies,   \* rows [id, name, domain]
  deals,       \* rows [id, contact, company, stage, closed]
  notes,       \* rows [id, on, author]
  tasks,       \* rows [id, on, due, done]
  objects,     \* custom-property bags: rows [on, n, vals]
  timeline,    \* activities: what a row tells of a record, [on, stage]
  trail,       \* core.audit_log: <<event, id>>
  keys,        \* core.idempotency_keys: [key, id]
  next,        \* the next UUID
  http,        \* caller -> its request
  writes,      \* writing requests still to start
  walks        \* reader -> the pages it read of one list

records == <<contacts, companies, deals>>
beside == <<notes, tasks, objects>>
books == <<timeline, trail, keys, next>>
crmVars == <<records, beside, books, http, writes, walks>>

(* Three of gbconsult-default's stages: the first, one between, the closed. *)
Stages == {"discovery", "proposal", "closed"}
Quiet == [pc |-> "idle"]
Ids(T) == {r.id : r \in T}
The(T, id) == CHOOSE r \in T : r.id = id
Known == Ids(contacts) \cup Ids(companies) \cup Ids(deals)
Holds(ref, T) == ref = 0 \/ ref \in Ids(T)     \* a nullable foreign key

CrmInit ==
  /\ companies = {[id |-> 1, name |-> CHOOSE n \in Names : TRUE, domain |-> Blank]}
  /\ contacts = {[id |-> 2, email |-> CHOOSE e \in Emails : TRUE, company |-> 1],
                 [id |-> 3, email |-> NoEmail, company |-> 0]}
  /\ deals = {[id |-> 4, contact |-> 2, company |-> 1, stage |-> "discovery", closed |-> FALSE]}
  /\ notes = {[id |-> 5, on |-> 2, author |-> CHOOSE c \in Clients : TRUE]}
  /\ tasks = {} /\ objects = {}
  /\ timeline = {[on |-> i, stage |-> "none"] : i \in 1..3} \cup {[on |-> 4, stage |-> "discovery"]}
  /\ trail = {} /\ keys = {} /\ next = 6
  /\ http = [c \in Clients |-> Quiet]
  /\ writes \in 0..MaxWrites
  /\ walks = [r \in Readers |-> Quiet]

(* principalFrom and authorize: reads need a member, writes an admin; the   *)
(* router asks the same of the routes that have no capability operation.    *)
authorize(c, min) == Role[c] = "admin" \/ (min = "member" /\ Role[c] = "member")

Begins(c) == http[c].pc = "idle" /\ writes > 0 /\ authorize(c, "admin") /\ writes' = writes - 1
Continues(c, pc) == http[c].pc = pc /\ UNCHANGED writes
Turns(c, req) == http' = [http EXCEPT ![c] = req] /\ UNCHANGED walks
Answers(c) == Turns(c, Quiet)
Nothing == UNCHANGED <<records, beside, books>>

(* A merge under way holds the locks of the rows it updated: others wait.   *)
(* Faulty variant: a merge that keeps all of the survivor's fields does not *)
(* update it.                                                               *)
LockedLess(c, id) == http[c].pc = "repointed" /\ id \in http[c].locked \ {http[c].survivor}
LockedBy(c, id) == http[c].pc = "repointed" /\ id \in http[c].locked
Unlocked(id) == \A c \in Clients : ~LockedBy(c, id)

(* The rows with a foreign key to a record, which its deletion clears: it   *)
(* waits for them, and for a merge that set such a key and did not commit.  *)
DealsOf(id) == {d \in deals : id \in {d.contact, d.company}}
ContactsOf(id) == {r \in contacts : r.company = id}
RefersTo(c, id) ==
  http[c].pc = "repointed" /\ "company" \in DOMAIN http[c].row /\ http[c].row.company = id
Deletable(id, others) ==
  \A d \in others :
    /\ ~LockedBy(d, id) /\ ~RefersTo(d, id)
    /\ \A x \in DealsOf(id) \cup ContactsOf(id) : ~LockedBy(d, x.id)

(* What a write leaves behind in its own transaction.                       *)
EmitAudit(event, id) == trail' = trail \cup {<<event, id>>}
EmitActivity(on, stage) == timeline' = timeline \cup {[on |-> on, stage |-> stage]}
emitEntityActivity(event, id, stage) == EmitAudit(event, id) /\ EmitActivity(id, stage)
Mints == next <= MaxRecords /\ next' = next + 1

(* IdempotencyLookup outside any transaction, IdempotencyStore inside it.   *)
IdempotencyLookup(k) == \E row \in keys : row.key = k
IdempotencyStore(k, id) ==
  keys' = IF k = NoKey \/ IdempotencyLookup(k) THEN keys ELSE keys \cup {[key |-> k, id |-> id]}

-----------------------------------------------------------------------------
(* internal/sqlcgen: one statement each.  ON DELETE SET NULL is the         *)
(* schema's; a row that a foreign key refuses rolls the request back.       *)

insertContact(in) == contacts' = contacts \cup {[id |-> next, email |-> in.email, company |-> in.company]}
setContact(id, in) ==
  contacts' = {IF r.id = id THEN [r EXCEPT !.email = in.email, !.company = in.company] ELSE r
               : r \in contacts}
dropContact(id) ==
  /\ contacts' = {r \in contacts : r.id # id}
  /\ deals' = {[d EXCEPT !.contact = IF @ = id THEN 0 ELSE @] : d \in deals}

insertCompany(in) == companies' = companies \cup {[id |-> next, name |-> in.name, domain |-> in.domain]}
setCompany(id, in) ==
  companies' = {IF r.id = id THEN [r EXCEPT !.name = in.name, !.domain = in.domain] ELSE r
                : r \in companies}
dropCompany(id) ==
  /\ companies' = {r \in companies : r.id # id}
  /\ contacts' = {[r EXCEPT !.company = IF @ = id THEN 0 ELSE @] : r \in contacts}
  /\ deals' = {[d EXCEPT !.company = IF @ = id THEN 0 ELSE @] : d \in deals}

insertDeal(in) ==
  deals' = deals \cup {[id |-> next, contact |-> in.contact, company |-> in.company,
                        stage |-> in.stage, closed |-> FALSE]}
(* Neither of the two touches closed_at.                                    *)
setDeal(id, in) ==
  deals' = {IF d.id = id THEN [d EXCEPT !.contact = in.contact, !.company = in.company,
                                        !.stage = in.stage] ELSE d : d \in deals}
setDealStage(id, stage) ==
  deals' = {IF d.id = id THEN [d EXCEPT !.stage = stage] ELSE d : d \in deals}
dropDeal(id) == deals' = {d \in deals : d.id # id}

-----------------------------------------------------------------------------
(* capability/ops.go: the write transactions.                               *)

CreateContact(c) ==
  /\ Continues(c, "contact") /\ Answers(c)
  /\ LET in == http[c].in IN
       IF ~Holds(in.company, companies) THEN Nothing
       ELSE /\ Mints /\ insertContact(in)
            /\ emitEntityActivity("created", next, "none")
            /\ IdempotencyStore(http[c].key, next)
            /\ UNCHANGED <<companies, deals, beside>>
UpdateContact(id, in) ==
  IF id \notin Ids(contacts) \/ ~Holds(in.company, companies) THEN Nothing
  ELSE /\ Unlocked(id) /\ setContact(id, in)
       /\ emitEntityActivity("updated", id, "none")
       /\ UNCHANGED <<companies, deals, beside, keys, next>>
DeleteContact(id) ==
  IF id \notin Ids(contacts) THEN Nothing
  ELSE /\ Deletable(id, Clients) /\ dropContact(id)
       /\ emitEntityActivity("deleted", id, "none")
       /\ UNCHANGED <<companies, beside, keys, next>>

CreateCompany(c) ==
  /\ Continues(c, "company") /\ Answers(c)
  /\ Mints /\ insertCompany(http[c].in)
  /\ emitEntityActivity("created", next, "none")
  /\ IdempotencyStore(http[c].key, next)
  /\ UNCHANGED <<contacts, deals, beside>>
UpdateCompany(id, in) ==
  IF id \notin Ids(companies) THEN Nothing
  ELSE /\ Unlocked(id) /\ setCompany(id, in)
       /\ emitEntityActivity("updated", id, "none")
       /\ UNCHANGED <<contacts, deals, beside, keys, next>>
DeleteCompany(id) ==
  IF id \notin Ids(companies) THEN Nothing
  ELSE /\ Deletable(id, Clients) /\ dropCompany(id)
       /\ emitEntityActivity("deleted", id, "none")
       /\ UNCHANGED <<beside, keys, next>>

DealRefs(in) == Holds(in.contact, contacts) /\ Holds(in.company, companies)
CreateDeal(c) ==
  /\ Continues(c, "deal") /\ Answers(c)
  /\ LET in == http[c].in IN
       IF ~DealRefs(in) THEN Nothing
       ELSE /\ Mints /\ insertDeal(in)
            /\ emitEntityActivity("created", next, in.stage)
            /\ IdempotencyStore(http[c].key, next)
            /\ UNCHANGED <<contacts, companies, beside>>
(* Faulty variant: the activity of a PUT leaves the stage out.              *)
UpdateDealUntold(id, in) ==
  IF id \notin Ids(deals) \/ ~DealRefs(in) THEN Nothing
  ELSE /\ Unlocked(id) /\ setDeal(id, in)
       /\ emitEntityActivity("updated", id, "none")
       /\ UNCHANGED <<contacts, companies, beside, keys, next>>
UpdateDeal(id, in) ==
  IF id \notin Ids(deals) \/ ~DealRefs(in) THEN Nothing
  ELSE /\ Unlocked(id) /\ setDeal(id, in)
       /\ emitEntityActivity("updated", id, in.stage)
       /\ UNCHANGED <<contacts, companies, beside, keys, next>>
DeleteDeal(id) ==
  IF id \notin Ids(deals) THEN Nothing
  ELSE /\ Unlocked(id) /\ dropDeal(id)
       /\ emitEntityActivity("deleted", id, "none")
       /\ UNCHANGED <<contacts, companies, beside, keys, next>>

(* The deal and its old stage are read before the UPDATE takes the row      *)
(* lock; no audit row, the activity alone tells the move.                   *)
TransitionDealStage(c) ==
  /\ Continues(c, "moving") /\ Answers(c)
  /\ LET q == http[c] IN
       IF q.id \notin Ids(deals) THEN Nothing
       ELSE /\ Unlocked(q.id) /\ setDealStage(q.id, q.stage)
            /\ EmitActivity(q.id, q.stage)
            /\ UNCHANGED <<contacts, companies, beside, trail, keys, next>>

-----------------------------------------------------------------------------
(* internal/crm/handlers.go: decode, validate, call the operation.          *)

ContactInputs == [email : Emails \cup {NoEmail}, company : {0} \cup Ids(companies)]
CompanyInputs == [name : Names \cup {Blank}, domain : {Blank}]
DealInputs == [contact : {0} \cup Ids(contacts), company : {0}, stage : Stages]

Targets == Known \cup {0}        \* 0: a UUID that is not there

(* A key that is known replays the stored answer; else the write follows.   *)
Posts(c, kind, in, k) ==
  /\ Begins(c) /\ Nothing
  /\ IF IdempotencyLookup(k) THEN Answers(c)
     ELSE Turns(c, [pc |-> kind, in |-> in, key |-> k])

contactHandlers(c) ==
  \/ \E in \in ContactInputs, k \in Keys \cup {NoKey} : Posts(c, "contact", in, k)
  \/ \E id \in Targets, in \in ContactInputs : Begins(c) /\ Answers(c) /\ UpdateContact(id, in)
  \/ \E id \in Targets : Begins(c) /\ Answers(c) /\ DeleteContact(id)

(* A blank name is refused before anything is read.                         *)
companyHandlers(c) ==
  \E in \in {i \in CompanyInputs : i.name # Blank} :
    \/ \E k \in Keys \cup {NoKey} : Posts(c, "company", in, k)
    \/ \E id \in Targets : Begins(c) /\ Answers(c) /\ (UpdateCompany(id, in) \/ DeleteCompany(id))

dealHandlers(c) ==
  \/ \E in \in DealInputs, k \in Keys \cup {NoKey} : Posts(c, "deal", in, k)
  \/ \E id \in Targets, in \in DealInputs : Begins(c) /\ Answers(c) /\ UpdateDeal(id, in)
  \/ \E id \in Targets : Begins(c) /\ Answers(c) /\ DeleteDeal(id)

(* An unknown deal or the stage it is in: nothing to do.                    *)
PatchDealStage(c) ==
  \E id \in Ids(deals), s \in Stages :
    /\ Begins(c) /\ The(deals, id).stage # s
    /\ Turns(c, [pc |-> "moving", id |-> id, stage |-> s])
    /\ Nothing

-----------------------------------------------------------------------------
(* internal/crm/anc_handlers.go: notes and tasks hang on a type and a UUID, *)
(* without a foreign key, and nobody looks whether the record is there.     *)
(* main wires no job runner, so a task's due date enqueues nothing.         *)

Hooks == Known \cup {e[2] : e \in {t \in trail : t[1] \in {"deleted", "merged"}}}

insertNote(on, author) == notes' = notes \cup {[id |-> next, on |-> on, author |-> author]}
createNote(c) ==
  /\ Begins(c) /\ Answers(c) /\ Mints
  /\ \E on \in Hooks :
       /\ insertNote(on, c)
       /\ EmitAudit("note.created", next) /\ EmitActivity(on, "none")
  /\ UNCHANGED <<records, tasks, objects, keys>>
UpdateNote(c) ==
  /\ Begins(c) /\ Answers(c)
  /\ \E n \in notes : n.author = c /\ Unlocked(n.id) /\ EmitAudit("note.updated", n.id)
  /\ UNCHANGED <<records, beside, timeline, keys, next>>
(* The author, or a call that names no author.                              *)
DeleteNote(c) ==
  /\ Begins(c) /\ Answers(c)
  /\ \E n \in notes, claimed \in {c, "nobody"} :
       /\ claimed \in {"nobody", n.author} /\ Unlocked(n.id)
       /\ notes' = notes \ {n}
       /\ EmitAudit("note.deleted", n.id)
  /\ UNCHANGED <<records, tasks, objects, timeline, keys, next>>

insertTask(on) == tasks' = tasks \cup {[id |-> next, on |-> on, done |-> FALSE]}
CreateTask(c) ==
  /\ Begins(c) /\ Answers(c) /\ Mints
  /\ \E on \in Hooks \cup {0} : insertTask(on)
  /\ EmitAudit("task.created", next)
  /\ UNCHANGED <<records, notes, objects, timeline, keys>>
SetTask(t, u) == Unlocked(t.id) /\ tasks' = (tasks \ {t}) \cup u
UpdateTask(c) ==
  /\ Begins(c) /\ Answers(c)
  /\ \E t \in tasks, on \in Hooks : SetTask(t, {[t EXCEPT !.on = on]}) /\ EmitAudit("task.updated", t.id)
  /\ UNCHANGED <<records, notes, objects, timeline, keys, next>>
ToggleTaskCompletion(c) ==
  /\ Begins(c) /\ Answers(c)
  /\ \E t \in tasks : /\ SetTask(t, {[t EXCEPT !.done = ~@]})
                      /\ EmitAudit(IF t.done THEN "task.reopened" ELSE "task.completed", t.id)
  /\ UNCHANGED <<records, notes, objects, timeline, keys, next>>
DeleteTask(c) ==
  /\ Begins(c) /\ Answers(c)
  /\ \E t \in tasks : SetTask(t, {}) /\ EmitAudit("task.deleted", t.id)
  /\ UNCHANGED <<records, notes, objects, timeline, keys, next>>

-----------------------------------------------------------------------------
(* Lists, newest first, a page at a time; UUIDs stand for (created_at, id). *)

Start == MaxRecords + 1      \* no cursor, or one that does not decode
NewestBelow(T, cursor, n) ==
  {i \in Ids(T) : i < cursor /\ Cardinality({j \in Ids(T) : i < j /\ j < cursor}) < n}
Least(S) == CHOOSE i \in S : \A j \in S : i <= j

listContacts(cursor, n) == NewestBelow(contacts, cursor, n)
listCompanies(cursor, n) == NewestBelow(companies, cursor, n)
listDeals(cursor, n) == NewestBelow(deals, cursor, n)
listed(list, cursor, n) ==
  CASE list = "contacts" -> listContacts(cursor, n)
    [] list = "companies" -> listCompanies(cursor, n)
    [] list = "deals" -> listDeals(cursor, n)
TableOf(list) ==
  CASE list = "contacts" -> contacts [] list = "companies" -> companies [] list = "deals" -> deals

Page(ids, cursor, more) == [ids |-> ids, cursor |-> cursor, more |-> more]
(* A list asks for one row more than it shows.                              *)
(* Faulty variant: the cursor is the row that is not shown.                 *)
PageCut(ids) ==
  IF Cardinality(ids) <= PageLimit THEN Page(ids, Start, FALSE)
  ELSE Page(ids \ {Least(ids)}, Least(ids), TRUE)
PageOf(ids) ==
  IF Cardinality(ids) <= PageLimit THEN Page(ids, Start, FALSE)
  ELSE Page(ids \ {Least(ids)}, Least(ids \ {Least(ids)}), TRUE)
ListContacts(cursor) == PageOf(listContacts(cursor, PageLimit + 1))
ListCompanies(cursor) == PageOf(listCompanies(cursor, PageLimit + 1))
ListDeals(cursor) == PageOf(listDeals(cursor, PageLimit + 1))

(* An export reads full pages, in one READ COMMITTED transaction, until one *)
(* is short.                                                                *)
ExportPage(ids) ==
  Page(ids, IF ids = {} THEN Start ELSE Least(ids), Cardinality(ids) = PageLimit)
ExportContacts(cursor) == ExportPage(listContacts(cursor, PageLimit))
ExportCompanies(cursor) == ExportPage(listCompanies(cursor, PageLimit))
ExportDeals(cursor) == ExportPage(listDeals(cursor, PageLimit))

Pages(w) ==
  CASE w.list = "contacts" -> IF w.export THEN ExportContacts(w.cursor) ELSE ListContacts(w.cursor)
    [] w.list = "companies" -> IF w.export THEN ExportCompanies(w.cursor) ELSE ListCompanies(w.cursor)
    [] w.list = "deals" -> IF w.export THEN ExportDeals(w.cursor) ELSE ListDeals(w.cursor)

BeginWalk(r, list, export) ==
  /\ walks[r].pc = "idle" /\ authorize(r, "member")
  /\ walks' = [walks EXCEPT ![r] = [pc |-> "paging", list |-> list, export |-> export,
                                   cursor |-> Start, seen |-> {}, rows |-> 0,
                                   there |-> Ids(TableOf(list))]]
  /\ Nothing /\ UNCHANGED <<http, writes>>
ReadPage(r) ==
  /\ walks[r].pc = "paging"
  /\ LET w == walks[r]
         page == Pages(w)
     IN walks' = [walks EXCEPT ![r] =
          [w EXCEPT !.pc = IF page.more THEN "paging" ELSE "read", !.cursor = page.cursor,
                    !.seen = @ \cup page.ids, !.rows = @ + Cardinality(page.ids)]]
  /\ Nothing /\ UNCHANGED <<http, writes>>

RecordWrites(c) ==
  \/ contactHandlers(c) \/ companyHandlers(c) \/ dealHandlers(c) \/ PatchDealStage(c)
  \/ CreateContact(c) \/ CreateCompany(c) \/ CreateDeal(c) \/ TransitionDealStage(c)
NoteWrites(c) ==
  \/ createNote(c) \/ UpdateNote(c) \/ DeleteNote(c)
  \/ CreateTask(c) \/ UpdateTask(c) \/ ToggleTaskCompletion(c) \/ DeleteTask(c)
Walks ==
  \E r \in Readers :
    \/ \E list \in {"contacts", "companies", "deals"}, export \in BOOLEAN : BeginWalk(r, list, export)
    \/ ReadPage(r)

-----------------------------------------------------------------------------
(* PROPERTY a reader that follows the cursors to the end has read every     *)
(* record that was there all the time, and none of them twice, whatever is  *)
(* created, deleted or merged between two pages (ops.go 211-248,            *)
(* export.go 152-210).                                                      *)
WalkIsComplete ==
  \A r \in Readers : walks[r].pc = "read" =>
    /\ walks[r].there \cap Ids(TableOf(walks[r].list)) \subseteq walks[r].seen
    /\ walks[r].rows = Cardinality(walks[r].seen)

(* PROPERTY the timeline of a deal knows the stage the deal is in, whoever  *)
(* put it there: the board, a PUT, an import, a connector, a lead           *)
(* (ops.go 729-758, 812-933, connectors.go 368-417).                        *)
(* Imports and some events do not say which stage they created the deal in. *)
StageIsTold ==
  \A d \in deals :
    LET told == {x.stage : x \in {y \in timeline : y.on = d.id}} IN
    d.stage \in told \/ (told \cap Stages = {} /\ "unsaid" \in told)
=============================================================================
