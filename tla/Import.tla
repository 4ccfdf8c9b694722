-------------------------------- MODULE Import --------------------------------
(* CSV import (internal/crm/import.go).  A preview classifies every row of  *)
(* the file in a read transaction, the commit does it again in one write    *)
(* transaction, in which a row sees what the rows above it inserted; a set  *)
(* of keys seen makes up for that in the preview.                           *)
EXTENDS Dedup, Sequences

CONSTANTS
  Domains,     \* web domains
  Files        \* kind -> the files callers upload: sequences of rows

VARIABLES
  imports      \* ghost: imports confirmed, [.., told, did, same, separate]

ImportInit == imports = {}

(* A row [ok, email], [ok, name, domain] or [ok, stage], and custom: whether *)
(* it sets a custom property.  A row that is not ok fails validateCore or   *)
(* coerceCustomValue.                                                       *)
ContactRows == [ok : BOOLEAN, email : Emails \cup {NoEmail}, custom : BOOLEAN]
CompanyRows == [ok : BOOLEAN, name : Names, domain : Domains \cup {Blank}, custom : {FALSE}]
DealRows == [ok : BOOLEAN, stage : Stages \cup {"none"}, custom : BOOLEAN]
Policies == {"update", "skip", "create"}
(* A key says whether it is a name or a domain.                             *)
ASSUME FilesAssumption ==
  /\ Domains \cap ({Blank} \cup Names) = {}
  /\ DOMAIN Files = {"contact", "company", "deal"}
  /\ Files["contact"] \subseteq Seq(ContactRows)
  /\ Files["company"] \subseteq Seq(CompanyRows)
  /\ Files["deal"] \subseteq Seq(DealRows)

(* What the engine works on: the tables it writes, and its own books.       *)
Engine ==
  [contacts |-> contacts, companies |-> companies, deals |-> deals, objects |-> objects,
   timeline |-> timeline, next |-> next, seen |-> {}, outcomes |-> <<>>]

(* Faulty variant: a contact's e-mail is not noted.                         *)
dedupeKeyForgets(kind, row) ==
  IF kind # "company" THEN {} ELSE IF row.domain # Blank THEN {row.domain} ELSE {row.name}
dedupeKey(kind, row) ==
  CASE kind = "contact" -> IF row.email = NoEmail THEN {} ELSE {row.email}
    [] kind = "company" -> IF row.domain # Blank THEN {row.domain} ELSE {row.name}
    [] kind = "deal" -> {}

SameFirm(r, row) == r.name = row.name \/ (row.domain # Blank /\ r.domain = row.domain)

(* ORDER BY created_at LIMIT 1                                              *)
Oldest(S) == IF S = {} THEN {} ELSE {Least(Ids(S))}
lookupMatch(e, kind, row) ==
  CASE kind = "contact" -> Oldest({r \in e.contacts : row.email # NoEmail /\ r.email = row.email})
    [] kind = "company" -> Oldest({r \in e.companies : SameFirm(r, row)})
    [] kind = "deal" -> {}

(* afterWrite: the bag, merged, is a new row; the activity names no stage.  *)
BagOf(T, id) == UNION {o.vals : o \in On(T, id)}
afterWrite(e, id, row) ==
  LET told == [e EXCEPT !.timeline = @ \cup {[on |-> id, stage |-> "unsaid"]}] IN
  IF ~row.custom THEN told
  ELSE [told EXCEPT !.next = @ + 1,
          !.objects = (@ \ On(@, id)) \cup {[on |-> id, n |-> e.next, vals |-> BagOf(@, id) \cup {"csv"}]}]

Inserted(e) == [e EXCEPT !.next = @ + 1]
applyCreate(e, kind, row) ==
  CASE kind = "contact" ->
         [Inserted(e) EXCEPT !.contacts = @ \cup {[id |-> e.next, email |-> row.email, company |-> 0]}]
    [] kind = "company" ->
         [Inserted(e) EXCEPT !.companies = @ \cup {[id |-> e.next, name |-> row.name, domain |-> row.domain]}]
    [] kind = "deal" ->
         [Inserted(e) EXCEPT !.deals = @ \cup {[id |-> e.next, contact |-> 0, company |-> 0,
                                               stage |-> row.stage, closed |-> FALSE]}]
(* The mapped cells that are not empty overlay the row.                     *)
applyUpdate(e, kind, id, row) ==
  CASE kind = "contact" -> e
    [] kind = "company" ->
         [e EXCEPT !.companies =
            {IF r.id = id THEN [r EXCEPT !.name = row.name,
                                         !.domain = IF row.domain = Blank THEN @ ELSE row.domain]
                          ELSE r : r \in @}]

record(e, action) == [e EXCEPT !.outcomes = Append(@, action)]

(* One row.  matched without an id: an earlier row had the key; an update   *)
(* then finds no row to update and the commit files an error.               *)
Classified(e, kind, policy, write, row) ==
  LET found == lookupMatch(e, kind, row)
      matched == found # {} \/ dedupeKey(kind, row) \cap e.seen # {}
      known == [e EXCEPT !.seen = @ \cup dedupeKey(kind, row)]
  IN IF ~row.ok THEN record(e, "error")
     ELSE IF matched /\ policy = "skip" THEN record(known, "skip")
     ELSE IF matched /\ policy = "update"
          THEN IF ~write THEN record(known, "update")
               ELSE IF found = {} THEN record(known, "error")
               ELSE LET id == Least(found) IN
                    record(afterWrite(applyUpdate(known, kind, id, row), id, row), "update")
     ELSE IF ~write THEN record(known, "create")
     ELSE record(afterWrite(applyCreate(known, kind, row), e.next, row), "create")

(* The engine after each row of the file.                                   *)
Engines(kind, policy, write, rows) ==
  LET after[n \in 0..Len(rows)] ==
        IF n = 0 THEN Engine ELSE Classified(after[n - 1], kind, policy, write, rows[n])
  IN after
process(kind, policy, write, rows) == Engines(kind, policy, write, rows)[Len(rows)]

(* Two rows are of one company, or nothing but the file brings them         *)
(* together: no company of the table matches both.                          *)
Separate(kind, rows) ==
  kind = "company" => \A i, j \in DOMAIN rows :
    \/ rows[i].name = rows[j].name /\ rows[i].domain = rows[j].domain
    \/ /\ rows[i].name # rows[j].name
       /\ rows[i].domain = Blank \/ rows[i].domain # rows[j].domain
       /\ \A r \in companies : ~(SameFirm(r, rows[i]) /\ SameFirm(r, rows[j]))

ImportPreview(c) ==
  /\ Begins(c)
  /\ \E kind \in DOMAIN Files, policy \in Policies : \E rows \in Files[kind] :
       Turns(c, [pc |-> "previewed", kind |-> kind, policy |-> policy, rows |-> rows,
                 told |-> process(kind, policy, FALSE, rows).outcomes,
                 base |-> <<contacts, companies>>])
  /\ Nothing /\ UNCHANGED <<dedupVars, imports>>

(* All or nothing, and one audit row for the batch.  It waits for the rows  *)
(* another transaction has locked.                                          *)
ImportCommit(c) ==
  /\ Continues(c, "previewed") /\ Answers(c)
  /\ LET q == http[c]
         e == process(q.kind, q.policy, TRUE, q.rows)
     IN /\ e.next <= MaxRecords + 1
        /\ \A n \in DOMAIN q.rows : \A id \in lookupMatch(Engine, q.kind, q.rows[n]) : Unlocked(id)
        /\ contacts' = e.contacts /\ companies' = e.companies /\ deals' = e.deals
        /\ objects' = e.objects /\ timeline' = e.timeline /\ next' = e.next
        /\ EmitAudit("import.committed", 0)
        /\ imports' = imports \cup
             {[kind |-> q.kind, rows |-> q.rows, policy |-> q.policy, told |-> q.told,
               did |-> e.outcomes, same |-> q.base = <<contacts, companies>>,
               separate |-> Separate(q.kind, q.rows)]}
  /\ UNCHANGED <<notes, tasks, keys, dedupVars>>

(* The other button of the dialog.                                          *)
Cancel(c) == Continues(c, "previewed") /\ Answers(c) /\ Nothing /\ UNCHANGED <<dedupVars, imports>>

ImportNext == \E c \in Clients : ImportPreview(c) \/ ImportCommit(c) \/ Cancel(c)

-----------------------------------------------------------------------------
(* PROPERTY a commit does to each row what its preview told, if no contact  *)
(* or company changed in between: "Both classify rows identically"          *)
(* (import.go 261-264).  The code keeps this for files whose rows are       *)
(* separate: a row that another row's company matches under another key, or *)
(* whose company a row above it renamed, is outside.                        *)
PreviewIsCommit ==
  \A i \in imports : i.same /\ i.separate => i.told = i.did
=============================================================================
