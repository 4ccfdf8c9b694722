-------------------------------- MODULE Dedup --------------------------------
(* Duplicates (internal/crm/dedup.go): the pairs a reviewer is shown, the   *)
(* pairs marked distinct, and the merge of two contacts or two companies.   *)
(* A merge loads both rows without a lock, then updates the survivor and    *)
(* re-points what hangs on the loser, then deletes the loser and commits:   *)
(* nobody sees its writes before, but its row locks hold from the update.   *)
EXTENDS Crm

CONSTANTS Alike    \* unordered pairs of records whose names are similar

VARIABLES
  rules,       \* core.dedup_no_merge_rules: unordered pairs
  astray       \* ghost: losers whose survivor was gone when it was updated

dedupVars == <<rules, astray>>
DedupInit == rules = {} /\ astray = {}

Pair(a, b) == {a, b}
isExcluded(a, b, excluded) == Pair(a, b) \in excluded

(* Pass 1 by e-mail, pass 2 by name; the rules are read on a connection of  *)
(* their own, and when that fails every pair is shown.                      *)
SameEmail(a, b) == a.email # NoEmail /\ a.email = b.email
SameDomain(a, b) == a.domain # Blank /\ a.domain = b.domain
ContactPairs(excluded) ==
  UNION {{Pair(a.id, b.id) : b \in {x \in contacts : a.id < x.id
                                       /\ (SameEmail(a, x) \/ Pair(a.id, x.id) \in Alike)}}
         : a \in contacts} \ excluded
CompanyPairs(excluded) ==
  UNION {{Pair(a.id, b.id) : b \in {x \in companies : a.id < x.id
                                       /\ (SameDomain(a, x) \/ Pair(a.id, x.id) \in Alike)}}
         : a \in companies} \ excluded

(* The page a reviewer acts on; its pair may be out of date by then.        *)
ListDuplicates(c) ==
  /\ Begins(c)
  /\ \E excluded \in {rules, {}} : \E p \in ContactPairs(excluded) \cup CompanyPairs(excluded) :
       Turns(c, [pc |-> "reviewing", pair |-> p])
  /\ Nothing /\ UNCHANGED dedupVars

markDistinct(c) ==
  /\ Continues(c, "reviewing") /\ Answers(c)
  /\ rules' = rules \cup {http[c].pair}
  /\ Nothing /\ UNCHANGED astray

-----------------------------------------------------------------------------
(* What hangs on a record.                                                  *)
On(T, id) == {x \in T : x.on = id}
Hangs(id) == On(notes, id) \cup On(tasks, id) \cup On(objects, id) \cup On(timeline, id)

Moved(T, those, to) == {IF x \in those THEN [x EXCEPT !.on = to] ELSE x : x \in T}

(* load twice: either row missing ends it.                                  *)
LoadMerge(c, T) ==
  /\ Continues(c, "reviewing")
  /\ \E s, l \in http[c].pair :
       /\ s # l
       /\ IF {s, l} \subseteq Ids(T)
          THEN \E pick \in {The(T, s), The(T, l)} :
                 Turns(c, [pc |-> "loaded", survivor |-> s, loser |-> l, row |-> [pick EXCEPT !.id = s]])
          ELSE Answers(c)
  /\ Nothing /\ UNCHANGED dedupVars

(* The UPDATEs wait for the locks; with no survivor left the first updates  *)
(* nothing and goes on.  A foreign key to a row that is gone fails: of the  *)
(* deals and contacts to the survivor, of the survivor to the company that  *)
(* was loaded.                                                              *)
Rows(id) == DealsOf(id) \cup ContactsOf(id) \cup On(notes, id) \cup On(tasks, id)
Unkeyed(q) ==
  IF q.survivor \in Known THEN "company" \in DOMAIN q.row /\ ~Holds(q.row.company, companies)
  ELSE DealsOf(q.loser) \cup ContactsOf(q.loser) # {}
RepointMerge(c) ==
  /\ Continues(c, "loaded")
  /\ LET q == http[c] IN
       /\ Unlocked(q.survivor)
       /\ \A x \in Rows(q.loser) : Unlocked(x.id)
       /\ IF Unkeyed(q)
          THEN Answers(c) /\ UNCHANGED astray
          ELSE /\ Turns(c, [pc |-> "repointed", survivor |-> q.survivor, loser |-> q.loser,
                            row |-> q.row, hung |-> Hangs(q.loser), deals |-> Ids(DealsOf(q.loser)),
                            staff |-> Ids(ContactsOf(q.loser)),
                            locked |-> {q.survivor} \cup Ids(Rows(q.loser))])
               /\ astray' = IF q.survivor \in Known THEN astray ELSE astray \cup {q.loser}
  /\ Nothing /\ UNCHANGED rules

(* What both merges commit but for the two tables.  A deal or contact that  *)
(* came to name the loser since then loses the name as the loser goes.      *)
(* Faulty variant: the tasks are forgotten.                                 *)
HungLessTasks(q) ==
  /\ notes' = Moved(notes, On(notes, q.loser) \cap q.hung, q.survivor)
  /\ tasks' = tasks
  /\ timeline' = Moved(timeline, On(timeline, q.loser) \cap q.hung, q.survivor)
Hung(q) ==
  /\ notes' = Moved(notes, On(notes, q.loser) \cap q.hung, q.survivor)
  /\ tasks' = Moved(tasks, On(tasks, q.loser) \cap q.hung, q.survivor)
  /\ timeline' = Moved(timeline, On(timeline, q.loser) \cap q.hung, q.survivor)
Merged(c, q) ==
  /\ Continues(c, "repointed") /\ Answers(c)
  /\ Deletable(q.loser, Clients \ {c})
  /\ Hung(q)
  /\ rules' = rules \ {Pair(q.survivor, q.loser)}
  /\ EmitAudit("merged", q.loser)
  /\ UNCHANGED <<keys, next, astray>>
Settled(T, q) == {IF r.id = q.survivor THEN q.row ELSE r : r \in {x \in T : x.id # q.loser}}

MergeContacts(c) ==
  LET q == http[c] IN
  /\ Merged(c, q) /\ "email" \in DOMAIN q.row
  /\ contacts' = Settled(contacts, q)
  /\ deals' = {[d EXCEPT !.contact = IF d.id \in q.deals THEN q.survivor
                                    ELSE IF @ = q.loser THEN 0 ELSE @] : d \in deals}
  /\ objects' = objects \ q.hung
  /\ UNCHANGED companies
(* The loser's objects stay; nothing writes any for a company.              *)
MergeCompanies(c) ==
  LET q == http[c] IN
  /\ Merged(c, q) /\ "name" \in DOMAIN q.row
  /\ companies' = Settled(companies, q)
  /\ contacts' = {[r EXCEPT !.company = IF r.id \in q.staff THEN q.survivor
                                       ELSE IF @ = q.loser THEN 0 ELSE @] : r \in contacts}
  /\ deals' = {[d EXCEPT !.company = IF d.id \in q.deals THEN q.survivor
                                    ELSE IF @ = q.loser THEN 0 ELSE @] : d \in deals}
  /\ UNCHANGED objects

(* The database ends a merge that waits in a circle with another merge or   *)
(* a deletion, as it does one whose connection is lost.                     *)
RolledBack(c) ==
  /\ http[c].pc \in {"loaded", "repointed"} /\ UNCHANGED writes
  /\ Answers(c) /\ Nothing /\ UNCHANGED dedupVars

DedupNext ==
  \E c \in Clients :
    \/ ListDuplicates(c) \/ markDistinct(c)
    \/ LoadMerge(c, contacts) \/ LoadMerge(c, companies)
    \/ RepointMerge(c) \/ MergeContacts(c) \/ MergeCompanies(c) \/ RolledBack(c)

-----------------------------------------------------------------------------
(* What another transaction hung on the loser since the re-pointing: the    *)
(* loser's row is not locked, and the hook is not a foreign key.            *)
WrittenMeanwhile(q) == Hangs(q.loser) \ q.hung
Carried(T, q) == {[x EXCEPT !.on = q.survivor] : x \in On(T, q.loser) \cap q.hung}

(* PROPERTY when a merge commits, everything that hung on the loser as it   *)
(* was re-pointed hangs on the survivor or, a bag, is deleted; its deals    *)
(* and contacts name the survivor, and nothing names the loser any more.    *)
(* What stays on the loser was written between the two, and only that:      *)
(* there "no relation is orphaned" (dedup.go 22-23) does not hold           *)
(* (dedup.go 540-613, 704-772).                                             *)
NoRelationIsOrphaned ==
  [][\A c \in Clients :
       LET q == http[c] IN
       /\ MergeContacts(c) \/ MergeCompanies(c) =>
            /\ On((notes \cup tasks \cup objects \cup timeline)', q.loser) \subseteq WrittenMeanwhile(q)
            /\ Carried(notes, q) \subseteq notes' /\ Carried(tasks, q) \subseteq tasks'
            /\ Carried(timeline, q) \subseteq timeline'
            /\ \A d \in deals' : /\ q.loser \notin {d.contact, d.company}
                                 /\ d.id \in q.deals => q.survivor \in {d.contact, d.company}
       /\ MergeCompanies(c) =>
            \A r \in contacts' : /\ r.company # q.loser
                                 /\ r.id \in q.staff => r.company = q.survivor]_crmVars

(* PROPERTY a merge keeps one of the two: the survivor is there, or somebody *)
(* deleted it or merged it away in turn; only a survivor that was gone      *)
(* between its load and its update, for nobody locks it, takes both         *)
(* (dedup.go 512-538).                                                      *)
MergeKeepsOne ==
  [][\A c \in Clients :
       LET q == http[c] IN
       MergeContacts(c) \/ MergeCompanies(c) =>
         q.survivor \in Known' \/ q.loser \in astray']_crmVars
=============================================================================
