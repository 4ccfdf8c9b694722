------------------------------ MODULE Connectors ------------------------------
(* Events that external tools push (internal/crm/connectors.go), and the    *)
(* contact upsert they share with a captured lead (capability/intentops.go). *)
(* Delivery is at least once and in any order.  A transaction looks for the *)
(* mapping or the e-mail, then writes: two can find nothing at once.        *)
EXTENDS Import

CONSTANTS
  Urls, NoUrl, \* candidates' external identities
  Invitations

ASSUME ExternalIdsAssumption == NoUrl \notin Urls \cup Invitations /\ Urls \cap Invitations = {}

VARIABLES
  mappings,    \* external_entity_mappings: [ext, type, id], UNIQUE ext
  born,        \* ghost: records connectors created, [ext, id, overtaken]
  overtaken    \* ghost: callers overtaken by a creation since their lookup

connectorVars == <<mappings, born, overtaken>>
ConnectorsInit == mappings = {} /\ born = {} /\ overtaken = {}

(* The stage an event asks for ("" : none), and whether it closes the deal. *)
Invitation ==
  [created |-> [stage |-> "discovery", closing |-> FALSE],
   sent |-> [stage |-> "proposal", closing |-> FALSE],
   opened |-> [stage |-> "", closing |-> FALSE],
   claimed |-> [stage |-> "closed", closing |-> TRUE],
   expired |-> [stage |-> "closed", closing |-> TRUE],
   replied |-> [stage |-> "", closing |-> FALSE]]

(* Envelopes that validateConnectorEvent accepts; each has its own key.  A  *)
(* candidate has a URL or an e-mail, or its payload is bad; an invitation   *)
(* names its candidate by url and e-mail, both optional.                    *)
Events ==
  [kind : {"enriched"}, ext : Urls \cup {NoUrl}, email : Emails \cup {NoEmail}, scored : BOOLEAN]
  \cup [kind : DOMAIN Invitation, ext : Invitations, url : Urls \cup {NoUrl},
         email : Emails \cup {NoEmail}, scored : {FALSE}]
BadPayload(ev) == ev.ext = NoUrl /\ ev.email = NoEmail

knownConnectorEvents == {ev \in Events : ~BadPayload(ev)}

Mapped(ext) == {m \in mappings : m.ext = ext}
ByUrl(url) == Oldest(Mapped(url))
ByEmail(e) == Oldest({r \in contacts : e # NoEmail /\ r.email = e})

(* PostConnectorEvent: a delivery, first or repeated; the key is looked up  *)
(* before the transaction.                                                  *)
PostConnectorEvent(c) ==
  /\ http[c].pc = "idle" /\ writes > 0 /\ writes' = writes - 1
  /\ \E ev \in knownConnectorEvents :
       IF IdempotencyLookup(ev) THEN Answers(c) ELSE Turns(c, [pc |-> "event", ev |-> ev])
  /\ Nothing /\ UNCHANGED <<dedupVars, imports, connectorVars>>

(* What the event is about: upsertConnectorContact's mapping and e-mail     *)
(* lookups, or findOrCreateInvitationDeal's.                                *)
upsertConnectorContact(ev) ==
  IF ev.ext # NoUrl /\ Mapped(ev.ext) # {} THEN {m.id : m \in Mapped(ev.ext)} ELSE ByEmail(ev.email)
findOrCreateInvitationDeal(ev) == {m.id : m \in Mapped(ev.ext)}
(* The url's mapping wins, and may name a contact that is deleted.          *)
resolveCandidateContact(ev) ==
  IF ev.url # NoUrl /\ Mapped(ev.url) # {} THEN ByUrl(ev.url) ELSE ByEmail(ev.email)
Resolve(c) ==
  /\ Continues(c, "event")
  /\ LET ev == http[c].ev IN
       Turns(c, [pc |-> "resolved", ev |-> ev,
                 found |-> IF ev.kind = "enriched" THEN upsertConnectorContact(ev)
                           ELSE findOrCreateInvitationDeal(ev),
                 contact |-> IF ev.kind = "enriched" THEN {} ELSE resolveCandidateContact(ev)])
  /\ overtaken' = overtaken \ {c}
  /\ Nothing /\ UNCHANGED <<dedupVars, imports, mappings, born>>

(* A creation overtakes whoever looked for the same before.                 *)
Same(a, b) == (a.ext = b.ext /\ a.ext # NoUrl) \/ (a.email = b.email /\ a.email # NoEmail)
Overtakes(c, ext, id) ==
  /\ born' = born \cup {[ext |-> ext, id |-> id, overtaken |-> c \in overtaken]}
  /\ overtaken' = (overtaken \ {c}) \cup
       {d \in Clients \ {c} : http[d].pc = "resolved" /\ Same(http[d].ev, http[c].ev)}
Quietly(c) == born' = born /\ overtaken' = overtaken \ {c}

(* ON CONFLICT DO NOTHING; a contact found by e-mail gets no mapping.       *)
(* Faulty variant: a deal without a contact is not mapped.                  *)
MapLinked(ext, type, id, linked) ==
  mappings' = IF ext = NoUrl \/ Mapped(ext) # {} \/ ~linked THEN mappings
              ELSE mappings \cup {[ext |-> ext, type |-> type, id |-> id]}
MapTo(ext, type, id, linked) ==
  mappings' = IF ext = NoUrl \/ Mapped(ext) # {} THEN mappings
              ELSE mappings \cup {[ext |-> ext, type |-> type, id |-> id]}

MergedBag(id, key, n) ==
  objects' = (objects \ On(objects, id)) \cup {[on |-> id, n |-> n, vals |-> BagOf(objects, id) \cup {key}]}

(* UpsertContactByEmail and the enrichment: an existing contact is updated, *)
(* where it still is; whether or not it is, the event is told of its UUID.  *)
handleCandidateEnriched(c) ==
  /\ Continues(c, "resolved") /\ Answers(c)
  /\ LET q == http[c]
         ev == q.ev
         id == IF q.found = {} THEN next ELSE Least(q.found)
         minted == IF q.found = {} THEN 1 ELSE 0
     IN /\ ev.kind = "enriched" /\ Unlocked(id)
        /\ next' = next + minted + (IF ev.scored THEN 1 ELSE 0) /\ next' <= MaxRecords + 1
        /\ IF q.found = {}
           THEN /\ contacts' = contacts \cup {[id |-> id, email |-> ev.email, company |-> 0]}
                /\ MapTo(ev.ext, "contact", id, TRUE) /\ Overtakes(c, ev.ext, id)
           ELSE /\ contacts' = {IF r.id = id /\ ev.email # NoEmail THEN [r EXCEPT !.email = ev.email]
                                ELSE r : r \in contacts}
                /\ UNCHANGED mappings /\ Quietly(c)
        /\ IF ev.scored THEN MergedBag(id, "score", next + minted) ELSE UNCHANGED objects
        /\ emitEntityActivity("enriched", id, "none")
        /\ IdempotencyStore(ev, id)
  /\ UNCHANGED <<companies, deals, notes, tasks, dedupVars, imports>>

(* The deal, found or created in the first stage, and its contact if one is *)
(* still there.                                                             *)
Deal(q) ==
  [id |-> next, company |-> 0, stage |-> "discovery", closed |-> FALSE,
   contact |-> IF q.contact \cap Ids(contacts) = {} THEN 0 ELSE Least(q.contact)]
FindOrCreate(c, id) ==
  IF http[c].found = {}
  THEN MapTo(http[c].ev.ext, "deal", id, http[c].contact # {}) /\ Overtakes(c, http[c].ev.ext, id)
  ELSE UNCHANGED mappings /\ Quietly(c)
Table(q) == IF q.found = {} THEN deals \cup {Deal(q)} ELSE deals
DealGone(q) == q.contact # {} /\ q.contact \cap Ids(contacts) = {} /\ q.found = {}

(* closed_at is set by a closing event and never cleared by a later one.    *)
(* A linked contact that is gone by the INSERT fails it, each time if it is *)
(* the url's: the connector delivers again.                                 *)
Told(target) == IF target.stage = "" THEN "unsaid" ELSE target.stage
handleInvitationStage(c) ==
  /\ Continues(c, "resolved") /\ Answers(c)
  /\ LET q == http[c]
         id == IF q.found = {} THEN next ELSE Least(q.found)
         target == Invitation[q.ev.kind]
     IN /\ q.ev.kind \in DOMAIN Invitation \ {"replied"} /\ Unlocked(id) /\ ~DealGone(q)
        /\ IF q.found = {} THEN Mints ELSE UNCHANGED next
        /\ FindOrCreate(c, id)
        /\ deals' = {IF d.id = id /\ target.stage # ""
                     THEN [d EXCEPT !.stage = target.stage, !.closed = @ \/ target.closing]
                     ELSE d : d \in Table(q)}
        /\ emitEntityActivity("invitation", id, Told(target))
        /\ IdempotencyStore(q.ev, id)
  /\ UNCHANGED <<contacts, companies, beside, dedupVars, imports>>

handleInvitationReplyPositive(c) ==
  /\ Continues(c, "resolved") /\ Answers(c)
  /\ LET q == http[c]
         id == IF q.found = {} THEN next ELSE Least(q.found)
         minted == IF q.found = {} THEN 1 ELSE 0
     IN /\ q.ev.kind = "replied" /\ Unlocked(id) /\ ~DealGone(q)
        /\ next' = next + minted + 1 /\ next' <= MaxRecords + 1
        /\ FindOrCreate(c, id)
        /\ deals' = Table(q)
        /\ MergedBag(id, "follow_up", next + minted)
        /\ emitEntityActivity("invitation", id, "unsaid")
        /\ IdempotencyStore(q.ev, id)
  /\ UNCHANGED <<contacts, companies, notes, tasks, dedupVars, imports>>

Failed(c) ==
  /\ Continues(c, "resolved") /\ Answers(c)
  /\ DealGone(http[c]) /\ overtaken' = overtaken \ {c}
  /\ Nothing /\ UNCHANGED <<dedupVars, imports, mappings, born>>

ConnectorsNext ==
  \E c \in Clients :
    \/ PostConnectorEvent(c) \/ Resolve(c)
    \/ handleCandidateEnriched(c) \/ handleInvitationStage(c) \/ handleInvitationReplyPositive(c)
    \/ Failed(c)

-----------------------------------------------------------------------------
(* The workspace's records under everything that writes or pages them.      *)
workspaceVars == <<crmVars, dedupVars, imports, connectorVars>>
WorkspaceInit == CrmInit /\ DedupInit /\ ImportInit /\ ConnectorsInit

RequestStep ==
  (\E c \in Clients : RecordWrites(c) \/ NoteWrites(c)) /\ UNCHANGED <<dedupVars, imports, connectorVars>>
WalkStep == Walks /\ UNCHANGED <<dedupVars, imports, connectorVars>>
DedupStep == DedupNext /\ UNCHANGED <<imports, connectorVars>>
ImportStep == ImportNext /\ UNCHANGED connectorVars
WorkspaceNext == RequestStep \/ WalkStep \/ DedupStep \/ ImportStep \/ ConnectorsNext
WorkspaceSpec == WorkspaceInit /\ [][WorkspaceNext]_workspaceVars

-----------------------------------------------------------------------------
(* PROPERTY an invitation or a candidate's URL brings one record into       *)
(* being, whatever is delivered twice, late or out of order, but for        *)
(* creations that overtook each other between lookup and insert             *)
(* (connectors.go 305-364, 449-491: nothing locks, and the second mapping   *)
(* is dropped).                                                             *)
BornOnce ==
  \A ext \in Urls \cup Invitations :
    Cardinality({b \in born : b.ext = ext /\ ~b.overtaken}) <= 1
=============================================================================
