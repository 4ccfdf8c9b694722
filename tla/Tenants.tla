------------------------------ MODULE Tenants -------------------------------
(* The tenant registry: the tables of schema core, and the operator's       *)
(* commands on them: lecrm-admin tenant create / tombstone / verify, its    *)
(* integrator grants, and lecrm-migrate provision-workspace / river-setup   *)
(* (apps/admin/internal/tenant, apps/admin/internal/integrator,             *)
(* apps/migrate).  A command is split where it commits or reads, and an     *)
(* operator's process may die between two of its steps.                     *)
EXTENDS Integers, FiniteSets

CONSTANTS
  Operators,   \* processes of the command line
  Slugs,       \* slugs ValidateSlug accepts
  Reserved,    \* core.reserved_slugs
  Emails, NoEmail,
  Persons,     \* (issuer, subject) pairs the identity provider vouches for
  MaxId,       \* UUIDs minted in a behaviour
  MaxCommands  \* operator commands started in a behaviour

ASSUME BoundsAssumption == MaxId \in Nat /\ MaxCommands \in Nat
ASSUME NamesAssumption == Reserved \subseteq Slugs /\ NoEmail \notin Emails

Ids == 1..MaxId
Users == Persons \cup {[invited |-> e] : e \in Emails}
Ranks == [none |-> 0, member |-> 1, admin |-> 2, owner |-> 3, integrator |-> 4]
Roles == DOMAIN Ranks \ {"none"}

VARIABLES
  rows,        \* core.workspaces: [id, slug, seeded, dead]
  minted,      \* UUIDs minted so far
  objects,     \* <<id, thing>>: role, schema, river schema, stages, job tables
  audit,       \* core.audit_log: <<event, workspace>>
  grants,      \* core.integrator_grants: <<workspace, email>>
  members,     \* core.workspace_members: <<workspace, user>> -> role
  email,       \* core.users: user -> its stored email
  tokens,      \* core.service_tokens: [ws, slug, scope, live]
  cli,         \* operator -> [pc, slug, ids, mail]
  commands,    \* commands still to start
  unaudited,   \* ghost: slugs whose tombstone command died before its audit
  excused,     \* ghost: <<ws, user>> made integrator not by a grant that holds
  upset        \* ghost: workspaces whose owners left by a known way

tables == <<rows, minted, objects, audit, grants, members, email, tokens>>
ghosts == <<unaudited, excused, upset>>
tenantVars == <<tables, cli, commands, ghosts>>

Off == [pc |-> "idle", slug |-> CHOOSE s \in Slugs : TRUE, ids |-> {},
        mail |-> NoEmail]

TenantsInit ==
  /\ rows = {} /\ minted = 0 /\ objects = {} /\ audit = {} /\ grants = {}
  /\ members = [m \in Ids \X Users |-> "none"]
  /\ email = [u \in Users |-> NoEmail]
  /\ tokens = {}
  /\ cli = [o \in Operators |-> Off]
  /\ commands \in 0..MaxCommands
  /\ unaudited = {} /\ excused = {} /\ upset = {}

RowsOf(s) == {r \in rows : r.slug = s}
Live(s) == {r \in RowsOf(s) : ~r.dead}
IdsOf(S) == {r.id : r \in S}
Registered(id) == id \in IdsOf(rows)

(* checkSlugBlocked: reserved, or the slug of a deleted tenant.             *)
Blocked(s) == s \in Reserved \/ \E r \in RowsOf(s) : r.dead

Begin(o) ==
  /\ cli[o].pc = "idle" /\ commands > 0
  /\ commands' = commands - 1
Goto(o, pc, s, ids, e) ==
  cli' = [cli EXCEPT ![o] = [pc |-> pc, slug |-> s, ids |-> ids, mail |-> e]]
Done(o) == cli' = [cli EXCEPT ![o] = Off]
At(o, pc) == cli[o].pc = pc /\ UNCHANGED commands

-----------------------------------------------------------------------------
(* tenant create                                                            *)

(* The UUID a command works with: the one found, or a new one.              *)
Mint(found) ==
  /\ found = {} => minted < MaxId
  /\ minted' = IF found = {} THEN minted + 1 ELSE minted
Chosen(found) == IF found = {} THEN {minted + 1} ELSE found

CreateFresh(o, s, e) ==
  /\ Begin(o)
  /\ ~Blocked(s) /\ Live(s) = {}
  /\ Mint({})
  /\ Goto(o, "provision", s, Chosen({}), e)
  /\ UNCHANGED <<rows, objects, audit, grants, members, email, tokens, ghosts>>

CreateUpsert(o, s, e) ==
  /\ Begin(o)
  /\ ~Blocked(s)
  /\ Mint(IdsOf(Live(s)))
  /\ Goto(o, "provision", s, Chosen(IdsOf(Live(s))), e)
  /\ UNCHANGED <<rows, objects, audit, grants, members, email, tokens, ghosts>>

CreateForceRecreate(o, s, e) ==
  /\ Begin(o)
  /\ ~Blocked(s)
  /\ Goto(o, "recreate", s, {}, e)
  /\ UNCHANGED <<tables, ghosts>>

(* The registry wrapper in SQL.  UNIQUE (slug): a slug held by another id   *)
(* rolls the whole call back.  Audit row and stages only with a new row.    *)
Taken(s, id, R) == \E r \in R : r.slug = s /\ r.id # id
NewRow(s, id, seeded) == [id |-> id, slug |-> s, seeded |-> seeded, dead |-> FALSE]
Things(id, seeded) ==
  {<<id, t>> : t \in {"role", "schema", "river"} \cup IF seeded THEN {"stages"} ELSE {}}
(* Faulty variant: the audit row is left to the caller.                     *)
ProvisionedSilently(s, id, seeded) ==
  /\ ~Taken(s, id, rows)
  /\ rows' = rows \cup {NewRow(s, id, seeded)}
  /\ objects' = objects \cup Things(id, seeded)
  /\ UNCHANGED audit

Provisioned(s, id, seeded) ==
  /\ ~Taken(s, id, rows)
  /\ IF Registered(id)
     THEN UNCHANGED <<rows, objects, audit>>
     ELSE /\ rows' = rows \cup {NewRow(s, id, seeded)}
          /\ objects' = objects \cup Things(id, seeded)
          /\ audit' = audit \cup {<<"provisioned", id>>}

(* callWrapper: the wrapper commits, then the grant is a statement of its own. *)
CallWrapper(o) ==
  /\ At(o, "provision")
  /\ LET c == cli[o] IN \E id \in c.ids :
       /\ Provisioned(c.slug, id, TRUE)
       /\ IF c.mail = NoEmail THEN Done(o)
                              ELSE Goto(o, "grant", c.slug, c.ids, c.mail)
  /\ UNCHANGED <<minted, grants, members, email, tokens, ghosts>>

Refused(o) ==
  /\ cli[o].pc \in {"provision", "bootstrap"}
  /\ \E id \in cli[o].ids : Taken(cli[o].slug, id, rows)
  /\ Done(o)
  /\ UNCHANGED <<tables, commands, ghosts>>

(* InsertIntegratorGrant: ON CONFLICT DO NOTHING; the foreign key refuses a *)
(* workspace that is gone.                                                  *)
(* Faulty variant: the workspace that was looked up is taken to be there.   *)
GrantableAny(ids) == ids
Grantable(ids) == {i \in ids : Registered(i)}
InsertIntegratorGrant(o) ==
  /\ At(o, "grant")
  /\ grants' = grants \cup {<<id, cli[o].mail>> : id \in Grantable(cli[o].ids)}
  /\ Done(o)
  /\ UNCHANGED <<rows, minted, objects, audit, members, email, tokens, ghosts>>

(* dropExistingWorkspace: the row's ON DELETE CASCADE takes members, grants *)
(* and tokens along; schemas and role are dropped by name.                  *)
DropMembers(ids) ==
  members' = [m \in DOMAIN members |-> IF m[1] \in ids THEN "none" ELSE members[m]]
DropTokens(ids) == tokens' = {t \in tokens : t.ws \notin ids}
Without(pairs, ids) == {p \in pairs : p[1] \notin ids}
AuditWithout(ids) == {a \in audit : a[2] \notin ids}

(* What createForceRecreate drops: the live row of the slug.                *)
(* Faulty variant: the lookup forgets tombstoned_at IS NULL.                *)
DroppedAny(s) == IdsOf(RowsOf(s))
Dropped(s) == IdsOf(Live(s))

(* createForceRecreate's transaction looks the row up without locking it.   *)
RecreateLookup(o) ==
  /\ At(o, "recreate")
  /\ Goto(o, "drop", cli[o].slug, Dropped(cli[o].slug), cli[o].mail)
  /\ UNCHANGED <<tables, ghosts>>

(* Then it deletes that row by its id, whether or not it was tombstoned     *)
(* meanwhile, provisions in its place, grants and commits.                  *)
ForceRecreate(o) ==
  /\ At(o, "drop")
  /\ minted < MaxId /\ minted' = minted + 1
  /\ LET c == cli[o]
         old == c.ids
         id == minted + 1
     IN /\ \A r \in RowsOf(c.slug) : r.id \in old
        /\ rows' = {r \in rows : r.id \notin old} \cup {NewRow(c.slug, id, TRUE)}
        /\ objects' = Without(objects, old) \cup Things(id, TRUE)
        /\ audit' = AuditWithout(old) \cup {<<"provisioned", id>>}
        /\ grants' = Without(grants, old)
                     \cup IF c.mail = NoEmail THEN {} ELSE {<<id, c.mail>>}
        /\ DropMembers(old) /\ DropTokens(old)
        /\ UNCHANGED <<email, unaudited, upset>>
        /\ excused' = Without(excused, old)
  /\ Done(o)

(* The slug has another row than the one looked up: the insert is refused   *)
(* and the whole transaction rolls back.                                    *)
RecreateRefused(o) ==
  /\ At(o, "drop")
  /\ \E r \in RowsOf(cli[o].slug) : r.id \notin cli[o].ids
  /\ Done(o)
  /\ UNCHANGED <<tables, ghosts>>

-----------------------------------------------------------------------------
(* tenant tombstone: the update, then the audit row.                        *)

Tombstone(o, s) ==
  /\ Begin(o)
  /\ RowsOf(s) # {} /\ \A r \in RowsOf(s) : ~r.dead
  /\ Goto(o, "tombstone", s, {}, NoEmail)
  /\ UNCHANGED <<tables, ghosts>>

MarkTombstoned(o) ==
  /\ At(o, "tombstone")
  /\ LET s == cli[o].slug IN
       IF Live(s) = {}
       THEN Done(o) /\ UNCHANGED rows
       ELSE /\ rows' = {IF r.slug = s THEN [r EXCEPT !.dead = TRUE] ELSE r : r \in rows}
            /\ Goto(o, "audit", s, {}, NoEmail)
  /\ UNCHANGED <<minted, objects, audit, grants, members, email, tokens, ghosts>>

(* Faulty variant: the audit row is for the live workspace of the slug.     *)
TombstonedLive(s) == IdsOf(Live(s))
Tombstoned(s) == IdsOf(RowsOf(s))
AuditTombstone(o) ==
  /\ At(o, "audit")
  /\ audit' = audit \cup {<<"tombstoned", id>> : id \in Tombstoned(cli[o].slug)}
  /\ Done(o)
  /\ UNCHANGED <<rows, minted, objects, grants, members, email, tokens, ghosts>>

-----------------------------------------------------------------------------
(* integrator grant / revoke                                                *)

IntegratorGrant(o, s, e) ==
  /\ Begin(o)
  /\ Live(s) # {}
  /\ Goto(o, "grant", s, IdsOf(Live(s)), e)
  /\ UNCHANGED <<tables, ghosts>>

IntegratorRevoke(o, s, e) ==
  /\ Begin(o)
  /\ Live(s) # {}
  /\ Goto(o, "revoke", s, IdsOf(Live(s)), e)
  /\ UNCHANGED <<tables, ghosts>>

(* Faulty variant: the off switch only stops future logins.                 *)
OnlyFutureLogins(id, e) == {}
Materialized(id, e) ==
  {m \in DOMAIN members : m[1] = id /\ members[m] = "integrator" /\ email[m[2]] = e}

RevokeTx(o) ==
  /\ At(o, "revoke")
  /\ \E id \in cli[o].ids :
       LET gone == Materialized(id, cli[o].mail) IN
       /\ grants' = grants \ {<<id, cli[o].mail>>}
       /\ members' = [m \in DOMAIN members |-> IF m \in gone THEN "none" ELSE members[m]]
       /\ excused' = excused \ gone
       /\ upset' = IF gone = {} THEN upset ELSE upset \cup {id}
  /\ Done(o)
  /\ UNCHANGED <<rows, minted, objects, audit, email, tokens, unaudited>>

-----------------------------------------------------------------------------
(* lecrm-migrate provision-workspace (no template) and river-setup          *)

MigrateProvision(o, s) ==
  /\ Begin(o)
  /\ Mint(IdsOf(RowsOf(s)))
  /\ Goto(o, "bootstrap", s, Chosen(IdsOf(RowsOf(s))), NoEmail)
  /\ UNCHANGED <<rows, objects, audit, grants, members, email, tokens, ghosts>>

Bootstrap(o) ==
  /\ At(o, "bootstrap")
  /\ \E id \in cli[o].ids : Provisioned(cli[o].slug, id, FALSE)
  /\ Goto(o, "river", cli[o].slug, cli[o].ids, NoEmail)
  /\ UNCHANGED <<minted, grants, members, email, tokens, ghosts>>

(* river-setup --slug or --all                                              *)
RiverSetup(o, S) ==
  /\ Begin(o)
  /\ S # {}
  /\ Goto(o, "river", CHOOSE s \in Slugs : TRUE, IdsOf(S), NoEmail)
  /\ UNCHANGED <<tables, ghosts>>

(* SetupWorkspace, one workspace after the other; the first that fails (its *)
(* role was dropped meanwhile) ends the command.                            *)
SetupWorkspace(o) ==
  /\ At(o, "river")
  /\ \E id \in cli[o].ids :
       IF <<id, "role">> \in objects
       THEN /\ objects' = objects \cup {<<id, "jobs">>}
            /\ IF cli[o].ids = {id} THEN Done(o)
               ELSE Goto(o, "river", cli[o].slug, cli[o].ids \ {id}, NoEmail)
       ELSE Done(o) /\ UNCHANGED objects
  /\ UNCHANGED <<rows, minted, audit, grants, members, email, tokens, ghosts>>

(* The process dies, or its connection does, between two statements.        *)
Crash(o) ==
  /\ cli[o].pc # "idle"
  /\ unaudited' = unaudited \cup IF cli[o].pc = "audit" THEN {cli[o].slug} ELSE {}
  /\ Done(o)
  /\ UNCHANGED <<tables, commands, excused, upset>>

TenantsNext ==
  \E o \in Operators :
    \/ \E s \in Slugs, e \in Emails \cup {NoEmail} :
         CreateFresh(o, s, e) \/ CreateUpsert(o, s, e) \/ CreateForceRecreate(o, s, e)
    \/ CallWrapper(o) \/ Refused(o) \/ InsertIntegratorGrant(o)
    \/ RecreateLookup(o) \/ ForceRecreate(o) \/ RecreateRefused(o)
    \/ \E s \in Slugs : Tombstone(o, s) \/ MigrateProvision(o, s) \/ RiverSetup(o, RowsOf(s))
    \/ RiverSetup(o, rows)
    \/ MarkTombstoned(o) \/ AuditTombstone(o)
    \/ \E s \in Slugs, e \in Emails : IntegratorGrant(o, s, e) \/ IntegratorRevoke(o, s, e)
    \/ RevokeTx(o) \/ Bootstrap(o) \/ SetupWorkspace(o) \/ Crash(o)

-----------------------------------------------------------------------------
(* tenant verify: what each check of the table asks of a registered row.    *)

checkRoleExists(r) == <<r.id, "role">> \in objects
checkSchemasExist(r) == <<r.id, "schema">> \in objects /\ <<r.id, "river">> \in objects
checkRegistryRow(r) == \A q \in rows : q.id = r.id => q = r
checkCrossTenant(r) == \A q \in rows \ {r} : q.id # r.id
checkAuditRow(r) == <<"provisioned", r.id>> \in audit
checkAuditBinding(r) == \E a \in audit : a[1] = "provisioned" /\ Registered(a[2]) /\ a[2] = r.id
checkPipelineSeed(r) == <<r.id, "stages">> \in objects <=> r.seeded
allInvariants(r) ==
  /\ checkRoleExists(r) /\ checkSchemasExist(r) /\ checkCrossTenant(r)
  /\ checkRegistryRow(r) /\ checkAuditRow(r) /\ checkAuditBinding(r)
  /\ checkPipelineSeed(r)

(* PROPERTY lecrm-admin tenant verify succeeds on every registered          *)
(* workspace at every moment: no interleaving of two operators and no       *)
(* death of a command leaves a row whose role, schemas, audit row or stages *)
(* are missing, or belong to a workspace dropped by --force-recreate        *)
(* (create.go 226-253, verify.go).                                          *)
VerifyHolds == \A r \in rows : allInvariants(r)

(* PROPERTY a tombstoned workspace has its audit row, is about to get it,   *)
(* or the command died between its two statements (tombstone.go 52-72): a   *)
(* second tombstone refuses, so nothing writes the row later.               *)
TombstoneAudited ==
  \A r \in rows : r.dead =>
    \/ <<"tombstoned", r.id>> \in audit
    \/ \E o \in Operators : cli[o].pc = "audit" /\ cli[o].slug = r.slug
    \/ r.slug \in unaudited

(* PROPERTY grants, tokens and memberships never outlive their workspace,   *)
(* even when a command resolved the workspace before another dropped it.    *)
NothingOutlivesItsWorkspace ==
  /\ \A g \in grants : Registered(g[1])
  /\ \A t \in tokens : Registered(t.ws)
  /\ \A m \in DOMAIN members : members[m] # "none" => Registered(m[1])

(* PROPERTY the registry implements SlugRegistry: one workspace per slug,   *)
(* and a retired slug is never bound again, even when the tombstone lands   *)
(* between the check of a create and its insert (create.go 331-356), but    *)
(* for a --force-recreate that looked the workspace up before it was        *)
(* tombstoned: its DELETE by id takes the tombstone along (create.go        *)
(* 180-190, 234-237), though tombstone.go 82 calls the slug permanently     *)
(* unavailable.                                                             *)
Registry == INSTANCE SlugRegistry WITH
  Free <- 0,
  holder <- [s \in Slugs |-> IF RowsOf(s) = {} THEN 0 ELSE (CHOOSE r \in RowsOf(s) : TRUE).id],
  retired <- {s \in Slugs : \E r \in RowsOf(s) : r.dead},
  doomed <- UNION {cli[o].ids : o \in {q \in Operators : cli[q].pc = "drop"}}
SlugsAreRetiredForGood == Registry!Spec
=============================================================================
