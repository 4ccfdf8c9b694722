---------------------------- MODULE AccessProofs ----------------------------
(***************************************************************************)
(* Proofs about Tenants and Access for every set of operators, slugs,      *)
(* persons, addresses and tokens, and every bound: the registry verifies   *)
(* at every moment and keeps its retired slugs, nothing outlives its       *)
(* workspace, integrators rest on grants, and roles are lost only in the   *)
(* ways the code knows.                                                    *)
(***************************************************************************)
EXTENDS Access, TLAPS

(* Where an idle process or caller rests.                                  *)
AnySlug == CHOOSE s \in Slugs : TRUE
Addresses == Emails \cup {NoEmail}
RolesOrNone == Roles \cup {"none"}

RowType == [id : Ids, slug : Slugs, seeded : BOOLEAN, dead : BOOLEAN]
TokenType == [name : TokenNames, slug : Slugs, ws : Ids, scope : {"all", "read"},
              live : BOOLEAN]
CookieType == [user : Persons, slug : Slugs, ws : Ids]
CliPcs == {"idle", "provision", "recreate", "drop", "grant", "tombstone", "audit",
           "revoke", "bootstrap", "river"}
CliType == [pc : CliPcs, slug : Slugs \cup {AnySlug}, ids : SUBSET Ids,
            mail : Addresses]
WebType == [pc : {"idle", "away", "known", "joining", "in"},
            slug : Slugs \cup {AnySlug}, ws : Ids \cup {0}, role : RolesOrNone,
            mail : Addresses]

TablesType ==
  /\ rows \subseteq RowType
  /\ minted \in 0..MaxId
  /\ objects \subseteq Ids \X {"role", "schema", "river", "stages", "jobs"}
  /\ audit \subseteq {"provisioned", "tombstoned"} \X Ids
  /\ grants \subseteq Ids \X Addresses
  /\ members \in [Ids \X Users -> RolesOrNone]
  /\ email \in [Users -> Addresses]
  /\ tokens \subseteq TokenType
CliTyped ==
  /\ cli \in [Operators -> CliType]
  /\ \A o \in Operators : cli[o].pc # "idle" => cli[o].slug \in Slugs
  /\ commands \in 0..MaxCommands
WebTyped ==
  /\ web \in [Callers -> WebType]
  /\ \A c \in Callers : web[c].pc # "idle" => web[c].slug \in Slugs
  /\ \A c \in Callers : web[c].pc \in {"known", "joining", "in"} => web[c].ws \in Ids
  /\ cookies \subseteq CookieType
  /\ requests \in 0..MaxRequests
GhostsTyped ==
  /\ unaudited \subseteq Slugs /\ excused \subseteq Ids \X Users /\ upset \subseteq Ids

TypeOK == TablesType /\ CliTyped /\ WebTyped /\ GhostsTyped

-----------------------------------------------------------------------------
(* The inductive invariant *)

(* A row has its own UUID and its own slug, and both the rows and the      *)
(* commands only know UUIDs that were minted.                              *)
RowsApart == \A q, r \in rows : q.id = r.id \/ q.slug = r.slug => q = r
IdsAreMinted ==
  /\ \A r \in rows : r.id <= minted
  /\ \A o \in Operators : \A id \in cli[o].ids : id <= minted

(* The commands that will write a row or drop one agree with the rows, and *)
(* with each other, on the slug of every UUID they have in hand.           *)
Claiming(o) == cli[o].pc \in {"provision", "bootstrap", "drop"}
ClaimsAgree ==
  /\ \A o \in Operators : Claiming(o) =>
       \A r \in rows : r.id \in cli[o].ids => r.slug = cli[o].slug
  /\ \A o, p \in Operators : Claiming(o) /\ Claiming(p) =>
       \A id \in cli[o].ids : id \in cli[p].ids => cli[o].slug = cli[p].slug

(* What a row stands for is there, and nothing is there without its row.   *)
RowsAreProvisioned ==
  \A r \in rows :
    /\ \A t \in {"role", "schema", "river"} : <<r.id, t>> \in objects
    /\ <<r.id, "stages">> \in objects <=> r.seeded
    /\ <<"provisioned", r.id>> \in audit
ObjectsHaveRows == \A x \in objects : Registered(x[1])

(* A placeholder user has the address it was invited at from the first     *)
(* membership on.                                                          *)
InvitedAt(e) == [invited |-> e]
InvitedKeepTheirAddress ==
  \A e \in Emails :
    \/ email[InvitedAt(e)] = e
    \/ /\ email[InvitedAt(e)] = NoEmail
       /\ \A id \in Ids : members[<<id, InvitedAt(e)>>] = "none"

RegistryInv ==
  /\ RowsApart /\ IdsAreMinted /\ ClaimsAgree
  /\ RowsAreProvisioned /\ ObjectsHaveRows /\ TombstoneAudited
MembersInv ==
  NothingOutlivesItsWorkspace /\ InvitedKeepTheirAddress /\ IntegratorHasGrant

-----------------------------------------------------------------------------
(* Type correctness *)

LEMMA RolesAre ==
  /\ Roles = {"member", "admin", "owner", "integrator"}
  /\ RolesOrNone = {"none", "member", "admin", "owner", "integrator"}
  /\ Ranks["none"] = 0 /\ Ranks["member"] = 1 /\ Ranks["admin"] = 2
  /\ Ranks["owner"] = 3 /\ Ranks["integrator"] = 4
  BY DEF Roles, RolesOrNone, Ranks

LEMMA UsersAre ==
  /\ Persons \subseteq Users /\ Persons \subseteq Callers
  /\ \A e \in Emails : InvitedAt(e) \in Users /\ InvitedAt(e) \notin Persons
  /\ \A e, f \in Emails : InvitedAt(e) = InvitedAt(f) => e = f
<1>1. \A e \in Emails : InvitedAt(e) \in {[invited |-> f] : f \in Emails}
  BY DEF InvitedAt
<1>2. \A e : InvitedAt(e).invited = e
  BY DEF InvitedAt
<1>3. QED
  BY <1>1, <1>2, InvitedAssumption DEF Users, Callers

LEMMA OffTyped == Off \in CliType /\ Off.pc = "idle" /\ Off.ids = {}
  BY DEF Off, CliType, CliPcs, AnySlug, Addresses
LEMMA AwayTyped == Away \in WebType /\ Away.pc = "idle"
  BY RolesAre DEF Away, WebType, AnySlug, Addresses

LEMMA GotoTyped ==
  ASSUME CliTyped, NEW o \in Operators, NEW pc \in CliPcs, NEW s \in Slugs,
         NEW ids \in SUBSET Ids, NEW e \in Addresses, Goto(o, pc, s, ids, e)
  PROVE  /\ cli' \in [Operators -> CliType]
         /\ \A p \in Operators : cli'[p].pc # "idle" => cli'[p].slug \in Slugs
         /\ cli'[o].pc = pc /\ cli'[o].slug = s /\ cli'[o].ids = ids /\ cli'[o].mail = e
         /\ \A p \in Operators \ {o} : cli'[p] = cli[p]
<1> DEFINE new == [pc |-> pc, slug |-> s, ids |-> ids, mail |-> e]
<1>1. new \in CliType /\ new.slug = s /\ new.pc = pc /\ new.ids = ids /\ new.mail = e
  BY DEF CliType
<1>2. cli' = [cli EXCEPT ![o] = new]
  BY DEF Goto
<1> HIDE DEF new
<1>3. QED
  BY <1>1, <1>2 DEF CliTyped

LEMMA DoneTyped ==
  ASSUME CliTyped, NEW o \in Operators, Done(o)
  PROVE  /\ cli' \in [Operators -> CliType]
         /\ \A p \in Operators : cli'[p].pc # "idle" => cli'[p].slug \in Slugs
         /\ cli'[o] = Off
         /\ \A p \in Operators \ {o} : cli'[p] = cli[p]
  BY OffTyped DEF CliTyped, Done

LEMMA RowsTyped ==
  ASSUME TablesType
  PROVE  /\ \A s : /\ RowsOf(s) \subseteq rows /\ Live(s) \subseteq RowsOf(s)
                   /\ IdsOf(RowsOf(s)) \subseteq Ids /\ IdsOf(Live(s)) \subseteq Ids
         /\ IdsOf(rows) \subseteq Ids
         /\ \A id : Registered(id) => id \in Ids
  BY DEF TablesType, RowType, RowsOf, Live, IdsOf, Registered

LEMMA MintTyped ==
  ASSUME TablesType, NEW found \in SUBSET Ids, Mint(found)
  PROVE  /\ minted' \in 0..MaxId /\ Chosen(found) \subseteq Ids
         /\ minted <= minted'
  BY BoundsAssumption DEF TablesType, Mint, Chosen, Ids

LEMMA NewRowTyped ==
  ASSUME NEW s \in Slugs, NEW id \in Ids, NEW b \in BOOLEAN
  PROVE  /\ NewRow(s, id, b) \in RowType
         /\ NewRow(s, id, b).id = id /\ NewRow(s, id, b).slug = s
         /\ NewRow(s, id, b).seeded = b /\ NewRow(s, id, b).dead = FALSE
         /\ Things(id, b) \subseteq Ids \X {"role", "schema", "river", "stages", "jobs"}
  BY DEF NewRow, RowType, Things

LEMMA ProvisionedTyped ==
  ASSUME TablesType, NEW s \in Slugs, NEW id \in Ids, NEW b \in BOOLEAN,
         Provisioned(s, id, b)
  PROVE  /\ rows' \subseteq RowType
         /\ objects' \subseteq Ids \X {"role", "schema", "river", "stages", "jobs"}
         /\ audit' \subseteq {"provisioned", "tombstoned"} \X Ids
<1>1. <<"provisioned", id>> \in {"provisioned", "tombstoned"} \X Ids
  OBVIOUS
<1>2. /\ rows' \subseteq rows \cup {NewRow(s, id, b)}
      /\ objects' \subseteq objects \cup Things(id, b)
      /\ audit' \subseteq audit \cup {<<"provisioned", id>>}
  BY Zenon DEF Provisioned
<1>3. rows \subseteq RowType /\ audit \subseteq {"provisioned", "tombstoned"} \X Ids
      /\ objects \subseteq Ids \X {"role", "schema", "river", "stages", "jobs"}
  BY DEF TablesType
<1>4. audit' \subseteq {"provisioned", "tombstoned"} \X Ids
  BY <1>1, <1>2, <1>3
<1>5. /\ NewRow(s, id, b) \in RowType
      /\ Things(id, b) \subseteq Ids \X {"role", "schema", "river", "stages", "jobs"}
  BY NewRowTyped
<1>6. QED
  BY <1>2, <1>3, <1>4, <1>5

LEMMA BeginTyped ==
  ASSUME TypeOK, NEW o, Begin(o) \/ UNCHANGED commands
  PROVE  commands' \in 0..MaxCommands
  BY BoundsAssumption DEF TypeOK, CliTyped, Begin

LEMMA WithoutTyped ==
  ASSUME TablesType, NEW ids
  PROVE  /\ Without(objects, ids) \subseteq objects /\ Without(grants, ids) \subseteq grants
         /\ Without(excused, ids) \subseteq excused /\ AuditWithout(ids) \subseteq audit
  BY DEF Without, AuditWithout

LEMMA MembersTyped ==
  ASSUME TablesType, NEW ids
  PROVE  /\ DropMembers(ids) =>
              /\ members' \in [Ids \X Users -> RolesOrNone]
              /\ \A i \in Ids : \A u \in Users :
                   members'[<<i, u>>] = IF i \in ids THEN "none" ELSE members[<<i, u>>]
         /\ DropTokens(ids) => tokens' \subseteq tokens /\ tokens' \subseteq TokenType
  BY RolesAre DEF TablesType, DropMembers, DropTokens

LEMMA ChosenSlug ==
  ASSUME NEW s \in Slugs PROVE AnySlug \in Slugs
  BY DEF AnySlug

LEMMA CreateTyped ==
  ASSUME TypeOK, NEW o \in Operators, NEW s \in Slugs, NEW e \in Addresses,
         CreateFresh(o, s, e) \/ CreateUpsert(o, s, e) \/ CreateForceRecreate(o, s, e)
         \/ MigrateProvision(o, s)
  PROVE  TablesType' /\ CliTyped' /\ GhostsTyped'
<1> USE DEF TypeOK
<1> DEFINE none == {}
<1>1. commands' \in 0..MaxCommands /\ Begin(o)
  BY BeginTyped DEF CreateFresh, CreateUpsert, CreateForceRecreate, MigrateProvision
<1>2. /\ none \subseteq Ids /\ IdsOf(Live(s)) \subseteq Ids /\ IdsOf(RowsOf(s)) \subseteq Ids
      /\ NoEmail \in Addresses
  BY RowsTyped DEF Addresses
<1>3. /\ minted' \in 0..MaxId
      /\ \E pc \in CliPcs, ids \in SUBSET Ids, f \in Addresses : Goto(o, pc, s, ids, f)
  <2> USE DEF CliPcs
  <2>1. CASE CreateFresh(o, s, e)
    <3>1. Mint(none) /\ Goto(o, "provision", s, Chosen(none), e)
      BY <2>1 DEF CreateFresh
    <3>2. QED BY <3>1, <1>2, MintTyped
  <2>2. CASE CreateUpsert(o, s, e)
    BY <2>2, <1>2, MintTyped DEF CreateUpsert
  <2>3. CASE CreateForceRecreate(o, s, e)
    BY <2>3, <1>2 DEF CreateForceRecreate, tables, TablesType
  <2>4. CASE MigrateProvision(o, s)
    BY <2>4, <1>2, MintTyped DEF MigrateProvision
  <2>5. QED
    BY <2>1, <2>2, <2>3, <2>4
<1>4. CliTyped'
  BY <1>1, <1>3, GotoTyped DEF CliTyped
<1>5. UNCHANGED <<rows, objects, audit, grants, members, email, tokens, ghosts>>
  BY DEF CreateFresh, CreateUpsert, CreateForceRecreate, MigrateProvision, tables
<1>6. QED
  BY <1>3, <1>4, <1>5 DEF TablesType, GhostsTyped, ghosts

(* Commands that look something up and go on, or stop, without a write.    *)
LEMMA LookupTyped ==
  ASSUME TypeOK, NEW o \in Operators, NEW s \in Slugs, NEW e \in Addresses,
         \/ Tombstone(o, s) \/ RiverSetup(o, RowsOf(s)) \/ RiverSetup(o, rows)
         \/ IntegratorGrant(o, s, e) \/ IntegratorRevoke(o, s, e)
  PROVE  TablesType' /\ CliTyped' /\ GhostsTyped'
<1> USE DEF TypeOK
<1> DEFINE none == {}
<1>1. commands' \in 0..MaxCommands
  BY BeginTyped DEF Tombstone, RiverSetup, IntegratorGrant, IntegratorRevoke
<1>2. /\ none \subseteq Ids /\ IdsOf(Live(s)) \subseteq Ids /\ IdsOf(RowsOf(s)) \subseteq Ids
      /\ IdsOf(rows) \subseteq Ids /\ NoEmail \in Addresses /\ e \in Addresses
      /\ AnySlug \in Slugs
  BY RowsTyped, ChosenSlug DEF Addresses
<1>3. \E pc \in CliPcs, t \in Slugs, ids \in SUBSET Ids, f \in Addresses :
         Goto(o, pc, t, ids, f)
  <2> USE DEF CliPcs
  <2>1. CASE Tombstone(o, s)
    BY <2>1, <1>2 DEF Tombstone
  <2>2. CASE RiverSetup(o, RowsOf(s)) \/ RiverSetup(o, rows)
    BY <2>2, <1>2 DEF RiverSetup, AnySlug
  <2>3. CASE IntegratorGrant(o, s, e) \/ IntegratorRevoke(o, s, e)
    BY <2>3, <1>2 DEF IntegratorGrant, IntegratorRevoke
  <2>4. QED
    BY <2>1, <2>2, <2>3
<1>4. CliTyped'
  BY <1>1, <1>3, GotoTyped DEF CliTyped
<1>5. UNCHANGED <<tables, ghosts>>
  BY DEF Tombstone, RiverSetup, IntegratorGrant, IntegratorRevoke
<1>6. QED
  BY <1>4, <1>5 DEF TablesType, GhostsTyped, ghosts, tables

LEMMA CallWrapperTyped ==
  ASSUME TypeOK, NEW o \in Operators, CallWrapper(o) \/ Bootstrap(o)
  PROVE  TablesType' /\ CliTyped' /\ GhostsTyped'
<1> USE DEF TypeOK
<1>1. /\ cli[o].pc # "idle" /\ cli[o].slug \in Slugs /\ cli[o].ids \in SUBSET Ids
      /\ cli[o].mail \in Addresses /\ NoEmail \in Addresses
  BY DEF CliTyped, CliType, CallWrapper, Bootstrap, At, Addresses
<1>2. \E id \in cli[o].ids, b \in BOOLEAN : Provisioned(cli[o].slug, id, b)
  BY DEF CallWrapper, Bootstrap
<1>3. /\ rows' \subseteq RowType
      /\ objects' \subseteq Ids \X {"role", "schema", "river", "stages", "jobs"}
      /\ audit' \subseteq {"provisioned", "tombstoned"} \X Ids
  BY <1>1, <1>2, ProvisionedTyped
<1>4. Done(o) \/ \E pc \in CliPcs, f \in Addresses : Goto(o, pc, cli[o].slug, cli[o].ids, f)
  BY <1>1 DEF CallWrapper, Bootstrap, CliPcs
<1>5. UNCHANGED <<commands, minted, grants, members, email, tokens, ghosts>>
  BY DEF CallWrapper, Bootstrap, At
<1>6. CliTyped'
  BY <1>1, <1>4, <1>5, GotoTyped, DoneTyped DEF CliTyped
<1>7. QED
  BY <1>3, <1>5, <1>6 DEF TablesType, GhostsTyped, ghosts

(* Commands that end here, and leave the rows as they are.                 *)
LEMMA EndTyped ==
  ASSUME TypeOK, NEW o \in Operators,
         \/ Refused(o) \/ RecreateRefused(o) \/ InsertIntegratorGrant(o)
         \/ AuditTombstone(o) \/ RevokeTx(o) \/ Crash(o)
  PROVE  TablesType' /\ CliTyped' /\ GhostsTyped'
<1> USE DEF TypeOK
<1>1. cli[o] \in CliType /\ (cli[o].pc # "idle" => cli[o].slug \in Slugs)
  BY DEF CliTyped
<1>2. /\ cli[o].ids \in SUBSET Ids /\ cli[o].mail \in Addresses
  BY <1>1 DEF CliType
<1>3. CliTyped'
  <2>1. Done(o) /\ UNCHANGED commands
    BY DEF Refused, RecreateRefused, InsertIntegratorGrant, AuditTombstone, RevokeTx,
           Crash, At
  <2>2. QED
    BY <2>1, DoneTyped DEF CliTyped
<1>4. CASE Refused(o) \/ RecreateRefused(o)
  BY <1>3, <1>4 DEF Refused, RecreateRefused, TablesType, GhostsTyped, tables, ghosts
<1>5. CASE InsertIntegratorGrant(o)
  <2>1. grants' \subseteq Ids \X Addresses
    BY <1>2, <1>5 DEF InsertIntegratorGrant, Grantable, TablesType
  <2>2. QED
    BY <1>3, <1>5, <2>1 DEF InsertIntegratorGrant, TablesType, GhostsTyped, ghosts
<1>6. CASE AuditTombstone(o)
  <2>1. \A id \in Tombstoned(cli[o].slug) :
           <<"tombstoned", id>> \in {"provisioned", "tombstoned"} \X Ids
    BY RowsTyped DEF Tombstoned
  <2>2. audit' \subseteq {"provisioned", "tombstoned"} \X Ids
    BY <1>6, <2>1, Zenon DEF AuditTombstone, TablesType
  <2>3. QED
    BY <1>3, <1>6, <2>2 DEF AuditTombstone, TablesType, GhostsTyped, ghosts
<1>7. CASE RevokeTx(o)
  <2>1. /\ grants' \subseteq grants /\ excused' \subseteq excused /\ upset' \subseteq Ids
    BY <1>2, <1>7 DEF RevokeTx, GhostsTyped
  <2>2. members' \in [Ids \X Users -> RolesOrNone]
    BY <1>7, RolesAre DEF RevokeTx, TablesType
  <2>3. QED
    BY <1>3, <1>7, <2>1, <2>2 DEF RevokeTx, TablesType, GhostsTyped, ghosts
<1>8. CASE Crash(o)
  BY <1>1, <1>3, <1>8 DEF Crash, TablesType, GhostsTyped, tables, ghosts
<1>9. QED
  BY <1>4, <1>5, <1>6, <1>7, <1>8

LEMMA ForceRecreateTyped ==
  ASSUME TypeOK, NEW o \in Operators, ForceRecreate(o)
  PROVE  TablesType' /\ CliTyped' /\ GhostsTyped'
<1> USE DEF TypeOK
<1> DEFINE s == cli[o].slug  id == minted + 1  old == cli[o].ids
<1>1. s \in Slugs /\ cli[o].mail \in Addresses
  BY DEF CliTyped, CliType, ForceRecreate, At
<1>2. id \in Ids /\ minted' \in 0..MaxId
  BY BoundsAssumption DEF ForceRecreate, TablesType, Ids
<1>3. CliTyped' /\ GhostsTyped'
  BY DoneTyped, WithoutTyped DEF ForceRecreate, At, CliTyped, GhostsTyped
<1>4. /\ rows' \subseteq rows \cup {NewRow(s, id, TRUE)}
      /\ objects' \subseteq objects \cup Things(id, TRUE)
  BY WithoutTyped DEF ForceRecreate
<1>5. audit' \subseteq audit \cup {<<"provisioned", id>>}
  BY WithoutTyped DEF ForceRecreate
<1>6. grants' \subseteq grants \cup {<<id, cli[o].mail>>}
  BY WithoutTyped DEF ForceRecreate
<1>7. /\ members' \in [Ids \X Users -> RolesOrNone] /\ tokens' \subseteq TokenType
      /\ email' = email
  BY MembersTyped DEF ForceRecreate
<1>8. NewRow(s, id, TRUE) \in RowType
      /\ Things(id, TRUE) \subseteq Ids \X {"role", "schema", "river", "stages", "jobs"}
  BY <1>1, <1>2, NewRowTyped
<1>9. audit' \subseteq {"provisioned", "tombstoned"} \X Ids
  BY <1>2, <1>5 DEF TablesType
<1>10. grants' \subseteq Ids \X Addresses
  BY <1>1, <1>2, <1>6 DEF TablesType
<1> HIDE DEF s, id, old
<1>11. QED
  BY <1>2, <1>3, <1>4, <1>7, <1>8, <1>9, <1>10 DEF TablesType

Marked(r) == [r EXCEPT !.dead = TRUE]
LEMMA MarkedRow ==
  ASSUME NEW r \in RowType
  PROVE  /\ Marked(r) \in RowType /\ Marked(r).id = r.id /\ Marked(r).slug = r.slug
         /\ Marked(r).seeded = r.seeded /\ Marked(r).dead = TRUE
  BY DEF Marked, RowType

(* The update of tenant tombstone, or nothing to update.                   *)
LEMMA MarkedRows ==
  ASSUME TablesType, NEW o \in Operators, MarkTombstoned(o)
  PROVE  \/ Done(o) /\ rows' = rows
         \/ /\ Live(cli[o].slug) # {}
            /\ rows' = {IF r.slug = cli[o].slug THEN Marked(r) ELSE r : r \in rows}
            /\ Goto(o, "audit", cli[o].slug, {}, NoEmail)
  BY DEF MarkTombstoned, Marked

LEMMA MarkTyped ==
  ASSUME TypeOK, NEW o \in Operators,
         MarkTombstoned(o) \/ SetupWorkspace(o) \/ RecreateLookup(o)
  PROVE  TablesType' /\ CliTyped' /\ GhostsTyped'
<1> USE DEF TypeOK
<1>1. /\ cli[o].pc # "idle" /\ cli[o].slug \in Slugs /\ cli[o].ids \in SUBSET Ids
      /\ NoEmail \in Addresses /\ cli[o].mail \in Addresses
  BY DEF CliTyped, CliType, MarkTombstoned, SetupWorkspace, RecreateLookup, At, Addresses
<1> DEFINE none == {}
<1>2. CASE MarkTombstoned(o)
  <2>1. rows' \subseteq RowType
    <3>1. \A r \in rows : r \in RowType
      BY DEF TablesType
    <3>2. CASE rows' = {IF r.slug = cli[o].slug THEN Marked(r) ELSE r : r \in rows}
      BY <3>1, <3>2, MarkedRow
    <3>3. QED
      BY <1>2, <3>1, <3>2, MarkedRows
  <2>2. Done(o) \/ Goto(o, "audit", cli[o].slug, none, NoEmail)
    BY <1>2 DEF MarkTombstoned
  <2>3. CliTyped'
    BY <1>1, <1>2, <2>2, GotoTyped, DoneTyped DEF CliTyped, MarkTombstoned, At, CliPcs
  <2>4. QED
    BY <1>2, <2>1, <2>3 DEF MarkTombstoned, TablesType, GhostsTyped, ghosts
<1>3. CASE SetupWorkspace(o)
  <2>1. objects' \subseteq Ids \X {"role", "schema", "river", "stages", "jobs"}
    BY <1>1, <1>3 DEF SetupWorkspace, TablesType
  <2>2. Done(o) \/ \E id \in Ids :
                     Goto(o, "river", cli[o].slug, cli[o].ids \ {id}, NoEmail)
    BY <1>1, <1>3 DEF SetupWorkspace
  <2>3. CliTyped'
    BY <1>1, <1>3, <2>2, GotoTyped, DoneTyped DEF CliTyped, SetupWorkspace, At, CliPcs
  <2>4. QED
    BY <1>3, <2>1, <2>3 DEF SetupWorkspace, TablesType, GhostsTyped, ghosts
<1>4. CASE RecreateLookup(o)
  <2>1. Dropped(cli[o].slug) \in SUBSET Ids
    BY RowsTyped DEF Dropped
  <2>2. CliTyped'
    BY <1>1, <1>4, <2>1, GotoTyped DEF CliTyped, RecreateLookup, At, CliPcs
  <2>3. QED
    BY <1>4, <2>2 DEF RecreateLookup, TablesType, GhostsTyped, tables, ghosts
<1>5. QED
  BY <1>1, <1>2, <1>3, <1>4

(* One operator's step, as TenantsNext has it.                             *)
OperatorStep(o) ==
  \/ \E s \in Slugs, e \in Addresses :
       CreateFresh(o, s, e) \/ CreateUpsert(o, s, e) \/ CreateForceRecreate(o, s, e)
  \/ CallWrapper(o) \/ Refused(o) \/ InsertIntegratorGrant(o)
  \/ RecreateLookup(o) \/ ForceRecreate(o) \/ RecreateRefused(o)
  \/ \E s \in Slugs : Tombstone(o, s) \/ MigrateProvision(o, s) \/ RiverSetup(o, RowsOf(s))
  \/ RiverSetup(o, rows)
  \/ MarkTombstoned(o) \/ AuditTombstone(o)
  \/ \E s \in Slugs, e \in Emails : IntegratorGrant(o, s, e) \/ IntegratorRevoke(o, s, e)
  \/ RevokeTx(o) \/ Bootstrap(o) \/ SetupWorkspace(o) \/ Crash(o)

LEMMA OperatorSteps == TenantsNext <=> \E o \in Operators : OperatorStep(o)
  BY Zenon DEF TenantsNext, OperatorStep, Addresses

LEMMA TenantsTyped ==
  ASSUME TypeOK, TenantsNext PROVE TablesType' /\ CliTyped' /\ GhostsTyped'
<1>1. PICK o \in Operators : OperatorStep(o)
  BY OperatorSteps
<1>2. CASE \E s \in Slugs, e \in Addresses :
             CreateFresh(o, s, e) \/ CreateUpsert(o, s, e) \/ CreateForceRecreate(o, s, e)
  BY <1>2, CreateTyped, Zenon
<1>3. CASE CallWrapper(o) \/ Bootstrap(o)
  BY <1>3, CallWrapperTyped, Zenon
<1>4. CASE \/ Refused(o) \/ RecreateRefused(o) \/ InsertIntegratorGrant(o)
           \/ AuditTombstone(o) \/ RevokeTx(o) \/ Crash(o)
  BY <1>4, EndTyped, Zenon
<1>5. CASE ForceRecreate(o)
  BY <1>5, ForceRecreateTyped, Zenon
<1>6. CASE MarkTombstoned(o) \/ SetupWorkspace(o) \/ RecreateLookup(o)
  BY <1>6, MarkTyped, Zenon
<1>7. CASE \E s \in Slugs : MigrateProvision(o, s)
  <2>1. NoEmail \in Addresses BY DEF Addresses
  <2>2. QED BY <1>7, <2>1, CreateTyped, Zenon
<1>8. CASE \/ \E s \in Slugs : Tombstone(o, s) \/ RiverSetup(o, RowsOf(s))
           \/ RiverSetup(o, rows)
           \/ \E s \in Slugs, e \in Emails :
                IntegratorGrant(o, s, e) \/ IntegratorRevoke(o, s, e)
  <2>1. NoEmail \in Addresses /\ \A e \in Emails : e \in Addresses
    BY DEF Addresses
  <2>2. RiverSetup(o, rows) => \E s \in Slugs : TRUE
    BY DEF RiverSetup, TypeOK, TablesType, RowType
  <2>3. QED
    BY <1>8, <2>1, <2>2, LookupTyped, Zenon
<1>9. QED
  BY <1>1, <1>2, <1>3, <1>4, <1>5, <1>6, <1>7, <1>8, Zenon DEF OperatorStep

LEMMA TurnTyped ==
  ASSUME WebTyped, NEW c \in Callers, NEW pc \in {"away", "in"}, NEW s \in Slugs,
         NEW id \in Ids \cup {0}, NEW r \in RolesOrNone, Turn(c, pc, s, id, r),
         pc = "in" => id \in Ids
  PROVE  /\ web' \in [Callers -> WebType]
         /\ \A d \in Callers : web'[d].pc # "idle" => web'[d].slug \in Slugs
         /\ \A d \in Callers : web'[d].pc \in {"known", "joining", "in"} => web'[d].ws \in Ids
         /\ web'[c].pc = pc /\ \A d \in Callers \ {c} : web'[d] = web[d]
<1> DEFINE new == [pc |-> pc, slug |-> s, ws |-> id, role |-> r, mail |-> NoEmail]
<1>1. new \in WebType /\ new.slug = s /\ new.pc = pc /\ new.ws = id
  BY DEF WebType, Addresses
<1>2. web' = [web EXCEPT ![c] = new]
  BY DEF Turn
<1> HIDE DEF new
<1>3. QED
  BY <1>1, <1>2 DEF WebTyped

LEMMA OverTyped ==
  ASSUME WebTyped, NEW c \in Callers, Over(c)
  PROVE  /\ web' \in [Callers -> WebType]
         /\ \A d \in Callers : web'[d].pc # "idle" => web'[d].slug \in Slugs
         /\ \A d \in Callers : web'[d].pc \in {"known", "joining", "in"} => web'[d].ws \in Ids
         /\ web'[c].pc = "idle" /\ \A d \in Callers \ {c} : web'[d] = web[d]
  BY AwayTyped DEF WebTyped, Over

(* The two updates of one caller's record in a sign-in.                    *)
Identified(w, id, e) == [w EXCEPT !.pc = "known", !.ws = id, !.mail = e]
Elevated(w, r) == [w EXCEPT !.pc = "joining", !.role = r]
LEMMA UpdatesTyped ==
  ASSUME NEW w \in WebType, NEW id \in Ids, NEW e \in Addresses, NEW r \in RolesOrNone
  PROVE  /\ Identified(w, id, e) \in WebType /\ Identified(w, id, e).pc = "known"
         /\ Identified(w, id, e).slug = w.slug /\ Identified(w, id, e).ws = id
         /\ Identified(w, id, e).mail = e
         /\ Elevated(w, r) \in WebType /\ Elevated(w, r).pc = "joining"
         /\ Elevated(w, r).slug = w.slug /\ Elevated(w, r).ws = w.ws
         /\ Elevated(w, r).role = r
  BY DEF WebType, Identified, Elevated

LEMMA StartTyped ==
  ASSUME WebTyped, NEW c, Start(c) \/ UNCHANGED requests
  PROVE  requests' \in 0..MaxRequests
  BY RequestsAssumption DEF WebTyped, Start

LEMMA IdentifiedCaller ==
  ASSUME TypeOK, NEW p \in Persons, NEW e \in Addresses, CallbackIdentify(p, e)
  PROVE  /\ web[p] \in WebType /\ web[p].pc = "away" /\ web[p].slug \in Slugs
         /\ \E id \in Ids : Registered(id) /\ web' = [web EXCEPT ![p] = Identified(web[p], id, e)]
<1>1. web[p] \in WebType /\ web[p].pc = "away" /\ web[p].slug \in Slugs
  BY UsersAre DEF TypeOK, WebTyped, CallbackIdentify, Step
<1>2. PICK id \in IdsOf(RowsOf(web[p].slug)) :
        web' = [web EXCEPT ![p].pc = "known", ![p].ws = id, ![p].mail = e]
  BY DEF CallbackIdentify, WorkspaceBySlug
<1>3. id \in Ids /\ Registered(id)
  BY RowsTyped DEF TypeOK, IdsOf, RowsOf, Registered
<1>4. web' = [web EXCEPT ![p] = Identified(web[p], id, e)]
  BY <1>1, <1>2, UsersAre DEF Identified, TypeOK, WebTyped
<1>5. QED
  BY <1>1, <1>3, <1>4

LEMMA ElevatedCaller ==
  ASSUME TypeOK, NEW p \in Persons, NEW fails \in BOOLEAN, CallbackElevate(p, fails)
  PROVE  /\ web[p] \in WebType /\ web[p].pc = "known" /\ web[p].slug \in Slugs
         /\ web[p].ws \in Ids
         /\ \E r \in {"integrator", "member"} : web' = [web EXCEPT ![p] = Elevated(web[p], r)]
  BY UsersAre DEF TypeOK, WebTyped, CallbackElevate, Step, Elevated

(* Steps that touch no table of the registry: only cookies and callers.    *)
Browsing ==
  \/ \E p \in Persons, s \in Slugs : Login(p, s)
  \/ \E p \in Persons, fails \in BOOLEAN : CallbackElevate(p, fails)
  \/ \E c \in Callers : Abandon(c)
  \/ \E p \in Persons, c \in cookies : Logout(p, c) \/ SessionRequest(p, c)
  \/ \E n \in TokenNames, s \in Slugs : TokenRequest(n, s)

LEMMA BrowsingTouchesNothing == ASSUME Browsing PROVE UNCHANGED tenantVars
  BY DEF Browsing, Login, CallbackElevate, Abandon, Logout, SessionRequest, TokenRequest,
         NoTenancy

LEMMA BrowsingTyped ==
  ASSUME TypeOK, Browsing PROVE WebTyped'
<1> USE UsersAre DEF TypeOK
<1>1. \A c \in cookies : c.slug \in Slugs /\ c.user \in Persons
  BY DEF WebTyped, CookieType
<1>2. ASSUME NEW p \in Persons, NEW s \in Slugs, Login(p, s) PROVE WebTyped'
  <2>1. Turn(p, "away", s, 0, "none") /\ UNCHANGED cookies /\ requests' \in 0..MaxRequests
    BY <1>2, StartTyped DEF Login
  <2>2. QED
    BY <2>1, TurnTyped, RolesAre DEF WebTyped
<1>3. ASSUME NEW p \in Persons, NEW fails \in BOOLEAN, CallbackElevate(p, fails)
      PROVE  WebTyped'
  <2>1. UNCHANGED <<cookies, requests>>
    BY <1>3 DEF CallbackElevate, Step
  <2>2. PICK r \in RolesOrNone : web' = [web EXCEPT ![p] = Elevated(web[p], r)]
    BY <1>3, ElevatedCaller, RolesAre
  <2> DEFINE new == Elevated(web[p], r)
  <2>3. new \in WebType /\ new.slug \in Slugs /\ new.ws \in Ids
    BY <1>3, ElevatedCaller, UpdatesTyped, BoundsAssumption DEF Addresses
  <2>4. web' = [web EXCEPT ![p] = new]
    BY <2>2
  <2> HIDE DEF new
  <2>5. QED
    BY <2>1, <2>3, <2>4 DEF WebTyped
<1>4. ASSUME NEW c \in Callers, Abandon(c) PROVE WebTyped'
  BY <1>4, OverTyped DEF Abandon, WebTyped
<1>5. ASSUME NEW p \in Persons, NEW c \in cookies, Logout(p, c) PROVE WebTyped'
  BY <1>5, StartTyped DEF Logout, WebTyped
<1>6. ASSUME NEW p \in Persons, NEW c \in cookies, SessionRequest(p, c) PROVE WebTyped'
  <2>1. UNCHANGED cookies /\ requests' \in 0..MaxRequests
    BY <1>6, StartTyped DEF SessionRequest
  <2>2. \E id \in Ids, r \in RolesOrNone : Turn(p, "in", c.slug, id, r)
    <3>1. PICK id \in IdsOf(RowsOf(c.slug)) : Turn(p, "in", c.slug, id, ResolvedSession(c, id))
      BY <1>6 DEF SessionRequest, WorkspaceBySlugFull
    <3>2. id \in Ids
      BY RowsTyped
    <3>3. ResolvedSession(c, id) \in RolesOrNone
      BY <1>1, <3>2, RolesAre DEF ResolvedSession, LookupRole, TablesType
    <3>4. QED
      BY <3>1, <3>2, <3>3
  <2>3. QED
    BY <1>1, <2>1, <2>2, TurnTyped DEF WebTyped
<1>7. ASSUME NEW n \in TokenNames, NEW s \in Slugs, TokenRequest(n, s) PROVE WebTyped'
  <2>1. UNCHANGED cookies /\ requests' \in 0..MaxRequests /\ n \in Callers
    BY <1>7, StartTyped DEF TokenRequest, Callers
  <2>2. \E id \in Ids, r \in RolesOrNone : Turn(n, "in", s, id, r)
    BY <1>7, RowsTyped, RolesAre DEF TokenRequest, WorkspaceBySlugFull, roleFromScopes
  <2>3. QED
    BY <2>1, <2>2, TurnTyped DEF WebTyped
<1>8. QED
  BY <1>2, <1>3, <1>4, <1>5, <1>6, <1>7 DEF Browsing

LEMMA IdentifyTyped ==
  ASSUME TypeOK, NEW p \in Persons, NEW e \in Addresses, CallbackIdentify(p, e)
  PROVE  TypeOK'
<1> USE UsersAre
<1>1. PICK id \in Ids : web' = [web EXCEPT ![p] = Identified(web[p], id, e)]
  BY IdentifiedCaller
<1> DEFINE new == Identified(web[p], id, e)
<1>2. new \in WebType /\ new.slug \in Slugs /\ new.ws \in Ids
  BY IdentifiedCaller, UpdatesTyped, RolesAre
<1>3. web' = [web EXCEPT ![p] = new]
  BY <1>1
<1> HIDE DEF new
<1>4. UNCHANGED <<cookies, requests, commands, cli>>
  BY DEF CallbackIdentify, Step
<1>5. WebTyped' /\ CliTyped'
  BY <1>2, <1>3, <1>4 DEF TypeOK, WebTyped, CliTyped
<1>6. email' \in [Users -> Addresses] /\ excused' \subseteq Ids \X Users
  BY DEF CallbackIdentify, UpsertUser, TypeOK, TablesType, GhostsTyped
<1>7. UNCHANGED <<rows, minted, objects, audit, grants, members, tokens, unaudited, upset>>
  BY DEF CallbackIdentify
<1>8. QED
  BY <1>5, <1>6, <1>7 DEF TypeOK, TablesType, GhostsTyped

LEMMA Ensured ==
  ASSUME NEW old \in RolesOrNone, NEW new \in RolesOrNone
  PROVE  /\ EnsuredRole(old, new) \in {old, new}
         /\ Ranks[EnsuredRole(old, new)] >= Ranks[old]
  BY RolesAre DEF EnsuredRole, roleRankCase

(* What a sign-in's last step writes.                                      *)
LEMMA Joined ==
  ASSUME TypeOK, NEW p \in Persons, CallbackJoin(p)
  PROVE  /\ web[p].ws \in Ids /\ web[p].slug \in Slugs /\ web[p].role \in RolesOrNone
         /\ \/ ~Registered(web[p].ws) /\ UNCHANGED <<members, excused, cookies>>
            \/ /\ Registered(web[p].ws)
               /\ members' = [members EXCEPT ![<<web[p].ws, p>>] =
                                EnsuredRole(members[<<web[p].ws, p>>], web[p].role)]
               /\ cookies' \subseteq cookies \cup
                    {[user |-> p, slug |-> web[p].slug, ws |-> web[p].ws]}
               /\ excused' = IF web[p].role = "integrator"
                                  /\ ~IntegratorGrantExists(web[p].ws, email[p])
                             THEN excused \cup {<<web[p].ws, p>>} ELSE excused
<1>1. web[p].ws \in Ids /\ web[p].slug \in Slugs /\ web[p].role \in RolesOrNone
  BY UsersAre DEF TypeOK, WebTyped, WebType, CallbackJoin, Step
<1>2. <<web[p].ws, p>> \in Ids \X Users
  BY <1>1, UsersAre
<1>3. QED
  BY <1>1, <1>2 DEF CallbackJoin, TypeOK, TablesType

LEMMA JoinTyped ==
  ASSUME TypeOK, NEW p \in Persons, CallbackJoin(p) PROVE TypeOK'
<1> USE UsersAre
<1>1. CliTyped' /\ Over(p) /\ UNCHANGED requests
  BY DEF CallbackJoin, Step, TypeOK, CliTyped
<1>2. members' \in [Ids \X Users -> RolesOrNone]
  <2>1. EnsuredRole(members[<<web[p].ws, p>>], web[p].role) \in RolesOrNone
    BY Joined, Ensured DEF TypeOK, TablesType
  <2>2. QED
    BY <2>1, Joined DEF TypeOK, TablesType
<1>3. excused' \subseteq Ids \X Users /\ cookies' \subseteq CookieType
  <2>1. <<web[p].ws, p>> \in Ids \X Users
        /\ [user |-> p, slug |-> web[p].slug, ws |-> web[p].ws] \in CookieType
    BY Joined DEF CookieType
  <2>2. /\ excused' \subseteq excused \cup {<<web[p].ws, p>>}
        /\ cookies' \subseteq cookies \cup
             {[user |-> p, slug |-> web[p].slug, ws |-> web[p].ws]}
    BY Joined
  <2>3. excused \subseteq Ids \X Users /\ cookies \subseteq CookieType
    BY DEF TypeOK, GhostsTyped, WebTyped
  <2>4. QED
    BY <2>1, <2>2, <2>3
<1>4. WebTyped'
  BY <1>1, <1>3, OverTyped DEF TypeOK, WebTyped
<1>5. UNCHANGED <<rows, minted, objects, audit, grants, email, tokens, unaudited, upset>>
  BY DEF CallbackJoin
<1>6. QED
  BY <1>1, <1>2, <1>3, <1>4, <1>5 DEF TypeOK, TablesType, GhostsTyped

(* An invitation's rows: the user, the membership, and the books.          *)
InviteWrites(c, e, r, u) ==
  /\ email[u] = e \/ (u = InvitedAt(e) /\ \A v \in Users : email[v] # e)
  /\ email' = [email EXCEPT ![u] = e]
  /\ members' = [members EXCEPT ![<<web[c].ws, u>>] = r]
  /\ Excuse(<<web[c].ws, u>>, r)
  /\ Upset(web[c].ws, Stale(c, web[c].ws) \/ (u = c /\ ~AtLeast(r, "owner")))

LEMMA Inviting ==
  ASSUME TypeOK, NEW c \in Callers, NEW e \in Emails, NEW r \in Roles, invite(c, e, r)
  PROVE  /\ web[c].pc = "in" /\ web[c].ws \in Ids /\ Over(c)
         /\ UNCHANGED requests /\ Untouched
         /\ \/ UNCHANGED <<members, email, excused, upset>>
            \/ /\ Registered(web[c].ws)
               /\ \E u \in Users : InviteWrites(c, e, r, u)
<1>1. web[c].pc = "in" /\ web[c].ws \in Ids
  BY DEF TypeOK, WebTyped, invite, RequireRole, Step
<1>2. \A u \in Invitees(e) :
         u \in Users /\ (email[u] = e \/ (u = InvitedAt(e) /\ \A v \in Users : email[v] # e))
  BY UsersAre DEF Invitees, InvitedAt
<1>3. QED
  BY <1>1, <1>2 DEF invite, RequireRole, Step, InviteWrites

(* A role written by the owners: a change, or "none" for a removal.        *)
LEMMA Rewriting ==
  ASSUME TypeOK, NEW c \in Persons, NEW u \in Users, NEW r \in RolesOrNone,
         (r \in Roles /\ updateRole(c, u, r)) \/ (r = "none" /\ removeMember(c, u))
  PROVE  /\ web[c].pc = "in" /\ web[c].ws \in Ids /\ Over(c) /\ c # u
         /\ UNCHANGED <<requests, email>> /\ Untouched
         /\ \/ UNCHANGED <<members, excused, upset>>
            \/ /\ members[<<web[c].ws, u>>] # "none"
               /\ members' = [members EXCEPT ![<<web[c].ws, u>>] = r]
               /\ Excuse(<<web[c].ws, u>>, r)
               /\ Upset(web[c].ws, Stale(c, web[c].ws))
<1>1. web[c].pc = "in" /\ web[c].ws \in Ids
  BY UsersAre DEF TypeOK, WebTyped, updateRole, removeMember, RequireRole, Step
<1>2. QED
  BY <1>1 DEF updateRole, removeMember, RequireRole, Step, Other, LookupRole

LEMMA MembersWriteTyped ==
  ASSUME TypeOK,
         \/ \E c \in Callers, e \in Emails, r \in Roles : invite(c, e, r)
         \/ \E c \in Persons, u \in Users, r \in Roles : updateRole(c, u, r)
         \/ \E c \in Persons, u \in Users : removeMember(c, u)
  PROVE  TypeOK'
<1> USE UsersAre, RolesAre
<1> SUFFICES ASSUME NEW c \in Callers, Over(c), UNCHANGED requests, Untouched,
                    members' \in [Ids \X Users -> RolesOrNone],
                    email' \in [Users -> Addresses],
                    excused' \subseteq Ids \X Users, upset' \subseteq Ids
             PROVE  TypeOK'
  <2> DEFINE Ok(c) ==
        /\ Over(c) /\ UNCHANGED requests /\ Untouched
        /\ members' \in [Ids \X Users -> RolesOrNone] /\ email' \in [Users -> Addresses]
        /\ excused' \subseteq Ids \X Users /\ upset' \subseteq Ids
  <2>1. /\ members \in [Ids \X Users -> RolesOrNone] /\ email \in [Users -> Addresses]
        /\ excused \subseteq Ids \X Users /\ upset \subseteq Ids /\ GhostsTyped
    BY DEF TypeOK, TablesType, GhostsTyped
  <2>2. ASSUME NEW c \in Callers, NEW e \in Emails, NEW r \in Roles, invite(c, e, r)
        PROVE  Ok(c)
    <3>1. CASE UNCHANGED <<members, email, excused, upset>>
      BY <2>1, <2>2, <3>1, Inviting
    <3>2. CASE ~UNCHANGED <<members, email, excused, upset>>
      <4>1. PICK u \in Users : InviteWrites(c, e, r, u)
        BY <2>2, <3>2, Inviting
      <4>2. web[c].ws \in Ids
        BY <2>2, Inviting
      <4>3. excused' \subseteq Ids \X Users /\ upset' \subseteq Ids
        BY <2>1, <4>1, <4>2 DEF InviteWrites, Excuse, Upset
      <4>4. email' \in [Users -> Addresses] /\ members' \in [Ids \X Users -> RolesOrNone]
        BY <2>1, <4>1, <4>2 DEF InviteWrites, Addresses
      <4>5. QED
        BY <2>2, <4>3, <4>4, Inviting
    <3>3. QED
      BY <3>1, <3>2
  <2>3. ASSUME NEW c \in Persons, NEW u \in Users, NEW r \in RolesOrNone,
               (r \in Roles /\ updateRole(c, u, r)) \/ (r = "none" /\ removeMember(c, u))
        PROVE  Ok(c)
    <3>1. CASE UNCHANGED <<members, excused, upset>>
      BY <2>1, <2>3, <3>1, Rewriting
    <3>2. CASE ~UNCHANGED <<members, excused, upset>>
      <4>1. /\ members' = [members EXCEPT ![<<web[c].ws, u>>] = r]
            /\ Excuse(<<web[c].ws, u>>, r) /\ Upset(web[c].ws, Stale(c, web[c].ws))
            /\ web[c].ws \in Ids
        BY <2>3, <3>2, Rewriting
      <4>2. excused' \subseteq Ids \X Users /\ upset' \subseteq Ids
        BY <2>1, <4>1 DEF Excuse, Upset
      <4>3. members' \in [Ids \X Users -> RolesOrNone]
        BY <2>1, <4>1
      <4>4. QED
        BY <2>1, <2>3, <4>2, <4>3, Rewriting
    <3>3. QED
      BY <3>1, <3>2
  <2>4. \E c \in Callers : Ok(c)
    <3> HIDE DEF Ok
    <3>1. Roles \subseteq RolesOrNone /\ "none" \in RolesOrNone
      OBVIOUS
    <3>2. QED
      BY <2>2, <2>3, <3>1
  <2>5. QED
    BY <2>4
<1>1. WebTyped'
  BY OverTyped DEF TypeOK, WebTyped, Untouched
<1>2. QED
  BY <1>1 DEF TypeOK, TablesType, CliTyped, GhostsTyped, Untouched

TokenStep ==
  \/ \E n \in TokenNames, s \in Slugs, scope \in {"all", "read"} : CreateToken(n, s, scope)
  \/ \E n \in TokenNames, s \in Slugs, t \in tokens : DeleteToken(n, s, t)
  \/ \E t \in tokens : ExpireToken(t)

(* A token is issued to a registered workspace, and stays with it.         *)
LEMMA TokensTyped ==
  ASSUME TypeOK, TokenStep
  PROVE  /\ tokens' \subseteq TokenType
         /\ \A t \in tokens' : Registered(t.ws) \/ \E q \in tokens : q.ws = t.ws
         /\ requests' \in 0..MaxRequests
         /\ UNCHANGED <<rows, minted, objects, audit, grants, members, email, cli, commands,
                        ghosts, web, cookies>>
<1>1. ASSUME NEW n \in TokenNames, NEW s \in Slugs, NEW scope \in {"all", "read"},
             CreateToken(n, s, scope)
      PROVE  /\ tokens' \subseteq TokenType
             /\ \A t \in tokens' : Registered(t.ws) \/ \E q \in tokens : q.ws = t.ws
  <2>1. PICK id \in IdsOf(RowsOf(s)) :
          tokens' = tokens \cup {[name |-> n, slug |-> s, ws |-> id, scope |-> scope,
                                  live |-> TRUE]}
    BY <1>1 DEF CreateToken, WorkspaceBySlugFull
  <2>2. id \in Ids /\ Registered(id)
    BY RowsTyped DEF TypeOK, IdsOf, RowsOf, Registered
  <2> DEFINE new == [name |-> n, slug |-> s, ws |-> id, scope |-> scope, live |-> TRUE]
  <2>3. new \in TokenType /\ new.ws = id /\ tokens' = tokens \cup {new}
    BY <2>1, <2>2 DEF TokenType
  <2> HIDE DEF new
  <2>4. QED
    BY <2>2, <2>3 DEF TypeOK, TablesType
<1>2. ASSUME NEW n \in TokenNames, NEW s \in Slugs, NEW t \in tokens, DeleteToken(n, s, t)
      PROVE  /\ tokens' \subseteq TokenType
             /\ \A q \in tokens' : Registered(q.ws) \/ \E r \in tokens : r.ws = q.ws
  BY <1>2 DEF DeleteToken, TypeOK, TablesType
<1>3. ASSUME NEW t \in tokens, ExpireToken(t)
      PROVE  /\ tokens' \subseteq TokenType
             /\ \A q \in tokens' : Registered(q.ws) \/ \E r \in tokens : r.ws = q.ws
  <2> DEFINE new == [t EXCEPT !.live = FALSE]
  <2>1. new \in TokenType /\ new.ws = t.ws
    BY DEF TypeOK, TablesType, TokenType
  <2>2. tokens' = (tokens \ {t}) \cup {new}
    BY <1>3 DEF ExpireToken
  <2> HIDE DEF new
  <2>3. QED
    BY <2>1, <2>2 DEF TypeOK, TablesType
<1>4. requests' \in 0..MaxRequests
  BY StartTyped DEF TypeOK, WebTyped, TokenStep, CreateToken, DeleteToken, ExpireToken,
     accessVars
<1>5. UNCHANGED <<rows, minted, objects, audit, grants, members, email, cli, commands,
                  ghosts, web, cookies>>
  BY DEF TokenStep, CreateToken, DeleteToken, ExpireToken, accessVars
<1>6. QED
  BY <1>1, <1>2, <1>3, <1>4, <1>5 DEF TokenStep

(* The steps of the web side, by what they write.                          *)
LEMMA WebSteps ==
  WebNext =>
    \/ Browsing \/ TokenStep
    \/ \E p \in Persons, e \in Addresses : CallbackIdentify(p, e)
    \/ \E p \in Persons : CallbackJoin(p)
    \/ \E c \in Callers, e \in Emails, r \in Roles : invite(c, e, r)
    \/ \E c \in Persons, u \in Users, r \in Roles : updateRole(c, u, r)
    \/ \E c \in Persons, u \in Users : removeMember(c, u)
  BY Zenon DEF WebNext, Browsing, TokenStep, Addresses

LEMMA NextTypeOK == TypeOK /\ [Next]_vars => TypeOK'
<1> SUFFICES ASSUME TypeOK, [Next]_vars PROVE TypeOK'
  OBVIOUS
<1>1. CASE UNCHANGED vars
  BY <1>1 DEF vars, tenantVars, accessVars, tables, ghosts, TypeOK, TablesType, CliTyped,
              WebTyped, GhostsTyped
<1>2. CASE TenantsNext /\ UNCHANGED accessVars
  BY <1>2, TenantsTyped DEF accessVars, TypeOK, WebTyped
<1>3. CASE Browsing
  <2>1. WebTyped' /\ UNCHANGED tenantVars
    BY <1>3, BrowsingTyped, BrowsingTouchesNothing
  <2>2. QED
    BY <2>1 DEF tenantVars, tables, ghosts, TypeOK, TablesType, CliTyped, GhostsTyped
<1>4. CASE TokenStep
  BY <1>4, TokensTyped DEF TypeOK, TablesType, CliTyped, GhostsTyped, WebTyped, ghosts
<1>5. QED
  BY <1>1, <1>2, <1>3, <1>4, WebSteps, IdentifyTyped, JoinTyped, MembersWriteTyped
     DEF Next

(* A workspace in use, as the first of the initial states have it.         *)
LEMMA InUseTyped ==
  ASSUME NEW s \in Slugs, NEW R \in [Persons -> RolesOrNone], 1 \in Ids, InUse(s, R)
  PROVE  TablesType /\ CliTyped /\ GhostsTyped /\ cookies \subseteq CookieType
<1> USE RolesAre, UsersAre, BoundsAssumption
<1>1. \A u \in Users : email[u] \in Addresses
  BY ClaimsAssumption DEF InUse, Addresses
<1>2. email \in [Users -> Addresses]
  BY <1>1 DEF InUse
<1>3. members \in [Ids \X Users -> RolesOrNone]
  BY DEF InUse
<1>4. rows \subseteq RowType
      /\ objects \subseteq Ids \X {"role", "schema", "river", "stages", "jobs"}
  <2>1. /\ NewRow(s, 1, TRUE) \in RowType
        /\ Things(1, TRUE) \subseteq Ids \X {"role", "schema", "river", "stages", "jobs"}
    BY NewRowTyped
  <2>2. rows = {NewRow(s, 1, TRUE)} /\ objects = Things(1, TRUE)
    BY DEF InUse
  <2>3. QED
    BY <2>1, <2>2
<1>5. audit \subseteq {"provisioned", "tombstoned"} \X Ids /\ minted \in 0..MaxId
  BY DEF InUse, Ids
<1>6. grants \subseteq Ids \X Addresses
  <2>1. \A p \in Persons : <<1, email[p]>> \in Ids \X Addresses
    BY <1>1
  <2>2. grants = {<<1, email[p]>> : p \in {q \in Persons : R[q] = "integrator"}}
    BY DEF InUse
  <2>3. QED
    BY <2>1, <2>2
<1>7. CliTyped
  BY OffTyped DEF InUse, CliTyped
<1>8. cookies \subseteq CookieType
  BY DEF InUse, CookieType
<1>9. QED
  BY <1>2, <1>3, <1>4, <1>5, <1>6, <1>7, <1>8 DEF InUse, TablesType, GhostsTyped

LEMMA InitTypeOK == AccessInit => TypeOK
<1> SUFFICES ASSUME AccessInit PROVE TypeOK
  OBVIOUS
<1>1. TablesType /\ CliTyped /\ GhostsTyped /\ cookies \subseteq CookieType
  <2>1. CASE TenantsInit /\ cookies = {}
    BY <2>1, OffTyped, RolesAre, BoundsAssumption
       DEF TenantsInit, TablesType, CliTyped, GhostsTyped, Addresses
  <2>2. CASE \E s \in Slugs \ Reserved, R \in [Persons -> Roles \cup {"none"}] :
               1 \in Ids /\ InUse(s, R)
    BY <2>2, InUseTyped DEF RolesOrNone
  <2>3. QED
    BY <2>1, <2>2 DEF AccessInit
<1>2. web \in [Callers -> WebType] /\ requests \in 0..MaxRequests
      /\ \A c \in Callers : web[c].pc = "idle"
  BY AwayTyped DEF AccessInit
<1>3. QED
  BY <1>1, <1>2 DEF TypeOK, WebTyped

(* THEOREM type correctness: every table, command, caller, cookie and book *)
(* of the specification keeps its type.                                    *)
THEOREM TypeCorrect == Spec => []TypeOK
<1>1. QED
  BY InitTypeOK, NextTypeOK, PTL DEF Spec

-----------------------------------------------------------------------------
(* What a step does to the registry                                        *)

(* No row changes; rows in the audit log, and jobs of a role, may be added. *)
RowsKept ==
  /\ rows' = rows /\ minted <= minted' /\ audit \subseteq audit'
  /\ objects \subseteq objects'
  /\ \A x \in objects' : x \in objects \/ (x[2] = "jobs" /\ Registered(x[1]))
(* A slug without a row gets one, with what belongs to it.                 *)
RowAdded(s, id, seeded) ==
  /\ id <= minted /\ minted' = minted /\ ~Registered(id) /\ RowsOf(s) = {}
  /\ rows' = rows \cup {NewRow(s, id, seeded)}
  /\ objects' = objects \cup Things(id, seeded)
  /\ audit' = audit \cup {<<"provisioned", id>>}
(* A slug's workspace, if it has one, makes way for a new one.             *)
RowReplaced(s, id, old) ==
  /\ id = minted + 1 /\ minted' = id
  /\ \A r \in rows : r.id \in old <=> r.slug = s
  /\ \A i \in old : i <= minted
  /\ rows' = (rows \ RowsOf(s)) \cup {NewRow(s, id, TRUE)}
  /\ objects' = Without(objects, old) \cup Things(id, TRUE)
  /\ audit' = AuditWithout(old) \cup {<<"provisioned", id>>}
(* A slug's living workspace is tombstoned.                                *)
RowMarked(s) ==
  /\ RowsOf(s) # {} /\ \A r \in RowsOf(s) : ~r.dead
  /\ rows' = {IF r.slug = s THEN Marked(r) ELSE r : r \in rows}
  /\ UNCHANGED <<minted, objects, audit>>

LEMMA AddedStep ==
  ASSUME TypeOK, RegistryInv, NEW o \in Operators, CallWrapper(o) \/ Bootstrap(o)
  PROVE  RowsKept \/ \E s \in Slugs, id \in Ids, b \in BOOLEAN : RowAdded(s, id, b)
<1>1. /\ cli[o].slug \in Slugs /\ cli[o].ids \subseteq Ids
      /\ \A id \in cli[o].ids : id <= minted
  BY DEF TypeOK, CliTyped, CliType, CallWrapper, Bootstrap, At, RegistryInv, IdsAreMinted
<1>2. PICK id \in cli[o].ids, b \in BOOLEAN : Provisioned(cli[o].slug, id, b)
  BY DEF CallWrapper, Bootstrap
<1>3. minted' = minted /\ minted \in Int
  <2>1. minted' = minted
    BY DEF CallWrapper, Bootstrap
  <2>2. QED
    BY <2>1 DEF TypeOK, TablesType
<1>4. CASE Registered(id)
  <2>1. UNCHANGED <<rows, objects, audit>>
    BY <1>2, <1>4 DEF Provisioned
  <2>2. QED
    BY <1>3, <2>1 DEF RowsKept
<1>5. CASE ~Registered(id)
  <2>1. RowsOf(cli[o].slug) = {}
    BY <1>2, <1>5 DEF Provisioned, Taken, Registered, IdsOf, RowsOf
  <2>2. RowAdded(cli[o].slug, id, b)
    BY <1>1, <1>2, <1>3, <1>5, <2>1 DEF Provisioned, RowAdded
  <2>3. QED
    BY <1>1, <2>2
<1>6. QED
  BY <1>4, <1>5

RowReplacedBy(o) ==
  /\ cli[o].pc = "drop" /\ cli[o].slug \in Slugs /\ minted + 1 \in Ids
  /\ RowReplaced(cli[o].slug, minted + 1, cli[o].ids)
LEMMA ReplacedStep ==
  ASSUME TypeOK, RegistryInv, NEW o \in Operators, ForceRecreate(o)
  PROVE  RowReplacedBy(o)
<1> DEFINE s == cli[o].slug  old == cli[o].ids
<1>1. s \in Slugs /\ cli[o].pc = "drop"
  BY DEF TypeOK, CliTyped, ForceRecreate, At
<1>2. minted + 1 \in Ids /\ minted' = minted + 1
  BY BoundsAssumption DEF ForceRecreate, TypeOK, TablesType, Ids
<1>3. \A r \in RowsOf(s) : r.id \in old
  BY DEF ForceRecreate
<1>4. \A r \in rows : r.id \in old => r.slug = s
  BY <1>1 DEF RegistryInv, ClaimsAgree, Claiming
<1>5. \A r \in rows : r.id \in old <=> r.slug = s
  BY <1>3, <1>4 DEF RowsOf
<1>6. \A i \in old : i <= minted
  BY DEF RegistryInv, IdsAreMinted
<1>7. {r \in rows : r.id \notin old} = rows \ RowsOf(s)
  BY <1>5 DEF RowsOf
<1>8. /\ rows' = {r \in rows : r.id \notin old} \cup {NewRow(s, minted + 1, TRUE)}
      /\ objects' = Without(objects, old) \cup Things(minted + 1, TRUE)
      /\ audit' = AuditWithout(old) \cup {<<"provisioned", minted + 1>>}
  BY DEF ForceRecreate
<1>9. QED
  BY <1>1, <1>2, <1>5, <1>6, <1>7, <1>8 DEF RowReplaced, RowReplacedBy

LEMMA MarkedStep ==
  ASSUME TypeOK, RegistryInv, NEW o \in Operators, MarkTombstoned(o)
  PROVE  /\ cli[o].pc = "tombstone" /\ cli[o].slug \in Slugs
         /\ \/ RowsKept /\ Done(o)
            \/ RowMarked(cli[o].slug) /\ Goto(o, "audit", cli[o].slug, {}, NoEmail)
<1>1. /\ cli[o].pc = "tombstone" /\ cli[o].slug \in Slugs
      /\ UNCHANGED <<minted, objects, audit>> /\ minted \in Int /\ TablesType
  BY DEF TypeOK, TablesType, CliTyped, MarkTombstoned, At
<1>2. CASE Done(o) /\ rows' = rows
  BY <1>1, <1>2 DEF RowsKept
<1>3. CASE /\ Live(cli[o].slug) # {}
           /\ rows' = {IF r.slug = cli[o].slug THEN Marked(r) ELSE r : r \in rows}
           /\ Goto(o, "audit", cli[o].slug, {}, NoEmail)
  <2>1. RowsOf(cli[o].slug) # {} /\ \A r \in RowsOf(cli[o].slug) : ~r.dead
    BY <1>3 DEF RegistryInv, RowsApart, Live, RowsOf
  <2>2. QED
    BY <1>1, <1>3, <2>1 DEF RowMarked
<1>4. QED
  BY <1>1, <1>2, <1>3, MarkedRows

LEMMA OtherSteps ==
  ASSUME TypeOK, NEW o \in Operators, NEW s \in Slugs, NEW e \in Addresses,
         \/ CreateFresh(o, s, e) \/ CreateUpsert(o, s, e) \/ CreateForceRecreate(o, s, e)
         \/ Refused(o) \/ InsertIntegratorGrant(o) \/ RecreateRefused(o)
         \/ RecreateLookup(o) \/ Tombstone(o, s) \/ MigrateProvision(o, s)
         \/ RiverSetup(o, RowsOf(s)) \/ RiverSetup(o, rows) \/ AuditTombstone(o)
         \/ IntegratorGrant(o, s, e) \/ IntegratorRevoke(o, s, e)
         \/ RevokeTx(o) \/ Crash(o)
  PROVE  RowsKept
<1>1. minted \in Int /\ minted <= minted'
  <2>1. minted \in Int
    BY DEF TypeOK, TablesType
  <2>2. minted' = minted \/ minted' = minted + 1
    BY DEF CreateFresh, CreateUpsert, CreateForceRecreate, Refused, InsertIntegratorGrant,
           RecreateRefused, Tombstone, MigrateProvision, RiverSetup, AuditTombstone,
           IntegratorGrant, IntegratorRevoke, RevokeTx, Crash, Mint, RecreateLookup, tables
  <2>3. QED
    BY <2>1, <2>2
<1>2. rows' = rows /\ objects' = objects /\ audit \subseteq audit'
  <2>1. CASE AuditTombstone(o)
    BY <2>1 DEF AuditTombstone
  <2>2. CASE ~AuditTombstone(o)
    BY <2>2 DEF CreateFresh, CreateUpsert, CreateForceRecreate, Refused,
           InsertIntegratorGrant, RecreateRefused, Tombstone, MigrateProvision, RiverSetup,
           IntegratorGrant, IntegratorRevoke, RevokeTx, Crash, RecreateLookup, tables
  <2>3. QED
    BY <2>1, <2>2
<1>3. QED
  BY <1>1, <1>2 DEF RowsKept

LEMMA SetupStep ==
  ASSUME TypeOK, RegistryInv, NEW o \in Operators, SetupWorkspace(o)
  PROVE  RowsKept
<1>1. UNCHANGED <<rows, minted, audit>>
  BY DEF SetupWorkspace
<1>2. \/ objects' = objects
      \/ \E id : <<id, "role">> \in objects /\ objects' = objects \cup {<<id, "jobs">>}
  BY DEF SetupWorkspace
<1>3. \A id : <<id, "role">> \in objects => Registered(id)
  BY DEF RegistryInv, ObjectsHaveRows
<1>4. minted \in Int
  BY DEF TypeOK, TablesType
<1>5. CASE objects' = objects
  BY <1>1, <1>4, <1>5 DEF RowsKept
<1>6. ASSUME NEW id, <<id, "role">> \in objects, objects' = objects \cup {<<id, "jobs">>}
      PROVE  RowsKept
  <2>1. Registered(id) /\ <<id, "jobs">>[1] = id /\ <<id, "jobs">>[2] = "jobs"
    BY <1>3, <1>6
  <2>2. \A x \in objects' : x \in objects \/ (x[2] = "jobs" /\ Registered(x[1]))
    BY <1>6, <2>1
  <2>3. QED
    BY <1>1, <1>4, <1>6, <2>2 DEF RowsKept
<1>7. QED
  BY <1>2, <1>5, <1>6

(* Every step of an operator does one of four things to the rows.          *)
RowMarkedBy(o) ==
  /\ cli[o].pc = "tombstone" /\ cli[o].slug \in Slugs
  /\ RowMarked(cli[o].slug) /\ Goto(o, "audit", cli[o].slug, {}, NoEmail)
LEMMA RegistryStepsBy ==
  ASSUME TypeOK, RegistryInv, NEW o \in Operators, OperatorStep(o)
  PROVE  \/ RowsKept
         \/ CallWrapper(o) \/ Bootstrap(o)
         \/ RowReplacedBy(o)
         \/ RowMarkedBy(o)
<1>2. CASE ForceRecreate(o)
  BY <1>2, ReplacedStep
<1>3. CASE MarkTombstoned(o)
  BY <1>3, MarkedStep DEF RowMarkedBy
<1>4. CASE CallWrapper(o) \/ Bootstrap(o)
  BY <1>4
<1>5. CASE SetupWorkspace(o)
  BY <1>5, SetupStep
<1>6. NoEmail \in Addresses /\ \A e \in Emails : e \in Addresses
  BY DEF Addresses
<1>7. CASE \E s \in Slugs, e \in Addresses :
             CreateFresh(o, s, e) \/ CreateUpsert(o, s, e) \/ CreateForceRecreate(o, s, e)
  BY <1>7, OtherSteps, Zenon
<1>8. CASE \/ \E s \in Slugs : \/ Tombstone(o, s) \/ MigrateProvision(o, s)
                               \/ RiverSetup(o, RowsOf(s))
           \/ \E s \in Slugs, e \in Emails : IntegratorGrant(o, s, e) \/ IntegratorRevoke(o, s, e)
  BY <1>6, <1>8, OtherSteps, Zenon
<1>9. CASE \/ Refused(o) \/ InsertIntegratorGrant(o) \/ RecreateRefused(o)
           \/ RecreateLookup(o) \/ RiverSetup(o, rows) \/ AuditTombstone(o) \/ RevokeTx(o) \/ Crash(o)
  <2>1. \E s \in Slugs : TRUE
    <3>1. cli[o].pc # "idle" => \E s \in Slugs : TRUE
      BY DEF TypeOK, CliTyped
    <3>2. RiverSetup(o, rows) => \E s \in Slugs : TRUE
      BY DEF RiverSetup, TypeOK, TablesType, RowType
    <3>3. RiverSetup(o, rows) \/ cli[o].pc # "idle"
      BY <1>9 DEF Refused, InsertIntegratorGrant, RecreateRefused, RecreateLookup,
                  AuditTombstone, RevokeTx, Crash, At
    <3>4. QED
      BY <3>1, <3>2, <3>3
  <2>2. QED
    BY <1>6, <1>9, <2>1, OtherSteps, Zenon
<1>10. QED
  BY <1>2, <1>3, <1>4, <1>5, <1>7, <1>8, <1>9, Zenon DEF OperatorStep

LEMMA RegistrySteps ==
  ASSUME TypeOK, RegistryInv, NEW o \in Operators, OperatorStep(o)
  PROVE  \/ RowsKept
         \/ \E s \in Slugs, id \in Ids, b \in BOOLEAN : RowAdded(s, id, b)
         \/ RowReplacedBy(o)
         \/ RowMarkedBy(o)
  BY RegistryStepsBy, AddedStep

LEMMA WebLeavesTheRegistry ==
  ASSUME TypeOK, WebNext
  PROVE  UNCHANGED <<rows, minted, objects, audit, grants, cli, unaudited>>
<1>1. CASE Browsing
  BY <1>1, BrowsingTouchesNothing DEF tenantVars, tables, ghosts
<1>2. CASE TokenStep
  BY <1>2, TokensTyped DEF ghosts
<1>3. CASE ~Browsing /\ ~TokenStep
  BY <1>3, WebSteps DEF CallbackIdentify, CallbackJoin, invite, updateRole, removeMember,
                        Untouched
<1>4. QED
  BY <1>1, <1>2, <1>3

-----------------------------------------------------------------------------
(* The registry's invariant                                                *)

RowsInv ==
  /\ RowsApart /\ RowsAreProvisioned /\ ObjectsHaveRows
  /\ \A r \in rows : r.id <= minted

LEMMA ThingsAre ==
  ASSUME NEW id, NEW b \in BOOLEAN
  PROVE  /\ \A t \in {"role", "schema", "river"} : <<id, t>> \in Things(id, b)
         /\ <<id, "stages">> \in Things(id, b) <=> b
         /\ \A x \in Things(id, b) : x[1] = id
<1>1. \A t : <<id, t>> \in Things(id, b)
               <=> t \in {"role", "schema", "river"} \cup IF b THEN {"stages"} ELSE {}
  BY DEF Things
<1>2. QED
  BY <1>1 DEF Things

LEMMA KeptRows ==
  ASSUME TypeOK, RowsInv, RowsKept, minted' \in Int PROVE RowsInv'
<1>1. RowsApart' /\ \A r \in rows' : r.id <= minted'
  <2>1. minted \in Int /\ \A r \in rows : r.id \in Int
    BY DEF TypeOK, TablesType, RowType, Ids
  <2>2. \A r \in rows : r.id <= minted'
    BY <2>1 DEF RowsInv, RowsKept
  <2>3. QED
    BY <2>2 DEF RowsInv, RowsKept, RowsApart
<1>2. ObjectsHaveRows'
  BY DEF RowsInv, RowsKept, ObjectsHaveRows, Registered, IdsOf
<1>3. RowsAreProvisioned'
  <2>1. \A id : <<id, "stages">> \in objects' <=> <<id, "stages">> \in objects
    BY DEF RowsKept
  <2>2. QED
    BY <2>1 DEF RowsInv, RowsKept, RowsAreProvisioned
<1>4. QED
  BY <1>1, <1>2, <1>3 DEF RowsInv

LEMMA AddedRow ==
  ASSUME TypeOK, RowsInv, NEW s \in Slugs, NEW id \in Ids, NEW b \in BOOLEAN,
         RowAdded(s, id, b)
  PROVE  RowsInv'
<1> DEFINE new == NewRow(s, id, b)
<1>1. new.id = id /\ new.slug = s /\ new.seeded = b
  BY NewRowTyped
<1>2. \A r \in rows : r.id # id /\ r.slug # s
  BY DEF RowAdded, Registered, IdsOf, RowsOf
<1>3. \A x \in objects : x[1] # id
  BY DEF RowAdded, RowsInv, ObjectsHaveRows
<1>4. rows' = rows \cup {new}
  BY DEF RowAdded
<1> HIDE DEF new
<1>5. RowsApart' /\ \A r \in rows' : r.id <= minted'
  BY <1>1, <1>2, <1>4 DEF RowsInv, RowsApart, RowAdded
<1>6. ObjectsHaveRows'
  <2>1. \A i : Registered(i)' <=> Registered(i) \/ i = id
    BY <1>1, <1>4 DEF Registered, IdsOf
  <2>2. \A x \in objects' : x \in objects \/ x[1] = id
    BY ThingsAre DEF RowAdded
  <2>3. QED
    BY <2>1, <2>2 DEF RowsInv, ObjectsHaveRows
<1>7. RowsAreProvisioned'
  <2>1. objects' = objects \cup Things(id, b) /\ audit' = audit \cup {<<"provisioned", id>>}
    BY DEF RowAdded
  <2>2. ASSUME NEW r \in rows
        PROVE  /\ \A t \in {"role", "schema", "river"} : <<r.id, t>> \in objects'
               /\ <<r.id, "stages">> \in objects' <=> r.seeded
               /\ <<"provisioned", r.id>> \in audit'
    <3>1. r.id # id
      BY <1>2
    <3>2. <<r.id, "stages">> \notin Things(id, b)
      BY <3>1, ThingsAre
    <3>3. QED
      BY <2>1, <3>2 DEF RowsInv, RowsAreProvisioned
  <2>3. <<id, "stages">> \notin objects
    BY <1>3
  <2>4. /\ \A t \in {"role", "schema", "river"} : <<id, t>> \in objects'
        /\ <<id, "stages">> \in objects' <=> b
        /\ <<"provisioned", id>> \in audit'
    BY <2>1, <2>3, ThingsAre
  <2>5. QED
    BY <1>1, <1>4, <2>2, <2>4 DEF RowsAreProvisioned
<1>8. QED
  BY <1>5, <1>6, <1>7 DEF RowsInv

LEMMA ReplacedRow ==
  ASSUME TypeOK, RowsInv, NEW s \in Slugs, NEW id \in Ids, NEW old,
         RowReplaced(s, id, old)
  PROVE  RowsInv'
<1> DEFINE new == NewRow(s, id, TRUE)  rest == rows \ RowsOf(s)
<1>1. new.id = id /\ new.slug = s /\ new.seeded = TRUE
  BY NewRowTyped
<1>2. \A r \in rows : r.id \in Int /\ r.id < id /\ r.id # id
  BY DEF RowReplaced, RowsInv, TypeOK, TablesType, RowType, Ids
<1>3. \A x \in objects : x[1] # id
  BY <1>2 DEF RowsInv, ObjectsHaveRows, Registered, IdsOf
<1>4. rows' = rest \cup {new}
  BY DEF RowReplaced
<1>5. /\ \A r \in rest : r \in rows /\ r.slug # s /\ r.id \notin old
      /\ \A r \in rows : r.id \in old \/ r \in rest
  BY DEF RowsOf, RowReplaced
<1>6. /\ \A x : x \in objects' <=> (x \in objects /\ x[1] \notin old) \/ x \in Things(id, TRUE)
      /\ \A a \in audit : a[2] \notin old => a \in audit'
      /\ <<"provisioned", id>> \in audit'
  BY DEF RowReplaced, Without, AuditWithout
<1> HIDE DEF new, rest
<1>7. RowsApart'
  BY <1>1, <1>2, <1>4, <1>5 DEF RowsInv, RowsApart
<1>8. \A r \in rows' : r.id <= minted'
  <2>1. minted' = id /\ id \in Int
    BY DEF RowReplaced, Ids
  <2>2. \A r \in rest : r.id <= id
    BY <1>2, <1>5, <2>1
  <2>3. QED
    BY <1>1, <1>4, <2>1, <2>2
<1>9. ObjectsHaveRows'
  <2>1. \A i : Registered(i) /\ i \notin old => Registered(i)'
    BY <1>4, <1>5 DEF Registered, IdsOf
  <2>2. Registered(id)'
    BY <1>1, <1>4 DEF Registered, IdsOf
  <2>3. QED
    BY <1>6, <2>1, <2>2, ThingsAre DEF RowsInv, ObjectsHaveRows
<1>10. RowsAreProvisioned'
  <2>1. ASSUME NEW r \in rest
        PROVE  /\ \A t \in {"role", "schema", "river"} : <<r.id, t>> \in objects'
               /\ <<r.id, "stages">> \in objects' <=> r.seeded
               /\ <<"provisioned", r.id>> \in audit'
    <3>1. r \in rows /\ r.id \notin old /\ r.id # id
      BY <1>2, <1>5
    <3>2. <<r.id, "stages">> \notin Things(id, TRUE)
      BY <3>1, ThingsAre
    <3>3. /\ \A t \in {"role", "schema", "river"} : <<r.id, t>> \in objects
          /\ <<r.id, "stages">> \in objects <=> r.seeded
          /\ <<"provisioned", r.id>> \in audit
      BY <3>1 DEF RowsInv, RowsAreProvisioned
    <3>4. QED
      BY <1>6, <3>1, <3>2, <3>3
  <2>2. /\ \A t \in {"role", "schema", "river"} : <<id, t>> \in objects'
        /\ <<id, "stages">> \in objects'
    BY <1>6, ThingsAre
  <2>3. QED
    BY <1>1, <1>4, <1>6, <2>1, <2>2 DEF RowsAreProvisioned
<1>11. QED
  BY <1>7, <1>8, <1>9, <1>10 DEF RowsInv

LEMMA MarkedRowsAre ==
  ASSUME TypeOK, NEW s \in Slugs, RowMarked(s)
  PROVE  /\ \A q \in rows' : \E r \in rows :
              /\ q.id = r.id /\ q.slug = r.slug /\ q.seeded = r.seeded
              /\ q = IF r.slug = s THEN Marked(r) ELSE r
         /\ \A i : Registered(i)' <=> Registered(i)
<1>1. /\ rows' = {IF r.slug = s THEN Marked(r) ELSE r : r \in rows}
      /\ \A r \in rows : r \in RowType
  BY DEF RowMarked, TypeOK, TablesType
<1>2. \A r \in rows : /\ Marked(r).id = r.id /\ Marked(r).slug = r.slug
                      /\ Marked(r).seeded = r.seeded /\ Marked(r).dead = TRUE
  BY <1>1, MarkedRow
<1>3. QED
  BY <1>1, <1>2 DEF Registered, IdsOf

LEMMA MarkedRowsKeep ==
  ASSUME TypeOK, RowsInv, NEW s \in Slugs, RowMarked(s)
  PROVE  RowsInv'
<1>1. UNCHANGED <<minted, objects, audit>>
  BY DEF RowMarked
<1>2. RowsApart'
  BY MarkedRowsAre DEF RowsInv, RowsApart
<1>3. RowsAreProvisioned' /\ \A r \in rows' : r.id <= minted'
  BY <1>1, MarkedRowsAre DEF RowsInv, RowsAreProvisioned
<1>4. ObjectsHaveRows'
  BY <1>1, MarkedRowsAre DEF RowsInv, ObjectsHaveRows
<1>5. QED
  BY <1>2, <1>3, <1>4 DEF RowsInv

(* The UUIDs in the commands' hands.                                       *)
CliMinted == \A o \in Operators : \A id \in cli[o].ids : id <= minted

LEMMA GotoMinted ==
  ASSUME TypeOK, CliMinted, minted \in Int, minted' \in Int, minted <= minted',
         NEW o \in Operators, NEW pc \in CliPcs, NEW s \in Slugs, NEW ids \in SUBSET Ids,
         NEW e \in Addresses, Goto(o, pc, s, ids, e), \A id \in ids : id <= minted'
  PROVE  CliMinted'
<1>1. \A p \in Operators : \A id \in cli[p].ids : id \in Int /\ id <= minted
  BY DEF CliMinted, TypeOK, CliTyped, CliType, Ids
<1>2. \A p \in Operators : \A id \in cli[p].ids : id <= minted'
  BY <1>1
<1>3. cli'[o].ids = ids /\ \A p \in Operators \ {o} : cli'[p] = cli[p]
  BY GotoTyped DEF TypeOK
<1>4. QED
  BY <1>2, <1>3 DEF CliMinted

LEMMA DoneMinted ==
  ASSUME TypeOK, CliMinted, minted \in Int, minted' \in Int, minted <= minted',
         NEW o \in Operators, Done(o)
  PROVE  CliMinted'
<1>1. \A p \in Operators : \A id \in cli[p].ids : id \in Int /\ id <= minted
  BY DEF CliMinted, TypeOK, CliTyped, CliType, Ids
<1>2. \A p \in Operators : \A id \in cli[p].ids : id <= minted'
  BY <1>1
<1>3. cli'[o].ids = {} /\ \A p \in Operators \ {o} : cli'[p] = cli[p]
  BY DoneTyped, OffTyped DEF TypeOK
<1>4. QED
  BY <1>2, <1>3 DEF CliMinted

LEMMA LookedUp ==
  ASSUME TypeOK, RowsInv
  PROVE  /\ minted \in Int
         /\ \A s : \A id \in IdsOf(RowsOf(s)) : id <= minted
         /\ \A s : \A id \in IdsOf(Live(s)) : id <= minted
         /\ \A id \in IdsOf(rows) : id <= minted
  BY DEF TypeOK, TablesType, RowsInv, IdsOf, RowsOf, Live

LEMMA MintedIds ==
  ASSUME minted \in Int, NEW found, Mint(found), \A id \in found : id <= minted
  PROVE  /\ minted' \in Int /\ minted <= minted'
         /\ \A id \in Chosen(found) : id <= minted'
  BY DEF Mint, Chosen

(* Every command but the one that steps stays where it is.                 *)
LEMMA OneCommand ==
  ASSUME TypeOK, NEW o \in Operators, OperatorStep(o)
  PROVE  /\ \A p \in Operators \ {o} : cli'[p] = cli[p]
         /\ unaudited \subseteq unaudited'
         /\ cli[o].pc = "audit" => AuditTombstone(o) \/ Crash(o)
<1>1. ASSUME NEW s \in Slugs, NEW e \in Addresses,
             \/ CreateFresh(o, s, e) \/ CreateUpsert(o, s, e) \/ CreateForceRecreate(o, s, e)
             \/ Tombstone(o, s) \/ MigrateProvision(o, s) \/ RiverSetup(o, RowsOf(s))
             \/ IntegratorGrant(o, s, e) \/ IntegratorRevoke(o, s, e)
      PROVE  /\ \E x : cli' = [cli EXCEPT ![o] = x]
             /\ unaudited' = unaudited /\ cli[o].pc = "idle"
  BY <1>1 DEF CreateFresh, CreateUpsert, CreateForceRecreate, Tombstone, MigrateProvision,
              RiverSetup, IntegratorGrant, IntegratorRevoke, Goto, Done, Begin, ghosts
<1>2. CASE RiverSetup(o, rows)
  <2>1. /\ \E x : cli' = [cli EXCEPT ![o] = x]
        /\ unaudited' = unaudited /\ cli[o].pc = "idle"
    BY <1>2 DEF RiverSetup, Goto, Begin, ghosts
  <2>2. QED
    BY <2>1 DEF TypeOK, CliTyped
<1>3. CASE \/ CallWrapper(o) \/ Refused(o) \/ InsertIntegratorGrant(o) \/ ForceRecreate(o)
           \/ RecreateRefused(o) \/ MarkTombstoned(o) \/ RevokeTx(o) \/ Bootstrap(o)
           \/ SetupWorkspace(o) \/ RecreateLookup(o)
  <2>1. \E x : cli' = [cli EXCEPT ![o] = x]
    BY <1>3 DEF CallWrapper, Refused, InsertIntegratorGrant, ForceRecreate, RecreateRefused,
                MarkTombstoned, RevokeTx, Bootstrap, SetupWorkspace, RecreateLookup, Goto,
                Done
  <2>2. unaudited' = unaudited /\ cli[o].pc # "audit"
    BY <1>3 DEF CallWrapper, Refused, InsertIntegratorGrant, ForceRecreate, RecreateRefused,
                MarkTombstoned, RevokeTx, Bootstrap, SetupWorkspace, RecreateLookup, At,
                ghosts
  <2>3. QED
    BY <2>1, <2>2 DEF TypeOK, CliTyped
<1>4. CASE AuditTombstone(o) \/ Crash(o)
  BY <1>4 DEF AuditTombstone, Crash, Done, ghosts, TypeOK, CliTyped
<1>5. NoEmail \in Addresses /\ \A e \in Emails : e \in Addresses
  BY DEF Addresses
<1>6. CASE \E s \in Slugs, e \in Addresses :
             \/ CreateFresh(o, s, e) \/ CreateUpsert(o, s, e) \/ CreateForceRecreate(o, s, e)
             \/ Tombstone(o, s) \/ MigrateProvision(o, s) \/ RiverSetup(o, RowsOf(s))
             \/ IntegratorGrant(o, s, e) \/ IntegratorRevoke(o, s, e)
  BY <1>1, <1>6 DEF TypeOK, CliTyped
<1>7. QED
  BY <1>2, <1>3, <1>4, <1>5, <1>6, Zenon DEF OperatorStep

LEMMA NextCliMinted ==
  ASSUME TypeOK, TypeOK', RegistryInv, NEW o \in Operators, OperatorStep(o)
  PROVE  CliMinted'
<1> DEFINE none == {}
<1>1. RowsInv /\ CliMinted /\ minted \in Int /\ minted' \in Int
  BY DEF RegistryInv, IdsAreMinted, RowsInv, CliMinted, TypeOK, TablesType
<1>2. /\ cli[o].ids \in SUBSET Ids /\ NoEmail \in Addresses /\ none \in SUBSET Ids
      /\ \A id \in cli[o].ids : id \in Int /\ id <= minted
      /\ cli[o].pc # "idle" => cli[o].slug \in Slugs
      /\ cli[o].mail \in Addresses
      /\ \A e \in Emails : e \in Addresses
      /\ \A s : /\ IdsOf(RowsOf(s)) \in SUBSET Ids /\ IdsOf(Live(s)) \in SUBSET Ids
      /\ IdsOf(rows) \in SUBSET Ids
  BY <1>1, RowsTyped DEF CliMinted, TypeOK, CliTyped, CliType, Addresses, Ids
<1>3. SUFFICES
        \/ Done(o) /\ minted <= minted'
        \/ /\ minted <= minted'
           /\ \E pc \in CliPcs, s \in Slugs, ids \in SUBSET Ids, e \in Addresses :
                Goto(o, pc, s, ids, e) /\ \A id \in ids : id <= minted'
  BY <1>1, GotoMinted, DoneMinted
<1>4. CASE \E s \in Slugs, e \in Addresses : CreateFresh(o, s, e)
  <2>1. PICK s \in Slugs, e \in Addresses : CreateFresh(o, s, e)
    BY <1>4
  <2>2. Mint(none) /\ Goto(o, "provision", s, Chosen(none), e)
    BY <2>1 DEF CreateFresh
  <2>3. QED
    BY <1>1, <1>2, <2>2, MintedIds, MintTyped DEF CliPcs, TypeOK
<1>5. CASE \E s \in Slugs, e \in Addresses : CreateUpsert(o, s, e)
  <2>1. PICK s \in Slugs, e \in Addresses : CreateUpsert(o, s, e)
    BY <1>5
  <2>2. Mint(IdsOf(Live(s))) /\ Goto(o, "provision", s, Chosen(IdsOf(Live(s))), e)
    BY <2>1 DEF CreateUpsert
  <2>3. QED
    BY <1>1, <1>2, <2>2, LookedUp, MintedIds, MintTyped DEF CliPcs, TypeOK
<1>6. CASE \E s \in Slugs : MigrateProvision(o, s)
  <2>1. PICK s \in Slugs : MigrateProvision(o, s)
    BY <1>6
  <2>2. Mint(IdsOf(RowsOf(s)))
        /\ Goto(o, "bootstrap", s, Chosen(IdsOf(RowsOf(s))), NoEmail)
    BY <2>1 DEF MigrateProvision
  <2>3. QED
    BY <1>1, <1>2, <2>2, LookedUp, MintedIds, MintTyped DEF CliPcs, TypeOK
<1>7. CASE \E s \in Slugs, e \in Addresses : CreateForceRecreate(o, s, e) \/ Tombstone(o, s)
  <2>1. PICK s \in Slugs, e \in Addresses : CreateForceRecreate(o, s, e) \/ Tombstone(o, s)
    BY <1>7
  <2>2. minted' = minted
        /\ (Goto(o, "recreate", s, none, e) \/ Goto(o, "tombstone", s, none, NoEmail))
    BY <2>1 DEF CreateForceRecreate, Tombstone, tables
  <2>3. QED
    BY <1>1, <1>2, <2>2 DEF CliPcs
<1>8. CASE \E s \in Slugs : RiverSetup(o, RowsOf(s)) \/ RiverSetup(o, rows)
  <2>1. PICK s \in Slugs : RiverSetup(o, RowsOf(s)) \/ RiverSetup(o, rows)
    BY <1>8
  <2>2. minted' = minted
        /\ \/ Goto(o, "river", AnySlug, IdsOf(RowsOf(s)), NoEmail)
           \/ Goto(o, "river", AnySlug, IdsOf(rows), NoEmail)
    BY <2>1 DEF RiverSetup, tables, AnySlug
  <2>3. AnySlug \in Slugs
    BY ChosenSlug
  <2>4. QED
    BY <1>1, <1>2, <2>2, <2>3, LookedUp DEF CliPcs
<1>9. CASE \E s \in Slugs, e \in Emails : IntegratorGrant(o, s, e) \/ IntegratorRevoke(o, s, e)
  <2>1. PICK s \in Slugs, e \in Emails : IntegratorGrant(o, s, e) \/ IntegratorRevoke(o, s, e)
    BY <1>9
  <2>2. minted' = minted
        /\ \/ Goto(o, "grant", s, IdsOf(Live(s)), e)
           \/ Goto(o, "revoke", s, IdsOf(Live(s)), e)
    BY <2>1 DEF IntegratorGrant, IntegratorRevoke, tables
  <2>3. QED
    BY <1>1, <1>2, <2>2, LookedUp DEF CliPcs
<1>10. CASE \/ Refused(o) \/ InsertIntegratorGrant(o) \/ ForceRecreate(o)
            \/ RecreateRefused(o) \/ AuditTombstone(o) \/ RevokeTx(o) \/ Crash(o)
  <2>1. Done(o) /\ (minted' = minted \/ minted' = minted + 1)
    BY <1>10 DEF Refused, InsertIntegratorGrant, ForceRecreate, RecreateRefused,
                 AuditTombstone, RevokeTx, Crash, tables
  <2>2. QED
    BY <1>1, <2>1
<1>11. CASE CallWrapper(o) \/ Bootstrap(o)
  <2>1. /\ minted' = minted /\ cli[o].pc # "idle"
        /\ Done(o) \/ \E pc \in CliPcs, f \in Addresses : Goto(o, pc, cli[o].slug, cli[o].ids, f)
    BY <1>2, <1>11 DEF CallWrapper, Bootstrap, CliPcs, At
  <2>2. QED
    BY <1>1, <1>2, <2>1
<1>12. CASE MarkTombstoned(o)
  <2>1. minted' = minted
    BY <1>12 DEF MarkTombstoned
  <2>2. Done(o) \/ Goto(o, "audit", cli[o].slug, none, NoEmail)
    BY <1>12 DEF MarkTombstoned
  <2>3. cli[o].slug \in Slugs
    BY <1>2, <1>12 DEF MarkTombstoned, At
  <2>4. QED
    BY <1>1, <1>2, <2>1, <2>2, <2>3 DEF CliPcs
<1>13. CASE SetupWorkspace(o)
  <2>1. minted' = minted /\ cli[o].slug \in Slugs
    BY <1>2, <1>13 DEF SetupWorkspace, At
  <2>2. Done(o) \/ \E id \in Ids :
                     Goto(o, "river", cli[o].slug, cli[o].ids \ {id}, NoEmail)
    BY <1>2, <1>13 DEF SetupWorkspace
  <2>3. \A id : /\ cli[o].ids \ {id} \in SUBSET Ids
               /\ \A i \in cli[o].ids \ {id} : i <= minted
    BY <1>2
  <2>4. CASE Done(o)
    BY <1>1, <2>1, <2>4
  <2>5. ASSUME NEW id \in Ids, Goto(o, "river", cli[o].slug, cli[o].ids \ {id}, NoEmail)
        PROVE  \E pc \in CliPcs, s \in Slugs, ids \in SUBSET Ids, e \in Addresses :
                 Goto(o, pc, s, ids, e) /\ \A i \in ids : i <= minted'
    BY <1>1, <1>2, <2>1, <2>3, <2>5 DEF CliPcs
  <2>6. minted <= minted'
    BY <1>1, <2>1
  <2>7. QED
    BY <2>2, <2>4, <2>5, <2>6, Zenon
<1>14. RiverSetup(o, rows) => \E s \in Slugs : TRUE
  BY DEF RiverSetup, TypeOK, TablesType, RowType
<1>15. CASE RecreateLookup(o)
  <2>1. /\ minted' = minted /\ cli[o].slug \in Slugs
        /\ Goto(o, "drop", cli[o].slug, IdsOf(Live(cli[o].slug)), cli[o].mail)
    BY <1>2, <1>15 DEF RecreateLookup, At, Dropped, tables
  <2>2. QED
    BY <1>1, <1>2, <2>1, LookedUp DEF CliPcs
<1>16. QED
  BY <1>2, <1>4, <1>5, <1>6, <1>7, <1>8, <1>9, <1>10, <1>11, <1>12, <1>13, <1>14, <1>15, Zenon
     DEF OperatorStep

(* Who claims a UUID after a step, and with which slug.                    *)
LEMMA ClaimSteps ==
  ASSUME TypeOK, RegistryInv, NEW o \in Operators, OperatorStep(o)
  PROVE  \/ ~Claiming(o)'
         \/ /\ rows' = rows
            /\ \A id \in cli'[o].ids :
                 \/ id = minted + 1
                 \/ \E r \in rows : r.id = id /\ r.slug = cli'[o].slug
<1> DEFINE none == {}
<1>1. /\ none \in SUBSET Ids /\ NoEmail \in Addresses /\ TablesType /\ CliTyped
      /\ cli[o].ids \in SUBSET Ids /\ cli[o].mail \in Addresses
      /\ cli[o].pc # "idle" => cli[o].slug \in Slugs
      /\ \A e \in Emails : e \in Addresses
      /\ \A s : /\ IdsOf(RowsOf(s)) \in SUBSET Ids /\ IdsOf(Live(s)) \in SUBSET Ids
  BY RowsTyped DEF TypeOK, CliTyped, CliType, Addresses
<1>2. \A s : /\ \A id \in IdsOf(RowsOf(s)) : \E r \in rows : r.id = id /\ r.slug = s
             /\ \A id \in IdsOf(Live(s)) : \E r \in rows : r.id = id /\ r.slug = s
  BY DEF IdsOf, RowsOf, Live
<1>3. ASSUME NEW s \in Slugs, NEW e \in Addresses, NEW pc \in {"provision", "bootstrap"},
             NEW found \in SUBSET Ids, Mint(found), Goto(o, pc, s, Chosen(found), e),
             rows' = rows, \A id \in found : \E r \in rows : r.id = id /\ r.slug = s
      PROVE  /\ rows' = rows
             /\ \A id \in cli'[o].ids :
                  \/ id = minted + 1
                  \/ \E r \in rows : r.id = id /\ r.slug = cli'[o].slug
  <2>1. Chosen(found) \in SUBSET Ids /\ pc \in CliPcs
    BY <1>1, <1>3, MintTyped DEF CliPcs
  <2>2. cli'[o].ids = Chosen(found) /\ cli'[o].slug = s
    BY <1>1, <1>3, <2>1, GotoTyped
  <2>3. QED
    BY <1>3, <2>2 DEF Chosen
<1>4. CASE \E s \in Slugs, e \in Addresses : CreateFresh(o, s, e) \/ CreateUpsert(o, s, e)
  <2>1. PICK s \in Slugs, e \in Addresses : CreateFresh(o, s, e) \/ CreateUpsert(o, s, e)
    BY <1>4
  <2>2. /\ rows' = rows
        /\ \/ Mint(none) /\ Goto(o, "provision", s, Chosen(none), e)
           \/ Mint(IdsOf(Live(s))) /\ Goto(o, "provision", s, Chosen(IdsOf(Live(s))), e)
    BY <2>1 DEF CreateFresh, CreateUpsert
  <2>3. QED
    BY <1>1, <1>2, <1>3, <2>2
<1>5. CASE \E s \in Slugs : MigrateProvision(o, s)
  <2>1. PICK s \in Slugs : MigrateProvision(o, s)
    BY <1>5
  <2>2. /\ rows' = rows /\ Mint(IdsOf(RowsOf(s)))
        /\ Goto(o, "bootstrap", s, Chosen(IdsOf(RowsOf(s))), NoEmail)
    BY <2>1 DEF MigrateProvision
  <2>3. QED
    BY <1>1, <1>2, <1>3, <2>2
<1>6. CASE RecreateLookup(o)
  <2> DEFINE found == IdsOf(Live(cli[o].slug))
  <2>1. /\ rows' = rows /\ cli[o].slug \in Slugs /\ "drop" \in CliPcs
        /\ Goto(o, "drop", cli[o].slug, found, cli[o].mail)
    BY <1>1, <1>6 DEF RecreateLookup, At, Dropped, tables, CliPcs
  <2>2. found \in SUBSET Ids
    BY <1>1
  <2>3. \A id \in found : \E r \in rows : r.id = id /\ r.slug = cli[o].slug
    BY <1>2
  <2> HIDE DEF found
  <2>4. cli'[o].ids = found /\ cli'[o].slug = cli[o].slug
    BY <1>1, <2>1, <2>2, GotoTyped
  <2>5. QED
    BY <2>1, <2>3, <2>4
<1>7. CASE \/ \E s \in Slugs, e \in Addresses : CreateForceRecreate(o, s, e)
           \/ CallWrapper(o) \/ Refused(o) \/ InsertIntegratorGrant(o)
           \/ ForceRecreate(o) \/ RecreateRefused(o)
           \/ \E s \in Slugs : Tombstone(o, s) \/ RiverSetup(o, RowsOf(s))
           \/ RiverSetup(o, rows)
           \/ MarkTombstoned(o) \/ AuditTombstone(o)
           \/ \E s \in Slugs, e \in Emails : IntegratorGrant(o, s, e) \/ IntegratorRevoke(o, s, e)
           \/ RevokeTx(o) \/ Bootstrap(o) \/ SetupWorkspace(o) \/ Crash(o)
  <2>1. \/ Done(o)
        \/ \E pc \in {"recreate", "grant", "tombstone", "audit", "revoke", "river"} :
             \E s, ids, e : cli' = [cli EXCEPT ![o] = [pc |-> pc, slug |-> s, ids |-> ids, mail |-> e]]
    BY <1>7 DEF CreateForceRecreate, CallWrapper, Refused, InsertIntegratorGrant,
         ForceRecreate, RecreateRefused, Tombstone, RiverSetup, MarkTombstoned,
         AuditTombstone, IntegratorGrant, IntegratorRevoke, RevokeTx, Bootstrap,
         SetupWorkspace, Crash, Goto
  <2>2. cli'[o].pc \in {"idle", "recreate", "grant", "tombstone", "audit", "revoke", "river"}
    BY <2>1, OffTyped DEF Done, TypeOK, CliTyped
  <2>3. QED
    BY <2>2 DEF Claiming
<1>8. QED
  BY <1>4, <1>5, <1>6, <1>7, Zenon DEF OperatorStep

LEMMA NextClaimsAgree ==
  ASSUME TypeOK, TypeOK', RegistryInv, NEW o \in Operators, OperatorStep(o)
  PROVE  ClaimsAgree'
<1>1. /\ \A p \in Operators \ {o} : cli'[p] = cli[p] /\ (Claiming(p)' <=> Claiming(p))
      /\ \A p \in Operators : \A id \in cli[p].ids : id # minted + 1
      /\ RowsApart /\ ClaimsAgree
  <2>1. minted \in Int
    BY DEF TypeOK, TablesType
  <2>2. QED
    BY <2>1, OneCommand DEF Claiming, RegistryInv, IdsAreMinted
(* The rows after the step: as before, of the new UUID, or of the command. *)
<1>2. \A q \in rows' :
        \/ \E r \in rows : q.id = r.id /\ q.slug = r.slug
        \/ q.id = minted + 1
        \/ Claiming(o) /\ q.id \in cli[o].ids /\ q.slug = cli[o].slug
  <2>1. CASE RowsKept
    BY <2>1 DEF RowsKept
  <2>2. CASE CallWrapper(o) \/ Bootstrap(o)
    <3>1. /\ Claiming(o) /\ cli[o].slug \in Slugs /\ cli[o].ids \subseteq Ids
          /\ \E id \in cli[o].ids, b \in BOOLEAN : Provisioned(cli[o].slug, id, b)
      BY <2>2 DEF CallWrapper, Bootstrap, At, Claiming, TypeOK, CliTyped, CliType
    <3>2. PICK id \in cli[o].ids, b \in BOOLEAN : Provisioned(cli[o].slug, id, b)
      BY <3>1
    <3>3. rows' = rows \/ rows' = rows \cup {NewRow(cli[o].slug, id, b)}
      BY <3>2 DEF Provisioned
    <3>4. NewRow(cli[o].slug, id, b).id = id /\ NewRow(cli[o].slug, id, b).slug = cli[o].slug
      <4>1. id \in Ids /\ cli[o].slug \in Slugs
        BY <3>1
      <4>2. QED
        BY <4>1, NewRowTyped, Zenon
    <3>5. QED
      BY <3>1, <3>3, <3>4
  <2>3. CASE RowReplacedBy(o)
    <3> DEFINE new == NewRow(cli[o].slug, minted + 1, TRUE)
    <3>1. /\ new.id = minted + 1 /\ rows' = (rows \ RowsOf(cli[o].slug)) \cup {new}
      BY <2>3, NewRowTyped DEF RowReplacedBy, RowReplaced
    <3> HIDE DEF new
    <3>2. QED
      BY <3>1
  <2>4. CASE RowMarkedBy(o)
    BY <2>4, MarkedRowsAre DEF RowMarkedBy
  <2>5. QED
    BY <2>1, <2>2, <2>3, <2>4, RegistryStepsBy
(* Others' claims against the rows, and the command's own.                 *)
<1>3. \A p \in Operators : Claiming(p)' =>
        \A q \in rows' : q.id \in cli'[p].ids => q.slug = cli'[p].slug
  <2>1. \A p \in Operators \ {o} : Claiming(p)' =>
          \A q \in rows' : q.id \in cli'[p].ids => q.slug = cli'[p].slug
    BY <1>1, <1>2 DEF ClaimsAgree
  <2>2. Claiming(o)' => \A q \in rows' : q.id \in cli'[o].ids => q.slug = cli'[o].slug
    <3>1. \A r \in rows : r.id # minted + 1
      BY DEF RegistryInv, IdsAreMinted, TypeOK, TablesType, RowType, Ids
    <3>2. QED
      BY <1>1, <3>1, ClaimSteps DEF RowsApart
  <2>3. QED
    BY <2>1, <2>2
<1>4. \A p \in Operators \ {o} : Claiming(p)' /\ Claiming(o)' =>
        \A id \in cli'[o].ids : id \in cli'[p].ids => cli'[o].slug = cli'[p].slug
  BY <1>1, ClaimSteps DEF ClaimsAgree
<1>5. QED
  BY <1>1, <1>3, <1>4 DEF ClaimsAgree

-----------------------------------------------------------------------------
(* Tombstones and their audit rows                                         *)

(* The dead rows were dead before, and keep their audit rows.              *)
DeadRowsKept ==
  \A q \in rows' : q.dead =>
    \E r \in rows : /\ r.dead /\ r.id = q.id /\ r.slug = q.slug
                    /\ <<"tombstoned", r.id>> \in audit
                         => <<"tombstoned", r.id>> \in audit'

(* A row keeps its excuse when the step leaves the audit to other commands *)
(* and makes no row dead.                                                  *)
LEMMA ExcusesKept ==
  ASSUME TypeOK, TombstoneAudited, NEW o \in Operators, cli[o].pc # "audit",
         \A p \in Operators \ {o} : cli'[p] = cli[p], unaudited \subseteq unaudited',
         DeadRowsKept
  PROVE  TombstoneAudited'
<1> SUFFICES ASSUME NEW q \in rows', q.dead
             PROVE  \/ <<"tombstoned", q.id>> \in audit'
                    \/ \E p \in Operators : cli'[p].pc = "audit" /\ cli'[p].slug = q.slug
                    \/ q.slug \in unaudited'
  BY DEF TombstoneAudited
<1>1. PICK r \in rows : /\ r.dead /\ r.id = q.id /\ r.slug = q.slug
                        /\ <<"tombstoned", r.id>> \in audit
                             => <<"tombstoned", r.id>> \in audit'
  BY DEF DeadRowsKept
<1>2. CASE \E p \in Operators : cli[p].pc = "audit" /\ cli[p].slug = r.slug
  BY <1>1, <1>2
<1>3. QED
  BY <1>1, <1>2 DEF TombstoneAudited

LEMMA ReplacedExcuses ==
  ASSUME TypeOK, RegistryInv, NEW s \in Slugs, NEW id \in Ids, NEW old,
         RowReplaced(s, id, old)
  PROVE  DeadRowsKept
<1> SUFFICES ASSUME NEW q \in rows', q.dead
             PROVE  /\ q \in rows
                    /\ <<"tombstoned", q.id>> \in audit => <<"tombstoned", q.id>> \in audit'
  BY DEF DeadRowsKept
<1>1. q \in rows /\ q \notin RowsOf(s)
  <2>1. NewRow(s, id, TRUE).dead = FALSE
    BY NewRowTyped
  <2>2. rows' = (rows \ RowsOf(s)) \cup {NewRow(s, id, TRUE)}
    BY DEF RowReplaced
  <2>3. q # NewRow(s, id, TRUE)
    BY <2>1, Zenon
  <2>4. QED
    BY <2>2, <2>3
<1>2. q.id \notin old
  BY <1>1 DEF RowsOf, RowReplaced
<1>3. QED
  BY <1>1, <1>2 DEF RowReplaced, AuditWithout

LEMMA NextTombstoneAudited ==
  ASSUME TypeOK, RegistryInv, NEW o \in Operators, OperatorStep(o)
  PROVE  TombstoneAudited'
<1>1. /\ TombstoneAudited /\ unaudited \subseteq unaudited'
      /\ \A p \in Operators \ {o} : cli'[p] = cli[p]
  BY OneCommand DEF RegistryInv
<1>2. CASE cli[o].pc # "audit" /\ ~RowMarkedBy(o)
  <2>1. SUFFICES DeadRowsKept
    BY <1>1, <1>2, ExcusesKept, Zenon
  <2>2. CASE RowsKept
    BY <2>2 DEF RowsKept, DeadRowsKept
  <2>3. CASE \E s \in Slugs, id \in Ids, b \in BOOLEAN : RowAdded(s, id, b)
    <3>1. PICK s \in Slugs, id \in Ids, b \in BOOLEAN : RowAdded(s, id, b)
      BY <2>3
    <3>2. rows' = rows \cup {NewRow(s, id, b)} /\ audit \subseteq audit'
      BY <3>1 DEF RowAdded
    <3>3. NewRow(s, id, b).dead = FALSE
      BY NewRowTyped
    <3>4. \A q \in rows' : q.dead => q \in rows
      BY <3>2, <3>3, Zenon
    <3>5. QED
      BY <3>2, <3>4, Zenon DEF DeadRowsKept
  <2>4. CASE RowReplacedBy(o)
    BY <2>4, ReplacedExcuses DEF RowReplacedBy
  <2>5. QED
    BY <1>2, <2>2, <2>3, <2>4, RegistrySteps
<1>3. CASE RowMarkedBy(o)
  <2> DEFINE s == cli[o].slug
  <2>1. /\ s \in Slugs /\ RowMarked(s) /\ cli[o].pc = "tombstone"
        /\ Goto(o, "audit", s, {}, NoEmail)
    BY <1>3 DEF RowMarkedBy
  <2>2. cli'[o].pc = "audit" /\ cli'[o].slug = s
    BY <2>1, GotoTyped DEF TypeOK, CliPcs, Addresses
  <2>3. ASSUME NEW q \in rows', q.dead, q.slug # s
        PROVE  \/ <<"tombstoned", q.id>> \in audit'
               \/ \E p \in Operators : cli'[p].pc = "audit" /\ cli'[p].slug = q.slug
               \/ q.slug \in unaudited'
    <3>1. q \in rows /\ audit' = audit
      BY <2>1, <2>3, MarkedRowsAre DEF RowMarked
    <3>2. CASE \E p \in Operators : cli[p].pc = "audit" /\ cli[p].slug = q.slug
      BY <1>1, <2>1, <3>2
    <3>3. \/ <<"tombstoned", q.id>> \in audit
          \/ \E p \in Operators : cli[p].pc = "audit" /\ cli[p].slug = q.slug
          \/ q.slug \in unaudited
      BY <1>1, <2>3, <3>1 DEF TombstoneAudited
    <3>4. QED
      BY <1>1, <3>1, <3>2, <3>3, Zenon
  <2>4. QED
    BY <2>2, <2>3 DEF TombstoneAudited
<1>4. CASE AuditTombstone(o)
  <2>1. /\ rows' = rows /\ unaudited' = unaudited /\ audit \subseteq audit'
        /\ \A id \in Tombstoned(cli[o].slug) : <<"tombstoned", id>> \in audit'
    BY <1>4 DEF AuditTombstone, ghosts
  <2>2. ASSUME NEW q \in rows', q.dead
        PROVE  \/ <<"tombstoned", q.id>> \in audit'
               \/ \E p \in Operators : cli'[p].pc = "audit" /\ cli'[p].slug = q.slug
               \/ q.slug \in unaudited'
    <3>1. CASE q.slug = cli[o].slug
      <4>1. q.id \in Tombstoned(cli[o].slug)
        BY <2>1, <3>1 DEF Tombstoned, IdsOf, RowsOf
      <4>2. QED
        BY <2>1, <4>1
    <3>2. CASE \E p \in Operators \ {o} : cli[p].pc = "audit" /\ cli[p].slug = q.slug
      BY <1>1, <3>2
    <3>3. QED
      BY <1>1, <2>1, <2>2, <3>1, <3>2 DEF TombstoneAudited
  <2>3. QED
    BY <2>2 DEF TombstoneAudited
<1>5. CASE Crash(o)
  <2>1. /\ rows' = rows /\ audit' = audit
        /\ cli[o].pc = "audit" => cli[o].slug \in unaudited'
    BY <1>5 DEF Crash, tables
  <2>2. ASSUME NEW q \in rows', q.dead
        PROVE  \/ <<"tombstoned", q.id>> \in audit'
               \/ \E p \in Operators : cli'[p].pc = "audit" /\ cli'[p].slug = q.slug
               \/ q.slug \in unaudited'
    <3>1. CASE \E p \in Operators \ {o} : cli[p].pc = "audit" /\ cli[p].slug = q.slug
      BY <1>1, <3>1
    <3>2. \/ <<"tombstoned", q.id>> \in audit
          \/ \E p \in Operators : cli[p].pc = "audit" /\ cli[p].slug = q.slug
          \/ q.slug \in unaudited
      BY <1>1, <2>1, <2>2 DEF TombstoneAudited
    <3>3. QED
      BY <1>1, <2>1, <3>1, <3>2, Zenon
  <2>3. QED
    BY <2>2 DEF TombstoneAudited
<1>6. QED
  BY <1>2, <1>3, <1>4, <1>5, OneCommand

LEMMA NextRegistryInv == TypeOK /\ TypeOK' /\ RegistryInv /\ [Next]_vars => RegistryInv'
<1> SUFFICES ASSUME TypeOK, TypeOK', RegistryInv, [Next]_vars PROVE RegistryInv'
  OBVIOUS
<1>1. CASE UNCHANGED <<rows, minted, objects, audit, cli, unaudited>>
  BY <1>1 DEF RegistryInv, RowsApart, IdsAreMinted, ClaimsAgree, Claiming,
              RowsAreProvisioned, ObjectsHaveRows, Registered, IdsOf, TombstoneAudited
<1>2. ASSUME NEW o \in Operators, OperatorStep(o) PROVE RegistryInv'
  <2>1. RowsInv /\ minted' \in Int
    BY DEF RegistryInv, IdsAreMinted, RowsInv, TypeOK, TablesType
  <2>2. RowsInv'
    BY <1>2, <2>1, RegistrySteps, KeptRows, AddedRow, ReplacedRow, MarkedRowsKeep
       DEF RowMarkedBy, RowReplacedBy
  <2>3. CliMinted' /\ TombstoneAudited' /\ ClaimsAgree'
    BY <1>2, NextCliMinted, NextTombstoneAudited, NextClaimsAgree
  <2>4. QED
    BY <2>2, <2>3 DEF RowsInv, CliMinted, RegistryInv, IdsAreMinted
<1>3. CASE WebNext
  BY <1>1, <1>3, WebLeavesTheRegistry
<1>4. CASE UNCHANGED vars
  BY <1>1, <1>4 DEF vars, tenantVars, tables, ghosts
<1>5. QED
  BY <1>2, <1>3, <1>4, OperatorSteps DEF Next

LEMMA InitRegistryInv == AccessInit => RegistryInv
<1> SUFFICES ASSUME AccessInit PROVE RegistryInv
  OBVIOUS
<1>1. CASE TenantsInit
  BY <1>1, OffTyped DEF TenantsInit, RegistryInv, RowsApart, IdsAreMinted, ClaimsAgree,
     Claiming, RowsAreProvisioned, ObjectsHaveRows, TombstoneAudited
<1>2. ASSUME NEW s \in Slugs, NEW R \in [Persons -> Roles \cup {"none"}], 1 \in Ids, InUse(s, R)
      PROVE  RegistryInv
  <2> DEFINE row == NewRow(s, 1, TRUE)
  <2>1. /\ rows = {row} /\ minted = 1 /\ objects = Things(1, TRUE)
        /\ audit = {<<"provisioned", 1>>} /\ cli = [o \in Operators |-> Off]
    BY <1>2 DEF InUse
  <2>2. row.id = 1 /\ row.slug = s /\ row.seeded = TRUE /\ row.dead = FALSE
    BY <1>2, NewRowTyped
  <2> HIDE DEF row
  <2>3. RowsApart /\ IdsAreMinted /\ ClaimsAgree /\ TombstoneAudited
    BY <2>1, <2>2, OffTyped DEF RowsApart, IdsAreMinted, ClaimsAgree, Claiming, TombstoneAudited
  <2>4. ObjectsHaveRows
    BY <2>1, <2>2, ThingsAre DEF ObjectsHaveRows, Registered, IdsOf
  <2>5. RowsAreProvisioned
    BY <2>1, <2>2, ThingsAre DEF RowsAreProvisioned
  <2>6. QED
    BY <2>3, <2>4, <2>5 DEF RegistryInv
<1>3. QED
  BY <1>1, <1>2 DEF AccessInit

LEMMA RegistryInvariance == Spec => [](TypeOK /\ RegistryInv)
<1>1. AccessInit => TypeOK /\ RegistryInv
  BY InitTypeOK, InitRegistryInv
<1>2. TypeOK /\ RegistryInv /\ [Next]_vars => (TypeOK /\ RegistryInv)'
  BY NextTypeOK, NextRegistryInv
<1>3. QED
  BY <1>1, <1>2, PTL DEF Spec

(* THEOREM every check of `tenant verify` succeeds on every registered     *)
(* workspace in every state, however the operators' commands interleave    *)
(* and wherever they die (create.go 226-253, 331-356; verify.go).          *)
THEOREM TheRegistryVerifies == Spec => []VerifyHolds
<1>1. TypeOK /\ RegistryInv => VerifyHolds
  <2> SUFFICES ASSUME TypeOK, RegistryInv, NEW r \in rows PROVE allInvariants(r)
    BY DEF VerifyHolds
  <2>1. checkRoleExists(r) /\ checkSchemasExist(r) /\ checkAuditRow(r)
    BY DEF RegistryInv, RowsAreProvisioned, checkRoleExists, checkSchemasExist, checkAuditRow
  <2>2. checkPipelineSeed(r)
    BY DEF RegistryInv, RowsAreProvisioned, checkPipelineSeed
  <2>3. checkCrossTenant(r) /\ checkRegistryRow(r)
    BY DEF RegistryInv, RowsApart, checkCrossTenant, checkRegistryRow
  <2>4. checkAuditBinding(r)
    <3>1. <<"provisioned", r.id>> \in audit /\ Registered(r.id)
      BY DEF RegistryInv, RowsAreProvisioned, Registered, IdsOf
    <3>2. QED
      BY <3>1 DEF checkAuditBinding
  <2>5. QED
    BY <2>1, <2>2, <2>3, <2>4 DEF allInvariants
<1>2. QED
  BY <1>1, RegistryInvariance, PTL

(* THEOREM a tombstone is in the audit log, about to be, or its command    *)
(* died between the two statements: there is no fourth way, for any number *)
(* of operators (tombstone.go 52-72).                                      *)
THEOREM TombstonesAreAudited == Spec => []TombstoneAudited
<1>1. RegistryInv => TombstoneAudited
  BY DEF RegistryInv
<1>2. QED
  BY <1>1, RegistryInvariance, PTL

-----------------------------------------------------------------------------
(* The registry implements SlugRegistry                                    *)

Holder == [s \in Slugs |-> IF RowsOf(s) = {} THEN 0 ELSE (CHOOSE r \in RowsOf(s) : TRUE).id]
Retired == {s \in Slugs : \E r \in RowsOf(s) : r.dead}
Doomed == UNION {cli[o].ids : o \in {q \in Operators : cli[q].pc = "drop"}}

LEMMA DoomedAre ==
  \A i : i \in Doomed <=> \E o \in Operators : cli[o].pc = "drop" /\ i \in cli[o].ids
  BY DEF Doomed
LEMMA DoomedNext ==
  \A i : i \in Doomed' <=> \E o \in Operators : cli'[o].pc = "drop" /\ i \in cli'[o].ids
  BY DEF Doomed

(* Only the lookup of a force-recreate adds to what is doomed.             *)
LEMMA DoomSteps ==
  ASSUME TypeOK, RegistryInv, NEW o \in Operators, OperatorStep(o)
  PROVE  \/ /\ RecreateLookup(o) /\ rows' = rows /\ cli[o].slug \in Slugs
            /\ Doomed' = Doomed \cup IdsOf(Live(cli[o].slug))
         \/ Doomed' \subseteq Doomed
<1>1. \A p \in Operators \ {o} : cli'[p] = cli[p]
  BY OneCommand
<1>2. CASE RecreateLookup(o)
  <2> DEFINE found == IdsOf(Live(cli[o].slug))
  <2>1. /\ rows' = rows /\ cli[o].pc = "recreate" /\ cli[o].slug \in Slugs
        /\ Goto(o, "drop", cli[o].slug, found, cli[o].mail)
        /\ "drop" \in CliPcs /\ CliTyped /\ cli[o].mail \in Addresses
    BY <1>2 DEF RecreateLookup, At, Dropped, tables, TypeOK, CliTyped, CliType, CliPcs
  <2>2. found \in SUBSET Ids
    BY RowsTyped DEF TypeOK
  <2> HIDE DEF found
  <2>3. cli'[o].pc = "drop" /\ cli'[o].ids = found
    BY <2>1, <2>2, GotoTyped
  <2>4. \A i : i \in Doomed' <=> i \in Doomed \/ i \in found
    BY <1>1, <2>1, <2>3, DoomedAre, DoomedNext
  <2>5. QED
    BY <1>2, <2>1, <2>4 DEF found
<1>3. CASE ~RecreateLookup(o)
  <2>1. cli'[o].pc # "drop"
    <3>1. \/ Done(o)
          \/ \E pc \in {"provision", "recreate", "grant", "tombstone", "audit", "revoke",
                       "bootstrap", "river"} : \E s, ids, e :
                cli' = [cli EXCEPT ![o] = [pc |-> pc, slug |-> s, ids |-> ids, mail |-> e]]
      <4>1. ASSUME NEW s, NEW e,
             \/ CreateFresh(o, s, e) \/ CreateUpsert(o, s, e) \/ CreateForceRecreate(o, s, e)
             \/ Tombstone(o, s) \/ MigrateProvision(o, s) \/ RiverSetup(o, RowsOf(s))
             \/ RiverSetup(o, rows) \/ IntegratorGrant(o, s, e) \/ IntegratorRevoke(o, s, e)
             \/ CallWrapper(o) \/ Refused(o) \/ RecreateRefused(o) \/ MarkTombstoned(o)
             \/ AuditTombstone(o) \/ Bootstrap(o) \/ SetupWorkspace(o) \/ Crash(o)
             \/ InsertIntegratorGrant(o) \/ ForceRecreate(o) \/ RevokeTx(o)
            PROVE  \/ Done(o)
                   \/ \E pc \in {"provision", "recreate", "grant", "tombstone", "audit", "revoke",
                               "bootstrap", "river"} : \E t, ids, f :
                         cli' = [cli EXCEPT ![o] = [pc |-> pc, slug |-> t, ids |-> ids, mail |-> f]]
        BY <4>1 DEF CreateFresh, CreateUpsert, CreateForceRecreate, Tombstone,
             MigrateProvision, RiverSetup, IntegratorGrant, IntegratorRevoke, CallWrapper,
             Refused, RecreateRefused, MarkTombstoned, AuditTombstone, Bootstrap,
             SetupWorkspace, Crash, InsertIntegratorGrant, ForceRecreate, RevokeTx, Goto
      <4>2. QED
        BY <1>3, <4>1, Zenon DEF OperatorStep
    <3>2. QED
      BY <3>1, OffTyped DEF Done, TypeOK, CliTyped
  <2>2. QED
    BY <1>1, <2>1, DoomedAre, DoomedNext
<1>4. QED
  BY <1>2, <1>3

LEMMA HoldersAre ==
  ASSUME RowsApart
  PROVE  /\ \A s \in Slugs : RowsOf(s) = {} => Holder[s] = 0
         /\ \A r \in rows : r.slug \in Slugs => Holder[r.slug] = r.id
<1>1. ASSUME NEW r \in rows, r.slug \in Slugs PROVE Holder[r.slug] = r.id
  <2>1. RowsOf(r.slug) = {r}
    BY DEF RowsOf, RowsApart
  <2>2. QED
    BY <1>1, <2>1 DEF Holder
<1>2. QED
  BY <1>1 DEF Holder

LEMMA SameHolders ==
  ASSUME RowsApart, RowsApart', NEW s \in Slugs,
         \A r \in rows : r.slug = s => \E q \in rows' : q.slug = s /\ q.id = r.id,
         (\E q \in rows' : q.slug = s) => \E r \in rows : r.slug = s
  PROVE  Holder'[s] = Holder[s]
<1>1. CASE RowsOf(s) = {}
  <2>1. RowsOf(s)' = {}
    BY <1>1 DEF RowsOf
  <2>2. QED
    BY <1>1, <2>1 DEF Holder
<1>2. CASE RowsOf(s) # {}
  <2>1. PICK r \in rows : r.slug = s
    BY <1>2 DEF RowsOf
  <2>2. PICK q \in rows' : q.slug = s /\ q.id = r.id
    BY <2>1
  <2>3. RowsOf(s) = {r} /\ RowsOf(s)' = {q}
    BY <2>1, <2>2 DEF RowsOf, RowsApart
  <2>4. QED
    BY <2>2, <2>3 DEF Holder
<1>3. QED
  BY <1>1, <1>2

(* A step that adds or replaces the row of a slug binds the slug; if the   *)
(* row was dead, its UUID was doomed before.                               *)
LEMMA BindStep ==
  ASSUME TypeOK, RegistryInv, RegistryInv', NEW s \in Slugs, NEW id \in Ids,
         Doomed' \subseteq Doomed,
         \/ \E b \in BOOLEAN : RowAdded(s, id, b)
         \/ \E old \in SUBSET Doomed : RowReplaced(s, id, old)
  PROVE  Registry!Bind(s, id)
<1>1. PICK b \in BOOLEAN :
        /\ rows' = (rows \ RowsOf(s)) \cup {NewRow(s, id, b)}
        /\ \A r \in RowsOf(s) : r.id \in Doomed
        /\ \A r \in rows : r.id # id
  <2>1. CASE \E old \in SUBSET Doomed : RowReplaced(s, id, old)
    <3>1. \A r \in rows : r.id # id
      BY <2>1 DEF RowReplaced, RegistryInv, IdsAreMinted, TypeOK, TablesType, RowType, Ids
    <3>2. QED
      BY <2>1, <3>1 DEF RowReplaced, RowsOf
  <2>2. ASSUME NEW b \in BOOLEAN, RowAdded(s, id, b)
        PROVE  /\ rows' = (rows \ RowsOf(s)) \cup {NewRow(s, id, b)}
               /\ \A r \in RowsOf(s) : r.id \in Doomed
               /\ \A r \in rows : r.id # id
    BY <2>2 DEF RowAdded, Registered, IdsOf
  <2>3. QED
    BY <2>1, <2>2
<1> DEFINE new == NewRow(s, id, b)
<1>2. new.id = id /\ new.slug = s /\ new.dead = FALSE
  BY NewRowTyped
<1>3. /\ rows' = (rows \ RowsOf(s)) \cup {new}
      /\ \A r \in rows : r \in RowsOf(s) <=> r.slug = s
      /\ RowsApart /\ RowsApart' /\ \A r \in rows : r.slug \in Slugs /\ r.id \in Ids
  BY <1>1 DEF RowsOf, RegistryInv, TypeOK, TablesType, RowType
<1> HIDE DEF new
<1>4. Holder'[s] = id
  <2>1. RowsOf(s)' = {new}
    BY <1>2, <1>3 DEF RowsOf
  <2>2. QED
    BY <1>2, <2>1 DEF Holder
<1>5. \A t \in Slugs \ {s} : Holder'[t] = Holder[t]
  BY <1>2, <1>3, SameHolders
<1>6. Holder' = [Holder EXCEPT ![s] = id]
  <2>1. /\ DOMAIN Holder = Slugs /\ Holder = [t \in DOMAIN Holder |-> Holder[t]]
        /\ DOMAIN Holder' = Slugs /\ Holder' = [t \in DOMAIN Holder' |-> Holder'[t]]
    BY DEF Holder
  <2>2. QED
    BY <1>4, <1>5, <2>1
<1>7. \A t \in Slugs : Holder[t] # id
  <2>1. ASSUME NEW t \in Slugs PROVE Holder[t] # id
    <3>1. CASE RowsOf(t) = {}
      BY <3>1, <1>3, HoldersAre DEF Ids
    <3>2. CASE \E r \in rows : r.slug = t
      BY <1>1, <1>3, <3>2, HoldersAre
    <3>3. QED
      BY <3>1, <3>2 DEF RowsOf
  <2>2. QED
    BY <2>1
<1>8. Retired' = Retired \ {s}
  BY <1>1, <1>2, <1>3 DEF Retired, RowsOf
<1>9. s \in Retired => Holder[s] \in Doomed
  <2>1. s \in Retired => \E r \in RowsOf(s) : r.slug = s /\ r \in rows
    BY DEF Retired, RowsOf
  <2>2. QED
    BY <1>1, <1>3, <2>1, HoldersAre
<1>10. QED
  BY <1>6, <1>7, <1>8, <1>9 DEF Registry!Bind, Registry!Unheld, Holder, Retired, Doomed

LEMMA RetireStep ==
  ASSUME TypeOK, RegistryInv, RegistryInv', NEW s \in Slugs, RowMarked(s),
         Doomed' = Doomed
  PROVE  Registry!Retire(s)
<1>1. /\ RowsOf(s) # {} /\ \A r \in RowsOf(s) : ~r.dead
      /\ rows' = {IF r.slug = s THEN Marked(r) ELSE r : r \in rows}
      /\ \A r \in rows : /\ Marked(r).id = r.id /\ Marked(r).slug = r.slug
                         /\ Marked(r).dead = TRUE
      /\ RowsApart /\ RowsApart' /\ \A r \in rows : r.slug \in Slugs /\ r.id \in Ids
  BY MarkedRow DEF RowMarked, RegistryInv, TypeOK, TablesType, RowType
<1>2. \A t \in Slugs : Holder'[t] = Holder[t]
  BY <1>1, SameHolders
<1>3. Holder' = Holder
  BY <1>2 DEF Holder
<1>4. s \notin Retired
  BY <1>1 DEF Retired
<1>5. Holder[s] # 0
  BY <1>1, HoldersAre DEF RowsOf, Ids
<1>6. Retired' = Retired \cup {s}
  BY <1>1 DEF Retired, RowsOf
<1>7. QED
  BY <1>3, <1>4, <1>5, <1>6 DEF Registry!Retire, Holder, Retired, Doomed

LEMMA RegistryInit == AccessInit => Registry!Init
<1> SUFFICES ASSUME AccessInit PROVE Registry!Init
  OBVIOUS
<1>1. TypeOK /\ RegistryInv
  BY InitTypeOK, InitRegistryInv
<1>2. RowsApart /\ \A r \in rows : r.slug \in Slugs /\ r.id \in Ids /\ ~r.dead
  <2>1. \A r \in rows : ~r.dead
    <3>1. rows = {} \/ \E s \in Slugs : 1 \in Ids /\ rows = {NewRow(s, 1, TRUE)}
      BY DEF AccessInit, TenantsInit, InUse
    <3>2. \A s \in Slugs : 1 \in Ids => NewRow(s, 1, TRUE).dead = FALSE
      BY NewRowTyped
    <3>3. QED
      BY <3>1, <3>2
  <2>2. QED
    BY <1>1, <2>1 DEF RegistryInv, TypeOK, TablesType, RowType
<1>3. Retired = {}
  BY <1>2 DEF Retired, RowsOf
<1>4. \A s \in Slugs : Holder[s] = 0 \/ \E r \in rows : r.slug = s /\ Holder[s] = r.id
  BY <1>2, HoldersAre DEF RowsOf
<1>5. Holder \in [Slugs -> Ids \cup {0}]
  BY <1>2, <1>4 DEF Holder
<1>6. \A s, t \in Slugs : Holder[s] = Holder[t] => s = t \/ Holder[s] = 0
  BY <1>2, <1>4 DEF RowsApart, Ids
<1>7. Doomed = {}
  <2>1. cli = [o \in Operators |-> Off]
    BY DEF AccessInit, TenantsInit, InUse
  <2>2. QED
    BY <2>1, OffTyped DEF Doomed
<1>8. QED
  BY <1>3, <1>5, <1>6, <1>7 DEF Registry!Init, Holder, Retired, Doomed

(* A lookup that finds a live row dooms its holder.                        *)
LEMMA LookupStep ==
  ASSUME TypeOK, RegistryInv, NEW s \in Slugs, rows' = rows,
         Doomed' = Doomed \cup IdsOf(Live(s))
  PROVE  Registry!Doom(s) \/ Registry!Spare
<1>1. Holder' = Holder /\ Retired' = Retired
  BY DEF Holder, Retired, RowsOf
<1>2. CASE Live(s) = {}
  <2>1. Doomed' \subseteq Doomed
    BY <1>2 DEF IdsOf
  <2>2. QED
    BY <1>1, <2>1 DEF Registry!Spare, Holder, Retired, Doomed
<1>3. ASSUME NEW r \in Live(s) PROVE Registry!Doom(s)
  <2>1. r \in rows /\ r.slug = s /\ ~r.dead /\ RowsApart /\ r.id \in Ids
    BY <1>3 DEF Live, RowsOf, RegistryInv, TypeOK, TablesType, RowType
  <2>2. RowsOf(s) = {r}
    BY <2>1 DEF RowsOf, RowsApart
  <2>3. Live(s) = {r}
    BY <2>1, <2>2 DEF Live
  <2>4. IdsOf(Live(s)) = {r.id}
    BY <2>3 DEF IdsOf
  <2>5. Holder[s] = r.id /\ Holder[s] # 0 /\ s \notin Retired
    BY <2>1, <2>2, HoldersAre DEF Ids, Retired
  <2>6. QED
    BY <1>1, <2>4, <2>5 DEF Registry!Doom, Holder, Retired, Doomed
<1>4. QED
  BY <1>2, <1>3

(* THEOREM the registry implements SlugRegistry: every command's step      *)
(* binds a slug that is not retired, retires one, or leaves them as they   *)
(* are, so a retired slug is never bound again but by a force-recreate     *)
(* that had found its workspace live, with which tombstone.go's promise    *)
(* fails (create.go 180-190, 331-356, tombstone.go 52-82).                 *)
THEOREM RetiredForGood == Spec => SlugsAreRetiredForGood
<1>1. TypeOK /\ TypeOK' /\ RegistryInv /\ RegistryInv' /\ [Next]_vars
        => [Registry!Next]_(Registry!vars)
  <2> SUFFICES ASSUME TypeOK, RegistryInv, RegistryInv', [Next]_vars
               PROVE  [Registry!Next]_(Registry!vars)
    OBVIOUS
  <2>1. CASE rows' = rows /\ Doomed' \subseteq Doomed
    BY <2>1 DEF Registry!vars, Registry!Next, Registry!Spare, RowsOf, Doomed
  <2>2. ASSUME NEW o \in Operators, OperatorStep(o) PROVE [Registry!Next]_(Registry!vars)
    <3>1. CASE /\ RecreateLookup(o) /\ rows' = rows /\ cli[o].slug \in Slugs
               /\ Doomed' = Doomed \cup IdsOf(Live(cli[o].slug))
      BY <3>1, LookupStep DEF Registry!Next
    <3>2. CASE Doomed' \subseteq Doomed
      <4>1. CASE RowsKept
        BY <2>1, <3>2, <4>1 DEF RowsKept
      <4>2. CASE \E s \in Slugs, id \in Ids, b \in BOOLEAN : RowAdded(s, id, b)
        BY <3>2, <4>2, BindStep DEF Registry!Next
      <4>3. CASE RowReplacedBy(o)
        <5>1. cli[o].ids \in SUBSET Doomed
          BY <4>3, DoomedAre DEF RowReplacedBy
        <5>2. QED
          BY <3>2, <4>3, <5>1, BindStep DEF Registry!Next, RowReplacedBy
      <4>4. CASE RowMarkedBy(o)
        <5>1. /\ cli[o].pc # "drop" /\ cli'[o].pc # "drop"
              /\ \A p \in Operators \ {o} : cli'[p] = cli[p]
          BY <2>2, <4>4, OneCommand DEF RowMarkedBy, Goto, TypeOK, CliTyped
        <5>2. Doomed' = Doomed
          <6>1. \A i : i \in Doomed' <=> i \in Doomed
            BY <5>1, DoomedAre, DoomedNext
          <6>2. QED
            BY <6>1
        <5>3. QED
          BY <4>4, <5>2, RetireStep DEF Registry!Next, RowMarkedBy
      <4>5. QED
        BY <2>2, <4>1, <4>2, <4>3, <4>4, RegistrySteps
    <3>3. QED
      BY <2>2, <3>1, <3>2, DoomSteps
  <2>3. CASE WebNext
    BY <2>1, <2>3, WebLeavesTheRegistry DEF Doomed
  <2>4. CASE UNCHANGED vars
    BY <2>1, <2>4 DEF vars, tenantVars, tables, Doomed
  <2>5. QED
    BY <2>2, <2>3, <2>4, OperatorSteps DEF Next
<1>2. QED
  BY <1>1, RegistryInit, RegistryInvariance, PTL DEF Spec, SlugsAreRetiredForGood, Registry!Spec

-----------------------------------------------------------------------------
(* The invariant of members, grants and tokens                             *)

LEMMA MembershipSteps ==
  ASSUME NEW o \in Operators, OperatorStep(o)
  PROVE  \/ UNCHANGED <<grants, members, email, tokens, excused, upset>>
         \/ InsertIntegratorGrant(o) \/ ForceRecreate(o) \/ RevokeTx(o)
<1>1. ASSUME NEW s, NEW e,
             \/ CreateFresh(o, s, e) \/ CreateUpsert(o, s, e) \/ CreateForceRecreate(o, s, e)
             \/ Tombstone(o, s) \/ MigrateProvision(o, s) \/ RiverSetup(o, RowsOf(s))
             \/ RiverSetup(o, rows) \/ IntegratorGrant(o, s, e) \/ IntegratorRevoke(o, s, e)
             \/ CallWrapper(o) \/ Refused(o) \/ RecreateRefused(o) \/ MarkTombstoned(o)
             \/ AuditTombstone(o) \/ Bootstrap(o) \/ SetupWorkspace(o) \/ Crash(o)
             \/ RecreateLookup(o)
      PROVE  UNCHANGED <<grants, members, email, tokens, excused, upset>>
  BY <1>1 DEF CreateFresh, CreateUpsert, CreateForceRecreate, Tombstone, MigrateProvision,
         RiverSetup, IntegratorGrant, IntegratorRevoke, CallWrapper, Refused,
         RecreateRefused, MarkTombstoned, AuditTombstone, Bootstrap, SetupWorkspace, Crash,
         RecreateLookup, tables, ghosts
<1>2. QED
  BY <1>1, Zenon DEF OperatorStep

(* Only force-recreate takes a workspace away.                             *)
LEMMA StillRegistered ==
  ASSUME TypeOK, RegistryInv, NEW o \in Operators, OperatorStep(o), ~ForceRecreate(o)
  PROVE  \A id : Registered(id) => Registered(id)'
<1>1. CASE RowsKept
  BY <1>1 DEF RowsKept, Registered, IdsOf
<1>2. CASE \E s \in Slugs, id \in Ids, b \in BOOLEAN : RowAdded(s, id, b)
  BY <1>2 DEF RowAdded, Registered, IdsOf
<1>3. CASE RowMarkedBy(o)
  BY <1>3, MarkedRowsAre DEF RowMarkedBy
<1>4. CASE MarkTombstoned(o)
  BY <1>1, <1>4, MarkedStep, MarkedRowsAre
<1>5. CASE CallWrapper(o) \/ Bootstrap(o)
  BY <1>1, <1>2, <1>5, AddedStep
<1>6. CASE SetupWorkspace(o)
  BY <1>1, <1>6, SetupStep
<1>7. CASE ~MarkTombstoned(o) /\ ~CallWrapper(o) /\ ~Bootstrap(o)
  <2>1. rows' = rows
    <3>1. ASSUME NEW s, NEW e,
             \/ CreateFresh(o, s, e) \/ CreateUpsert(o, s, e) \/ CreateForceRecreate(o, s, e)
             \/ Tombstone(o, s) \/ MigrateProvision(o, s) \/ RiverSetup(o, RowsOf(s))
             \/ RiverSetup(o, rows) \/ IntegratorGrant(o, s, e) \/ IntegratorRevoke(o, s, e)
             \/ Refused(o) \/ RecreateRefused(o) \/ InsertIntegratorGrant(o)
             \/ AuditTombstone(o) \/ RevokeTx(o) \/ SetupWorkspace(o) \/ Crash(o)
             \/ RecreateLookup(o)
          PROVE  rows' = rows
      BY <3>1 DEF CreateFresh, CreateUpsert, CreateForceRecreate, Tombstone,
             MigrateProvision, RiverSetup, IntegratorGrant, IntegratorRevoke, Refused,
             RecreateRefused, InsertIntegratorGrant, AuditTombstone, RevokeTx,
             SetupWorkspace, Crash, RecreateLookup, tables
    <3>2. QED
      BY <1>7, <3>1, Zenon DEF OperatorStep
  <2>2. QED
    BY <2>1 DEF Registered, IdsOf
<1>8. QED
  BY <1>4, <1>5, <1>7

(* What force-recreate leaves of members, grants, tokens and books.        *)
LEMMA Recreated ==
  ASSUME TypeOK, RegistryInv, NEW o \in Operators, ForceRecreate(o)
  PROVE  LET old == cli[o].ids IN
         /\ \A id \in Ids : Registered(id) /\ id \notin old => Registered(id)'
         /\ \A i : i = minted + 1 => i \in Ids /\ Registered(i)'
         /\ \A g \in grants' : (g \in grants /\ g[1] \notin old) \/ g[1] = minted + 1
         /\ \A g \in grants : g[1] \notin old => g \in grants'
         /\ \A i \in Ids : \A u \in Users :
              members'[<<i, u>>] = IF i \in old THEN "none" ELSE members[<<i, u>>]
         /\ \A t \in tokens' : t \in tokens /\ t.ws \notin old
         /\ \A x \in excused : x[1] \notin old => x \in excused'
         /\ email' = email
<1> DEFINE s == cli[o].slug  old == cli[o].ids  id == minted + 1
<1>1. /\ s \in Slugs /\ id \in Ids /\ \A r \in RowsOf(s) : r.id \in old
      /\ rows' = (rows \ RowsOf(s)) \cup {NewRow(s, id, TRUE)}
  BY ReplacedStep DEF RowReplaced, RowReplacedBy, RowsOf
<1>2. /\ \A i \in Ids : Registered(i) /\ i \notin old => Registered(i)'
      /\ \A i : i = id => Registered(i)'
  <2>1. NewRow(s, id, TRUE).id = id
    BY <1>1, NewRowTyped
  <2>2. \A r \in RowsOf(s) : r.id \in old
    BY <1>1
  <2>3. NewRow(s, id, TRUE) \in rows' /\ \A r \in rows : r.id \notin old => r \in rows'
    BY <1>1, <2>2
  <2> HIDE DEF s, old, id
  <2>4. QED
    BY <2>1, <2>3 DEF Registered, IdsOf
<1>3. /\ \A g \in grants' : (g \in grants /\ g[1] \notin old) \/ g[1] = id
      /\ \A g \in grants : g[1] \notin old => g \in grants'
  <2>1. /\ grants' \subseteq Without(grants, old) \cup {<<id, cli[o].mail>>}
        /\ Without(grants, old) \subseteq grants'
    BY DEF ForceRecreate
  <2>2. <<id, cli[o].mail>>[1] = id
    OBVIOUS
  <2>3. QED
    BY <2>1, <2>2 DEF Without
<1>4. DropMembers(old) /\ DropTokens(old) /\ email' = email
      /\ excused' = Without(excused, old)
  BY DEF ForceRecreate
<1>5. \A i \in Ids : \A u \in Users :
         members'[<<i, u>>] = IF i \in old THEN "none" ELSE members[<<i, u>>]
  BY <1>4, MembersTyped DEF TypeOK
<1>6. /\ \A t \in tokens' : t \in tokens /\ t.ws \notin old
      /\ \A x \in excused : x[1] \notin old => x \in excused'
  BY <1>4 DEF DropTokens, Without
<1>7. QED
  BY <1>1, <1>2, <1>3, <1>4, <1>5, <1>6

(* The conjuncts of NothingOutlivesItsWorkspace, by table.                 *)
LEMMA OutlivesNothing ==
  ASSUME TypeOK'
  PROVE  NothingOutlivesItsWorkspace' <=>
           /\ \A g \in grants' : Registered(g[1])'
           /\ \A t \in tokens' : Registered(t.ws)'
           /\ \A id \in Ids : \A u \in Users :
                members'[<<id, u>>] # "none" => Registered(id)'
<1>1. DOMAIN members' = Ids \X Users
  BY DEF TypeOK, TablesType
<1>2. \A id \in Ids : \A u \in Users : <<id, u>>[1] = id /\ <<id, u>> \in DOMAIN members'
  BY <1>1
<1>3. \A m \in DOMAIN members' : m[1] \in Ids /\ m[2] \in Users /\ m = <<m[1], m[2]>>
  BY <1>1
<1>4. QED
  BY <1>2, <1>3 DEF NothingOutlivesItsWorkspace

LEMMA OutlivesNothingNow ==
  ASSUME TypeOK, NothingOutlivesItsWorkspace
  PROVE  /\ \A g \in grants : Registered(g[1])
         /\ \A t \in tokens : Registered(t.ws)
         /\ \A id \in Ids : \A u \in Users :
              members[<<id, u>>] # "none" => Registered(id)
<1>1. \A id \in Ids : \A u \in Users : <<id, u>>[1] = id /\ <<id, u>> \in DOMAIN members
  BY DEF TypeOK, TablesType
<1>2. QED
  BY <1>1 DEF NothingOutlivesItsWorkspace

LEMMA OperatorsOutliveNothing ==
  ASSUME TypeOK, TypeOK', RegistryInv, NothingOutlivesItsWorkspace,
         NEW o \in Operators, OperatorStep(o)
  PROVE  NothingOutlivesItsWorkspace'
<1>1. CASE ForceRecreate(o)
  <2> DEFINE old == cli[o].ids
  <2>1. /\ \A id \in Ids : Registered(id) /\ id \notin old => Registered(id)'
        /\ \A i : i = minted + 1 => Registered(i)'
        /\ \A g \in grants' : (g \in grants /\ g[1] \notin old) \/ g[1] = minted + 1
        /\ \A i \in Ids : \A u \in Users :
             members'[<<i, u>>] = IF i \in old THEN "none" ELSE members[<<i, u>>]
        /\ \A t \in tokens' : t \in tokens /\ t.ws \notin old
    BY <1>1, Recreated
  <2>2. /\ \A g \in grants : g[1] \in Ids /\ Registered(g[1])
        /\ \A t \in tokens : t.ws \in Ids /\ Registered(t.ws)
    BY OutlivesNothingNow DEF TypeOK, TablesType, TokenType
  <2> HIDE DEF old
  <2>3. /\ \A g \in grants' : Registered(g[1])'
        /\ \A t \in tokens' : Registered(t.ws)'
    BY <2>1, <2>2
  <2>4. \A id \in Ids : \A u \in Users :
           members'[<<id, u>>] # "none" => Registered(id)'
    BY <2>1, OutlivesNothingNow
  <2>5. QED
    BY <2>3, <2>4, OutlivesNothing
<1>2. CASE ~ForceRecreate(o)
  <2>1. \A id : Registered(id) => Registered(id)'
    BY <1>2, StillRegistered
  <2>2. CASE UNCHANGED <<grants, members, email, tokens, excused, upset>>
    BY <2>1, <2>2, OutlivesNothing, OutlivesNothingNow
  <2>3. CASE InsertIntegratorGrant(o)
    <3>1. /\ \A g \in grants' : g \in grants \/ \E id : Registered(id) /\ g = <<id, cli[o].mail>>
          /\ UNCHANGED <<members, tokens>>
      BY <2>3 DEF InsertIntegratorGrant, Grantable
    <3>2. \A g \in grants' : g \in grants \/ Registered(g[1])
      BY <3>1
    <3>3. QED
      BY <2>1, <3>1, <3>2, OutlivesNothing, OutlivesNothingNow
  <2>4. CASE RevokeTx(o)
    <3>1. /\ grants' \subseteq grants /\ UNCHANGED tokens
          /\ \A m \in Ids \X Users : members'[m] = "none" \/ members'[m] = members[m]
      BY <2>4 DEF RevokeTx, TypeOK, TablesType
    <3>2. QED
      BY <2>1, <3>1, OutlivesNothing, OutlivesNothingNow
  <2>5. QED
    BY <1>2, <2>2, <2>3, <2>4, MembershipSteps
<1>3. QED
  BY <1>1, <1>2

LEMMA WebOutlivesNothing ==
  ASSUME TypeOK, TypeOK', NothingOutlivesItsWorkspace, WebNext
  PROVE  NothingOutlivesItsWorkspace'
<1>1. grants' = grants /\ \A id : Registered(id)' <=> Registered(id)
  BY WebLeavesTheRegistry DEF Registered, IdsOf
<1>2. CASE Browsing
  BY <1>1, <1>2, BrowsingTouchesNothing, OutlivesNothing, OutlivesNothingNow
     DEF tenantVars, tables
<1>3. CASE TokenStep
  BY <1>1, <1>3, TokensTyped, OutlivesNothing, OutlivesNothingNow
<1>4. CASE ~Browsing /\ ~TokenStep
  <2>1. tokens' = tokens
    BY <1>4, WebSteps DEF CallbackIdentify, CallbackJoin, invite, updateRole, removeMember,
                          Untouched
  <2>2. members' = members \/ \E id \in Ids, u \in Users, r \in RolesOrNone :
          Registered(id) /\ members' = [members EXCEPT ![<<id, u>>] = r]
    <3>1. CASE \E p \in Persons, e \in Addresses : CallbackIdentify(p, e)
      BY <3>1 DEF CallbackIdentify
    <3>2. ASSUME NEW p \in Persons, CallbackJoin(p)
          PROVE  members' = members \/ \E id \in Ids, u \in Users, r \in RolesOrNone :
                   Registered(id) /\ members' = [members EXCEPT ![<<id, u>>] = r]
      <4>1. /\ p \in Users /\ web[p].ws \in Ids
            /\ EnsuredRole(members[<<web[p].ws, p>>], web[p].role) \in RolesOrNone
        BY <3>2, Joined, Ensured, UsersAre DEF TypeOK, TablesType
      <4>2. QED
        BY <3>2, <4>1, Joined
    <3>3. ASSUME NEW c \in Callers, NEW e \in Emails, NEW r \in Roles, invite(c, e, r)
          PROVE  members' = members \/ \E id \in Ids, u \in Users, q \in RolesOrNone :
                   Registered(id) /\ members' = [members EXCEPT ![<<id, u>>] = q]
      <4>1. CASE \E u \in Users : Registered(web[c].ws) /\ InviteWrites(c, e, r, u)
        <5>1. web[c].ws \in Ids /\ r \in RolesOrNone
          BY <3>3, Inviting, RolesAre
        <5>2. QED
          BY <4>1, <5>1 DEF InviteWrites
      <4>2. QED
        BY <3>3, <4>1, Inviting
    <3>4. ASSUME NEW c \in Persons, NEW u \in Users, NEW r \in RolesOrNone,
                 (r \in Roles /\ updateRole(c, u, r)) \/ (r = "none" /\ removeMember(c, u))
          PROVE  members' = members \/ \E id \in Ids, v \in Users, q \in RolesOrNone :
                   Registered(id) /\ members' = [members EXCEPT ![<<id, v>>] = q]
      <4>1. CASE ~UNCHANGED <<members, excused, upset>>
        <5>1. /\ web[c].ws \in Ids /\ members[<<web[c].ws, u>>] # "none"
              /\ members' = [members EXCEPT ![<<web[c].ws, u>>] = r]
          BY <3>4, <4>1, Rewriting
        <5>2. Registered(web[c].ws)
          BY <5>1, OutlivesNothingNow
        <5>3. QED
          BY <5>1, <5>2
      <4>2. QED
        BY <4>1
    <3>5. QED
      BY <1>4, <3>1, <3>2, <3>3, <3>4, WebSteps, RolesAre
  <2>3. \A id \in Ids : \A u \in Users :
           members'[<<id, u>>] = members[<<id, u>>] \/ Registered(id)
    BY <2>2 DEF TypeOK, TablesType
  <2>4. QED
    BY <1>1, <2>1, <2>3, OutlivesNothing, OutlivesNothingNow
<1>5. QED
  BY <1>2, <1>3, <1>4

LEMMA OperatorsKeepAddresses ==
  ASSUME TypeOK, RegistryInv, InvitedKeepTheirAddress, NEW o \in Operators, OperatorStep(o)
  PROVE  InvitedKeepTheirAddress'
<1>1. CASE ForceRecreate(o)
  <2>1. email' = email /\ \A id \in Ids : \A u \in Users :
           members[<<id, u>>] = "none" => members'[<<id, u>>] = "none"
    BY <1>1, Recreated
  <2>2. QED
    BY <2>1, UsersAre DEF InvitedKeepTheirAddress
<1>2. CASE RevokeTx(o)
  <2>1. email' = email /\ \A m \in Ids \X Users :
           members[m] = "none" => members'[m] = "none"
    BY <1>2 DEF RevokeTx, TypeOK, TablesType
  <2>2. QED
    BY <2>1, UsersAre DEF InvitedKeepTheirAddress
<1>3. CASE UNCHANGED <<email, members>>
  BY <1>3 DEF InvitedKeepTheirAddress
<1>4. QED
  BY <1>1, <1>2, <1>3, MembershipSteps DEF InsertIntegratorGrant

LEMMA WebKeepsAddresses ==
  ASSUME TypeOK, InvitedKeepTheirAddress, WebNext
  PROVE  InvitedKeepTheirAddress'
<1> USE UsersAre
<1>1. CASE UNCHANGED <<email, members>>
  BY <1>1 DEF InvitedKeepTheirAddress
<1>2. CASE Browsing \/ TokenStep
  BY <1>1, <1>2, BrowsingTouchesNothing, TokensTyped DEF tenantVars, tables
<1>3. ASSUME NEW p \in Persons, NEW e \in Addresses, CallbackIdentify(p, e)
      PROVE  InvitedKeepTheirAddress'
  <2>1. members' = members /\ \A u \in Users \ {p} : email'[u] = email[u]
    BY <1>3 DEF CallbackIdentify, UpsertUser, TypeOK, TablesType
  <2>2. QED
    BY <2>1 DEF InvitedKeepTheirAddress
<1>4. ASSUME NEW p \in Persons, CallbackJoin(p) PROVE InvitedKeepTheirAddress'
  <2>1. email' = email /\ \A id \in Ids : \A u \in Users \ {p} :
           members'[<<id, u>>] = members[<<id, u>>]
    BY <1>4, Joined DEF CallbackJoin, TypeOK, TablesType
  <2>2. QED
    BY <2>1 DEF InvitedKeepTheirAddress
<1>5. ASSUME NEW c \in Callers, NEW e \in Emails, NEW r \in Roles, invite(c, e, r)
      PROVE  InvitedKeepTheirAddress'
  <2>1. CASE ~UNCHANGED <<email, members>>
    <3>1. PICK u \in Users : InviteWrites(c, e, r, u)
      BY <1>5, <2>1, Inviting
    <3>2. /\ email[u] = e \/ u = InvitedAt(e)
          /\ email'[u] = e /\ \A v \in Users \ {u} : email'[v] = email[v]
          /\ \A id \in Ids : \A v \in Users \ {u} :
               members'[<<id, v>>] = members[<<id, v>>]
      BY <3>1 DEF InviteWrites, TypeOK, TablesType
    <3>3. ASSUME NEW f \in Emails
          PROVE  \/ email'[InvitedAt(f)] = f
                 \/ /\ email'[InvitedAt(f)] = NoEmail
                    /\ \A id \in Ids : members'[<<id, InvitedAt(f)>>] = "none"
      <4>1. CASE InvitedAt(f) = u
        <5>1. email[u] = f \/ email[u] = NoEmail
          BY <4>1 DEF InvitedKeepTheirAddress
        <5>2. e = f
          BY <3>2, <4>1, <5>1, NamesAssumption
        <5>3. QED
          BY <3>2, <4>1, <5>2
      <4>2. CASE InvitedAt(f) # u
        BY <3>2, <4>2 DEF InvitedKeepTheirAddress
      <4>3. QED
        BY <4>1, <4>2
    <3>4. QED
      BY <3>3 DEF InvitedKeepTheirAddress
  <2>2. QED
    BY <1>1, <2>1
<1>6. ASSUME NEW c \in Persons, NEW u \in Users, NEW r \in RolesOrNone,
             (r \in Roles /\ updateRole(c, u, r)) \/ (r = "none" /\ removeMember(c, u))
      PROVE  InvitedKeepTheirAddress'
  <2>1. CASE ~UNCHANGED members
    <3>1. /\ web[c].ws \in Ids /\ members[<<web[c].ws, u>>] # "none" /\ email' = email
          /\ members' = [members EXCEPT ![<<web[c].ws, u>>] = r]
      BY <1>6, <2>1, Rewriting
    <3>2. \A id \in Ids : \A v \in Users \ {u} : members'[<<id, v>>] = members[<<id, v>>]
      BY <3>1 DEF TypeOK, TablesType
    <3>3. \A f \in Emails : u = InvitedAt(f) => email[u] = f
      BY <3>1 DEF InvitedKeepTheirAddress
    <3>4. QED
      BY <3>1, <3>2, <3>3 DEF InvitedKeepTheirAddress
  <2>2. QED
    BY <1>1, <1>6, <2>1, Rewriting
<1>7. QED
  BY <1>2, <1>3, <1>4, <1>5, <1>6, WebSteps, RolesAre

-----------------------------------------------------------------------------
(* Integrators and grants                                                  *)

LEMMA BackedNow ==
  ASSUME TypeOK, IntegratorHasGrant
  PROVE  \A id \in Ids : \A u \in Users :
           members[<<id, u>>] = "integrator"
             => <<id, email[u]>> \in grants \/ <<id, u>> \in excused
<1>1. \A id \in Ids : \A u \in Users :
         <<id, u>> \in DOMAIN members /\ <<id, u>>[1] = id /\ <<id, u>>[2] = u
  BY DEF TypeOK, TablesType
<1>2. QED
  BY <1>1 DEF IntegratorHasGrant

LEMMA BackedNext ==
  ASSUME TypeOK',
         \A id \in Ids : \A u \in Users :
           members'[<<id, u>>] = "integrator"
             => <<id, email'[u]>> \in grants' \/ <<id, u>> \in excused'
  PROVE  IntegratorHasGrant'
<1>1. \A m \in DOMAIN members' : m[1] \in Ids /\ m[2] \in Users /\ m = <<m[1], m[2]>>
  BY DEF TypeOK, TablesType
<1>2. QED
  BY <1>1 DEF IntegratorHasGrant

LEMMA OperatorsKeepGrants ==
  ASSUME TypeOK, TypeOK', RegistryInv, IntegratorHasGrant, NEW o \in Operators,
         OperatorStep(o)
  PROVE  IntegratorHasGrant'
<1>1. CASE UNCHANGED <<members, email, excused>> /\ grants \subseteq grants'
  BY <1>1, BackedNow, BackedNext
<1>2. CASE InsertIntegratorGrant(o)
  BY <1>1, <1>2 DEF InsertIntegratorGrant, ghosts
<1>3. CASE ForceRecreate(o)
  <2> DEFINE old == cli[o].ids
  <2>1. /\ \A i \in Ids : \A u \in Users :
             members'[<<i, u>>] = IF i \in old THEN "none" ELSE members[<<i, u>>]
        /\ \A g \in grants : g[1] \notin old => g \in grants'
        /\ \A x \in excused : x[1] \notin old => x \in excused'
        /\ email' = email
    BY <1>3, Recreated
  <2> HIDE DEF old
  <2>2. ASSUME NEW id \in Ids, NEW u \in Users, members'[<<id, u>>] = "integrator"
        PROVE  <<id, email'[u]>> \in grants' \/ <<id, u>> \in excused'
    <3>1. id \notin old /\ members[<<id, u>>] = "integrator"
      BY <2>1, <2>2
    <3>2. <<id, email[u]>>[1] = id /\ <<id, u>>[1] = id
      OBVIOUS
    <3>3. QED
      BY <2>1, <3>1, <3>2, BackedNow
  <2>3. QED
    BY <2>2, BackedNext
<1>4. CASE RevokeTx(o)
  <2>1. PICK i \in cli[o].ids :
          LET gone == Materialized(i, cli[o].mail) IN
          /\ grants' = grants \ {<<i, cli[o].mail>>}
          /\ members' = [m \in DOMAIN members |-> IF m \in gone THEN "none" ELSE members[m]]
          /\ excused' = excused \ gone
    BY <1>4 DEF RevokeTx
  <2> DEFINE gone == Materialized(i, cli[o].mail)
  <2>2. email' = email
    BY <1>4 DEF RevokeTx
  <2>3. ASSUME NEW id \in Ids, NEW u \in Users, members'[<<id, u>>] = "integrator"
        PROVE  <<id, email'[u]>> \in grants' \/ <<id, u>> \in excused'
    <3>1. <<id, u>> \in DOMAIN members /\ <<id, u>>[1] = id /\ <<id, u>>[2] = u
      BY DEF TypeOK, TablesType
    <3>2. <<id, u>> \notin gone /\ members[<<id, u>>] = "integrator"
      BY <2>1, <2>3, <3>1
    <3>3. id # i \/ email[u] # cli[o].mail
      BY <3>1, <3>2 DEF Materialized
    <3>4. QED
      BY <2>1, <2>2, <3>2, <3>3, BackedNow
  <2>4. QED
    BY <2>3, BackedNext
<1>5. QED
  BY <1>1, <1>2, <1>3, <1>4, MembershipSteps

LEMMA WebKeepsGrants ==
  ASSUME TypeOK, TypeOK', InvitedKeepTheirAddress, IntegratorHasGrant, WebNext
  PROVE  IntegratorHasGrant'
<1> USE UsersAre
<1>0. grants' = grants
  BY WebLeavesTheRegistry
<1>1. CASE UNCHANGED <<members, email, excused>>
  BY <1>0, <1>1, BackedNow, BackedNext
<1>2. CASE Browsing \/ TokenStep
  BY <1>1, <1>2, BrowsingTouchesNothing, TokensTyped DEF tenantVars, tables, ghosts
<1>3. ASSUME NEW p \in Persons, NEW e \in Addresses, CallbackIdentify(p, e)
      PROVE  IntegratorHasGrant'
  <2>1. /\ members' = members
        /\ email' = [email EXCEPT ![p] = IF e = NoEmail THEN @ ELSE e]
        /\ excused' = IF e \in {NoEmail, email[p]} THEN excused
                      ELSE excused \cup {m \in DOMAIN members :
                                           m[2] = p /\ members[m] = "integrator"}
    BY <1>3 DEF CallbackIdentify, UpsertUser
  <2>2. ASSUME NEW id \in Ids, NEW u \in Users, members'[<<id, u>>] = "integrator"
        PROVE  <<id, email'[u]>> \in grants' \/ <<id, u>> \in excused'
    <3>1. <<id, u>> \in DOMAIN members /\ <<id, u>>[2] = u
      BY DEF TypeOK, TablesType
    <3>2. <<id, email[u]>> \in grants \/ <<id, u>> \in excused
      BY <2>1, <2>2, BackedNow
    <3>3. excused \subseteq excused'
      BY <2>1
    <3>4. email'[u] = email[u] \/ <<id, u>> \in excused'
      BY <2>1, <2>2, <3>1 DEF TypeOK, TablesType
    <3>5. QED
      BY <1>0, <3>2, <3>3, <3>4
  <2>3. QED
    BY <2>2, BackedNext
<1>4. ASSUME NEW p \in Persons, CallbackJoin(p) PROVE IntegratorHasGrant'
  <2>1. email' = email
    BY <1>4 DEF CallbackJoin
  <2>2. CASE Registered(web[p].ws)
    <3> DEFINE ws == web[p].ws  role == web[p].role
    <3>1. /\ members' = [members EXCEPT ![<<ws, p>>] = EnsuredRole(members[<<ws, p>>], role)]
          /\ excused' = IF role = "integrator" /\ ~IntegratorGrantExists(ws, email[p])
                        THEN excused \cup {<<ws, p>>} ELSE excused
          /\ ws \in Ids /\ role \in RolesOrNone
      BY <1>4, <2>2, Joined
    <3>2. EnsuredRole(members[<<ws, p>>], role) \in {members[<<ws, p>>], role}
      BY <3>1, Ensured DEF TypeOK, TablesType
    <3> HIDE DEF ws, role
    <3>3. ASSUME NEW id \in Ids, NEW u \in Users, members'[<<id, u>>] = "integrator"
          PROVE  <<id, email'[u]>> \in grants' \/ <<id, u>> \in excused'
      <4>1. excused \subseteq excused'
        BY <3>1
      <4>2. CASE members[<<id, u>>] = "integrator"
        BY <1>0, <2>1, <4>1, <4>2, BackedNow
      <4>3. CASE members[<<id, u>>] # "integrator"
        <5>1. id = ws /\ u = p
          BY <3>1, <3>3, <4>3 DEF TypeOK, TablesType
        <5>2. role = "integrator"
          BY <3>1, <3>2, <3>3, <4>3, <5>1 DEF TypeOK, TablesType
        <5>3. QED
          BY <1>0, <2>1, <3>1, <5>1, <5>2 DEF IntegratorGrantExists
      <4>4. QED
        BY <4>2, <4>3
    <3>4. QED
      BY <3>3, BackedNext
  <2>3. QED
    BY <1>1, <1>4, <2>1, <2>2, Joined
<1>5. ASSUME NEW c \in Callers, NEW e \in Emails, NEW r \in Roles, invite(c, e, r)
      PROVE  IntegratorHasGrant'
  <2>1. CASE ~UNCHANGED <<members, email, excused>>
    <3>1. PICK u \in Users : InviteWrites(c, e, r, u)
      BY <1>5, <2>1, Inviting
    <3> DEFINE ws == web[c].ws
    <3>2. /\ ws \in Ids
          /\ email[u] = e \/ (u = InvitedAt(e) /\ \A v \in Users : email[v] # e)
          /\ email' = [email EXCEPT ![u] = e]
          /\ members' = [members EXCEPT ![<<ws, u>>] = r]
          /\ excused' = IF r = "integrator" THEN excused \cup {<<ws, u>>}
                        ELSE excused \ {<<ws, u>>}
      BY <1>5, <3>1, Inviting DEF InviteWrites, Excuse
    <3> HIDE DEF ws
    <3>3. ASSUME NEW id \in Ids, NEW v \in Users, members'[<<id, v>>] = "integrator"
          PROVE  <<id, email'[v]>> \in grants' \/ <<id, v>> \in excused'
      <4>1. CASE id = ws /\ v = u
        <5>1. r = "integrator"
          BY <3>2, <3>3, <4>1 DEF TypeOK, TablesType
        <5>2. QED
          BY <3>2, <4>1, <5>1
      <4>2. CASE ~(id = ws /\ v = u)
        <5>1. members[<<id, v>>] = "integrator" /\ <<id, v>> # <<ws, u>>
          BY <3>2, <3>3, <4>2 DEF TypeOK, TablesType
        <5>2. <<id, email[v]>> \in grants \/ <<id, v>> \in excused
          BY <5>1, BackedNow
        <5>3. email'[v] = email[v]
          <6>1. CASE v # u
            BY <3>2, <6>1 DEF TypeOK, TablesType
          <6>2. CASE v = u /\ email[u] = e
            BY <3>2, <6>2 DEF TypeOK, TablesType
          <6>3. CASE v = u /\ email[u] # e
            <7>1. u = InvitedAt(e)
              BY <3>2, <6>3
            <7>2. \A i \in Ids : members[<<i, u>>] = "none"
              BY <6>3, <7>1 DEF InvitedKeepTheirAddress
            <7>3. QED
              BY <5>1, <6>3, <7>2
          <6>4. QED
            BY <6>1, <6>2, <6>3
        <5>4. <<id, v>> \in excused => <<id, v>> \in excused'
          BY <3>2, <5>1
        <5>5. QED
          BY <1>0, <5>2, <5>3, <5>4
      <4>3. QED
        BY <4>1, <4>2
    <3>4. QED
      BY <3>3, BackedNext
  <2>2. QED
    BY <1>1, <2>1
<1>6. ASSUME NEW c \in Persons, NEW u \in Users, NEW r \in RolesOrNone,
             (r \in Roles /\ updateRole(c, u, r)) \/ (r = "none" /\ removeMember(c, u))
      PROVE  IntegratorHasGrant'
  <2>1. CASE ~UNCHANGED <<members, excused>>
    <3> DEFINE ws == web[c].ws
    <3>1. /\ ws \in Ids /\ email' = email
          /\ members' = [members EXCEPT ![<<ws, u>>] = r]
          /\ excused' = IF r = "integrator" THEN excused \cup {<<ws, u>>}
                        ELSE excused \ {<<ws, u>>}
      BY <1>6, <2>1, Rewriting DEF Excuse
    <3> HIDE DEF ws
    <3>2. ASSUME NEW id \in Ids, NEW v \in Users, members'[<<id, v>>] = "integrator"
          PROVE  <<id, email'[v]>> \in grants' \/ <<id, v>> \in excused'
      <4>1. CASE id = ws /\ v = u
        <5>1. r = "integrator"
          BY <3>1, <3>2, <4>1 DEF TypeOK, TablesType
        <5>2. QED
          BY <3>1, <4>1, <5>1
      <4>2. CASE ~(id = ws /\ v = u)
        <5>1. members[<<id, v>>] = "integrator" /\ <<id, v>> # <<ws, u>>
          BY <3>1, <3>2, <4>2 DEF TypeOK, TablesType
        <5>2. <<id, email[v]>> \in grants \/ <<id, v>> \in excused
          BY <5>1, BackedNow
        <5>3. QED
          BY <1>0, <3>1, <5>1, <5>2
      <4>3. QED
        BY <4>1, <4>2
    <3>3. QED
      BY <3>2, BackedNext
  <2>2. QED
    BY <1>1, <1>6, <2>1, Rewriting
<1>7. QED
  BY <1>2, <1>3, <1>4, <1>5, <1>6, WebSteps, RolesAre

LEMMA InitMembersInv == AccessInit => MembersInv
<1> SUFFICES ASSUME AccessInit PROVE MembersInv
  OBVIOUS
<1> USE UsersAre
<1>1. CASE TenantsInit
  BY <1>1 DEF TenantsInit, MembersInv, NothingOutlivesItsWorkspace, InvitedKeepTheirAddress,
              IntegratorHasGrant
<1>2. ASSUME NEW s \in Slugs, NEW R \in [Persons -> Roles \cup {"none"}], 1 \in Ids, InUse(s, R)
      PROVE  MembersInv
  <2>1. /\ rows = {NewRow(s, 1, TRUE)} /\ tokens = {}
        /\ grants = {<<1, email[p]>> : p \in {q \in Persons : R[q] = "integrator"}}
        /\ members = [m \in Ids \X Users |->
                        IF m[1] = 1 /\ m[2] \in Persons THEN R[m[2]] ELSE "none"]
    BY <1>2 DEF InUse
  <2>2. Registered(1)
    BY <1>2, <2>1, NewRowTyped DEF Registered, IdsOf
  <2>3. NothingOutlivesItsWorkspace
    <3>1. \A g \in grants : g[1] = 1
      BY <2>1
    <3>2. \A m \in DOMAIN members : members[m] # "none" => m[1] = 1
      BY <2>1
    <3>3. QED
      BY <2>1, <2>2, <3>1, <3>2 DEF NothingOutlivesItsWorkspace
  <2>4. InvitedKeepTheirAddress
    <3>1. ASSUME NEW e \in Emails
          PROVE  /\ email[InvitedAt(e)] = NoEmail
                 /\ \A id \in Ids : members[<<id, InvitedAt(e)>>] = "none"
      <4>1. \A c \in Claims : c[1] # InvitedAt(e)
        BY ClaimsAssumption
      <4>2. email[InvitedAt(e)] = NoEmail
        BY <1>2, <4>1 DEF InUse
      <4>3. QED
        BY <2>1, <4>2
    <3>2. QED
      BY <3>1 DEF InvitedKeepTheirAddress
  <2>5. IntegratorHasGrant
    <3>1. ASSUME NEW m \in DOMAIN members, members[m] = "integrator"
          PROVE  <<m[1], email[m[2]]>> \in grants
      BY <2>1, <3>1
    <3>2. QED
      BY <3>1 DEF IntegratorHasGrant
  <2>6. QED
    BY <2>3, <2>4, <2>5 DEF MembersInv
<1>3. QED
  BY <1>1, <1>2 DEF AccessInit

LEMMA NextMembersInv ==
  TypeOK /\ TypeOK' /\ RegistryInv /\ MembersInv /\ [Next]_vars => MembersInv'
<1> SUFFICES ASSUME TypeOK, TypeOK', RegistryInv, MembersInv, [Next]_vars PROVE MembersInv'
  OBVIOUS
<1> USE DEF MembersInv
<1>1. CASE TenantsNext
  BY <1>1, OperatorSteps, OperatorsOutliveNothing, OperatorsKeepAddresses, OperatorsKeepGrants
<1>2. CASE WebNext
  BY <1>2, WebOutlivesNothing, WebKeepsAddresses, WebKeepsGrants
<1>3. CASE UNCHANGED vars
  BY <1>3 DEF vars, tenantVars, tables, ghosts, NothingOutlivesItsWorkspace, Registered,
              IdsOf, InvitedKeepTheirAddress, IntegratorHasGrant
<1>4. QED
  BY <1>1, <1>2, <1>3 DEF Next

AccessInv == TypeOK /\ RegistryInv /\ MembersInv
LEMMA AccessInvariance == Spec => []AccessInv
<1>1. AccessInit => AccessInv
  BY InitTypeOK, InitRegistryInv, InitMembersInv DEF AccessInv
<1>2. AccessInv /\ [Next]_vars => AccessInv'
  <2> SUFFICES ASSUME AccessInv, [Next]_vars PROVE AccessInv'
    OBVIOUS
  <2>1. TypeOK'
    BY NextTypeOK DEF AccessInv
  <2>2. QED
    BY <2>1, NextRegistryInv, NextMembersInv DEF AccessInv
<1>3. QED
  BY <1>1, <1>2, PTL DEF Spec

(* THEOREM grants, tokens and memberships never outlive their workspace,   *)
(* for any number of operators, callers and workspaces: not even when one  *)
(* resolved the workspace before --force-recreate dropped it.              *)
THEOREM NoneOutlivesItsWorkspace == Spec => []NothingOutlivesItsWorkspace
<1>1. AccessInv => NothingOutlivesItsWorkspace
  BY DEF AccessInv, MembersInv
<1>2. QED
  BY <1>1, AccessInvariance, PTL

(* THEOREM an integrator's membership rests on a grant for the address its *)
(* user has, but for a sign-in that read a grant revoked since, a user     *)
(* whose address changed, and a role an owner wrote (integrator.go 67-141, *)
(* handlers.go 178-190).                                                   *)
THEOREM IntegratorsHaveGrants == Spec => []IntegratorHasGrant
<1>1. AccessInv => IntegratorHasGrant
  BY DEF AccessInv, MembersInv
<1>2. QED
  BY <1>1, AccessInvariance, PTL

-----------------------------------------------------------------------------
(* What a step may never do to a role                                      *)

LEMMA JoinRaises ==
  ASSUME TypeOK, TypeOK', NEW p \in Persons, CallbackJoin(p)
  PROVE  \A m \in DOMAIN members : Ranks[members'[m]] >= Ranks[members[m]]
<1> SUFFICES ASSUME NEW m \in Ids \X Users
             PROVE  Ranks[members'[m]] >= Ranks[members[m]]
  BY DEF TypeOK, TablesType
<1>1. members[m] \in RolesOrNone /\ members'[m] \in RolesOrNone
  BY DEF TypeOK, TablesType
<1>2. Ranks[members[m]] >= Ranks[members[m]]
  BY <1>1, RolesAre
<1>3. CASE members' = members
  BY <1>2, <1>3
<1>4. CASE members' # members
  <2>1. /\ members' = [members EXCEPT ![<<web[p].ws, p>>] =
                         EnsuredRole(members[<<web[p].ws, p>>], web[p].role)]
        /\ web[p].role \in RolesOrNone
    BY <1>4, Joined
  <2>2. CASE m = <<web[p].ws, p>>
    <3>1. members'[m] = EnsuredRole(members[m], web[p].role)
      BY <2>1, <2>2 DEF TypeOK, TablesType
    <3>2. QED
      BY <1>1, <2>1, <3>1, Ensured
  <2>3. CASE m # <<web[p].ws, p>>
    BY <1>2, <2>1, <2>3 DEF TypeOK, TablesType
  <2>4. QED
    BY <2>2, <2>3
<1>5. QED
  BY <1>3, <1>4

(* Who steps from "joining" to "idle": the sign-in itself, or the browser  *)
(* that goes away.                                                         *)
LEMMA JoiningEnds ==
  ASSUME TypeOK, WebNext, NEW p \in Persons, web[p].pc = "joining", web'[p].pc = "idle"
  PROVE  CallbackJoin(p) \/ UNCHANGED members
<1> USE UsersAre
<1>1. CASE Browsing \/ TokenStep
  BY <1>1, BrowsingTouchesNothing, TokensTyped DEF tenantVars, tables
<1>2. CASE \E q \in Persons, e \in Addresses : CallbackIdentify(q, e)
  BY <1>2 DEF CallbackIdentify
<1>3. ASSUME NEW q \in Persons, CallbackJoin(q) PROVE p = q
  BY <1>3, OverTyped DEF CallbackJoin, TypeOK
<1>4. ASSUME NEW c \in Callers, NEW e \in Emails, NEW r \in Roles, invite(c, e, r)
      PROVE  FALSE
  BY <1>4, Inviting, OverTyped DEF TypeOK
<1>5. ASSUME NEW c \in Persons, NEW u \in Users, NEW r \in RolesOrNone,
             (r \in Roles /\ updateRole(c, u, r)) \/ (r = "none" /\ removeMember(c, u))
      PROVE  FALSE
  BY <1>5, Rewriting, OverTyped DEF TypeOK
<1>6. QED
  BY <1>1, <1>2, <1>3, <1>4, <1>5, WebSteps, RolesAre

(* THEOREM signing in never lowers a role, however it races with owners,   *)
(* integrators and operators (store.go 101-128).                           *)
THEOREM SignInRaises == Spec => SignInOnlyRaises
<1> DEFINE A == \A p \in Persons : web[p].pc = "joining" /\ web'[p].pc = "idle" =>
                  \A m \in DOMAIN members : Ranks[members'[m]] >= Ranks[members[m]]
<1>1. AccessInv /\ AccessInv' /\ [Next]_vars => [A]_vars
  <2> SUFFICES ASSUME AccessInv, AccessInv', Next,
                      NEW p \in Persons, web[p].pc = "joining", web'[p].pc = "idle"
               PROVE  \A m \in DOMAIN members : Ranks[members'[m]] >= Ranks[members[m]]
    OBVIOUS
  <2> USE DEF AccessInv
  <2>1. \A m \in DOMAIN members : members[m] \in RolesOrNone
    BY DEF TypeOK, TablesType
  <2>2. CASE UNCHANGED members
    BY <2>1, <2>2, RolesAre
  <2>3. WebNext
    BY DEF Next, accessVars
  <2>4. QED
    BY <2>2, <2>3, JoiningEnds, JoinRaises
<1>2. QED
  BY <1>1, AccessInvariance, PTL DEF Spec, SignInOnlyRaises

LEMMA OwnerRoles ==
  ASSUME NEW r \in RolesOrNone
  PROVE  AtLeast(r, "owner") <=> r \in {"owner", "integrator"}
  BY RolesAre DEF AtLeast

(* What a workspace with an owner is owed after a step.                    *)
StillOwned(id) ==
  OwnerLevel(id, members) /\ (\E r \in rows' : r.id = id) =>
    OwnerLevel(id, members') \/ id \in upset'

LEMMA SameOwners ==
  ASSUME NEW id, \A u \in Users : members'[<<id, u>>] = members[<<id, u>>]
  PROVE  StillOwned(id)
  BY DEF StillOwned, OwnerLevel

LEMMA OperatorsLeaveOwners ==
  ASSUME TypeOK, RegistryInv, NEW o \in Operators, OperatorStep(o), NEW id \in Ids
  PROVE  StillOwned(id)
<1>1. CASE members' = members
  BY <1>1, SameOwners
<1>2. CASE InsertIntegratorGrant(o)
  BY <1>1, <1>2 DEF InsertIntegratorGrant
<1>3. CASE ForceRecreate(o)
  <2> DEFINE old == cli[o].ids
  <2>1. \A u \in Users :
           members'[<<id, u>>] = IF id \in old THEN "none" ELSE members[<<id, u>>]
    BY <1>3, Recreated
  <2>2. id \in old => ~\E r \in rows' : r.id = id
    <3>1. /\ cli[o].slug \in Slugs /\ minted + 1 \in Ids
          /\ \A r \in rows : r.id \in old => r \in RowsOf(cli[o].slug)
          /\ \A i \in old : i <= minted
          /\ rows' = (rows \ RowsOf(cli[o].slug)) \cup {NewRow(cli[o].slug, minted + 1, TRUE)}
      BY <1>3, ReplacedStep DEF RowReplaced, RowReplacedBy, RowsOf
    <3>2. NewRow(cli[o].slug, minted + 1, TRUE).id = minted + 1
      BY <3>1, NewRowTyped
    <3>3. id \in old => id # minted + 1
      BY <3>1 DEF TypeOK, TablesType
    <3> HIDE DEF old
    <3>4. QED
      BY <3>1, <3>2, <3>3
  <2> HIDE DEF old
  <2>3. CASE id \in old
    BY <2>2, <2>3 DEF StillOwned
  <2>4. CASE id \notin old
    BY <2>1, <2>4, SameOwners
  <2>5. QED
    BY <2>3, <2>4
<1>4. CASE RevokeTx(o)
  <2>1. PICK i \in cli[o].ids :
          LET gone == Materialized(i, cli[o].mail) IN
          /\ members' = [m \in DOMAIN members |-> IF m \in gone THEN "none" ELSE members[m]]
          /\ upset' = IF gone = {} THEN upset ELSE upset \cup {i}
    BY <1>4 DEF RevokeTx
  <2> DEFINE gone == Materialized(i, cli[o].mail)
  <2>2. \A u \in Users : <<id, u>> \in gone => id = i
    BY DEF Materialized
  <2>3. CASE \E u \in Users : <<id, u>> \in gone
    BY <2>1, <2>2, <2>3 DEF StillOwned
  <2>4. CASE ~\E u \in Users : <<id, u>> \in gone
    <3>1. \A u \in Users : members'[<<id, u>>] = members[<<id, u>>]
      BY <2>1, <2>4 DEF TypeOK, TablesType
    <3>2. QED
      BY <3>1, SameOwners
  <2>5. QED
    BY <2>3, <2>4
<1>5. QED
  BY <1>1, <1>2, <1>3, <1>4, MembershipSteps

(* A caller who still has an owner's role, and is not the target, keeps it. *)
LEMMA CallerStays ==
  ASSUME TypeOK, NEW c, NEW id \in Ids, ~Stale(c, id), NEW u \in Users, c # u, NEW r,
         members' = [members EXCEPT ![<<id, u>>] = r]
  PROVE  OwnerLevel(id, members')
<1>1. c \in Persons /\ AtLeast(members[<<id, c>>], "owner")
  BY DEF Stale, OwnRole, LookupRole, AtLeast
<1>2. members'[<<id, c>>] = members[<<id, c>>]
  BY <1>1, UsersAre DEF TypeOK, TablesType
<1>3. QED
  BY <1>1, <1>2, UsersAre DEF OwnerLevel

LEMMA WebLeavesOwners ==
  ASSUME TypeOK, TypeOK', WebNext, NEW id \in Ids
  PROVE  StillOwned(id)
<1> USE UsersAre
<1>1. CASE members' = members
  BY <1>1, SameOwners
<1>2. CASE Browsing \/ TokenStep
  BY <1>1, <1>2, BrowsingTouchesNothing, TokensTyped DEF tenantVars, tables
<1>3. CASE \E p \in Persons, e \in Addresses : CallbackIdentify(p, e)
  BY <1>1, <1>3 DEF CallbackIdentify
<1>4. ASSUME NEW p \in Persons, CallbackJoin(p) PROVE StillOwned(id)
  <2>1. \A u \in Users : /\ members[<<id, u>>] \in RolesOrNone
                         /\ members'[<<id, u>>] \in RolesOrNone
                         /\ <<id, u>> \in DOMAIN members
    BY DEF TypeOK, TablesType
  <2>2. \A u \in Users : AtLeast(members[<<id, u>>], "owner")
                           => AtLeast(members'[<<id, u>>], "owner")
    <3>1. \A m \in DOMAIN members : Ranks[members'[m]] >= Ranks[members[m]]
      BY <1>4, JoinRaises
    <3>2. ASSUME NEW a \in RolesOrNone, NEW b \in RolesOrNone, Ranks[b] >= Ranks[a],
                 AtLeast(a, "owner")
          PROVE  AtLeast(b, "owner")
      BY <3>2, OwnerRoles, RolesAre
    <3>3. QED
      BY <2>1, <3>1, <3>2
  <2>3. QED
    BY <2>2 DEF StillOwned, OwnerLevel
<1>5. ASSUME NEW c \in Callers, NEW e \in Emails, NEW r \in Roles, invite(c, e, r)
      PROVE  StillOwned(id)
  <2>1. CASE members' # members
    <3>1. PICK u \in Users : InviteWrites(c, e, r, u)
      BY <1>5, <2>1, Inviting
    <3> DEFINE ws == web[c].ws
    <3>2. /\ ws \in Ids /\ members' = [members EXCEPT ![<<ws, u>>] = r]
          /\ upset' = IF Stale(c, ws) \/ (u = c /\ ~AtLeast(r, "owner"))
                      THEN upset \cup {ws} ELSE upset
      BY <1>5, <3>1, Inviting DEF InviteWrites, Upset
    <3> HIDE DEF ws
    <3>3. CASE id # ws
      <4>1. \A v \in Users : members'[<<id, v>>] = members[<<id, v>>]
        BY <3>2, <3>3 DEF TypeOK, TablesType
      <4>2. QED
        BY <4>1, SameOwners
    <3>4. CASE id = ws /\ u # c
      <4>1. Stale(c, id) \/ OwnerLevel(id, members')
        BY <3>2, <3>4, CallerStays
      <4>2. QED
        BY <3>2, <3>4, <4>1 DEF StillOwned
    <3>5. CASE id = ws /\ u = c
      <4>1. members'[<<id, u>>] = r
        BY <3>2, <3>5 DEF TypeOK, TablesType
      <4>2. QED
        BY <3>2, <3>5, <4>1 DEF StillOwned, OwnerLevel
    <3>6. QED
      BY <3>3, <3>4, <3>5
  <2>2. QED
    BY <1>1, <2>1
<1>6. ASSUME NEW c \in Persons, NEW u \in Users, NEW r \in RolesOrNone,
             (r \in Roles /\ updateRole(c, u, r)) \/ (r = "none" /\ removeMember(c, u))
      PROVE  StillOwned(id)
  <2>1. CASE members' # members
    <3> DEFINE ws == web[c].ws
    <3>1. /\ ws \in Ids /\ c # u /\ members' = [members EXCEPT ![<<ws, u>>] = r]
          /\ upset' = IF Stale(c, ws) THEN upset \cup {ws} ELSE upset
      BY <1>6, <2>1, Rewriting DEF Upset
    <3> HIDE DEF ws
    <3>2. CASE id # ws
      <4>1. \A v \in Users : members'[<<id, v>>] = members[<<id, v>>]
        BY <3>1, <3>2 DEF TypeOK, TablesType
      <4>2. QED
        BY <4>1, SameOwners
    <3>3. CASE id = ws
      <4>1. Stale(c, id) \/ OwnerLevel(id, members')
        BY <3>1, <3>3, CallerStays
      <4>2. QED
        BY <3>1, <3>3, <4>1 DEF StillOwned
    <3>4. QED
      BY <3>2, <3>3
  <2>2. QED
    BY <1>1, <2>1
<1>7. QED
  BY <1>2, <1>3, <1>4, <1>5, <1>6, WebSteps, RolesAre

(* THEOREM a workspace that has an owner or integrator keeps one, but for  *)
(* a caller whose own role is gone since it was read, an invitation of     *)
(* one's own address at a lower role, and an operator's revocation         *)
(* (handler.go 160-226).                                                   *)
THEOREM OwnersStay == Spec => OwnersLeaveOnlyByKnownWays
<1> DEFINE A == \A id \in Ids : OwnerLevel(id, members) /\ (\E r \in rows' : r.id = id) =>
                                  OwnerLevel(id, members') \/ id \in upset'
<1>1. AccessInv /\ AccessInv' /\ [Next]_vars => [A]_vars
  <2> SUFFICES ASSUME AccessInv, AccessInv', Next, NEW id \in Ids PROVE StillOwned(id)
    BY DEF StillOwned
  <2>1. CASE TenantsNext
    BY <2>1, OperatorSteps, OperatorsLeaveOwners DEF AccessInv
  <2>2. CASE WebNext
    BY <2>2, WebLeavesOwners DEF AccessInv
  <2>3. QED
    BY <2>1, <2>2 DEF Next
<1>2. QED
  BY <1>1, AccessInvariance, PTL DEF Spec, OwnersLeaveOnlyByKnownWays
=============================================================================
