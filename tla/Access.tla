------------------------------- MODULE Access -------------------------------
(* Who may act in a workspace: sign-in (internal/auth), the request's       *)
(* principal (internal/workspace, internal/rbac), member management         *)
(* (internal/members) and service tokens, on the tables of Tenants.  A      *)
(* sign-in is split where it commits; a request reads its role in the       *)
(* middleware and writes in its handler, and anything may happen between.   *)
EXTENDS Tenants

CONSTANTS
  Claims,      \* <<person, email>> the identity provider may assert
  TokenNames,  \* bearer tokens
  MaxRequests  \* sign-ins and requests started in a behaviour

ASSUME ClaimsAssumption == Claims \subseteq Persons \X (Emails \cup {NoEmail})
ASSUME RequestsAssumption == MaxRequests \in Nat /\ TokenNames \cap Persons = {}
(* The issuer of an invited address is synthetic: no provider vouches for it. *)
ASSUME InvitedAssumption == Persons \cap {[invited |-> e] : e \in Emails} = {}

VARIABLES
  web,         \* caller -> [pc, slug, ws, role, mail]: its sign-in or request
  cookies,     \* session cookies: [user, slug, ws]
  requests     \* sign-ins and requests still to start

accessVars == <<web, cookies, requests>>
vars == <<tenantVars, accessVars>>
Callers == Persons \cup TokenNames

Away == [pc |-> "idle", slug |-> CHOOSE s \in Slugs : TRUE, ws |-> 0,
         role |-> "none", mail |-> NoEmail]

(* A registry without workspaces, or one with a workspace in use.           *)
InUse(s, R) ==
  /\ email = [u \in Users |-> IF \E c \in Claims : c[1] = u
                              THEN (CHOOSE c \in Claims : c[1] = u)[2] ELSE NoEmail]
  /\ rows = {NewRow(s, 1, TRUE)} /\ minted = 1 /\ objects = Things(1, TRUE)
  /\ audit = {<<"provisioned", 1>>}
  /\ grants = {<<1, email[p]>> : p \in {q \in Persons : R[q] = "integrator"}}
  /\ tokens = {} /\ unaudited = {} /\ excused = {} /\ upset = {}
  /\ members = [m \in Ids \X Users |->
                  IF m[1] = 1 /\ m[2] \in Persons THEN R[m[2]] ELSE "none"]
  /\ cli = [o \in Operators |-> Off] /\ commands \in 0..MaxCommands
  /\ cookies = {[user |-> p, slug |-> s, ws |-> 1] : p \in {q \in Persons : R[q] # "none"}}
AccessInit ==
  /\ requests \in 0..MaxRequests
  /\ web = [c \in Callers |-> Away]
  /\ \/ TenantsInit /\ cookies = {}
     \/ \E s \in Slugs \ Reserved, R \in [Persons -> Roles \cup {"none"}] :
          1 \in Ids /\ InUse(s, R)

(* Role.AtLeast and the SQL CASE that repeats the order.                    *)
AtLeast(r, min) == r # "none" /\ Ranks[r] >= Ranks[min]
roleRankCase(r) == Ranks[r]

Start(c) == web[c].pc = "idle" /\ requests > 0 /\ requests' = requests - 1
Step(c, pc) == web[c].pc = pc /\ UNCHANGED requests
Turn(c, pc, s, id, r) ==
  web' = [web EXCEPT ![c] = [pc |-> pc, slug |-> s, ws |-> id, role |-> r,
                             mail |-> NoEmail]]
Over(c) == web' = [web EXCEPT ![c] = Away]
NoTenancy == UNCHANGED tenantVars

-----------------------------------------------------------------------------
(* Sign-in                                                                  *)

(* WorkspaceBySlug: the lookup does not look at tombstoned_at.              *)
WorkspaceBySlug(s) == IdsOf(RowsOf(s))

(* Login: the subdomain must exist; the state cookie remembers it.          *)
Login(p, s) ==
  /\ Start(p)
  /\ WorkspaceBySlug(s) # {}
  /\ Turn(p, "away", s, 0, "none")
  /\ NoTenancy /\ UNCHANGED cookies

(* UpsertUser: COALESCE keeps the stored email when the claim is empty.     *)
UpsertUser(p, e) ==
  email' = [email EXCEPT ![p] = IF e = NoEmail THEN @ ELSE e]

(* Callback on the subdomain of the state cookie: exchange, workspace,      *)
(* identity.  The claimed e-mail decides the grant in the next step.        *)
CallbackIdentify(p, e) ==
  /\ Step(p, "away")
  /\ <<p, e>> \in Claims
  /\ \E id \in WorkspaceBySlug(web[p].slug) :
       /\ UpsertUser(p, e)
       /\ excused' = IF e \in {NoEmail, email[p]} THEN excused
                     ELSE excused \cup {m \in DOMAIN members :
                                          m[2] = p /\ members[m] = "integrator"}
       /\ web' = [web EXCEPT ![p].pc = "known", ![p].ws = id, ![p].mail = e]
  /\ UNCHANGED <<rows, minted, objects, audit, grants, members, tokens, cli,
                 commands, unaudited, upset, cookies>>

IntegratorGrantExists(id, e) == e # NoEmail /\ <<id, e>> \in grants

(* The grant check; an error fails open to the least role.                  *)
CallbackElevate(p, fails) ==
  /\ Step(p, "known")
  /\ LET granted == IntegratorGrantExists(web[p].ws, web[p].mail) IN
       web' = [web EXCEPT ![p].pc = "joining",
                          ![p].role = IF granted /\ ~fails THEN "integrator" ELSE "member"]
  /\ NoTenancy /\ UNCHANGED cookies

(* EnsureMemberWithRole: only upwards.                                      *)
(* Faulty variant: the role of the login replaces the stored one.           *)
ReplacedRole(old, new) == new
EnsuredRole(old, new) == IF roleRankCase(new) > roleRankCase(old) THEN new ELSE old

CallbackJoin(p) ==
  /\ Step(p, "joining")
  /\ LET w == web[p]
         m == <<w.ws, p>>
     IN IF ~Registered(w.ws)      \* the foreign key refuses
        THEN UNCHANGED <<members, excused, cookies>>
        ELSE /\ members' = [members EXCEPT ![m] = EnsuredRole(@, w.role)]
             /\ cookies' = {c \in cookies : c.user # p \/ c.slug # w.slug}
                           \cup {[user |-> p, slug |-> w.slug, ws |-> w.ws]}
             /\ excused' = IF w.role = "integrator" /\ ~IntegratorGrantExists(w.ws, email[p])
                           THEN excused \cup {m} ELSE excused
  /\ Over(p)
  /\ UNCHANGED <<rows, minted, objects, audit, grants, email, tokens, cli,
                 commands, unaudited, upset>>

(* The browser goes away, the state cookie expires, the exchange fails.     *)
Abandon(c) ==
  /\ web[c].pc # "idle"
  /\ Over(c)
  /\ NoTenancy /\ UNCHANGED <<cookies, requests>>

(* Logout clears the browser's cookie (nothing else: main wires no          *)
(* revocation checker).                                                     *)
Logout(p, c) ==
  /\ Start(p)
  /\ c \in cookies /\ c.user = p
  /\ cookies' = cookies \ {c}
  /\ NoTenancy /\ UNCHANGED web

-----------------------------------------------------------------------------
(* A request's principal: MiddlewareWithBearer, then Resolve                *)

WorkspaceBySlugFull(s) == IdsOf(RowsOf(s))
LookupRole(id, u) == members[<<id, u>>]

ResolvedSession(c, id) == IF c.ws = id THEN LookupRole(id, c.user) ELSE "none"

SessionRequest(p, c) ==
  /\ Start(p)
  /\ c \in cookies /\ c.user = p
  /\ \E id \in WorkspaceBySlugFull(c.slug) :
       /\ ResolvedSession(c, id) # "none"
       /\ Turn(p, "in", c.slug, id, ResolvedSession(c, id))
  /\ NoTenancy /\ UNCHANGED cookies

(* roleFromScopes: capped at admin.                                         *)
roleFromScopes(scope) == IF scope = "all" THEN "admin" ELSE "member"

(* VerifyBearer among the candidates of the resolved workspace.             *)
LoadCandidates(id) == {t \in tokens : t.ws = id /\ t.live}
VerifyBearer(n, s, id) == {t \in LoadCandidates(id) : t.name = n /\ t.slug = s}

TokenRequest(n, s) ==
  /\ Start(n)
  /\ \E id \in WorkspaceBySlugFull(s) : \E t \in VerifyBearer(n, s, id) :
       Turn(n, "in", s, id, roleFromScopes(t.scope))
  /\ NoTenancy /\ UNCHANGED cookies

(* RequireRole(owner) in front of the member routes.                        *)
RequireRole(c, min) == Step(c, "in") /\ AtLeast(web[c].role, min)

-----------------------------------------------------------------------------
(* internal/members: the handlers behind RequireRole(owner).                *)

(* The first user row with that e-mail, or the placeholder identity.        *)
Invitees(e) ==
  LET known == {u \in Users : email[u] = e} IN
  IF known = {} THEN {[invited |-> e]} ELSE known

OwnRole(c, id) == IF c \in Persons THEN LookupRole(id, c) ELSE "none"

(* The books kept for the properties: a role written by hand has no grant   *)
(* behind it, and a caller may have lost their own since it was read.       *)
Excuse(m, new) ==
  excused' = IF new = "integrator" THEN excused \cup {m} ELSE excused \ {m}
Stale(c, id) == ~AtLeast(OwnRole(c, id), "owner")
Upset(id, why) == upset' = IF why THEN upset \cup {id} ELSE upset
Untouched == UNCHANGED <<rows, minted, objects, audit, grants, tokens, cli,
                         commands, unaudited, cookies>>

(* invite asks for no user, so a token comes through if its role does.      *)
invite(c, e, r) ==
  /\ RequireRole(c, "owner")
  /\ LET id == web[c].ws IN
       IF ~Registered(id)
       THEN UNCHANGED <<members, email, excused, upset>>
       ELSE \E u \in Invitees(e) :
              /\ email' = [email EXCEPT ![u] = e]
              /\ members' = [members EXCEPT ![<<id, u>>] = r]
              /\ Excuse(<<id, u>>, r)
              /\ Upset(id, Stale(c, id) \/ (u = c /\ ~AtLeast(r, "owner")))
  /\ Over(c) /\ Untouched

(* updateRole and removeMember: not on oneself; no row, no change.          *)
(* Faulty variant: the target is not compared with the caller.              *)
Anybody(c, u) == TRUE
Other(c, u) == c # u

updateRole(c, u, r) ==
  /\ RequireRole(c, "owner") /\ c \in Persons /\ Other(c, u)
  /\ LET m == <<web[c].ws, u>> IN
       IF LookupRole(m[1], u) = "none"
       THEN UNCHANGED <<members, excused, upset>>
       ELSE /\ members' = [members EXCEPT ![m] = r]
            /\ Excuse(m, r) /\ Upset(m[1], Stale(c, m[1]))
  /\ Over(c) /\ Untouched /\ UNCHANGED email

removeMember(c, u) ==
  /\ RequireRole(c, "owner") /\ c \in Persons /\ Other(c, u)
  /\ LET m == <<web[c].ws, u>> IN
       IF LookupRole(m[1], u) = "none"
       THEN UNCHANGED <<members, excused, upset>>
       ELSE /\ members' = [members EXCEPT ![m] = "none"]
            /\ Excuse(m, "none") /\ Upset(m[1], Stale(c, m[1]))
  /\ Over(c) /\ Untouched /\ UNCHANGED email

-----------------------------------------------------------------------------
(* Service tokens: the routes carry no role gate, only the subdomain.       *)

CreateToken(n, s, scope) ==
  /\ Start(n)
  /\ ~\E t \in tokens : t.name = n
  /\ \E id \in WorkspaceBySlugFull(s) :
       tokens' = tokens \cup {[name |-> n, slug |-> s, ws |-> id, scope |-> scope,
                               live |-> TRUE]}
  /\ UNCHANGED <<rows, minted, objects, audit, grants, members, email, cli,
                 commands, ghosts, web, cookies>>
DeleteToken(n, s, t) ==
  /\ Start(n)
  /\ t \in tokens /\ t.ws \in WorkspaceBySlugFull(s)
  /\ tokens' = tokens \ {t}
  /\ UNCHANGED <<rows, minted, objects, audit, grants, members, email, cli,
                 commands, ghosts, web, cookies>>
ExpireToken(t) ==
  /\ t \in tokens /\ t.live
  /\ tokens' = (tokens \ {t}) \cup {[t EXCEPT !.live = FALSE]}
  /\ UNCHANGED <<rows, minted, objects, audit, grants, members, email, cli,
                 commands, ghosts, accessVars>>

WebNext ==
  \/ \E p \in Persons, s \in Slugs : Login(p, s)
  \/ \E p \in Persons, e \in Emails \cup {NoEmail} : CallbackIdentify(p, e)
  \/ \E p \in Persons, fails \in BOOLEAN : CallbackElevate(p, fails)
  \/ \E p \in Persons : CallbackJoin(p)
  \/ \E c \in Callers : Abandon(c)
  \/ \E p \in Persons, c \in cookies : Logout(p, c) \/ SessionRequest(p, c)
  \/ \E n \in TokenNames, s \in Slugs : TokenRequest(n, s)
  \/ \E c \in Callers, e \in Emails, r \in Roles : invite(c, e, r)
  \/ \E p \in Persons, u \in Users, r \in Roles : updateRole(p, u, r)
  \/ \E p \in Persons, u \in Users : removeMember(p, u)
  \/ \E n \in TokenNames, s \in Slugs, scope \in {"all", "read"} : CreateToken(n, s, scope)
  \/ \E n \in TokenNames, s \in Slugs, t \in tokens : DeleteToken(n, s, t)
  \/ \E t \in tokens : ExpireToken(t)

Next == (TenantsNext /\ UNCHANGED accessVars) \/ WebNext
Spec == AccessInit /\ [][Next]_vars

-----------------------------------------------------------------------------
(* PROPERTY an integrator's membership rests on a grant for the e-mail its  *)
(* user has, except in the ways the code leaves open: a sign-in that read   *)
(* the grant before the revoke deleted it, a user whose e-mail changed, an  *)
(* owner who wrote the role (integrator.go 67-141, handlers.go 178-190).    *)
IntegratorHasGrant ==
  \A m \in DOMAIN members :
    members[m] = "integrator" => <<m[1], email[m[2]]>> \in grants \/ m \in excused

(* PROPERTY a workspace that has an owner or integrator keeps one, unless   *)
(* two of them act on each other at once, one invites their own address at  *)
(* a lower role, or an operator revokes an integrator (handler.go 160-226   *)
(* checks only that the target is not the caller).                          *)
OwnerLevel(id, M) == \E u \in Users : AtLeast(M[<<id, u>>], "owner")
OwnersLeaveOnlyByKnownWays ==
  [][\A id \in Ids : OwnerLevel(id, members) /\ (\E r \in rows' : r.id = id) =>
       OwnerLevel(id, members') \/ id \in upset']_vars

(* PROPERTY signing in never lowers a role, however it races with the       *)
(* owners' changes: only operators, owners and integrators take one away    *)
(* (store.go 101-128).                                                      *)
SignInOnlyRaises ==
  [][\A p \in Persons : web[p].pc = "joining" /\ web'[p].pc = "idle" =>
       \A m \in DOMAIN members : Ranks[members'[m]] >= Ranks[members[m]]]_vars
=============================================================================
