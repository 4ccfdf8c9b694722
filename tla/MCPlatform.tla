------------------------------ MODULE MCPlatform ------------------------------
(* Tenants, their members and their sessions on small instances.  A         *)
(* behaviour is about the registry and access, or about revocation, which   *)
(* main.go does not wire into the handlers of the first.                    *)
EXTENDS Access, Revocation

CONSTANTS acme, www, op1, op2, ann, bob, ea, eb, tk, j1, j2

MCClaims == {<<ann, ea>>, <<bob, eb>>, <<bob, ea>>}
MCProbe == [j \in Jtis \cup {NoJti} |-> IF j = j1 THEN {1, 2} ELSE IF j = j2 THEN {2, 3} ELSE {1, 3}]

VARIABLE about
platformVars == <<vars, revocationVars, about>>

(* Two commands against each other, or one against requests of two people. *)
Alone == commands = 2 /\ requests = 0 /\ cookies = {}
Together ==
  /\ commands = 1
  /\ \/ requests = 3 /\ members[1, ann] = "none" /\ members[1, bob] = "none"
     \/ requests = 2 /\ members[1, ann] = "owner" /\ members[1, bob] = "owner"
     \/ requests = 2 /\ members[1, ann] = "integrator" /\ members[1, bob] = "none"

(* Two cookies of one user and two rows, or a cookie each of two users and *)
(* one row.                                                                *)
OfOne ==
  /\ Cardinality(sessions) \in 1..2 /\ Cardinality(byJti) <= 2
  /\ \A s \in sessions : s.user = ann
OfTwo ==
  /\ sessions # {} /\ Cardinality(sessions) = Cardinality({s.user : s \in sessions})
  /\ \A s \in sessions \cup byJti : s.jti # j2
  /\ Cardinality(byJti) <= 1
NoTenants == commands = 0 /\ requests = 0 /\ rows = {}

PlatformInit ==
  /\ AccessInit /\ RevocationInit
  /\ \/ about = "access" /\ (Alone \/ Together) /\ now = MaxTime
     \/ about = "one user" /\ NoTenants /\ now = 0 /\ OfOne
     \/ about = "two users" /\ NoTenants /\ now = 1 /\ OfTwo /\ EncodeSession(ann) \in sessions
PlatformNext ==
  /\ UNCHANGED about
  /\ \/ about = "access" /\ Next /\ UNCHANGED revocationVars
     \/ about = "one user" /\ RevocationNext /\ OfOne' /\ UNCHANGED vars
     \/ about = "two users" /\ RevocationNext /\ OfTwo' /\ UNCHANGED vars
PlatformSpec == PlatformInit /\ [][PlatformNext]_platformVars
=============================================================================
