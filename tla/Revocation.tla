----------------------------- MODULE Revocation -----------------------------
(* Session cookies and their revocation (internal/auth): two tables, and    *)
(* the cache of them that a checker asks: a bloom filter of the revoked     *)
(* JTIs and a map of users, rebuilt in the background.  Cookies carry whole *)
(* seconds, the database keeps finer ones: time here counts half seconds.   *)
EXTENDS Integers, FiniteSets

CONSTANTS
  Holders,     \* users
  Jtis, NoJti, \* session identifiers; a V1 cookie has none
  Bits, Probe, \* the bloom filter's bits, and those a JTI probes
  MaxAge,      \* session lifetime in seconds
  MaxTime      \* half seconds a behaviour lasts

ASSUME ProbeAssumption ==
  NoJti \notin Jtis /\ Probe \in [Jtis \cup {NoJti} -> SUBSET Bits]
ASSUME TimesAssumption == MaxAge \in Nat \ {0} /\ MaxTime \in Nat

VARIABLES
  now,
  sessions,    \* cookies handed out: [user, jti, iat, exp], in seconds
  byJti,       \* core.session_revocations: [jti, exp]
  byUser,      \* core.user_revocations: user -> half second, -1 for no row
  filter,      \* RevocationCache.atomicFilter: the bits set
  userRevoked, \* RevocationCache.userRevoked: user -> second, -1 for none
  refresher,   \* the refresh under way: [pc, jtis, users]
  revoked,     \* ghost: sessions whose own user revoked them
  named,       \* ghost: sessions whose identifier another user's Revoke gave
  due,         \* ghost: those committed before the last whole refresh began
  early        \* ghost: revoked from a session that expires before them

revocationVars == <<now, sessions, byJti, byUser, filter, userRevoked, refresher,
                    revoked, named, due, early>>

Sec(t) == t \div 2
NoUsers == [u \in Holders |-> -1]
Resting == [pc |-> "idle", jtis |-> {}, users |-> NoUsers, before |-> {}]

(* The life of a cookie of format V1 or V2: EncodeSession, EncodeSessionV2. *)
EncodeSession(u) == [user |-> u, jti |-> NoJti, iat |-> Sec(now), exp |-> Sec(now) + MaxAge]
EncodeSessionV2(s, j) == [s EXCEPT !.jti = IF @ = NoJti THEN j ELSE @]
(* DecodeSession, DecodeSessionV2: what is left of it when it is presented. *)
Decodes(s) == Sec(now) <= s.exp

RevocationInit ==
  /\ now \in 0..MaxTime
  /\ sessions \in SUBSET {EncodeSession(u) : u \in Holders}
  /\ byJti = {} /\ byUser = NoUsers
  /\ filter = {} /\ userRevoked = NoUsers /\ refresher = Resting
  /\ revoked = {} /\ named = {} /\ due = {} /\ early = {}

CacheAlone == UNCHANGED <<filter, userRevoked, refresher, due>>
TablesAlone == UNCHANGED <<sessions, byJti, byUser, revoked, named, early>>

(* The sessions against which a revocation is committed.                    *)
Cut == revoked \cup named

Tick ==
  /\ now < MaxTime /\ now' = now + 1
  /\ TablesAlone /\ CacheAlone

-----------------------------------------------------------------------------
(* RevocationCache.IsRevoked and the bloom filter                           *)

bloomTest(j) == Probe[j] \subseteq filter
PointQuery(j) == \E r \in byJti : r.jti = j /\ 2 * r.exp > now
UserMapSays(s) == userRevoked[s.user] # -1 /\ s.iat <= userRevoked[s.user]

(* Faulty variant: a bloom positive is taken for an answer.                 *)
IsRevokedByFilter(s) == UserMapSays(s) \/ bloomTest(s.jti)
IsRevoked(s) == UserMapSays(s) \/ (bloomTest(s.jti) /\ PointQuery(s.jti))

(* Handler.isRevoked: the point query may fail, and then the session stands. *)
isRevoked(s, fails) == IF fails THEN UserMapSays(s) ELSE IsRevoked(s)
Admitted(s) == s \in sessions /\ Decodes(s)

-----------------------------------------------------------------------------
(* The handlers                                                             *)

(* uuid.New: an identifier that no cookie and no row has.                   *)
Fresh(j) == (\A s \in sessions : s.jti # j) /\ (\A r \in byJti : r.jti # j)

SignIn(u, j) ==
  /\ Fresh(j)
  /\ sessions' = sessions \cup {EncodeSessionV2(EncodeSession(u), j)}
  /\ UNCHANGED <<now, byJti, byUser, revoked, named, early>> /\ CacheAlone

(* Me: a V1 cookie is exchanged for a V2 one with the same times.           *)
Me(s, j, fails) ==
  /\ Admitted(s) /\ s.jti = NoJti /\ ~isRevoked(s, fails)
  /\ Fresh(j)
  /\ sessions' = sessions \cup {EncodeSessionV2(s, j)}
  /\ UNCHANGED <<now, byJti, byUser, revoked, named, early>> /\ CacheAlone

(* RevokeSession: ON CONFLICT DO NOTHING; the row lives as long as the      *)
(* session that asks, not as long as the one revoked.                       *)
RevokeSession(j, asker) ==
  /\ byJti' = IF \E r \in byJti : r.jti = j THEN byJti
              ELSE byJti \cup {[jti |-> j, exp |-> asker.exp]}
  /\ LET gone == {s \in sessions : s.jti = j} IN
       /\ revoked' = revoked \cup {s \in gone : s.user = asker.user}
       /\ early' = early \cup {s \in gone \ Cut : asker.exp < s.exp}

LogoutSession(s) ==
  /\ Admitted(s) /\ s.jti # NoJti
  /\ RevokeSession(s.jti, s)
  /\ UNCHANGED <<now, sessions, byUser, named>> /\ CacheAlone

(* Revoke stores whatever UUID it is sent: of another user's session, of no *)
(* session, or the nil one, which every V1 cookie bears.                    *)
Revoke(s, j, fails) ==
  /\ Admitted(s) /\ ~isRevoked(s, fails)
  /\ RevokeSession(j, s)
  /\ named' = named \cup {t \in sessions : t.jti = j /\ t.user # s.user}
  /\ UNCHANGED <<now, sessions, byUser>> /\ CacheAlone

(* RevokeAll, RevokeAllUserSessions                                         *)
RevokeAll(s, fails) ==
  /\ Admitted(s) /\ ~isRevoked(s, fails)
  /\ byUser' = [byUser EXCEPT ![s.user] = now]
  /\ revoked' = revoked \cup {t \in sessions : t.user = s.user}
  /\ UNCHANGED <<now, sessions, byJti, named, early>> /\ CacheAlone

CleanExpiredRevocations ==
  /\ byJti' = {r \in byJti : 2 * r.exp >= now}
  /\ UNCHANGED <<now, sessions, byUser, revoked, named, early>> /\ CacheAlone

-----------------------------------------------------------------------------
(* RevocationCache.refresh, one database round trip or store at a time      *)

refreshLoadJTIs ==
  /\ refresher.pc = "idle"
  /\ refresher' = [pc |-> "jtis", jtis |-> {r.jti : r \in {q \in byJti : 2 * q.exp > now}},
                   users |-> NoUsers, before |-> Cut]
  /\ UNCHANGED <<now, filter, userRevoked, due>> /\ TablesAlone

(* The filter is stored, then the users are asked for.  The column is cast  *)
(* to a whole second, which rounds half a second up.                        *)
(* Faulty variant: the cast truncates.                                      *)
loadTruncated == [u \in Holders |-> IF byUser[u] = -1 THEN -1 ELSE Sec(byUser[u]) - 1]
loadUserRevocations == [u \in Holders |-> IF byUser[u] = -1 THEN -1 ELSE Sec(byUser[u] + 1)]
refreshStoreFilter(fails) ==
  /\ refresher.pc = "jtis"
  /\ filter' = UNION {Probe[j] : j \in refresher.jtis}
  /\ refresher' = IF fails THEN Resting
                  ELSE [refresher EXCEPT !.pc = "users", !.users = loadUserRevocations]
  /\ UNCHANGED <<now, userRevoked, due>> /\ TablesAlone

refreshStoreUsers ==
  /\ refresher.pc = "users"
  /\ userRevoked' = refresher.users
  /\ due' = refresher.before
  /\ refresher' = Resting
  /\ UNCHANGED <<now, filter>> /\ TablesAlone

(* A new process starts with an empty cache and refreshes it.               *)
NewRevocationCache ==
  /\ filter' = {} /\ userRevoked' = NoUsers /\ refresher' = Resting /\ due' = {}
  /\ UNCHANGED now /\ TablesAlone

RevocationNext ==
  \/ Tick
  \/ \E u \in Holders, j \in Jtis : SignIn(u, j)
  \/ \E s \in sessions, j \in Jtis, fails \in BOOLEAN : Me(s, j, fails)
  \/ \E s \in sessions : LogoutSession(s)
  \/ \E s \in sessions, j \in Jtis \cup {NoJti}, fails \in BOOLEAN : Revoke(s, j, fails)
  \/ \E s \in sessions, fails \in BOOLEAN : RevokeAll(s, fails)
  \/ CleanExpiredRevocations
  \/ refreshLoadJTIs \/ refreshStoreUsers
  \/ \E fails \in BOOLEAN : refreshStoreFilter(fails)
  \/ NewRevocationCache
RevocationSpec == RevocationInit /\ [][RevocationNext]_revocationVars

-----------------------------------------------------------------------------
(* PROPERTY once a whole refresh began after a revocation, the cache        *)
(* refuses the session as long as its cookie decodes, however the refresh   *)
(* interleaves with other revocations and even when a later one loads the   *)
(* JTIs and then fails on the users (revocation.go 109-134).  Two holes are *)
(* the code's: the row dies with the session that asked (handlers.go 409),  *)
(* and a cookie still decodes in the second it expires.                     *)
RevokedIsRefused ==
  \A s \in due : Sec(now) < s.exp => IsRevoked(s) \/ s \in early

(* PROPERTY the cache refuses only what was revoked, as a false positive of *)
(* the bloom filter is looked up (revocation.go 175-198), and a logout ends *)
(* its user's session alone (handlers.go 361).  Two exceptions, the code's: *)
(* Revoke takes any identifier, so that one user ends another's session, or *)
(* with the nil UUID every V1 session of everybody, where handlers.go       *)
(* 377-378 says that a caller can only revoke their own; and a revocation   *)
(* of all also refuses what its user signs in within the next second.       *)
OnlyRevokedIsRefused ==
  \A s \in sessions : IsRevoked(s) =>
    \/ s \in revoked
    \/ s \in named
    \/ byUser[s.user] # -1 /\ 2 * s.iat <= byUser[s.user] + 1
=============================================================================
