-------------------------- MODULE RevocationProofs --------------------------
(***************************************************************************)
(* Proofs about Revocation for every set of users and identifiers and      *)
(* every bloom filter: once a whole refresh began after a revocation, the  *)
(* cache refuses the session, and it refuses only sessions that their own  *)
(* user revoked or whose identifier another user gave to Revoke.           *)
(***************************************************************************)
EXTENDS Revocation, TLAPS

SessionType == [user : Holders, jti : Jtis \cup {NoJti}, iat : Nat, exp : Nat]

TypeOK ==
  /\ now \in Nat
  /\ sessions \subseteq SessionType
  /\ byJti \subseteq [jti : Jtis \cup {NoJti}, exp : Nat]
  /\ byUser \in [Holders -> Nat \cup {-1}]
  /\ userRevoked \in [Holders -> Nat \cup {-1}]
  /\ refresher \in [pc : {"idle", "jtis", "users"}, jtis : SUBSET (Jtis \cup {NoJti}),
                    users : [Holders -> Nat \cup {-1}], before : SUBSET SessionType]
  /\ revoked \subseteq sessions /\ named \subseteq sessions
  /\ due \subseteq Cut /\ refresher.before \subseteq Cut

-----------------------------------------------------------------------------
(* The inductive invariant *)

(* What the tables hold against a revoked session.                         *)
ByUserRow(s) == byUser[s.user] # -1 /\ s.iat <= Sec(byUser[s.user])
ByJtiRow(s) == \E r \in byJti : r.jti = s.jti /\ r.exp >= s.exp
Excused(s) == s \in early \/ Sec(now) >= s.exp

TimesArePast ==
  /\ \A s \in sessions : s.iat <= Sec(now)
  /\ \A u \in Holders : byUser[u] <= now

RowsCoverTheRevoked == \A s \in Cut : ByUserRow(s) \/ ByJtiRow(s) \/ Excused(s)

(* An identifier other than the nil one is of one user's sessions, and no  *)
(* session gets one that a row has.                                        *)
IdsAreOfOneUser ==
  \A s, t \in sessions : s.jti = t.jti /\ s.jti # NoJti => s.user = t.user
RowsAreOfRevoked ==
  \A r \in byJti : \A s \in sessions : s.jti = r.jti => s \in Cut

(* The user times in memory are roundings of times in the table.           *)
NotAhead(u, second) == second # -1 => byUser[u] # -1 /\ second <= Sec(byUser[u] + 1)
CacheIsNotAhead ==
  \A u \in Holders : NotAhead(u, userRevoked[u]) /\ NotAhead(u, refresher.users[u])

(* What the cache, and a refresh under way, hold against those sessions.   *)
ByFilter(s) == bloomTest(s.jti) /\ ByJtiRow(s)
ByLoaded(s) == s.jti \in refresher.jtis /\ ByJtiRow(s)
ByLoadedUser(s) == refresher.users[s.user] # -1 /\ s.iat <= refresher.users[s.user]

CacheCoversDue == \A s \in due : UserMapSays(s) \/ ByFilter(s) \/ Excused(s)
RefreshCovers ==
  /\ refresher.pc = "jtis" =>
       /\ \A s \in refresher.before : ByUserRow(s) \/ ByLoaded(s) \/ Excused(s)
       /\ \A s \in due : UserMapSays(s) \/ ByLoaded(s) \/ Excused(s)
  /\ refresher.pc = "users" =>
       \A s \in refresher.before : ByLoadedUser(s) \/ ByFilter(s) \/ Excused(s)

CacheInv ==
  /\ TimesArePast /\ RowsCoverTheRevoked /\ IdsAreOfOneUser /\ RowsAreOfRevoked
  /\ CacheIsNotAhead /\ CacheCoversDue /\ RefreshCovers

-----------------------------------------------------------------------------
(* Type correctness *)

LEMMA SecBounds ==
  ASSUME NEW t \in Nat
  PROVE  Sec(t) \in Nat /\ 2 * Sec(t) <= t /\ t <= 2 * Sec(t) + 1
  BY DEF Sec

LEMMA SecMonotone == ASSUME NEW a \in Nat, NEW b \in Nat, a <= b PROVE Sec(a) <= Sec(b)
  BY SecBounds

LEMMA NewSession ==
  ASSUME now \in Nat, NEW u \in Holders, NEW j \in Jtis
  PROVE  /\ EncodeSession(u) \in SessionType
         /\ EncodeSession(u).iat = Sec(now) /\ EncodeSession(u).jti = NoJti
         /\ EncodeSessionV2(EncodeSession(u), j) \in SessionType
         /\ EncodeSessionV2(EncodeSession(u), j).iat = Sec(now)
         /\ EncodeSessionV2(EncodeSession(u), j).jti = j
  BY SecBounds, TimesAssumption DEF SessionType, EncodeSession, EncodeSessionV2

LEMMA UpgradedSession ==
  ASSUME NEW s \in SessionType, s.jti = NoJti, NEW j \in Jtis
  PROVE  /\ EncodeSessionV2(s, j) \in SessionType
         /\ EncodeSessionV2(s, j).iat = s.iat /\ EncodeSessionV2(s, j).jti = j
  BY DEF SessionType, EncodeSessionV2

LEMMA RestingType ==
  /\ NoUsers \in [Holders -> Nat \cup {-1}]
  /\ Resting \in [pc : {"idle", "jtis", "users"}, jtis : SUBSET (Jtis \cup {NoJti}),
                  users : [Holders -> Nat \cup {-1}], before : SUBSET SessionType]
  /\ Resting.pc = "idle" /\ Resting.users = NoUsers /\ Resting.before = {}
  BY DEF Resting, NoUsers

LEMMA LoadedUsersType ==
  ASSUME TypeOK
  PROVE  /\ loadUserRevocations \in [Holders -> Nat \cup {-1}]
         /\ \A u \in Holders :
              IF byUser[u] = -1 THEN loadUserRevocations[u] = -1
              ELSE byUser[u] \in Nat /\ loadUserRevocations[u] = Sec(byUser[u] + 1)
<1>1. \A u \in Holders : byUser[u] # -1 => byUser[u] \in Nat /\ byUser[u] + 1 \in Nat
  BY DEF TypeOK
<1>2. \A u \in Holders : byUser[u] # -1 => Sec(byUser[u] + 1) \in Nat
  BY <1>1, SecBounds
<1>3. QED
  BY <1>1, <1>2 DEF loadUserRevocations

LEMMA RevokeSessionType ==
  ASSUME TypeOK, NEW a \in sessions, NEW j \in Jtis \cup {NoJti}, RevokeSession(j, a)
  PROVE  /\ byJti' \subseteq [jti : Jtis \cup {NoJti}, exp : Nat]
         /\ revoked \subseteq revoked' /\ revoked' \subseteq sessions
  BY DEF TypeOK, SessionType, RevokeSession

LEMMA InitTypeOK == RevocationInit => TypeOK
<1> SUFFICES ASSUME RevocationInit PROVE TypeOK
  OBVIOUS
<1>1. now \in Nat
  BY TimesAssumption DEF RevocationInit
<1>2. sessions \subseteq SessionType
  <2>1. \A u \in Holders : EncodeSession(u) \in SessionType
    BY <1>1, SecBounds, TimesAssumption DEF EncodeSession, SessionType
  <2>2. QED
    BY <2>1 DEF RevocationInit
<1>3. QED
  BY <1>1, <1>2, RestingType DEF RevocationInit, TypeOK, Cut

LEMMA NextTypeOK == TypeOK /\ [RevocationNext]_revocationVars => TypeOK'
<1> SUFFICES ASSUME TypeOK, [RevocationNext]_revocationVars PROVE TypeOK'
  OBVIOUS
<1> USE DEF CacheAlone, TablesAlone, Cut
<1>1. CASE Tick
  BY <1>1 DEF Tick, TypeOK
<1>2. ASSUME NEW u \in Holders, NEW j \in Jtis, SignIn(u, j) PROVE TypeOK'
  BY <1>2, NewSession DEF SignIn, TypeOK
<1>3. ASSUME NEW s \in sessions, NEW j \in Jtis, NEW f \in BOOLEAN, Me(s, j, f) PROVE TypeOK'
  BY <1>3, UpgradedSession DEF Me, TypeOK
<1>4. ASSUME NEW s \in sessions, LogoutSession(s) PROVE TypeOK'
  <2>1. s.jti \in Jtis BY <1>4 DEF LogoutSession, TypeOK, SessionType
  <2>2. QED BY <1>4, <2>1, RevokeSessionType DEF LogoutSession, TypeOK
<1>5. ASSUME NEW s \in sessions, NEW j \in Jtis \cup {NoJti}, NEW f \in BOOLEAN, Revoke(s, j, f) PROVE TypeOK'
  BY <1>5, RevokeSessionType DEF Revoke, TypeOK
<1>6. ASSUME NEW s \in sessions, NEW f \in BOOLEAN, RevokeAll(s, f) PROVE TypeOK'
  BY <1>6 DEF RevokeAll, TypeOK
<1>7. CASE CleanExpiredRevocations
  BY <1>7 DEF CleanExpiredRevocations, TypeOK
<1>8. CASE refreshLoadJTIs
  BY <1>8, RestingType DEF refreshLoadJTIs, TypeOK
<1>9. ASSUME NEW f \in BOOLEAN, refreshStoreFilter(f) PROVE TypeOK'
  BY <1>9, RestingType, LoadedUsersType DEF refreshStoreFilter, TypeOK
<1>10. CASE refreshStoreUsers
  BY <1>10, RestingType DEF refreshStoreUsers, TypeOK
<1>11. CASE NewRevocationCache
  BY <1>11, RestingType DEF NewRevocationCache, TypeOK
<1>12. CASE UNCHANGED revocationVars
  BY <1>12 DEF revocationVars, TypeOK
<1>13. QED
  BY <1>1, <1>2, <1>3, <1>4, <1>5, <1>6, <1>7, <1>8, <1>9, <1>10, <1>11, <1>12 DEF RevocationNext

(* Revocation!TypeOK (revocation.go 31-198, handlers.go 196-505): the       *)
(* revocation tables, the cache's filter and map, and what a refresh and a  *)
(* logout hold between two statements keep their types.                     *)
THEOREM TypeCorrect == RevocationSpec => []TypeOK
<1>1. RevocationInit => TypeOK BY InitTypeOK
<1>2. TypeOK /\ [RevocationNext]_revocationVars => TypeOK' BY NextTypeOK
<1>3. QED BY <1>1, <1>2, PTL DEF RevocationSpec

-----------------------------------------------------------------------------
(* What the tables hold against a session stays, or has outlived it. *)

Lasting ==
  /\ now <= now' /\ sessions \subseteq sessions' /\ early \subseteq early'
  /\ \A u \in Holders : byUser'[u] = byUser[u] \/ (byUser[u] <= byUser'[u] /\ byUser'[u] # -1)
  /\ \A r \in byJti : r \in byJti' \/ Sec(now') >= r.exp

LEMMA StepIsLasting ==
  ASSUME TypeOK, TimesArePast, [RevocationNext]_revocationVars PROVE Lasting
<1> USE DEF CacheAlone, TablesAlone, Lasting
<1>1. CASE CleanExpiredRevocations
  <2>1. \A r \in byJti : r \notin byJti' => 2 * r.exp < now
    BY <1>1 DEF CleanExpiredRevocations, TypeOK
  <2>2. \A r \in byJti : r \notin byJti' => Sec(now) >= r.exp
    BY <2>1, SecBounds DEF TypeOK
  <2>3. QED
    BY <1>1, <2>2 DEF CleanExpiredRevocations, TypeOK
<1>2. ASSUME NEW s \in sessions, NEW f \in BOOLEAN, RevokeAll(s, f) PROVE Lasting
  BY <1>2 DEF RevokeAll, TypeOK, TimesArePast
<1>3. ASSUME NEW a \in sessions, NEW j, RevokeSession(j, a), UNCHANGED <<now, sessions, byUser>>
      PROVE  Lasting
  BY <1>3 DEF RevokeSession, TypeOK
<1>4. ASSUME NEW s \in sessions, LogoutSession(s) PROVE Lasting
  BY <1>3, <1>4 DEF LogoutSession
<1>5. ASSUME NEW s \in sessions, NEW j \in Jtis \cup {NoJti}, NEW f \in BOOLEAN, Revoke(s, j, f) PROVE Lasting
  BY <1>3, <1>5 DEF Revoke
<1>6. ASSUME now' = now \/ now' = now + 1, sessions \subseteq sessions',
             UNCHANGED <<byJti, byUser, early>>
      PROVE  Lasting
  BY <1>6 DEF TypeOK
<1>7. QED
  BY <1>1, <1>2, <1>4, <1>5, <1>6 DEF RevocationNext, revocationVars, Tick, SignIn, Me,
    refreshLoadJTIs, refreshStoreFilter, refreshStoreUsers, NewRevocationCache

LEMMA RowsLast ==
  ASSUME TypeOK, TypeOK', TimesArePast, Lasting, NEW s \in sessions
  PROVE  /\ ByUserRow(s) => ByUserRow(s)'
         /\ ByJtiRow(s) => ByJtiRow(s)' \/ Excused(s)'
         /\ Excused(s) => Excused(s)'
<1>1. s.user \in Holders /\ s.iat \in Nat /\ s.exp \in Nat /\ now \in Nat /\ now' \in Nat
  BY DEF TypeOK, SessionType
<1>2. Sec(now) <= Sec(now') /\ Sec(now) \in Nat /\ Sec(now') \in Nat
  BY <1>1, SecBounds, SecMonotone DEF Lasting
<1>3. ByUserRow(s) => ByUserRow(s)'
  <2>1. CASE byUser'[s.user] = byUser[s.user]
    BY <2>1 DEF ByUserRow
  <2>2. CASE byUser[s.user] # -1 /\ byUser'[s.user] # -1 /\ byUser[s.user] <= byUser'[s.user]
    <3>1. byUser[s.user] \in Nat /\ byUser'[s.user] \in Nat
      BY <1>1, <2>2 DEF TypeOK
    <3>2. Sec(byUser[s.user]) <= Sec(byUser'[s.user])
      BY <2>2, <3>1, SecMonotone
    <3>3. Sec(byUser[s.user]) \in Nat /\ Sec(byUser'[s.user]) \in Nat
      BY <3>1, SecBounds
    <3>4. QED
      BY <1>1, <2>2, <3>2, <3>3 DEF ByUserRow
  <2>3. QED
    BY <1>1, <2>1, <2>2 DEF Lasting, ByUserRow
<1>4. ByJtiRow(s) => ByJtiRow(s)' \/ Excused(s)'
  BY <1>1, <1>2 DEF Lasting, ByJtiRow, Excused, TypeOK
<1>5. Excused(s) => Excused(s)'
  BY <1>1, <1>2 DEF Lasting, Excused
<1>6. QED BY <1>3, <1>4, <1>5

-----------------------------------------------------------------------------
(* The parts of the invariant about the tables *)

LEMMA TimesStayPast ==
  ASSUME TypeOK, TypeOK', TimesArePast, [RevocationNext]_revocationVars PROVE TimesArePast'
<1> USE DEF CacheAlone, TablesAlone
<1>1. now \in Nat /\ now' \in Nat /\ Sec(now) \in Nat /\ Sec(now') \in Nat
  BY SecBounds DEF TypeOK
<1>2. now <= now' /\ Sec(now) <= Sec(now')
  BY <1>1, StepIsLasting, SecMonotone DEF Lasting
<1>3. \A u \in Holders : byUser'[u] = byUser[u] \/ byUser'[u] = now
  BY DEF RevocationNext, revocationVars, Tick, SignIn, Me, LogoutSession, Revoke, RevokeAll,
    CleanExpiredRevocations, refreshLoadJTIs, refreshStoreFilter, refreshStoreUsers,
    NewRevocationCache, TypeOK
<1>4. \A s \in sessions' : s \in sessions \/ s.iat = Sec(now) \/ \E t \in sessions : s.iat = t.iat
  <2>1. ASSUME NEW u \in Holders, NEW j \in Jtis, SignIn(u, j) PROVE <1>4!:
    BY <2>1, <1>1, NewSession DEF SignIn
  <2>2. ASSUME NEW t \in sessions, NEW j \in Jtis, NEW f \in BOOLEAN, Me(t, j, f) PROVE <1>4!:
    BY <2>2, UpgradedSession DEF Me, TypeOK
  <2>3. QED
    BY <2>1, <2>2 DEF RevocationNext, revocationVars, Tick, LogoutSession, Revoke, RevokeAll,
      CleanExpiredRevocations, refreshLoadJTIs, refreshStoreFilter, refreshStoreUsers,
      NewRevocationCache
<1>5. \A s \in sessions' : s.iat \in Nat
  BY DEF TypeOK, SessionType
<1>6. \A s \in sessions : s.iat \in Nat
  BY DEF TypeOK, SessionType
<1>7. \A s \in sessions' : s.iat <= Sec(now')
  BY <1>1, <1>2, <1>4, <1>5, <1>6 DEF TimesArePast
<1>8. \A u \in Holders : byUser'[u] <= now'
  BY <1>1, <1>2, <1>3 DEF TimesArePast, TypeOK
<1>9. QED BY <1>7, <1>8 DEF TimesArePast

LEMMA IdsStayOfOneUser ==
  ASSUME TypeOK, TypeOK', IdsAreOfOneUser, [RevocationNext]_revocationVars
  PROVE  IdsAreOfOneUser'
<1> USE DEF CacheAlone, TablesAlone
<1>1. ASSUME NEW u \in Holders, NEW j \in Jtis, SignIn(u, j) PROVE IdsAreOfOneUser'
  BY <1>1, NewSession DEF SignIn, Fresh, IdsAreOfOneUser, TypeOK
<1>2. ASSUME NEW s \in sessions, NEW j \in Jtis, NEW f \in BOOLEAN, Me(s, j, f)
      PROVE  IdsAreOfOneUser'
  BY <1>2, UpgradedSession DEF Me, Fresh, IdsAreOfOneUser, TypeOK
<1>3. ASSUME UNCHANGED sessions PROVE IdsAreOfOneUser'
  BY <1>3 DEF IdsAreOfOneUser
<1>4. QED
  BY <1>1, <1>2, <1>3 DEF RevocationNext, revocationVars, Tick, LogoutSession, Revoke,
    RevokeAll, CleanExpiredRevocations, refreshLoadJTIs, refreshStoreFilter,
    refreshStoreUsers, NewRevocationCache

LEMMA RowsStayOfRevoked ==
  ASSUME TypeOK, TypeOK', IdsAreOfOneUser, RowsAreOfRevoked, [RevocationNext]_revocationVars
  PROVE  RowsAreOfRevoked'
<1> USE DEF CacheAlone, TablesAlone, Cut
<1>1. ASSUME NEW a \in sessions, NEW j \in Jtis \cup {NoJti}, RevokeSession(j, a),
             sessions' = sessions, named \subseteq named',
             \A s \in sessions : s.jti = j => s \in revoked' \cup named'
      PROVE  RowsAreOfRevoked'
  BY <1>1 DEF RevokeSession, RowsAreOfRevoked
<1>2. ASSUME NEW u \in Holders, NEW j \in Jtis, SignIn(u, j) PROVE RowsAreOfRevoked'
  BY <1>2, NewSession DEF SignIn, Fresh, RowsAreOfRevoked, TypeOK
<1>3. ASSUME NEW s \in sessions, NEW j \in Jtis, NEW f \in BOOLEAN, Me(s, j, f) PROVE RowsAreOfRevoked'
  BY <1>3, UpgradedSession DEF Me, Fresh, RowsAreOfRevoked, TypeOK
<1>4. ASSUME NEW s \in sessions, LogoutSession(s) PROVE RowsAreOfRevoked'
  <2>1. s.jti \in Jtis BY <1>4 DEF LogoutSession, TypeOK, SessionType
  <2>2. \A t \in sessions : t.jti = s.jti => t \in revoked'
    BY <1>4 DEF LogoutSession, RevokeSession, IdsAreOfOneUser
  <2>3. QED BY <1>1, <1>4, <2>1, <2>2 DEF LogoutSession
<1>5. ASSUME NEW s \in sessions, NEW j \in Jtis \cup {NoJti}, NEW f \in BOOLEAN, Revoke(s, j, f)
      PROVE  RowsAreOfRevoked'
  <2>1. \A t \in sessions : t.jti = j => t \in revoked' \cup named'
    BY <1>5 DEF Revoke, RevokeSession
  <2>2. QED BY <1>1, <1>5, <2>1 DEF Revoke
<1>6. ASSUME NEW s \in sessions, NEW f \in BOOLEAN, RevokeAll(s, f) PROVE RowsAreOfRevoked'
  BY <1>6 DEF RevokeAll, RowsAreOfRevoked
<1>7. CASE CleanExpiredRevocations
  BY <1>7 DEF CleanExpiredRevocations, RowsAreOfRevoked
<1>8. ASSUME UNCHANGED <<sessions, byJti, revoked, named>> PROVE RowsAreOfRevoked'
  BY <1>8 DEF RowsAreOfRevoked
<1>9. QED
  BY <1>2, <1>3, <1>4, <1>5, <1>6, <1>7, <1>8 DEF RevocationNext, revocationVars, Tick,
    refreshLoadJTIs, refreshStoreFilter, refreshStoreUsers, NewRevocationCache

(* A revocation writes a row that covers the session, unless it is early.  *)
LEMMA RevokedIsCovered ==
  ASSUME TypeOK, TypeOK', TimesArePast, RowsAreOfRevoked, [RevocationNext]_revocationVars,
         NEW s \in Cut', s \notin Cut
  PROVE  ByUserRow(s)' \/ ByJtiRow(s)' \/ Excused(s)'
<1> USE DEF CacheAlone, TablesAlone
<1>1. s \in SessionType /\ s.exp \in Nat
  BY DEF TypeOK, SessionType, Cut
<1>2. ASSUME NEW a \in sessions, NEW j \in Jtis \cup {NoJti}, RevokeSession(j, a),
             sessions' = sessions,
             named' \subseteq named \cup {t \in sessions : t.jti = j}
      PROVE  ByJtiRow(s)' \/ Excused(s)'
  <2>1. s \in sessions /\ s.jti = j
    BY <1>2 DEF RevokeSession, Cut
  <2>2. \A r \in byJti : r.jti # j
    BY <2>1 DEF RowsAreOfRevoked
  <2>3. byJti' = byJti \cup {[jti |-> j, exp |-> a.exp]}
    BY <1>2, <2>2 DEF RevokeSession
  <2>4. a.exp \in Nat
    BY DEF TypeOK, SessionType
  <2>5. CASE a.exp < s.exp
    BY <1>2, <2>1, <2>5 DEF RevokeSession, Excused
  <2>6. CASE a.exp >= s.exp
    <3>1. [jti |-> j, exp |-> a.exp] \in byJti' BY <2>3
    <3>2. QED BY <2>1, <2>6, <3>1 DEF ByJtiRow
  <2>7. QED BY <1>1, <2>4, <2>5, <2>6
<1>3. ASSUME NEW a \in sessions, LogoutSession(a) PROVE ByJtiRow(s)' \/ Excused(s)'
  <2>1. a.jti \in Jtis BY <1>3 DEF LogoutSession, TypeOK, SessionType
  <2>2. QED BY <1>2, <1>3, <2>1 DEF LogoutSession
<1>4. ASSUME NEW a \in sessions, NEW j \in Jtis \cup {NoJti}, NEW f \in BOOLEAN, Revoke(a, j, f)
      PROVE  ByJtiRow(s)' \/ Excused(s)'
  BY <1>2, <1>4 DEF Revoke
<1>5. ASSUME NEW a \in sessions, NEW f \in BOOLEAN, RevokeAll(a, f) PROVE ByUserRow(s)'
  <2>1. s \in sessions /\ s.user = a.user /\ a.user \in Holders
    BY <1>5 DEF RevokeAll, TypeOK, SessionType, Cut
  <2>2. byUser'[s.user] = now /\ now # -1
    BY <1>5, <2>1 DEF RevokeAll, TypeOK
  <2>3. QED BY <2>1, <2>2 DEF TimesArePast, ByUserRow
<1>6. QED
  BY <1>3, <1>4, <1>5 DEF RevocationNext, revocationVars, Tick, SignIn, Me,
    CleanExpiredRevocations, refreshLoadJTIs, refreshStoreFilter, refreshStoreUsers,
    NewRevocationCache, Cut

LEMMA RevokedStayCovered ==
  ASSUME TypeOK, TypeOK', TimesArePast, RowsAreOfRevoked, RowsCoverTheRevoked,
         [RevocationNext]_revocationVars
  PROVE  RowsCoverTheRevoked'
<1>1. SUFFICES ASSUME NEW s \in Cut' PROVE ByUserRow(s)' \/ ByJtiRow(s)' \/ Excused(s)'
  BY DEF RowsCoverTheRevoked
<1>2. CASE s \notin Cut
  BY <1>2, RevokedIsCovered
<1>3. CASE s \in Cut
  <2>1. s \in sessions BY <1>3 DEF TypeOK, Cut
  <2>2. ByUserRow(s) \/ ByJtiRow(s) \/ Excused(s) BY <1>3 DEF RowsCoverTheRevoked
  <2>3. QED BY <2>1, <2>2, StepIsLasting, RowsLast
<1>4. QED BY <1>2, <1>3

-----------------------------------------------------------------------------
(* The parts of the invariant about the cache *)

LEMMA CacheStaysBehind ==
  ASSUME TypeOK, TypeOK', TimesArePast, CacheIsNotAhead, [RevocationNext]_revocationVars
  PROVE  CacheIsNotAhead'
<1> USE DEF CacheAlone, TablesAlone
<1>1. ASSUME NEW u \in Holders, NEW v \in Nat \cup {-1}, NotAhead(u, v) PROVE NotAhead(u, v)'
  <2>1. CASE v = -1
    BY <2>1 DEF NotAhead
  <2>2. CASE v # -1 /\ byUser'[u] = byUser[u]
    BY <1>1, <2>2 DEF NotAhead
  <2>3. CASE v # -1 /\ byUser'[u] # -1 /\ byUser[u] <= byUser'[u]
    <3>1. /\ byUser[u] \in Nat /\ byUser'[u] \in Nat
          /\ byUser[u] + 1 \in Nat /\ byUser'[u] + 1 \in Nat
      BY <1>1, <2>3 DEF NotAhead, TypeOK
    <3>2. Sec(byUser[u] + 1) <= Sec(byUser'[u] + 1)
      BY <2>3, <3>1, SecMonotone
    <3>3. Sec(byUser[u] + 1) \in Nat /\ Sec(byUser'[u] + 1) \in Nat
      BY <3>1, SecBounds
    <3>4. QED
      BY <1>1, <2>3, <3>2, <3>3 DEF NotAhead
  <2>4. QED
    BY <2>1, <2>2, <2>3, StepIsLasting DEF Lasting
<1>2. ASSUME NEW u \in Holders PROVE NotAhead(u, loadUserRevocations[u])
  <2>1. CASE byUser[u] = -1
    BY <2>1, LoadedUsersType DEF NotAhead
  <2>2. CASE byUser[u] # -1
    <3>1. byUser[u] \in Nat /\ loadUserRevocations[u] = Sec(byUser[u] + 1)
      BY <2>2, LoadedUsersType
    <3>2. QED
      BY <2>2, <3>1, SecBounds DEF NotAhead
  <2>3. QED BY <2>1, <2>2
<1>3. \A u \in Holders : NotAhead(u, NoUsers[u])
  BY DEF NotAhead, NoUsers
<1>4. \A u \in Holders : \/ userRevoked'[u] = userRevoked[u]
                         \/ userRevoked'[u] = refresher.users[u]
                         \/ userRevoked'[u] = NoUsers[u]
  BY DEF RevocationNext, revocationVars, Tick, SignIn, Me, LogoutSession, Revoke, RevokeAll,
    CleanExpiredRevocations, refreshLoadJTIs, refreshStoreFilter, refreshStoreUsers,
    NewRevocationCache
<1>5. \A u \in Holders : \/ refresher'.users[u] = refresher.users[u]
                         \/ refresher'.users[u] = loadUserRevocations[u]
                         \/ refresher'.users[u] = NoUsers[u]
  <2>1. ASSUME NEW f \in BOOLEAN, refreshStoreFilter(f) PROVE <1>5!:
    <3>1. refresher'.users = NoUsers \/ refresher'.users = loadUserRevocations
      BY <2>1, RestingType DEF refreshStoreFilter, TypeOK
    <3>2. QED BY <3>1
  <2>2. ASSUME refreshLoadJTIs \/ refreshStoreUsers \/ NewRevocationCache PROVE <1>5!:
    <3>1. refresher'.users = NoUsers
      BY <2>2, RestingType DEF refreshLoadJTIs, refreshStoreUsers, NewRevocationCache
    <3>2. QED BY <3>1
  <2>3. ASSUME refresher' = refresher PROVE <1>5!:
    BY <2>3
  <2>4. QED
    BY <2>1, <2>2, <2>3 DEF RevocationNext, revocationVars, Tick, SignIn, Me, LogoutSession,
      Revoke, RevokeAll, CleanExpiredRevocations
<1>6. ASSUME NEW u \in Holders PROVE NotAhead(u, userRevoked[u])' /\ NotAhead(u, refresher.users[u])'
  <2> DEFINE known == {userRevoked[u], refresher.users[u], loadUserRevocations[u], NoUsers[u]}
  <2>1. known \subseteq Nat \cup {-1}
    BY LoadedUsersType, RestingType DEF TypeOK
  <2>2. \A v \in known : NotAhead(u, v)
    BY <1>2, <1>3 DEF CacheIsNotAhead
  <2>3. \A v \in known : v # -1 => byUser'[u] # -1 /\ v <= Sec(byUser'[u] + 1)
    BY <1>1, <2>1, <2>2 DEF NotAhead
  <2>4. userRevoked'[u] \in known /\ refresher'.users[u] \in known
    BY <1>4, <1>5
  <2> HIDE DEF known
  <2>5. QED
    BY <2>3, <2>4 DEF NotAhead
<1>7. QED BY <1>6 DEF CacheIsNotAhead

(* What a refresh loads and stores.                                        *)
LEMMA LoadedJtis ==
  ASSUME TypeOK, NEW s \in sessions, refreshLoadJTIs, ByJtiRow(s)
  PROVE  s.jti \in refresher'.jtis \/ Sec(now) >= s.exp
<1>1. PICK r \in byJti : r.jti = s.jti /\ r.exp >= s.exp
  BY DEF ByJtiRow
<1>2. now \in Nat /\ r.exp \in Nat /\ s.exp \in Nat
  BY DEF TypeOK, SessionType
<1>3. CASE 2 * r.exp > now
  BY <1>1, <1>3 DEF refreshLoadJTIs
<1>4. CASE ~(2 * r.exp > now)
  <2>1. Sec(now) \in Nat /\ now <= 2 * Sec(now) + 1
    BY <1>2, SecBounds
  <2>2. QED
    BY <1>1, <1>2, <1>4, <2>1
<1>5. QED BY <1>3, <1>4

LEMMA LoadedUsers ==
  ASSUME TypeOK, NEW s \in sessions, ByUserRow(s)
  PROVE  loadUserRevocations[s.user] # -1 /\ s.iat <= loadUserRevocations[s.user]
<1>1. s.user \in Holders /\ s.iat \in Nat
  BY DEF TypeOK, SessionType
<1>2. /\ byUser[s.user] \in Nat /\ loadUserRevocations[s.user] = Sec(byUser[s.user] + 1)
      /\ byUser[s.user] + 1 \in Nat
  BY <1>1, LoadedUsersType DEF ByUserRow
<1>3. Sec(byUser[s.user]) <= Sec(byUser[s.user] + 1)
  BY <1>2, SecMonotone
<1>4. Sec(byUser[s.user]) \in Nat /\ Sec(byUser[s.user] + 1) \in Nat
  BY <1>2, SecBounds
<1>5. QED
  BY <1>1, <1>2, <1>3, <1>4 DEF ByUserRow

LEMMA StoredFilter ==
  ASSUME NEW f \in BOOLEAN, refreshStoreFilter(f), NEW j \in refresher.jtis
  PROVE  bloomTest(j)'
  BY DEF refreshStoreFilter, bloomTest

(* The cache, or the refresh, is left alone by every other step.           *)
LEMMA OnlyTablesMove ==
  ASSUME TypeOK, TypeOK', TimesArePast, Lasting, CacheCoversDue, RefreshCovers,
         UNCHANGED <<filter, userRevoked, refresher, due>>
  PROVE  CacheCoversDue' /\ RefreshCovers'
<1>1. due \subseteq sessions /\ refresher.before \subseteq sessions
  BY DEF TypeOK, Cut
<1>2. \A s \in sessions : UserMapSays(s) => UserMapSays(s)'
  BY DEF UserMapSays
<1>3. \A s \in sessions : ByFilter(s) => ByFilter(s)' \/ Excused(s)'
  BY RowsLast DEF ByFilter, bloomTest
<1>4. \A s \in sessions : ByLoaded(s) => ByLoaded(s)' \/ Excused(s)'
  BY RowsLast DEF ByLoaded
<1>5. \A s \in sessions : ByLoadedUser(s) => ByLoadedUser(s)'
  BY DEF ByLoadedUser
<1>6. CacheCoversDue'
  BY <1>1, <1>2, <1>3, RowsLast DEF CacheCoversDue
<1>7. RefreshCovers'
  BY <1>1, <1>2, <1>3, <1>4, <1>5, RowsLast DEF RefreshCovers
<1>8. QED BY <1>6, <1>7

LEMMA CacheStaysCovering ==
  ASSUME TypeOK, TypeOK', CacheInv, [RevocationNext]_revocationVars
  PROVE  CacheCoversDue' /\ RefreshCovers'
<1> USE DEF CacheAlone, TablesAlone
<1>1. Lasting /\ TimesArePast
  BY StepIsLasting DEF CacheInv
<1>2. due \subseteq sessions /\ refresher.before \subseteq sessions /\ Cut \subseteq sessions
  BY DEF TypeOK, Cut
<1>3. CASE refreshLoadJTIs
  <2>1. UNCHANGED <<now, filter, userRevoked, due, byJti, byUser, early>>
    BY <1>3 DEF refreshLoadJTIs
  <2>2. refresher'.pc = "jtis" /\ refresher'.before = Cut
    BY <1>3 DEF refreshLoadJTIs
  <2>3. \A s \in sessions : ByJtiRow(s) => ByLoaded(s)' \/ Excused(s)'
    BY <1>3, <2>1, LoadedJtis DEF ByLoaded, ByJtiRow, Excused
  <2>4. \A s \in refresher'.before : ByUserRow(s)' \/ ByLoaded(s)' \/ Excused(s)'
    BY <1>2, <2>1, <2>2, <2>3 DEF CacheInv, RowsCoverTheRevoked, ByUserRow, Excused
  <2>5. \A s \in due : UserMapSays(s)' \/ ByLoaded(s)' \/ Excused(s)'
    BY <1>2, <2>1, <2>3 DEF CacheInv, CacheCoversDue, ByFilter, UserMapSays, Excused
  <2>6. CacheCoversDue'
    BY <2>1 DEF CacheInv, CacheCoversDue, UserMapSays, ByFilter, bloomTest, ByJtiRow, Excused
  <2>7. QED
    BY <2>1, <2>2, <2>4, <2>5, <2>6 DEF RefreshCovers
<1>4. ASSUME NEW f \in BOOLEAN, refreshStoreFilter(f) PROVE CacheCoversDue' /\ RefreshCovers'
  <2>1. UNCHANGED <<now, userRevoked, due, byJti, byUser, early>> /\ refresher.pc = "jtis"
    BY <1>4 DEF refreshStoreFilter
  <2>2. \A s \in sessions : ByLoaded(s) => ByFilter(s)'
    BY <1>4, <2>1, StoredFilter DEF ByLoaded, ByFilter, ByJtiRow
  <2>3. CacheCoversDue'
    BY <1>2, <2>1, <2>2 DEF CacheInv, RefreshCovers, CacheCoversDue, UserMapSays, Excused
  <2>4. CASE refresher' = Resting
    BY <2>3, <2>4, RestingType DEF RefreshCovers
  <2>5. CASE refresher' = [refresher EXCEPT !.pc = "users", !.users = loadUserRevocations]
    <3>1. /\ refresher'.pc = "users" /\ refresher'.before = refresher.before
          /\ refresher'.users = loadUserRevocations
      BY <2>5 DEF TypeOK
    <3>2. \A s \in sessions : ByUserRow(s) => ByLoadedUser(s)'
      BY <3>1, LoadedUsers DEF ByLoadedUser
    <3>3. \A s \in refresher'.before : ByLoadedUser(s)' \/ ByFilter(s)' \/ Excused(s)'
      BY <1>2, <2>1, <2>2, <3>1, <3>2 DEF CacheInv, RefreshCovers, Excused
    <3>4. QED
      BY <2>3, <3>1, <3>3 DEF RefreshCovers
  <2>6. QED
    BY <1>4, <2>4, <2>5 DEF refreshStoreFilter
<1>5. CASE refreshStoreUsers
  <2>1. /\ UNCHANGED <<now, filter, byJti, byUser, early>> /\ refresher.pc = "users"
        /\ userRevoked' = refresher.users /\ due' = refresher.before /\ refresher'.pc = "idle"
    BY <1>5, RestingType DEF refreshStoreUsers
  <2>2. \A s \in due' : UserMapSays(s)' \/ ByFilter(s)' \/ Excused(s)'
    BY <2>1 DEF CacheInv, RefreshCovers, UserMapSays, ByLoadedUser, ByFilter, bloomTest,
      ByJtiRow, Excused
  <2>3. QED
    BY <2>1, <2>2 DEF CacheCoversDue, RefreshCovers
<1>6. CASE NewRevocationCache
  BY <1>6, RestingType DEF NewRevocationCache, CacheCoversDue, RefreshCovers
<1>7. CASE UNCHANGED <<filter, userRevoked, refresher, due>>
  BY <1>1, <1>7, OnlyTablesMove DEF CacheInv
<1>8. QED
  BY <1>3, <1>4, <1>5, <1>6, <1>7 DEF RevocationNext, revocationVars, Tick, SignIn, Me,
    LogoutSession, Revoke, RevokeAll, CleanExpiredRevocations

-----------------------------------------------------------------------------
(* The theorems *)

LEMMA InitCacheInv == RevocationInit => CacheInv
<1> SUFFICES ASSUME RevocationInit PROVE CacheInv
  OBVIOUS
<1>1. TypeOK BY InitTypeOK
<1>2. TimesArePast
  <2>1. \A s \in sessions : s.iat = Sec(now)
    BY DEF RevocationInit, EncodeSession
  <2>2. Sec(now) \in Nat /\ now \in Nat
    BY <1>1, SecBounds DEF TypeOK
  <2>3. QED
    BY <2>1, <2>2 DEF RevocationInit, NoUsers, TimesArePast
<1>3. CacheIsNotAhead
  BY RestingType DEF RevocationInit, CacheIsNotAhead, NotAhead, NoUsers
<1>4. RowsCoverTheRevoked /\ IdsAreOfOneUser /\ RowsAreOfRevoked /\ CacheCoversDue
  BY DEF RevocationInit, RowsCoverTheRevoked, IdsAreOfOneUser, RowsAreOfRevoked,
    CacheCoversDue, EncodeSession, Cut
<1>5. RefreshCovers
  BY RestingType DEF RevocationInit, RefreshCovers
<1>6. QED BY <1>2, <1>3, <1>4, <1>5 DEF CacheInv

LEMMA CacheInvIsInvariant == RevocationSpec => [](TypeOK /\ CacheInv)
<1>1. RevocationInit => TypeOK /\ CacheInv
  BY InitTypeOK, InitCacheInv
<1>2. TypeOK /\ CacheInv /\ [RevocationNext]_revocationVars => (TypeOK /\ CacheInv)'
  <2> SUFFICES ASSUME TypeOK, CacheInv, [RevocationNext]_revocationVars
               PROVE  TypeOK' /\ CacheInv'
    OBVIOUS
  <2>1. TypeOK' BY NextTypeOK
  <2>2. TimesArePast' BY <2>1, TimesStayPast DEF CacheInv
  <2>3. IdsAreOfOneUser' /\ RowsAreOfRevoked'
    BY <2>1, IdsStayOfOneUser, RowsStayOfRevoked DEF CacheInv
  <2>4. RowsCoverTheRevoked' BY <2>1, RevokedStayCovered DEF CacheInv
  <2>5. CacheIsNotAhead' BY <2>1, CacheStaysBehind DEF CacheInv
  <2>6. CacheCoversDue' /\ RefreshCovers' BY <2>1, CacheStaysCovering
  <2>7. QED BY <2>1, <2>2, <2>3, <2>4, <2>5, <2>6 DEF CacheInv
<1>3. QED BY <1>1, <1>2, PTL DEF RevocationSpec

(* A row that covers a session whose cookie still decodes is found by the  *)
(* point query.                                                            *)
LEMMA CoveringRowIsFound ==
  ASSUME TypeOK, NEW s \in sessions, ByJtiRow(s), Sec(now) < s.exp
  PROVE  PointQuery(s.jti)
<1>1. PICK r \in byJti : r.jti = s.jti /\ r.exp >= s.exp
  BY DEF ByJtiRow
<1>2. now \in Nat /\ r.exp \in Nat /\ s.exp \in Nat
  BY DEF TypeOK, SessionType
<1>3. Sec(now) \in Nat /\ now <= 2 * Sec(now) + 1
  BY <1>2, SecBounds
<1>4. 2 * r.exp > now
  BY <1>1, <1>2, <1>3
<1>5. QED BY <1>1, <1>4 DEF PointQuery

(* THEOREM a session revoked before the last whole refresh began is refused *)
(* as long as its cookie decodes, whatever refreshes, failures, clean-ups,  *)
(* restarts and revocations came in between (revocation.go 50-198).         *)
THEOREM TheRevokedAreRefused == RevocationSpec => []RevokedIsRefused
<1>1. TypeOK /\ CacheInv => RevokedIsRefused
  <2> SUFFICES ASSUME TypeOK, CacheInv, NEW s \in due, Sec(now) < s.exp
               PROVE  IsRevoked(s) \/ s \in early
    BY DEF RevokedIsRefused
  <2>1. s \in sessions /\ s.exp \in Nat /\ Sec(now) \in Nat
    BY SecBounds DEF TypeOK, SessionType, Cut
  <2>2. CASE UserMapSays(s)
    BY <2>2 DEF IsRevoked
  <2>3. CASE ByFilter(s)
    BY <2>1, <2>3, CoveringRowIsFound DEF ByFilter, IsRevoked
  <2>4. CASE Excused(s)
    BY <2>1, <2>4 DEF Excused
  <2>5. QED
    BY <2>2, <2>3, <2>4 DEF CacheInv, CacheCoversDue
<1>2. QED BY <1>1, CacheInvIsInvariant, PTL

(* THEOREM the cache refuses only sessions that their own user revoked and  *)
(* those named below: their identifier was given to Revoke by another user  *)
(* (handlers.go 402), or they were signed in in the second of a revocation  *)
(* of all.  A bloom positive is looked up, and the rounding of user times   *)
(* adds at most half a second (revocation.go 155-198).                      *)
THEOREM NoOtherIsRefused == RevocationSpec => []OnlyRevokedIsRefused
<1>1. TypeOK /\ CacheInv => OnlyRevokedIsRefused
  <2> SUFFICES ASSUME TypeOK, CacheInv, NEW s \in sessions, IsRevoked(s)
               PROVE  \/ s \in revoked \/ s \in named
                      \/ (byUser[s.user] # -1 /\ 2 * s.iat <= byUser[s.user] + 1)
    BY DEF OnlyRevokedIsRefused
  <2>1. CASE PointQuery(s.jti)
    BY <2>1 DEF PointQuery, CacheInv, RowsAreOfRevoked, Cut
  <2>2. CASE UserMapSays(s)
    <3>1. s.user \in Holders /\ s.iat \in Nat /\ userRevoked[s.user] \in Nat
      BY <2>2 DEF TypeOK, SessionType, UserMapSays
    <3>2. byUser[s.user] # -1 /\ userRevoked[s.user] <= Sec(byUser[s.user] + 1)
      BY <2>2, <3>1 DEF UserMapSays, CacheInv, CacheIsNotAhead, NotAhead
    <3>3. byUser[s.user] \in Nat /\ byUser[s.user] + 1 \in Nat
      BY <3>1, <3>2 DEF TypeOK
    <3>4. /\ Sec(byUser[s.user] + 1) \in Nat
          /\ 2 * Sec(byUser[s.user] + 1) <= byUser[s.user] + 1
      BY <3>3, SecBounds
    <3>5. QED
      BY <2>2, <3>1, <3>2, <3>3, <3>4 DEF UserMapSays
  <2>3. QED BY <2>1, <2>2 DEF IsRevoked
<1>2. QED BY <1>1, CacheInvIsInvariant, PTL
=============================================================================
