------------------------ MODULE GuardedWriteProofs --------------------------
(* Proofs about GuardedWrite for every set of calls, requests, keys and    *)
(* stages and every pair of lifetimes: its types, and what the idempotency *)
(* keys guarantee.                                                         *)
EXTENDS GuardedWrite, TLAPS

(* A pending call moves to another pc.                                     *)
LEMMA ExecutingPc ==
  ASSUME NEW q \in Executing, NEW p \in {"confirm", "resolve", "apply"}
  PROVE  [q EXCEPT !.pc = p] \in Executing
BY DEF Executing

LEMMA ExecutingVerified ==
  ASSUME NEW q \in Executing, NEW t \in 0 .. MaxTime
  PROVE  [q EXCEPT !.verifiedAt = t] \in Executing
BY DEF Executing

LEMMA ExecutingFound ==
  ASSUME NEW q \in Executing, NEW b \in BOOLEAN
  PROVE  [q EXCEPT !.found = b] \in Executing
BY Zenon DEF Executing

LEMMA ExecutingOld ==
  ASSUME NEW q \in Executing, NEW s \in Stages
  PROVE  [q EXCEPT !.old = s] \in Executing
BY DEF Executing

LEMMA ClosedAtType ==
  ASSUME NEW r \in Requests, NEW t \in 0 .. MaxTime
  PROVE  ClosedAt(r, t) \in ClosedTimes
BY RequestsAssumption DEF ClosedAt, ClosedTimes, Closings

LEMMA EntryType ==
  ASSUME TypeOK, NEW c \in Calls, call[c] # Idle
  PROVE  Entry(c) \in Entries
<1> DEFINE e == IF Destructive(call[c].req) THEN Effect(call[c].req, deal, now) ELSE NoEffect
           E == [before : Stages \cup {"none", "gone"}, to : Stages \cup {"none"},
                 closed : ClosedTimes]
           m == c \in moved
<1>1. call[c] \in Executing BY DEF TypeOK
<1>2. call[c].req \in Requests BY <1>1 DEF Executing
<1>3. e \in E
  <2>1. ClosedAt(call[c].req, now) \in ClosedTimes BY <1>2, ClosedAtType DEF TypeOK
  <2>2. call[c].req.to \in Stages BY <1>2, RequestsAssumption
  <2>3. deal.stage \in Stages \cup {"none", "gone"} BY DEF TypeOK, Gone
  <2>4. NoEffect \in E BY DEF NoEffect, ClosedTimes
  <2>5. Effect(call[c].req, deal, now) \in E BY <2>1, <2>2, <2>3 DEF Effect
  <2>6. QED BY <2>4, <2>5
<1>4. m \in BOOLEAN OBVIOUS
<1>5. Entry(c) = [req |-> call[c].req, old |-> call[c].old, at |-> now,
                  looked |-> call[c].looked, lookedAt |-> call[c].lookedAt,
                  verifiedAt |-> call[c].verifiedAt, token |-> call[c].token,
                  effect |-> e, moved |-> m]
  BY Zenon DEF Entry
<1> HIDE DEF e, m, E
<1>6. QED BY <1>1, <1>3, <1>4, <1>5 DEF Entries, Executing, TypeOK, E

LEMMA StoredType ==
  ASSUME TypeOK, NEW k \in Keys \cup {NoKey}, NEW b \in Nat
  PROVE  Stored(k, b) \in [Keys -> [body : Nat, expires : Nat]]
<1>1. now + KeyTTL \in Nat BY BoundsAssumption DEF TypeOK
<1>2. QED BY <1>1, KeysAssumption DEF TypeOK, Stored

(* Every commit appends one well-formed entry and keeps the tables typed.  *)
LEMMA CommittedType ==
  ASSUME TypeOK, NEW c \in Calls, call[c] # Idle, Committed(c)
  PROVE  /\ log' \in Seq(Entries) /\ keys' \in [Keys -> [body : Nat, expires : Nat]]
         /\ call' \in [Calls -> Executing \cup {Idle}] /\ now' \in 0 .. MaxTime
         /\ tokens' \subseteq Tokens
<1>1. call[c] \in Executing BY DEF TypeOK
<1>2. call[c].req.key \in Keys \cup {NoKey} BY <1>1, RequestsAssumption DEF Executing
<1>3. Len(log) + 1 \in Nat BY DEF TypeOK
<1>4. Entry(c) \in Entries BY EntryType
<1>5. Stored(call[c].req.key, Len(log) + 1) \in [Keys -> [body : Nat, expires : Nat]]
  BY <1>2, <1>3, StoredType
<1>6. QED BY <1>4, <1>5 DEF Committed, TypeOK

(* The tables, the log and every pending call hold values of their types.  *)
THEOREM TypeCorrect == Spec => []TypeOK
<1>1. Init => TypeOK
  BY BoundsAssumption, KeysAssumption DEF Init, TypeOK, NoRow, ClosedTimes
<1>2. TypeOK /\ [Next]_vars => TypeOK'
  <2> SUFFICES ASSUME TypeOK, [Next]_vars PROVE TypeOK'
    OBVIOUS
  <2> USE DEF TypeOK
  <2>1. ASSUME NEW r \in Requests, DryRun(r) PROVE TypeOK'
    <3>1. deal.stage \in Stages /\ r.to \in Stages
      BY <2>1, RequestsAssumption DEF DryRun
    <3>2. ClosedAt(r, now) \in ClosedTimes BY ClosedAtType
    <3>3. now + TokenTTL \in Nat BY BoundsAssumption
    <3>4. QED BY <2>1, <3>1, <3>2, <3>3 DEF DryRun, Effect, Tokens
  <2>2. ASSUME NEW c \in Calls, NEW r \in Requests, NEW t \in tokens \cup {NoToken},
               Lookup(c, r, t)
        PROVE  TypeOK'
    <3> DEFINE q == [pc |-> IF Destructive(r) THEN "confirm"
                            ELSE IF r.kind = "post" THEN "apply" ELSE "resolve",
                     req |-> r, token |-> IF Destructive(r) THEN t ELSE NoToken,
                     looked |-> Len(log), lookedAt |-> now,
                     verifiedAt |-> 0, old |-> "none", found |-> FALSE]
    <3>1. Len(log) \in Nat /\ 0 \in 0 .. MaxTime BY BoundsAssumption
    <3>2. q \in Executing BY <3>1 DEF Executing
    <3>3. call' = [call EXCEPT ![c] = q] BY <2>2 DEF Lookup
    <3>4. QED BY <2>2, <3>2, <3>3 DEF Lookup
  <2>3. ASSUME NEW c \in Calls, Confirm(c) PROVE TypeOK'
    <3> DEFINE q == [call[c] EXCEPT !.pc = "resolve"]
               q2 == [q EXCEPT !.verifiedAt = now]
    <3>1. call[c] \in Executing BY <2>3 DEF Confirm, Idle
    <3>2. q \in Executing BY <3>1, ExecutingPc
    <3>3. q2 \in Executing BY <3>2, ExecutingVerified
    <3>4. q2 = [call[c] EXCEPT !.pc = "resolve", !.verifiedAt = now] OBVIOUS
    <3>5. call' \in [Calls -> Executing \cup {Idle}] BY <2>3, <3>3, <3>4 DEF Confirm
    <3>6. QED BY <2>3, <3>5 DEF Confirm
  <2>4. ASSUME NEW c \in Calls, Resolve(c) PROVE TypeOK'
    <3> DEFINE q == [call[c] EXCEPT !.pc = "apply"]
               lead == [q EXCEPT !.found = contacts > 0]
               move == [q EXCEPT !.old = deal.stage]
    <3>1. call[c] \in Executing BY <2>4 DEF Resolve, Idle
    <3>2. q \in Executing BY <3>1, ExecutingPc
    <3>3. lead \in Executing
      <4>1. (contacts > 0) \in BOOLEAN OBVIOUS
      <4>2. QED BY <3>2, <4>1, ExecutingFound, Zenon
    <3>4. lead = [call[c] EXCEPT !.pc = "apply", !.found = contacts > 0] OBVIOUS
    <3>5. move = [call[c] EXCEPT !.pc = "apply", !.old = deal.stage] OBVIOUS
    <3>6. deal # Gone => move \in Executing BY <3>2, ExecutingOld
    <3>7. ~NothingToMove(call[c].req) => deal # Gone BY DEF NothingToMove
    <3> HIDE DEF lead, move
    <3>8. call' \in [Calls -> Executing \cup {Idle}]
      BY <2>4, <3>3, <3>4, <3>5, <3>6, <3>7 DEF Resolve
    <3>9. QED BY <2>4, <3>8 DEF Resolve
  <2>5. ASSUME NEW c \in Calls, Abort(c) PROVE TypeOK'
    BY <2>5 DEF Abort
  <2>6. ASSUME NEW c \in Calls, ApplyStageChange(c) PROVE TypeOK'
    <3>1. call[c] \in Executing BY <2>6 DEF ApplyStageChange, Idle
    <3>2. call[c] # Idle BY <2>6 DEF ApplyStageChange, Idle
    <3>3. deal.stage \in Stages /\ deal.closed \in ClosedTimes BY <2>6 DEF ApplyStageChange
    <3>4. call[c].req \in Requests BY <3>1 DEF Executing
    <3>5. ClosedAt(call[c].req, now) \in ClosedTimes BY <3>4, ClosedAtType
    <3>6. call[c].req.to \in Stages BY <3>4, RequestsAssumption
    <3>7. deal' \in [stage : Stages, closed : ClosedTimes]
      BY <2>6, <3>3, <3>5, <3>6 DEF ApplyStageChange
    <3>8. Committed(c) BY <2>6 DEF ApplyStageChange
    <3>9. contacts' = contacts /\ moved' \subseteq Calls
      BY <2>6 DEF ApplyStageChange, Overtaken
    <3>10. QED BY <3>2, <3>3, <3>7, <3>8, <3>9, CommittedType
  <2>7. ASSUME NEW c \in Calls, ApplyNotFound(c) PROVE TypeOK'
    BY <2>7 DEF ApplyNotFound
  <2>8. ASSUME NEW c \in Calls, ApplyCaptureLead(c) PROVE TypeOK'
    <3>1. call[c] # Idle BY <2>8 DEF ApplyCaptureLead, Idle
    <3>2. Committed(c) BY <2>8 DEF ApplyCaptureLead
    <3>3. contacts' \in Nat /\ deal' = deal /\ moved' = moved BY <2>8 DEF ApplyCaptureLead
    <3>4. QED BY <3>1, <3>2, <3>3, CommittedType
  <2>9. ASSUME NEW c \in Calls, ApplyCreate(c) PROVE TypeOK'
    <3>1. call[c] # Idle BY <2>9 DEF ApplyCreate, Idle
    <3>2. Committed(c) BY <2>9 DEF ApplyCreate
    <3>3. contacts' = contacts /\ deal' = deal /\ moved' = moved BY <2>9 DEF ApplyCreate
    <3>4. QED BY <3>1, <3>2, <3>3, CommittedType
  <2>10. ASSUME NEW s \in Stages, UpdateDeal(s) PROVE TypeOK'
    BY <2>10 DEF UpdateDeal, Overtaken
  <2>11. CASE DeleteDeal
    BY <2>11 DEF DeleteDeal
  <2>12. CASE Tick
    BY <2>12, BoundsAssumption DEF Tick
  <2>13. CASE UNCHANGED vars
    BY <2>13 DEF vars
  <2>14. QED
    BY <2>1, <2>2, <2>3, <2>4, <2>5, <2>6, <2>7, <2>8, <2>9, <2>10, <2>11, <2>12, <2>13
    DEF Next
<1>3. QED BY <1>1, <1>2, PTL DEF Spec
-----------------------------------------------------------------------------
(* A key without a response has no row at all.                             *)
RowsAreAnswers == \A k \in Keys : keys[k].body = 0 => keys[k] = NoRow

(* A pending keyed call has already missed, by racing or by expiry, every  *)
(* write of its key: those committed before its lookup had a stale row.    *)
PendingMissed ==
  \A c \in Calls :
    call[c] # Idle /\ call[c].req.key # NoKey =>
      /\ call[c].looked <= Len(log)
      /\ \A i \in Positions :
           log[i].req.key = call[c].req.key =>
             \/ call[c].looked < i
             \/ call[c].lookedAt >= keys[call[c].req.key].expires

KeyInv ==
  /\ TypeOK
  /\ RowsAreAnswers
  /\ KeyHoldsFirstResponse
  /\ PendingMissed
  /\ ActsTwiceOnlyByRaceOrExpiry

(* A step that leaves the log and the keys alone, and starts or advances   *)
(* calls without touching what they looked up, keeps the invariant.        *)
LEMMA KeyInvQuietStep ==
  ASSUME KeyInv, TypeOK', UNCHANGED <<log, keys>>,
         \A c \in Calls : \/ call'[c] = Idle
                          \/ /\ call[c] # Idle
                             /\ call'[c].req = call[c].req
                             /\ call'[c].looked = call[c].looked
                             /\ call'[c].lookedAt = call[c].lookedAt
  PROVE  KeyInv'
<1>1. PendingMissed' BY DEF KeyInv, PendingMissed, Positions
<1>2. QED
  BY <1>1 DEF KeyInv, RowsAreAnswers, KeyHoldsFirstResponse, ActsTwiceOnlyByRaceOrExpiry,
              Positions, SameKey

(* A commit appends one write under the call's key, and stores it as the   *)
(* key's response when the key had none.                                   *)
LEMMA KeyInvCommit ==
  ASSUME KeyInv, TypeOK', NEW c \in Calls, call[c] # Idle, Committed(c)
  PROVE  KeyInv'
<1> DEFINE k == call[c].req.key
           n == Len(log) + 1
<1>1. /\ log' = Append(log, Entry(c)) /\ Len(log') = n /\ Len(log) \in Nat
      /\ \A i \in Positions : log'[i] = log[i]
      /\ log'[n] = Entry(c)
      /\ Positions' = Positions \cup {n} /\ n \notin Positions /\ n \in Nat
  <2>1. log \in Seq(Entries) /\ Entry(c) \in Entries BY EntryType DEF KeyInv, TypeOK
  <2>2. QED BY <2>1 DEF Committed, Positions
<1>2. /\ log'[n].req.key = k /\ log'[n].looked = call[c].looked
      /\ log'[n].lookedAt = call[c].lookedAt
  BY <1>1 DEF Entry
<1>3. k \in Keys \cup {NoKey}
  BY RequestsAssumption DEF KeyInv, TypeOK, Executing
<1>4. keys' = Stored(k, n) /\ call' = [call EXCEPT ![c] = Idle] BY DEF Committed
<1>5. \A j \in Keys : keys'[j] = keys[j] \/ (j = k /\ keys[j] = NoRow /\ keys'[j].body = n)
  BY <1>3, <1>4, KeysAssumption DEF Stored, KeyInv, TypeOK
<1>6. k # NoKey => keys'[k].body # 0 /\ keys'[k].body \in 1 .. n
  <2>1. SUFFICES ASSUME k # NoKey PROVE keys'[k].body # 0 /\ keys'[k].body \in 1 .. n
    OBVIOUS
  <2>2. k \in Keys BY <2>1, <1>3
  <2>3. CASE keys[k] = NoRow
    BY <2>1, <2>2, <2>3, <1>1, <1>4 DEF Stored, KeyInv, TypeOK
  <2>4. CASE keys[k] # NoRow
    <3>1. keys'[k] = keys[k] BY <2>4, <2>2, <1>5
    <3>2. keys[k].body # 0 BY <2>4, <2>2 DEF KeyInv, RowsAreAnswers
    <3>3. keys[k].body \in Positions BY <3>2, <2>2 DEF KeyInv, KeyHoldsFirstResponse
    <3>4. QED BY <3>1, <3>2, <3>3, <1>1 DEF Positions
  <2>5. QED BY <2>3, <2>4
<1>7. \A j \in Keys, i \in Positions : log[i].req.key = j => keys'[j] = keys[j] /\ keys[j].body \in 1 .. i
  <2>1. SUFFICES ASSUME NEW j \in Keys, NEW i \in Positions, log[i].req.key = j
                 PROVE  keys'[j] = keys[j] /\ keys[j].body \in 1 .. i
    OBVIOUS
  <2>2. keys[j].body \in 1 .. i BY <2>1 DEF KeyInv, KeyHoldsFirstResponse
  <2>3. keys[j] # NoRow BY <2>2 DEF NoRow
  <2>4. QED BY <2>2, <2>3, <1>5
<1> HIDE DEF k, n
<1>8. RowsAreAnswers'
  <2>1. \A j \in Keys : keys'[j].body = 0 => keys'[j] = keys[j]
    BY <1>1, <1>5
  <2>2. QED BY <2>1 DEF KeyInv, RowsAreAnswers, NoRow
<1>9. KeyHoldsFirstResponse'
  <2> SUFFICES ASSUME NEW j \in Keys
               PROVE  /\ keys'[j].body # 0 => keys'[j].body \in Positions' /\ log'[keys'[j].body].req.key = j
                      /\ \A i \in Positions' : log'[i].req.key = j => keys'[j].body \in 1 .. i
    BY DEF KeyHoldsFirstResponse
  <2>1. keys'[j].body # 0 => keys'[j].body \in Positions' /\ log'[keys'[j].body].req.key = j
    <3>1. CASE keys'[j] = keys[j]
      BY <3>1, <1>1 DEF KeyInv, KeyHoldsFirstResponse
    <3>2. CASE j = k /\ keys'[j].body = n
      BY <3>2, <1>1, <1>2
    <3>3. QED BY <3>1, <3>2, <1>5
  <2>2. ASSUME NEW i \in Positions', log'[i].req.key = j PROVE keys'[j].body \in 1 .. i
    <3>1. CASE i = n
      BY <3>1, <2>2, <1>2, <1>6, KeysAssumption
    <3>2. CASE i \in Positions
      <4>1. log[i].req.key = j BY <3>2, <2>2, <1>1
      <4>2. QED BY <4>1, <3>2, <1>7
    <3>3. QED BY <3>1, <3>2, <1>1
  <2>3. QED BY <2>1, <2>2
<1>10. PendingMissed'
  <2> SUFFICES ASSUME NEW d \in Calls, call'[d] # Idle, call'[d].req.key # NoKey
               PROVE  /\ call'[d].looked <= Len(log')
                      /\ \A i \in Positions' : log'[i].req.key = call'[d].req.key =>
                           \/ call'[d].looked < i
                           \/ call'[d].lookedAt >= keys'[call'[d].req.key].expires
    BY DEF PendingMissed
  <2>1. call'[d] = call[d] /\ call[d] # Idle BY <1>4 DEF KeyInv, TypeOK
  <2>2. call[d] \in Executing BY <2>1 DEF KeyInv, TypeOK
  <2>3. call[d].looked <= Len(log) /\ call[d].looked \in Nat
    BY <2>1, <2>2 DEF KeyInv, PendingMissed, Executing
  <2>4. call[d].looked < n BY <2>3, <1>1 DEF n
  <2>5. ASSUME NEW i \in Positions', log'[i].req.key = call'[d].req.key
        PROVE  call'[d].looked < i \/ call'[d].lookedAt >= keys'[call'[d].req.key].expires
    <3>1. CASE i = n BY <3>1, <2>1, <2>4
    <3>2. CASE i \in Positions
      <4>1. log[i].req.key = call[d].req.key BY <3>2, <2>1, <2>5, <1>1
      <4>2. call[d].req.key \in Keys BY <2>1, <2>2, RequestsAssumption DEF Executing
      <4>3. keys'[call[d].req.key] = keys[call[d].req.key] BY <4>1, <4>2, <3>2, <1>7
      <4>4. QED BY <4>1, <4>3, <3>2, <2>1 DEF KeyInv, PendingMissed
    <3>3. QED BY <3>1, <3>2, <1>1
  <2>6. call'[d].looked <= Len(log') BY <2>1, <2>3, <1>1 DEF n
  <2>7. QED BY <2>5, <2>6
<1>11. ActsTwiceOnlyByRaceOrExpiry'
  <2> SUFFICES ASSUME NEW i \in Positions', NEW j \in Positions', i < j,
                      log'[i].req.key # NoKey, log'[i].req.key = log'[j].req.key
               PROVE  \/ log'[j].looked < i
                      \/ log'[j].lookedAt >= keys'[log'[j].req.key].expires
    BY DEF ActsTwiceOnlyByRaceOrExpiry, SameKey
  <2>1. i \in Positions BY <1>1 DEF Positions, n
  <2>2. log'[i] = log[i] BY <2>1, <1>1
  <2>3. log[i].req.key \in Keys
    <3>1. log[i] \in Entries BY <2>1 DEF KeyInv, TypeOK, Positions
    <3>2. QED BY <3>1, <2>2, RequestsAssumption DEF Entries
  <2>4. keys'[log[i].req.key] = keys[log[i].req.key] BY <2>1, <2>3, <1>7
  <2>5. CASE j \in Positions
    BY <2>1, <2>2, <2>4, <2>5, <1>1 DEF KeyInv, ActsTwiceOnlyByRaceOrExpiry, SameKey
  <2>6. CASE j = n
    <3>1. log[i].req.key = k /\ k # NoKey BY <2>2, <2>6, <1>2
    <3>2. call[c].looked < i \/ call[c].lookedAt >= keys[k].expires
      BY <3>1, <2>1 DEF KeyInv, PendingMissed, k
    <3>3. QED BY <3>1, <3>2, <2>2, <2>4, <2>6, <1>2
  <2>7. QED BY <2>5, <2>6, <1>1
<1>12. QED BY <1>8, <1>9, <1>10, <1>11 DEF KeyInv

(* Two writes of one key only race, or straddle the key's expiry, and what *)
(* the key replays is the first of them (GuardedWrite.Run steps 3 and 5).  *)
THEOREM KeysReplayTheFirst ==
  Spec => [](KeyHoldsFirstResponse /\ ActsTwiceOnlyByRaceOrExpiry)
<1>1. Init => KeyInv
  <2> SUFFICES ASSUME Init PROVE KeyInv
    OBVIOUS
  <2>1. TypeOK BY BoundsAssumption, KeysAssumption DEF Init, TypeOK, NoRow, ClosedTimes
  <2>2. Positions = {} BY DEF Init, Positions
  <2>3. QED
    BY <2>1, <2>2 DEF Init, KeyInv, RowsAreAnswers, KeyHoldsFirstResponse, PendingMissed,
                      ActsTwiceOnlyByRaceOrExpiry, NoRow
<1>2. KeyInv /\ TypeOK' /\ [Next]_vars => KeyInv'
  <2> SUFFICES ASSUME KeyInv, TypeOK', [Next]_vars PROVE KeyInv'
    OBVIOUS
  <2> USE DEF KeyInv
  <2>0. call \in [Calls -> Executing \cup {Idle}] BY DEF TypeOK
  <2>1. ASSUME NEW r \in Requests, DryRun(r) PROVE KeyInv'
    BY <2>1, KeyInvQuietStep DEF DryRun
  <2>2. ASSUME NEW c \in Calls, NEW r \in Requests, NEW t \in tokens \cup {NoToken},
               Lookup(c, r, t)
        PROVE  KeyInv'
    <3>1. UNCHANGED <<log, keys>> BY <2>2 DEF Lookup
    <3>2. \A d \in Calls : d # c => call'[d] = call[d] BY <2>0, <2>2 DEF Lookup
    <3>3. /\ call'[c].req = r /\ call'[c].looked = Len(log) /\ call'[c].lookedAt = now
      BY <2>0, <2>2 DEF Lookup
    <3>4. Len(log) \in Nat /\ now \in Nat BY DEF TypeOK
    <3>5. ASSUME NEW i \in Positions, log[i].req.key = r.key, r.key # NoKey
          PROVE  now >= keys[r.key].expires
      <4>1. r.key \in Keys BY <3>5, RequestsAssumption
      <4>2. keys[r.key].body \in 1 .. i BY <3>5, <4>1 DEF KeyHoldsFirstResponse
      <4>3. keys[r.key] # NoRow BY <4>2 DEF NoRow
      <4>4. ~(keys[r.key].expires > now) BY <2>2, <3>5, <4>3 DEF Lookup, Hit
      <4>5. keys[r.key].expires \in Nat BY <4>1 DEF TypeOK
      <4>6. QED BY <4>4, <4>5, <3>4
    <3>6. PendingMissed'
      BY <3>1, <3>2, <3>3, <3>4, <3>5 DEF PendingMissed, Positions
    <3>7. QED
      BY <3>1, <3>6 DEF RowsAreAnswers, KeyHoldsFirstResponse, ActsTwiceOnlyByRaceOrExpiry,
                        Positions, SameKey
  <2>3. ASSUME NEW c \in Calls, Confirm(c) PROVE KeyInv'
    <3>1. call[c] \in Executing /\ call[c] # Idle BY <2>0, <2>3 DEF Confirm, Idle
    <3>2. \/ call'[c] = Idle
          \/ /\ call'[c].req = call[c].req /\ call'[c].looked = call[c].looked
             /\ call'[c].lookedAt = call[c].lookedAt
      BY <2>0, <2>3, <3>1 DEF Confirm, Executing
    <3>3. \A d \in Calls : d # c => call'[d] = call[d] BY <2>0, <2>3 DEF Confirm
    <3>4. QED BY <2>3, <3>1, <3>2, <3>3, KeyInvQuietStep DEF Confirm
  <2>4. ASSUME NEW c \in Calls, Resolve(c) PROVE KeyInv'
    <3>1. call[c] \in Executing /\ call[c] # Idle BY <2>0, <2>4 DEF Resolve, Idle
    <3>2. \/ call'[c] = Idle
          \/ /\ call'[c].req = call[c].req /\ call'[c].looked = call[c].looked
             /\ call'[c].lookedAt = call[c].lookedAt
      BY <2>0, <2>4, <3>1 DEF Resolve, Executing
    <3>3. \A d \in Calls : d # c => call'[d] = call[d] BY <2>0, <2>4 DEF Resolve
    <3>4. QED BY <2>4, <3>1, <3>2, <3>3, KeyInvQuietStep DEF Resolve
  <2>5. ASSUME NEW c \in Calls, Abort(c) \/ ApplyNotFound(c) PROVE KeyInv'
    <3>1. \A d \in Calls : call'[d] = Idle \/ call'[d] = call[d]
      BY <2>0, <2>5 DEF Abort, ApplyNotFound
    <3>2. UNCHANGED <<log, keys>> BY <2>5 DEF Abort, ApplyNotFound
    <3>3. QED BY <3>1, <3>2, KeyInvQuietStep
  <2>6. ASSUME NEW c \in Calls, ApplyStageChange(c) PROVE KeyInv'
    <3>1. call[c] # Idle BY <2>6 DEF ApplyStageChange, Idle
    <3>2. Committed(c) BY <2>6 DEF ApplyStageChange
    <3>3. QED BY <3>1, <3>2, KeyInvCommit
  <2>7. ASSUME NEW c \in Calls, ApplyCaptureLead(c) \/ ApplyCreate(c) PROVE KeyInv'
    <3>1. call[c] # Idle BY <2>7 DEF ApplyCaptureLead, ApplyCreate, Idle
    <3>2. Committed(c) BY <2>7 DEF ApplyCaptureLead, ApplyCreate
    <3>3. QED BY <3>1, <3>2, KeyInvCommit
  <2>8. ASSUME NEW s \in Stages, UpdateDeal(s) PROVE KeyInv'
    BY <2>8, KeyInvQuietStep DEF UpdateDeal
  <2>9. CASE DeleteDeal
    BY <2>9, KeyInvQuietStep DEF DeleteDeal
  <2>10. CASE Tick
    BY <2>10, KeyInvQuietStep DEF Tick
  <2>11. CASE UNCHANGED vars
    BY <2>11, KeyInvQuietStep DEF vars
  <2>12. QED
    BY <2>1, <2>2, <2>3, <2>4, <2>5, <2>6, <2>7, <2>8, <2>9, <2>10, <2>11 DEF Next
<1>3. KeyInv => KeyHoldsFirstResponse /\ ActsTwiceOnlyByRaceOrExpiry
  BY DEF KeyInv
<1>4. Spec => []TypeOK BY TypeCorrect
<1>5. QED BY <1>1, <1>2, <1>3, <1>4, PTL DEF Spec

(* A retry sent after the first answer and within its 24 hours never acts: *)
(* two writes of one key raced or straddle the key's expiry.               *)
THEOREM ActsTwiceOnlyByRace == Spec => []ActsTwiceOnlyByRaceOrExpiry
BY KeysReplayTheFirst, PTL
-----------------------------------------------------------------------------
(* What a confirmed token says about the request it was presented for.     *)
Covers(t, r, at) ==
  /\ t \in tokens
  /\ at \in (t.exp - TokenTTL) .. t.exp
  /\ t.to = r.to /\ t.closed = ClosedAt(r, at)

Pending(c) == call[c].pc \in {"resolve", "apply"} /\ Destructive(call[c].req)

(* The deal is where the token says, unless someone else has moved it.     *)
Foreseen(c) == deal = Gone \/ c \in moved \/ call[c].token.before = deal.stage

Previewed(c) ==
  /\ Covers(call[c].token, call[c].req, call[c].verifiedAt)
  /\ call[c].verifiedAt <= now /\ Foreseen(c)

(* Tokens come from the past; past the confirmation, a destructive call    *)
(* carries a token that covers it; so does every destructive write.        *)
PreviewInv ==
  /\ TypeOK
  /\ \A t \in tokens : t.exp - TokenTTL <= now
  /\ \A c \in Calls : call[c].token \in tokens \cup {NoToken}
  /\ \A c \in Calls : Pending(c) => Previewed(c)
  /\ ClosedOnlyAsPreviewed

LEMMA IdleFacts == Idle.pc = "idle" /\ Idle.token = NoToken
BY DEF Idle

LEMMA PendingIsTyped ==
  ASSUME TypeOK, NEW c \in Calls, Pending(c)
  PROVE  /\ call[c] \in Executing /\ call[c].verifiedAt \in Nat /\ now \in Nat
         /\ call[c].req \in Requests
BY IdleFacts DEF TypeOK, Pending, Executing

(* A pending call that a step leaves alone stays previewed.                *)
LEMMA PreviewKept ==
  ASSUME TypeOK, TypeOK', NEW c \in Calls, Pending(c), Previewed(c), call'[c] = call[c],
         tokens \subseteq tokens', now' >= now, Foreseen(c)'
  PROVE  Previewed(c)'
<1>1. call[c].verifiedAt \in Nat /\ now \in Nat /\ now' \in Nat
  BY PendingIsTyped DEF TypeOK
<1>2. call'[c].verifiedAt <= now' BY <1>1 DEF Previewed
<1>3. QED BY <1>2 DEF Previewed, Covers

(* A step that issues no token, commits nothing and only ends calls.       *)
LEMMA PreviewQuietStep ==
  ASSUME PreviewInv, TypeOK', tokens \subseteq tokens', now' >= now,
         \A t \in tokens' : t.exp - TokenTTL <= now',
         log' = log, \A c \in Calls : call'[c] = call[c] \/ call'[c] = Idle,
         \A c \in Calls : Pending(c) /\ call'[c] = call[c] /\ Foreseen(c) => Foreseen(c)'
  PROVE  PreviewInv'
<1>1. ASSUME NEW c \in Calls, Pending(c)' PROVE Previewed(c)'
  <2>1. call'[c] = call[c] BY <1>1, IdleFacts DEF Pending
  <2>2. Pending(c) BY <1>1, <2>1 DEF Pending
  <2>3. Previewed(c) BY <2>2 DEF PreviewInv
  <2>4. QED BY <2>1, <2>2, <2>3, PreviewKept DEF PreviewInv, Previewed
<1>2. ClosedOnlyAsPreviewed' BY DEF PreviewInv, ClosedOnlyAsPreviewed, Positions
<1>3. \A c \in Calls : call'[c].token \in tokens' \cup {NoToken}
  BY IdleFacts DEF PreviewInv
<1>4. QED BY <1>1, <1>2, <1>3 DEF PreviewInv

(* What a close does is what its token told, the deal moved meanwhile and  *)
(* the clock apart.                                                        *)
LEMMA EffectIsPreviewed ==
  ASSUME TypeOK, NEW c \in Calls, Pending(c), Previewed(c), deal # Gone
  PROVE  LET did == Entry(c).effect
             told == Entry(c).token
         IN /\ told \in tokens
            /\ Entry(c).verifiedAt \in (told.exp - TokenTTL) .. told.exp
            /\ did.to = told.to
            /\ did.before = told.before \/ Entry(c).moved
            /\ did.closed = told.closed
                 \/ (Entry(c).req.closing = "now" /\ Entry(c).at > Entry(c).verifiedAt)
<1>1. call[c].verifiedAt \in Nat /\ now \in Nat /\ call[c].req \in Requests
  BY PendingIsTyped
<1>2. /\ Entry(c).token = call[c].token /\ Entry(c).verifiedAt = call[c].verifiedAt
      /\ Entry(c).req = call[c].req /\ Entry(c).at = now
      /\ Entry(c).effect = Effect(call[c].req, deal, now)
      /\ c \in moved => Entry(c).moved
  BY DEF Entry, Pending
<1>3. c \in moved \/ call[c].token.before = deal.stage BY DEF Previewed, Foreseen
<1>4. call[c].req.closing \in {"date", "now"}
  BY <1>1, RequestsAssumption DEF Pending, Destructive, Closings
<1>5. \/ ClosedAt(call[c].req, now) = call[c].token.closed
      \/ call[c].req.closing = "now" /\ now > call[c].verifiedAt
  BY <1>1, <1>4 DEF Previewed, Covers, ClosedAt
<1>6. QED BY <1>2, <1>3, <1>5 DEF Previewed, Covers, Effect

LEMMA PreviewCommit ==
  ASSUME PreviewInv, TypeOK', NEW c \in Calls, call[c].pc = "apply", Committed(c),
         Destructive(call[c].req) => deal # Gone,
         \A d \in Calls \ {c} : Pending(d) /\ Foreseen(d) => Foreseen(d)'
  PROVE  PreviewInv'
<1>1. call[c] # Idle BY IdleFacts
<1>2. /\ Len(log) \in Nat /\ Len(log') = Len(log) + 1
      /\ \A i \in Positions : log'[i] = log[i]
      /\ log'[Len(log) + 1] = Entry(c)
      /\ Positions' = Positions \cup {Len(log) + 1}
  <2>1. log \in Seq(Entries) /\ Entry(c) \in Entries BY <1>1, EntryType DEF PreviewInv, TypeOK
  <2>2. QED BY <2>1 DEF Committed, Positions
<1>3. tokens' = tokens /\ now' = now BY DEF Committed
<1>4. call'[c] = Idle /\ \A d \in Calls \ {c} : call'[d] = call[d]
  BY DEF Committed, PreviewInv, TypeOK
<1>5. ClosedOnlyAsPreviewed'
  <2>1. ASSUME NEW i \in Positions
        PROVE  Destructive(log'[i].req) =>
                 LET did == log'[i].effect
                     told == log'[i].token
                 IN /\ told \in tokens
                    /\ log'[i].verifiedAt \in (told.exp - TokenTTL) .. told.exp
                    /\ did.to = told.to
                    /\ did.before = told.before \/ log'[i].moved
                    /\ did.closed = told.closed
                         \/ (log'[i].req.closing = "now" /\ log'[i].at > log'[i].verifiedAt)
    <3>1. log'[i] = log[i] BY <1>2
    <3>2. ClosedOnlyAsPreviewed BY DEF PreviewInv
    <3>3. QED BY <3>1, <3>2 DEF ClosedOnlyAsPreviewed
  <2>2. ASSUME Destructive(Entry(c).req)
        PROVE  LET did == Entry(c).effect
                   told == Entry(c).token
               IN /\ told \in tokens
                  /\ Entry(c).verifiedAt \in (told.exp - TokenTTL) .. told.exp
                  /\ did.to = told.to
                  /\ did.before = told.before \/ Entry(c).moved
                  /\ did.closed = told.closed
                       \/ (Entry(c).req.closing = "now" /\ Entry(c).at > Entry(c).verifiedAt)
    <3>1. Entry(c).req = call[c].req BY DEF Entry
    <3>2. Pending(c) /\ deal # Gone BY <2>2, <3>1 DEF Pending
    <3>3. Previewed(c) BY <3>2 DEF PreviewInv
    <3>4. QED BY <3>2, <3>3, EffectIsPreviewed DEF PreviewInv
  <2>3. QED BY <2>1, <2>2, <1>2, <1>3 DEF ClosedOnlyAsPreviewed
<1>6. ASSUME NEW d \in Calls, Pending(d)' PROVE Previewed(d)'
  <2>1. d # c /\ call'[d] = call[d] BY <1>4, <1>6, IdleFacts DEF Pending
  <2>2. Pending(d) BY <1>6, <2>1 DEF Pending
  <2>3. Previewed(d) BY <2>2 DEF PreviewInv
  <2>4. Foreseen(d)' BY <2>1, <2>2, <2>3 DEF Previewed
  <2>5. now' >= now BY <1>3 DEF PreviewInv, TypeOK
  <2>6. QED BY <2>1, <2>2, <2>3, <2>4, <2>5, <1>3, PreviewKept DEF PreviewInv
<1>7. \A d \in Calls : call'[d].token \in tokens' \cup {NoToken}
  BY <1>3, <1>4, IdleFacts DEF PreviewInv
<1>8. QED BY <1>3, <1>5, <1>6, <1>7 DEF PreviewInv

(* No deal is closed without a preview of the same close, confirmed within *)
(* the token's lifetime, from the stage the preview told unless the deal   *)
(* was moved meanwhile (GuardedWrite.Run step 4, Confirmer.Verify).        *)
THEOREM ClosesArePreviewed == Spec => []ClosedOnlyAsPreviewed
<1>1. Init => PreviewInv
  <2> SUFFICES ASSUME Init PROVE PreviewInv
    OBVIOUS
  <2>1. TypeOK BY BoundsAssumption, KeysAssumption DEF Init, TypeOK, NoRow, ClosedTimes
  <2>2. Positions = {} BY DEF Init, Positions
  <2>3. QED BY <2>1, <2>2, IdleFacts DEF Init, PreviewInv, ClosedOnlyAsPreviewed, Pending
<1>2. PreviewInv /\ TypeOK' /\ [Next]_vars => PreviewInv'
  <2> SUFFICES ASSUME PreviewInv, TypeOK', [Next]_vars PROVE PreviewInv'
    OBVIOUS
  <2>0. /\ call \in [Calls -> Executing \cup {Idle}] /\ now \in Nat /\ now >= now
        /\ \A t \in tokens : t.exp - TokenTTL <= now /\ t \in Tokens
    BY DEF PreviewInv, TypeOK
  <2>1. ASSUME NEW r \in Requests, DryRun(r) PROVE PreviewInv'
    <3>1. \A t \in tokens' : t \in tokens \/ t.exp = now + TokenTTL BY <2>1 DEF DryRun
    <3>2. tokens \subseteq tokens' /\ UNCHANGED <<now, log, call, deal, moved>>
      BY <2>1 DEF DryRun
    <3>3. \A t \in tokens' : t.exp - TokenTTL <= now'
      BY <2>0, <3>1, <3>2, BoundsAssumption
    <3>4. QED BY <2>0, <3>2, <3>3, PreviewQuietStep DEF Foreseen
  <2>2. ASSUME NEW c \in Calls, NEW r \in Requests, NEW t \in tokens \cup {NoToken},
               Lookup(c, r, t)
        PROVE  PreviewInv'
    <3>1. UNCHANGED <<log, tokens, now, deal, moved>> BY <2>2 DEF Lookup
    <3>2. \A d \in Calls : d # c => call'[d] = call[d] BY <2>0, <2>2 DEF Lookup
    <3>3. /\ call'[c].req = r /\ (Destructive(r) => call'[c].pc = "confirm")
          /\ call'[c].token \in tokens \cup {NoToken}
      BY <2>0, <2>2 DEF Lookup
    <3>4. ASSUME NEW d \in Calls, Pending(d)' PROVE Previewed(d)'
      <4>1. d # c BY <3>3, <3>4 DEF Pending
      <4>2. Pending(d) /\ call'[d] = call[d] BY <4>1, <3>2, <3>4 DEF Pending
      <4>3. Previewed(d) BY <4>2 DEF PreviewInv
      <4>4. Foreseen(d)' BY <4>2, <4>3, <3>1 DEF Previewed, Foreseen
      <4>5. QED BY <4>2, <4>3, <4>4, <3>1, <2>0, PreviewKept DEF PreviewInv
    <3>5. ClosedOnlyAsPreviewed' BY <3>1 DEF PreviewInv, ClosedOnlyAsPreviewed, Positions
    <3>6. \A d \in Calls : call'[d].token \in tokens' \cup {NoToken}
      BY <3>1, <3>2, <3>3 DEF PreviewInv
    <3>7. QED BY <2>0, <3>1, <3>4, <3>5, <3>6 DEF PreviewInv
  <2>3. ASSUME NEW c \in Calls, Confirm(c) PROVE PreviewInv'
    <3> DEFINE t == call[c].token
               r == call[c].req
    <3>1. UNCHANGED <<log, tokens, now, deal, moved>> BY <2>3 DEF Confirm
    <3>2. \A d \in Calls : d # c => call'[d] = call[d] BY <2>0, <2>3 DEF Confirm
    <3>3. call[c] \in Executing BY <2>0, <2>3, IdleFacts DEF Confirm
    <3>4. CASE call'[c] = Idle
      <4>1. \A d \in Calls : Foreseen(d) /\ call'[d] = call[d] => Foreseen(d)'
        BY <3>1 DEF Foreseen
      <4>2. QED BY <2>0, <3>1, <3>2, <3>4, <4>1, PreviewQuietStep
    <3>5. CASE Verified(t, Effect(r, deal, now)) /\ call'[c] = [call[c] EXCEPT !.pc = "resolve", !.verifiedAt = now]
      <4>1. call'[c].token = t /\ call'[c].req = r /\ call'[c].verifiedAt = now
        BY <3>3, <3>5 DEF Executing
      <4>2. t \in Tokens BY <3>3, <3>5 DEF Verified, Executing
      <4>3. /\ now <= t.exp /\ t.to = r.to /\ t.closed = ClosedAt(r, now)
            /\ t.before = deal.stage
        BY <3>5 DEF Verified, Effect
      <4>4. t \in tokens BY <3>5 DEF Verified, PreviewInv
      <4>5. t.exp \in Nat /\ TokenTTL \in Nat BY <4>2, BoundsAssumption DEF Tokens
      <4>6. now \in (t.exp - TokenTTL) .. t.exp BY <4>3, <4>4, <4>5, <2>0
      <4>7. Covers(t, r, now) BY <4>3, <4>4, <4>6 DEF Covers
      <4> HIDE DEF t, r
      <4>8. Previewed(c)'
        BY <4>1, <4>3, <4>7, <3>1, <2>0 DEF Covers, Previewed, Foreseen
      <4>9. ASSUME NEW d \in Calls, Pending(d)' PROVE Previewed(d)'
        <5>1. CASE d = c BY <4>8, <5>1
        <5>2. CASE d # c
          <6>1. Pending(d) /\ call'[d] = call[d] BY <5>2, <3>2, <4>9 DEF Pending
          <6>2. Previewed(d) BY <6>1 DEF PreviewInv
          <6>3. Foreseen(d)' BY <6>1, <6>2, <3>1 DEF Previewed, Foreseen
          <6>4. QED BY <6>1, <6>2, <6>3, <3>1, <2>0, PreviewKept DEF PreviewInv
        <5>3. QED BY <5>1, <5>2
      <4>10. \A d \in Calls : call'[d].token \in tokens' \cup {NoToken}
        BY <4>1, <4>4, <3>1, <3>2 DEF PreviewInv
      <4>11. ClosedOnlyAsPreviewed'
        BY <3>1 DEF PreviewInv, ClosedOnlyAsPreviewed, Positions
      <4>12. QED BY <4>9, <4>10, <4>11, <3>1, <2>0 DEF PreviewInv
    <3>6. QED BY <2>3, <2>0, <3>4, <3>5 DEF Confirm
  <2>4. ASSUME NEW c \in Calls, Resolve(c) PROVE PreviewInv'
    <3>1. UNCHANGED <<log, tokens, now, deal>> /\ moved \ {c} \subseteq moved'
      BY <2>4 DEF Resolve
    <3>2. \A d \in Calls : d # c => call'[d] = call[d] BY <2>0, <2>4 DEF Resolve
    <3>3. call[c] \in Executing /\ call[c].pc = "resolve" BY <2>0, <2>4, IdleFacts DEF Resolve
    <3>4. CASE call'[c] = Idle
      <4>1. call[c] # Idle BY <3>3, IdleFacts
      <4>2. \A d \in Calls : Foreseen(d) /\ call'[d] = call[d] => Foreseen(d)'
        BY <3>1, <3>4, <4>1 DEF Foreseen
      <4>3. QED BY <2>0, <3>1, <3>2, <3>4, <4>2, PreviewQuietStep
    <3>5. CASE call'[c] # Idle
      <4>1. /\ call'[c].token = call[c].token /\ call'[c].req = call[c].req
            /\ call'[c].verifiedAt = call[c].verifiedAt /\ moved' = moved
        BY <2>0, <2>4, <3>3, <3>5 DEF Resolve, Executing
      <4>2. ASSUME NEW d \in Calls, Pending(d)' PROVE Previewed(d)'
        <5>1. /\ call'[d].token = call[d].token /\ call'[d].req = call[d].req
              /\ call'[d].verifiedAt = call[d].verifiedAt
          BY <3>2, <4>1
        <5>2. Pending(d) BY <4>2, <5>1, <3>2, <3>3 DEF Pending
        <5>3. Previewed(d) BY <5>2 DEF PreviewInv
        <5>4. QED BY <5>1, <5>3, <3>1, <4>1 DEF Previewed, Covers, Foreseen
      <4>3. \A d \in Calls : call'[d].token \in tokens' \cup {NoToken}
        BY <4>1, <3>1, <3>2 DEF PreviewInv
      <4>4. ClosedOnlyAsPreviewed'
        BY <3>1 DEF PreviewInv, ClosedOnlyAsPreviewed, Positions
      <4>5. QED BY <4>2, <4>3, <4>4, <3>1, <2>0 DEF PreviewInv
    <3>6. QED BY <3>4, <3>5
  <2>5. ASSUME NEW c \in Calls, Abort(c) \/ ApplyNotFound(c) PROVE PreviewInv'
    <3>1. call'[c] = Idle /\ call[c] # Idle /\ \A d \in Calls \ {c} : call'[d] = call[d]
      BY <2>0, <2>5, IdleFacts DEF Abort, ApplyNotFound
    <3>2. UNCHANGED <<log, tokens, now, deal>> /\ moved' = moved \ {c}
      BY <2>5 DEF Abort, ApplyNotFound
    <3>3. \A d \in Calls : Foreseen(d) /\ call'[d] = call[d] => Foreseen(d)'
      BY <3>1, <3>2 DEF Foreseen
    <3>4. QED BY <2>0, <3>1, <3>2, <3>3, PreviewQuietStep
  <2>6. ASSUME NEW c \in Calls, ApplyStageChange(c) PROVE PreviewInv'
    <3>1. Committed(c) /\ call[c].pc = "apply" /\ deal # Gone BY <2>6 DEF ApplyStageChange
    <3>2. /\ moved' = (moved \cup Overtaken(call[c].req.to)) \ {c}
          /\ deal'.stage = call[c].req.to
      BY <2>6 DEF ApplyStageChange
    <3>3. ASSUME NEW d \in Calls \ {c}, Pending(d), Foreseen(d) PROVE Foreseen(d)'
      <4>1. call'[d] = call[d] BY <2>0, <3>1 DEF Committed
      <4>2. CASE call[c].req.to = deal.stage
        BY <3>1, <3>2, <3>3, <4>1, <4>2 DEF Foreseen
      <4>3. CASE call[c].req.to # deal.stage
        <5>1. d \in Overtaken(call[c].req.to) BY <3>3, <4>3 DEF Overtaken, Pending
        <5>2. QED BY <3>2, <5>1 DEF Foreseen
      <4>4. QED BY <4>2, <4>3
    <3>4. QED BY <3>1, <3>3, PreviewCommit
  <2>7. ASSUME NEW c \in Calls, ApplyCaptureLead(c) \/ ApplyCreate(c) PROVE PreviewInv'
    <3>1. Committed(c) /\ call[c].pc = "apply" /\ UNCHANGED <<deal, moved>>
      BY <2>7 DEF ApplyCaptureLead, ApplyCreate
    <3>2. call[c] \in Executing BY <2>0, <3>1, IdleFacts
    <3>3. ~Destructive(call[c].req)
      BY <2>7, <3>2, RequestsAssumption DEF ApplyCaptureLead, ApplyCreate, Destructive, Executing
    <3>4. \A d \in Calls \ {c} : call'[d] = call[d] BY <2>0, <3>1 DEF Committed
    <3>5. \A d \in Calls \ {c} : Foreseen(d) => Foreseen(d)' BY <3>1, <3>4 DEF Foreseen
    <3>6. QED BY <3>1, <3>3, <3>5, PreviewCommit
  <2>8. ASSUME UNCHANGED <<log, tokens, call>>, now' = now \/ now' = now + 1,
               \A d \in Calls : Pending(d) /\ Foreseen(d) => Foreseen(d)'
        PROVE  PreviewInv'
    <3>1. now' >= now BY <2>0, <2>8
    <3>2. \A t \in tokens' : t.exp - TokenTTL <= now'
      BY <2>0, <2>8, BoundsAssumption DEF Tokens
    <3>3. QED BY <2>8, <3>1, <3>2, PreviewQuietStep
  <2>9. ASSUME NEW s \in Stages, UpdateDeal(s) PROVE PreviewInv'
    <3>1. /\ UNCHANGED <<log, tokens, call, now>> /\ moved' = moved \cup Overtaken(s)
          /\ deal # Gone /\ deal' = [deal EXCEPT !.stage = s]
      BY <2>9 DEF UpdateDeal
    <3>2. deal'.stage = s BY <3>1 DEF PreviewInv, TypeOK
    <3>3. ASSUME NEW d \in Calls, Pending(d), Foreseen(d) PROVE Foreseen(d)'
      <4>1. CASE s = deal.stage BY <3>1, <3>2, <3>3, <4>1 DEF Foreseen
      <4>2. CASE s # deal.stage
        <5>1. d \in Overtaken(s) BY <3>3, <4>2 DEF Overtaken, Pending
        <5>2. QED BY <3>1, <5>1 DEF Foreseen
      <4>3. QED BY <4>1, <4>2
    <3>4. QED BY <2>8, <3>1, <3>3
  <2>10. CASE DeleteDeal
    <3>1. UNCHANGED <<log, tokens, call, now>> /\ deal' = Gone BY <2>10 DEF DeleteDeal
    <3>2. \A d \in Calls : Foreseen(d)' BY <3>1 DEF Foreseen
    <3>3. QED BY <2>8, <3>1, <3>2
  <2>11. CASE Tick \/ UNCHANGED vars
    <3>1. UNCHANGED <<log, tokens, call, deal, moved>> /\ (now' = now \/ now' = now + 1)
      BY <2>11 DEF Tick, vars
    <3>2. \A d \in Calls : Foreseen(d) => Foreseen(d)' BY <3>1 DEF Foreseen
    <3>3. QED BY <2>8, <3>1, <3>2
  <2>12. QED
    BY <2>1, <2>2, <2>3, <2>4, <2>5, <2>6, <2>7, <2>9, <2>10, <2>11 DEF Next
<1>3. PreviewInv => ClosedOnlyAsPreviewed
  BY DEF PreviewInv
<1>4. Spec => []TypeOK BY TypeCorrect
<1>5. QED BY <1>1, <1>2, <1>3, <1>4, PTL DEF Spec
=============================================================================
