---------------------------- MODULE GuardedWrite ----------------------------
(* The guarded writes of apps/api/capability: the order of controls around *)
(* one write (replay the idempotency key, confirm a destructive effect,    *)
(* apply), the core.idempotency_keys table, stateless confirmation tokens, *)
(* and the writes on one deal and one lead's contact that run under them,  *)
(* concurrently, with other writers of the deal in between.                *)
(*                                                                         *)
(* A write transaction takes its row locks at its UPDATE or INSERT and is  *)
(* READ COMMITTED, so it is two steps here: what it reads before the first *)
(* lock (Resolve), and everything from that lock to the commit (an Apply   *)
(* action).  A rollback at any point is Abort.                             *)
EXTENDS Integers, Sequences, FiniteSets

CONSTANTS
  Calls,        \* concurrent write calls (reused once answered)
  Requests,     \* the writes clients ask for: [kind, to, closing, key]
  Keys,         \* idempotency keys
  NoKey,        \* a request without one
  Stages,       \* pipeline stages
  KeyTTL,       \* idempotencyTTL, 24 h in the code
  TokenTTL,     \* confirmTokenTTL, 10 min in the code
  MaxTime,      \* bound on the clock
  MaxLog,       \* bound on committed writes
  MaxTokens     \* bound on confirmation tokens issued

Open == -2      \* deals.closed_at is NULL
Dated == -1     \* closed_at is the calendar date the request names
Kinds == {"advance", "transition", "lead", "post"}
Closings == {"no", "date", "now"}

ASSUME KeysAssumption == NoKey \notin Keys
ASSUME RequestsAssumption ==
  /\ Requests \subseteq [kind : Kinds, to : Stages, closing : Closings, key : Keys \cup {NoKey}]
  /\ \A r \in Requests : r.closing # "no" => r.kind = "advance"
ASSUME BoundsAssumption ==
  /\ KeyTTL \in Nat \ {0} /\ TokenTTL \in Nat
  /\ MaxTime \in Nat /\ MaxLog \in Nat /\ MaxTokens \in Nat

VARIABLES
  now,        \* the clock, in units no digest can tell apart (seconds)
  deal,       \* the deal's row: [stage, closed], or Gone once deleted
  contacts,   \* how many contacts carry the lead's email
  keys,       \* core.idempotency_keys: the row of each key, or NoRow
  tokens,     \* confirmation tokens handed out
  log,        \* committed keyed or stage-changing writes, in commit order
  call,       \* the write each call is executing
  moved       \* history: confirmed calls whose deal another writer has moved since

vars == <<now, deal, contacts, keys, tokens, log, call, moved>>

Gone == [stage |-> "gone", closed |-> Open]
NoRow == [body |-> 0, expires |-> 0]
NoToken == [before |-> "none", to |-> "none", closed |-> Open, exp |-> 0]
NoEffect == [before |-> "none", to |-> "none", closed |-> Open]
NoRequest == [kind |-> "none", to |-> "none", closing |-> "no", key |-> NoKey]
Idle == [pc |-> "idle", req |-> NoRequest, token |-> NoToken, looked |-> 0,
         lookedAt |-> 0, verifiedAt |-> 0, old |-> "none", found |-> FALSE]

Init ==
  /\ now = 0
  /\ deal \in [stage : Stages, closed : {Open}]
  /\ contacts = 0
  /\ keys = [k \in Keys |-> NoRow]
  /\ tokens = {}
  /\ log = <<>>
  /\ call = [c \in Calls |-> Idle]
  /\ moved = {}

(* Only mark_closed_at makes an advance_deal destructive. *)
Destructive(r) == r.closing # "no"

(* mark_closed_at resolved: a date is itself, "", "today", "now" and what  *)
(* does not parse are the current instant.                                 *)
ClosedAt(r, t) ==
  CASE r.closing = "no" -> Open
    [] r.closing = "date" -> Dated
    [] r.closing = "now" -> t

(* The effect advance_deal's plan describes, which is all the digest sees. *)
Effect(r, d, t) == [before |-> d.stage, to |-> r.to, closed |-> ClosedAt(r, t)]

(* A dry run of a destructive request: plan in a read transaction, and a   *)
(* token bound to the digest of the effect and to its own expiry.          *)
DryRun(r) ==
  /\ Destructive(r)
  /\ deal # Gone
  /\ Cardinality(tokens) < MaxTokens
  /\ LET e == Effect(r, deal, now)
     IN tokens' = tokens \cup
          {[before |-> e.before, to |-> e.to, closed |-> e.closed, exp |-> now + TokenTTL]}
  /\ UNCHANGED <<now, deal, contacts, keys, log, call, moved>>

(* Faulty variant: the row is taken for expired one unit too soon.        *)
HitEarlyExpiry(k) == k # NoKey /\ keys[k] # NoRow /\ keys[k].expires > now + 1
(* Does the cache answer for this key now?  (expires_at > now())           *)
Hit(k) == k # NoKey /\ keys[k] # NoRow /\ keys[k].expires > now

(* A real call: the idempotency lookup runs before, and outside of, every  *)
(* transaction.  A hit is answered from the cache and touches nothing.     *)
Lookup(c, r, t) ==
  /\ call[c] = Idle
  /\ ~Hit(r.key)
  /\ call' = [call EXCEPT ![c] =
       [pc |-> IF Destructive(r) THEN "confirm"
               ELSE IF r.kind = "post" THEN "apply" ELSE "resolve",
        req |-> r, token |-> IF Destructive(r) THEN t ELSE NoToken,
        looked |-> Len(log), lookedAt |-> now,
        verifiedAt |-> 0, old |-> "none", found |-> FALSE]]
  /\ UNCHANGED <<now, deal, contacts, keys, tokens, log, moved>>

(* Faulty variant: the expiry inside the token is never compared.          *)
VerifiedForever(t, e) ==
  t # NoToken /\ [before |-> t.before, to |-> t.to, closed |-> t.closed] = e
(* Verify recomputes the token's HMAC over the effect planned now.         *)
Verified(t, e) ==
  /\ t # NoToken
  /\ now <= t.exp
  /\ [before |-> t.before, to |-> t.to, closed |-> t.closed] = e

(* A destructive call re-plans in its own read transaction and goes on only *)
(* with a token for exactly that effect.                                   *)
Confirm(c) ==
  /\ call[c].pc = "confirm"
  /\ call' = [call EXCEPT ![c] =
       IF deal # Gone /\ Verified(call[c].token, Effect(call[c].req, deal, now))
       THEN [@ EXCEPT !.pc = "resolve", !.verifiedAt = now]
       ELSE Idle]
  /\ UNCHANGED <<now, deal, contacts, keys, tokens, log, moved>>

(* Faulty variant: the deal is assumed to exist.                          *)
SameStage(r) == r.kind = "transition" /\ deal.stage = r.to
(* The deal is missing, or a transition goes to the stage it is in.        *)
NothingToMove(r) == deal = Gone \/ (r.kind = "transition" /\ deal.stage = r.to)

(* What the write transaction reads before it locks anything: whether a    *)
(* contact carries the lead's email, or the deal it will move.             *)
Resolve(c) ==
  /\ call[c].pc = "resolve"
  /\ call' = [call EXCEPT ![c] =
       IF @.req.kind = "lead" THEN [@ EXCEPT !.pc = "apply", !.found = contacts > 0]
       ELSE IF NothingToMove(@.req) THEN Idle
       ELSE [@ EXCEPT !.pc = "apply", !.old = deal.stage]]
  /\ moved' = IF call'[c] = Idle THEN moved \ {c} ELSE moved
  /\ UNCHANGED <<now, deal, contacts, keys, tokens, log>>

(* Faulty variant: ON CONFLICT DO UPDATE.                                 *)
StoredLast(k, body) ==
  IF k # NoKey THEN [keys EXCEPT ![k] = [body |-> body, expires |-> now + KeyTTL]] ELSE keys
(* IdempotencyStore: INSERT ... ON CONFLICT DO NOTHING, in the write's own *)
(* transaction; the row already there stays, expired or not.               *)
Stored(k, body) ==
  IF k # NoKey /\ keys[k] = NoRow
  THEN [keys EXCEPT ![k] = [body |-> body, expires |-> now + KeyTTL]]
  ELSE keys

(* The confirmed calls that find the deal in another stage once it is in s.*)
Overtaken(s) ==
  {c \in Calls : /\ s # deal.stage
                 /\ call[c].pc \in {"resolve", "apply"} /\ Destructive(call[c].req)}

(* The record of call c's write, were it to commit now; "old" is the stage  *)
(* its activity tells, the one the transaction read before its UPDATE, and *)
(* "effect" is what the write does, in the terms of a preview.             *)
Entry(c) ==
  [req |-> call[c].req, old |-> call[c].old, at |-> now, looked |-> call[c].looked,
   lookedAt |-> call[c].lookedAt, verifiedAt |-> call[c].verifiedAt, token |-> call[c].token,
   effect |-> IF Destructive(call[c].req) THEN Effect(call[c].req, deal, now) ELSE NoEffect,
   moved |-> c \in moved]

Committed(c) ==
  /\ Len(log) < MaxLog
  /\ log' = Append(log, Entry(c))
  /\ keys' = Stored(call[c].req.key, Len(log) + 1)
  /\ call' = [call EXCEPT ![c] = Idle]
  /\ UNCHANGED <<now, tokens>>

(* advance_deal and TransitionDealStage: UPDATE deals by id, closed_at     *)
(* when closing, the stage_change activity, the audit row, the key, COMMIT. *)
ApplyStageChange(c) ==
  /\ call[c].pc = "apply"
  /\ call[c].req.kind \in {"advance", "transition"}
  /\ deal # Gone
  /\ deal' = [stage |-> call[c].req.to,
              closed |-> IF Destructive(call[c].req) THEN ClosedAt(call[c].req, now)
                         ELSE deal.closed]
  /\ moved' = (moved \cup Overtaken(call[c].req.to)) \ {c}
  /\ Committed(c)
  /\ UNCHANGED contacts

(* The UPDATE finds no row: an error, nothing written.                     *)
ApplyNotFound(c) ==
  /\ call[c].pc = "apply"
  /\ call[c].req.kind \in {"advance", "transition"}
  /\ deal = Gone
  /\ call' = [call EXCEPT ![c] = Idle]
  /\ moved' = moved \ {c}
  /\ UNCHANGED <<now, deal, contacts, keys, tokens, log>>

(* capture_lead: the contact found by email is merged into, otherwise one  *)
(* is inserted (no unique index on the email); a deal of its own, the      *)
(* activities, the audit row, the key, COMMIT.                             *)
ApplyCaptureLead(c) ==
  /\ call[c].pc = "apply"
  /\ call[c].req.kind = "lead"
  /\ contacts' = IF call[c].found THEN contacts ELSE contacts + 1
  /\ Committed(c)
  /\ UNCHANGED <<deal, moved>>

(* POST /v1/deals (contacts and companies alike): INSERT, audit, activity, *)
(* key, COMMIT.                                                            *)
ApplyCreate(c) ==
  /\ call[c].pc = "apply"
  /\ call[c].req.kind = "post"
  /\ Committed(c)
  /\ UNCHANGED <<deal, contacts, moved>>

(* An error, a crash or a cancelled request: the transaction rolls back.   *)
Abort(c) ==
  /\ call[c] # Idle
  /\ call' = [call EXCEPT ![c] = Idle]
  /\ moved' = moved \ {c}
  /\ UNCHANGED <<now, deal, contacts, keys, tokens, log>>

(* PUT /v1/deals/{id}: replaces the stage, leaves closed_at, takes no key. *)
UpdateDeal(s) ==
  /\ deal # Gone
  /\ deal' = [deal EXCEPT !.stage = s]
  /\ moved' = moved \cup Overtaken(s)
  /\ UNCHANGED <<now, contacts, keys, tokens, log, call>>

(* DELETE /v1/deals/{id} *)
DeleteDeal ==
  /\ deal # Gone
  /\ deal' = Gone
  /\ UNCHANGED <<now, contacts, keys, tokens, log, call, moved>>

Tick ==
  /\ now < MaxTime
  /\ now' = now + 1
  /\ UNCHANGED <<deal, contacts, keys, tokens, log, call, moved>>

Next ==
  \/ \E r \in Requests : DryRun(r)
  \/ \E c \in Calls :
       \/ \E r \in Requests, t \in tokens \cup {NoToken} : Lookup(c, r, t)
       \/ Confirm(c) \/ Resolve(c) \/ Abort(c)
       \/ ApplyStageChange(c) \/ ApplyNotFound(c)
       \/ ApplyCaptureLead(c) \/ ApplyCreate(c)
  \/ \E s \in Stages : UpdateDeal(s)
  \/ DeleteDeal
  \/ Tick

Spec == Init /\ [][Next]_vars
-----------------------------------------------------------------------------
Positions == 1 .. Len(log)
SameKey(i, j) == log[i].req.key # NoKey /\ log[i].req.key = log[j].req.key

(* A key's cached response is that of the first write committed under it,  *)
(* and a key with a committed write has a row: what is replayed is always  *)
(* the first response.                                                     *)
KeyHoldsFirstResponse ==
  \A k \in Keys :
    /\ keys[k].body # 0 => keys[k].body \in Positions /\ log[keys[k].body].req.key = k
    /\ \A i \in Positions : log[i].req.key = k => keys[k].body \in 1 .. i

(* Two writes commit under one key only when the later one looked the key  *)
(* up before the earlier one committed, or once the row had expired: a     *)
(* retry sent after the first answer, within its 24 hours, never acts.     *)
ActsTwiceOnlyByRaceOrExpiry ==
  \A i, j \in Positions :
    i < j /\ SameKey(i, j) =>
      \/ log[j].looked < i
      \/ log[j].lookedAt >= keys[log[j].req.key].expires

(* "so the committed effect equals exactly what was previewed"             *)
(* (writesafety.go, step 4): a deal is closed only on a token confirmed in *)
(* its lifetime, and the stage it comes from, the one it goes to and the   *)
(* close date are the token's.  Two exceptions, as step 5 checks nothing:  *)
(* the deal was moved after the confirmation, and "now" is read again.     *)
ClosedOnlyAsPreviewed ==
  \A i \in Positions :
    LET did == log[i].effect
        told == log[i].token
    IN Destructive(log[i].req) =>
         /\ told \in tokens
         /\ log[i].verifiedAt \in (told.exp - TokenTTL) .. told.exp
         /\ did.to = told.to
         /\ did.before = told.before \/ log[i].moved
         /\ did.closed = told.closed
              \/ (log[i].req.closing = "now" /\ log[i].at > log[i].verifiedAt)

(* "a duplicate call within 24h replays the cached result instead of       *)
(* acting twice" (the idempotency_key parameter of every write tool).      *)
ActsOncePerKey ==
  \A i, j \in Positions : i < j /\ SameKey(i, j) => log[j].at >= log[i].at + KeyTTL

(* The handshake can be completed: a call that presents an unexpired token *)
(* for its own request, on a deal still in the previewed stage, is not     *)
(* turned away when it is confirmed.                                       *)
RightTokenIsAccepted ==
  [][\A c \in Calls :
       /\ Confirm(c)
       /\ deal # Gone
       /\ call[c].token \in tokens
       /\ now <= call[c].token.exp
       /\ call[c].token.before = deal.stage
       /\ call[c].token.to = call[c].req.to
       /\ (call[c].token.closed = Dated <=> call[c].req.closing = "date")
       => call'[c].pc = "resolve"]_vars
-----------------------------------------------------------------------------
ClosedTimes == {Open, Dated} \cup 0 .. MaxTime
Tokens == [before : Stages, to : Stages, closed : ClosedTimes, exp : Nat]
Entries ==
  [req : Requests, old : Stages \cup {"none"}, at : 0 .. MaxTime, looked : Nat,
   lookedAt : 0 .. MaxTime, verifiedAt : 0 .. MaxTime, token : Tokens \cup {NoToken},
   effect : [before : Stages \cup {"none", "gone"}, to : Stages \cup {"none"},
             closed : ClosedTimes], moved : BOOLEAN]
Executing ==
  [pc : {"confirm", "resolve", "apply"}, req : Requests, token : Tokens \cup {NoToken},
   looked : Nat, lookedAt : 0 .. MaxTime, verifiedAt : 0 .. MaxTime,
   old : Stages \cup {"none"}, found : BOOLEAN]

TypeOK ==
  /\ now \in 0 .. MaxTime
  /\ deal \in [stage : Stages, closed : ClosedTimes] \cup {Gone}
  /\ contacts \in Nat
  /\ keys \in [Keys -> [body : Nat, expires : Nat]]
  /\ tokens \subseteq Tokens
  /\ log \in Seq(Entries)
  /\ call \in [Calls -> Executing \cup {Idle}]
  /\ moved \subseteq Calls
=============================================================================
