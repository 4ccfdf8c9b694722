# Formal models of leCRM

TLA+ specifications of the parts of leCRM whose correctness depends on order,
concurrency or failure, the TLC configurations that check them on small
instances, and TLAPS proofs of their most important properties for every value
of the constants. Source paths below are relative to `src/`.

## 1. Inventory

leCRM is a multi-tenant CRM: one Go API (`apps/api`), an MCP server for agents
(`apps/mcp`), operator commands (`apps/admin`, `apps/migrate`), a web front end,
and PostgreSQL with one schema and one role per workspace. All shared state is
in PostgreSQL, except the pool manager and a few caches.

| component | state it keeps | operations | what is hard | what makes it correct |
|---|---|---|---|---|
| Enrollment state machine, `sequences/state.go`, `transition.go` | `enrollments.state`, audit rows, finalize jobs | `Transition` | many workers on one row; the read that led to a move is older than the lock | every move legal, audited and finalized in one commit |
| Gmail reply detection, `sequences/gmailreply` | `sync_connections.sync_cursor`, the river job row | push handler, `poll_mailbox`, `watch_renew` | duplicated, reordered, bare pushes; coalescing; retries; zombie executions; a cursor shared with the renewal | no reply is passed over; a reply moves its enrollment once |
| Gmail runtime, `sequences/seqruntime` | river clients per workspace | start, stop, enqueue | start-up order | a push is queued or refused |
| Other sequence handlers, `sequences/*.go` | enrollment rows, send log | enroll, send, finalize, bounce | races with replies | only legal moves |
| Guarded writes, `capability` | `deals`, `contacts`, `core.idempotency_keys`; stateless tokens | dry run, lookup, confirm, apply; CRUD | three separate transactions per call; a deal edited between them; expiry | a retry replays, a destructive write is as previewed |
| Tenant pool, `db/tenant_pool.go` | sub-pools per role, LRU list, mutex | `RunInWorkspace`, `AcquireTx`, `Close` | closing blocks under the mutex; pool closed between lookup and acquire | bounded connections, no leak, no starvation |
| Tenant registry, `apps/admin/internal/tenant`, `integrator`, `apps/migrate` | schema `core`: workspaces, audit, grants; one schema and role per workspace | create (fresh, upsert, force-recreate), tombstone, verify, grant, revoke, provision, river-setup | each command is several transactions; two operators at once; a command that dies | one workspace per slug; a retired slug stays retired (but for a named race); every row whole |
| Members and roles, `members`, `rbac`, `workspace` | `core.workspace_members`, `service_tokens` | invite, role change, remove; sign-in; token create, delete | role read in the middleware, used in the handler; two owners acting at once; sign-in racing a removal | roles change only in the ways the code means |
| Sessions and revocation, `auth` | cookies, `session_revocations`, `user_revocations`, in-memory bloom filter and user map | sign in, upgrade, log out, revoke, revoke all, clean, refresh | stale cache, refresh that fails half-way, whole seconds against finer times | a revoked session ends, no other does but those a caller names |
| Custom properties, `metadata` | definitions, a cache with a lifetime, one bag per record | define, delete, set, merge; `config apply` and `replay` of `lecrm-admin` | a load racing an invalidation; a writer in another process; DELETE and INSERT without a unique index | validation against current definitions; one bag per record |
| CRM records, `crm/handlers.go`, `anc_handlers.go`, `export.go`, `capability/ops.go`, `sqlcgen` | contacts, companies, deals, notes, tasks, timeline, audit, keys | create, update, delete, move; lists and exports by page | reads before locks; pages read while others write | readers miss nothing; the timeline tells the stage |
| Duplicates and merge, `crm/dedup.go` | pairs marked distinct | list, mark, merge | loads without a lock; merges crossing each other | what hung on the loser follows, and nothing names it; one of two is kept |
| CSV import, `crm/import.go` | none between calls | preview, commit | rows of one file that match each other | commit does what the preview told |
| Connectors, `crm/connectors.go` | `external_entity_mappings`, keys | seven events | repeated, late, concurrent deliveries | one entity per external id |
| E-mail and suppression, `email`, `sequences/preflight.go`, `bounce.go` | suppression list, sent steps | send, webhook, gate, bounce policy | failure after the provider accepted; bounces counted at once | suppressed addresses get nothing; mail is repeated only after a loss |
| Workspace jobs, `jobs` | advisory lock | run one job | lock release on every path | one job per workspace |
| Sync engine, reports, HTTP shell, SPA and admin console, MCP adapters, migrations, web, deployment | none of their own | | | |

How they interact: Pub/Sub calls the push handler, which inserts a job into the
workspace's river queue (runtime); the worker opens a workspace transaction,
calls Gmail, and calls `Transition`, which the other handlers call as well. REST
and MCP requests call the capability package. Work in a workspace takes its
connection from the tenant pool or from a `SET search_path` transaction. An operator's
command creates and drops what requests work in; a sign-in reads the grants that
an operator writes; the role it leaves in the members' table is what the
middlewares hand to the CRM. Connectors and captured leads share the contact
upsert, connectors and the metadata routes the custom-property bags, and the
webhook, the e-mail service and the sequence gate the suppression list.

`PROJECT.json` lists every component with its status, and under `hazards` each
place in the code where a test would hardly reach what can go wrong.

## 2. Modules

| module | models |
|---|---|
| `EnrollmentStates` | the state graph of `state.go` |
| `Enrollment` | abstract promise: transactions make atomic, legal, audited moves |
| `GmailReply` | one mailbox's reply detection, step by step; implements `Enrollment` |
| `MCGmailReply` | its instances for TLC |
| `GmailReplyProofs` | its theorems |
| `GuardedWrite` | guarded writes, idempotency keys, confirmation tokens |
| `MCGuardedWrite`, `GuardedWriteProofs` | its instances and theorems |
| `TenantPool`, `MCTenantPool`, `TenantPoolProofs` | the pool manager, its instance, its theorems |
| `SlugRegistry` | abstract promise: slugs are bound to one workspace, and retired for good |
| `Tenants` | operator commands on the registry; implements `SlugRegistry` |
| `Access` | extends `Tenants`: sign-in, principals, members, service tokens |
| `Revocation` | sessions, the revocation tables, the cache of them |
| `MCPlatform` | `Access` and `Revocation` on small instances |
| `AccessProofs` | theorems of `Tenants` and `Access` together |
| `RevocationProofs` | theorems of `Revocation` |
| `Crm` | records, notes, tasks, timeline, idempotent creations, paging |
| `Dedup` | extends `Crm`: duplicates and merges |
| `Import` | extends `Dedup`: preview and commit of a file |
| `Connectors` | extends `Import`: events of external tools |
| `Properties` | definitions, their cache, one record's bag |
| `Outbound` | e-mail service, webhook, sequence gate, bounce policy |
| `MCRecords` | `Connectors`, `Properties` and `Outbound` on small instances |
| `RecordsProofs` | theorems of `Connectors` with all it extends |
| `PropertiesProofs`, `OutboundProofs` | theorems of `Properties`, of `Outbound` |

Operators whose comment says "faulty variant", and those that stand right before
the operator they resemble (`ClaimableTwice`, `RowFreeAlways`, ...), are not used
by any specification. Each is a plausible bug; substituting it for its neighbour
makes TLC violate the property that `PROJECT.json` pairs it with, which shows
that the property depends on that line of the code.

### GmailReply

History ids are counted: message `i` of `inbox` has id `i + 1`, `head` is the
mailbox's current id, 0 means unset. `job` is the river row (`st`, `attempt` and
the pushed id). `tx[w]` is what one execution of the worker holds in its
transaction: where it starts, what it listed, the states `matchSteps` read, the
rows it locked and the moves it staged. Nothing of it is visible before `Save`.

| code | action |
|---|---|
| `PushHandler.ServeHTTP`, `Enqueuer.EnqueuePollMailbox` | `Deliver`, `Redeliver` |
| river fetch, `loadCursor` or baseline | `Fetch` |
| `MessagesSince` / no baseline, a history gap, or a 404 of a deleted message | `List` / `Rebaseline` |
| `matchSteps` | `MatchSteps` |
| `correlateReplies`, `applyReply`, `Transition` | `ApplyReply`, one message at a time |
| `saveCursor`, COMMIT, job completed | `Save` |
| error, process death | `Fail`, `Crash` |
| river's rescuer and cleaner | `Rescue`, `Clean` |
| other handlers' `Transition` | `EnvTransition` |
| `watch_renew`: list, Gmail call, save | `RenewList`, `RenewWatch`, `RenewSave`, `RenewFail` |
| the mailbox | `Arrive`, `Delete`, `Expire` |

Reads that the code makes without a lock (`MatchSteps`, `RenewList`) are steps of
their own, so the value may be stale when used; a row lock is exclusive until the
transaction ends. `correlateReplies` is evaluated as the batch is applied:
`Claimable` depends on the rows this scan has claimed. A classifier verdict is
either of the two states. A rescue while an execution is alive leaves a zombie
that may still commit; river records an outcome only while the row is running.
`scanned`, `excused` and `dropped` are history variables for the properties: indices
listed by a committed scan, given up by a documented baseline or gap, and given up
because of a deleted message: `MessagesSince` fetches every message it lists, so one
that is `gone` answers 404, which `isHistoryGap` takes for a cursor that is too old.
The worker then rebaselines (`torn` marks such an execution) past a window that Gmail
still retains.

`FinalizeWired` is `Deps.Finalize # nil`. `gmail_scan`, `gmail_catch_up` and
`gmail_nil_finalize` run with it false, as `cmd/lecrm-api` wires the worker at this
commit; `gmail_moves` runs with it true, as the contract of `transition.go` has it.
`TerminalFinalized` is stated, and proved, for both. The other handlers are not in the
repository and are taken to be wired.

### GuardedWrite

One deal (stage, close date), one lead's e-mail, and `Calls` executing
`GuardedWrite.Run`. The order of controls is the code's: `Lookup` (outside every
transaction), `Confirm` (its own read transaction), then the write transaction in
two steps, what it reads before its first lock (`Resolve`) and the rest up to the
commit (`Apply...`); `Abort` is a rollback or a lost process anywhere. A token is
the previewed effect and its expiry, which is all that the HMAC binds. The kinds of
request are `advance_deal` (with or without `mark_closed_at`), the pipeline view's
transition (no key), `capture_lead` and a keyed POST. `UpdateDeal` and
`DeleteDeal` are the unguarded writers. `log` records each commit with when its
key was looked up, which token confirmed it and what it did (`effect`: the stage it
found, the one it set, the close date), in the terms of a preview. `moved` is a history
variable: the confirmed calls whose deal somebody moved since. With one deal, a
reference cannot resolve to another deal at the apply than at the preview.

### TenantPool

`mu` is the manager's mutex. `Miss` takes it and keeps it through `Evicted` (the
victim's `Close` has returned) to `Open` or `OpenFails`, as `getOrCreate` does with
`defer mu.Unlock()`. `pgxpool.Pool.Close` marks the pool closed at once and returns
when every connection is back (`Drained`). `Acquire` runs without the mutex, so a
pool can be closed under it (`AcquireClosed`). Pool identities are recycled.

### Tenants and Access

A UUID is a number; `objects` holds what a command created under it (role, schemas,
stages, job tables). A command is split where the code commits or reads, and `Crash`
ends it between any two of its steps. `rows` may hold at most one row per slug, as
`UNIQUE (slug)` has it; the guard `~Taken` is that constraint.

| code | action |
|---|---|
| `tenant create`: fresh, upsert | `CreateFresh`, `CreateUpsert`, then `CallWrapper` or `Refused`, then `InsertIntegratorGrant` |
| `tenant create --force-recreate` | `CreateForceRecreate` (the slug's check), `RecreateLookup` (the unlocked read), then `ForceRecreate` (delete by id, provision, grant, commit) or `RecreateRefused` |
| `tenant tombstone` | `Tombstone`, `MarkTombstoned`, `AuditTombstone` |
| `integrator grant`, `revoke` | `IntegratorGrant`, `IntegratorRevoke`, `RevokeTx` |
| `provision-workspace`, `river-setup` | `MigrateProvision`, `Bootstrap`, `RiverSetup`, `SetupWorkspace` |
| `tenant verify` | `allInvariants`, the seven checks of the table that look at these tables |
| `Login`, `Callback` | `Login`, `CallbackIdentify`, `CallbackElevate`, `CallbackJoin`; `Abandon` anywhere |
| `MiddlewareWithBearer`, `Resolve` | `SessionRequest`, `TokenRequest` |
| `invite`, `updateRole`, `removeMember` behind `RequireRole` | actions of the same names |
| service-token handlers | `CreateToken`, `DeleteToken`, `ExpireToken` |

`excused`, `upset` and `unaudited` are history variables: each remembers one of the
ways in which the code leaves a promise open, and the properties of section 3 name
them. `EnsureMemberWithRole` and the SQL `CASE` that repeats the role order are
`EnsuredRole` and `roleRankCase`.

### Revocation

Time counts half seconds, because cookies carry whole seconds while the database
keeps finer ones and the cache's query casts them to whole seconds with rounding.
`refreshLoadJTIs`, `refreshStoreFilter` (which may fail on the users after it has
published the filter) and `refreshStoreUsers` are the round trips and stores of one
`refresh`; `NewRevocationCache` is a restart. `Revoke` stores whatever UUID it is sent, and
`named` remembers the other users' sessions that this ends; the nil UUID is `NoJti`, which
every V1 cookie bears. The bloom filter is a set of bits and
`Probe` is any assignment of bits to identifiers, so false positives happen.
`cmd/lecrm-api` builds the handlers without a revocation checker; `Revocation` models
the package with a checker in place, which is why `MCPlatform` does not compose it
with `Access`.

### Crm, Dedup, Import, Connectors

The four share one set of tables and each module adds its operations. UUIDs grow, so
they also stand for the order `(created_at, id)` that lists use. A request that reads
before its transaction, or before its first lock, is split there:

| code | action |
|---|---|
| idempotent POST | `Posts` (the lookup), then `CreateContact`, `CreateCompany`, `CreateDeal` |
| PUT, DELETE | one action; both take the row lock first |
| board move | `PatchDealStage` (the reads), `TransitionDealStage` |
| notes, tasks | one action each |
| list, export | `BeginWalk`, `ReadPage` until the last page |
| merge | `ListDuplicates`, `LoadMerge`, `RepointMerge` (locks taken, or a foreign key fails), `MergeContacts` or `MergeCompanies` (commit); `RolledBack` |
| import | `ImportPreview`, `ImportCommit` or `Cancel`; a file is a fold of `Classified` over its rows |
| connector event | `PostConnectorEvent` (the key), `Resolve` (mapping, candidate URL or e-mail), `handle...` |

Nobody sees the writes of a merge before it commits, but its row locks hold from
`RepointMerge` on, of the survivor and of every row it re-points (`staff`, the contacts
of a company, among them): `Unlocked` in the other writers is that wait, and `Deletable`
that of a deletion, whose `ON DELETE SET NULL` writes the rows that name the record. The
loser is not locked, so others go on hanging notes, tasks and bags on it; an `UPDATE`
or a commit whose foreign key names a row that is gone fails (`Unkeyed`).

### Properties and Outbound

`Properties` has one record type, its cache entry and one record. A statement sees
what was committed when it began, so `DeleteBag` and `DeleteDefinition` remember the
rows they saw, and delete or strip only these. `provisionCustomProperties` is
`lecrm-admin` writing definitions from its own process, which invalidates nothing, and
`MergeCustomProps` puts any key into a bag, as connectors, intakes and imports do. `Outbound` splits `Service.Send` around
the provider's call, `IngestEvent` between its statements, and a sequence
transaction between the gate (or the bounce count) and the commit. The provider and
the send and bounce handlers that call the gate and the policy are not in the
repository: `SendStep` and `ApplyBounce`'s recording of the result are marked so.

## 3. Runs

| run | shows | result |
|---|---|---|
| `gmail_scan` | cursor safety with a zombie execution, duplicate pushes, gaps, a deleted message, renewals, crashes | holds |
| `gmail_moves` | staged moves stay legal; the audit log is a legal walk; terminal means finalized; refinement of `Enrollment` | holds |
| `gmail_catch_up` | a queued scan catches up or is discarded, deleted message or not; a batch never claims an enrollment twice | holds |
| `gmail_coalesce` | "coalescing pushes never skips events" | violated |
| `gmail_renew_skips` | the renewal never moves a cursor | violated on connections without one |
| `gmail_nil_finalize` | the timeout path finalizes what a nil `Finalize` skips | violated |
| `guarded_write` | replays are of the first response; a second act needs a race or an expiry; closes do what was previewed, but for two named exceptions | holds |
| `guarded_race` | one act per key in its lifetime | violated by two concurrent calls |
| `guarded_close_now` | a token is accepted for its own request | violated for "today" and "now" |
| `tenant_pool` | bounded connections, consistent LRU, nothing forgotten, clean shutdown, every asker answered | holds |
| `platform` | tenants are whole at every moment and slugs are retired for good but for a named race (refinement of `SlugRegistry`); roles and grants survive races but for named ways; revoked sessions are refused, and no others but those a caller names | holds |
| `records` | readers miss nothing; stages are told; merges leave nothing behind but what is written meanwhile; imports do as previewed; one record per external id; bags and definitions agree; mail honours suppressions | holds |

### What the violations say

* `gmail_coalesce`: by-args uniqueness covers river's running and completed
  states. A push delivered after the scan has listed the mailbox, or before the
  completed row is cleaned, inserts nothing. Its message waits for the next push.
* `gmail_renew_skips`: `watchRenew` tests the cursor it read before calling Gmail
  and saves without reading it again. `NoReplySkipped` is the same property that
  holds (and is proved) for connections that have a cursor.
* `gmail_nil_finalize`: `reply_received` is terminal, so the timeout cannot reach
  an enrollment that is in it. No fairness of the handlers could help: the graph
  has no edge. The run lets them move the enrollment freely (`MaxAudit = 3`).
* `guarded_race`: both calls miss before either stores. `guarded_write` shows the
  exact extent: a second act always looked up before the first commit, or after
  the row expired (an expired row is neither replayed nor replaced).
* `guarded_close_now`: the digest contains the clock at dry-run time, to the second.

### What the holding properties except

Several promises of the code have holes that are the code's own. The properties are
stated with the hole named, so that they hold, and say exactly how far the promise
reaches; each exception is a history variable or a disjunct:

* `NoReplySkipped`: a message deleted after Gmail listed it answers 404, which counts as
  a history gap (`google_client.go:137`, `186`): the worker rebaselines and the other
  messages of a window that is still there are `dropped`. "No reply is skipped past the
  cursor" holds for all the rest.
* `TerminalFinalized`: with `Deps.Finalize` nil, as it is deployed, an enrollment in
  `reply_received` has no finalize job.
* `ClosedOnlyAsPreviewed`: "the committed effect equals exactly what was previewed"
  (`writesafety.go:341`) is checked when the token is confirmed and not again when the
  effect is applied. The stage a deal comes from differs if somebody moved the deal in
  between (`moved`), and a close on "now" reads the clock again.
* `SlugsAreRetiredForGood`: a force-recreate looks the live workspace up without a lock
  and deletes it by its id (`create.go:180`, `237`): a tombstone that commits in between is
  deleted with it, and the slug is bound again (`doomed`), though `tombstone.go:82` calls it
  permanently unavailable.
* `OnlyRevokedIsRefused`: `Revoke` takes any UUID (`auth/handlers.go:402`), against "can only
  revoke their own sessions" (`377`): who names another user's session ends it, and who
  names the nil UUID ends every V1 session of everybody (`named`). A revocation of all also
  refuses what its user signs in within the next second.
* `RevokedIsRefused`: `Revoke` stores the asker's expiry with the target's id
  (`auth/handlers.go:409`), so the row may be cleaned while the target lives
  (`early`).
* `IntegratorHasGrant`: a sign-in that read a grant before the revoke deleted it still
  joins as integrator; an owner may write the role; a user's e-mail may change.
* `OwnersLeaveOnlyByKnownWays`: two owners acting on each other at once, an owner
  inviting their own address at a lower role, an operator's revoke.
* `TombstoneAudited`: a tombstone that dies between its two statements stays without
  its audit row, because a second one refuses.
* `PreviewIsCommit`: the rows of the file are separate, that is, any two have both name
  and domain in common or neither, and no company of the table matches both; and no
  other commit came between (`same`). A file that names one company once by its name and
  once by its domain can be previewed as two updates or creations and committed otherwise.
* `BornOnce`: two first deliveries that both looked before either inserted make two
  records, and the second mapping is dropped.
* `NoRelationIsOrphaned`: "no relation is orphaned" (`dedup.go:22`) does not hold for a note,
  a task, a line of the timeline or a bag that another request hangs on the loser after the
  re-pointing and before the commit (`WrittenMeanwhile`): it stays on a record that is gone. A
  deal or a contact attached to the loser in that time loses the link, as its foreign key
  is `ON DELETE SET NULL`.
* `MergeKeepsOne`: a survivor deleted between the unlocked load and the update takes
  both records.
* `OneBag`, `DeletedIsStripped`, `CacheFollowsTheTable`: writers that both deleted
  before either inserted, a writer that overlapped the deletion, a load that read
  before a change and was stored after the invalidation. Two more are not races:
  `config apply` and `config replay` write definitions from another process, so the API's
  cache lacks them until it expires (`behind`; what it has is still defined); and
  connectors, intakes and imports merge keys without looking at the definitions, so a
  deleted property they write comes back.
* `TwiceOnlyAfterALoss`: a caller that gets an error after the provider accepted
  (a lost answer, a failed audit write) sends again.
* `SoftRunSuppresses`: two bounces of one address counted at once.
* `StageIsTold`: imports and some events do not say in which stage they made a deal.

Seen while modelling, and modelled as the code has it without a property: lookups by
slug do not look at `tombstoned_at`, though `TestMiddleware_TombstonedSlugIs404`
exists; the placeholder identity of an invitation is never matched by a real login;
a late event reopens a closed deal's stage and keeps `closed_at`; a merge overwrites
a PUT that came after its load, and leaves the loser's external mappings; the
throttle of `Preflight` can be passed by two transactions at once.

### Bounds

* Gmail: two executions (`job` admits one at a time; a second exists only as a
  zombie, `MaxZombies = 1`), two messages (one before and one after a listing; three
  in `gmail_renew_skips`), one enrollment where the cursor is the question and two
  in one merged thread where moves are. `MaxAudit` bounds the other handlers' moves;
  a scan may exceed it by one. Messages of `gmail_scan` answer nobody (`NoRefs`): the cursor
  does not depend on what they match, and the run spends its states on the zombie, the
  renewal and the deletion. One deleted message (`MaxDeletes = 1`) tears any window it is
  in. `gmail_catch_up` has replies that match while another handler moves the enrollment
  (`MaxAudit = 2`); `gmail_moves` has the other handlers move two. Pushes without an id
  occur in `gmail_renew_skips`; `CursorIsIssued` is proved with them.
* Guarded writes: two calls (any race here is between two), one key, five requests
  that share it or go without, a clock of two instants with `KeyTTL = 1` so that a
  row can expire, and `TokenTTL = 0` so that a token can too; `TokenTTL = 1` where
  an unexpired token must be refused. `MaxLog = 2` is the two commits a duplicate
  needs. Calls are symmetric.
* Pools: `MaxPools = MaxConns = 1` makes every miss an eviction of a pool that may
  be in use; three jobs give one working, one evicting, one waiting on the mutex.
  Five identities: one per job, one per slot, one spare.

* Platform: a behaviour is one of two commands against each other, one command
  against two or three sign-ins and requests (from an empty workspace, two owners, or
  an integrator), or sessions against their cache. Two UUIDs let a slug be recreated;
  two slugs, one of them reserved, tell a workspace from its neighbour; two persons
  of whom either may assert the other's address. Every race named above is between
  two actors. Sessions are two cookies and two revoked ids of one user, or a cookie
  each of two users and one revoked id, which may be the other's or the nil one.
  `MaxAge = 1` and `MaxTime = 4` half seconds let a session be issued, revoked,
  refreshed and expire on both sides of a whole second; three bits of which each
  identifier probes two make false positives.
* Records: a behaviour is a reader against one writing request, two writing requests
  of any kind, three that are merges or connector events (two of one merge's
  requests and one that disturbs it; a delivery, its duplicate and a third), a new company
  and two requests of any kind (so that a merge of companies has contacts and deals to
  move, and one that writes meanwhile), custom
  properties with three editors, two types and four requests, or mail with five calls. Pages
  have one row, so every list has several; the threshold is two bounces, the cap three
  sends, two windows. `MaxRecords = 10` leaves room for what three requests mint. Files
  have two rows, enough for a row to match the one above it.

The scenarios of `platform` and `records` are disjoint because the parts share no
table (but the bags, which `Properties` takes up to their definitions and the other
modules up to their owner), or (for the two operators and the requests) because the product of all of
them adds no race of two that one of them lacks.

Deadlock is checked in `tenant_pool`. The other specifications stop when their
bounds are used up, and their configurations say so.

### Fairness

None is assumed of operators, requests, connectors or the provider: a caller may stop
anywhere, so `platform` and `records` check safety only.


* `GmailReply`: weak fairness of a scan's own steps, of river's fetch, rescue and
  cleaning, and of each push's delivery (Pub/Sub retries until acknowledged). There
  is none for failures, crashes, arrivals, renewals or the other handlers. Because
  failures may repeat for ever, river may discard a job: the liveness properties
  say so.
* `TenantPool`: strong fairness of the mutex (Go's mutex hands over to a waiter
  starved for 1 ms) and of pgxpool's queue; weak fairness of the manager's own
  steps and of `Release` (a job ends). Contexts need not expire (`GiveUp` is not fair).

## 4. Proofs

All proofs are checked by tlapm to the last leaf, and every property of a run that
passes, but for the liveness properties, is a theorem: it holds for any constants that
satisfy the named assumptions of its module. Each module proves type correctness first
(`TypeCorrect`), with a `TypeOK` of its own where the component is run together with
others; the other theorems rest on it. The names below are the theorems,
with the property each states.

`GmailReplyProofs`
* `StagedLegality`: `StagedStaysLegal` alone is not inductive, because another
  transaction could move the row. `LockInv` adds that locks are exclusive and that
  a staged move is on a locked row; a commit by one transaction or another handler
  then cannot touch it.
* `Refinement` (`ImplementsEnrollment`): with `LockInv` and `TypeOK`, a `Save` is one
  abstract transaction, `EnvTransition` is one with a single move, and every other step
  stutters. `AuditsAreWalks` (`AuditIsLegalWalk`) follows from the same step, because
  it is an invariant of the abstract specification's transactions.
* `CursorSkipsNothing` (`NoReplySkipped`) for connections that start with a cursor
  (`0 \notin InitCursors`). `CursorInv` says that everything below the committed
  cursor, and below the position each execution started from, is scanned, excused or,
  with a deleted message, dropped, and that no renewal saw a NULL cursor. That assumption is what
  `gmail_renew_skips` drops.
* `TracesAreRaces` (`IllegalOnlyByRace`): `TraceInv` adds that a traced row is locked, so
  that nobody moves it back while the scan holds it.
* `TerminalsAreFinalized` (`TerminalFinalized`) whether or not the hook is wired: without
  it, `reply_received` is the one terminal state that has no finalize job, and
  `gmail_nil_finalize` shows that it never gets one.
* `CursorIsIssued` (`CursorWithinMailbox`): `IdsInv` bounds every id that is under way (in
  a push, in the job, in a listing, in a renewal) by the mailbox's current one.

`GuardedWriteProofs`
* `KeysReplayTheFirst` (`KeyHoldsFirstResponse`) and `ActsTwiceOnlyByRace`
  (`ActsTwiceOnlyByRaceOrExpiry`). `KeyInv` adds what a pending call knows: at its lookup,
  the key's row was absent or expired, and an absent row means no commit under that key
  before.
* `ClosesArePreviewed` (`ClosedOnlyAsPreviewed`): `PreviewInv` carries the verified token
  from `Confirm` to the commit, with the stage it foresaw for as long as nobody moves the
  deal (`Foreseen`).

`TenantPoolProofs`
* One invariant, `IInv`, serves all five. `MutexInv` says who may be where while `mu` is
  held; `JobsInv`, that what a job was handed is its role's pool or has been closed since;
  `LruInv`, that the list names the live pools once each, except while the manager shuts;
  `VictimInv`, that an eviction's victim is closed before it is forgotten. Then
  `NoWorkerIsForgotten` (`WorkersAreAccountedFor`), `CloseDrains` (`ShutMeansDrained`) and
  `TheLruIsThePools` (`LruListsThePools`) follow at once.
* `TheBoundHolds` (`ConnectionsBounded`) counts: `CountInv` bounds the pools and the
  connections of each, and a map from connections to pools whose fibres are bounded
  bounds their product.

`AccessProofs` (the commands of `Tenants` and the requests of `Access`, interleaved)
* `TheRegistryVerifies` (`VerifyHolds`) and `TombstonesAreAudited` (`TombstoneAudited`) from
  `RegistryInv`: rows have their own UUID and slug, both rows and commands know only
  UUIDs that were minted, what a row stands for is there and nothing is there without
  its row. The second is needed because a command that is under way uses a UUID
  that it has not inserted yet, or whose row is gone; `ClaimsAgree` adds that commands
  and rows agree on the slug of each.
* `RetiredForGood` (`SlugsAreRetiredForGood`): the refinement of `SlugRegistry`; each step
  of a command is an abstract binding or retirement, the beginning (`Doom`) or the end
  (`Spare`) of a replacement, or a stutter. The workspaces that force-recreates have
  looked up are the `doomed`, and only in the place of one of these is a retired slug
  bound again.
* `NoneOutlivesItsWorkspace` (`NothingOutlivesItsWorkspace`), `IntegratorsHaveGrants`
  (`IntegratorHasGrant`) from `MembersInv`, which adds that a placeholder user keeps the
  address of its invitation: otherwise a grant to that address would not be found.
* `SignInRaises` (`SignInOnlyRaises`), `OwnersStay` (`OwnersLeaveOnlyByKnownWays`): action
  properties, one lemma for each action.

`RevocationProofs`
* `TheRevokedAreRefused` (`RevokedIsRefused`) and `NoOtherIsRefused`
  (`OnlyRevokedIsRefused`) for every `Probe`. `CacheInv` follows a revoked session, whoever
  revoked it (`Cut`), from the tables (`RowsCoverTheRevoked`) through what a refresh has loaded (`RefreshCovers`) to
  what is published (`CacheCoversDue`). A refresh that fails half way leaves the new
  filter beside the old users, so the invariant covers each half on its own. The
  rounding to whole seconds is in `CacheIsNotAhead`: a cached time is ahead of the
  table's by a half second at most. `RowsAreOfRevoked` says that a row's identifier is of
  sessions that were revoked or named, and of none that are yet to come.

`PropertiesProofs`
* `TheCacheFollowsTheTable`, `TheDeletedIsStripped`, `TheRecordHasOneBag` (`OneBag`) from
  `BagInv`: what a writer is about to insert was asked for while defined, a deletion
  sees every bag with its key, and a writer that nobody raced sees every bag. Nothing is
  assumed of the keys: connectors and imports may write any of them, and `lecrm-admin` may
  define any.

`OutboundProofs`
* `TheAcknowledgedAreHonoured` (`HonoursAcknowledged`): what was acknowledged is in the
  list, and what a send has been allowed is disjoint from what it knew.
* `NoneTwiceWithoutALoss` (`TwiceOnlyAfterALoss`): `LossesCounted` counts an acceptance
  whose caller has not been told yet.
* `TheSoftRunSuppresses` (`SoftRunSuppresses`): `BouncesJudged` says that the one bounce
  under way has counted the steps as they will be when it commits. The count is a fold
  over an unbounded sequence; lemmas say what one more result does to it.

`RecordsProofs` (`WorkspaceSpec`: `Crm`, `Dedup`, `Import` and `Connectors` together)
* `EachIsBornOnce` (`BornOnce`): `BornInv` adds that an identity that brought a record into
  being is mapped, and that whoever looked for it before that is marked as overtaken.
* `TheStageIsTold` (`StageIsTold`) and `NoneIsOrphaned` (`NoRelationIsOrphaned`) need
  `KindsInv`: UUIDs are minted in order, and contacts, companies and deals keep apart
  wherever a UUID is remembered (a deal's contact, a merge's pair, a mapping, a resolved
  event). Without it, a merge of contacts could move a deal's timeline.
  `NoneIsOrphaned` then says, relation by relation, what the re-pointing recorded
  (`RepointSurvives`: a row lock keeps it there), what the commit carries over
  (`MergeCarries`, `MergeRepoints`) and what it leaves (`MergeLeaves`).
* `OneIsKept` (`MergeKeepsOne`): `MergeInv`, a merge that updated its survivor holds its
  lock, so that nobody deletes the survivor before the commit.
* `TheWalkIsComplete` (`WalkIsComplete`): `WalkInv`, whatever was there from the start and
  still is, lies below the cursor or has been read. Pages are the greatest ids below
  the cursor, and new ids are above all of them.
* `TheCommitIsThePreview` (`PreviewIsCommit`) for any file of any length: `PreviewInv` says
  that what a preview shows is a function (`Forecast`) of the file and the two tables it
  saw. The commit goes through changing tables; for each row, it matches in them exactly
  if the row matched at the start or an earlier row has its key. `FirmsInv` (one
  UUID, one company) is what an update of a company needs for that.

Induction over a file's rows, and over the ids that it mints, is by a least
counterexample: a set of naturals that is not empty has a least element
(`WFMin`), which is a lemma without an operator parameter.

### Assumptions

They are `ASSUME`d by name in the modules, and TLC evaluates them in the runs. Most
say that bounds are naturals and that a value which stands for "none" is none of the
others. The ones with content:

* `InvitedAssumption`: no provider vouches for the synthetic issuer of an invited
  address (`members/store.go:128`), so a placeholder is nobody who signs in.
* `PoolsAssumption`: there are more pool identities than can be remembered at once.
* `FinitelyMany`: jobs, roles and pool identities are finite, so that they can be counted.
* `CrmRecordsAssumption`: the workspace's first records need a name, an address and an
  author.
* `FilesAssumption`: a deduplication key says of itself whether it is a name or a domain,
  as the code prefixes it.
* `Messages \cap Runners = {}` in `Outbound`: `mails` tells the two kinds of sender apart.

### Checked by TLC only

* `EnqueuedScanCatchesUp` and `AskersAreAnswered`: liveness under fairness. They need
  `ENABLED`, which the prover does not handle.
* What the runs that expect a violation refute.

The runs also check each of the properties above on their instances. Proving them showed
what the models or the properties had left open: `MergeKeepsOne` speaks of the merges only,
and `PreviewIsCommit` was false for files whose rows are not separate.

## 5. Not modelled

Token validation, header parsing, out-of-office classification and fuzzy matching
are pure or protocol I/O: the models let their results vary. Timestamps and
payloads are dropped unless a property depends on them. An applied message is one
step, so a failure inside one `applyReply` appears as `Fail` before it. Two scans
that wait for each other's rows simply wait: PostgreSQL's deadlock detector would
abort one, which is `Fail`.

Within the modelled parts: the OIDC exchange and the cryptography of cookies, tokens
and webhooks; the similarity of names (`Alike` is any relation); coercion of cells,
header analysis and rendering of files; `verify`'s checks of privileges and names;
a task's reminder job and the bounce-rate alarm, which `cmd/lecrm-api` does not wire.

Whole parts: the out-of-office classifier is a pure text function; the sync engine is
interfaces and a stub; a workspace job is one advisory lock around one call; reports,
the SPA and the admin console read; the MCP server adapts calls to the capability
package; configuration templates (but for the definitions they write, which are in
`Properties`), audit queries and migrations are one-shot commands; the web front end and the deployment are outside. `PROJECT.json` says so
for each.

## 6. Plan

What is left for proofs, in this order:

1. The exceptions of section 3 as exact statements: for each history variable (`early`,
   `dropped`, `moved`, `doomed`, `named`, `excused`, `upset`, `late`, `behind`, `raced`,
   `overtaken`, `astray`), that it is only set by the
   race its comment describes. They bound the holes from the other side.
2. `NoReplySkipped` for connections without a cursor whose renewals do not overlap the
   first scan, which would say how much `gmail_renew_skips` leaves.
3. `PreviewIsCommit` for the first row that is not separate: up to it the commit does as
   previewed.
4. Shorter proofs: the per-action lemmas of `RecordsProofs` and `AccessProofs` share
   cases that a lemma about `Turns` and the untouched tables could take.

What is left for models: the parts that section 5 names, the external sync engine
first, once it is more than an interface.
