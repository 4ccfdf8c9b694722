----------------------------- MODULE GmailReply -----------------------------
(***************************************************************************)
(* Reply detection for one Gmail mailbox (internal/sequences/gmailreply):  *)
(* a Pub/Sub push enqueues a poll_mailbox job, the job scans the mailbox   *)
(* history from a persisted cursor, correlates messages with enrollments   *)
(* waiting for a reply and moves them with Transition, and commits moves   *)
(* and cursor together.  watch_renew re-arms the Gmail watch meanwhile,    *)
(* and the other sequence handlers move the same enrollments.              *)
(*                                                                         *)
(* History ids.  inbox[i] carries history id i + 1, the mailbox's current  *)
(* id is head, and a list from id s returns the entries with an id above   *)
(* s, that is the indices s..Len(inbox).  Id 0 is "unset".                 *)
(***************************************************************************)
EXTENDS EnrollmentStates, Integers, FiniteSets, Sequences

CONSTANTS
  Enrollments,     \* enrollment ids
  Workers,         \* executions of poll_mailbox that may be under way at once
  Refs,            \* what a message may reference: sequences of enrollments
  InitStates,      \* states enrollments start in
  InitCursors,     \* cursors the connection row starts with, 0 when NULL
  BarePushes,      \* pushes without a historyId occur (ParsePushBody takes them)
  FinalizeWired,   \* Deps.Finalize is set
  MaxHistory,      \* bound: messages that arrive
  MaxAudit,        \* bound: audit rows before the other handlers stop moving it
  MaxDeletes,      \* bound: messages the mailbox's owner deletes
  MaxZombies       \* bound: rescues of a job whose execution is still alive

ASSUME InitStatesAssumption == InitStates \subseteq States \ TerminalStates
ASSUME RefsAssumption == Refs \subseteq Seq(Enrollments)
ASSUME BoundsAssumption == /\ MaxHistory \in Nat /\ MaxAudit \in Nat
                           /\ MaxDeletes \in Nat /\ MaxZombies \in Nat
ASSUME InitCursorsAssumption == InitCursors \subseteq {0, 1}
ASSUME SwitchesAssumption == FinalizeWired \in BOOLEAN /\ BarePushes \in BOOLEAN

VARIABLES
  state,      \* enrollments.state (committed)
  audit,      \* transition audit rows (committed)
  finalize,   \* enrollments with a finalize job (committed)
  traces,     \* enrollments with a sequences.transition.invalid row (committed)
  inbox,      \* messages of the mailbox in history order
  gone,       \* indices of messages deleted since, which messages.get answers 404
  oldest,     \* lowest history id Gmail still lists from
  pushes,     \* history ids published and not yet acknowledged
  job,        \* the poll_mailbox row of river_job for this mailbox
  tx,         \* per worker: the transaction of its execution
  renew,      \* the watch_renew execution
  cursor,     \* sync_connections.sync_cursor
  scanned,    \* history: indices listed by a committed scan
  excused,    \* history: indices given up by a documented (re)baseline
  dropped,    \* history: indices given up because one of them was deleted
  zombies     \* rescues of live executions so far

enrollVars == <<state, audit, finalize, traces>>
gmailVars == <<inbox, gone, oldest, pushes>>
ghostVars == <<scanned, excused, dropped>>
vars == <<enrollVars, gmailVars, job, tx, renew, cursor, ghostVars, zombies>>
-----------------------------------------------------------------------------
NoState == "none"
Verdicts == {"reply_received", "ooo_detected"}
JobStates == {"none", "available", "running", "retryable", "completed", "discarded"}

(* River's default unique states, in which a second insert is skipped.     *)
UniqueStates == {"available", "running", "retryable", "completed"}

maxAttemptsPollMailbox == 3

IdleTx == [pc |-> "idle", from |-> 1, start |-> 0, newHID |-> 0,
           rebase |-> FALSE, torn |-> FALSE, waiting |-> {}, next |-> 0, locked |-> {}, traced |-> {},
           staged |-> [e \in Enrollments |-> NoState]]

IdleRenew == [pc |-> "idle", sawNull |-> FALSE, hid |-> 0]

head == Len(inbox) + 1

(* Indices of the history entries with an id in a+1..b.                    *)
Window(a, b) == a..(b - 1)

MaxOf(a, b) == IF a >= b THEN a ELSE b

Init ==
  /\ state \in [Enrollments -> InitStates]
  /\ audit = [e \in Enrollments |-> <<state[e]>>]
  /\ finalize = {} /\ traces = {}
  /\ inbox = <<>> /\ gone = {} /\ oldest = 1 /\ pushes = {}
  /\ job = [st |-> "none", attempt |-> 0, hid |-> 0]
  /\ tx = [w \in Workers |-> IdleTx]
  /\ renew = IdleRenew
  /\ cursor \in InitCursors
  /\ scanned = {} /\ excused = {} /\ dropped = {} /\ zombies = 0
-----------------------------------------------------------------------------
(* The mailbox and the push path *)

(* A message lands in the INBOX and Gmail publishes the new history id.    *)
Arrive(m) ==
  /\ Len(inbox) < MaxHistory
  /\ inbox' = Append(inbox, m)
  /\ pushes' = pushes \union {head + 1}
  /\ UNCHANGED <<enrollVars, gone, oldest, job, tx, renew, cursor, ghostVars, zombies>>

(* Gmail drops its oldest history record.                                  *)
Expire ==
  /\ oldest < head
  /\ oldest' = oldest + 1
  /\ UNCHANGED <<enrollVars, inbox, gone, pushes, job, tx, renew, cursor, ghostVars, zombies>>

(* The mailbox's owner deletes a message; the history still lists it.      *)
Delete(i) ==
  /\ i \in DOMAIN inbox \ gone /\ Cardinality(gone) < MaxDeletes
  /\ gone' = gone \union {i}
  /\ UNCHANGED <<enrollVars, inbox, oldest, pushes, job, tx, renew, cursor, ghostVars, zombies>>

(* River insert with UniqueOpts ByArgs: skipped when a row is in the way.  *)
EnqueuePollMailbox(h) ==
  job' = IF job.st \in UniqueStates THEN job
         ELSE [st |-> "available", attempt |-> 0, hid |-> h]

(* ServeHTTP for a valid push, then the acknowledgement.                   *)
Deliver(h) ==
  /\ h \in pushes
  /\ EnqueuePollMailbox(h)
  /\ pushes' = pushes \ {h}
  /\ UNCHANGED <<enrollVars, inbox, gone, oldest, tx, renew, cursor, ghostVars, zombies>>

(* The same push again (its 204 was lost), or one without a historyId.     *)
Redeliver(h) ==
  /\ h \in (IF BarePushes THEN {0} ELSE {}) \union 2..head
  /\ EnqueuePollMailbox(h)
  /\ UNCHANGED <<enrollVars, gmailVars, tx, renew, cursor, ghostVars, zombies>>
-----------------------------------------------------------------------------
(* The job row: what river does around the worker *)

(* A client locks the job and its Work opens the transaction: loadCursor,  *)
(* or the push's id as a baseline when no cursor is persisted.             *)
Fetch(w) ==
  /\ job.st \in {"available", "retryable"}
  /\ tx[w].pc = "idle"
  /\ job' = [job EXCEPT !.st = "running", !.attempt = @ + 1]
  /\ tx' = [tx EXCEPT ![w] =
              [IdleTx EXCEPT !.pc = "list",
                             !.from = IF cursor # 0 THEN cursor ELSE 1,
                             !.start = IF cursor # 0 THEN cursor ELSE job.hid]]
  /\ UNCHANGED <<enrollVars, gmailVars, renew, cursor, ghostVars, zombies>>

Retried(j) == [j EXCEPT !.st = IF j.attempt < maxAttemptsPollMailbox
                               THEN "retryable" ELSE "discarded"]

(* River writes the outcome only while the row is still running.           *)
Finished(j, k) == IF j.st = "running" THEN k ELSE j

Dead(w) == tx[w].pc = "idle"

(* The rescuer picks up a job left running: by a process that died, or by  *)
(* one that stalled past the rescue threshold and may still resume.        *)
Rescue ==
  /\ job.st = "running"
  /\ \/ (\A w \in Workers : Dead(w)) /\ UNCHANGED zombies
     \/ /\ (\E w \in Workers : ~Dead(w)) /\ zombies < MaxZombies
        /\ zombies' = zombies + 1
  /\ job' = Retried(job)
  /\ UNCHANGED <<enrollVars, gmailVars, tx, renew, cursor, ghostVars>>

(* The job cleaner removes a completed row.                                *)
Clean ==
  /\ job.st = "completed"
  /\ job' = [st |-> "none", attempt |-> 0, hid |-> 0]
  /\ UNCHANGED <<enrollVars, gmailVars, tx, renew, cursor, ghostVars, zombies>>
-----------------------------------------------------------------------------
(* pollMailbox, inside one workspace transaction *)

At(w, pc) == tx[w].pc = pc

(* What a poll leaves alone until it commits.                              *)
Uncommitted == UNCHANGED <<enrollVars, gmailVars, renew, cursor, ghostVars, zombies>>

(* A message of the window is gone: its messages.get answers 404.          *)
Torn(w) == Window(tx[w].start, head) \cap gone # {}

(* MessagesSince from the loaded cursor fetches every message it lists.    *)
List(w) ==
  /\ At(w, "list") /\ tx[w].start # 0 /\ tx[w].start >= oldest /\ ~Torn(w)
  /\ tx' = [tx EXCEPT ![w].newHID = MaxOf(tx[w].start, head), ![w].next = tx[w].start,
                      ![w].pc = IF tx[w].start < head THEN "match" ELSE "apply"]
  /\ Uncommitted /\ UNCHANGED job

(* No baseline at all, or ErrHistoryGap: the cursor is older than what     *)
(* Gmail retains or, as any 404 is taken for that, a message is gone.      *)
(* Adopt the id that users.watch returns.                                  *)
Rebaseline(w) ==
  /\ At(w, "list") /\ (tx[w].start = 0 \/ tx[w].start < oldest \/ Torn(w))
  /\ tx' = [tx EXCEPT ![w].newHID = head, ![w].rebase = TRUE, ![w].pc = "apply",
                      ![w].torn = tx[w].start # 0 /\ tx[w].start >= oldest]
  /\ Uncommitted /\ UNCHANGED job

(* The batch query reads the enrollment states once for all messages.      *)
MatchSteps(w) ==
  /\ At(w, "match")
  /\ tx' = [tx EXCEPT ![w].waiting = {e \in Enrollments : state[e] = "waiting_reply"},
                      ![w].pc = "apply"]
  /\ Uncommitted /\ UNCHANGED job

(* An enrollment a message of this batch may still claim.                  *)
ClaimableTwice(w, e) == e \in tx[w].waiting
Claimable(w, e) == e \in tx[w].waiting \ tx[w].locked

(* correlateReplies: message i is paired with its first claimable          *)
(* reference.                                                              *)
Matches(w, i, e) ==
  \E k \in DOMAIN inbox[i] :
    /\ inbox[i][k] = e /\ Claimable(w, e)
    /\ \A j \in 1..(k - 1) : ~Claimable(w, inbox[i][j])

Matched(w, i) == \E e \in Enrollments : Matches(w, i, e)

(* SELECT ... FOR UPDATE gets the row: no other transaction holds it.      *)
RowFreeAlways(w, e) == TRUE
RowFree(w, e) == \A v \in Workers \ {w} : e \notin tx[v].locked

(* The enrollment row as the scan's own transaction sees it.               *)
Seen(w, e) == IF tx[w].staged[e] # NoState THEN tx[w].staged[e] ELSE state[e]

(* applyReply: lock and read the row afresh, then stage the move, or stage *)
(* the invalid-transition trace and go on with the batch.                  *)
ApplyReply(w, i, e, to) ==
  /\ At(w, "apply") /\ Matches(w, i, e) /\ RowFree(w, e)
  /\ \A j \in tx[w].next..(i - 1) : ~Matched(w, j)
  /\ LET legal == CanTransition(Seen(w, e), to) IN
     tx' = [tx EXCEPT ![w].next = i + 1,
                      ![w].locked = @ \union {e},
                      ![w].staged[e] = IF legal THEN to ELSE @,
                      ![w].traced = IF legal THEN @ ELSE @ \union {e}]
  /\ Uncommitted /\ UNCHANGED job

Remaining(w) == IF tx[w].rebase THEN {} ELSE tx[w].next..(tx[w].newHID - 1)

ReadyToSave(w) == At(w, "apply") /\ \A i \in Remaining(w) : ~Matched(w, i)

NewCursorPastNext(w) ==
  IF tx[w].rebase \/ tx[w].newHID > tx[w].start THEN tx[w].newHID + 1 ELSE cursor
NewCursorStuck(w) == IF tx[w].rebase THEN tx[w].newHID ELSE cursor
NewCursor(w) ==
  IF tx[w].rebase \/ tx[w].newHID > tx[w].start THEN tx[w].newHID ELSE cursor

Staged(w) == {e \in Enrollments : tx[w].staged[e] # NoState}

FinalizeJobsByState(w) ==
  {tx[w].staged[e] : e \in {x \in Staged(w) : Terminal(tx[w].staged[x])}}
FinalizeJobsSwapped(w) ==
  IF FinalizeWired THEN {e \in Staged(w) : tx[w].staged[e] = "ooo_detected"} ELSE {}
FinalizeJobs(w) ==
  IF FinalizeWired THEN {e \in Staged(w) : Terminal(tx[w].staged[e])} ELSE {}

(* saveCursor and COMMIT: the moves, their audit rows and finalize jobs,   *)
(* the traces and the cursor become visible at once; river completes the   *)
(* job.                                                                    *)
Save(w) ==
  /\ ReadyToSave(w)
  /\ cursor' = NewCursor(w)
  /\ state' = [e \in Enrollments |->
                 IF e \in Staged(w) THEN tx[w].staged[e] ELSE state[e]]
  /\ audit' = [e \in Enrollments |->
                 IF e \in Staged(w) THEN Append(audit[e], tx[w].staged[e]) ELSE audit[e]]
  /\ finalize' = finalize \union FinalizeJobs(w)
  /\ traces' = traces \union tx[w].traced
  /\ scanned' = IF tx[w].rebase THEN scanned
                ELSE scanned \union Window(tx[w].start, tx[w].newHID)
  /\ excused' = excused \union
       Window(tx[w].from, IF tx[w].rebase /\ ~tx[w].torn THEN tx[w].newHID ELSE tx[w].start)
  /\ dropped' = IF tx[w].torn THEN dropped \union Window(tx[w].start, tx[w].newHID)
                ELSE dropped
  /\ tx' = [tx EXCEPT ![w] = IdleTx]
  /\ job' = Finished(job, [job EXCEPT !.st = "completed"])
  /\ UNCHANGED <<gmailVars, renew, zombies>>

(* Any statement or Google call fails: the deferred release rolls back,    *)
(* river schedules a retry or discards the job.                            *)
Fail(w) ==
  /\ tx[w].pc # "idle"
  /\ tx' = [tx EXCEPT ![w] = IdleTx]
  /\ job' = Finished(job, Retried(job))
  /\ Uncommitted

(* The process dies: PostgreSQL rolls back, nobody reports the job.        *)
Crash(w) ==
  /\ tx[w].pc # "idle"
  /\ tx' = [tx EXCEPT ![w] = IdleTx]
  /\ Uncommitted /\ UNCHANGED job
-----------------------------------------------------------------------------
(* A foundation handler (send, window timeout, bounce, resume) calls       *)
(* Transition in a transaction of its own.                                 *)
RowUnlockedAlways(e) == TRUE
RowUnlocked(e) == \A w \in Workers : e \notin tx[w].locked

EnvTransition(e, to) ==
  /\ RowUnlocked(e)
  /\ to \notin Verdicts /\ CanTransition(state[e], to)
  /\ Len(audit[e]) < MaxAudit
  /\ state' = [state EXCEPT ![e] = to]
  /\ audit' = [audit EXCEPT ![e] = Append(@, to)]
  /\ finalize' = IF Terminal(to) THEN finalize \union {e} ELSE finalize
  /\ UNCHANGED <<traces, gmailVars, job, tx, renew, cursor, ghostVars, zombies>>
-----------------------------------------------------------------------------
(* watchRenew, inside its own transaction *)

RenewUnchanged == UNCHANGED <<enrollVars, gmailVars, job, tx, zombies>>

(* listActiveGmailConnections reads the cursor.                            *)
RenewList ==
  /\ renew.pc = "idle"
  /\ renew' = [pc |-> "listed", sawNull |-> cursor = 0, hid |-> 0]
  /\ RenewUnchanged /\ UNCHANGED <<cursor, ghostVars>>

RenewWatch ==
  /\ renew.pc = "listed"
  /\ renew' = [renew EXCEPT !.pc = "watched", !.hid = head]
  /\ RenewUnchanged /\ UNCHANGED <<cursor, ghostVars>>

(* The id is adopted only for a connection listed without a cursor.        *)
RenewAdoptsAlways == TRUE
RenewAdopts == renew.sawNull

RenewSave ==
  /\ renew.pc = "watched"
  /\ cursor' = IF RenewAdopts THEN renew.hid ELSE cursor
  /\ excused' = IF RenewAdopts /\ cursor = 0 THEN excused \union Window(1, renew.hid)
                ELSE excused
  /\ renew' = IdleRenew
  /\ RenewUnchanged /\ UNCHANGED <<scanned, dropped>>

RenewFail ==
  /\ renew.pc # "idle"
  /\ renew' = IdleRenew
  /\ RenewUnchanged /\ UNCHANGED <<cursor, ghostVars>>
-----------------------------------------------------------------------------
PollStep(w) ==
  \/ List(w) \/ Rebaseline(w) \/ MatchSteps(w)
  \/ (\E i \in Remaining(w), e \in Enrollments, to \in Verdicts : ApplyReply(w, i, e, to))
  \/ Save(w)

Next ==
  \/ \E m \in Refs : Arrive(m)
  \/ Expire
  \/ \E i \in DOMAIN inbox : Delete(i)
  \/ \E h \in pushes : Deliver(h)
  \/ \E h \in 0..head : Redeliver(h)
  \/ Rescue \/ Clean
  \/ \E w \in Workers : Fetch(w) \/ PollStep(w) \/ Fail(w) \/ Crash(w)
  \/ \E e \in Enrollments, to \in States : EnvTransition(e, to)
  \/ RenewList \/ RenewWatch \/ RenewSave \/ RenewFail

Spec == Init /\ [][Next]_vars

(* Deployed processes keep running: a started scan goes on, river fetches, *)
(* rescues and cleans, and Pub/Sub delivers every push at least once.      *)
Fairness ==
  /\ \A w \in Workers : WF_vars(PollStep(w)) /\ WF_vars(Fetch(w))
  /\ WF_vars(Rescue) /\ WF_vars(Clean)
  /\ \A h \in 2..(MaxHistory + 1) : WF_vars(Deliver(h))

FairSpec == Spec /\ Fairness
-----------------------------------------------------------------------------
TxType ==
  [pc : {"idle", "list", "match", "apply"},
   from : Nat, start : Nat, newHID : Nat, rebase : BOOLEAN, torn : BOOLEAN,
   waiting : SUBSET Enrollments, next : Nat, locked : SUBSET Enrollments,
   traced : SUBSET Enrollments, staged : [Enrollments -> Verdicts \union {NoState}]]

TypeOK ==
  /\ state \in [Enrollments -> States]
  /\ audit \in [Enrollments -> Seq(States)]
  /\ finalize \subseteq Enrollments /\ traces \subseteq Enrollments
  /\ inbox \in Seq(Seq(Enrollments)) /\ gone \subseteq Nat /\ oldest \in Nat /\ pushes \subseteq Nat
  /\ job \in [st : JobStates, attempt : Nat, hid : Nat]
  /\ tx \in [Workers -> TxType]
  /\ renew \in [pc : {"idle", "listed", "watched"}, sawNull : BOOLEAN, hid : Nat]
  /\ cursor \in Nat /\ scanned \subseteq Nat /\ excused \subseteq Nat
  /\ dropped \subseteq Nat /\ zombies \in Nat

(* Concurrent scans, other handlers and crashes together look like a       *)
(* sequence of atomic legal moves, each with its audit row (Transition's   *)
(* contract).                                                              *)
Promise == INSTANCE Enrollment
ImplementsEnrollment == Promise!Spec

(* A move staged under a row lock is still legal for the committed state   *)
(* whenever its transaction gets to commit, however long that takes        *)
(* (transition.go, lock then validate then update).                        *)
StagedStaysLegal ==
  \A w \in Workers : \A e \in Staged(w) : CanTransition(state[e], tx[w].staged[e])

(* The cursor never passes a message that no committed scan has listed:    *)
(* crashes, retries and zombie scans that rewind it included (worker.go,   *)
(* "no reply is skipped past the cursor").  Two exceptions: a history gap, *)
(* and a window that Gmail still retains but with a message deleted since, *)
(* which the code takes for a gap (google_client.go: "A 404 from Gmail     *)
(* means the start id is too old"), dropping the others of the window.     *)
NoReplySkipped ==
  \A i \in DOMAIN inbox : i < cursor => i \in scanned \union excused \union dropped

(* The audit log of every enrollment is a walk of the legal graph that     *)
(* ends in its committed state, whoever wrote the rows.                    *)
AuditIsLegalWalk == Promise!AuditIsLegalWalk

(* The cursor is an id Gmail has issued: a scan from it never starts past  *)
(* the mailbox, where replies would be invisible until the ids catch up.   *)
CursorWithinMailbox == cursor <= head

(* The benign-race path is only ever taken because another transaction     *)
(* moved the enrollment, never because one batch matched it twice.         *)
IllegalOnlyByRace ==
  \A w \in Workers : \A e \in tx[w].traced : state[e] # "waiting_reply"

(* "Reaching one of these is what fires the sequences.finalize job"        *)
(* (state.go): every enrollment that is done has its finalize job, except  *)
(* that a reply has none in the binary that leaves Deps.Finalize nil.      *)
TerminalFinalized ==
  \A e \in Enrollments : Terminal(state[e]) =>
    e \in finalize \/ (~FinalizeWired /\ state[e] = "reply_received")

(* "nil skips the enqueue (the finalize still happens via the timeout      *)
(* path)" (worker.go, Deps.Finalize): a reply is finalized in the end even *)
(* when the scan cannot enqueue the job itself.                            *)
ReplyIsFinalizedLater ==
  \A e \in Enrollments : state[e] = "reply_received" ~> e \in finalize

(* A queued scan catches up with everything that had arrived when it was   *)
(* queued, through failures, retries and process deaths, unless river      *)
(* gives up on it.                                                         *)
EnqueuedScanCatchesUp ==
  \A h \in 2..(MaxHistory + 1) :
    (job.st = "available" /\ head >= h) ~> (cursor >= h \/ job.st = "discarded")

(* "coalescing pushes never skips events" (job.go): every message that     *)
(* arrives is eventually scanned, unless river gives up on a scan.         *)
EveryMessageScanned ==
  \A i \in 1..MaxHistory :
    (Len(inbox) >= i) ~> (i \in scanned \union excused \union dropped \/ job.st = "discarded")
=============================================================================
