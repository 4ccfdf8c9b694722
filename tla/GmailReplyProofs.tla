-------------------------- MODULE GmailReplyProofs --------------------------
(***************************************************************************)
(* Proofs about GmailReply for every set of enrollments and workers and    *)
(* every bound: type correctness, the row-lock invariant, the refinement   *)
(* of Enrollment and the legal audit walks it brings, that the scan cursor *)
(* skips no reply once a baseline is persisted and never passes the        *)
(* mailbox, that traces are races, and that terminal states are finalized. *)
(***************************************************************************)
EXTENDS GmailReply, TLAPS

-----------------------------------------------------------------------------
(* Type correctness *)

LEMMA IdleTxType == IdleTx \in TxType
  BY DEF IdleTx, TxType, NoState, Verdicts

LEMMA HeadType == ASSUME inbox \in Seq(Seq(Enrollments)) PROVE head \in Nat
  BY DEF head

LEMMA InitTypeOK == Init => TypeOK
  BY IdleTxType, InitStatesAssumption, InitCursorsAssumption
     DEF Init, TypeOK, IdleRenew, JobStates

JobType == [st : JobStates, attempt : Nat, hid : Nat]

LEMMA JobFields ==
  ASSUME NEW j \in JobType
  PROVE  /\ \A s \in JobStates : [j EXCEPT !.st = s] \in JobType
         /\ \A a \in Nat : [j EXCEPT !.attempt = a] \in JobType
         /\ j.attempt \in Nat /\ j.hid \in Nat
  BY DEF JobType

LEMMA JobStart ==
  ASSUME NEW j \in JobType
  PROVE  [j EXCEPT !.st = "running", !.attempt = @ + 1] \in JobType
  <1> DEFINE k == [j EXCEPT !.st = "running"]
  <1>1. k \in JobType BY JobFields DEF JobStates
  <1> HIDE DEF k
  <1>2. [k EXCEPT !.attempt = k.attempt + 1] \in JobType BY <1>1, JobFields
  <1> QED BY <1>2 DEF k

LEMMA JobOutcomes ==
  ASSUME job \in JobType
  PROVE  /\ Retried(job) \in JobType
         /\ \A k \in JobType : Finished(job, k) \in JobType
         /\ [job EXCEPT !.st = "completed"] \in JobType
  BY JobFields DEF Retried, Finished, JobStates

LEMMA TxFields ==
  ASSUME NEW t \in TxType, NEW n \in Nat, NEW b \in BOOLEAN,
         NEW pc \in {"idle", "list", "match", "apply"}, NEW S \in SUBSET Enrollments
  PROVE  /\ [t EXCEPT !.pc = pc] \in TxType
         /\ [t EXCEPT !.from = n] \in TxType
         /\ [t EXCEPT !.start = n] \in TxType
         /\ [t EXCEPT !.newHID = n] \in TxType
         /\ [t EXCEPT !.next = n] \in TxType
         /\ [t EXCEPT !.rebase = b] \in TxType
         /\ [t EXCEPT !.torn = b] \in TxType
         /\ [t EXCEPT !.waiting = S] \in TxType
         /\ [t EXCEPT !.locked = S] \in TxType
         /\ [t EXCEPT !.traced = S] \in TxType
  BY DEF TxType

LEMMA TxStaged ==
  ASSUME NEW t \in TxType, NEW e \in Enrollments, NEW to \in Verdicts \union {NoState}
  PROVE  [t EXCEPT !.staged[e] = to] \in TxType
  BY DEF TxType

LEMMA ListFields ==
  ASSUME NEW t \in TxType, NEW n \in Nat, NEW m \in Nat,
         NEW pc \in {"idle", "list", "match", "apply"}
  PROVE  [t EXCEPT !.newHID = n, !.next = m, !.pc = pc] \in TxType
  <1> DEFINE t1 == [t EXCEPT !.newHID = n]
  <1> DEFINE t2 == [t1 EXCEPT !.next = m]
  <1>1. t1 \in TxType BY TxFields
  <1> HIDE DEF t1
  <1>2. t2 \in TxType BY <1>1, TxFields
  <1> HIDE DEF t2
  <1>3. [t2 EXCEPT !.pc = pc] \in TxType BY <1>2, TxFields
  <1> QED BY <1>3 DEF t2, t1

LEMMA RebaselineFields ==
  ASSUME NEW t \in TxType, NEW n \in Nat
  PROVE  \A b \in BOOLEAN :
           [t EXCEPT !.newHID = n, !.rebase = TRUE, !.pc = "apply", !.torn = b] \in TxType
  <1> TAKE b \in BOOLEAN
  <1> DEFINE t1 == [t EXCEPT !.newHID = n]
  <1> DEFINE t2 == [t1 EXCEPT !.rebase = TRUE]
  <1> DEFINE t3 == [t2 EXCEPT !.pc = "apply"]
  <1>1. t1 \in TxType BY TxFields
  <1> HIDE DEF t1
  <1>2. t2 \in TxType BY <1>1, TxFields
  <1> HIDE DEF t2
  <1>3. t3 \in TxType BY <1>2, TxFields
  <1> HIDE DEF t3
  <1>4. [t3 EXCEPT !.torn = b] \in TxType BY <1>3, TxFields
  <1> QED BY <1>4 DEF t3, t2, t1

LEMMA MatchFields ==
  ASSUME NEW t \in TxType, NEW S \in SUBSET Enrollments
  PROVE  [t EXCEPT !.waiting = S, !.pc = "apply"] \in TxType
  <1> DEFINE t1 == [t EXCEPT !.waiting = S]
  <1>1. t1 \in TxType BY TxFields
  <1> HIDE DEF t1
  <1>2. [t1 EXCEPT !.pc = "apply"] \in TxType BY <1>1, TxFields
  <1> QED BY <1>2 DEF t1

LEMMA ApplyFields ==
  ASSUME NEW t \in TxType, NEW n \in Nat, NEW L \in SUBSET Enrollments,
         NEW e \in Enrollments, NEW to \in Verdicts \union {NoState},
         NEW T \in SUBSET Enrollments
  PROVE  [t EXCEPT !.next = n, !.locked = L, !.staged[e] = to, !.traced = T] \in TxType
  <1> DEFINE t1 == [t EXCEPT !.next = n]
  <1> DEFINE t2 == [t1 EXCEPT !.locked = L]
  <1> DEFINE t3 == [t2 EXCEPT !.staged[e] = to]
  <1>1. t1 \in TxType BY TxFields
  <1> HIDE DEF t1
  <1>2. t2 \in TxType BY <1>1, TxFields
  <1> HIDE DEF t2
  <1>3. t3 \in TxType BY <1>2, TxStaged
  <1> HIDE DEF t3
  <1>4. [t3 EXCEPT !.traced = T] \in TxType BY <1>3, TxFields
  <1> QED BY <1>4 DEF t3, t2, t1

LEMMA FetchTypeOK ==
  ASSUME TypeOK, NEW w \in Workers, Fetch(w) PROVE TypeOK'
  <1>1. tx'[w] \in TxType
    BY IdleTxType DEF TypeOK, Fetch, TxType
  <1>2. tx' \in [Workers -> TxType]
    BY <1>1 DEF TypeOK, Fetch
  <1>3. job' \in JobType
    BY JobStart DEF TypeOK, Fetch, JobType
  <1> QED BY <1>2, <1>3 DEF TypeOK, Fetch, enrollVars, gmailVars, ghostVars, JobType

LEMMA ListTypeOK ==
  ASSUME TypeOK, NEW w \in Workers, List(w) PROVE TypeOK'
  <1>1. head \in Nat /\ MaxOf(tx[w].start, head) \in Nat /\ tx[w].start \in Nat
    BY HeadType DEF TypeOK, MaxOf, TxType
  <1>2. tx'[w] \in TxType
    BY <1>1, ListFields DEF TypeOK, List
  <1>3. tx' \in [Workers -> TxType]
    BY <1>2 DEF TypeOK, List
  <1> QED BY <1>3 DEF TypeOK, List, Uncommitted, enrollVars, gmailVars, ghostVars

LEMMA RebaselineTypeOK ==
  ASSUME TypeOK, NEW w \in Workers, Rebaseline(w) PROVE TypeOK'
  <1> DEFINE torn == tx[w].start # 0 /\ tx[w].start >= oldest
  <1>1. \A b \in BOOLEAN :
          [tx[w] EXCEPT !.newHID = head, !.rebase = TRUE, !.pc = "apply", !.torn = b] \in TxType
    BY HeadType, RebaselineFields DEF TypeOK
  <1>2. torn \in BOOLEAN OBVIOUS
  <1>3. tx' = [tx EXCEPT ![w].newHID = head, ![w].rebase = TRUE, ![w].pc = "apply",
                         ![w].torn = torn]
    BY DEF Rebaseline
  <1> HIDE DEF torn
  <1>4. tx'[w] = [tx[w] EXCEPT !.newHID = head, !.rebase = TRUE, !.pc = "apply", !.torn = torn]
    BY <1>3 DEF TypeOK
  <1>5. tx'[w] \in TxType BY <1>1, <1>2, <1>4
  <1>6. tx' \in [Workers -> TxType]
    BY <1>3, <1>5 DEF TypeOK
  <1> QED BY <1>6 DEF TypeOK, Rebaseline, Uncommitted, enrollVars, gmailVars, ghostVars

LEMMA MatchTypeOK ==
  ASSUME TypeOK, NEW w \in Workers, MatchSteps(w) PROVE TypeOK'
  <1>1. tx'[w] \in TxType
    BY MatchFields DEF TypeOK, MatchSteps
  <1>2. tx' \in [Workers -> TxType]
    BY <1>1 DEF TypeOK, MatchSteps
  <1> QED BY <1>2 DEF TypeOK, MatchSteps, Uncommitted, enrollVars, gmailVars, ghostVars

LEMMA ApplyTypeOK ==
  ASSUME TypeOK, NEW w \in Workers, NEW i \in Remaining(w), NEW e \in Enrollments,
         NEW to \in Verdicts, ApplyReply(w, i, e, to)
  PROVE  TypeOK'
  <1> DEFINE legal == CanTransition(Seen(w, e), to)
  <1> DEFINE s == IF legal THEN to ELSE tx[w].staged[e]
  <1> DEFINE T == IF legal THEN tx[w].traced ELSE tx[w].traced \union {e}
  <1>1. i + 1 \in Nat BY DEF Remaining, TypeOK, TxType
  <1>2. s \in Verdicts \union {NoState} BY DEF TypeOK, TxType
  <1>3. T \in SUBSET Enrollments /\ tx[w].locked \union {e} \in SUBSET Enrollments
    BY DEF TypeOK, TxType
  <1>4. tx'[w] = [tx[w] EXCEPT !.next = i + 1, !.locked = tx[w].locked \union {e},
                               !.staged[e] = s, !.traced = T]
    BY DEF TypeOK, ApplyReply, TxType
  <1> HIDE DEF s, T
  <1>5. tx'[w] \in TxType
    <2> DEFINE t == tx[w]
               L == tx[w].locked \union {e}
               n == i + 1
    <2>1. t \in TxType BY DEF TypeOK
    <2>2. n \in Nat /\ L \in SUBSET Enrollments BY <1>1, <1>3
    <2>3. tx'[w] = [t EXCEPT !.next = n, !.locked = L, !.staged[e] = s, !.traced = T]
      BY <1>4
    <2> HIDE DEF t, L, n
    <2>4. [t EXCEPT !.next = n, !.locked = L, !.staged[e] = s, !.traced = T] \in TxType
      BY <2>1, <2>2, <1>2, <1>3, ApplyFields
    <2> QED BY <2>3, <2>4
  <1>6. tx' \in [Workers -> TxType]
    BY <1>5 DEF TypeOK, ApplyReply
  <1> QED BY <1>6 DEF TypeOK, ApplyReply, Uncommitted, enrollVars, gmailVars, ghostVars

LEMMA SaveTypeOK ==
  ASSUME TypeOK, NEW w \in Workers, Save(w) PROVE TypeOK'
  <1>1. tx' \in [Workers -> TxType]
    BY IdleTxType DEF TypeOK, Save
  <1>2. job' \in JobType
    BY JobOutcomes DEF TypeOK, Save, JobType
  <1>3. NewCursor(w) \in Nat
    BY DEF TypeOK, NewCursor, TxType
  <1>4. \A e \in Staged(w) : tx[w].staged[e] \in States
    BY DEF TypeOK, Staged, TxType, Verdicts, States
  <1>5. /\ state' \in [Enrollments -> States]
        /\ audit' \in [Enrollments -> Seq(States)]
    BY <1>4 DEF TypeOK, Save
  <1>6. finalize' \subseteq Enrollments /\ traces' \subseteq Enrollments
    BY DEF TypeOK, Save, FinalizeJobs, Staged, TxType
  <1>7. scanned' \subseteq Nat /\ excused' \subseteq Nat /\ dropped' \subseteq Nat
    <2>1. \A a, b \in Nat : Window(a, b) \subseteq Nat
      BY DEF Window
    <2>2. /\ tx[w].start \in Nat /\ tx[w].newHID \in Nat /\ tx[w].from \in Nat
          /\ scanned \subseteq Nat /\ excused \subseteq Nat /\ dropped \subseteq Nat
      BY DEF TypeOK, TxType
    <2>3. scanned' \subseteq Nat
      BY <2>1, <2>2 DEF Save
    <2>4. excused' \subseteq Nat
      BY <2>1, <2>2 DEF Save
    <2>5. dropped' \subseteq Nat
      BY <2>1, <2>2 DEF Save
    <2> QED BY <2>3, <2>4, <2>5
  <1> QED BY <1>1, <1>2, <1>3, <1>5, <1>6, <1>7 DEF TypeOK, Save, gmailVars, JobType

LEMMA FailTypeOK ==
  ASSUME TypeOK, NEW w \in Workers, Fail(w) \/ Crash(w) PROVE TypeOK'
  <1>1. tx' \in [Workers -> TxType]
    BY IdleTxType DEF TypeOK, Fail, Crash
  <1>2. job' \in JobType
    BY JobOutcomes DEF TypeOK, Fail, Crash, JobType
  <1> QED BY <1>1, <1>2 DEF TypeOK, Fail, Crash, Uncommitted, enrollVars, gmailVars,
             ghostVars, JobType

LEMMA JobTypeOK ==
  ASSUME TypeOK, Rescue \/ Clean \/ (\E h \in pushes : Deliver(h)) \/ (\E h \in 0..head : Redeliver(h))
  PROVE  TypeOK'
  <1>0. job \in JobType BY DEF TypeOK, JobType
  <1>1. \A h \in Nat : EnqueuePollMailbox(h) => job' \in JobType
    BY <1>0 DEF EnqueuePollMailbox, JobType, JobStates
  <1>2. Rescue => job' \in JobType BY <1>0, JobOutcomes DEF Rescue
  <1>3. Clean => job' \in JobType BY DEF Clean, JobType, JobStates
  <1>4. \A h \in pushes : Deliver(h) => job' \in JobType BY <1>1 DEF Deliver, TypeOK
  <1>5. \A h \in 0..head : Redeliver(h) => job' \in JobType BY <1>1 DEF Redeliver
  <1>6. job' \in JobType
    BY <1>2, <1>3, <1>4, <1>5
  <1>7. UNCHANGED <<enrollVars, inbox, gone, oldest, tx, renew, cursor, ghostVars>>
    BY DEF Rescue, Clean, Deliver, Redeliver, gmailVars
  <1>8. pushes' \subseteq Nat
    BY DEF TypeOK, Rescue, Clean, Deliver, Redeliver, gmailVars
  <1>9. zombies' \in Nat
    BY DEF TypeOK, Rescue, Clean, Deliver, Redeliver
  <1> QED BY <1>6, <1>7, <1>8, <1>9 DEF TypeOK, enrollVars, ghostVars, JobType

LEMMA MailTypeOK ==
  ASSUME TypeOK, Expire \/ (\E m \in Refs : Arrive(m)) \/ (\E i \in DOMAIN inbox : Delete(i))
  PROVE  TypeOK'
  <1>1. CASE Expire
    BY <1>1, HeadType DEF TypeOK, Expire, enrollVars, ghostVars
  <1>2. CASE \E m \in Refs : Arrive(m)
    <2>1. head + 1 \in Nat BY HeadType DEF TypeOK
    <2>2. PICK m \in Refs : Arrive(m) BY <1>2
    <2>3. m \in Seq(Enrollments) BY RefsAssumption
    <2>4. inbox' \in Seq(Seq(Enrollments)) BY <2>2, <2>3 DEF TypeOK, Arrive
    <2> QED BY <2>1, <2>2, <2>4 DEF TypeOK, Arrive, enrollVars, ghostVars
  <1>3. CASE \E i \in DOMAIN inbox : Delete(i)
    <2>1. DOMAIN inbox \subseteq Nat BY DEF TypeOK
    <2>2. gone' \subseteq Nat BY <1>3, <2>1 DEF Delete, TypeOK
    <2> QED BY <1>3, <2>2 DEF Delete, TypeOK, enrollVars, ghostVars
  <1> QED BY <1>1, <1>2, <1>3

LEMMA EnvTypeOK ==
  ASSUME TypeOK, NEW e \in Enrollments, NEW to \in States, EnvTransition(e, to)
  PROVE  TypeOK'
  BY DEF TypeOK, EnvTransition, gmailVars, ghostVars

LEMMA RenewTypeOK ==
  ASSUME TypeOK, RenewList \/ RenewWatch \/ RenewSave \/ RenewFail PROVE TypeOK'
  <1>1. head \in Nat BY HeadType DEF TypeOK
  <1> USE DEF TypeOK, RenewUnchanged, enrollVars, gmailVars, ghostVars
  <1>2. CASE RenewList BY <1>2 DEF RenewList
  <1>3. CASE RenewWatch
    <2>1. renew'.pc = "watched" /\ renew'.sawNull = renew.sawNull /\ renew'.hid = head
          /\ renew' = [[renew EXCEPT !.pc = "watched"] EXCEPT !.hid = head]
      BY <1>3 DEF RenewWatch
    <2>2. [renew EXCEPT !.pc = "watched"]
            \in [pc : {"idle", "listed", "watched"}, sawNull : BOOLEAN, hid : Nat]
      OBVIOUS
    <2>3. renew' \in [pc : {"idle", "listed", "watched"}, sawNull : BOOLEAN, hid : Nat]
      BY <1>1, <2>1, <2>2
    <2> QED BY <1>3, <2>3 DEF RenewWatch
  <1>4. CASE RenewSave
    <2>1. cursor' \in Nat /\ excused' \subseteq Nat /\ UNCHANGED <<scanned, dropped>>
      <3>1. Window(1, renew.hid) \subseteq Nat BY DEF Window
      <3>2. cursor' \in {renew.hid, cursor} BY <1>4 DEF RenewSave
      <3>3. excused' \in {excused, excused \union Window(1, renew.hid)}
        BY <1>4, Zenon DEF RenewSave
      <3> QED BY <3>1, <3>2, <3>3, <1>4 DEF RenewSave
    <2>2. renew' \in [pc : {"idle", "listed", "watched"}, sawNull : BOOLEAN, hid : Nat]
      BY <1>4 DEF RenewSave, IdleRenew
    <2> QED BY <1>4, <2>1, <2>2 DEF RenewSave
  <1>5. CASE RenewFail BY <1>5 DEF RenewFail, IdleRenew
  <1> QED BY <1>2, <1>3, <1>4, <1>5

(* Type correctness of the reply-detection model, for every instance.      *)
THEOREM TypeCorrect == Spec => []TypeOK
  <1>1. Init => TypeOK BY InitTypeOK
  <1>2. TypeOK /\ [Next]_vars => TypeOK'
    <2> SUFFICES ASSUME TypeOK, [Next]_vars PROVE TypeOK' OBVIOUS
    <2>1. CASE Next
      BY <2>1, FetchTypeOK, ListTypeOK, RebaselineTypeOK, MatchTypeOK, ApplyTypeOK, SaveTypeOK,
         FailTypeOK, JobTypeOK, MailTypeOK, EnvTypeOK, RenewTypeOK
      DEF Next, PollStep
    <2>2. CASE UNCHANGED vars
      BY <2>2 DEF TypeOK, vars, enrollVars, gmailVars, ghostVars
    <2> QED BY <2>1, <2>2
  <1> QED BY <1>1, <1>2, PTL DEF Spec
-----------------------------------------------------------------------------
(***************************************************************************)
(* The row locks.  A transaction only stages moves of rows it holds, rows  *)
(* are held by one transaction, and a held row's committed state changes   *)
(* in nobody else's hands: so a staged move is still legal at commit.      *)
(***************************************************************************)

LocksExclusive ==
  \A w, v \in Workers : w # v => tx[w].locked \intersect tx[v].locked = {}

StagedUnderLock == \A w \in Workers : Staged(w) \subseteq tx[w].locked

LockInv == LocksExclusive /\ StagedUnderLock /\ StagedStaysLegal

LEMMA NoSelfLoop == \A s : ~CanTransition(s, s)
  BY DEF CanTransition, LegalEdges

LEMMA VerdictsNotNone == NoState \notin Verdicts /\ Verdicts \subseteq States
  BY DEF Verdicts, NoState, States

LEMMA IdleTxFacts == IdleTx.locked = {} /\ \A e \in Enrollments : IdleTx.staged[e] = NoState
  BY DEF IdleTx

(* A step that gives one worker the idle transaction and moves no row.     *)
LEMMA IdleKeepsLocks ==
  ASSUME TypeOK, LockInv, NEW w \in Workers, tx' = [tx EXCEPT ![w] = IdleTx],
         UNCHANGED state
  PROVE  LockInv'
  <1>1. \A v \in Workers : tx'[v].locked \subseteq tx[v].locked
    BY IdleTxFacts DEF TypeOK
  <1>2. \A v \in Workers, e \in Enrollments :
          tx'[v].staged[e] # NoState => v # w /\ tx'[v] = tx[v]
    BY IdleTxFacts DEF TypeOK
  <1>3. LocksExclusive'
    BY <1>1 DEF LockInv, LocksExclusive
  <1>4. StagedUnderLock'
    BY <1>2 DEF LockInv, StagedUnderLock, Staged
  <1>5. StagedStaysLegal'
    BY <1>2 DEF LockInv, StagedStaysLegal, Staged
  <1> QED BY <1>3, <1>4, <1>5 DEF LockInv

(* A step that changes neither locks nor staged moves nor rows.            *)
LEMMA SameLocks ==
  ASSUME LockInv, UNCHANGED state,
         \A v \in Workers : tx'[v].locked = tx[v].locked /\ tx'[v].staged = tx[v].staged
  PROVE  LockInv'
  BY DEF LockInv, LocksExclusive, StagedUnderLock, StagedStaysLegal, Staged

LEMMA ScanKeepsLocks ==
  ASSUME TypeOK, LockInv, NEW w \in Workers, List(w) \/ Rebaseline(w) \/ MatchSteps(w)
  PROVE  LockInv'
  <1>1. \A v \in Workers : tx'[v].locked = tx[v].locked /\ tx'[v].staged = tx[v].staged
    <2> TAKE v \in Workers
    <2>1. CASE v # w BY <2>1 DEF TypeOK, List, Rebaseline, MatchSteps
    <2>2. ASSUME List(w) PROVE tx'[w].locked = tx[w].locked /\ tx'[w].staged = tx[w].staged
      BY <2>2 DEF TypeOK, TxType, List
    <2>3. ASSUME Rebaseline(w) PROVE tx'[w].locked = tx[w].locked /\ tx'[w].staged = tx[w].staged
      BY <2>3 DEF TypeOK, TxType, Rebaseline
    <2>4. ASSUME MatchSteps(w) PROVE tx'[w].locked = tx[w].locked /\ tx'[w].staged = tx[w].staged
      BY <2>4 DEF TypeOK, TxType, MatchSteps
    <2> QED BY <2>1, <2>2, <2>3, <2>4
  <1>2. UNCHANGED state
    BY DEF List, Rebaseline, MatchSteps, Uncommitted, enrollVars
  <1> QED BY <1>1, <1>2, SameLocks

LEMMA FetchKeepsLocks ==
  ASSUME TypeOK, LockInv, NEW w \in Workers, Fetch(w) PROVE LockInv'
  <1>1. tx'[w].locked = {} /\ \A e \in Enrollments : tx'[w].staged[e] = NoState
    BY DEF TypeOK, Fetch, IdleTx
  <1>2. \A v \in Workers \ {w} : tx'[v] = tx[v]
    BY DEF TypeOK, Fetch
  <1>3. UNCHANGED state BY DEF Fetch, enrollVars
  <1>4. LocksExclusive'
    BY <1>1, <1>2 DEF LockInv, LocksExclusive
  <1>5. StagedUnderLock'
    BY <1>1, <1>2 DEF LockInv, StagedUnderLock, Staged
  <1>6. StagedStaysLegal'
    BY <1>1, <1>2, <1>3 DEF LockInv, StagedStaysLegal, Staged
  <1> QED BY <1>4, <1>5, <1>6 DEF LockInv

LEMMA ApplyKeepsLocks ==
  ASSUME TypeOK, LockInv, NEW w \in Workers, NEW i \in Remaining(w), NEW e \in Enrollments,
         NEW to \in Verdicts, ApplyReply(w, i, e, to)
  PROVE  LockInv'
  <1>1. /\ tx'[w].locked = tx[w].locked \union {e}
        /\ CanTransition(state[e], to) => tx'[w].staged[e] = to
        /\ ~CanTransition(state[e], to) => tx'[w].staged[e] = tx[w].staged[e]
        /\ \A x \in Enrollments : x # e => tx'[w].staged[x] = tx[w].staged[x]
    <2>1. tx[w].staged \in [Enrollments -> Verdicts \union {NoState}] BY DEF TypeOK, TxType
    <2>2. e \notin tx[w].locked BY DEF ApplyReply, Matches, Claimable
    <2>3. Seen(w, e) = state[e] BY <2>2 DEF LockInv, StagedUnderLock, Staged, Seen
    <2> QED BY <2>1, <2>3 DEF TypeOK, TxType, ApplyReply
  <1>2. \A v \in Workers \ {w} : tx'[v] = tx[v]
    BY DEF TypeOK, ApplyReply
  <1>3. UNCHANGED state BY DEF ApplyReply, Uncommitted, enrollVars
  <1>4. LocksExclusive'
    <2>1. \A v \in Workers \ {w} : e \notin tx[v].locked BY DEF ApplyReply, RowFree
    <2>2. \A v \in Workers \ {w} : tx'[v].locked = tx[v].locked BY <1>2
    <2> QED BY <1>1, <2>1, <2>2 DEF LockInv, LocksExclusive
  <1>5. StagedUnderLock'
    BY <1>1, <1>2 DEF LockInv, StagedUnderLock, Staged, TypeOK, TxType
  <1>6. StagedStaysLegal'
    <2> SUFFICES ASSUME NEW v \in Workers, NEW x \in Enrollments, tx'[v].staged[x] # NoState
                 PROVE  CanTransition(state[x], tx'[v].staged[x])
      BY <1>3 DEF StagedStaysLegal, Staged
    <2>1. tx[v].staged[x] # NoState => CanTransition(state[x], tx[v].staged[x])
      BY DEF LockInv, StagedStaysLegal, Staged
    <2>2. CASE v # w BY <1>2, <2>1, <2>2
    <2>3. CASE v = w BY <1>1, <2>1, <2>3
    <2> QED BY <2>2, <2>3
  <1> QED BY <1>4, <1>5, <1>6 DEF LockInv

(* Committed rows change only under the committing worker's own locks.     *)
LEMMA SaveKeepsLocks ==
  ASSUME TypeOK, LockInv, NEW w \in Workers, Save(w) PROVE LockInv'
  <1>1. tx'[w] = IdleTx /\ \A v \in Workers \ {w} : tx'[v] = tx[v]
    BY DEF TypeOK, Save
  <1>2. \A v \in Workers \ {w} : \A e \in Staged(v) : e \notin Staged(w)
    BY DEF LockInv, LocksExclusive, StagedUnderLock
  <1>3. \A v \in Workers \ {w} : \A e \in Staged(v) : state'[e] = state[e]
    BY <1>2 DEF Save, Staged
  <1>7. tx'[w].locked = {} /\ \A e \in Enrollments : tx'[w].staged[e] = NoState
    BY <1>1, IdleTxFacts
  <1>8. \A v \in Workers \ {w} : /\ tx'[v].locked = tx[v].locked
                                 /\ tx'[v].staged = tx[v].staged
    BY <1>1
  <1>4. LocksExclusive'
    BY <1>7, <1>8 DEF LockInv, LocksExclusive
  <1>5. StagedUnderLock'
    BY <1>7, <1>8 DEF LockInv, StagedUnderLock, Staged
  <1>6. StagedStaysLegal'
    BY <1>7, <1>8, <1>3 DEF LockInv, StagedStaysLegal, Staged
  <1> QED BY <1>4, <1>5, <1>6 DEF LockInv

LEMMA EnvKeepsLocks ==
  ASSUME TypeOK, LockInv, NEW e \in Enrollments, NEW to \in States, EnvTransition(e, to)
  PROVE  LockInv'
  <1>1. UNCHANGED tx BY DEF EnvTransition
  <1>2. \A w \in Workers : e \notin Staged(w)
    BY DEF EnvTransition, RowUnlocked, LockInv, StagedUnderLock
  <1>3. \A x \in Enrollments : x # e => state'[x] = state[x]
    BY DEF EnvTransition, TypeOK
  <1>4. StagedStaysLegal'
    BY <1>1, <1>2, <1>3 DEF LockInv, StagedStaysLegal, Staged
  <1> QED BY <1>1, <1>4 DEF LockInv, LocksExclusive, StagedUnderLock, Staged

LEMMA OthersKeepLocks ==
  ASSUME LockInv, UNCHANGED <<state, tx>> PROVE LockInv'
  BY DEF LockInv, LocksExclusive, StagedUnderLock, StagedStaysLegal, Staged

LEMMA LockStep ==
  ASSUME TypeOK, LockInv, [Next]_vars PROVE LockInv'
  <1> USE DEF enrollVars, gmailVars, ghostVars
  <1>1. CASE Next
    <2>1. ASSUME NEW w \in Workers, Fail(w) \/ Crash(w) PROVE LockInv'
      BY <2>1, IdleKeepsLocks DEF Fail, Crash, Uncommitted
    <2>2. ASSUME NEW w \in Workers, PollStep(w) PROVE LockInv'
      BY <2>2, ScanKeepsLocks, ApplyKeepsLocks, SaveKeepsLocks DEF PollStep
    <2>3. ASSUME (\E m \in Refs : Arrive(m)) \/ (\E i \in DOMAIN inbox : Delete(i)) \/ Expire \/ (\E h \in pushes : Deliver(h))
                 \/ (\E h \in 0..head : Redeliver(h)) \/ Rescue \/ Clean
          PROVE  LockInv'
      BY <2>3, OthersKeepLocks DEF Arrive, Delete, Expire, Deliver, Redeliver, Rescue, Clean
    <2>4. ASSUME RenewList \/ RenewWatch \/ RenewSave \/ RenewFail PROVE LockInv'
      BY <2>4, OthersKeepLocks DEF RenewList, RenewWatch, RenewSave, RenewFail, RenewUnchanged
    <2> QED BY <1>1, <2>1, <2>2, <2>3, <2>4, FetchKeepsLocks, EnvKeepsLocks DEF Next
  <1>2. CASE UNCHANGED vars
    BY <1>2, OthersKeepLocks DEF vars
  <1> QED BY <1>1, <1>2

LEMMA InitLocks == Init => LockInv
  BY IdleTxFacts DEF Init, LockInv, LocksExclusive, StagedUnderLock, StagedStaysLegal, Staged

LEMMA LocksInvariant == Spec => []LockInv
  <1>1. TypeOK /\ LockInv /\ [Next]_vars => LockInv' BY LockStep
  <1> QED BY <1>1, InitLocks, TypeCorrect, PTL DEF Spec

(* A move staged under a row lock is legal when it commits (transition.go: *)
(* lock, validate, update), for any number of scans and other handlers.    *)
THEOREM StagedLegality == Spec => []StagedStaysLegal
  BY LocksInvariant, PTL DEF LockInv
-----------------------------------------------------------------------------
(***************************************************************************)
(* Refinement: committing a scan and a step of another handler are moves   *)
(* of Enrollment; every other step leaves the enrollments alone.           *)
(***************************************************************************)

LEMMA SaveRefines ==
  ASSUME TypeOK, LockInv, NEW w \in Workers, Save(w) PROVE Promise!Next
  <1>1. \A e \in Staged(w) : /\ tx[w].staged[e] \in States
                             /\ CanTransition(state[e], tx[w].staged[e])
                             /\ tx[w].staged[e] # state[e]
    BY NoSelfLoop DEF LockInv, StagedStaysLegal, Staged, TypeOK, TxType, Verdicts, States
  <1>2. \A e \in Enrollments : state'[e] = IF e \in Staged(w) THEN tx[w].staged[e] ELSE state[e]
    BY DEF Save
  <1>3. Promise!Moved = Staged(w)
    BY <1>1, <1>2 DEF Promise!Moved, Staged
  <1>4. state' \in [Enrollments -> States]
    BY <1>1 DEF Save, TypeOK
  <1>5. \A e \in Promise!Moved : CanTransition(state[e], state'[e])
    BY <1>1, <1>2, <1>3 DEF Staged
  <1>6. audit' = [e \in Enrollments |->
                    IF e \in Promise!Moved THEN Append(audit[e], state'[e]) ELSE audit[e]]
    BY <1>2, <1>3 DEF Save
  <1>7. /\ FinalizeJobs(w) \subseteq {e \in Promise!Moved : Terminal(state'[e])}
        /\ finalize' = finalize \union FinalizeJobs(w)
    BY <1>2, <1>3 DEF Save, FinalizeJobs, Staged
  <1> QED BY <1>4, <1>5, <1>6, <1>7 DEF Promise!Next, Promise!CanTransition, Promise!States,
             Promise!Terminal, CanTransition, States, Terminal, Promise!LegalEdges, LegalEdges,
             Promise!TerminalStates, TerminalStates

LEMMA EnvRefines ==
  ASSUME TypeOK, NEW e \in Enrollments, NEW to \in States, EnvTransition(e, to)
  PROVE  Promise!Next
  <1>1. to # state[e] /\ CanTransition(state[e], to) BY NoSelfLoop DEF EnvTransition
  <1>2. state'[e] = to /\ \A x \in Enrollments : x # e => state'[x] = state[x]
    BY DEF EnvTransition, TypeOK
  <1>3. Promise!Moved = {e}
    BY <1>1, <1>2 DEF Promise!Moved
  <1>4. state' \in [Enrollments -> States]
    BY DEF EnvTransition, TypeOK
  <1>5. \A x \in Promise!Moved : CanTransition(state[x], state'[x])
    BY <1>1, <1>2, <1>3
  <1>6. audit' = [x \in Enrollments |->
                    IF x \in Promise!Moved THEN Append(audit[x], state'[x]) ELSE audit[x]]
    BY <1>2, <1>3 DEF EnvTransition, TypeOK
  <1>7. \E F \in SUBSET {x \in Promise!Moved : Terminal(state'[x])} : finalize' = finalize \union F
    <2>1. CASE Terminal(to)
      <3>1. {e} \in SUBSET {x \in Promise!Moved : Terminal(state'[x])} BY <1>2, <1>3, <2>1
      <3> QED BY <3>1, <2>1 DEF EnvTransition
    <2>2. CASE ~Terminal(to)
      <3>1. {} \in SUBSET {x \in Promise!Moved : Terminal(state'[x])} OBVIOUS
      <3> QED BY <3>1, <2>2 DEF EnvTransition
    <2> QED BY <2>1, <2>2
  <1> QED BY <1>4, <1>5, <1>6, <1>7 DEF Promise!Next, Promise!CanTransition, Promise!States,
             Promise!Terminal, CanTransition, States, Terminal, Promise!LegalEdges, LegalEdges,
             Promise!TerminalStates, TerminalStates

LEMMA StepRefines ==
  ASSUME TypeOK, LockInv, [Next]_vars PROVE [Promise!Next]_(Promise!vars)
  <1> USE DEF enrollVars, gmailVars, ghostVars, Promise!vars
  <1>1. CASE Next
    <2>1. ASSUME NEW w \in Workers, Fetch(w) \/ Fail(w) \/ Crash(w) PROVE UNCHANGED Promise!vars
      BY <2>1 DEF Fetch, Fail, Crash, Uncommitted
    <2>2. ASSUME NEW w \in Workers, PollStep(w) PROVE Promise!Next \/ UNCHANGED Promise!vars
      <3>1. CASE List(w) \/ Rebaseline(w) \/ MatchSteps(w)
        BY <3>1 DEF List, Rebaseline, MatchSteps, Uncommitted
      <3>2. CASE \E i \in Remaining(w), e \in Enrollments, to \in Verdicts :
                   ApplyReply(w, i, e, to)
        BY <3>2 DEF ApplyReply, Uncommitted
      <3>3. CASE Save(w) BY <3>3, SaveRefines
      <3> QED BY <2>2, <3>1, <3>2, <3>3 DEF PollStep
    <2>3. ASSUME (\E m \in Refs : Arrive(m)) \/ (\E i \in DOMAIN inbox : Delete(i)) \/ Expire \/ (\E h \in pushes : Deliver(h))
                 \/ (\E h \in 0..head : Redeliver(h)) \/ Rescue \/ Clean
          PROVE  UNCHANGED Promise!vars
      BY <2>3 DEF Arrive, Delete, Expire, Deliver, Redeliver, Rescue, Clean
    <2>4. ASSUME RenewList \/ RenewWatch \/ RenewSave \/ RenewFail PROVE UNCHANGED Promise!vars
      BY <2>4 DEF RenewList, RenewWatch, RenewSave, RenewFail, RenewUnchanged
    <2> QED BY <1>1, <2>1, <2>2, <2>3, <2>4, EnvRefines DEF Next
  <1>2. CASE UNCHANGED vars
    BY <1>2 DEF vars
  <1> QED BY <1>1, <1>2

(* Any interleaving of scans, retries, crashes and other handlers is a     *)
(* sequence of atomic legal moves with their audit rows: the model         *)
(* implements Enrollment.                                                  *)
THEOREM Refinement == Spec => ImplementsEnrollment
  <1>1. Init => Promise!Init BY DEF Init, Promise!Init
  <1>2. TypeOK /\ LockInv /\ [Next]_vars => [Promise!Next]_(Promise!vars) BY StepRefines
  <1> QED BY <1>1, <1>2, TypeCorrect, LocksInvariant, PTL DEF Spec, Promise!Spec, ImplementsEnrollment
-----------------------------------------------------------------------------
(***************************************************************************)
(* The cursor, once a baseline is persisted.  Everything below the cursor  *)
(* is scanned, excused or dropped, and so is everything below the point any*)
(* execution under way started from, however stale that point has become:  *)
(* so whichever execution commits last, it cannot leave a hole behind.     *)
(***************************************************************************)

Covered(n) == \A i \in Nat : (1 <= i /\ i < n) => i \in scanned \union excused \union dropped

TxCovered(w) ==
  tx[w].pc # "idle" => /\ tx[w].start >= 1 /\ tx[w].from = tx[w].start
                       /\ tx[w].rebase => tx[w].newHID >= 1
                       /\ Covered(tx[w].start)

CursorInv == /\ cursor >= 1 /\ Covered(cursor)
             /\ ~renew.sawNull
             /\ \A w \in Workers : TxCovered(w)

LEMMA InitCursorInv ==
  ASSUME 0 \notin InitCursors, Init PROVE CursorInv
  BY InitCursorsAssumption DEF Init, CursorInv, Covered, TxCovered, IdleTx, IdleRenew

(* A step that leaves cursor and history variables alone, and every        *)
(* execution idle or with its start unchanged.                             *)
LEMMA CursorKept ==
  ASSUME CursorInv, UNCHANGED <<cursor, scanned, excused, dropped>>, ~renew'.sawNull,
         \A w \in Workers : \/ TxCovered(w)' \/ tx'[w].pc = "idle" \/ tx'[w] = tx[w]
  PROVE  CursorInv'
  <1>1. \A w \in Workers : TxCovered(w)'
    BY DEF CursorInv, TxCovered, Covered
  <1> QED BY <1>1 DEF CursorInv, Covered

LEMMA FetchKeepsCursor ==
  ASSUME TypeOK, CursorInv, NEW w \in Workers, Fetch(w) PROVE CursorInv'
  <1>1. tx'[w].start = cursor /\ tx'[w].from = cursor /\ tx'[w].rebase = FALSE
    BY DEF TypeOK, Fetch, IdleTx, CursorInv
  <1>2. \A v \in Workers \ {w} : tx'[v] = tx[v]
    BY DEF TypeOK, Fetch
  <1>3. UNCHANGED <<cursor, scanned, excused, dropped, renew>>
    BY DEF Fetch, ghostVars
  <1>4. TxCovered(w)'
    BY <1>1, <1>3 DEF TxCovered, Covered, CursorInv
  <1> QED BY <1>2, <1>3, <1>4, CursorKept DEF CursorInv

LEMMA ApplyKeepsScan ==
  ASSUME TypeOK, NEW w \in Workers, NEW i \in Remaining(w), NEW e \in Enrollments,
         NEW to \in Verdicts, ApplyReply(w, i, e, to)
  PROVE  /\ tx'[w].start = tx[w].start /\ tx'[w].from = tx[w].from
         /\ tx'[w].rebase = tx[w].rebase /\ tx'[w].newHID = tx[w].newHID
         /\ \A v \in Workers \ {w} : tx'[v] = tx[v]
  <1>1. tx[w].staged \in [Enrollments -> Verdicts \union {NoState}] BY DEF TypeOK, TxType
  <1> QED BY <1>1 DEF TypeOK, TxType, ApplyReply

LEMMA ScanKeepsCursor ==
  ASSUME TypeOK, CursorInv, NEW w \in Workers,
         \/ List(w) \/ Rebaseline(w) \/ MatchSteps(w)
         \/ \E i \in Remaining(w), e \in Enrollments, to \in Verdicts : ApplyReply(w, i, e, to)
  PROVE  CursorInv'
  <1>1. \A v \in Workers \ {w} : tx'[v] = tx[v]
    <2>1. CASE List(w) \/ Rebaseline(w) \/ MatchSteps(w)
      BY <2>1 DEF TypeOK, List, Rebaseline, MatchSteps
    <2>2. CASE \E i \in Remaining(w), e \in Enrollments, to \in Verdicts : ApplyReply(w, i, e, to)
      BY <2>2, ApplyKeepsScan
    <2> QED BY <2>1, <2>2
  <1>2. UNCHANGED <<cursor, scanned, excused, dropped, renew>>
    BY DEF List, Rebaseline, MatchSteps, ApplyReply, Uncommitted, ghostVars
  <1>3. tx[w].pc # "idle"
    BY DEF List, Rebaseline, MatchSteps, ApplyReply, At
  <1>4. tx'[w].start = tx[w].start /\ tx'[w].from = tx[w].from
    <2>1. CASE List(w) BY <2>1 DEF TypeOK, TxType, List
    <2>2. CASE Rebaseline(w) BY <2>2 DEF TypeOK, TxType, Rebaseline
    <2>3. CASE MatchSteps(w) BY <2>3 DEF TypeOK, TxType, MatchSteps
    <2>4. CASE \E i \in Remaining(w), e \in Enrollments, to \in Verdicts : ApplyReply(w, i, e, to)
      BY <2>4, ApplyKeepsScan
    <2> QED BY <2>1, <2>2, <2>3, <2>4
  <1>5. tx'[w].rebase => tx'[w].newHID >= 1
    <2>0. head >= 1 BY DEF TypeOK, head
    <2>1. CASE List(w)
      <3>1. tx'[w].rebase = tx[w].rebase /\ tx'[w].newHID = MaxOf(tx[w].start, head)
        BY <2>1 DEF TypeOK, TxType, List
      <3> QED BY <3>1, <2>0, <1>3 DEF MaxOf, CursorInv, TxCovered, TypeOK, TxType, head
    <2>2. CASE Rebaseline(w) BY <2>2, <2>0 DEF TypeOK, TxType, Rebaseline
    <2>3. CASE MatchSteps(w)
      BY <2>3, <1>3 DEF TypeOK, TxType, MatchSteps, CursorInv, TxCovered
    <2>4. CASE \E i \in Remaining(w), e \in Enrollments, to \in Verdicts : ApplyReply(w, i, e, to)
      BY <2>4, <1>3, ApplyKeepsScan DEF CursorInv, TxCovered
    <2> QED BY <2>1, <2>2, <2>3, <2>4
  <1>6. TxCovered(w)'
    BY <1>2, <1>3, <1>4, <1>5 DEF CursorInv, TxCovered, Covered
  <1> QED BY <1>1, <1>2, <1>6, CursorKept DEF CursorInv

LEMMA SaveKeepsCursor ==
  ASSUME TypeOK, CursorInv, NEW w \in Workers, Save(w) PROVE CursorInv'
  <1> DEFINE t == tx[w]
  <1>1. /\ t.start \in Nat /\ t.newHID \in Nat /\ t.rebase \in BOOLEAN /\ t.from \in Nat
        /\ cursor \in Nat
    BY DEF TypeOK, TxType
  <1>2. /\ t.start >= 1 /\ t.from = t.start /\ Covered(t.start)
        /\ t.rebase => t.newHID >= 1
    BY DEF CursorInv, TxCovered, Save, ReadyToSave, At
  <1>3. scanned \subseteq scanned' /\ excused \subseteq excused' /\ dropped \subseteq dropped'
    BY DEF Save
  <1>4. \A i \in Nat : t.start <= i /\ i < t.newHID => i \in scanned' \union excused' \union dropped'
    BY <1>1, <1>2 DEF Save, Window
  <1>5. cursor' = t.newHID \/ cursor' = cursor
    BY DEF Save, NewCursor
  <1>6. cursor' >= 1
    BY <1>1, <1>2 DEF Save, NewCursor, CursorInv
  <1>7. Covered(cursor)' 
    BY <1>1, <1>2, <1>3, <1>4, <1>5 DEF Covered, CursorInv
  <1>8. \A v \in Workers : TxCovered(v)'
    BY <1>3, IdleTxFacts DEF CursorInv, TxCovered, Covered, Save, TypeOK, IdleTx
  <1> QED BY <1>6, <1>7, <1>8 DEF CursorInv, Save

LEMMA RenewKeepsCursor ==
  ASSUME TypeOK, CursorInv, RenewList \/ RenewWatch \/ RenewSave \/ RenewFail
  PROVE  CursorInv'
  <1>1. UNCHANGED tx BY DEF RenewList, RenewWatch, RenewSave, RenewFail, RenewUnchanged
  <1>2. UNCHANGED <<cursor, scanned, excused, dropped>>
    BY DEF RenewList, RenewWatch, RenewSave, RenewFail, RenewAdopts, CursorInv, ghostVars
  <1>3. ~renew'.sawNull
    <2>1. CASE RenewList
      <3>1. (cursor = 0) = FALSE BY DEF CursorInv, TypeOK
      <3>2. renew' = [pc |-> "listed", sawNull |-> FALSE, hid |-> 0]
        BY <2>1, <3>1, Zenon DEF RenewList
      <3> QED BY <3>2
    <2>2. CASE RenewWatch BY <2>2 DEF RenewWatch, CursorInv, TypeOK
    <2>3. CASE RenewSave BY <2>3 DEF RenewSave, IdleRenew
    <2>4. CASE RenewFail BY <2>4 DEF RenewFail, IdleRenew
    <2> QED BY <2>1, <2>2, <2>3, <2>4
  <1> QED BY <1>1, <1>2, <1>3, CursorKept

LEMMA CursorStep ==
  ASSUME TypeOK, CursorInv, [Next]_vars PROVE CursorInv'
  <1> USE DEF ghostVars
  <1>1. CASE Next
    <2>1. ASSUME NEW w \in Workers, Fail(w) \/ Crash(w) PROVE CursorInv'
      BY <2>1, CursorKept DEF Fail, Crash, Uncommitted, TypeOK, IdleTx, CursorInv
    <2>2. ASSUME NEW w \in Workers, PollStep(w) PROVE CursorInv'
      BY <2>2, ScanKeepsCursor, SaveKeepsCursor DEF PollStep
    <2>3. ASSUME (\E m \in Refs : Arrive(m)) \/ (\E i \in DOMAIN inbox : Delete(i)) \/ Expire \/ (\E h \in pushes : Deliver(h))
                 \/ (\E h \in 0..head : Redeliver(h)) \/ Rescue \/ Clean
                 \/ (\E e \in Enrollments, to \in States : EnvTransition(e, to))
          PROVE  CursorInv'
      <3>1. UNCHANGED <<cursor, scanned, excused, dropped, renew, tx>>
        BY <2>3 DEF Arrive, Delete, Expire, Deliver, Redeliver, Rescue, Clean, EnvTransition
      <3> QED BY <3>1, CursorKept DEF CursorInv
    <2> QED BY <1>1, <2>1, <2>2, <2>3, FetchKeepsCursor, RenewKeepsCursor DEF Next
  <1>2. CASE UNCHANGED vars
    BY <1>2, CursorKept DEF vars, CursorInv
  <1> QED BY <1>1, <1>2

(* Once a baseline is persisted the scan cursor never passes a message no  *)
(* committed scan listed, history gaps apart, for any number of            *)
(* executions, crashes, retries and zombie rescues.                        *)
THEOREM CursorSkipsNothing ==
  ASSUME 0 \notin InitCursors PROVE Spec => []NoReplySkipped
  <1>1. Init => CursorInv BY InitCursorInv
  <1>2. TypeOK /\ CursorInv /\ [Next]_vars => CursorInv' BY CursorStep
  <1>3. TypeOK /\ CursorInv => NoReplySkipped
    BY DEF CursorInv, Covered, NoReplySkipped, TypeOK
  <1> QED BY <1>1, <1>2, <1>3, TypeCorrect, PTL DEF Spec
-----------------------------------------------------------------------------
(***************************************************************************)
(* Further invariants of the scan.  They rest on the row locks above and,  *)
(* for the cursor, on where the ids come from: Gmail issues them, so every *)
(* copy of one (a push, the job's argument, a scan's bounds, the id        *)
(* watch_renew holds) is at most the mailbox's current id, which only      *)
(* grows.                                                                  *)
(***************************************************************************)

(* A trace is left for a row the transaction holds and found moved.        *)
TracedUnderLock == \A w \in Workers : tx[w].traced \subseteq tx[w].locked

TraceInv == TracedUnderLock /\ IllegalOnlyByRace

LEMMA WaitingMayReply ==
  \A s : \A to \in Verdicts : ~CanTransition(s, to) => s # "waiting_reply"
  BY DEF CanTransition, LegalEdges, Verdicts

LEMMA TraceKept ==
  ASSUME TraceInv, UNCHANGED state,
         \A v \in Workers : \/ tx'[v].traced = {}
                            \/ tx'[v].traced = tx[v].traced /\ tx'[v].locked = tx[v].locked
  PROVE  TraceInv'
  BY DEF TraceInv, TracedUnderLock, IllegalOnlyByRace

LEMMA FetchKeepsTraces ==
  ASSUME TypeOK, TraceInv, NEW w \in Workers, Fetch(w) PROVE TraceInv'
  <1>1. tx'[w].traced = {} /\ \A v \in Workers \ {w} : tx'[v] = tx[v]
    BY DEF TypeOK, Fetch, IdleTx
  <1> QED BY <1>1, TraceKept DEF Fetch, enrollVars

LEMMA ScanKeepsTraces ==
  ASSUME TypeOK, TraceInv, NEW w \in Workers, List(w) \/ Rebaseline(w) \/ MatchSteps(w)
  PROVE  TraceInv'
  <1>1. \A v \in Workers : tx'[v].traced = tx[v].traced /\ tx'[v].locked = tx[v].locked
    <2> TAKE v \in Workers
    <2>1. CASE v # w BY <2>1 DEF TypeOK, List, Rebaseline, MatchSteps
    <2>2. ASSUME List(w) PROVE tx'[w].traced = tx[w].traced /\ tx'[w].locked = tx[w].locked
      BY <2>2 DEF TypeOK, TxType, List
    <2>3. ASSUME Rebaseline(w) PROVE tx'[w].traced = tx[w].traced /\ tx'[w].locked = tx[w].locked
      BY <2>3 DEF TypeOK, TxType, Rebaseline
    <2>4. ASSUME MatchSteps(w) PROVE tx'[w].traced = tx[w].traced /\ tx'[w].locked = tx[w].locked
      BY <2>4 DEF TypeOK, TxType, MatchSteps
    <2> QED BY <2>1, <2>2, <2>3, <2>4
  <1> QED BY <1>1, TraceKept DEF List, Rebaseline, MatchSteps, Uncommitted, enrollVars

LEMMA ApplyKeepsTraces ==
  ASSUME TypeOK, LockInv, TraceInv, NEW w \in Workers, NEW i \in Remaining(w),
         NEW e \in Enrollments, NEW to \in Verdicts, ApplyReply(w, i, e, to)
  PROVE  TraceInv'
  <1>1. e \notin tx[w].locked BY DEF ApplyReply, Matches, Claimable
  <1>2. Seen(w, e) = state[e] BY <1>1 DEF LockInv, StagedUnderLock, Staged, Seen
  <1>3. /\ tx'[w].locked = tx[w].locked \union {e}
        /\ CanTransition(state[e], to) => tx'[w].traced = tx[w].traced
        /\ ~CanTransition(state[e], to) => tx'[w].traced = tx[w].traced \union {e}
    <2>1. tx[w].staged \in [Enrollments -> Verdicts \union {NoState}] BY DEF TypeOK, TxType
    <2> QED BY <2>1, <1>2 DEF TypeOK, TxType, ApplyReply
  <1>4. \A v \in Workers \ {w} : tx'[v] = tx[v] BY DEF TypeOK, ApplyReply
  <1>5. UNCHANGED state BY DEF ApplyReply, Uncommitted, enrollVars
  <1>6. ~CanTransition(state[e], to) => state[e] # "waiting_reply" BY WaitingMayReply
  <1>7. TracedUnderLock' BY <1>3, <1>4 DEF TraceInv, TracedUnderLock
  <1>8. IllegalOnlyByRace' BY <1>3, <1>4, <1>5, <1>6 DEF TraceInv, IllegalOnlyByRace
  <1> QED BY <1>7, <1>8 DEF TraceInv

LEMMA SaveKeepsTraces ==
  ASSUME TypeOK, LockInv, TraceInv, NEW w \in Workers, Save(w) PROVE TraceInv'
  <1>1. tx'[w].traced = {} /\ \A v \in Workers \ {w} : tx'[v] = tx[v]
    BY DEF TypeOK, Save, IdleTx
  <1>2. \A v \in Workers \ {w} : \A e \in tx[v].traced : e \notin Staged(w)
    BY DEF LockInv, LocksExclusive, StagedUnderLock, TraceInv, TracedUnderLock
  <1>3. \A v \in Workers \ {w} : \A e \in tx[v].traced : state'[e] = state[e]
    BY <1>2 DEF Save, TypeOK, TxType
  <1>4. TracedUnderLock' BY <1>1 DEF TraceInv, TracedUnderLock
  <1>5. IllegalOnlyByRace' BY <1>1, <1>3 DEF TraceInv, IllegalOnlyByRace
  <1> QED BY <1>4, <1>5 DEF TraceInv

LEMMA EnvKeepsTraces ==
  ASSUME TypeOK, TraceInv, NEW e \in Enrollments, NEW to \in States, EnvTransition(e, to)
  PROVE  TraceInv'
  <1>1. UNCHANGED tx /\ \A w \in Workers : e \notin tx[w].traced
    BY DEF EnvTransition, RowUnlocked, TraceInv, TracedUnderLock
  <1>2. \A x \in Enrollments : x # e => state'[x] = state[x]
    BY DEF EnvTransition, TypeOK
  <1>3. \A w \in Workers : \A x \in tx[w].traced : state'[x] = state[x]
    BY <1>1, <1>2 DEF TypeOK, TxType
  <1> QED BY <1>1, <1>3 DEF TraceInv, TracedUnderLock, IllegalOnlyByRace

LEMMA TraceStep ==
  ASSUME TypeOK, LockInv, TraceInv, [Next]_vars PROVE TraceInv'
  <1> USE DEF enrollVars, gmailVars, ghostVars
  <1>1. CASE Next
    <2>1. ASSUME NEW w \in Workers, Fail(w) \/ Crash(w) PROVE TraceInv'
      <3>1. tx'[w].traced = {} /\ \A v \in Workers \ {w} : tx'[v] = tx[v]
        BY <2>1 DEF Fail, Crash, TypeOK, IdleTx
      <3> QED BY <2>1, <3>1, TraceKept DEF Fail, Crash, Uncommitted
    <2>2. ASSUME NEW w \in Workers, PollStep(w) PROVE TraceInv'
      BY <2>2, ScanKeepsTraces, ApplyKeepsTraces, SaveKeepsTraces DEF PollStep
    <2>3. ASSUME (\E m \in Refs : Arrive(m)) \/ (\E i \in DOMAIN inbox : Delete(i)) \/ Expire \/ (\E h \in pushes : Deliver(h))
                 \/ (\E h \in 0..head : Redeliver(h)) \/ Rescue \/ Clean
          PROVE  TraceInv'
      BY <2>3, TraceKept DEF Arrive, Delete, Expire, Deliver, Redeliver, Rescue, Clean
    <2>4. ASSUME RenewList \/ RenewWatch \/ RenewSave \/ RenewFail PROVE TraceInv'
      BY <2>4, TraceKept DEF RenewList, RenewWatch, RenewSave, RenewFail, RenewUnchanged
    <2> QED BY <1>1, <2>1, <2>2, <2>3, <2>4, FetchKeepsTraces, EnvKeepsTraces DEF Next
  <1>2. CASE UNCHANGED vars
    BY <1>2, TraceKept DEF vars
  <1> QED BY <1>1, <1>2

(* The benign-race path (correlate.go, the invalid-transition trace) is    *)
(* taken only because another transaction moved the enrollment, never      *)
(* because one batch matched it twice, for any number of scans.            *)
THEOREM TracesAreRaces == Spec => []IllegalOnlyByRace
  <1>1. Init => TraceInv
    BY DEF Init, TraceInv, TracedUnderLock, IllegalOnlyByRace, IdleTx
  <1>2. TypeOK /\ LockInv /\ TraceInv /\ [Next]_vars => TraceInv' BY TraceStep
  <1>3. TraceInv => IllegalOnlyByRace BY DEF TraceInv
  <1> QED BY <1>1, <1>2, <1>3, TypeCorrect, LocksInvariant, PTL DEF Spec
-----------------------------------------------------------------------------
(* What Enrollment promises, inherited through the refinement *)

(* A log that is a legal walk to its state, extended by a legal move.      *)
LEMMA WalkExtends ==
  ASSUME NEW log \in Seq(States), NEW s \in States, log # <<>>,
         \A i \in 1..(Len(log) - 1) : CanTransition(log[i], log[i+1]),
         CanTransition(log[Len(log)], s)
  PROVE  /\ Append(log, s) # <<>>
         /\ Append(log, s)[Len(Append(log, s))] = s
         /\ \A i \in 1..(Len(Append(log, s)) - 1) :
              CanTransition(Append(log, s)[i], Append(log, s)[i+1])
  <1> DEFINE n == Len(log)
             more == Append(log, s)
  <1>1. n \in Nat /\ n >= 1 OBVIOUS
  <1>2. /\ Len(more) = n + 1 /\ more[n + 1] = s
        /\ \A i \in 1..n : more[i] = log[i]
    OBVIOUS
  <1>3. more # <<>> BY <1>1, <1>2
  <1>4. \A i \in 1..n : CanTransition(more[i], more[i+1])
    <2> TAKE i \in 1..n
    <2>1. CASE i = n BY <2>1, <1>1, <1>2
    <2>2. CASE i # n
      <3>1. i \in 1..(n - 1) /\ i + 1 \in 1..n BY <2>2, <1>1
      <3> QED BY <3>1, <1>2
    <2> QED BY <2>1, <2>2
  <1>5. Len(more) - 1 = n BY <1>1, <1>2
  <1> HIDE DEF more
  <1>6. /\ more # <<>> /\ more[Len(more)] = s
        /\ \A i \in 1..(Len(more) - 1) : CanTransition(more[i], more[i+1])
    BY <1>2, <1>3, <1>4, <1>5
  <1> QED BY <1>6 DEF more

LEMMA GraphIsEnrollments ==
  \A a, b : Promise!CanTransition(a, b) <=> CanTransition(a, b)
  BY DEF Promise!CanTransition, CanTransition, Promise!LegalEdges, LegalEdges

LegalWalk(log, s) ==
  /\ log # <<>>
  /\ log[Len(log)] = s
  /\ \A i \in 1..(Len(log) - 1) : CanTransition(log[i], log[i+1])

LEMMA WalksAre == AuditIsLegalWalk <=> \A e \in Enrollments : LegalWalk(audit[e], state[e])
  BY GraphIsEnrollments DEF AuditIsLegalWalk, Promise!AuditIsLegalWalk, LegalWalk

LEMMA WalksWillBe ==
  (\A e \in Enrollments : LegalWalk(audit'[e], state'[e])) => AuditIsLegalWalk'
  BY GraphIsEnrollments DEF AuditIsLegalWalk, Promise!AuditIsLegalWalk, LegalWalk

LEMMA PromiseKeepsWalks ==
  ASSUME TypeOK, AuditIsLegalWalk, [Promise!Next]_(Promise!vars)
  PROVE  AuditIsLegalWalk'
  <1>1. \A e \in Enrollments : LegalWalk(audit[e], state[e]) BY WalksAre
  <1>2. CASE Promise!Next
    <2>1. ASSUME NEW e \in Enrollments PROVE LegalWalk(audit'[e], state'[e])
      <3>1. CASE e \in Promise!Moved
        <4>1. audit'[e] = Append(audit[e], state'[e]) BY <1>2, <3>1 DEF Promise!Next
        <4>2. CanTransition(state[e], state'[e]) /\ state'[e] \in States
          BY <1>2, <3>1, GraphIsEnrollments DEF Promise!Next, Promise!States, States
        <4>3. LegalWalk(audit[e], state[e]) /\ audit[e] \in Seq(States) BY <1>1 DEF TypeOK
        <4>4. LegalWalk(Append(audit[e], state'[e]), state'[e])
          BY <4>2, <4>3, WalkExtends DEF LegalWalk
        <4> QED BY <4>1, <4>4
      <3>2. CASE e \notin Promise!Moved
        BY <1>1, <1>2, <3>2 DEF Promise!Next, Promise!Moved
      <3> QED BY <3>1, <3>2
    <2> QED BY <2>1, WalksWillBe
  <1>3. CASE UNCHANGED Promise!vars
    BY <1>1, <1>3, WalksWillBe DEF Promise!vars
  <1> QED BY <1>2, <1>3

(* The audit log of every enrollment is a walk of the legal graph that     *)
(* ends in its committed state, whichever worker or handler wrote the rows *)
(* and whatever crashed in between (transition.go, steps 3 and 4).         *)
THEOREM AuditsAreWalks == Spec => []AuditIsLegalWalk
  <1>1. Init => AuditIsLegalWalk
    <2> SUFFICES ASSUME Init PROVE AuditIsLegalWalk OBVIOUS
    <2>1. \A e \in Enrollments : LegalWalk(audit[e], state[e])
      BY DEF Init, LegalWalk
    <2> QED BY <2>1, WalksAre
  <1>2. TypeOK /\ LockInv /\ AuditIsLegalWalk /\ [Next]_vars => AuditIsLegalWalk'
    BY StepRefines, PromiseKeepsWalks
  <1> QED BY <1>1, <1>2, TypeCorrect, LocksInvariant, PTL DEF Spec
-----------------------------------------------------------------------------
(* Finalize jobs *)

LEMMA FinalizeKept ==
  ASSUME TerminalFinalized, UNCHANGED <<state, finalize>> PROVE TerminalFinalized'
  BY DEF TerminalFinalized

LEMMA FinalizeStep ==
  ASSUME TypeOK, TerminalFinalized, [Next]_vars PROVE TerminalFinalized'
  <1> USE DEF enrollVars, gmailVars, ghostVars
  <1>1. ASSUME NEW w \in Workers, Save(w) PROVE TerminalFinalized'
    <2> SUFFICES ASSUME NEW e \in Enrollments, Terminal(state'[e])
                 PROVE  \/ e \in finalize'
                        \/ ~FinalizeWired /\ state'[e] = "reply_received"
      BY DEF TerminalFinalized
    <2>1. CASE e \notin Staged(w)
      BY <1>1, <2>1 DEF Save, TerminalFinalized, TypeOK
    <2>2. CASE e \in Staged(w)
      <3>1. state'[e] = tx[w].staged[e] BY <1>1, <2>2 DEF Save, TypeOK
      <3>2. tx[w].staged[e] \in Verdicts BY <2>2 DEF Staged, TypeOK, TxType
      <3>3. state'[e] = "reply_received"
        BY <3>1, <3>2 DEF Verdicts, Terminal, TerminalStates
      <3>4. FinalizeWired => e \in finalize'
        BY <1>1, <2>2, <3>1 DEF Save, FinalizeJobs
      <3> QED BY <3>3, <3>4
    <2> QED BY <2>1, <2>2
  <1>2. ASSUME NEW e \in Enrollments, NEW to \in States, EnvTransition(e, to)
        PROVE  TerminalFinalized'
    BY <1>2 DEF TerminalFinalized, EnvTransition, TypeOK
  <1>3. CASE Next
    <2>1. ASSUME NEW w \in Workers, Fetch(w) \/ Fail(w) \/ Crash(w) PROVE TerminalFinalized'
      BY <2>1, FinalizeKept DEF Fetch, Fail, Crash, Uncommitted
    <2>2. ASSUME NEW w \in Workers, PollStep(w) PROVE TerminalFinalized'
      <3>1. CASE List(w) \/ Rebaseline(w) \/ MatchSteps(w)
        BY <3>1, FinalizeKept DEF List, Rebaseline, MatchSteps, Uncommitted
      <3>2. CASE \E i \in Remaining(w), e \in Enrollments, to \in Verdicts :
                   ApplyReply(w, i, e, to)
        BY <3>2, FinalizeKept DEF ApplyReply, Uncommitted
      <3> QED BY <2>2, <3>1, <3>2, <1>1 DEF PollStep
    <2>3. ASSUME (\E m \in Refs : Arrive(m)) \/ (\E i \in DOMAIN inbox : Delete(i)) \/ Expire \/ (\E h \in pushes : Deliver(h))
                 \/ (\E h \in 0..head : Redeliver(h)) \/ Rescue \/ Clean
          PROVE  TerminalFinalized'
      BY <2>3, FinalizeKept DEF Arrive, Delete, Expire, Deliver, Redeliver, Rescue, Clean
    <2>4. ASSUME RenewList \/ RenewWatch \/ RenewSave \/ RenewFail PROVE TerminalFinalized'
      BY <2>4, FinalizeKept DEF RenewList, RenewWatch, RenewSave, RenewFail, RenewUnchanged
    <2> QED BY <1>3, <2>1, <2>2, <2>3, <2>4, <1>2 DEF Next
  <1>4. CASE UNCHANGED vars
    BY <1>4, FinalizeKept DEF vars
  <1> QED BY <1>3, <1>4

(* Every enrollment in a terminal state has its finalize job, committed    *)
(* with the move or before it (state.go: "Reaching one of these is what    *)
(* fires the sequences.finalize job"), whether Deps.Finalize is wired or,  *)
(* as in cmd/lecrm-api, nil: a reply alone is then left without one.       *)
THEOREM TerminalsAreFinalized == Spec => []TerminalFinalized
  <1>1. Init => TerminalFinalized
    BY InitStatesAssumption DEF Init, TerminalFinalized, Terminal
  <1>2. TypeOK /\ TerminalFinalized /\ [Next]_vars => TerminalFinalized' BY FinalizeStep
  <1> QED BY <1>1, <1>2, TypeCorrect, PTL DEF Spec
-----------------------------------------------------------------------------
(* Every id the system holds is one Gmail has issued *)

TxIssued(w) == tx[w].start <= head /\ tx[w].newHID <= head

IdsInv ==
  /\ cursor <= head
  /\ \A h \in pushes : h <= head
  /\ job.hid <= head
  /\ renew.hid <= head
  /\ \A w \in Workers : TxIssued(w)

LEMMA HeadGrows ==
  ASSUME TypeOK, [Next]_vars
  PROVE  head \in Nat /\ head' \in Nat /\ head <= head' /\ head >= 1
  <1>1. head \in Nat /\ head >= 1 BY DEF TypeOK, head
  <1>2. CASE inbox' = inbox BY <1>1, <1>2 DEF head
  <1>3. CASE \E m \in Refs : Arrive(m)
    <2>1. PICK m \in Refs : Arrive(m) BY <1>3
    <2>2. Len(inbox') = Len(inbox) + 1
      BY <2>1, RefsAssumption DEF Arrive, TypeOK
    <2> QED BY <1>1, <2>2 DEF head
  <1>4. inbox' = inbox \/ \E m \in Refs : Arrive(m)
    <2> USE DEF gmailVars, Uncommitted
    <2>1. ASSUME NEW w \in Workers, Fetch(w) \/ PollStep(w) \/ Fail(w) \/ Crash(w)
          PROVE  inbox' = inbox
      BY <2>1 DEF Fetch, PollStep, Fail, Crash, List, Rebaseline, MatchSteps, ApplyReply, Save
    <2>2. ASSUME Expire \/ (\E i \in DOMAIN inbox : Delete(i))
                 \/ (\E h \in pushes : Deliver(h)) \/ (\E h \in 0..head : Redeliver(h))
                 \/ Rescue \/ Clean
                 \/ (\E e \in Enrollments, to \in States : EnvTransition(e, to))
          PROVE  inbox' = inbox
      BY <2>2 DEF Expire, Delete, Deliver, Redeliver, Rescue, Clean, EnvTransition
    <2>3. ASSUME RenewList \/ RenewWatch \/ RenewSave \/ RenewFail PROVE inbox' = inbox
      BY <2>3 DEF RenewList, RenewWatch, RenewSave, RenewFail, RenewUnchanged
    <2>4. ASSUME UNCHANGED vars PROVE inbox' = inbox BY <2>4 DEF vars
    <2> QED BY <2>1, <2>2, <2>3, <2>4 DEF Next
  <1> QED BY <1>2, <1>3, <1>4

(* A step after which every id held is one held before, or the new head.   *)
LEMMA IdsKept ==
  ASSUME TypeOK, TypeOK', IdsInv, head \in Nat, head' \in Nat, head <= head',
         cursor' <= head, \A h \in pushes' : h <= head', job'.hid <= head,
         renew'.hid <= head,
         \A w \in Workers : tx'[w].start <= head /\ tx'[w].newHID <= head
  PROVE  IdsInv'
  <1>1. cursor' \in Nat /\ job'.hid \in Nat /\ renew'.hid \in Nat BY DEF TypeOK
  <1>2. \A w \in Workers : tx'[w].start \in Nat /\ tx'[w].newHID \in Nat
    BY DEF TypeOK, TxType
  <1>3. cursor' <= head' /\ job'.hid <= head' /\ renew'.hid <= head' BY <1>1
  <1>4. \A w \in Workers : tx'[w].start <= head' /\ tx'[w].newHID <= head' BY <1>2
  <1> QED BY <1>3, <1>4 DEF IdsInv, TxIssued

LEMMA TxIdsKept ==
  ASSUME TypeOK, IdsInv, NEW w \in Workers, \A v \in Workers \ {w} : tx'[v] = tx[v],
         tx'[w].start <= head, tx'[w].newHID <= head
  PROVE  \A v \in Workers : tx'[v].start <= head /\ tx'[v].newHID <= head
  BY DEF IdsInv, TxIssued

LEMMA OutcomeHid ==
  ASSUME TypeOK
  PROVE  /\ Retried(job).hid = job.hid
         /\ Finished(job, Retried(job)).hid = job.hid
         /\ Finished(job, [job EXCEPT !.st = "completed"]).hid = job.hid
  BY DEF TypeOK, Retried, Finished

LEMMA ScanKeepsIds ==
  ASSUME TypeOK, TypeOK', IdsInv, head \in Nat, head' \in Nat, head <= head',
         NEW w \in Workers, PollStep(w)
  PROVE  IdsInv'
  <1>1. tx[w].start \in Nat /\ tx[w].newHID \in Nat BY DEF TypeOK, TxType
  <1>2. tx[w].start <= head /\ tx[w].newHID <= head BY DEF IdsInv, TxIssued
  <1>8. \A h \in pushes : h <= head' BY DEF IdsInv, TypeOK
  <1> USE DEF gmailVars, ghostVars, Uncommitted
  <1>3. CASE List(w)
    <2>1. tx'[w].start = tx[w].start /\ tx'[w].newHID = MaxOf(tx[w].start, head)
      BY <1>3 DEF List, TypeOK, TxType
    <2>2. tx'[w].newHID <= head BY <2>1, <1>1, <1>2 DEF MaxOf
    <2>3. \A v \in Workers \ {w} : tx'[v] = tx[v] BY <1>3 DEF List, TypeOK
    <2>4. \A v \in Workers : tx'[v].start <= head /\ tx'[v].newHID <= head
      BY <2>1, <2>2, <2>3, <1>2, TxIdsKept
    <2> QED BY <1>3, <2>4, <1>8, IdsKept DEF List, IdsInv
  <1>4. CASE Rebaseline(w)
    <2>1. tx'[w].start = tx[w].start /\ tx'[w].newHID = head
      BY <1>4 DEF Rebaseline, TypeOK, TxType
    <2>2. tx'[w].newHID <= head BY <2>1
    <2>3. \A v \in Workers \ {w} : tx'[v] = tx[v] BY <1>4 DEF Rebaseline, TypeOK
    <2>4. \A v \in Workers : tx'[v].start <= head /\ tx'[v].newHID <= head
      BY <2>1, <2>2, <2>3, <1>2, TxIdsKept
    <2> QED BY <1>4, <2>4, <1>8, IdsKept DEF Rebaseline, IdsInv
  <1>5. CASE MatchSteps(w)
    <2> DEFINE S == {e \in Enrollments : state[e] = "waiting_reply"}
    <2>0. tx' = [tx EXCEPT ![w].waiting = S, ![w].pc = "apply"] BY <1>5 DEF MatchSteps
    <2> HIDE DEF S
    <2>1. tx'[w].start = tx[w].start /\ tx'[w].newHID = tx[w].newHID
      BY <2>0 DEF TypeOK, TxType
    <2>3. \A v \in Workers \ {w} : tx'[v] = tx[v] BY <1>5 DEF MatchSteps, TypeOK
    <2>4. \A v \in Workers : tx'[v].start <= head /\ tx'[v].newHID <= head
      BY <2>1, <2>3, <1>2, TxIdsKept
    <2> QED BY <1>5, <2>4, <1>8, IdsKept DEF MatchSteps, IdsInv
  <1>6. CASE \E i \in Remaining(w), e \in Enrollments, to \in Verdicts : ApplyReply(w, i, e, to)
    <2>1. PICK i \in Remaining(w), e \in Enrollments, to \in Verdicts : ApplyReply(w, i, e, to)
      BY <1>6
    <2>2. /\ tx'[w].start = tx[w].start /\ tx'[w].newHID = tx[w].newHID
          /\ \A v \in Workers \ {w} : tx'[v] = tx[v]
      BY <2>1, ApplyKeepsScan
    <2>4. \A v \in Workers : tx'[v].start <= head /\ tx'[v].newHID <= head
      BY <2>2, <1>2, TxIdsKept
    <2> QED BY <2>1, <2>4, <1>8, IdsKept DEF ApplyReply, IdsInv
  <1>7. CASE Save(w)
    <2>1. tx'[w].start <= head /\ tx'[w].newHID <= head
      BY <1>7 DEF Save, TypeOK, IdleTx
    <2>3. \A v \in Workers \ {w} : tx'[v] = tx[v] BY <1>7 DEF Save, TypeOK
    <2>4. \A v \in Workers : tx'[v].start <= head /\ tx'[v].newHID <= head
      BY <2>1, <2>3, TxIdsKept
    <2>5. cursor' <= head BY <1>7, <1>2 DEF Save, NewCursor, IdsInv
    <2>6. job'.hid <= head BY <1>7, OutcomeHid DEF Save, IdsInv
    <2> QED BY <1>7, <2>4, <2>5, <2>6, <1>8, IdsKept DEF Save, IdsInv
  <1> QED BY <1>3, <1>4, <1>5, <1>6, <1>7 DEF PollStep

LEMMA JobKeepsIds ==
  ASSUME TypeOK, TypeOK', IdsInv, head \in Nat, head' \in Nat, head <= head',
         \/ Rescue \/ Clean \/ (\E h \in pushes : Deliver(h))
         \/ (\E h \in 0..head : Redeliver(h))
  PROVE  IdsInv'
  <1>1. \A h : h <= head /\ EnqueuePollMailbox(h) => job'.hid <= head
    BY DEF EnqueuePollMailbox, IdsInv
  <1>2. job'.hid <= head
    <2>1. CASE Rescue BY <2>1, OutcomeHid DEF Rescue, IdsInv
    <2>2. CASE Clean BY <2>2 DEF Clean
    <2>3. CASE \E h \in pushes : Deliver(h) BY <2>3, <1>1 DEF Deliver, IdsInv
    <2>4. CASE \E h \in 0..head : Redeliver(h) BY <2>4, <1>1 DEF Redeliver
    <2> QED BY <2>1, <2>2, <2>3, <2>4
  <1>3. UNCHANGED <<inbox, tx, renew, cursor>> /\ pushes' \subseteq pushes
    BY DEF Rescue, Clean, Deliver, Redeliver, gmailVars
  <1>4. \A h \in pushes' : h <= head' BY <1>3 DEF IdsInv, TypeOK, head
  <1>5. \A w \in Workers : tx'[w].start <= head /\ tx'[w].newHID <= head
    BY <1>3 DEF IdsInv, TxIssued
  <1> QED BY <1>2, <1>3, <1>4, <1>5, IdsKept DEF IdsInv

LEMMA IdsStep ==
  ASSUME TypeOK, TypeOK', IdsInv, [Next]_vars PROVE IdsInv'
  <1>0. head \in Nat /\ head' \in Nat /\ head <= head' /\ head >= 1 BY HeadGrows
  <1> USE DEF gmailVars, ghostVars
  <1>a. \A h \in pushes : h <= head' BY <1>0 DEF IdsInv, TypeOK
  <1>b. \A w \in Workers : tx[w].start <= head /\ tx[w].newHID <= head
    BY DEF IdsInv, TxIssued
  <1>1. ASSUME NEW w \in Workers, Fetch(w) PROVE IdsInv'
    <2>1. tx'[w].start \in {cursor, job.hid} /\ tx'[w].newHID = 0
      BY <1>1 DEF Fetch, TypeOK, IdleTx
    <2>2. tx'[w].start <= head /\ tx'[w].newHID <= head BY <2>1, <1>0 DEF IdsInv
    <2>3. \A v \in Workers \ {w} : tx'[v] = tx[v] BY <1>1 DEF Fetch, TypeOK
    <2>4. \A v \in Workers : tx'[v].start <= head /\ tx'[v].newHID <= head
      BY <2>2, <2>3, TxIdsKept
    <2>5. job'.hid = job.hid BY <1>1 DEF Fetch, TypeOK
    <2> QED BY <1>1, <2>4, <2>5, <1>0, <1>a, IdsKept DEF Fetch, IdsInv
  <1>2. ASSUME NEW w \in Workers, Fail(w) \/ Crash(w) PROVE IdsInv'
    <2>1. tx'[w].start = 0 /\ tx'[w].newHID = 0 /\ \A v \in Workers \ {w} : tx'[v] = tx[v]
      BY <1>2 DEF Fail, Crash, TypeOK, IdleTx
    <2>2. tx'[w].start <= head /\ tx'[w].newHID <= head BY <2>1, <1>0
    <2>4. \A v \in Workers : tx'[v].start <= head /\ tx'[v].newHID <= head
      BY <2>1, <2>2, TxIdsKept
    <2>5. job'.hid = job.hid BY <1>2, OutcomeHid DEF Fail, Crash
    <2> QED BY <1>2, <2>4, <2>5, <1>0, <1>a, IdsKept DEF Fail, Crash, Uncommitted, IdsInv
  <1>3. ASSUME NEW m \in Refs, Arrive(m) PROVE IdsInv'
    <2>1. head' = head + 1 BY <1>3, RefsAssumption DEF Arrive, head, TypeOK
    <2>2. \A h \in pushes' : h <= head' BY <1>3, <1>a, <2>1, <1>0 DEF Arrive
    <2> QED BY <1>3, <2>2, <1>0, <1>b, IdsKept DEF Arrive, IdsInv
  <1>4. ASSUME \/ Expire \/ UNCHANGED vars \/ \E i \in DOMAIN inbox : Delete(i)
               \/ \E e \in Enrollments, to \in States : EnvTransition(e, to)
        PROVE  IdsInv'
    <2>1. UNCHANGED <<pushes, job, tx, renew, cursor>>
      BY <1>4 DEF Expire, Delete, EnvTransition, vars
    <2> QED BY <2>1, <1>0, <1>a, <1>b, IdsKept DEF IdsInv
  <1>5. ASSUME RenewList \/ RenewWatch \/ RenewSave \/ RenewFail PROVE IdsInv'
    <2>1. UNCHANGED <<pushes, job, tx>>
      BY <1>5 DEF RenewList, RenewWatch, RenewSave, RenewFail, RenewUnchanged
    <2>2. renew'.hid \in {0, head, renew.hid}
      <3>1. CASE RenewList BY <3>1 DEF RenewList
      <3>2. CASE RenewWatch BY <3>2 DEF RenewWatch, TypeOK
      <3>3. CASE RenewSave \/ RenewFail BY <3>3 DEF RenewSave, RenewFail, IdleRenew
      <3> QED BY <1>5, <3>1, <3>2, <3>3
    <2>3. cursor' \in {cursor, renew.hid}
      BY <1>5 DEF RenewList, RenewWatch, RenewSave, RenewFail
    <2>4. renew'.hid <= head /\ cursor' <= head BY <2>2, <2>3, <1>0 DEF IdsInv
    <2> QED BY <2>1, <2>4, <1>0, <1>a, <1>b, IdsKept DEF IdsInv
  <1> QED BY <1>0, <1>1, <1>2, <1>3, <1>4, <1>5, ScanKeepsIds, JobKeepsIds DEF Next

(* The cursor never runs ahead of the mailbox, whatever stale job argument *)
(* or watch response it was taken from: no later reply is invisible to the *)
(* scan (worker.go 121-201 and 308, where saveCursor is given its id).     *)
THEOREM CursorIsIssued == Spec => []CursorWithinMailbox
  <1>1. Init => IdsInv
    BY InitCursorsAssumption
       DEF Init, IdsInv, TxIssued, head, IdleTx, IdleRenew
  <1>2. TypeOK /\ TypeOK' /\ IdsInv /\ [Next]_vars => IdsInv' BY IdsStep
  <1>3. IdsInv => CursorWithinMailbox BY DEF IdsInv, CursorWithinMailbox
  <1> QED BY <1>1, <1>2, <1>3, TypeCorrect, PTL DEF Spec
=============================================================================
