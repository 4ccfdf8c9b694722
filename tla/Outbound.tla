------------------------------ MODULE Outbound -------------------------------
(* Mail that leaves: the e-mail service (internal/email), the provider's    *)
(* webhook that fills the suppression list, and the sequence engine's gate  *)
(* before a send and bounce policy after one (internal/sequences).  The     *)
(* provider, and the send and bounce handlers that call the gate and the    *)
(* policy, are outside the repository.                                      *)
EXTENDS Integers, FiniteSets, Sequences

CONSTANTS
  Messages,    \* requests to POST /emails, each repeated by its caller until answered
  To,          \* message -> its recipients
  ProviderEvents,      \* events the provider posts, each again until acknowledged
  About,       \* event -> [kind, email]
  Contacts,    \* addresses of enrolled contacts
  Runners,     \* sequence transactions at work at once
  SoftBounceSuppressThreshold,
  MonthlySendCap,
  MaxWindows,  \* throttle windows in a behaviour
  MaxOutbound  \* calls in a behaviour

ASSUME OutboundAssumption ==
  /\ SoftBounceSuppressThreshold \in Nat \ {0}
  /\ MonthlySendCap \in Nat /\ MaxWindows \in Nat /\ MaxOutbound \in Nat
  /\ Messages \cap Runners = {}

VARIABLES
  sending,     \* message -> the attempt at it: [pc, allowed, before]
  mails,       \* what the provider accepted: [of, n, to, before]
  losses,      \* ghost: message -> accepted calls its caller was not told of
  ingesting,   \* event -> where its handler is
  suppression, \* email_suppression
  told,        \* ghost: addresses whose suppressing event was acknowledged
  attempts,    \* contact -> its sent steps in the order of sent_at: [window, result]
  running,     \* runner -> its transaction
  window,      \* the throttle window the clock is in
  raced,       \* ghost: contacts two transactions applied a bounce to at once
  outboundLeft

sendVars == <<sending, losses>>
sequenceVars == <<attempts, running, window, raced>>
outboundVars == <<sendVars, mails, ingesting, suppression, told, sequenceVars, outboundLeft>>

AtRest == [pc |-> "idle"]

OutboundInit ==
  /\ sending = [m \in Messages |-> AtRest]
  /\ mails = {}
  /\ losses = [m \in Messages |-> 0]
  /\ ingesting = [e \in ProviderEvents |-> "idle"]
  /\ suppression = {} /\ told = {}
  /\ attempts = [c \in Contacts |-> <<>>]
  /\ running = [r \in Runners |-> AtRest]
  /\ window = 1 /\ raced = {}
  /\ outboundLeft \in 0..MaxOutbound

Calls == outboundLeft > 0 /\ outboundLeft' = outboundLeft - 1

-----------------------------------------------------------------------------
(* Service.Send.  The caller sends again after any error; the alarm, which  *)
(* main.go does not wire, would only be one more of them.                   *)

Send(m) ==
  /\ sending[m].pc = "idle" /\ Calls
  /\ sending' = [sending EXCEPT ![m] = [pc |-> "checking", allowed |-> {}, before |-> told]]
  /\ UNCHANGED <<mails, losses, ingesting, suppression, told, sequenceVars>>

Suppressed(m) ==
  /\ sending[m].pc = "checking"
  /\ LET allowed == To[m] \ suppression IN
       sending' = [sending EXCEPT ![m].allowed = allowed,
                                  ![m].pc = IF allowed = {} THEN "done" ELSE "calling"]
  /\ UNCHANGED <<mails, losses, ingesting, suppression, told, sequenceVars, outboundLeft>>

Accepts(of, to, before) ==
  mails' = mails \cup {[of |-> of, n |-> Cardinality(mails), to |-> to, before |-> before]}

(* Faulty variant: the client repeats a call whose answer it did not get.   *)
ProviderRepeats(m) ==
  /\ sending[m].pc = "calling"
  /\ Accepts(m, sending[m].allowed, sending[m].before)
  /\ sending' = [sending EXCEPT ![m].pc = "accepted"] \/ UNCHANGED sending
  /\ Cardinality(mails) < 3
  /\ UNCHANGED <<losses, ingesting, suppression, told, sequenceVars, outboundLeft>>
ProviderSend(m) ==
  /\ sending[m].pc = "calling"
  /\ Accepts(m, sending[m].allowed, sending[m].before)
  /\ \/ sending' = [sending EXCEPT ![m].pc = "accepted"] /\ UNCHANGED losses
     \/ /\ sending' = [sending EXCEPT ![m] = AtRest]                  \* the answer is lost
        /\ losses' = [losses EXCEPT ![m] = @ + 1]
  /\ UNCHANGED <<ingesting, suppression, told, sequenceVars, outboundLeft>>

Requested(m) ==
  /\ sending[m].pc = "accepted"
  /\ sending' = [sending EXCEPT ![m].pc = "done"]
  /\ UNCHANGED <<mails, losses, ingesting, suppression, told, sequenceVars, outboundLeft>>

(* A query, the provider or the audit write fails, or the process ends.     *)
SendFails(m) ==
  /\ sending[m].pc \in {"checking", "calling", "accepted"}
  /\ sending' = [sending EXCEPT ![m] = AtRest]
  /\ losses' = [losses EXCEPT ![m] = IF sending[m].pc = "accepted" THEN @ + 1 ELSE @]
  /\ UNCHANGED <<mails, ingesting, suppression, told, sequenceVars, outboundLeft>>

-----------------------------------------------------------------------------
(* Service.IngestEvent: statements of their own, in this order.             *)

SuppressionReason(e) == About[e].kind \in {"hardBounce", "blocked", "spam", "unsubscribed"}

handleWebhook(e) ==
  /\ ingesting[e] = "idle" /\ Calls
  /\ ingesting' = [ingesting EXCEPT ![e] = "verified"]
  /\ UNCHANGED <<sendVars, mails, suppression, told, sequenceVars>>

(* Faulty variant: the error of the upsert is logged.                       *)
UpsertLogged(e) ==
  /\ ingesting[e] = "verified"
  /\ ingesting' = [ingesting EXCEPT ![e] = "upserted"]
  /\ \/ suppression' = suppression \cup (IF SuppressionReason(e) THEN {About[e].email} ELSE {})
     \/ UNCHANGED suppression
  /\ UNCHANGED <<sendVars, mails, told, sequenceVars, outboundLeft>>
Upsert(e) ==
  /\ ingesting[e] = "verified"
  /\ ingesting' = [ingesting EXCEPT ![e] = "upserted"]
  /\ suppression' = suppression \cup (IF SuppressionReason(e) THEN {About[e].email} ELSE {})
  /\ UNCHANGED <<sendVars, mails, told, sequenceVars, outboundLeft>>

(* The audit row, the alarm and the 200.                                    *)
Acknowledged(e) ==
  /\ ingesting[e] = "upserted"
  /\ ingesting' = [ingesting EXCEPT ![e] = "idle"]
  /\ told' = told \cup (IF SuppressionReason(e) THEN {About[e].email} ELSE {})
  /\ UNCHANGED <<sendVars, mails, suppression, sequenceVars, outboundLeft>>

IngestFails(e) ==
  /\ ingesting[e] # "idle"
  /\ ingesting' = [ingesting EXCEPT ![e] = "idle"]
  /\ UNCHANGED <<sendVars, mails, suppression, told, sequenceVars, outboundLeft>>

-----------------------------------------------------------------------------
(* Sequences: a transaction per send step and per bounce.                   *)

SentThisMonth == Cardinality(UNION {{<<c, i>> : i \in DOMAIN attempts[c]} : c \in Contacts})
Throttled(c) == \E i \in DOMAIN attempts[c] : attempts[c][i].window = window

Allowed(c) ==
  /\ c \notin suppression
  /\ MonthlySendCap > 0 => SentThisMonth < MonthlySendCap
  /\ ~Throttled(c)

(* The other verdicts write nothing.                                        *)
Preflight(r) ==
  /\ running[r].pc = "idle" /\ Calls
  /\ \E c \in {x \in Contacts : Allowed(x)} :
       running' = [running EXCEPT ![r] = [pc |-> "sending", contact |-> c, before |-> told]]
  /\ UNCHANGED <<sendVars, mails, ingesting, suppression, told, attempts, window, raced>>

(* The provider takes it, sent_at is set, and the transaction commits.      *)
SendStep(r) ==
  /\ running[r].pc = "sending"
  /\ LET c == running[r].contact IN
       /\ Accepts(r, {c}, running[r].before)
       /\ attempts' = [attempts EXCEPT ![c] = Append(@, [window |-> window, result |-> "sent"])]
  /\ running' = [running EXCEPT ![r] = AtRest]
  /\ UNCHANGED <<sendVars, ingesting, suppression, told, window, raced, outboundLeft>>

ConsecutiveSoftBounces(steps) ==
  LET hard == {i \in DOMAIN steps : steps[i].result # "soft"} IN
  Len(steps) - (IF hard = {} THEN 0 ELSE CHOOSE i \in hard : \A j \in hard : j <= i)

(* Faulty variant: the run has to be longer than the threshold.             *)
EvaluateLate(kind, run) == kind # "soft" \/ run > SoftBounceSuppressThreshold
EvaluateBounce(kind, run) == kind # "soft" \/ run >= SoftBounceSuppressThreshold

(* The bounce is recorded and judged: the count sees this transaction's row *)
(* and the committed ones.                                                  *)
ApplyBounce(r) ==
  /\ running[r].pc = "idle" /\ Calls
  /\ \E c \in Contacts : \E i \in DOMAIN attempts[c], kind \in {"soft", "hard", "complaint"} :
       LET others == {o \in Runners : running[o].pc = "bouncing" /\ running[o].contact = c}
           steps == [attempts[c] EXCEPT ![i].result = kind]
       IN /\ attempts[c][i].result = "sent"
          /\ \A o \in others : running[o].step # i               \* the row is locked
          /\ running' = [running EXCEPT ![r] =
               [pc |-> "bouncing", contact |-> c, step |-> i, kind |-> kind,
                suppress |-> EvaluateBounce(kind, ConsecutiveSoftBounces(steps))]]
          /\ raced' = IF others = {} THEN raced ELSE raced \cup {c}
  /\ UNCHANGED <<sendVars, mails, ingesting, suppression, told, attempts, window>>

BounceCommits(r) ==
  /\ running[r].pc = "bouncing"
  /\ LET q == running[r] IN
       /\ attempts' = [attempts EXCEPT ![q.contact][q.step].result = q.kind]
       /\ suppression' = suppression \cup (IF q.suppress THEN {q.contact} ELSE {})
  /\ running' = [running EXCEPT ![r] = AtRest]
  /\ UNCHANGED <<sendVars, mails, ingesting, told, window, raced, outboundLeft>>

(* runInTx rolls back on every other path.                                  *)
StepRollsBack(r) ==
  /\ running[r].pc # "idle"
  /\ running' = [running EXCEPT ![r] = AtRest]
  /\ UNCHANGED <<sendVars, mails, ingesting, suppression, told, attempts, window, raced, outboundLeft>>

WindowPasses ==
  /\ window < MaxWindows /\ outboundLeft > 0 /\ window' = window + 1
  /\ UNCHANGED <<sendVars, mails, ingesting, suppression, told, attempts, running, raced, outboundLeft>>

OutboundNext ==
  \/ WindowPasses
  \/ \E m \in Messages : Send(m) \/ Suppressed(m) \/ ProviderSend(m) \/ Requested(m) \/ SendFails(m)
  \/ \E e \in ProviderEvents : handleWebhook(e) \/ Upsert(e) \/ Acknowledged(e) \/ IngestFails(e)
  \/ \E r \in Runners :
       Preflight(r) \/ SendStep(r) \/ ApplyBounce(r) \/ BounceCommits(r) \/ StepRollsBack(r)

OutboundSpec == OutboundInit /\ [][OutboundNext]_outboundVars

-----------------------------------------------------------------------------
(* PROPERTY once the webhook has answered 200 to an event that suppresses an *)
(* address, no attempt that begins later sends to it, neither a request nor *)
(* a sequence step (service.go 187-201, 247-255; preflight.go 76-95).       *)
HonoursAcknowledged == \A x \in mails : x.to \cap x.before = {}

(* PROPERTY a message is accepted again only after its caller was not told  *)
(* of an earlier acceptance: a lost answer, a failed audit write or a crash  *)
(* (service.go 219-234).                                                    *)
TwiceOnlyAfterALoss ==
  \A m \in Messages : Cardinality({x \in mails : x.of = m}) <= losses[m] + 1

(* PROPERTY "Suppresses only after the consecutive threshold" (bounce.go    *)
(* 38-39): an address whose last steps, as many as the threshold, all       *)
(* bounced softly is suppressed, unless two of its bounces were applied at  *)
(* once, each without the other's row.                                      *)
SoftRunSuppresses ==
  \A c \in Contacts :
    ConsecutiveSoftBounces(attempts[c]) >= SoftBounceSuppressThreshold => c \in suppression \cup raced
=============================================================================
