--------------------------- MODULE OutboundProofs ----------------------------
(***************************************************************************)
(* Proofs about Outbound for every set of messages, events, contacts and   *)
(* runners, and every threshold and cap: an acknowledged suppression is    *)
(* honoured, a message is accepted twice only after a lost answer, and a   *)
(* run of soft bounces suppresses.                                         *)
(***************************************************************************)
EXTENDS Outbound, FiniteSetTheorems, TLAPS

Addresses == Contacts \cup (UNION {To[m] : m \in Messages}) \cup {About[e].email : e \in ProviderEvents}

Idle == [pc : {"idle"}]
Attempt == [pc : {"checking", "calling", "accepted", "done"},
            allowed : SUBSET Addresses, before : SUBSET Addresses]
Mail == [of : Messages \cup Runners, n : Nat, to : SUBSET Addresses, before : SUBSET Addresses]
BounceKinds == {"soft", "hard", "complaint"}
Step == [window : Nat, result : {"sent", "soft", "hard", "complaint"}]
SendingStep == [pc : {"sending"}, contact : Contacts, before : SUBSET Addresses]
Bouncing == [pc : {"bouncing"}, contact : Contacts, step : Nat,
             kind : BounceKinds, suppress : BOOLEAN]

TypeOK ==
  /\ sending \in [Messages -> Idle \cup Attempt]
  /\ mails \subseteq Mail /\ IsFiniteSet(mails)
  /\ losses \in [Messages -> Nat]
  /\ ingesting \in [ProviderEvents -> {"idle", "verified", "upserted"}]
  /\ suppression \subseteq Addresses /\ told \subseteq Addresses /\ raced \subseteq Contacts
  /\ attempts \in [Contacts -> Seq(Step)]
  /\ running \in [Runners -> Idle \cup SendingStep \cup Bouncing]
  /\ \A r \in Runners : running[r].pc = "bouncing" =>
       running[r].step \in DOMAIN attempts[running[r].contact]
  /\ window \in Nat /\ outboundLeft \in Nat

-----------------------------------------------------------------------------
(* The inductive invariant *)

(* What has been acknowledged, or is about to be, is in the list.           *)
ToldIsListed ==
  /\ told \subseteq suppression
  /\ \A e \in ProviderEvents :
       ingesting[e] = "upserted" /\ SuppressionReason(e) => About[e].email \in suppression

(* What a send knew when it began is no address it is about to use.         *)
SendsHonour ==
  /\ \A m \in Messages :
       /\ sending[m].pc = "checking" => sending[m].before \subseteq told
       /\ sending[m].pc = "calling" => sending[m].allowed \cap sending[m].before = {}
  /\ \A r \in Runners : running[r].pc = "sending" => running[r].contact \notin running[r].before

(* Acceptances are losses, but for one of which the caller will be told.    *)
Accepted(m) == {x \in mails : x.of = m}
LossesCounted ==
  \A m \in Messages :
    Cardinality(Accepted(m)) <=
      losses[m] + (IF sending[m].pc \in {"accepted", "done"} THEN 1 ELSE 0)

(* Of a contact that was not raced one bounce is under way, and it has      *)
(* judged the steps as they will be when it commits.                        *)
Marked(steps, i, kind) == [steps EXCEPT ![i].result = kind]
WithBounce(steps, q) == Marked(steps[q.contact], q.step, q.kind)
BouncesJudged ==
  \A r \in Runners : running[r].pc = "bouncing" /\ running[r].contact \notin raced =>
    /\ \A o \in Runners : running[o].pc = "bouncing" /\ running[o].contact = running[r].contact => o = r
    /\ ConsecutiveSoftBounces(WithBounce(attempts, running[r])) >= SoftBounceSuppressThreshold =>
         running[r].suppress

OutboundInv ==
  /\ ToldIsListed /\ SendsHonour /\ HonoursAcknowledged
  /\ LossesCounted
  /\ BouncesJudged /\ SoftRunSuppresses

-----------------------------------------------------------------------------
(* Type correctness *)

LEMMA AllAreAddresses ==
  /\ \A m \in Messages : To[m] \subseteq Addresses
  /\ \A e \in ProviderEvents : About[e].email \in Addresses
  /\ Contacts \subseteq Addresses
  BY DEF Addresses

LEMMA SendingFields ==
  ASSUME TypeOK, NEW m \in Messages, sending[m].pc # "idle"
  PROVE  sending[m] \in Attempt
  BY DEF TypeOK, Idle
LEMMA RunningFields ==
  ASSUME TypeOK, NEW r \in Runners
  PROVE  /\ running[r].pc \in {"idle", "sending", "bouncing"}
         /\ running[r].pc = "sending" => running[r] \in SendingStep
         /\ running[r].pc = "bouncing" => running[r] \in Bouncing
  BY DEF TypeOK, Idle, SendingStep, Bouncing

(* What each change of an attempt does.                                     *)
Moved(q, p) == [q EXCEPT !.pc = p]
LEMMA AttemptMoves ==
  ASSUME NEW q \in Attempt, NEW p \in {"checking", "calling", "accepted", "done"}
  PROVE  /\ Moved(q, p) \in Attempt /\ Moved(q, p).pc = p
         /\ Moved(q, p).allowed = q.allowed /\ Moved(q, p).before = q.before
  BY DEF Attempt, Moved

(* The mails after an acceptance.                                           *)
LEMMA AcceptsOne ==
  ASSUME mails \subseteq Mail, IsFiniteSet(mails), NEW of \in Messages \cup Runners,
         NEW to \in SUBSET Addresses, NEW before \in SUBSET Addresses, Accepts(of, to, before)
  PROVE  /\ mails' \subseteq Mail /\ IsFiniteSet(mails')
         /\ \E x \in Mail : mails' = mails \cup {x} /\ x.of = of /\ x.to = to /\ x.before = before
<1>1. Cardinality(mails) \in Nat
  BY FS_CardinalityType
<1>2. [of |-> of, n |-> Cardinality(mails), to |-> to, before |-> before] \in Mail
  BY <1>1 DEF Mail
<1>3. QED
  BY <1>2, FS_AddElement DEF Accepts

LEMMA InitTypeOK == OutboundInit => TypeOK
<1> SUFFICES ASSUME OutboundInit PROVE TypeOK
  OBVIOUS
<1>1. AtRest \in Idle /\ AtRest.pc = "idle"
  BY DEF AtRest, Idle
<1>2. IsFiniteSet({})
  BY FS_EmptySet
<1>3. <<>> \in Seq(Step)
  OBVIOUS
<1>4. QED
  BY <1>1, <1>2, <1>3, OutboundAssumption DEF OutboundInit, TypeOK

(* The parts of the state a step leaves alone keep their types.             *)
SendTypes ==
  /\ sending \in [Messages -> Idle \cup Attempt]
  /\ mails \subseteq Mail /\ IsFiniteSet(mails)
  /\ losses \in [Messages -> Nat]
WebhookTypes ==
  /\ ingesting \in [ProviderEvents -> {"idle", "verified", "upserted"}]
  /\ suppression \subseteq Addresses /\ told \subseteq Addresses
SequenceTypes ==
  /\ raced \subseteq Contacts
  /\ attempts \in [Contacts -> Seq(Step)]
  /\ running \in [Runners -> Idle \cup SendingStep \cup Bouncing]
  /\ \A r \in Runners : running[r].pc = "bouncing" =>
       running[r].step \in DOMAIN attempts[running[r].contact]
  /\ window \in Nat

LEMMA TypeParts == TypeOK <=> SendTypes /\ WebhookTypes /\ SequenceTypes /\ outboundLeft \in Nat
  BY DEF TypeOK, SendTypes, WebhookTypes, SequenceTypes

LEMMA SendTypesKept ==
  ASSUME TypeOK, NEW m \in Messages,
         Send(m) \/ Suppressed(m) \/ ProviderSend(m) \/ Requested(m) \/ SendFails(m)
  PROVE  SendTypes'
<1>0. AtRest \in Idle
  BY DEF AtRest, Idle
<1>1. CASE Send(m)
  <2>1. [pc |-> "checking", allowed |-> {}, before |-> told] \in Attempt
    BY DEF Attempt, TypeOK
  <2>2. QED
    BY <1>1, <2>1 DEF Send, TypeOK, SendTypes
<1>2. CASE Suppressed(m)
  <2>1. sending[m] \in Attempt
    BY <1>2, SendingFields DEF Suppressed
  <2>2. To[m] \ suppression \in SUBSET Addresses
    BY AllAreAddresses
  <2>3. sending' \in [Messages -> Idle \cup Attempt]
    BY <1>2, <2>1, <2>2 DEF Suppressed, TypeOK, Attempt
  <2>4. QED
    BY <1>2, <2>3 DEF Suppressed, TypeOK, SendTypes
<1>3. CASE ProviderSend(m)
  <2>1. sending[m] \in Attempt
    BY <1>3, SendingFields DEF ProviderSend
  <2>2. mails' \subseteq Mail /\ IsFiniteSet(mails')
    <3>1. /\ sending[m].allowed \in SUBSET Addresses /\ sending[m].before \in SUBSET Addresses
          /\ Accepts(m, sending[m].allowed, sending[m].before)
      BY <1>3, <2>1 DEF ProviderSend, Attempt
    <3>2. mails \subseteq Mail /\ IsFiniteSet(mails) /\ m \in Messages \cup Runners
      BY DEF TypeOK
    <3>3. QED
      BY <3>1, <3>2, AcceptsOne
  <2>3. sending' \in [Messages -> Idle \cup Attempt]
    <3>1. \/ sending' = [sending EXCEPT ![m] = Moved(sending[m], "accepted")]
          \/ sending' = [sending EXCEPT ![m] = AtRest]
      BY <1>3 DEF ProviderSend, Moved
    <3>2. QED
      BY <1>0, <2>1, <3>1, AttemptMoves DEF TypeOK
  <2>4. losses' \in [Messages -> Nat]
    <3>1. losses' = losses \/ losses' = [losses EXCEPT ![m] = @ + 1]
      BY <1>3 DEF ProviderSend
    <3>2. QED
      BY <3>1 DEF TypeOK
  <2>5. QED
    BY <2>2, <2>3, <2>4 DEF SendTypes
<1>4. CASE Requested(m)
  <2>1. sending[m] \in Attempt
    BY <1>4, SendingFields DEF Requested
  <2>2. sending' \in [Messages -> Idle \cup Attempt]
    <3>1. sending' = [sending EXCEPT ![m] = Moved(sending[m], "done")]
      BY <1>4 DEF Requested, Moved
    <3>2. QED
      BY <2>1, <3>1, AttemptMoves DEF TypeOK
  <2>3. QED
    BY <1>4, <2>2 DEF Requested, TypeOK, SendTypes
<1>5. CASE SendFails(m)
  BY <1>0, <1>5 DEF SendFails, TypeOK, SendTypes
<1>6. QED
  BY <1>1, <1>2, <1>3, <1>4, <1>5

LEMMA WebhookTypesKept ==
  ASSUME TypeOK, NEW e \in ProviderEvents,
         handleWebhook(e) \/ Upsert(e) \/ Acknowledged(e) \/ IngestFails(e)
  PROVE  WebhookTypes'
<1> DEFINE listed == IF SuppressionReason(e) THEN {About[e].email} ELSE {}
<1>1. listed \subseteq Addresses
  BY AllAreAddresses
<1>2. suppression' = suppression \/ suppression' = suppression \cup listed
  BY DEF handleWebhook, Upsert, Acknowledged, IngestFails
<1>3. told' = told \/ told' = told \cup listed
  BY DEF handleWebhook, Upsert, Acknowledged, IngestFails
<1>4. ingesting' \in [ProviderEvents -> {"idle", "verified", "upserted"}]
  BY DEF handleWebhook, Upsert, Acknowledged, IngestFails, TypeOK
<1> HIDE DEF listed
<1>5. QED
  BY <1>1, <1>2, <1>3, <1>4 DEF TypeOK, WebhookTypes

(* The steps after one of them has a result.                                *)
LEMMA MarkedSteps ==
  ASSUME NEW steps \in Seq(Step), NEW i \in DOMAIN steps, NEW kind \in BounceKinds
  PROVE  /\ Marked(steps, i, kind) \in Seq(Step)
         /\ Len(Marked(steps, i, kind)) = Len(steps)
         /\ DOMAIN Marked(steps, i, kind) = DOMAIN steps
         /\ \A j \in DOMAIN steps :
              Marked(steps, i, kind)[j].result = IF j = i THEN kind ELSE steps[j].result
<1> DEFINE marked == Marked(steps, i, kind)
<1>1. steps[i] \in Step /\ DOMAIN steps = 1..Len(steps) /\ Len(steps) \in Nat
  OBVIOUS
<1>2. [steps[i] EXCEPT !.result = kind] \in Step /\ [steps[i] EXCEPT !.result = kind].result = kind
  BY <1>1 DEF Step, BounceKinds
<1>3. marked = [steps EXCEPT ![i] = [steps[i] EXCEPT !.result = kind]]
  BY DEF Marked
<1> HIDE DEF marked
<1>4. marked \in [1..Len(steps) -> Step]
  BY <1>1, <1>2, <1>3
<1>5. marked \in Seq(Step) /\ Len(marked) = Len(steps)
  BY <1>1, <1>4
<1>6. \A j \in DOMAIN steps : marked[j].result = IF j = i THEN kind ELSE steps[j].result
  BY <1>1, <1>2, <1>3
<1>7. QED
  BY <1>1, <1>5, <1>6 DEF marked

LEMMA SequenceTypesKept ==
  ASSUME TypeOK, NEW r \in Runners,
         Preflight(r) \/ SendStep(r) \/ ApplyBounce(r) \/ BounceCommits(r) \/ StepRollsBack(r)
  PROVE  SequenceTypes'
<1>0. AtRest \in Idle /\ AtRest.pc = "idle"
  BY DEF AtRest, Idle
<1>1. CASE Preflight(r)
  <2>1. PICK c \in Contacts :
          running' = [running EXCEPT ![r] = [pc |-> "sending", contact |-> c, before |-> told]]
    BY <1>1 DEF Preflight
  <2>2. [pc |-> "sending", contact |-> c, before |-> told] \in SendingStep
    BY DEF TypeOK, SendingStep
  <2>3. UNCHANGED <<raced, attempts, window>>
    BY <1>1 DEF Preflight
  <2>4. QED
    BY <2>1, <2>2, <2>3 DEF TypeOK, SequenceTypes, SendingStep
<1>2. CASE SendStep(r)
  <2> DEFINE c == running[r].contact
             s == [window |-> window, result |-> "sent"]
  <2>1. c \in Contacts /\ s \in Step /\ attempts[c] \in Seq(Step)
    BY <1>2, RunningFields DEF SendStep, SendingStep, TypeOK, Step
  <2>2. attempts' = [attempts EXCEPT ![c] = Append(attempts[c], s)]
    BY <1>2 DEF SendStep
  <2> HIDE DEF c, s
  <2>3. Append(attempts[c], s) \in Seq(Step) /\ DOMAIN attempts[c] \subseteq DOMAIN Append(attempts[c], s)
    BY <2>1
  <2>4. /\ attempts' \in [Contacts -> Seq(Step)]
        /\ \A x \in Contacts : DOMAIN attempts[x] \subseteq DOMAIN attempts'[x]
    BY <2>1, <2>2, <2>3 DEF TypeOK
  <2>5. running' = [running EXCEPT ![r] = AtRest] /\ UNCHANGED <<raced, window>>
    BY <1>2 DEF SendStep
  <2>6. \A o \in Runners : running'[o].pc = "bouncing" =>
           running'[o] = running[o] /\ running[o].contact \in Contacts
    BY <1>0, <2>5, RunningFields DEF TypeOK, Bouncing
  <2>7. QED
    BY <1>0, <2>4, <2>5, <2>6 DEF TypeOK, SequenceTypes
<1>3. CASE ApplyBounce(r)
  <2>1. UNCHANGED <<attempts, window>>
    BY <1>3 DEF ApplyBounce, BounceKinds
  <2>2. PICK c \in Contacts : \E i \in DOMAIN attempts[c], kind \in BounceKinds :
          LET steps == [attempts[c] EXCEPT ![i].result = kind] IN
          /\ running' = [running EXCEPT ![r] =
               [pc |-> "bouncing", contact |-> c, step |-> i, kind |-> kind,
                suppress |-> EvaluateBounce(kind, ConsecutiveSoftBounces(steps))]]
          /\ raced' = raced \/ raced' = raced \cup {c}
    BY <1>3 DEF ApplyBounce, BounceKinds
  <2>3. PICK i \in DOMAIN attempts[c], kind \in BounceKinds : \E steps :
          /\ running' = [running EXCEPT ![r] =
               [pc |-> "bouncing", contact |-> c, step |-> i, kind |-> kind,
                suppress |-> EvaluateBounce(kind, ConsecutiveSoftBounces(steps))]]
          /\ raced' = raced \/ raced' = raced \cup {c}
    BY <2>2
  <2> PICK steps :
          /\ running' = [running EXCEPT ![r] =
               [pc |-> "bouncing", contact |-> c, step |-> i, kind |-> kind,
                suppress |-> EvaluateBounce(kind, ConsecutiveSoftBounces(steps))]]
          /\ raced' = raced \/ raced' = raced \cup {c}
    BY <2>3
  <2>4. i \in Nat /\ EvaluateBounce(kind, ConsecutiveSoftBounces(steps)) \in BOOLEAN
    BY DEF EvaluateBounce, TypeOK
  <2>5. [pc |-> "bouncing", contact |-> c, step |-> i, kind |-> kind,
                suppress |-> EvaluateBounce(kind, ConsecutiveSoftBounces(steps))] \in Bouncing
    BY <2>4 DEF Bouncing
  <2>6. QED
    BY <2>1, <2>3, <2>5 DEF TypeOK, SequenceTypes
<1>4. CASE BounceCommits(r)
  <2> DEFINE q == running[r]
             marked == Marked(attempts[q.contact], q.step, q.kind)
  <2>1. /\ q.contact \in Contacts /\ q.kind \in BounceKinds
        /\ attempts[q.contact] \in Seq(Step) /\ q.step \in DOMAIN attempts[q.contact]
    BY <1>4, RunningFields DEF BounceCommits, Bouncing, TypeOK
  <2>2. attempts' = [attempts EXCEPT ![q.contact] = marked]
    BY <1>4 DEF BounceCommits, Marked
  <2>3. marked \in Seq(Step) /\ DOMAIN marked = DOMAIN attempts[q.contact]
    BY <2>1, MarkedSteps
  <2>4. /\ attempts' \in [Contacts -> Seq(Step)]
        /\ \A x \in Contacts : DOMAIN attempts[x] = DOMAIN attempts'[x]
    <3> HIDE DEF q, marked
    <3>1. QED
      BY <2>1, <2>2, <2>3 DEF TypeOK
  <2>5. running' = [running EXCEPT ![r] = AtRest] /\ UNCHANGED <<raced, window>>
    BY <1>4 DEF BounceCommits
  <2>6. \A o \in Runners : running'[o].pc = "bouncing" =>
           running'[o] = running[o] /\ running[o].contact \in Contacts
    BY <1>0, <2>5, RunningFields DEF TypeOK, Bouncing
  <2>7. QED
    BY <1>0, <2>4, <2>5, <2>6 DEF TypeOK, SequenceTypes
<1>5. CASE StepRollsBack(r)
  BY <1>0, <1>5 DEF StepRollsBack, TypeOK, SequenceTypes
<1>6. QED
  BY <1>1, <1>2, <1>3, <1>4, <1>5

LEMMA NextTypeOK == TypeOK /\ [OutboundNext]_outboundVars => TypeOK'
<1> SUFFICES ASSUME TypeOK, [OutboundNext]_outboundVars PROVE TypeOK'
  OBVIOUS
<1> USE DEF Calls, sendVars, sequenceVars
<1>1. CASE WindowPasses
  BY <1>1 DEF WindowPasses, TypeOK
<1>2. ASSUME NEW m \in Messages,
             Send(m) \/ Suppressed(m) \/ ProviderSend(m) \/ Requested(m) \/ SendFails(m)
      PROVE  TypeOK'
  <2>1. UNCHANGED <<ingesting, suppression, told, sequenceVars>> /\ outboundLeft' \in Nat
    BY <1>2 DEF Send, Suppressed, ProviderSend, Requested, SendFails, TypeOK
  <2>2. WebhookTypes' /\ SequenceTypes'
    BY <2>1, TypeParts DEF WebhookTypes, SequenceTypes
  <2>3. QED
    BY <1>2, <2>1, <2>2, SendTypesKept, TypeParts DEF TypeOK, SendTypes, WebhookTypes, SequenceTypes
<1>3. ASSUME NEW e \in ProviderEvents,
             handleWebhook(e) \/ Upsert(e) \/ Acknowledged(e) \/ IngestFails(e)
      PROVE  TypeOK'
  <2>1. UNCHANGED <<sendVars, mails, sequenceVars>> /\ outboundLeft' \in Nat
    BY <1>3 DEF handleWebhook, Upsert, Acknowledged, IngestFails, TypeOK
  <2>2. SendTypes' /\ SequenceTypes'
    BY <2>1, TypeParts DEF SendTypes, SequenceTypes
  <2>3. QED
    BY <1>3, <2>1, <2>2, WebhookTypesKept DEF TypeOK, SendTypes, WebhookTypes, SequenceTypes
<1>4. ASSUME NEW r \in Runners,
             Preflight(r) \/ SendStep(r) \/ ApplyBounce(r) \/ BounceCommits(r) \/ StepRollsBack(r)
      PROVE  TypeOK'
  <2>1. UNCHANGED <<sendVars, ingesting, told>> /\ outboundLeft' \in Nat
    BY <1>4 DEF Preflight, SendStep, ApplyBounce, BounceCommits, StepRollsBack, TypeOK
  <2>2. suppression' \subseteq Addresses
    <3>1. CASE BounceCommits(r)
      <4>1. running[r].contact \in Addresses
        BY <3>1, RunningFields, AllAreAddresses DEF BounceCommits, Bouncing
      <4>2. suppression' \subseteq suppression \cup {running[r].contact}
        BY <3>1 DEF BounceCommits
      <4>3. QED
        BY <4>1, <4>2 DEF TypeOK
    <3>2. CASE ~BounceCommits(r)
      BY <1>4, <3>2 DEF Preflight, SendStep, ApplyBounce, StepRollsBack, TypeOK
    <3>3. QED
      BY <3>1, <3>2
  <2>3. mails' \subseteq Mail /\ IsFiniteSet(mails')
    <3>1. CASE SendStep(r)
      <4>1. /\ {running[r].contact} \in SUBSET Addresses /\ running[r].before \in SUBSET Addresses
            /\ Accepts(r, {running[r].contact}, running[r].before)
        BY <3>1, RunningFields, AllAreAddresses DEF SendStep, SendingStep
      <4>2. mails \subseteq Mail /\ IsFiniteSet(mails) /\ r \in Messages \cup Runners
        BY DEF TypeOK
      <4>3. QED
        BY <4>1, <4>2, AcceptsOne
    <3>2. CASE ~SendStep(r)
      BY <1>4, <3>2 DEF Preflight, ApplyBounce, BounceCommits, StepRollsBack, TypeOK
    <3>3. QED
      BY <3>1, <3>2
  <2>4. SequenceTypes'
    BY <1>4, SequenceTypesKept
  <2>5. QED
    BY <2>1, <2>2, <2>3, <2>4 DEF TypeOK, SequenceTypes
<1>5. CASE UNCHANGED outboundVars
  BY <1>5 DEF outboundVars, TypeOK
<1>6. QED
  BY <1>1, <1>2, <1>3, <1>4, <1>5 DEF OutboundNext

(* The types of a state and everything written and read in it are types of  *)
(* every reachable state.                                                   *)
THEOREM TypeCorrect == OutboundSpec => []TypeOK
<1>1. QED
  BY InitTypeOK, NextTypeOK, PTL DEF OutboundSpec

-----------------------------------------------------------------------------
(* Suppression is honoured                                                  *)

HonourInv == ToldIsListed /\ SendsHonour /\ HonoursAcknowledged

LEMMA InitHonour == OutboundInit => HonourInv
  BY DEF OutboundInit, AtRest, HonourInv, ToldIsListed, SendsHonour, HonoursAcknowledged

LEMMA AcceptanceHonours ==
  ASSUME TypeOK, HonoursAcknowledged, NEW of \in Messages \cup Runners,
         NEW to \in SUBSET Addresses, NEW before \in SUBSET Addresses, to \cap before = {},
         Accepts(of, to, before)
  PROVE  HonoursAcknowledged'
<1>1. mails \subseteq Mail /\ IsFiniteSet(mails)
  BY DEF TypeOK
<1>2. PICK x \in Mail : mails' = mails \cup {x} /\ x.to = to /\ x.before = before
  BY <1>1, AcceptsOne
<1>3. QED
  BY <1>2 DEF HonoursAcknowledged

LEMMA SendKeepsHonour ==
  ASSUME TypeOK, HonourInv, NEW m \in Messages,
         Send(m) \/ Suppressed(m) \/ ProviderSend(m) \/ Requested(m) \/ SendFails(m)
  PROVE  HonourInv'
<1>1. UNCHANGED <<ingesting, suppression, told, running>>
  BY DEF Send, Suppressed, ProviderSend, Requested, SendFails, sequenceVars
<1>2. \A n \in Messages : n = m \/ sending'[n] = sending[n]
  BY DEF Send, Suppressed, ProviderSend, Requested, SendFails, TypeOK
<1>3. /\ sending'[m].pc = "checking" => sending'[m].before \subseteq told
      /\ sending'[m].pc = "calling" => sending'[m].allowed \cap sending'[m].before = {}
  <2>1. CASE Send(m)
    BY <2>1 DEF Send, TypeOK
  <2>2. CASE Suppressed(m)
    <3>1. sending[m] \in Attempt /\ sending[m].before \subseteq told
      BY <2>2, SendingFields DEF Suppressed, HonourInv, SendsHonour
    <3>2. /\ sending'[m].pc \in {"done", "calling"}
          /\ sending'[m].allowed = To[m] \ suppression /\ sending'[m].before = sending[m].before
      BY <2>2, <3>1 DEF Suppressed, TypeOK, Attempt
    <3>3. QED
      BY <3>1, <3>2 DEF HonourInv, ToldIsListed
  <2>3. CASE ProviderSend(m) \/ Requested(m) \/ SendFails(m)
    <3>1. sending[m] \in Attempt
      BY <2>3, SendingFields DEF ProviderSend, Requested, SendFails
    <3>2. sending'[m].pc \in {"accepted", "done", "idle"}
      <4>1. \/ sending' = [sending EXCEPT ![m].pc = "accepted"]
            \/ sending' = [sending EXCEPT ![m].pc = "done"]
            \/ sending' = [sending EXCEPT ![m] = AtRest]
        BY <2>3 DEF ProviderSend, Requested, SendFails
      <4>2. \/ sending'[m] = Moved(sending[m], "accepted")
            \/ sending'[m] = Moved(sending[m], "done")
            \/ sending'[m] = AtRest
        BY <4>1 DEF TypeOK, Moved
      <4>3. QED
        BY <3>1, <4>2, AttemptMoves DEF AtRest
    <3>3. QED
      BY <3>2
  <2>4. QED
    BY <2>1, <2>2, <2>3
<1>4. HonoursAcknowledged'
  <2>1. CASE ProviderSend(m)
    <3>1. sending[m] \in Attempt
      BY <2>1, SendingFields DEF ProviderSend
    <3>2. /\ sending[m].allowed \in SUBSET Addresses /\ sending[m].before \in SUBSET Addresses
          /\ sending[m].allowed \cap sending[m].before = {}
          /\ Accepts(m, sending[m].allowed, sending[m].before)
      BY <2>1, <3>1 DEF ProviderSend, Attempt, HonourInv, SendsHonour
    <3>3. HonoursAcknowledged /\ m \in Messages \cup Runners
      BY DEF HonourInv
    <3>4. QED
      BY <3>2, <3>3, AcceptanceHonours
  <2>2. CASE ~ProviderSend(m)
    BY <2>2 DEF Send, Suppressed, Requested, SendFails, HonourInv, HonoursAcknowledged
  <2>3. QED
    BY <2>1, <2>2
<1>5. QED
  BY <1>1, <1>2, <1>3, <1>4 DEF HonourInv, ToldIsListed, SendsHonour

LEMMA WebhookKeepsHonour ==
  ASSUME TypeOK, HonourInv, NEW e \in ProviderEvents,
         handleWebhook(e) \/ Upsert(e) \/ Acknowledged(e) \/ IngestFails(e)
  PROVE  HonourInv'
<1>1. UNCHANGED <<sending, mails, running>>
  BY DEF handleWebhook, Upsert, Acknowledged, IngestFails, sendVars, sequenceVars
<1>2. told \subseteq told' /\ suppression \subseteq suppression'
  BY DEF handleWebhook, Upsert, Acknowledged, IngestFails
<1>3. ToldIsListed'
  <2> DEFINE listed == IF SuppressionReason(e) THEN {About[e].email} ELSE {}
  <2>1. CASE handleWebhook(e) \/ IngestFails(e)
    BY <2>1 DEF handleWebhook, IngestFails, HonourInv, ToldIsListed, TypeOK
  <2>2. CASE Upsert(e)
    BY <2>2 DEF Upsert, HonourInv, ToldIsListed, TypeOK
  <2>3. CASE Acknowledged(e)
    <3>1. listed \subseteq suppression
      BY <2>3 DEF Acknowledged, HonourInv, ToldIsListed
    <3>2. told' = told \cup listed /\ suppression' = suppression
      BY <2>3 DEF Acknowledged
    <3>3. \A o \in ProviderEvents : ingesting'[o] = "upserted" => ingesting[o] = "upserted"
      BY <2>3 DEF Acknowledged, TypeOK
    <3> HIDE DEF listed
    <3>4. QED
      BY <3>1, <3>2, <3>3 DEF HonourInv, ToldIsListed
  <2>4. QED
    BY <2>1, <2>2, <2>3
<1>4. QED
  BY <1>1, <1>2, <1>3 DEF HonourInv, SendsHonour, HonoursAcknowledged

LEMMA RunnerKeepsHonour ==
  ASSUME TypeOK, HonourInv, NEW r \in Runners,
         Preflight(r) \/ SendStep(r) \/ ApplyBounce(r) \/ BounceCommits(r) \/ StepRollsBack(r)
  PROVE  HonourInv'
<1>1. UNCHANGED <<sending, ingesting, told>> /\ suppression \subseteq suppression'
  BY DEF Preflight, SendStep, ApplyBounce, BounceCommits, StepRollsBack, sendVars
<1>2. \A o \in Runners : o = r \/ running'[o] = running[o]
  BY DEF Preflight, SendStep, ApplyBounce, BounceCommits, StepRollsBack, TypeOK
<1>3. running'[r].pc = "sending" => running'[r].contact \notin running'[r].before
  <2>1. CASE Preflight(r)
    BY <2>1 DEF Preflight, Allowed, HonourInv, ToldIsListed, TypeOK
  <2>2. CASE ApplyBounce(r)
    BY <2>2 DEF ApplyBounce, TypeOK
  <2>3. CASE SendStep(r) \/ BounceCommits(r) \/ StepRollsBack(r)
    BY <2>3 DEF SendStep, BounceCommits, StepRollsBack, AtRest, TypeOK
  <2>4. QED
    BY <2>1, <2>2, <2>3
<1>4. HonoursAcknowledged'
  <2>1. CASE SendStep(r)
    <3>1. /\ {running[r].contact} \in SUBSET Addresses /\ running[r].before \in SUBSET Addresses
          /\ Accepts(r, {running[r].contact}, running[r].before)
      BY <2>1, RunningFields, AllAreAddresses DEF SendStep, SendingStep
    <3>2. {running[r].contact} \cap running[r].before = {}
      BY <2>1 DEF SendStep, HonourInv, SendsHonour
    <3>3. HonoursAcknowledged /\ r \in Messages \cup Runners
      BY DEF HonourInv
    <3>4. QED
      BY <3>1, <3>2, <3>3, AcceptanceHonours
  <2>2. CASE ~SendStep(r)
    BY <2>2 DEF Preflight, ApplyBounce, BounceCommits, StepRollsBack, HonourInv, HonoursAcknowledged
  <2>3. QED
    BY <2>1, <2>2
<1>5. QED
  BY <1>1, <1>2, <1>3, <1>4 DEF HonourInv, ToldIsListed, SendsHonour

LEMMA NextHonour == TypeOK /\ HonourInv /\ [OutboundNext]_outboundVars => HonourInv'
<1> SUFFICES ASSUME TypeOK, HonourInv, [OutboundNext]_outboundVars PROVE HonourInv'
  OBVIOUS
<1>1. CASE WindowPasses \/ UNCHANGED outboundVars
  BY <1>1 DEF WindowPasses, outboundVars, sendVars, sequenceVars, HonourInv, ToldIsListed,
              SendsHonour, HonoursAcknowledged
<1>2. QED
  BY <1>1, SendKeepsHonour, WebhookKeepsHonour, RunnerKeepsHonour DEF OutboundNext

-----------------------------------------------------------------------------
(* Acceptances and losses                                                   *)

LEMMA AcceptedFinite ==
  ASSUME TypeOK, NEW m \in Messages
  PROVE  IsFiniteSet(Accepted(m)) /\ Cardinality(Accepted(m)) \in Nat
<1>1. Accepted(m) \subseteq mails /\ IsFiniteSet(mails)
  BY DEF Accepted, TypeOK
<1>2. IsFiniteSet(Accepted(m))
  BY <1>1, FS_Subset
<1>3. QED
  BY <1>2, FS_CardinalityType

LEMMA OneMore ==
  ASSUME NEW S, NEW T, NEW x, IsFiniteSet(S), T = S \/ T = S \cup {x}
  PROVE  /\ Cardinality(S) \in Nat /\ Cardinality(T) \in Nat
         /\ Cardinality(T) <= Cardinality(S) + 1
<1>1. IsFiniteSet(S \cup {x})
      /\ Cardinality(S \cup {x}) = IF x \in S THEN Cardinality(S) ELSE Cardinality(S) + 1
  BY FS_AddElement
<1>2. Cardinality(S) \in Nat
  BY FS_CardinalityType
<1>3. CASE T = S
  BY <1>2, <1>3
<1>4. CASE T = S \cup {x}
  BY <1>1, <1>2, <1>4
<1>5. QED
  BY <1>3, <1>4

(* An acceptance is one more of its sender and none of another.             *)
LEMMA AcceptanceCounts ==
  ASSUME TypeOK, NEW of \in Messages \cup Runners, NEW to \in SUBSET Addresses,
         NEW before \in SUBSET Addresses, Accepts(of, to, before), NEW m \in Messages
  PROVE  /\ m # of => Accepted(m)' = Accepted(m)
         /\ Cardinality(Accepted(m)') \in Nat
         /\ Cardinality(Accepted(m)') <= Cardinality(Accepted(m)) + 1
<1>1. mails \subseteq Mail /\ IsFiniteSet(mails)
  BY DEF TypeOK
<1>2. PICK x \in Mail : mails' = mails \cup {x} /\ x.of = of
  BY <1>1, AcceptsOne
<1>3. m # of => Accepted(m)' = Accepted(m)
  BY <1>2 DEF Accepted
<1>4. Accepted(m)' = Accepted(m) \/ Accepted(m)' = Accepted(m) \cup {x}
  BY <1>2 DEF Accepted
<1>5. IsFiniteSet(Accepted(m))
  BY AcceptedFinite
<1>6. QED
  BY <1>3, <1>4, <1>5, OneMore

LEMMA InitLosses == OutboundInit => LossesCounted
<1> SUFFICES ASSUME OutboundInit, NEW m \in Messages
             PROVE  Cardinality(Accepted(m)) <=
                      losses[m] + (IF sending[m].pc \in {"accepted", "done"} THEN 1 ELSE 0)
  BY DEF LossesCounted
<1>1. Cardinality({}) = 0
  BY FS_EmptySet
<1>2. Accepted(m) = {}
  BY DEF OutboundInit, Accepted
<1>3. Cardinality(Accepted(m)) = 0
  BY <1>1, <1>2
<1>4. losses[m] = 0 /\ sending[m].pc = "idle"
  BY DEF OutboundInit, AtRest
<1>5. QED
  BY <1>3, <1>4

LEMMA NextLosses == TypeOK /\ LossesCounted /\ [OutboundNext]_outboundVars => LossesCounted'
<1> SUFFICES ASSUME TypeOK, LossesCounted, [OutboundNext]_outboundVars,
                    NEW n \in Messages
             PROVE  Cardinality(Accepted(n)') <=
                      losses'[n] + (IF sending'[n].pc \in {"accepted", "done"} THEN 1 ELSE 0)
  BY DEF LossesCounted
<1> DEFINE Counted == Cardinality(Accepted(n)') <=
             losses'[n] + (IF sending'[n].pc \in {"accepted", "done"} THEN 1 ELSE 0)
<1>0. /\ Cardinality(Accepted(n)) \in Nat /\ losses[n] \in Nat
      /\ Cardinality(Accepted(n)) <=
           losses[n] + (IF sending[n].pc \in {"accepted", "done"} THEN 1 ELSE 0)
  BY AcceptedFinite DEF LossesCounted, TypeOK
<1>1. ASSUME UNCHANGED <<mails, losses, sending>> PROVE Counted
  BY <1>0, <1>1 DEF Accepted
<1>2. ASSUME NEW m \in Messages, Send(m) \/ Suppressed(m) \/ Requested(m) \/ SendFails(m)
      PROVE  Counted
  <2>1. Accepted(n)' = Accepted(n)
    BY <1>2 DEF Send, Suppressed, Requested, SendFails, Accepted
  <2>2. \/ n # m /\ losses'[n] = losses[n] /\ sending'[n] = sending[n]
        \/ /\ n = m /\ sending[n].pc \notin {"accepted", "done"} /\ losses'[n] = losses[n]
        \/ /\ n = m /\ sending[n].pc = "accepted"
           /\ \/ losses'[n] = losses[n] /\ sending'[n].pc = "done"
              \/ losses'[n] = losses[n] + 1
    <3>1. CASE Send(m)
      BY <3>1 DEF Send, TypeOK
    <3>2. CASE Suppressed(m)
      BY <3>2 DEF Suppressed, TypeOK
    <3>3. CASE Requested(m)
      <4>1. sending' = [sending EXCEPT ![m] = Moved(sending[m], "done")] /\ losses' = losses
        BY <3>3 DEF Requested, Moved
      <4>2. sending[m].pc = "accepted" /\ Moved(sending[m], "done").pc = "done"
        BY <3>3, SendingFields, AttemptMoves DEF Requested
      <4>3. QED
        BY <4>1, <4>2 DEF TypeOK
    <3>4. CASE SendFails(m)
      BY <3>4 DEF SendFails, TypeOK
    <3>5. QED
      BY <1>2, <3>1, <3>2, <3>3, <3>4
  <2>3. QED
    BY <1>0, <2>1, <2>2
<1>3. ASSUME NEW m \in Messages, ProviderSend(m) PROVE Counted
  <2>1. sending[m] \in Attempt /\ sending[m].pc = "calling"
    BY <1>3, SendingFields DEF ProviderSend
  <2>2. /\ sending[m].allowed \in SUBSET Addresses /\ sending[m].before \in SUBSET Addresses
        /\ Accepts(m, sending[m].allowed, sending[m].before)
    BY <1>3, <2>1 DEF ProviderSend, Attempt
  <2>3. /\ n # m => Accepted(n)' = Accepted(n)
        /\ Cardinality(Accepted(n)') \in Nat
        /\ Cardinality(Accepted(n)') <= Cardinality(Accepted(n)) + 1
    BY <2>2, AcceptanceCounts
  <2>4. \/ /\ sending' = [sending EXCEPT ![m] = Moved(sending[m], "accepted")] /\ losses' = losses
        \/ /\ sending' = [sending EXCEPT ![m] = AtRest] /\ losses' = [losses EXCEPT ![m] = @ + 1]
    BY <1>3 DEF ProviderSend, Moved
  <2>5. Moved(sending[m], "accepted").pc = "accepted"
    BY <2>1, AttemptMoves
  <2>6. \/ n # m /\ losses'[n] = losses[n] /\ sending'[n] = sending[n]
        \/ n = m /\ losses'[n] = losses[n] /\ sending'[n].pc = "accepted"
        \/ n = m /\ losses'[n] = losses[n] + 1
    BY <2>4, <2>5 DEF TypeOK
  <2>7. QED
    BY <1>0, <2>1, <2>3, <2>6
<1>4. ASSUME NEW r \in Runners, SendStep(r) PROVE Counted
  <2>1. /\ {running[r].contact} \in SUBSET Addresses /\ running[r].before \in SUBSET Addresses
        /\ Accepts(r, {running[r].contact}, running[r].before)
    BY <1>4, RunningFields, AllAreAddresses DEF SendStep, SendingStep
  <2>2. n # r /\ r \in Messages \cup Runners
    BY OutboundAssumption
  <2>3. Accepted(n)' = Accepted(n)
    BY <2>1, <2>2, AcceptanceCounts
  <2>4. UNCHANGED <<losses, sending>>
    BY <1>4 DEF SendStep, sendVars
  <2>5. QED
    BY <1>0, <2>3, <2>4
<1>5. QED
  <2>1. ASSUME NEW e \in ProviderEvents,
               handleWebhook(e) \/ Upsert(e) \/ Acknowledged(e) \/ IngestFails(e)
        PROVE  UNCHANGED <<mails, losses, sending>>
    BY <2>1 DEF handleWebhook, Upsert, Acknowledged, IngestFails, sendVars
  <2>2. ASSUME NEW r \in Runners,
               Preflight(r) \/ ApplyBounce(r) \/ BounceCommits(r) \/ StepRollsBack(r)
        PROVE  UNCHANGED <<mails, losses, sending>>
    BY <2>2 DEF Preflight, ApplyBounce, BounceCommits, StepRollsBack, sendVars
  <2>3. CASE WindowPasses \/ UNCHANGED outboundVars
    BY <1>1, <2>3 DEF WindowPasses, outboundVars, sendVars
  <2>4. QED
    BY <1>1, <1>2, <1>3, <1>4, <2>1, <2>2, <2>3 DEF OutboundNext

-----------------------------------------------------------------------------
(* Runs of soft bounces                                                     *)

(* A step that is no soft bounce ends the run.                              *)
LEMMA RunEnds ==
  ASSUME NEW steps \in Seq(Step), Len(steps) > 0, steps[Len(steps)].result # "soft"
  PROVE  ConsecutiveSoftBounces(steps) = 0
<1> DEFINE hard == {i \in DOMAIN steps : steps[i].result # "soft"}
           last == CHOOSE i \in hard : \A j \in hard : j <= i
<1>1. DOMAIN steps = 1..Len(steps) /\ Len(steps) \in Nat
  OBVIOUS
<1>2. Len(steps) \in hard /\ \A j \in hard : j \in Nat /\ j <= Len(steps)
  BY <1>1
<1> HIDE DEF hard
<1>3. last \in hard /\ \A j \in hard : j <= last
  BY <1>2
<1> HIDE DEF last
<1>4. last = Len(steps)
  BY <1>1, <1>2, <1>3
<1>5. ConsecutiveSoftBounces(steps) = Len(steps) - (IF hard = {} THEN 0 ELSE last)
  BY DEF ConsecutiveSoftBounces, hard, last
<1>6. QED
  BY <1>1, <1>2, <1>4, <1>5

BounceInv == BouncesJudged /\ SoftRunSuppresses

LEMMA InitBounces == OutboundInit => BounceInv
<1> SUFFICES ASSUME OutboundInit PROVE BounceInv
  OBVIOUS
<1>1. \A r \in Runners : running[r].pc = "idle"
  BY DEF OutboundInit, AtRest
<1>2. ConsecutiveSoftBounces(<<>>) = 0
  BY DEF ConsecutiveSoftBounces
<1>3. \A c \in Contacts : attempts[c] = <<>>
  BY DEF OutboundInit
<1>4. QED
  BY <1>1, <1>2, <1>3, OutboundAssumption DEF BounceInv, BouncesJudged, SoftRunSuppresses

(* While the steps stay as they are, and bounces only end.                  *)
LEMMA BouncesWait ==
  ASSUME BounceInv, UNCHANGED attempts, suppression \subseteq suppression', raced \subseteq raced',
         \A r \in Runners : running'[r].pc = "bouncing" => running'[r] = running[r]
  PROVE  BounceInv'
<1>1. SoftRunSuppresses'
  BY DEF BounceInv, SoftRunSuppresses
<1>2. BouncesJudged'
  BY DEF BounceInv, BouncesJudged, WithBounce
<1>3. QED
  BY <1>1, <1>2 DEF BounceInv

LEMMA SendStepKeepsBounces ==
  ASSUME TypeOK, BounceInv, NEW r \in Runners, SendStep(r) PROVE BounceInv'
<1> DEFINE c == running[r].contact
           sent == Append(attempts[c], [window |-> window, result |-> "sent"])
<1>1. c \in Contacts /\ attempts[c] \in Seq(Step)
  BY RunningFields DEF SendStep, SendingStep, TypeOK
<1>2. attempts' = [attempts EXCEPT ![c] = sent] /\ UNCHANGED <<suppression, raced>>
  BY DEF SendStep
<1>3. /\ sent \in Seq(Step) /\ Len(sent) = Len(attempts[c]) + 1 /\ Len(attempts[c]) \in Nat
      /\ sent[Len(sent)].result = "sent" /\ \A i \in DOMAIN attempts[c] : i # Len(sent) /\ i \in DOMAIN sent
  <2>1. [window |-> window, result |-> "sent"] \in Step
    BY DEF TypeOK, Step
  <2>2. QED
    BY <1>1, <2>1
<1>4. running' = [running EXCEPT ![r] = AtRest] /\ running[r].pc = "sending"
  BY DEF SendStep
<1>5. \A o \in Runners : running'[o].pc = "bouncing" => running'[o] = running[o]
  BY <1>4 DEF AtRest, TypeOK
<1> HIDE DEF c, sent
<1>6. SoftRunSuppresses'
  <2>1. ConsecutiveSoftBounces(sent) = 0
    BY <1>3, RunEnds
  <2>2. ~(0 >= SoftBounceSuppressThreshold)
    BY OutboundAssumption
  <2>3. \A x \in Contacts : attempts'[x] = IF x = c THEN sent ELSE attempts[x]
    BY <1>1, <1>2 DEF TypeOK
  <2>4. QED
    BY <1>2, <2>1, <2>2, <2>3 DEF BounceInv, SoftRunSuppresses
<1>7. BouncesJudged'
  <2> SUFFICES ASSUME NEW o \in Runners, running'[o].pc = "bouncing", running'[o].contact \notin raced'
               PROVE  /\ \A p \in Runners : running'[p].pc = "bouncing"
                              /\ running'[p].contact = running'[o].contact => p = o
                      /\ ConsecutiveSoftBounces(WithBounce(attempts', running[o])) >= SoftBounceSuppressThreshold =>
                           running[o].suppress
    BY <1>5 DEF BouncesJudged
  <2> DEFINE q == running[o]
  <2>1. q = running'[o] /\ q \in Bouncing /\ q.step \in DOMAIN attempts[q.contact]
    BY <1>5, RunningFields DEF TypeOK
  <2>2. \A p \in Runners : running'[p].pc = "bouncing" /\ running'[p].contact = running'[o].contact => p = o
    BY <1>2, <1>5, <2>1 DEF BounceInv, BouncesJudged
  <2>3. CASE q.contact = c
    <3>1. WithBounce(attempts', q) = Marked(sent, q.step, q.kind)
      <4>1. attempts'[q.contact] = sent
        BY <1>1, <1>2, <2>3 DEF TypeOK
      <4>2. QED
        BY <4>1 DEF WithBounce
    <3>2. q.step \in DOMAIN sent /\ q.step # Len(sent) /\ q.kind \in BounceKinds
      BY <1>3, <2>1, <2>3 DEF Bouncing
    <3>3. /\ Marked(sent, q.step, q.kind) \in Seq(Step)
          /\ Len(Marked(sent, q.step, q.kind)) = Len(sent)
          /\ \A j \in DOMAIN sent : Marked(sent, q.step, q.kind)[j].result =
                                      IF j = q.step THEN q.kind ELSE sent[j].result
      BY <1>3, <3>2, MarkedSteps
    <3>4. ConsecutiveSoftBounces(WithBounce(attempts', q)) = 0
      BY <1>3, <3>1, <3>2, <3>3, RunEnds
    <3>5. QED
      BY <2>2, <3>4, OutboundAssumption
  <2>4. CASE q.contact # c
    <3>1. WithBounce(attempts', q) = WithBounce(attempts, q)
      <4>1. attempts'[q.contact] = attempts[q.contact]
        BY <1>1, <1>2, <2>1, <2>4 DEF TypeOK, Bouncing
      <4>2. QED
        BY <4>1 DEF WithBounce
    <3>2. QED
      BY <1>2, <2>1, <2>2, <3>1 DEF BounceInv, BouncesJudged
  <2>5. QED
    BY <2>3, <2>4
<1>8. QED
  BY <1>6, <1>7 DEF BounceInv

LEMMA ApplyKeepsBounces ==
  ASSUME TypeOK, BounceInv, NEW r \in Runners, ApplyBounce(r) PROVE BounceInv'
<1> DEFINE others(c) == {o \in Runners : running[o].pc = "bouncing" /\ running[o].contact = c}
<1>1. UNCHANGED <<attempts, suppression>> /\ running[r].pc = "idle"
  BY DEF ApplyBounce
<1>2. PICK c \in Contacts : \E i \in DOMAIN attempts[c], kind \in BounceKinds :
        /\ running' = [running EXCEPT ![r] =
               [pc |-> "bouncing", contact |-> c, step |-> i, kind |-> kind,
                suppress |-> EvaluateBounce(kind, ConsecutiveSoftBounces(
                                              [attempts[c] EXCEPT ![i].result = kind]))]]
        /\ raced' = IF others(c) = {} THEN raced ELSE raced \cup {c}
  BY DEF ApplyBounce, BounceKinds
<1>3. PICK i \in DOMAIN attempts[c], kind \in BounceKinds :
        /\ running' = [running EXCEPT ![r] =
               [pc |-> "bouncing", contact |-> c, step |-> i, kind |-> kind,
                suppress |-> EvaluateBounce(kind, ConsecutiveSoftBounces(Marked(attempts[c], i, kind)))]]
        /\ raced' = IF others(c) = {} THEN raced ELSE raced \cup {c}
  BY <1>2 DEF Marked
<1>4. /\ running'[r].pc = "bouncing" /\ running'[r].contact = c
      /\ running'[r].step = i /\ running'[r].kind = kind
      /\ running'[r].suppress = EvaluateBounce(kind, ConsecutiveSoftBounces(Marked(attempts[c], i, kind)))
      /\ \A o \in Runners : o = r \/ running'[o] = running[o]
  BY <1>3 DEF TypeOK
<1>5. raced \subseteq raced' /\ (c \in raced' \/ others(c) = {})
  BY <1>3
<1>6. SoftRunSuppresses'
  BY <1>1, <1>5 DEF BounceInv, SoftRunSuppresses
<1>7. BouncesJudged'
  <2> SUFFICES ASSUME NEW o \in Runners, running'[o].pc = "bouncing", running'[o].contact \notin raced'
               PROVE  /\ \A p \in Runners : running'[p].pc = "bouncing"
                              /\ running'[p].contact = running'[o].contact => p = o
                      /\ ConsecutiveSoftBounces(WithBounce(attempts, running'[o])) >= SoftBounceSuppressThreshold =>
                           running'[o].suppress
    BY <1>1 DEF BouncesJudged
  <2>1. CASE o = r
    <3>1. others(c) = {}
      BY <1>4, <1>5, <2>1
    <3>2. \A p \in Runners : running'[p].pc = "bouncing" /\ running'[p].contact = c => p = r
      BY <1>4, <3>1
    <3>3. WithBounce(attempts, running'[o]) = Marked(attempts[c], i, kind)
      BY <1>4, <2>1 DEF WithBounce
    <3>4. ConsecutiveSoftBounces(Marked(attempts[c], i, kind)) >= SoftBounceSuppressThreshold =>
            EvaluateBounce(kind, ConsecutiveSoftBounces(Marked(attempts[c], i, kind)))
      BY DEF EvaluateBounce
    <3>5. QED
      BY <1>4, <2>1, <3>2, <3>3, <3>4
  <2>2. CASE o # r
    <3>1. running'[o] = running[o] /\ running[o].contact \notin raced
      BY <1>4, <1>5, <2>2
    <3>2. running[o].contact # c
      BY <1>5, <2>2, <3>1
    <3>3. QED
      BY <1>4, <2>2, <3>1, <3>2 DEF BounceInv, BouncesJudged
  <2>3. QED
    BY <2>1, <2>2
<1>8. QED
  BY <1>6, <1>7 DEF BounceInv

LEMMA CommitKeepsBounces ==
  ASSUME TypeOK, BounceInv, NEW r \in Runners, BounceCommits(r) PROVE BounceInv'
<1> DEFINE q == running[r]
<1>1. q \in Bouncing /\ q.pc = "bouncing" /\ q.contact \in Contacts
  BY RunningFields DEF BounceCommits, Bouncing
<1>2. /\ attempts' = [attempts EXCEPT ![q.contact] = WithBounce(attempts, q)]
      /\ suppression' = suppression \cup (IF q.suppress THEN {q.contact} ELSE {})
      /\ running' = [running EXCEPT ![r] = AtRest] /\ raced' = raced
  BY DEF BounceCommits, WithBounce, Marked
<1>3. \A o \in Runners : running'[o].pc = "bouncing" => o # r /\ running'[o] = running[o]
  BY <1>2 DEF AtRest, TypeOK
<1>4. \A c \in Contacts : attempts'[c] = IF c = q.contact THEN WithBounce(attempts, q) ELSE attempts[c]
  BY <1>1, <1>2 DEF TypeOK
<1>5. /\ q.contact \notin raced
      /\ ConsecutiveSoftBounces(WithBounce(attempts, q)) >= SoftBounceSuppressThreshold
      => q.suppress
  BY <1>1 DEF BounceInv, BouncesJudged
<1>6. \A o \in Runners : o # r /\ running[o].pc = "bouncing" /\ running[o].contact \notin raced =>
        running[o].contact # q.contact
  BY <1>1 DEF BounceInv, BouncesJudged
<1>7. SoftRunSuppresses'
  <2> SUFFICES ASSUME NEW c \in Contacts,
                      ConsecutiveSoftBounces(attempts'[c]) >= SoftBounceSuppressThreshold
               PROVE  c \in suppression' \cup raced'
    BY DEF SoftRunSuppresses
  <2>1. CASE c = q.contact
    BY <1>2, <1>4, <1>5, <2>1
  <2>2. CASE c # q.contact
    BY <1>2, <1>4, <2>2 DEF BounceInv, SoftRunSuppresses
  <2>3. QED
    BY <2>1, <2>2
<1> HIDE DEF q
<1>8. BouncesJudged'
  <2> SUFFICES ASSUME NEW o \in Runners, running'[o].pc = "bouncing", running'[o].contact \notin raced'
               PROVE  /\ \A p \in Runners : running'[p].pc = "bouncing"
                              /\ running'[p].contact = running'[o].contact => p = o
                      /\ ConsecutiveSoftBounces(WithBounce(attempts', running'[o])) >= SoftBounceSuppressThreshold =>
                           running'[o].suppress
    BY DEF BouncesJudged
  <2>1. /\ o # r /\ running'[o] = running[o] /\ running[o].contact \notin raced
        /\ running[o].contact \in Contacts
    BY <1>2, <1>3, RunningFields DEF Bouncing
  <2>2. attempts'[running[o].contact] = attempts[running[o].contact]
    BY <1>4, <1>6, <2>1
  <2>3. WithBounce(attempts', running'[o]) = WithBounce(attempts, running[o])
    BY <2>1, <2>2 DEF WithBounce
  <2>4. QED
    BY <1>3, <2>1, <2>3 DEF BounceInv, BouncesJudged
<1>9. QED
  BY <1>7, <1>8 DEF BounceInv

LEMMA NextBounces == TypeOK /\ BounceInv /\ [OutboundNext]_outboundVars => BounceInv'
<1> SUFFICES ASSUME TypeOK, BounceInv, [OutboundNext]_outboundVars PROVE BounceInv'
  OBVIOUS
<1> DEFINE Waits == /\ UNCHANGED attempts /\ suppression \subseteq suppression' /\ raced \subseteq raced'
                    /\ \A r \in Runners : running'[r].pc = "bouncing" => running'[r] = running[r]
<1>1. ASSUME NEW r \in Runners, Preflight(r) \/ StepRollsBack(r) PROVE Waits
  <2>1. UNCHANGED <<attempts, suppression, raced>>
    BY <1>1 DEF Preflight, StepRollsBack
  <2>2. running'[r].pc # "bouncing" /\ \A o \in Runners : o = r \/ running'[o] = running[o]
    BY <1>1 DEF Preflight, StepRollsBack, AtRest, TypeOK
  <2>3. QED
    BY <2>1, <2>2
<1>2. ASSUME NEW e \in ProviderEvents,
             handleWebhook(e) \/ Upsert(e) \/ Acknowledged(e) \/ IngestFails(e)
      PROVE  Waits
  BY <1>2 DEF handleWebhook, Upsert, Acknowledged, IngestFails, sequenceVars
<1>3. ASSUME NEW m \in Messages,
             Send(m) \/ Suppressed(m) \/ ProviderSend(m) \/ Requested(m) \/ SendFails(m)
      PROVE  Waits
  BY <1>3 DEF Send, Suppressed, ProviderSend, Requested, SendFails, sequenceVars
<1>4. CASE WindowPasses \/ UNCHANGED outboundVars
  BY <1>4, BouncesWait DEF WindowPasses, outboundVars, sequenceVars
<1>5. Waits => BounceInv'
  BY BouncesWait
<1> HIDE DEF Waits
<1>6. QED
  BY <1>1, <1>2, <1>3, <1>4, <1>5, SendStepKeepsBounces, ApplyKeepsBounces, CommitKeepsBounces
     DEF OutboundNext

-----------------------------------------------------------------------------
LEMMA Invariant == OutboundSpec => [](TypeOK /\ OutboundInv)
<1>1. OutboundInit => TypeOK /\ HonourInv /\ LossesCounted /\ BounceInv
  BY InitTypeOK, InitHonour, InitLosses, InitBounces
<1>2. TypeOK /\ HonourInv /\ LossesCounted /\ BounceInv /\ [OutboundNext]_outboundVars =>
        (TypeOK /\ HonourInv /\ LossesCounted /\ BounceInv)'
  BY NextTypeOK, NextHonour, NextLosses, NextBounces
<1>3. TypeOK /\ HonourInv /\ LossesCounted /\ BounceInv => TypeOK /\ OutboundInv
  BY DEF HonourInv, BounceInv, OutboundInv
<1>4. QED
  BY <1>1, <1>2, <1>3, PTL DEF OutboundSpec

(* HonoursAcknowledged: what the webhook has acknowledged no later send     *)
(* goes to (service.go 187-201, 247-255; preflight.go 76-95).               *)
THEOREM TheAcknowledgedAreHonoured == OutboundSpec => []HonoursAcknowledged
<1>1. TypeOK /\ OutboundInv => HonoursAcknowledged
  BY DEF OutboundInv
<1>2. QED
  BY Invariant, <1>1, PTL

(* TwiceOnlyAfterALoss: of the acceptances of a message all but one were    *)
(* never told to its caller (service.go 219-234).                           *)
THEOREM NoneTwiceWithoutALoss == OutboundSpec => []TwiceOnlyAfterALoss
<1>1. TypeOK /\ OutboundInv => TwiceOnlyAfterALoss
  <2> SUFFICES ASSUME TypeOK, OutboundInv, NEW m \in Messages
               PROVE  Cardinality(Accepted(m)) <= losses[m] + 1
    BY DEF TwiceOnlyAfterALoss, Accepted
  <2>1. Cardinality(Accepted(m)) <=
          losses[m] + (IF sending[m].pc \in {"accepted", "done"} THEN 1 ELSE 0)
    BY DEF OutboundInv, LossesCounted
  <2>2. Cardinality(Accepted(m)) \in Nat /\ losses[m] \in Nat
    BY AcceptedFinite DEF TypeOK
  <2>3. QED
    BY <2>1, <2>2
<1>2. QED
  BY Invariant, <1>1, PTL

(* SoftRunSuppresses: a run of soft bounces as long as the threshold        *)
(* suppresses, unless two bounces of the contact were applied at once       *)
(* (bounce.go 38-39, 74-159).                                               *)
THEOREM TheSoftRunSuppresses == OutboundSpec => []SoftRunSuppresses
<1>1. TypeOK /\ OutboundInv => SoftRunSuppresses
  BY DEF OutboundInv
<1>2. QED
  BY Invariant, <1>1, PTL
=============================================================================
