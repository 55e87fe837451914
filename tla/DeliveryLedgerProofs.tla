------------------------ MODULE DeliveryLedgerProofs ------------------------
(***************************************************************************)
(* Theorems about the delivery ledger for every value of its constants:    *)
(* any number of deliveries and dispatch_due invocations, any retry policy,*)
(* clock skew and bound.  TypeCorrect comes first.  LedgerInvariant is the *)
(* inductive strengthening behind the rest: ExclusiveWork, OneOpenAttempt, *)
(* NoReplayAfterAmbiguity and SendOnce are not inductive alone, because    *)
(* what a worker may do to an attempt depends on where its own invocation  *)
(* stands (JobShapeOf) and on how the earlier attempts ended (AttemptShape)*)
(* What the ledger promises rests on it too: that a claim stays within the *)
(* budget, that a call is for a new try, and that an answer is recorded    *)
(* only after a call, are facts about the job that takes the step.         *)
(***************************************************************************)
EXTENDS DeliveryLedger, TLAPS

\* An instant plus a delay is an instant: Horizon stands for all later ones.
LEMMA LaterType == \A t, delay \in Nat : t \in Times => Later(t, delay) \in Times
BY TimeAssumption DEF Later, Times

\* RetryPolicy::next_at returns an instant or nothing.
LEMMA NextAtType ==
    \A t \in Times, n \in Nat : NextAt(n, t) \in Times \cup {NoTime}
BY LaterType, TimeAssumption, DelaysAssumption DEF NextAt, Times

\* A scheduled attempt always has an instant, the provider's if not the policy's.
LEMMA ScheduleAtType ==
    \A o \in Observations, n \in Nat : ScheduleAt(n, o) \in Times
<1> SUFFICES ASSUME NEW o \in Observations, NEW n \in Nat PROVE ScheduleAt(n, o) \in Times
  OBVIOUS
<1>1. o.observedAt \in Times /\ o.retryAfter \in Nat
  BY TimeAssumption DEF Observations
<1>2. Later(o.observedAt, o.retryAfter) \in Times
  BY <1>1, LaterType DEF Times
<1>3. NextAt(n, o.observedAt) \in Times \cup {NoTime}
  BY <1>1, NextAtType
<1>4. NoTime < Later(o.observedAt, o.retryAfter)
  BY <1>2, TimeAssumption DEF Times, NoTime
<1> QED BY <1>2, <1>3, <1>4, TimeAssumption DEF ScheduleAt, Times, NoTime

\* A busy worker holds a delivery and an attempt; an observation once answered.
LEMMA JobShape ==
    ASSUME NEW j \in Jobs, j.stage # "idle"
    PROVE  /\ j.delivery \in Deliveries /\ j.attempt \in AttemptNumbers
           /\ j.revision \in Nat /\ j.now \in Times
           /\ j.stage \in {"selected", "claimed", "sent", "replied"}
           /\ j.stage = "replied" => j.observation \in Observations
           /\ j.stage # "replied" => j.observation = NoObservation
BY DEF Jobs, Idle

\* The stages follow each other within the type, on the same attempt.
LEMMA ClaimAdvance ==
    ASSUME NEW j \in Jobs, j.stage = "selected", NEW n,
           n = [j EXCEPT !.stage = "claimed", !.revision = 0]
    PROVE  /\ n \in Jobs /\ n.delivery = j.delivery /\ n.attempt = j.attempt
           /\ n.stage = "claimed"
<1>1. CASE j = Idle
  BY <1>1 DEF Idle
<1>2. CASE j \in [stage : {"selected", "claimed", "sent"}, delivery : Deliveries,
                  attempt : AttemptNumbers, revision : Nat, now : Times,
                  observation : {NoObservation}]
  <2>1. n \in [stage : {"claimed"}, delivery : Deliveries, attempt : AttemptNumbers,
               revision : Nat, now : Times, observation : {NoObservation}]
    BY <1>2
  <2>2. n.delivery = j.delivery /\ n.attempt = j.attempt /\ n.stage = "claimed"
    BY <1>2
  <2> QED BY <2>1, <2>2 DEF Jobs
<1>3. CASE j \in [stage : {"replied"}, delivery : Deliveries,
                  attempt : AttemptNumbers, revision : Nat, now : Times,
                  observation : Observations]
  BY <1>3
<1> QED BY <1>1, <1>2, <1>3 DEF Jobs

\* Calling the provider takes a claimed job to a sent one of the same attempt.
LEMMA SendAdvance ==
    ASSUME NEW j \in Jobs, j.stage = "claimed", NEW n, n = [j EXCEPT !.stage = "sent"]
    PROVE  /\ n \in Jobs /\ n.delivery = j.delivery /\ n.attempt = j.attempt
           /\ n.stage = "sent"
<1>1. CASE j = Idle
  BY <1>1 DEF Idle
<1>2. CASE j \in [stage : {"selected", "claimed", "sent"}, delivery : Deliveries,
                  attempt : AttemptNumbers, revision : Nat, now : Times,
                  observation : {NoObservation}]
  <2>1. n \in [stage : {"sent"}, delivery : Deliveries, attempt : AttemptNumbers,
               revision : Nat, now : Times, observation : {NoObservation}]
    BY <1>2
  <2>2. n.delivery = j.delivery /\ n.attempt = j.attempt /\ n.stage = "sent"
    BY <1>2
  <2> QED BY <2>1, <2>2 DEF Jobs
<1>3. CASE j \in [stage : {"replied"}, delivery : Deliveries,
                  attempt : AttemptNumbers, revision : Nat, now : Times,
                  observation : Observations]
  BY <1>3
<1> QED BY <1>1, <1>2, <1>3 DEF Jobs

\* An answer of the provider takes a sent job to a replied one that carries it.
LEMMA ReplyAdvance ==
    ASSUME NEW j \in Jobs, NEW o \in Observations, NEW n, j.stage = "sent",
           n = [j EXCEPT !.stage = "replied", !.observation = o]
    PROVE  /\ n \in Jobs /\ n.delivery = j.delivery /\ n.attempt = j.attempt
           /\ n.stage = "replied" /\ n.observation = o
<1>1. CASE j = Idle
  BY <1>1 DEF Idle
<1>2. CASE j \in [stage : {"selected", "claimed", "sent"}, delivery : Deliveries,
                  attempt : AttemptNumbers, revision : Nat, now : Times,
                  observation : {NoObservation}]
  <2>1. n \in [stage : {"replied"}, delivery : Deliveries, attempt : AttemptNumbers,
               revision : Nat, now : Times, observation : Observations]
    BY <1>2
  <2>2. n.delivery = j.delivery /\ n.attempt = j.attempt /\ n.stage = "replied" /\ n.observation = o
    BY <1>2
  <2> QED BY <2>1, <2>2 DEF Jobs
<1>3. CASE j \in [stage : {"replied"}, delivery : Deliveries,
                  attempt : AttemptNumbers, revision : Nat, now : Times,
                  observation : Observations]
  BY <1>3
<1> QED BY <1>1, <1>2, <1>3 DEF Jobs

\* The empty ledger is well typed.
LEMMA InitType == Init => TypeOK
BY AttemptsAssumption, TimeAssumption
DEF Init, TypeOK, Times, Statuses, Waiting, Terminal, NoTime, AttemptNumbers, Jobs

\* An UPDATE of a deliveries row with typed values keeps the row typed.
LEMMA UpdateType ==
    ASSUME TypeOK, NEW d \in Deliveries,
           NEW st \in Statuses, NEW at \in Times \cup {NoTime},
           NEW why \in FinalReasons \cup {"none"},
           UpdateDelivery(d, st, at, why)
    PROVE  /\ status' \in [Deliveries -> Statuses \cup {"absent"}]
           /\ revision' \in [Deliveries -> Nat]
           /\ nextAttemptAt' \in [Deliveries -> Times \cup {NoTime}]
           /\ finalReason' \in [Deliveries -> FinalReasons \cup {"none"}]
           /\ requestedAt' \in [Deliveries -> Times \cup {NoTime}]
BY DEF TypeOK, UpdateDelivery

\* Every transaction and every step of dispatch_due keeps the columns typed.
LEMMA TypeStep == TypeOK /\ [Next]_vars => TypeOK'
<1> SUFFICES ASSUME TypeOK, [Next]_vars PROVE TypeOK'
  OBVIOUS
<1> USE DEF TypeOK
<1>1. CASE UNCHANGED vars
  BY <1>1 DEF vars, deliveryVars, attemptVars, evidenceVars
<1>2. CASE Tick
  BY <1>2, TimeAssumption DEF Tick, Times, deliveryVars, attemptVars, evidenceVars
<1>3. ASSUME NEW d \in Deliveries, Create(d) PROVE TypeOK'
  <2>1. CASE StartIntent(d)
    BY <2>1 DEF StartIntent, attemptVars, evidenceVars
  <2>2. CASE RenderFailure(d)
    BY <2>2 DEF RenderFailure, attemptVars, evidenceVars
  <2>3. CASE PersistIntent(d)
    BY <2>3 DEF PersistIntent, attemptVars, evidenceVars, Statuses, Waiting
  <2> QED BY <1>3, <2>1, <2>2, <2>3 DEF Create
<1>4. ASSUME NEW w \in Workers, SelectDue(w) PROVE TypeOK'
  <2> USE <1>4
  <2>1. PICK d \in Deliveries : /\ attemptCount[d] < MaxAttempts
                              /\ job' = [job EXCEPT ![w] =
                     [stage |-> "selected", delivery |-> d,
                      attempt |-> attemptCount[d] + 1, revision |-> revision[d],
                      now |-> clock, observation |-> NoObservation]]
    BY DEF SelectDue, Due
  <2>2. attemptCount[d] + 1 \in AttemptNumbers
    BY <2>1, AttemptsAssumption DEF AttemptNumbers
  <2>3. job' \in [Workers -> Jobs]
    BY <2>1, <2>2 DEF Jobs
  <2> QED BY <2>3 DEF SelectDue, deliveryVars, attemptVars, evidenceVars
<1>5. ASSUME NEW w \in Workers, CommitClaim(w) PROVE TypeOK'
  <2> USE <1>5
  <2>1. /\ job[w].delivery \in Deliveries /\ job[w].attempt \in AttemptNumbers
        /\ job' \in [Workers -> Jobs]
    BY JobShape, ClaimAdvance DEF CommitClaim
  <2>2. job[w].attempt \in 0..MaxAttempts
    BY <2>1, AttemptsAssumption DEF AttemptNumbers
  <2>3. UpdateDelivery(job[w].delivery, "attempting", NoTime, finalReason[job[w].delivery])
    BY DEF CommitClaim
  <2>4. /\ attemptStatus' \in [Deliveries -> [AttemptNumbers -> AttemptStatuses \cup {"none"}]]
        /\ attemptCount' \in [Deliveries -> 0..MaxAttempts]
    BY <2>1, <2>2 DEF CommitClaim, AttemptStatuses
  <2> QED BY <2>1, <2>3, <2>4, UpdateType DEF CommitClaim, evidenceVars, Statuses
<1>6. ASSUME NEW w \in Workers, ClaimRefused(w) \/ ObservationRefused(w) \/ Abandon(w) PROVE TypeOK'
  BY <1>6 DEF ClaimRefused, ObservationRefused, Abandon, Finish, Jobs,
              deliveryVars, attemptVars, evidenceVars
<1>7. ASSUME NEW w \in Workers, Dispatch(w) PROVE TypeOK'
  <2>1. CASE Send(w)
    <3>1. job[w].delivery \in Deliveries /\ job[w].attempt \in AttemptNumbers
          /\ job' \in [Workers -> Jobs]
      BY <2>1, JobShape, SendAdvance DEF Send
    <3> QED BY <2>1, <3>1 DEF Send, deliveryVars, attemptVars, evidenceVars
  <2>2. ASSUME NEW truth \in Outcomes, NEW o \in Observations, Answered(w, truth, o)
        PROVE  TypeOK'
    <3>1. job[w].delivery \in Deliveries /\ job[w].attempt \in AttemptNumbers
          /\ job' \in [Workers -> Jobs]
      BY <2>2, JobShape, ReplyAdvance DEF Answered
    <3> QED BY <2>2, <3>1 DEF Answered, deliveryVars, attemptVars, evidenceVars
  <2>3. \A t \in Times, outcome \in Outcomes : OwnObservation(outcome, t) \in Observations
    BY TimeAssumption DEF OwnObservation, Observations
  <2>4. job[w].stage = "sent" => job[w].now \in Times
    BY JobShape
  <2>5. CASE ProviderResponds(w)
    BY <2>5, <2>2 DEF ProviderResponds, Observations, NearClock
  <2>6. CASE ProviderRejects(w)
    BY <2>6, <2>2, <2>3, <2>4 DEF ProviderRejects, Answered, Outcomes
  <2>7. CASE ProviderAmbiguous(w)
    BY <2>7, <2>2, <2>3, <2>4 DEF ProviderAmbiguous, Answered, UnknownDispatch, Outcomes
  <2> QED BY <1>7, <2>1, <2>5, <2>6, <2>7 DEF Dispatch
<1>8. ASSUME NEW w \in Workers, ApplyDispatch(w) PROVE TypeOK'
  <2> DEFINE d == job[w].delivery
             k == job[w].attempt
             o == job[w].observation
  <2>1. job[w].stage = "replied" =>
          d \in Deliveries /\ k \in AttemptNumbers /\ o \in Observations
    BY JobShape
  <2>2. ASSUME NEW outcome \in Outcomes, CloseAttempt(d, k, outcome), job[w].stage = "replied"
        PROVE  /\ attemptStatus' \in [Deliveries -> [AttemptNumbers -> AttemptStatuses \cup {"none"}]]
               /\ dispatchRecord' \in [Deliveries -> [AttemptNumbers -> Outcomes \cup {"none"}]]
    BY <2>1, <2>2 DEF CloseAttempt, AttemptStatuses
  <2>3. Finish(w) => job' \in [Workers -> Jobs]
    BY DEF Finish, Jobs
  <2>4. CASE RecordAccepted(w)
    <3> HIDE DEF d, k, o
    <3>1. receipts' \subseteq Receipts
      BY <2>4, <2>1 DEF RecordAccepted, Receipts, Observations, RemoteReceipts, d, k, o
    <3>2. UpdateDelivery(d, "accepted", nextAttemptAt[d], finalReason[d])
      BY <2>4 DEF RecordAccepted, d
    <3>3. CloseAttempt(d, k, "accepted") /\ job[w].stage = "replied"
      BY <2>4 DEF RecordAccepted, d, k
    <3>4. "accepted" \in Outcomes /\ "accepted" \in Statuses
      BY DEF Outcomes, Statuses
    <3> QED BY <2>4, <2>1, <2>2, <2>3, <3>1, <3>2, <3>3, <3>4, UpdateType DEF RecordAccepted
  <2>5. ASSUME NEW decision \in {"scheduled", "rejected"}, NEW at \in Times \cup {NoTime},
               job[w].stage = "replied",
               retryRequests' = retryRequests \cup {AutomaticDecision(d, k, decision, at)}
        PROVE  retryRequests' \subseteq RetryRequests
    BY <2>1, <2>5 DEF AutomaticDecision, RetryRequests
  <2>6. CASE RecordTemporary(w)
    <3> DEFINE at == ScheduleAt(attemptCount[d], o)
    <3>1. at \in Times
      BY <2>6, <2>1, ScheduleAtType, AttemptsAssumption DEF RecordTemporary
    <3> HIDE DEF d, k, o, at
    <3>2. /\ UpdateDelivery(d, "retry_scheduled", at, finalReason[d])
          /\ CloseAttempt(d, k, "temporary_failure") /\ job[w].stage = "replied"
          /\ retryRequests' = retryRequests \cup {AutomaticDecision(d, k, "scheduled", at)}
      BY <2>6 DEF RecordTemporary, d, k, o, at
    <3>3. "temporary_failure" \in Outcomes /\ "retry_scheduled" \in Statuses
      BY DEF Outcomes, Statuses, Waiting
    <3> QED BY <2>6, <2>1, <2>2, <2>3, <2>5, <3>1, <3>2, <3>3, UpdateType DEF RecordTemporary
  <2>7. CASE RecordExhausted(w)
    <3> HIDE DEF d, k, o
    <3>2. /\ UpdateDelivery(d, "failed", NoTime, "retry_exhausted")
          /\ CloseAttempt(d, k, "temporary_failure") /\ job[w].stage = "replied"
          /\ retryRequests' = retryRequests \cup {AutomaticDecision(d, k, "rejected", NoTime)}
      BY <2>7 DEF RecordExhausted, d, k, o
    <3>3. "temporary_failure" \in Outcomes /\ "failed" \in Statuses
          /\ "retry_exhausted" \in FinalReasons
      BY DEF Outcomes, Statuses, Terminal, FinalReasons
    <3> QED BY <2>7, <2>1, <2>2, <2>3, <2>5, <3>2, <3>3, UpdateType DEF RecordExhausted
  <2>8. CASE RecordPermanent(w)
    <3> HIDE DEF d, k, o
    <3>2. /\ UpdateDelivery(d, "failed", NoTime, "permanent_failure")
          /\ CloseAttempt(d, k, "permanent_failure") /\ job[w].stage = "replied"
      BY <2>8 DEF RecordPermanent, d, k, o
    <3>3. "permanent_failure" \in Outcomes /\ "failed" \in Statuses
          /\ "permanent_failure" \in FinalReasons
      BY DEF Outcomes, Statuses, Terminal, FinalReasons
    <3> QED BY <2>8, <2>1, <2>2, <2>3, <3>2, <3>3, UpdateType DEF RecordPermanent, evidenceVars
  <2>9. CASE RecordUnknown(w)
    <3> HIDE DEF d, k, o
    <3>2. /\ UpdateDelivery(d, "delivery_unknown", NoTime, "ambiguous_external_effect")
          /\ CloseAttempt(d, k, "delivery_unknown") /\ job[w].stage = "replied"
      BY <2>9 DEF RecordUnknown, d, k, o
    <3>3. "delivery_unknown" \in Outcomes /\ "delivery_unknown" \in Statuses
          /\ "ambiguous_external_effect" \in FinalReasons
      BY DEF Outcomes, Statuses, Terminal, FinalReasons
    <3> QED BY <2>9, <2>1, <2>2, <2>3, <3>2, <3>3, UpdateType DEF RecordUnknown, evidenceVars
  <2>10. CASE AbsorbLate(w)
    <3>1. o.outcome \in Outcomes
      BY <2>10, <2>1 DEF AbsorbLate, Observations
    <3> QED BY <2>10, <2>1, <2>3, <3>1 DEF AbsorbLate, deliveryVars, evidenceVars
  <2> QED BY <1>6, <1>8, <2>4, <2>6, <2>7, <2>8, <2>9, <2>10 DEF ApplyDispatch
<1>9. CASE ObserveReceipt
  <2> PICK i \in ObservationIds, r \in ReceiptObservations :
        RecordReceipt(i, r) \/ AcknowledgeReceipt(i, r)
    BY <1>9 DEF ObserveReceipt
  <2>1. /\ r.delivery \in Deliveries /\ r.attempt \in AttemptNumbers
        /\ r.kind \in ReceiptKinds /\ r \in Receipts
    BY DEF ReceiptObservations, Receipts
  <2>2. CASE RecordReceipt(i, r)
    <3>1. attemptStatus' \in [Deliveries -> [AttemptNumbers -> AttemptStatuses \cup {"none"}]]
      <4>1. \E st \in AttemptStatuses :
              attemptStatus' = [attemptStatus EXCEPT ![r.delivery][r.attempt] = st]
        BY <2>2 DEF RecordReceipt, AttemptStatuses, Outcomes
      <4> QED BY <2>1, <4>1
    <3>2. \/ UpdateDelivery(r.delivery, "delivered", nextAttemptAt[r.delivery],
                           "authoritative_delivery_receipt")
          \/ r.kind \in {"bounced", "rejected"}
             /\ UpdateDelivery(r.delivery, "failed", NoTime, r.kind)
      BY <2>2 DEF RecordReceipt
    <3>3. {"delivered", "failed"} \subseteq Statuses
          /\ {"authoritative_delivery_receipt", "bounced", "rejected"} \subseteq FinalReasons
      BY DEF Statuses, Terminal, FinalReasons
    <3>4. /\ status' \in [Deliveries -> Statuses \cup {"absent"}]
          /\ revision' \in [Deliveries -> Nat]
          /\ nextAttemptAt' \in [Deliveries -> Times \cup {NoTime}]
          /\ finalReason' \in [Deliveries -> FinalReasons \cup {"none"}]
          /\ requestedAt' \in [Deliveries -> Times \cup {NoTime}]
      BY <2>1, <3>2, <3>3, UpdateType
    <3> QED BY <2>1, <2>2, <3>1, <3>4 DEF RecordReceipt
  <2>3. CASE AcknowledgeReceipt(i, r)
    BY <2>1, <2>3 DEF AcknowledgeReceipt, deliveryVars, attemptVars
  <2> QED BY <2>2, <2>3
<1>10. CASE ObserveInvitation
  <2> PICK i \in ObservationIds, s \in Subjects, l \in Lifecycles, t \in NearClock :
        ObserveLifecycle(i, [subject |-> s, lifecycle |-> l, observedAt |-> t])
    BY <1>10 DEF ObserveInvitation
  <2> DEFINE e == [subject |-> s, lifecycle |-> l, observedAt |-> t]
  <2>1. e \in LifecycleObservations
    BY DEF LifecycleObservations, NearClock
  <2>2. CancelReason[l] \in FinalReasons
    BY LifecyclesAssumption DEF FinalReasons, CancelReasons, CancelReason
  <2>3. "failed" \in Statuses
    BY DEF Statuses, Terminal
  <2>4. ObserveLifecycle(i, e) /\ e.lifecycle = l
    OBVIOUS
  <2> HIDE DEF e
  <2> QED BY <2>1, <2>2, <2>3, <2>4 DEF ObserveLifecycle, attemptVars
<1>11. ASSUME NEW d \in Deliveries, NEW key \in RetryKeys, ManualRetry(d, key) PROVE TypeOK'
  <2>1. retryRequests' \subseteq RetryRequests
    BY <1>11 DEF ManualRetry, RetryRequests
  <2>2. UpdateDelivery(d, "retry_scheduled", clock, finalReason[d])
    BY <1>11 DEF ManualRetry
  <2> QED BY <1>11, <2>1, <2>2, UpdateType DEF ManualRetry, Statuses, Waiting, attemptVars
<1> QED
  BY <1>1, <1>2, <1>3, <1>4, <1>5, <1>6, <1>7, <1>8, <1>9, <1>10, <1>11 DEF Next, Claim

\* Every column holds a value of its type in every reachable state, whatever
\* the constants: the typing part of the ledger's correctness.
THEOREM TypeCorrect == Spec => []TypeOK
<1>1. Init => TypeOK
  BY InitType
<1>2. TypeOK /\ [Next]_vars => TypeOK'
  BY TypeStep
<1> QED BY <1>1, <1>2, PTL DEF Spec

-----------------------------------------------------------------------------
(* The inductive invariant.                                                  *)

LedgerParts ==
    /\ ExclusiveWork
    /\ \A d \in Deliveries : DeliveryShape(d)
    /\ \A w \in Workers : JobShapeOf(w)

\* A delivery whose row, attempts and history stay as they are keeps its shape;
\* receipts are only ever added.
LEMMA DeliveryFrame ==
    ASSUME NEW e \in Deliveries, DeliveryShape(e),
           status'[e] = status[e], attemptCount'[e] = attemptCount[e],
           finalReason'[e] = finalReason[e], attemptStatus'[e] = attemptStatus[e],
           effect'[e] = effect[e], receipts \subseteq receipts'
    PROVE  DeliveryShape(e)'
BY DEF DeliveryShape, AttemptShape

\* A job that stays as it is, on a delivery that does, keeps its shape.
LEMMA JobFrame ==
    ASSUME NEW v \in Workers, JobShapeOf(v), job'[v] = job[v],
           status'[job[v].delivery] = status[job[v].delivery],
           attemptCount'[job[v].delivery] = attemptCount[job[v].delivery],
           finalReason'[job[v].delivery] = finalReason[job[v].delivery],
           attemptStatus'[job[v].delivery] = attemptStatus[job[v].delivery],
           effect'[job[v].delivery] = effect[job[v].delivery]
    PROVE  JobShapeOf(v)'
BY DEF JobShapeOf

\* A worker with nothing to do satisfies every condition on its job.
LEMMA IdleShape ==
    ASSUME NEW v \in Workers, job'[v].stage = "idle"
    PROVE  JobShapeOf(v)'
BY DEF JobShapeOf

\* What a step of worker w on its delivery d has to show: the others work on
\* other deliveries, so it is enough that it changes d only.
LEMMA OwnJobStep ==
    ASSUME TypeOK, LedgerParts, NEW w \in Workers, NEW d \in Deliveries, NEW j,
           job[w].stage # "idle", job[w].delivery = d, job' = [job EXCEPT ![w] = j],
           j.stage = "idle" \/ j.delivery = d,
           \A e \in Deliveries : e # d =>
               /\ status'[e] = status[e] /\ attemptCount'[e] = attemptCount[e]
               /\ finalReason'[e] = finalReason[e]
               /\ attemptStatus'[e] = attemptStatus[e] /\ effect'[e] = effect[e],
           receipts \subseteq receipts',
           DeliveryShape(d)',
           JobShapeOf(w)'
    PROVE  LedgerParts'
<1>1. job \in [Workers -> Jobs] /\ job'[w] = j
      /\ \A v \in Workers : v # w => job'[v] = job[v]
  BY DEF TypeOK
<1>2. ExclusiveWork'
  BY <1>1 DEF ExclusiveWork, LedgerParts
<1>3. ASSUME NEW e \in Deliveries PROVE DeliveryShape(e)'
  <2>1. CASE e = d
    BY <2>1
  <2>2. CASE e # d
    BY <2>2, DeliveryFrame DEF LedgerParts
  <2> QED BY <2>1, <2>2
<1>4. ASSUME NEW v \in Workers PROVE JobShapeOf(v)'
  <2>1. CASE v = w
    BY <2>1
  <2>2. CASE v # w /\ job[v].stage = "idle"
    BY <2>2, <1>1, IdleShape
  <2>3. CASE v # w /\ job[v].stage # "idle"
    <3>1. job[v].delivery \in Deliveries /\ job[v].delivery # d
      BY <2>3, <1>1, JobShape DEF ExclusiveWork, LedgerParts
    <3> QED BY <2>3, <3>1, <1>1, JobFrame DEF LedgerParts
  <2> QED BY <2>1, <2>2, <2>3
<1> QED BY <1>2, <1>3, <1>4 DEF LedgerParts

\* An attempt k is closed, or nothing is, and its delivery moves to st: to
\* waiting only after a temporary failure, and past an open attempt only by a
\* receipt for an earlier one.
LEMMA SettleShape ==
    ASSUME TypeOK, NEW d \in Deliveries, DeliveryShape(d), NEW k \in AttemptNumbers,
           k <= attemptCount[d],
           status'[d] \notin {"absent", "queued", "attempting"},
           attemptCount'[d] = attemptCount[d], effect'[d] = effect[d],
           status'[d] \notin Terminal => finalReason'[d] = "none",
           status'[d] \in Waiting => effect[d][attemptCount[d]] = "temporary_failure",
           attemptStatus'[d][k] # "dispatching",
           \A i \in AttemptNumbers : i # k => attemptStatus'[d][i] = attemptStatus[d][i],
           receipts \subseteq receipts',
           \/ k = attemptCount[d]
           \/ /\ status'[d] \in {"delivered", "failed"}
              /\ \E r \in receipts' : r.delivery = d /\ r.attempt = k
    PROVE  DeliveryShape(d)'
<1>1. attemptCount[d] \in 0..MaxAttempts
  BY DEF TypeOK
<1>2. ASSUME NEW i \in AttemptNumbers PROVE AttemptShape(d, i)'
  <2>1. AttemptShape(d, i)
    BY DEF DeliveryShape
  <2>2. i \in Int /\ k \in Int /\ attemptCount[d] \in Int
    BY <1>1, AttemptsAssumption DEF AttemptNumbers
  <2>3. CASE i = k
    BY <2>1, <2>2, <2>3 DEF AttemptShape
  <2>4. CASE i # k /\ i # attemptCount[d]
    BY <2>1, <2>2, <2>4 DEF AttemptShape
  <2>5. CASE i # k /\ i = attemptCount[d]
    BY <2>1, <2>2, <2>5 DEF AttemptShape
  <2> QED BY <2>3, <2>4, <2>5
<1> QED BY <1>2 DEF DeliveryShape

\* The empty ledger satisfies the inductive invariant.
LEMMA InitParts == Init => LedgerParts
<1> SUFFICES ASSUME Init PROVE LedgerParts
  OBVIOUS
<1>1. ExclusiveWork
  BY DEF Init, ExclusiveWork, Idle
<1>2. ASSUME NEW d \in Deliveries PROVE DeliveryShape(d)
  BY DEF Init, DeliveryShape, AttemptShape, Waiting, Terminal, AttemptNumbers
<1>3. ASSUME NEW w \in Workers PROVE JobShapeOf(w)
  BY DEF Init, JobShapeOf, Idle
<1> QED BY <1>1, <1>2, <1>3 DEF LedgerParts

\* Steps that touch neither rows, attempts, history nor jobs.
LEMMA QuietStep ==
    ASSUME LedgerParts,
           UNCHANGED <<status, attemptCount, finalReason, attemptStatus, effect, job>>,
           receipts \subseteq receipts'
    PROVE  LedgerParts'
<1>1. ExclusiveWork'
  BY DEF LedgerParts, ExclusiveWork
<1>2. ASSUME NEW d \in Deliveries PROVE DeliveryShape(d)'
  BY DeliveryFrame DEF LedgerParts
<1>3. ASSUME NEW w \in Workers PROVE JobShapeOf(w)'
  BY JobFrame DEF LedgerParts
<1> QED BY <1>1, <1>2, <1>3 DEF LedgerParts

\* Steps of nobody's job that change only deliveries no worker works on.
LEMMA OutsideStep ==
    ASSUME TypeOK, LedgerParts, UNCHANGED <<job, attemptCount, attemptStatus, effect>>,
           receipts \subseteq receipts', NEW D \in SUBSET Deliveries,
           \A v \in Workers : job[v].stage # "idle" => job[v].delivery \notin D,
           \A e \in Deliveries \ D :
               status'[e] = status[e] /\ finalReason'[e] = finalReason[e],
           \A e \in D : DeliveryShape(e)'
    PROVE  LedgerParts'
<1>1. ExclusiveWork'
  BY DEF LedgerParts, ExclusiveWork
<1>2. ASSUME NEW e \in Deliveries PROVE DeliveryShape(e)'
  BY DeliveryFrame DEF LedgerParts
<1>3. ASSUME NEW v \in Workers PROVE JobShapeOf(v)'
  <2>1. CASE job[v].stage = "idle"
    BY <2>1, IdleShape
  <2>2. CASE job[v].stage # "idle"
    <3>1. job[v].delivery \in Deliveries \ D
      BY <2>2, JobShape DEF TypeOK
    <3> QED BY <3>1, JobFrame DEF LedgerParts
  <2> QED BY <2>1, <2>2
<1> QED BY <1>1, <1>2, <1>3 DEF LedgerParts

\* The create calls: a delivery appears in the queue, without attempts.
LEMMA PersistStep ==
    ASSUME TypeOK, LedgerParts, NEW d \in Deliveries, PersistIntent(d)
    PROVE  LedgerParts'
<1>1. /\ status[d] = "absent" /\ status' = [status EXCEPT ![d] = "queued"]
      /\ UNCHANGED <<job, attemptCount, finalReason, attemptStatus, effect, receipts>>
  BY DEF PersistIntent, attemptVars, evidenceVars
<1>2. ASSUME NEW v \in Workers, job[v].stage # "idle" PROVE job[v].delivery # d
  BY <1>1, <1>2, JobShape DEF LedgerParts, JobShapeOf, Waiting, TypeOK
<1>3. \A e \in Deliveries : e # d => status'[e] = status[e]
  BY <1>1 DEF TypeOK
<1>4. status'[d] = "queued" /\ attemptCount[d] = 0 /\ finalReason[d] = "none"
  BY <1>1 DEF TypeOK, LedgerParts, DeliveryShape, Terminal
<1>5. ASSUME NEW k \in AttemptNumbers PROVE AttemptShape(d, k)'
  <2>1. AttemptShape(d, k) /\ k \in Nat \ {0}
    BY DEF LedgerParts, DeliveryShape, AttemptNumbers
  <2> QED BY <2>1, <1>1, <1>4 DEF AttemptShape
<1>6. DeliveryShape(d)'
  BY <1>1, <1>4, <1>5 DEF DeliveryShape
<1> DEFINE D == {d}
<1>7. /\ D \in SUBSET Deliveries
      /\ \A v \in Workers : job[v].stage # "idle" => job[v].delivery \notin D
      /\ \A e \in Deliveries \ D : status'[e] = status[e] /\ finalReason'[e] = finalReason[e]
  BY <1>1, <1>2, <1>3
<1>8. \A e \in D : DeliveryShape(e)'
  BY <1>6
<1> HIDE DEF D
<1> QED BY <1>1, <1>7, <1>8, OutsideStep

\* Selecting a due delivery: skip locked keeps it from every other worker.
LEMMA SelectStep ==
    ASSUME TypeOK, LedgerParts, NEW w \in Workers, SelectDue(w)
    PROVE  LedgerParts'
<1> USE DEF LedgerParts, TypeOK
<1>1. PICK d \in Deliveries :
        /\ Due(d, clock) /\ ~Locked(d)
        /\ job' = [job EXCEPT ![w] =
                     [stage |-> "selected", delivery |-> d,
                      attempt |-> attemptCount[d] + 1, revision |-> revision[d],
                      now |-> clock, observation |-> NoObservation]]
  BY DEF SelectDue
<1>2. UNCHANGED <<status, attemptCount, finalReason, attemptStatus, effect, receipts>>
  BY DEF SelectDue, deliveryVars, attemptVars, evidenceVars
<1>3. ASSUME NEW v \in Workers, v # w, job[v].stage # "idle" PROVE job[v].delivery # d
  <2>1. job[v].stage # "selected" => status[job[v].delivery] \notin Waiting
    BY <1>3, JobShape DEF JobShapeOf, Waiting
  <2> QED BY <1>1, <1>3, <2>1 DEF Locked, Due
<1>4. ExclusiveWork'
  BY <1>1, <1>3 DEF ExclusiveWork
<1>5. ASSUME NEW e \in Deliveries PROVE DeliveryShape(e)'
  BY <1>2, DeliveryFrame
<1>6. ASSUME NEW v \in Workers PROVE JobShapeOf(v)'
  <2>1. CASE v # w
    BY <1>1, <1>2, <2>1, JobFrame
  <2>2. CASE v = w
    BY <1>1, <1>2, <2>2 DEF JobShapeOf, Due
  <2> QED BY <2>1, <2>2
<1> QED BY <1>4, <1>5, <1>6

\* Committing a claim opens the next attempt, the only open one.
LEMMA CommitStep ==
    ASSUME TypeOK, LedgerParts, NEW w \in Workers, CommitClaim(w)
    PROVE  LedgerParts'
<1>0. job[w] \in Jobs /\ job[w].stage = "selected"
  BY DEF CommitClaim, TypeOK
<1>01. PICK j : j = [job[w] EXCEPT !.stage = "claimed", !.revision = 0]
  OBVIOUS
<1>1. PICK d \in Deliveries, k \in AttemptNumbers :
        /\ job[w].delivery = d /\ job[w].attempt = k
        /\ j = [job[w] EXCEPT !.stage = "claimed", !.revision = 0]
        /\ j.stage = "claimed" /\ j.delivery = d /\ j.attempt = k
        /\ job[w].stage = "selected"
  <2>1. /\ j.delivery = job[w].delivery /\ j.attempt = job[w].attempt
        /\ j.stage = "claimed"
    BY <1>0, <1>01, ClaimAdvance
  <2>2. job[w].delivery \in Deliveries /\ job[w].attempt \in AttemptNumbers
    BY <1>0, JobShape
  <2> QED BY <1>0, <1>01, <2>1, <2>2
<1>2. /\ status' = [status EXCEPT ![d] = "attempting"]
      /\ finalReason' = [finalReason EXCEPT ![d] = finalReason[d]]
      /\ attemptStatus' = [attemptStatus EXCEPT ![d][k] = "dispatching"]
      /\ attemptCount' = [attemptCount EXCEPT ![d] = k]
      /\ job' = [job EXCEPT ![w] = j]
      /\ UNCHANGED <<effect, receipts>>
  BY <1>1 DEF CommitClaim, UpdateDelivery, evidenceVars
<1>3. status[d] \in Waiting /\ k = attemptCount[d] + 1 /\ DeliveryShape(d)
  BY <1>1 DEF JobShapeOf, LedgerParts
<1>4. /\ status'[d] = "attempting" /\ attemptCount'[d] = k /\ finalReason'[d] = finalReason[d]
      /\ attemptStatus'[d][k] = "dispatching"
      /\ \A i \in AttemptNumbers : i # k => attemptStatus'[d][i] = attemptStatus[d][i]
      /\ attemptCount[d] \in Int
  BY <1>2, AttemptsAssumption DEF TypeOK
<1>5. finalReason[d] = "none" /\ effect[d][k] = "none"
  <2>1. AttemptShape(d, k) /\ k > attemptCount[d]
    BY <1>3, <1>4 DEF DeliveryShape
  <2> QED BY <1>3, <2>1 DEF DeliveryShape, AttemptShape, Waiting, Terminal
<1>6. ASSUME NEW i \in AttemptNumbers PROVE AttemptShape(d, i)'
  <2>1. AttemptShape(d, i) /\ i \in Int
    BY <1>3, AttemptsAssumption DEF DeliveryShape, AttemptNumbers
  <2>2. CASE i = k
    BY <2>1, <2>2, <1>4 DEF AttemptShape, Waiting
  <2>3. CASE i > k
    BY <2>1, <2>3, <1>2, <1>3, <1>4 DEF AttemptShape
  <2>4. CASE i = attemptCount[d]
    BY <2>1, <2>4, <1>2, <1>3, <1>4 DEF AttemptShape, Waiting
  <2>5. CASE i < attemptCount[d]
    BY <2>1, <2>5, <1>2, <1>3, <1>4 DEF AttemptShape
  <2> QED BY <2>1, <2>2, <2>3, <2>4, <2>5, <1>3, <1>4
<1>7. DeliveryShape(d)'
  BY <1>4, <1>5, <1>6 DEF DeliveryShape
<1>8. JobShapeOf(w)'
  <2>1. "none" \notin CancelReasons
    BY DEF CancelReasons, CancelReason
  <2>2. job'[w] = j
    BY <1>2 DEF TypeOK
  <2>3. /\ job'[w].stage = "claimed" /\ job'[w].delivery = d /\ job'[w].attempt = k
        /\ k = attemptCount'[d] /\ status'[d] = "attempting"
        /\ attemptStatus'[d][k] = "dispatching" /\ effect'[d][k] = "none"
        /\ finalReason'[d] \notin CancelReasons
    BY <1>1, <1>2, <1>4, <1>5, <2>1, <2>2
  <2> QED BY <2>3 DEF JobShapeOf
<1>9. \A e \in Deliveries : e # d =>
          /\ status'[e] = status[e] /\ attemptCount'[e] = attemptCount[e]
          /\ finalReason'[e] = finalReason[e]
          /\ attemptStatus'[e] = attemptStatus[e] /\ effect'[e] = effect[e]
  BY <1>2 DEF TypeOK
<1> QED BY <1>1, <1>2, <1>7, <1>8, <1>9, OwnJobStep

\* A worker gives up: nothing but its job changes.
LEMMA FinishStep ==
    ASSUME TypeOK, LedgerParts, NEW w \in Workers, job[w].stage # "idle", Finish(w),
           UNCHANGED <<status, attemptCount, finalReason, attemptStatus, effect, receipts>>
    PROVE  LedgerParts'
<1>1. PICK d \in Deliveries : job[w].delivery = d
  BY JobShape DEF TypeOK
<1>2. job' = [job EXCEPT ![w] = Idle] /\ Idle.stage = "idle" /\ job'[w] = Idle
  BY DEF Finish, Idle, TypeOK
<1>3. DeliveryShape(d)'
  BY DeliveryFrame DEF LedgerParts
<1> QED BY <1>1, <1>2, <1>3, IdleShape, OwnJobStep

\* Calling the provider and getting its answer: the history of the attempt
\* follows the stage of the job that works on it.
LEMMA CallShape ==
    ASSUME TypeOK, LedgerParts, NEW w \in Workers, NEW x,
           NEW d \in Deliveries, NEW k \in AttemptNumbers,
           job[w].stage \in {"claimed", "sent"}, job[w].delivery = d, job[w].attempt = k,
           effect' = [effect EXCEPT ![d][k] = x],
           UNCHANGED <<status, attemptCount, finalReason, attemptStatus, receipts>>
    PROVE  DeliveryShape(d)'
<1>1. job[w].stage \in {"claimed", "sent"} /\ job[w].delivery = d /\ job[w].attempt = k
  OBVIOUS
<1>2. k = attemptCount[d] /\ status[d] \notin Waiting
  BY <1>1 DEF LedgerParts, JobShapeOf, Waiting
<1>3. ASSUME NEW i \in AttemptNumbers PROVE AttemptShape(d, i)'
  <2>1. AttemptShape(d, i) /\ i \in Int /\ k \in Int
    BY AttemptsAssumption DEF LedgerParts, DeliveryShape, AttemptNumbers
  <2>2. CASE i # k
    <3>1. effect'[d][i] = effect[d][i]
      BY <2>2 DEF TypeOK
    <3> QED BY <2>1, <3>1 DEF AttemptShape
  <2>3. CASE i = k
    BY <2>1, <2>3, <1>2 DEF AttemptShape
  <2> QED BY <2>2, <2>3
<1> QED BY <1>3 DEF LedgerParts, DeliveryShape

\* Calling the provider for a claimed attempt, for the first time.
LEMMA SendStep ==
    ASSUME TypeOK, LedgerParts, NEW w \in Workers, Send(w)
    PROVE  LedgerParts'
<1>1. job[w] \in Jobs /\ job[w].stage = "claimed"
  BY DEF Send, TypeOK
<1>2. PICK d \in Deliveries, k \in AttemptNumbers :
        job[w].delivery = d /\ job[w].attempt = k
  BY <1>1, JobShape
<1>3. PICK j : j = [job[w] EXCEPT !.stage = "sent"]
  OBVIOUS
<1>4. j.delivery = d /\ j.attempt = k /\ j.stage = "sent"
  BY <1>1, <1>2, <1>3, SendAdvance
<1>5. /\ effect' = [effect EXCEPT ![d][k] = "invoked"] /\ job' = [job EXCEPT ![w] = j]
      /\ UNCHANGED <<status, attemptCount, finalReason, attemptStatus, receipts>>
  BY <1>2, <1>3 DEF Send, deliveryVars, attemptVars, evidenceVars
<1>6. job'[w] = j /\ effect'[d][k] = "invoked"
      /\ \A e \in Deliveries : e # d => effect'[e] = effect[e]
  BY <1>5 DEF TypeOK
<1>7. DeliveryShape(d)'
  BY <1>1, <1>2, <1>5, CallShape
<1>8. JobShapeOf(w)'
  <2>1. k = attemptCount[d] /\ status[d] \in {"attempting", "delivered", "failed"}
    BY <1>1, <1>2 DEF LedgerParts, JobShapeOf
  <2> QED BY <2>1, <1>4, <1>5, <1>6 DEF JobShapeOf
<1> QED BY <1>1, <1>2, <1>4, <1>5, <1>6, <1>7, <1>8, OwnJobStep

\* The answer of the provider becomes the history of the attempt.
LEMMA AnswerStep ==
    ASSUME TypeOK, LedgerParts, NEW w \in Workers, NEW o \in Observations,
           Answered(w, o.outcome, o)
    PROVE  LedgerParts'
<1>1. job[w] \in Jobs /\ job[w].stage = "sent"
  BY DEF Answered, TypeOK
<1>2. PICK d \in Deliveries, k \in AttemptNumbers :
        job[w].delivery = d /\ job[w].attempt = k
  BY <1>1, JobShape
<1>3. PICK j : j = [job[w] EXCEPT !.stage = "replied", !.observation = o]
  OBVIOUS
<1>4. j.delivery = d /\ j.attempt = k /\ j.stage = "replied" /\ j.observation = o
  <2>1. PICK i \in Jobs : i = job[w]
    BY <1>1
  <2>2. i.stage = "sent" /\ j = [i EXCEPT !.stage = "replied", !.observation = o]
    BY <2>1, <1>1, <1>3
  <2>3. /\ j.delivery = i.delivery /\ j.attempt = i.attempt
        /\ j.stage = "replied" /\ j.observation = o
    BY <2>2, ReplyAdvance
  <2> QED BY <2>1, <2>3, <1>2
<1>5. /\ effect' = [effect EXCEPT ![d][k] = o.outcome] /\ job' = [job EXCEPT ![w] = j]
      /\ UNCHANGED <<status, attemptCount, finalReason, attemptStatus, receipts>>
  BY <1>2, <1>3 DEF Answered, deliveryVars, attemptVars, evidenceVars
<1>6. job'[w] = j /\ effect'[d][k] = o.outcome
      /\ \A e \in Deliveries : e # d => effect'[e] = effect[e]
  BY <1>5 DEF TypeOK
<1>7. DeliveryShape(d)'
  BY <1>1, <1>2, <1>5, CallShape
<1>8. JobShapeOf(w)'
  <2>1. k = attemptCount[d] /\ status[d] \in {"attempting", "delivered", "failed"}
    BY <1>1, <1>2 DEF LedgerParts, JobShapeOf
  <2> QED BY <2>1, <1>4, <1>5, <1>6 DEF JobShapeOf
<1> QED BY <1>1, <1>2, <1>4, <1>5, <1>6, <1>7, <1>8, OwnJobStep

\* The steps of dispatch_due outside any transaction.
LEMMA DispatchStep ==
    ASSUME TypeOK, LedgerParts, NEW w \in Workers, Dispatch(w)
    PROVE  LedgerParts'
<1>1. CASE Send(w)
  BY <1>1, SendStep
<1>2. CASE ProviderResponds(w)
  BY <1>2, AnswerStep DEF ProviderResponds, Observations, NearClock
<1>3. \A t \in Times, outcome \in Outcomes :
        OwnObservation(outcome, t) \in Observations
        /\ OwnObservation(outcome, t).outcome = outcome
  BY TimeAssumption DEF OwnObservation, Observations
<1>4. job[w].stage = "sent" => job[w].now \in Times
  BY JobShape DEF TypeOK
<1>5. CASE ProviderRejects(w)
  BY <1>3, <1>4, <1>5, AnswerStep DEF ProviderRejects, Answered, Outcomes
<1>6. CASE ProviderAmbiguous(w)
  BY <1>3, <1>4, <1>6, AnswerStep DEF ProviderAmbiguous, UnknownDispatch, Answered, Outcomes
<1> QED BY <1>1, <1>2, <1>5, <1>6 DEF Dispatch

\* Recording an observation: the attempt of the job is closed with the outcome
\* and its delivery leaves attempting.
LEMMA CloseStep ==
    ASSUME TypeOK, LedgerParts, NEW w \in Workers, NEW outcome \in Outcomes,
           NEW st \in Statuses \ {"queued", "attempting"}, NEW at, NEW why,
           job[w].stage = "replied", outcome = job[w].observation.outcome, Recordable(w),
           CloseAttempt(job[w].delivery, job[w].attempt, outcome),
           UpdateDelivery(job[w].delivery, st, at, why), Finish(w),
           UNCHANGED <<attemptCount, effect>>, receipts \subseteq receipts',
           st \notin Terminal => why = finalReason[job[w].delivery],
           st \in Waiting => outcome = "temporary_failure"
    PROVE  LedgerParts'
<1>1. PICK d \in Deliveries, k \in AttemptNumbers :
        job[w].delivery = d /\ job[w].attempt = k
  BY JobShape DEF TypeOK
<1>2. /\ k = attemptCount[d] /\ effect[d][k] = outcome /\ DeliveryShape(d)
      /\ status[d] = "attempting" /\ finalReason[d] = "none"
  BY <1>1 DEF LedgerParts, JobShapeOf, Recordable, DeliveryShape, Terminal
<1>3. /\ status' = [status EXCEPT ![d] = st] /\ finalReason' = [finalReason EXCEPT ![d] = why]
      /\ attemptStatus' = [attemptStatus EXCEPT ![d][k] = outcome]
      /\ job' = [job EXCEPT ![w] = Idle]
  BY <1>1 DEF CloseAttempt, UpdateDelivery, Finish
<1>4. /\ status'[d] = st /\ finalReason'[d] = why /\ attemptStatus'[d][k] = outcome
      /\ \A i \in AttemptNumbers : i # k => attemptStatus'[d][i] = attemptStatus[d][i]
      /\ job'[w] = Idle /\ Idle.stage = "idle"
  BY <1>3 DEF TypeOK, Idle
<1>5. \A e \in Deliveries : e # d =>
          /\ status'[e] = status[e] /\ attemptCount'[e] = attemptCount[e]
          /\ finalReason'[e] = finalReason[e]
          /\ attemptStatus'[e] = attemptStatus[e] /\ effect'[e] = effect[e]
  BY <1>3 DEF TypeOK
<1>6. /\ k <= attemptCount[d] /\ attemptStatus'[d][k] # "dispatching"
      /\ status'[d] \notin {"absent", "queued", "attempting"}
      /\ attemptCount'[d] = attemptCount[d] /\ effect'[d] = effect[d]
      /\ status'[d] \notin Terminal => finalReason'[d] = "none"
      /\ status'[d] \in Waiting => effect[d][attemptCount[d]] = "temporary_failure"
  BY <1>1, <1>2, <1>4, AttemptsAssumption
  DEF AttemptNumbers, Outcomes, Statuses, Waiting, Terminal
<1>7. DeliveryShape(d)'
  BY <1>2, <1>4, <1>6, SettleShape
<1>8. JobShapeOf(w)'
  BY <1>4, IdleShape
<1> QED BY <1>1, <1>3, <1>4, <1>5, <1>7, <1>8, OwnJobStep

\* Every outcome of apply_dispatch_observation.
LEMMA ApplyStep ==
    ASSUME TypeOK, LedgerParts, NEW w \in Workers, ApplyDispatch(w)
    PROVE  LedgerParts'
<1> DEFINE d == job[w].delivery
           k == job[w].attempt
<1>1. CASE RecordAccepted(w)
  <2>1. /\ CloseAttempt(d, k, "accepted") /\ job[w].stage = "replied" /\ Recordable(w)
        /\ UpdateDelivery(d, "accepted", nextAttemptAt[d], finalReason[d])
        /\ job[w].observation.outcome = "accepted" /\ Finish(w)
        /\ UNCHANGED <<attemptCount, effect>> /\ receipts \subseteq receipts'
    BY <1>1 DEF RecordAccepted
  <2>2. "accepted" \in Outcomes /\ "accepted" \in Statuses \ {"queued", "attempting"}
        /\ "accepted" \notin Waiting
    BY DEF Outcomes, Statuses, Waiting
  <2> QED BY <2>1, <2>2, CloseStep
<1>2. CASE RecordTemporary(w)
  <2>1. \E at : /\ CloseAttempt(d, k, "temporary_failure") /\ job[w].stage = "replied"
                /\ UpdateDelivery(d, "retry_scheduled", at, finalReason[d]) /\ Recordable(w)
                /\ job[w].observation.outcome = "temporary_failure" /\ Finish(w)
                /\ UNCHANGED <<attemptCount, effect, receipts>>
    BY <1>2 DEF RecordTemporary
  <2>2. /\ "temporary_failure" \in Outcomes /\ "retry_scheduled" \notin Terminal
        /\ "retry_scheduled" \in Statuses \ {"queued", "attempting"}
    BY DEF Outcomes, Statuses, Waiting, Terminal
  <2> QED BY <2>1, <2>2, CloseStep
<1>3. CASE RecordExhausted(w)
  <2>1. /\ CloseAttempt(d, k, "temporary_failure") /\ job[w].stage = "replied"
        /\ UpdateDelivery(d, "failed", NoTime, "retry_exhausted") /\ Recordable(w)
        /\ job[w].observation.outcome = "temporary_failure" /\ Finish(w)
        /\ UNCHANGED <<attemptCount, effect, receipts>>
    BY <1>3 DEF RecordExhausted
  <2>2. /\ "temporary_failure" \in Outcomes /\ "failed" \in Terminal
        /\ "failed" \in Statuses \ {"queued", "attempting"}
    BY DEF Outcomes, Statuses, Waiting, Terminal
  <2> QED BY <2>1, <2>2, CloseStep
<1>4. CASE RecordPermanent(w)
  <2>1. /\ CloseAttempt(d, k, "permanent_failure") /\ job[w].stage = "replied"
        /\ UpdateDelivery(d, "failed", NoTime, "permanent_failure") /\ Recordable(w)
        /\ job[w].observation.outcome = "permanent_failure" /\ Finish(w)
        /\ UNCHANGED <<attemptCount, effect, receipts>>
    BY <1>4 DEF RecordPermanent, evidenceVars
  <2>2. /\ "permanent_failure" \in Outcomes /\ "failed" \in Terminal
        /\ "failed" \in Statuses \ {"queued", "attempting"} /\ "failed" \notin Waiting
    BY DEF Outcomes, Statuses, Waiting, Terminal
  <2> QED BY <2>1, <2>2, CloseStep
<1>5. CASE RecordUnknown(w)
  <2>1. /\ CloseAttempt(d, k, "delivery_unknown") /\ job[w].stage = "replied"
        /\ UpdateDelivery(d, "delivery_unknown", NoTime, "ambiguous_external_effect")
        /\ job[w].observation.outcome = "delivery_unknown" /\ Finish(w) /\ Recordable(w)
        /\ UNCHANGED <<attemptCount, effect, receipts>>
    BY <1>5 DEF RecordUnknown, evidenceVars
  <2>2. /\ "delivery_unknown" \in Outcomes /\ "delivery_unknown" \in Terminal
        /\ "delivery_unknown" \in Statuses \ {"queued", "attempting"}
        /\ "delivery_unknown" \notin Waiting
    BY DEF Outcomes, Statuses, Waiting, Terminal
  <2> QED BY <2>1, <2>2, CloseStep
<1>6. CASE AbsorbLate(w)
  BY <1>6, FinishStep DEF AbsorbLate, deliveryVars, evidenceVars
<1>7. CASE ObservationRefused(w)
  BY <1>7, FinishStep DEF ObservationRefused, deliveryVars, attemptVars, evidenceVars
<1> QED BY <1>1, <1>2, <1>3, <1>4, <1>5, <1>6, <1>7 DEF ApplyDispatch

\* A receipt moves a delivery under a worker only once the provider has been
\* called for the attempt it names: a claim that was not sent is not disturbed.
LEMMA ReceiptStep ==
    ASSUME TypeOK, LedgerParts, NEW i \in ObservationIds, NEW r \in ReceiptObservations,
           RecordReceipt(i, r)
    PROVE  LedgerParts'
<1>1. PICK d \in Deliveries, k \in AttemptNumbers : r.delivery = d /\ r.attempt = k
  BY DEF ReceiptObservations
<1>2. PICK st \in {"delivered", "failed"}, why \in FinalReasons \ CancelReasons,
           a \in {"accepted", "permanent_failure"} :
        /\ status' = [status EXCEPT ![d] = st] /\ finalReason' = [finalReason EXCEPT ![d] = why]
        /\ attemptStatus' = [attemptStatus EXCEPT ![d][k] = a]
  <2>1. {"authoritative_delivery_receipt", "bounced", "rejected"}
          \subseteq FinalReasons \ CancelReasons
    BY DEF FinalReasons, CancelReasons, CancelReason
  <2> QED BY <1>1, <2>1 DEF RecordReceipt, UpdateDelivery
<1>3. /\ effect[d][k] # "none" /\ status[d] \in {"attempting", "accepted"}
      /\ receipts' = receipts \cup {r} /\ UNCHANGED <<attemptCount, effect, job>>
  BY <1>1 DEF RecordReceipt, ReceiptAdmits
<1>4. /\ status'[d] = st /\ finalReason'[d] = why /\ attemptStatus'[d][k] = a
      /\ \A n \in AttemptNumbers : n # k => attemptStatus'[d][n] = attemptStatus[d][n]
      /\ \A e \in Deliveries : e # d => /\ status'[e] = status[e]
                                        /\ finalReason'[e] = finalReason[e]
                                        /\ attemptStatus'[e] = attemptStatus[e]
  BY <1>2 DEF TypeOK
<1>5. ASSUME NEW e \in Deliveries PROVE DeliveryShape(e)'
  <2>1. CASE e # d
    BY <2>1, <1>3, <1>4, DeliveryFrame DEF LedgerParts
  <2>2. CASE e = d
    <3>1. AttemptShape(d, k) /\ DeliveryShape(d) /\ k \in Int /\ attemptCount[d] \in Int
      BY AttemptsAssumption DEF LedgerParts, DeliveryShape, AttemptNumbers, TypeOK
    <3>2. k <= attemptCount[d]
      BY <3>1, <1>3 DEF AttemptShape
    <3>3. /\ status'[d] \notin {"absent", "queued", "attempting"}
          /\ attemptCount'[d] = attemptCount[d] /\ effect'[d] = effect[d]
          /\ status'[d] \in Terminal /\ status'[d] \notin Waiting
          /\ attemptStatus'[d][k] # "dispatching" /\ status'[d] \in {"delivered", "failed"}
          /\ receipts \subseteq receipts'
          /\ \E q \in receipts' : q.delivery = d /\ q.attempt = k
      BY <1>1, <1>3, <1>4 DEF Terminal, Waiting
    <3> QED BY <2>2, <1>4, <3>1, <3>2, <3>3, SettleShape
  <2> QED BY <2>1, <2>2
<1>6. ASSUME NEW v \in Workers PROVE JobShapeOf(v)'
  <2>1. CASE job[v].stage = "idle"
    BY <2>1, <1>3, IdleShape
  <2>2. CASE job[v].stage # "idle" /\ job[v].delivery # d
    BY <2>2, <1>3, <1>4, JobShape, JobFrame DEF LedgerParts, TypeOK
  <2>3. CASE job[v].stage # "idle" /\ job[v].delivery = d
    <3>1. JobShapeOf(v) /\ job[v].attempt \in AttemptNumbers
      BY <2>3, JobShape DEF LedgerParts, TypeOK
    <3>2. job[v].stage = "claimed" => job[v].attempt # k
      BY <2>3, <3>1, <1>3 DEF JobShapeOf
    <3> QED BY <2>3, <3>1, <3>2, <1>3, <1>4 DEF JobShapeOf, Waiting
  <2> QED BY <2>1, <2>2, <2>3
<1>7. ExclusiveWork'
  BY <1>3 DEF LedgerParts, ExclusiveWork
<1> QED BY <1>5, <1>6, <1>7 DEF LedgerParts

\* Waiting deliveries that nobody has selected move among themselves or fail.
LEMMA WaitingStep ==
    ASSUME TypeOK, LedgerParts, NEW D \in SUBSET Deliveries,
           \A e \in D : status[e] \in Waiting /\ ~Locked(e),
           \A e \in D : \/ status'[e] = "failed"
                        \/ /\ status[e] = "retry_scheduled" /\ status'[e] = "retry_scheduled"
                           /\ finalReason'[e] = finalReason[e],
           \A e \in Deliveries \ D :
               status'[e] = status[e] /\ finalReason'[e] = finalReason[e],
           UNCHANGED <<job, attemptCount, attemptStatus, effect, receipts>>
    PROVE  LedgerParts'
<1>1. ASSUME NEW v \in Workers, job[v].stage # "idle" PROVE job[v].delivery \notin D
  <2>1. CASE job[v].stage = "selected"
    BY <2>1 DEF Locked
  <2>2. CASE job[v].stage # "selected"
    <3>1. job[v].stage \in {"claimed", "sent", "replied"} /\ JobShapeOf(v)
      BY <2>2, <1>1, JobShape DEF LedgerParts, TypeOK
    <3> QED BY <3>1 DEF JobShapeOf, Waiting
  <2> QED BY <2>1, <2>2
<1>2. ASSUME NEW e \in D PROVE DeliveryShape(e)'
  <2>1. DeliveryShape(e) /\ status[e] \in Waiting
    BY DEF LedgerParts
  <2>2. ASSUME NEW k \in AttemptNumbers PROVE AttemptShape(e, k)'
    <3>1. AttemptShape(e, k)
      BY <2>1 DEF DeliveryShape
    <3> QED BY <2>1, <3>1 DEF AttemptShape, Waiting
  <2>3. status'[e] \in {"failed", "retry_scheduled"}
        /\ (status'[e] = "retry_scheduled" => finalReason'[e] = "none")
    BY <2>1 DEF DeliveryShape, Waiting, Terminal
  <2> QED BY <2>2, <2>3 DEF DeliveryShape, Terminal
<1> QED BY <1>1, <1>2, OutsideStep

\* An invitation lifecycle observation fails waiting work nobody has selected.
LEMMA LifecycleStep ==
    ASSUME TypeOK, LedgerParts, NEW i \in ObservationIds, NEW o, ObserveLifecycle(i, o)
    PROVE  LedgerParts'
<1> DEFINE D == {d \in Deliveries : Cancellable(d, o)}
<1>1. /\ \A e \in D : status[e] \in Waiting /\ ~Locked(e)
      /\ \A e \in D : status'[e] = "failed"
      /\ \A e \in Deliveries \ D :
             status'[e] = status[e] /\ finalReason'[e] = finalReason[e]
      /\ UNCHANGED <<job, attemptCount, attemptStatus, effect, receipts>>
  BY DEF ObserveLifecycle, Cancellable, attemptVars
<1>2. D \in SUBSET Deliveries
  OBVIOUS
<1> HIDE DEF D
<1> QED BY <1>1, <1>2, WaitingStep

\* A manual retry reschedules a delivery nobody has selected.
LEMMA ManualStep ==
    ASSUME TypeOK, LedgerParts, NEW d \in Deliveries, NEW key, ManualRetry(d, key)
    PROVE  LedgerParts'
<1> DEFINE D == {d}
<1>1. /\ status[d] = "retry_scheduled" /\ ~Locked(d)
      /\ status' = [status EXCEPT ![d] = "retry_scheduled"]
      /\ finalReason' = [finalReason EXCEPT ![d] = finalReason[d]]
      /\ UNCHANGED <<job, attemptCount, attemptStatus, effect, receipts>>
  BY DEF ManualRetry, RetryEligible, UpdateDelivery, attemptVars
<1>2. /\ D \in SUBSET Deliveries
      /\ \A e \in D : status[e] \in Waiting /\ ~Locked(e)
      /\ \A e \in D : /\ status[e] = "retry_scheduled" /\ status'[e] = "retry_scheduled"
                      /\ finalReason'[e] = finalReason[e]
      /\ \A e \in Deliveries \ D :
             status'[e] = status[e] /\ finalReason'[e] = finalReason[e]
  BY <1>1 DEF TypeOK, Waiting
<1> HIDE DEF D
<1> QED BY <1>1, <1>2, WaitingStep

\* Every step of the specification keeps the inductive invariant.
LEMMA PartsStep == TypeOK /\ LedgerParts /\ [Next]_vars => LedgerParts'
<1> SUFFICES ASSUME TypeOK, LedgerParts, [Next]_vars PROVE LedgerParts'
  OBVIOUS
<1>1. CASE UNCHANGED vars
  BY <1>1, QuietStep DEF vars, deliveryVars, attemptVars, evidenceVars
<1>2. CASE Tick
  BY <1>2, QuietStep DEF Tick, deliveryVars, attemptVars, evidenceVars
<1>3. ASSUME NEW d \in Deliveries, Create(d) PROVE LedgerParts'
  <2>1. CASE StartIntent(d)
    BY <2>1, QuietStep DEF StartIntent, attemptVars, evidenceVars
  <2>2. CASE RenderFailure(d)
    BY <2>2, QuietStep DEF RenderFailure, attemptVars, evidenceVars
  <2> QED BY <1>3, <2>1, <2>2, PersistStep DEF Create
<1>4. ASSUME NEW w \in Workers, Claim(w) PROVE LedgerParts'
  <2>1. CASE ClaimRefused(w)
    BY <2>1, FinishStep DEF ClaimRefused, Finish, deliveryVars, attemptVars, evidenceVars
  <2> QED BY <1>4, <2>1, SelectStep, CommitStep DEF Claim
<1>5. ASSUME NEW w \in Workers, Abandon(w) PROVE LedgerParts'
  BY <1>5, FinishStep DEF Abandon, deliveryVars, attemptVars, evidenceVars
<1>6. CASE ObserveReceipt
  <2> PICK i \in ObservationIds, r \in ReceiptObservations :
        RecordReceipt(i, r) \/ AcknowledgeReceipt(i, r)
    BY <1>6 DEF ObserveReceipt
  <2>1. CASE AcknowledgeReceipt(i, r)
    BY <2>1, QuietStep DEF AcknowledgeReceipt, deliveryVars, attemptVars
  <2> QED BY <2>1, ReceiptStep
<1>7. CASE ObserveInvitation
  BY <1>7, LifecycleStep DEF ObserveInvitation
<1> QED BY <1>1, <1>2, <1>3, <1>4, <1>5, <1>6, <1>7, DispatchStep, ApplyStep, ManualStep DEF Next

-----------------------------------------------------------------------------
(* The theorems.                                                             *)

\* The ledger's inductive invariant: types, one worker per delivery, attempts
\* used up in order, jobs in step with the attempts they work on.
THEOREM LedgerInvariantHolds == Spec => []LedgerInvariant
<1>1. Init => LedgerInvariant
  BY InitType, InitParts DEF LedgerInvariant, LedgerParts
<1>2. LedgerInvariant /\ [Next]_vars => LedgerInvariant'
  BY TypeStep, PartsStep DEF LedgerInvariant, LedgerParts
<1> QED BY <1>1, <1>2, PTL DEF Spec

\* However many dispatch_due invocations run, no two of them work on the same
\* delivery (the row lock and the compare-and-set of claim_one_due).
THEOREM WorkIsExclusive == Spec => []ExclusiveWork
<1>1. LedgerInvariant => ExclusiveWork
  BY DEF LedgerInvariant
<1> QED BY <1>1, LedgerInvariantHolds, PTL

\* Only the latest attempt of a delivery can be open, and only while the
\* delivery is attempting or was finished by a receipt for an earlier attempt.
THEOREM AttemptIsLatest == Spec => []OneOpenAttempt
<1>1. LedgerInvariant => OneOpenAttempt
  <2> SUFFICES ASSUME LedgerInvariant, NEW d \in Deliveries, NEW k \in AttemptNumbers,
                      attemptStatus[d][k] = "dispatching"
               PROVE  /\ k = attemptCount[d]
                      /\ \/ status[d] = "attempting"
                         \/ /\ status[d] \in {"delivered", "failed"}
                            /\ \E r \in receipts : r.delivery = d /\ r.attempt < k
    BY DEF OneOpenAttempt
  <2>1. AttemptShape(d, k) /\ k \in Int /\ attemptCount[d] \in Int
    BY AttemptsAssumption DEF LedgerInvariant, DeliveryShape, TypeOK, AttemptNumbers
  <2> QED BY <2>1 DEF AttemptShape
<1> QED BY <1>1, LedgerInvariantHolds, PTL

\* The provider is never asked again about a delivery unless it answered every
\* earlier attempt with a temporary failure: an ambiguous or lost answer is
\* never replayed.
THEOREM AmbiguityIsNeverReplayed == Spec => []NoReplayAfterAmbiguity
<1>1. LedgerInvariant => NoReplayAfterAmbiguity
  BY DEF LedgerInvariant, DeliveryShape, AttemptShape, NoReplayAfterAmbiguity
<1> QED BY <1>1, LedgerInvariantHolds, PTL

\* What a step may do to the history of calls.
LEMMA EffectStep ==
    ASSUME [Next]_vars
    PROVE  \/ effect' = effect
           \/ \E w \in Workers : Send(w)
           \/ \E w \in Workers, truth \in Outcomes : \E o : Answered(w, truth, o)
<1>1. CASE UNCHANGED vars
  BY <1>1 DEF vars
<1>2. CASE Tick
  BY <1>2 DEF Tick
<1>3. ASSUME NEW d \in Deliveries, Create(d) PROVE effect' = effect
  BY <1>3 DEF Create, StartIntent, RenderFailure, PersistIntent
<1>4. ASSUME NEW w \in Workers, Claim(w) \/ Abandon(w) PROVE effect' = effect
  BY <1>4 DEF Claim, SelectDue, CommitClaim, ClaimRefused, Abandon
<1>5. ASSUME NEW w \in Workers, ApplyDispatch(w) PROVE effect' = effect
  BY <1>5 DEF ApplyDispatch, RecordAccepted, RecordTemporary, RecordExhausted,
              RecordPermanent, RecordUnknown, AbsorbLate, ObservationRefused
<1>6. ASSUME NEW w \in Workers, Dispatch(w)
      PROVE  Send(w) \/ \E truth \in Outcomes : \E o : Answered(w, truth, o)
  <2>1. {"permanent_failure", "delivery_unknown"} \subseteq Outcomes
    BY DEF Outcomes
  <2> QED BY <1>6, <2>1 DEF Dispatch, ProviderResponds, ProviderRejects, ProviderAmbiguous
<1>7. CASE ObserveReceipt
  BY <1>7 DEF ObserveReceipt, RecordReceipt, AcknowledgeReceipt
<1>8. CASE ObserveInvitation
  BY <1>8 DEF ObserveInvitation, ObserveLifecycle
<1>9. ASSUME NEW d \in Deliveries, NEW key, ManualRetry(d, key) PROVE effect' = effect
  BY <1>9 DEF ManualRetry
<1> QED BY <1>1, <1>2, <1>3, <1>4, <1>5, <1>6, <1>7, <1>8, <1>9 DEF Next

\* The provider is called at most once for an attempt, while the attempt is the
\* open one of a delivery that no lifecycle observation has cancelled.
THEOREM ProviderCalledOnce == Spec => SendOnce
<1>1. ASSUME LedgerInvariant, [Next]_vars, NEW d \in Deliveries, NEW k \in AttemptNumbers,
             effect'[d][k] = "invoked", effect[d][k] # "invoked"
      PROVE  /\ effect[d][k] = "none"
             /\ attemptStatus[d][k] = "dispatching" /\ k = attemptCount[d]
             /\ finalReason[d] \notin CancelReasons
  <2>1. CASE effect' = effect
    BY <2>1, <1>1
  <2>2. ASSUME NEW w \in Workers, Send(w) PROVE job[w].delivery = d /\ job[w].attempt = k
    BY <2>2, <1>1, JobShape DEF Send, LedgerInvariant, TypeOK
  <2>3. ASSUME NEW w \in Workers, NEW truth \in Outcomes, NEW o, Answered(w, truth, o)
        PROVE  FALSE
    <3>1. truth # "invoked"
      BY DEF Outcomes
    <3>2. job[w].stage = "sent" /\ job[w] \in Jobs
      BY <2>3, <1>1 DEF Answered, LedgerInvariant, TypeOK
    <3>3. job[w].delivery \in Deliveries /\ job[w].attempt \in AttemptNumbers
      BY <3>2, JobShape
    <3> QED BY <2>3, <3>1, <3>3, <1>1 DEF Answered, LedgerInvariant, TypeOK
  <2>4. ASSUME NEW w \in Workers, Send(w)
        PROVE  /\ effect[d][k] = "none"
               /\ attemptStatus[d][k] = "dispatching" /\ k = attemptCount[d]
               /\ finalReason[d] \notin CancelReasons
    BY <2>2, <2>4, <1>1 DEF Send, LedgerInvariant, JobShapeOf
  <2> QED BY <1>1, <2>1, <2>3, <2>4, EffectStep
<1>2. LedgerInvariant /\ [Next]_vars =>
        [\A d \in Deliveries, k \in AttemptNumbers :
           effect'[d][k] = "invoked" /\ effect[d][k] # "invoked" =>
              /\ effect[d][k] = "none"
              /\ attemptStatus[d][k] = "dispatching" /\ k = attemptCount[d]
              /\ finalReason[d] \notin CancelReasons]_vars
  BY <1>1
<1> QED BY <1>2, LedgerInvariantHolds, PTL DEF Spec, SendOnce

-----------------------------------------------------------------------------
(* The row of a delivery *)

\* The columns of a delivery that was not created yet.
Fresh == \A d \in Deliveries : status[d] = "absent" => revision[d] = 0

\* A step leaves the row of d alone, or creates it or changes it from a state
\* that is not final, and counts the change.
Unmoved(d) == Row(d)' = Row(d) /\ revision'[d] = revision[d]
Counted(d) ==
    revision'[d] = revision[d] + 1 /\ status[d] \notin Terminal /\ status'[d] # "absent"

\* One UPDATE of a row touches no other row.
LEMMA UpdateCounts ==
    ASSUME TypeOK, NEW d \in Deliveries, NEW st \in Statuses, NEW at, NEW why,
           UpdateDelivery(d, st, at, why), status[d] \notin Terminal,
           \A e \in Deliveries \ {d} : attemptCount'[e] = attemptCount[e]
    PROVE  \A e \in Deliveries : Unmoved(e) \/ Counted(e)
BY DEF UpdateDelivery, TypeOK, Unmoved, Counted, Row, Statuses, Waiting, Terminal

\* No column of a delivery changes.
LEMMA NothingMoves ==
    ASSUME UNCHANGED <<status, revision, attemptCount, nextAttemptAt, finalReason>>
    PROVE  \A d \in Deliveries : Unmoved(d) \/ Counted(d)
BY DEF Unmoved, Row

\* Every transaction leaves each row alone or moves it as it should.
LEMMA RowStep ==
    ASSUME LedgerInvariant, Fresh, [Next]_vars
    PROVE  \A d \in Deliveries : Unmoved(d) \/ Counted(d)
<1>1. TypeOK
  BY DEF LedgerInvariant
<1>2. CASE UNCHANGED vars \/ Tick
  BY <1>2, NothingMoves DEF vars, Tick, deliveryVars
<1>3. ASSUME NEW d \in Deliveries, Create(d)
      PROVE  \A e \in Deliveries : Unmoved(e) \/ Counted(e)
  <2>1. CASE StartIntent(d) \/ RenderFailure(d)
    BY <2>1, NothingMoves DEF StartIntent, RenderFailure
  <2>2. CASE PersistIntent(d)
    BY <1>1, <2>2 DEF PersistIntent, Fresh, TypeOK, Unmoved, Counted, Row, Terminal
  <2> QED
    BY <1>3, <2>1, <2>2 DEF Create
<1>4. ASSUME NEW w \in Workers, Claim(w) \/ Dispatch(w) \/ Abandon(w)
      PROVE  \A e \in Deliveries : Unmoved(e) \/ Counted(e)
  <2>1. CASE CommitClaim(w)
    <3>1. job[w].delivery \in Deliveries /\ status[job[w].delivery] \notin Terminal
      BY <1>1, <2>1, JobShape DEF CommitClaim, Claimable, Waiting, Terminal, TypeOK
    <3>2. \A e \in Deliveries \ {job[w].delivery} : attemptCount'[e] = attemptCount[e]
      BY <1>1, <2>1 DEF CommitClaim, TypeOK
    <3> QED
      BY <1>1, <2>1, <3>1, <3>2, UpdateCounts DEF CommitClaim, Statuses
  <2>2. CASE ~CommitClaim(w)
    BY <1>4, <2>2, NothingMoves
       DEF Claim, SelectDue, ClaimRefused, Dispatch, Send, ProviderResponds, ProviderRejects,
           ProviderAmbiguous, Answered, Abandon, deliveryVars
  <2> QED
    BY <2>1, <2>2
<1>5. ASSUME NEW w \in Workers, ApplyDispatch(w)
      PROVE  \A e \in Deliveries : Unmoved(e) \/ Counted(e)
  <2>1. CASE AbsorbLate(w) \/ ObservationRefused(w)
    BY <2>1, NothingMoves DEF AbsorbLate, ObservationRefused, deliveryVars
  <2>2. CASE ~(AbsorbLate(w) \/ ObservationRefused(w))
    <3> DEFINE d == job[w].delivery
    <3>1. job[w].stage = "replied" /\ Recordable(w) /\ UNCHANGED attemptCount
          /\ \E st \in Statuses : \E at, why : UpdateDelivery(d, st, at, why)
      BY <1>5, <2>2 DEF ApplyDispatch, RecordAccepted, RecordTemporary, RecordExhausted,
                        RecordPermanent, RecordUnknown, Statuses, Waiting, Terminal
    <3>2. d \in Deliveries /\ status[d] \notin Terminal
      BY <1>1, <3>1, JobShape DEF Recordable, Terminal, TypeOK
    <3> QED
      BY <1>1, <3>1, <3>2, UpdateCounts
  <2> QED
    BY <2>1, <2>2
<1>6. ASSUME NEW i \in ObservationIds, NEW r \in ReceiptObservations,
             RecordReceipt(i, r) \/ AcknowledgeReceipt(i, r)
      PROVE  \A e \in Deliveries : Unmoved(e) \/ Counted(e)
  <2>1. CASE AcknowledgeReceipt(i, r)
    BY <2>1, NothingMoves DEF AcknowledgeReceipt, deliveryVars
  <2>2. CASE RecordReceipt(i, r)
    <3>1. UNCHANGED attemptCount /\ \E st \in Statuses : \E at, why : UpdateDelivery(r.delivery, st, at, why)
      BY <2>2 DEF RecordReceipt, Statuses, Terminal
    <3>2. r.delivery \in Deliveries /\ status[r.delivery] \notin Terminal
      BY <2>2 DEF RecordReceipt, ReceiptAdmits, Terminal, ReceiptObservations
    <3> QED
      BY <1>1, <3>1, <3>2, UpdateCounts
  <2> QED
    BY <1>6, <2>1, <2>2
<1>7. ASSUME NEW i \in ObservationIds, NEW o, ObserveLifecycle(i, o)
      PROVE  \A e \in Deliveries : Unmoved(e) \/ Counted(e)
  <2> TAKE e \in Deliveries
  <2>1. CASE Cancellable(e, o)
    BY <1>7, <2>1 DEF ObserveLifecycle, Cancellable, Waiting, Counted, Terminal
  <2>2. CASE ~Cancellable(e, o)
    BY <1>7, <2>2 DEF ObserveLifecycle, Unmoved, Row
  <2> QED
    BY <2>1, <2>2
<1>8. ASSUME NEW d \in Deliveries, NEW key \in RetryKeys, ManualRetry(d, key)
      PROVE  \A e \in Deliveries : Unmoved(e) \/ Counted(e)
  BY <1>1, <1>8, UpdateCounts DEF ManualRetry, RetryEligible, Terminal, Statuses, Waiting
<1> QED
  BY <1>2, <1>3, <1>4, <1>5, <1>6, <1>7, <1>8
     DEF Next, ObserveReceipt, ObserveInvitation

\* A step that gives a row a status gives it a revision too.
LEMMA FreshStep ==
    ASSUME LedgerInvariant, Fresh, [Next]_vars
    PROVE  Fresh'
<1> SUFFICES ASSUME NEW d \in Deliveries, status'[d] = "absent"
             PROVE  revision'[d] = 0
  BY DEF Fresh
<1>1. Unmoved(d) \/ Counted(d)
  BY RowStep
<1> QED
  BY <1>1 DEF Unmoved, Counted, Row, Fresh

LEMMA FreshHolds == Spec => []Fresh
<1>1. Init => Fresh
  BY DEF Init, Fresh
<1>2. LedgerInvariant /\ Fresh /\ [Next]_vars => Fresh'
  BY FreshStep
<1> QED BY <1>1, <1>2, LedgerInvariantHolds, PTL DEF Spec

\* Every change of a delivery increments its revision by exactly one, so that
\* compare-and-set on the revision is compare-and-set on the row.
THEOREM ChangesAreCounted == Spec => RevisionCountsChanges
<1>1. LedgerInvariant /\ Fresh /\ [Next]_vars =>
        [\A d \in Deliveries : \/ revision'[d] = revision[d] + 1
                               \/ revision'[d] = revision[d] /\ Row(d)' = Row(d)]_vars
  BY RowStep DEF Unmoved, Counted
<1> QED BY <1>1, LedgerInvariantHolds, FreshHolds, PTL DEF Spec, RevisionCountsChanges

\* A delivery that is delivered, failed or unknown stays as it is, whatever
\* arrives late (the status guards of every writer).
THEOREM SettledStays == Spec => TerminalAbsorbing
<1>1. LedgerInvariant /\ Fresh /\ [Next]_vars =>
        [\A d \in Deliveries : status[d] \in Terminal =>
           Row(d)' = Row(d) /\ revision'[d] = revision[d]]_vars
  BY RowStep DEF Unmoved, Counted
<1> QED BY <1>1, LedgerInvariantHolds, FreshHolds, PTL DEF Spec, TerminalAbsorbing

-----------------------------------------------------------------------------
(* The refinement *)

\* What the promise sees of the ledger.
PhaseOf == [d \in Deliveries |-> Phase(status[d])]
CallsOf == [d \in Deliveries |-> {k \in AttemptNumbers : effect[d][k] # "none"}]

Promised == [Promise!Next]_Promise!vars

\* A step that changes no phase, try or call is none of the promise.
LEMMA Invisible ==
    ASSUME UNCHANGED <<status, attemptCount>>,
           \A d \in Deliveries, k \in AttemptNumbers :
             effect'[d][k] # "none" <=> effect[d][k] # "none"
    PROVE  Promised
<1>1. UNCHANGED CallsOf
  BY DEF CallsOf
<1>2. UNCHANGED PhaseOf
  BY DEF PhaseOf
<1> QED
  BY <1>1, <1>2 DEF Promised, Promise!vars, PhaseOf, CallsOf

\* A new status is a new phase.
LEMMA PhaseMoves ==
    ASSUME TypeOK, NEW d \in Deliveries, NEW st, status' = [status EXCEPT ![d] = st]
    PROVE  PhaseOf' = [PhaseOf EXCEPT ![d] = Phase(st)] /\ PhaseOf[d] = Phase(status[d])
BY DEF TypeOK, PhaseOf

LEMMA PhaseValues ==
    /\ Phase("absent") = "none" /\ \A st \in Waiting : Phase(st) = "pending"
    /\ Phase("attempting") = "in_flight" /\ Phase("delivery_unknown") = "unknown"
    /\ \A st \in {"accepted", "delivered", "failed"} : Phase(st) = st
BY DEF Phase, Waiting

\* The attempt a worker has called for is the try in question, and it is called.
LEMMA RepliedIsCalled ==
    ASSUME LedgerInvariant, NEW w \in Workers, job[w].stage = "replied"
    PROVE  /\ job[w].delivery \in Deliveries
           /\ attemptCount[job[w].delivery] \in CallsOf[job[w].delivery]
<1>1. job[w].delivery \in Deliveries /\ job[w].attempt \in AttemptNumbers
      /\ job[w].observation \in Observations
  BY JobShape DEF LedgerInvariant, TypeOK
<1>2. job[w].attempt = attemptCount[job[w].delivery]
      /\ effect[job[w].delivery][job[w].attempt] = job[w].observation.outcome
  BY DEF LedgerInvariant, JobShapeOf
<1>3. job[w].observation.outcome # "none"
  BY <1>1 DEF Observations, Outcomes
<1> QED
  BY <1>1, <1>2, <1>3 DEF CallsOf

\* A step of the promise at one delivery is a step of the promise.
LEMMA PromiseAt ==
    ASSUME NEW d \in Deliveries,
           \/ Promise!Request(d) \/ Promise!Begin(d) \/ Promise!Call(d) \/ Promise!Postpone(d)
           \/ Promise!Accept(d) \/ Promise!Deliver(d) \/ Promise!Fail(d) \/ Promise!LoseTrack(d)
    PROVE  Promised
<1>1. Promise!Next
  BY DEF Promise!Next
<1> QED
  BY <1>1 DEF Promised

\* A status that changes at one delivery moves its phase and no other.
LEMMA PhaseMove ==
    ASSUME TypeOK, NEW d \in Deliveries, NEW st, NEW from,
           status' = [status EXCEPT ![d] = st], Phase(status[d]) \in from
    PROVE  Promise!Move(d, from, Phase(st))
<1>1. PhaseOf' = [PhaseOf EXCEPT ![d] = Phase(st)] /\ PhaseOf[d] = Phase(status[d])
  BY PhaseMoves
<1> QED
  BY <1>1 DEF Promise!Move, PhaseOf

\* The two steps with which an attempt begins and is handed to the provider.
LEMMA ClaimPromised ==
    ASSUME LedgerInvariant, NEW w \in Workers, CommitClaim(w)
    PROVE  Promised
<1>1. PICK d \in Deliveries, k \in AttemptNumbers : d = job[w].delivery /\ k = job[w].attempt
  BY JobShape DEF LedgerInvariant, TypeOK, CommitClaim
<1>2. TypeOK /\ status[d] \in Waiting /\ k = attemptCount[d] + 1
  BY <1>1 DEF LedgerInvariant, CommitClaim, JobShapeOf
<1>3. status' = [status EXCEPT ![d] = "attempting"] /\ UNCHANGED effect
      /\ attemptCount' = [attemptCount EXCEPT ![d] = k]
  BY <1>1 DEF CommitClaim, UpdateDelivery
<1>4. attemptCount[d] < MaxAttempts
  BY <1>2, AttemptsAssumption DEF AttemptNumbers, TypeOK
<1>5. Promise!Move(d, {"pending"}, "in_flight")
  BY <1>2, <1>3, PhaseMove, PhaseValues
<1>6. attemptCount' = [attemptCount EXCEPT ![d] = @ + 1]
  BY <1>2, <1>3
<1>7. UNCHANGED CallsOf
  BY <1>3 DEF CallsOf
<1>8. Promise!Begin(d)
  BY <1>4, <1>5, <1>6, <1>7 DEF Promise!Begin, CallsOf
<1> QED
  BY <1>8, PromiseAt

LEMMA SendPromised ==
    ASSUME LedgerInvariant, NEW w \in Workers, Send(w)
    PROVE  Promised
<1>1. PICK d \in Deliveries, k \in AttemptNumbers : d = job[w].delivery /\ k = job[w].attempt
  BY JobShape DEF LedgerInvariant, TypeOK, Send
<1>2. TypeOK /\ k = attemptCount[d] /\ effect[d][k] = "none"
  BY <1>1 DEF LedgerInvariant, Send, JobShapeOf
<1>3. UNCHANGED <<status, attemptCount>> /\ effect' = [effect EXCEPT ![d][k] = "invoked"]
  BY <1>1 DEF Send, deliveryVars
<1>4. UNCHANGED PhaseOf
  BY <1>3 DEF PhaseOf
<1>5. ASSUME NEW e \in Deliveries
      PROVE  {n \in AttemptNumbers : effect'[e][n] # "none"}
               = IF e = d THEN CallsOf[d] \cup {k} ELSE CallsOf[e]
  <2>1. CASE e = d
    <3>1. \A n \in AttemptNumbers : effect'[d][n] = IF n = k THEN "invoked" ELSE effect[d][n]
      BY <1>2, <1>3 DEF TypeOK
    <3>2. CallsOf[d] = {n \in AttemptNumbers : effect[d][n] # "none"}
      BY DEF CallsOf
    <3> QED
      BY <2>1, <3>1, <3>2
  <2>2. CASE e # d
    BY <1>2, <1>3, <2>2 DEF TypeOK, CallsOf
  <2> QED
    BY <2>1, <2>2
<1>6. CallsOf' = [CallsOf EXCEPT ![d] = @ \cup {k}]
  BY <1>5 DEF CallsOf
<1>7. k \notin CallsOf[d]
  BY <1>2 DEF CallsOf
<1>8. attemptCount[d] > 0
  BY <1>2, AttemptsAssumption DEF AttemptNumbers
<1>9. Promise!Call(d)
  BY <1>2, <1>3, <1>4, <1>6, <1>7, <1>8 DEF Promise!Call, Promise!Called, PhaseOf, CallsOf
<1> QED
  BY <1>9, PromiseAt

\* The answer of a call that was made changes nothing the promise speaks of.
LEMMA AnswerPromised ==
    ASSUME LedgerInvariant, NEW w \in Workers, NEW truth \in Outcomes, NEW o,
           Answered(w, truth, o)
    PROVE  Promised
<1>1. PICK d \in Deliveries, k \in AttemptNumbers : d = job[w].delivery /\ k = job[w].attempt
  BY JobShape DEF LedgerInvariant, TypeOK, Answered
<1>2. TypeOK /\ effect[d][k] = "invoked"
  BY <1>1 DEF LedgerInvariant, Answered, JobShapeOf
<1>3. UNCHANGED <<status, attemptCount>> /\ effect' = [effect EXCEPT ![d][k] = truth]
  BY <1>1 DEF Answered, deliveryVars
<1>4. truth # "none"
  BY DEF Outcomes
<1>5. \A e \in Deliveries, n \in AttemptNumbers :
        effect'[e][n] # "none" <=> effect[e][n] # "none"
  BY <1>2, <1>3, <1>4 DEF TypeOK
<1> QED
  BY <1>3, <1>5, Invisible

\* Recording an answer ends the try it is about: a call was made for it.
LEMMA RecordPromised ==
    ASSUME LedgerInvariant, NEW w \in Workers,
           \/ RecordAccepted(w) \/ RecordTemporary(w) \/ RecordExhausted(w)
           \/ RecordPermanent(w) \/ RecordUnknown(w)
    PROVE  Promised
<1>1. job[w].stage = "replied" /\ Recordable(w) /\ UNCHANGED <<attemptCount, effect>>
  BY DEF RecordAccepted, RecordTemporary, RecordExhausted, RecordPermanent, RecordUnknown
<1>2. PICK d \in Deliveries : d = job[w].delivery /\ attemptCount[d] \in CallsOf[d]
  BY <1>1, RepliedIsCalled
<1>3. TypeOK /\ Phase(status[d]) = "in_flight" /\ UNCHANGED CallsOf
  BY <1>1, <1>2, PhaseValues DEF LedgerInvariant, Recordable, CallsOf
<1>4. CASE RecordAccepted(w)
  <2>1. status' = [status EXCEPT ![d] = "accepted"]
    BY <1>2, <1>4 DEF RecordAccepted, UpdateDelivery
  <2>2. Promise!Move(d, {"in_flight"}, "accepted")
    BY <1>3, <2>1, PhaseMove, PhaseValues
  <2>3. Promise!Accept(d)
    BY <1>1, <1>2, <1>3, <2>2 DEF Promise!Accept, Promise!Called, CallsOf
  <2> QED
    BY <2>3, PromiseAt
<1>5. CASE RecordTemporary(w)
  <2>1. status' = [status EXCEPT ![d] = "retry_scheduled"] /\ attemptCount[d] < MaxAttempts
    <3>1. attemptCount[d] \in Nat
      BY <1>3, AttemptsAssumption DEF TypeOK
    <3> QED
      BY <1>2, <1>5, <3>1, AttemptsAssumption DEF RecordTemporary, UpdateDelivery, NextAt
  <2>2. Promise!Move(d, {"in_flight"}, "pending")
    BY <1>3, <2>1, PhaseMove, PhaseValues DEF Waiting
  <2>3. Promise!Postpone(d)
    BY <1>1, <1>2, <1>3, <2>1, <2>2 DEF Promise!Postpone, Promise!Called, CallsOf
  <2> QED
    BY <2>3, PromiseAt
<1>6. CASE RecordExhausted(w) \/ RecordPermanent(w)
  <2>1. status' = [status EXCEPT ![d] = "failed"]
    BY <1>2, <1>6 DEF RecordExhausted, RecordPermanent, UpdateDelivery
  <2>2. Promise!Move(d, {"in_flight", "accepted"}, "failed")
    BY <1>3, <2>1, PhaseMove, PhaseValues
  <2>3. Promise!Fail(d)
    BY <1>1, <1>2, <1>3, <2>2 DEF Promise!Fail, CallsOf
  <2> QED
    BY <2>3, PromiseAt
<1>7. CASE RecordUnknown(w)
  <2>1. status' = [status EXCEPT ![d] = "delivery_unknown"]
    BY <1>2, <1>7 DEF RecordUnknown, UpdateDelivery
  <2>2. Promise!Move(d, {"in_flight"}, "unknown")
    <3>1. Phase("delivery_unknown") = "unknown"
      BY PhaseValues
    <3> QED
      BY <1>3, <2>1, <3>1, PhaseMove
  <2>3. Promise!LoseTrack(d)
    BY <1>1, <1>2, <1>3, <2>2 DEF Promise!LoseTrack, Promise!Called, CallsOf
  <2> QED
    BY <2>3, PromiseAt
<1> QED
  BY <1>4, <1>5, <1>6, <1>7

\* A receipt settles a delivery about which some call was made.
LEMMA ReceiptPromised ==
    ASSUME LedgerInvariant, NEW i \in ObservationIds, NEW r \in ReceiptObservations,
           RecordReceipt(i, r)
    PROVE  Promised
<1>1. PICK d \in Deliveries : d = r.delivery
  BY DEF ReceiptObservations
<1>2. TypeOK /\ UNCHANGED <<attemptCount, effect>> /\ status[d] \in {"attempting", "accepted"}
  BY <1>1 DEF LedgerInvariant, RecordReceipt, ReceiptAdmits
<1>3. UNCHANGED CallsOf /\ CallsOf[d] # {}
  <2>1. r.attempt \in AttemptNumbers /\ effect[d][r.attempt] # "none"
    BY <1>1 DEF RecordReceipt, ReceiptObservations
  <2> QED
    BY <1>2, <2>1 DEF CallsOf
<1>4. Phase(status[d]) \in {"in_flight", "accepted"}
  BY <1>2, PhaseValues
<1>5. CASE status' = [status EXCEPT ![d] = "delivered"]
  <2>1. Promise!Move(d, {"in_flight", "accepted"}, "delivered")
    BY <1>2, <1>4, <1>5, PhaseMove, PhaseValues
  <2>2. Promise!Deliver(d)
    BY <1>2, <1>3, <2>1 DEF Promise!Deliver, CallsOf
  <2> QED
    BY <2>2, PromiseAt
<1>6. CASE status' = [status EXCEPT ![d] = "failed"]
  <2>1. Promise!Move(d, {"in_flight", "accepted"}, "failed")
    BY <1>2, <1>4, <1>6, PhaseMove, PhaseValues
  <2>2. Promise!Fail(d)
    BY <1>2, <1>3, <2>1 DEF Promise!Fail, CallsOf
  <2> QED
    BY <2>2, PromiseAt
<1> QED
  BY <1>1, <1>5, <1>6 DEF RecordReceipt, UpdateDelivery

\* A lifecycle observation cancels pending deliveries, all of them together.
LEMMA LifecyclePromised ==
    ASSUME NEW i \in ObservationIds, NEW o, ObserveLifecycle(i, o)
    PROVE  Promised
<1>1. PICK D \in SUBSET Deliveries : D = {d \in Deliveries : Cancellable(d, o)}
  OBVIOUS
<1>2. /\ \A d \in D : PhaseOf[d] = "pending"
      /\ PhaseOf' = [d \in Deliveries |-> IF d \in D THEN "failed" ELSE PhaseOf[d]]
  <2>1. \A d \in D : status[d] \in Waiting
    BY <1>1 DEF Cancellable
  <2>2. status' = [d \in Deliveries |-> IF d \in D THEN "failed" ELSE status[d]]
    BY <1>1 DEF ObserveLifecycle
  <2> QED
    BY <2>1, <2>2, PhaseValues DEF PhaseOf
<1>3. UNCHANGED <<attemptCount, CallsOf>>
  BY DEF ObserveLifecycle, CallsOf
<1>4. Promise!Cancel(D)
  BY <1>2, <1>3 DEF Promise!Cancel, PhaseOf, CallsOf
<1>5. Promise!Next
  BY <1>4 DEF Promise!Next
<1> QED
  BY <1>5 DEF Promised

\* Every step of the ledger is a step of the promise, or none.
LEMMA PromisedStep ==
    ASSUME LedgerInvariant, [Next]_vars
    PROVE  Promised
<1>1. TypeOK
  BY DEF LedgerInvariant
<1>2. CASE UNCHANGED vars \/ Tick
  <2>1. UNCHANGED <<status, attemptCount, effect>>
    BY <1>2 DEF vars, Tick, deliveryVars
  <2> QED
    BY <2>1, Invisible
<1>3. ASSUME NEW d \in Deliveries, Create(d) PROVE Promised
  <2>1. CASE StartIntent(d) \/ RenderFailure(d)
    <3>1. UNCHANGED <<status, attemptCount, effect>>
      BY <2>1 DEF StartIntent, RenderFailure
    <3> QED
      BY <3>1, Invisible
  <2>2. CASE PersistIntent(d)
    <3>1. Promise!Move(d, {"none"}, "pending")
      BY <1>1, <2>2, PhaseMove, PhaseValues DEF PersistIntent, Waiting
    <3>2. Promise!Request(d)
      BY <2>2, <3>1 DEF Promise!Request, PersistIntent
    <3> QED
      BY <3>2, PromiseAt
  <2> QED
    BY <1>3, <2>1, <2>2 DEF Create
<1>4. ASSUME NEW w \in Workers, Claim(w) \/ Dispatch(w) \/ ApplyDispatch(w) \/ Abandon(w)
      PROVE  Promised
  <2>1. CASE \/ SelectDue(w) \/ ClaimRefused(w) \/ AbsorbLate(w)
             \/ ObservationRefused(w) \/ Abandon(w)
    <3>1. UNCHANGED <<status, attemptCount, effect>>
      BY <2>1 DEF SelectDue, ClaimRefused, AbsorbLate, ObservationRefused, Abandon, deliveryVars
    <3> QED
      BY <3>1, Invisible
  <2>2. CASE ProviderResponds(w) \/ ProviderRejects(w) \/ ProviderAmbiguous(w)
    <3>1. \E truth \in Outcomes : \E o : Answered(w, truth, o)
      BY <2>2 DEF ProviderResponds, ProviderRejects, ProviderAmbiguous, Outcomes
    <3> QED
      BY <3>1, AnswerPromised
  <2> QED
    BY <1>4, <2>1, <2>2, ClaimPromised, SendPromised, RecordPromised
       DEF Claim, Dispatch, ApplyDispatch
<1>5. ASSUME NEW i \in ObservationIds, NEW r \in ReceiptObservations, AcknowledgeReceipt(i, r)
      PROVE  Promised
  <2>1. UNCHANGED <<status, attemptCount, effect>>
    BY <1>5 DEF AcknowledgeReceipt, deliveryVars
  <2> QED
    BY <2>1, Invisible
<1>6. ASSUME NEW d \in Deliveries, NEW key \in RetryKeys, ManualRetry(d, key)
      PROVE  Promised
  <2>1. UNCHANGED <<status, attemptCount, effect>>
    BY <1>1, <1>6 DEF ManualRetry, UpdateDelivery, RetryEligible, TypeOK
  <2> QED
    BY <2>1, Invisible
<1> QED
  BY <1>2, <1>3, <1>4, <1>5, <1>6, ReceiptPromised, LifecyclePromised
     DEF Next, ObserveReceipt, ObserveInvitation

\* The ledger implements the promise: the budget of attempts, one call of the
\* provider for each, and no attempt before the one before it was called for.
THEOREM PromiseKept == Spec => ImplementsPromise
<1>1. Init => Promise!Init
  BY PhaseValues DEF Init, Promise!Init
<1>2. LedgerInvariant /\ [Next]_vars => [Promise!Next]_Promise!vars
  BY PromisedStep DEF Promised
<1> QED BY <1>1, <1>2, LedgerInvariantHolds, PTL DEF Spec, ImplementsPromise, Promise!Spec
=============================================================================
