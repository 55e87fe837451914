------------------------ MODULE LedgerEvidenceProofs ------------------------
(***************************************************************************)
(* Theorems about the evidence the ledger keeps, for every value of its    *)
(* constants: what is acknowledged is stored, every decision, final reason *)
(* and recorded answer has the evidence it claims.  None is inductive      *)
(* alone: a waiting delivery has the decision its next attempt will rest on*)
(* (DecisionShape), a receipt says what its delivery and attempt show      *)
(* (ReceiptShape), an answer that ends a delivery is recorded of none that *)
(* goes on (AnswerOf, OpenOf), each reason is settled by its own evidence  *)
(* (FinalOf), and an attempting delivery has a worker or a cause.          *)
(***************************************************************************)
EXTENDS DeliveryLedgerProofs

-----------------------------------------------------------------------------
(* Who changes what *)

\* An answer is recorded.
Recorded(w) ==
    \/ RecordAccepted(w) \/ RecordTemporary(w) \/ RecordExhausted(w)
    \/ RecordPermanent(w) \/ RecordUnknown(w)

\* Nothing that is stored changes but the time of a request not yet persisted.
Quiet ==
    /\ UNCHANGED <<status, revision, attemptCount, nextAttemptAt, finalReason, attemptVars,
                   evidenceVars>>
    /\ \A d \in Deliveries : requestedAt'[d] = requestedAt[d] \/ status[d] = "absent"

LEMMA StepCases ==
    ASSUME TypeOK, [Next]_vars
    PROVE  \/ Quiet
           \/ \E d \in Deliveries : PersistIntent(d)
           \/ \E w \in Workers : CommitClaim(w) \/ Recorded(w) \/ AbsorbLate(w)
           \/ \E i \in ObservationIds, r \in ReceiptObservations :
                RecordReceipt(i, r) \/ AcknowledgeReceipt(i, r)
           \/ \E i \in ObservationIds, o \in LifecycleObservations : ObserveLifecycle(i, o)
           \/ \E d \in Deliveries, key \in RetryKeys : ManualRetry(d, key)
<1>1. CASE UNCHANGED vars \/ Tick
  BY <1>1 DEF vars, Tick, deliveryVars, Quiet
<1>2. ASSUME NEW d \in Deliveries, StartIntent(d) \/ RenderFailure(d) PROVE Quiet
  BY <1>2 DEF StartIntent, RenderFailure, Quiet, TypeOK
<1>3. ASSUME NEW w \in Workers,
             Claim(w) \/ Dispatch(w) \/ ApplyDispatch(w) \/ Abandon(w)
      PROVE  Quiet \/ CommitClaim(w) \/ Recorded(w) \/ AbsorbLate(w)
  <2>1. CASE SelectDue(w) \/ ClaimRefused(w) \/ Dispatch(w) \/ ObservationRefused(w) \/ Abandon(w)
    BY <2>1 DEF SelectDue, ClaimRefused, Dispatch, Send, ProviderResponds, ProviderRejects,
                ProviderAmbiguous, Answered, ObservationRefused, Abandon, Quiet, deliveryVars
  <2> QED
    BY <1>3, <2>1 DEF Claim, ApplyDispatch, Recorded
<1>4. ASSUME NEW i \in ObservationIds, NEW s \in Subjects, NEW l \in Lifecycles, NEW t \in NearClock,
             ObserveLifecycle(i, [subject |-> s, lifecycle |-> l, observedAt |-> t])
      PROVE  \E o \in LifecycleObservations : ObserveLifecycle(i, o)
  <2>1. [subject |-> s, lifecycle |-> l, observedAt |-> t] \in LifecycleObservations
    BY DEF LifecycleObservations, NearClock
  <2> QED
    BY <1>4, <2>1
<1> QED
  BY <1>1, <1>2, <1>3, <1>4 DEF Next, Create, ObserveReceipt, ObserveInvitation

\* Receipts and decisions are only added, an event id is consumed once.
LEMMA EvidenceGrows ==
    ASSUME TypeOK, [Next]_vars
    PROVE  /\ receipts \subseteq receipts' /\ retryRequests \subseteq retryRequests'
           /\ \A i \in ObservationIds : consumed'[i] = consumed[i] \/ consumed[i] = Unconsumed
<1>1. CASE Quiet
  BY <1>1 DEF Quiet, evidenceVars
<1>2. ASSUME NEW d \in Deliveries, PersistIntent(d) \/ \E key \in RetryKeys : ManualRetry(d, key)
      PROVE  /\ receipts \subseteq receipts' /\ retryRequests \subseteq retryRequests'
             /\ consumed' = consumed
  BY <1>2 DEF PersistIntent, ManualRetry, evidenceVars
<1>3. ASSUME NEW w \in Workers, CommitClaim(w) \/ Recorded(w) \/ AbsorbLate(w)
      PROVE  /\ receipts \subseteq receipts' /\ retryRequests \subseteq retryRequests'
             /\ consumed' = consumed
  BY <1>3 DEF CommitClaim, Recorded, RecordAccepted, RecordTemporary, RecordExhausted,
              RecordPermanent, RecordUnknown, AbsorbLate, evidenceVars
<1>4. ASSUME NEW i \in ObservationIds, NEW o,
             \/ ObserveLifecycle(i, o)
             \/ o \in ReceiptObservations /\ (RecordReceipt(i, o) \/ AcknowledgeReceipt(i, o))
      PROVE  /\ receipts \subseteq receipts' /\ retryRequests \subseteq retryRequests'
             /\ \A j \in ObservationIds : consumed'[j] = consumed[j] \/ consumed[j] = Unconsumed
  BY <1>4 DEF ObserveLifecycle, RecordReceipt, AcknowledgeReceipt, TypeOK
<1> QED
  BY <1>1, <1>2, <1>3, <1>4, StepCases

\* The provider's answer, once given, is history.
LEMMA AnswerStands ==
    ASSUME LedgerInvariant, [Next]_vars,
           NEW d \in Deliveries, NEW k \in AttemptNumbers, effect[d][k] \in Outcomes
    PROVE  effect'[d][k] = effect[d][k]
<1>1. CASE effect' = effect
  BY <1>1
<1>2. ASSUME NEW w \in Workers, job[w].stage \in {"claimed", "sent"}, NEW x,
             effect' = [effect EXCEPT ![job[w].delivery][job[w].attempt] = x]
      PROVE  effect'[d][k] = effect[d][k]
  <2>1. effect[job[w].delivery][job[w].attempt] \in {"none", "invoked"}
    BY <1>2 DEF LedgerInvariant, JobShapeOf
  <2>2. "none" \notin Outcomes /\ "invoked" \notin Outcomes
    BY DEF Outcomes
  <2>3. job[w].delivery \in Deliveries /\ job[w].attempt \in AttemptNumbers
    BY <1>2, JobShape DEF LedgerInvariant, TypeOK
  <2> QED
    BY <1>2, <2>1, <2>2, <2>3 DEF LedgerInvariant, TypeOK
<1> QED
  BY <1>1, <1>2, EffectStep DEF Send, Answered

\* The worker of a step works on a delivery and an attempt of the ledger.
LEMMA WorkerAt ==
    ASSUME TypeOK, NEW w \in Workers, CommitClaim(w) \/ Recorded(w) \/ AbsorbLate(w)
    PROVE  /\ job[w].delivery \in Deliveries /\ job[w].attempt \in AttemptNumbers
           /\ CommitClaim(w) => job[w].stage = "selected"
           /\ Recorded(w) => job[w].stage = "replied" /\ Recordable(w)
           /\ AbsorbLate(w) => job[w].stage = "replied"
           /\ job[w].stage = "replied" => job[w].observation \in Observations
<1>1. job[w].stage # "idle" /\ job[w] \in Jobs
  BY DEF CommitClaim, Recorded, RecordAccepted, RecordTemporary, RecordExhausted,
         RecordPermanent, RecordUnknown, AbsorbLate, TypeOK
<1> QED
  BY <1>1, JobShape
  DEF CommitClaim, Recorded, RecordAccepted, RecordTemporary, RecordExhausted,
      RecordPermanent, RecordUnknown, AbsorbLate

\* A row that changes is changed by one of these steps, and it is their row.
Moved(d) ==
    \/ PersistIntent(d)
    \/ \E w \in Workers : job[w].delivery = d /\ (CommitClaim(w) \/ Recorded(w))
    \/ \E i \in ObservationIds, r \in ReceiptObservations : r.delivery = d /\ RecordReceipt(i, r)
    \/ \E i \in ObservationIds, o \in LifecycleObservations :
         ObserveLifecycle(i, o) /\ Cancellable(d, o)
    \/ \E key \in RetryKeys : ManualRetry(d, key)

LEMMA UpdateIsLocal ==
    ASSUME NEW e \in Deliveries, NEW d \in Deliveries \ {e}, NEW st, NEW at, NEW why, TypeOK,
           UpdateDelivery(e, st, at, why), attemptCount'[d] = attemptCount[d]
    PROVE  Unmoved(d)
BY DEF UpdateDelivery, TypeOK, Unmoved, Row

LEMMA WhoMoves ==
    ASSUME TypeOK, [Next]_vars, NEW d \in Deliveries
    PROVE  Unmoved(d) \/ Moved(d)
<1>1. CASE Quiet
  BY <1>1, NothingMoves DEF Quiet, Unmoved, Row
<1>2. ASSUME NEW e \in Deliveries, PersistIntent(e) \/ \E key \in RetryKeys : ManualRetry(e, key)
      PROVE  Unmoved(d) \/ Moved(d)
  <2>1. CASE e = d
    BY <1>2, <2>1 DEF Moved
  <2>2. CASE e # d /\ PersistIntent(e)
    BY <2>2 DEF PersistIntent, TypeOK, Unmoved, Row
  <2>3. ASSUME e # d, NEW key \in RetryKeys, ManualRetry(e, key) PROVE Unmoved(d)
    BY <2>3, UpdateIsLocal DEF ManualRetry
  <2> QED
    BY <1>2, <2>1, <2>2, <2>3
<1>3. ASSUME NEW w \in Workers, CommitClaim(w) \/ Recorded(w) PROVE Unmoved(d) \/ Moved(d)
  <2>1. CASE job[w].delivery = d
    BY <1>3, <2>1 DEF Moved
  <2>2. CASE job[w].delivery # d
    <3>1. job[w].delivery \in Deliveries
      BY <1>3, WorkerAt
    <3>2. attemptCount'[d] = attemptCount[d]
      BY <1>3, <2>2, <3>1 DEF CommitClaim, Recorded, RecordAccepted, RecordTemporary,
         RecordExhausted, RecordPermanent, RecordUnknown, TypeOK
    <3>3. \E st, at, why : UpdateDelivery(job[w].delivery, st, at, why)
      BY <1>3 DEF CommitClaim, Recorded, RecordAccepted, RecordTemporary,
         RecordExhausted, RecordPermanent, RecordUnknown
    <3> QED
      BY <2>2, <3>1, <3>2, <3>3, UpdateIsLocal
  <2> QED
    BY <2>1, <2>2
<1>4. ASSUME NEW w \in Workers, AbsorbLate(w) PROVE Unmoved(d)
  BY <1>4 DEF AbsorbLate, deliveryVars, Unmoved, Row
<1>5. ASSUME NEW i \in ObservationIds, NEW r \in ReceiptObservations,
             RecordReceipt(i, r) \/ AcknowledgeReceipt(i, r)
      PROVE  Unmoved(d) \/ Moved(d)
  <2>1. CASE AcknowledgeReceipt(i, r)
    BY <2>1 DEF AcknowledgeReceipt, deliveryVars, Unmoved, Row
  <2>2. CASE RecordReceipt(i, r) /\ r.delivery = d
    BY <2>2 DEF Moved
  <2>3. CASE RecordReceipt(i, r) /\ r.delivery # d
    <3>1. \E st, at, why : UpdateDelivery(r.delivery, st, at, why)
      BY <2>3 DEF RecordReceipt
    <3>2. r.delivery \in Deliveries /\ attemptCount' = attemptCount
      BY <2>3 DEF RecordReceipt, ReceiptObservations
    <3> QED
      BY <2>3, <3>1, <3>2, UpdateIsLocal
  <2> QED
    BY <1>5, <2>1, <2>2, <2>3
<1>6. ASSUME NEW i \in ObservationIds, NEW o \in LifecycleObservations, ObserveLifecycle(i, o)
      PROVE  Unmoved(d) \/ Moved(d)
  <2>1. CASE Cancellable(d, o)
    BY <1>6, <2>1 DEF Moved
  <2>2. CASE ~Cancellable(d, o)
    BY <1>6, <2>2 DEF ObserveLifecycle, Unmoved, Row
  <2> QED
    BY <2>1, <2>2
<1> QED
  BY <1>1, <1>2, <1>3, <1>4, <1>5, <1>6, StepCases

-----------------------------------------------------------------------------
(* What was acknowledged is stored *)

\* The three kinds of entry of consumed_events are told apart by their columns.
LEMMA EventKinds ==
    /\ \A o \in LifecycleObservations : o \notin ReceiptObservations
    /\ Unconsumed \notin ReceiptObservations /\ Unconsumed \notin Receipts
<1>1. \A r \in ReceiptObservations \cup Receipts :
        DOMAIN r = {"delivery", "attempt", "kind", "remote", "digest"}
  BY DEF ReceiptObservations, Receipts
<1>2. \A o \in LifecycleObservations : DOMAIN o = {"subject", "lifecycle", "observedAt"}
  BY DEF LifecycleObservations
<1>3. DOMAIN Unconsumed = {"unconsumed"}
  BY DEF Unconsumed
<1> QED
  BY <1>1, <1>2, <1>3

LEMMA AcknowledgedStep ==
    ASSUME TypeOK, AcknowledgedReceipts, [Next]_vars
    PROVE  AcknowledgedReceipts'
<1>1. /\ receipts \subseteq receipts'
      /\ \A i \in ObservationIds : consumed'[i] = consumed[i] \/ consumed[i] = Unconsumed
  BY EvidenceGrows
<1>2. \A r \in receipts : r.kind = "accepted" \/ \E i \in ObservationIds : consumed'[i] = r
  BY <1>1, EventKinds DEF AcknowledgedReceipts, TypeOK
<1>3. CASE receipts' = receipts /\ consumed' = consumed
  BY <1>3 DEF AcknowledgedReceipts
<1>4. ASSUME NEW w \in Workers, RecordAccepted(w) PROVE AcknowledgedReceipts'
  <2>1. consumed' = consumed /\ \A r \in receipts' \ receipts : r.kind = "accepted"
    BY <1>4 DEF RecordAccepted
  <2> QED
    BY <1>1, <1>2, <2>1 DEF AcknowledgedReceipts
<1>5. ASSUME NEW i \in ObservationIds, NEW r \in ReceiptObservations,
             RecordReceipt(i, r) \/ AcknowledgeReceipt(i, r)
      PROVE  AcknowledgedReceipts'
  <2>1. /\ consumed'[i] = r
        /\ \A j \in ObservationIds \ {i} : consumed'[j] = consumed[j]
        /\ \A q \in receipts' \ receipts : q = r
    BY <1>5 DEF RecordReceipt, AcknowledgeReceipt, TypeOK
  <2>2. \E q \in receipts' : q.remote = r.remote /\ q.kind = r.kind /\ q.digest = r.digest
    BY <1>5 DEF RecordReceipt, AcknowledgeReceipt, SameReceipt
  <2> QED
    BY <1>1, <1>2, <2>1, <2>2 DEF AcknowledgedReceipts
<1>6. ASSUME NEW i \in ObservationIds, NEW o \in LifecycleObservations, ObserveLifecycle(i, o)
      PROVE  AcknowledgedReceipts'
  <2>1. /\ receipts' = receipts /\ consumed'[i] \notin ReceiptObservations
        /\ \A j \in ObservationIds \ {i} : consumed'[j] = consumed[j]
    BY <1>6, EventKinds DEF ObserveLifecycle, TypeOK
  <2> QED
    BY <1>2, <2>1 DEF AcknowledgedReceipts
<1>7. ASSUME NEW w \in Workers, CommitClaim(w) \/ (Recorded(w) /\ ~RecordAccepted(w)) \/ AbsorbLate(w)
      PROVE  receipts' = receipts /\ consumed' = consumed
  BY <1>7 DEF CommitClaim, Recorded, RecordTemporary, RecordExhausted,
              RecordPermanent, RecordUnknown, AbsorbLate, evidenceVars
<1>8. ASSUME NEW d \in Deliveries, PersistIntent(d) \/ \E key \in RetryKeys : ManualRetry(d, key)
      PROVE  receipts' = receipts /\ consumed' = consumed
  BY <1>8 DEF PersistIntent, ManualRetry, evidenceVars
<1>9. CASE Quiet
  BY <1>3, <1>9 DEF Quiet, evidenceVars
<1> QED
  BY <1>3, <1>4, <1>5, <1>6, <1>7, <1>8, <1>9, StepCases

\* A receipt that was acknowledged is in the ledger, and a receipt of a
\* delivery that is in the ledger was observed: claim_event and insert_receipt
\* take effect together or not at all.
THEOREM AcknowledgedIsStored == Spec => []AcknowledgedReceipts
<1>1. Init => AcknowledgedReceipts
  BY EventKinds DEF Init, AcknowledgedReceipts
<1>2. TypeOK /\ AcknowledgedReceipts /\ [Next]_vars => AcknowledgedReceipts'
  BY AcknowledgedStep
<1> QED BY <1>1, <1>2, TypeCorrect, PTL DEF Spec

-----------------------------------------------------------------------------
(* What rests on a decision *)

\* The automatic decision to try again after attempt k.
Scheduled(d, k) ==
    \E r \in retryRequests :
        r.delivery = d /\ r.decision = "scheduled" /\ r.key = AutomaticKey(k)

\* The decision in force.
InForce(d) ==
    \E r \in retryRequests :
        /\ r.delivery = d /\ r.decision = "scheduled"
        /\ r.sourceRevision = revision[d] - 1
        /\ r.scheduledAt = nextAttemptAt[d]

\* RetryEvidence, and that a waiting delivery has the decision its next attempt
\* will rest on.
DecisionShape ==
    \A d \in Deliveries :
        /\ status[d] = "retry_scheduled" => InForce(d)
        /\ \A k \in AttemptNumbers :
             k < attemptCount[d] \/ (k = attemptCount[d] /\ status[d] \in Waiting)
               => Scheduled(d, k)

LEMMA DecisionStep ==
    ASSUME LedgerInvariant, DecisionShape, [Next]_vars
    PROVE  DecisionShape'
<1>1. TypeOK
  BY DEF LedgerInvariant
<1>2. retryRequests \subseteq retryRequests'
  BY <1>1, EvidenceGrows
<1> SUFFICES ASSUME NEW d \in Deliveries
             PROVE  /\ status'[d] = "retry_scheduled" => InForce(d)'
                    /\ \A k \in AttemptNumbers :
                         k < attemptCount'[d] \/ (k = attemptCount'[d] /\ status'[d] \in Waiting)
                           => Scheduled(d, k)'
  BY DEF DecisionShape
<1>3. \A k \in AttemptNumbers : Scheduled(d, k) => Scheduled(d, k)'
  BY <1>2 DEF Scheduled, AutomaticKey
<1>4. attemptCount[d] \in Int /\ revision[d] \in Int
  BY <1>1, AttemptsAssumption DEF TypeOK
<1>5. CASE Unmoved(d)
  BY <1>2, <1>3, <1>5 DEF Unmoved, Row, InForce, DecisionShape
<1>6. CASE PersistIntent(d)
  <2>1. status'[d] = "queued" /\ attemptCount'[d] = 0
    BY <1>1, <1>6 DEF PersistIntent, TypeOK, LedgerInvariant, DeliveryShape
  <2> QED
    BY <2>1, AttemptsAssumption DEF AttemptNumbers
<1>7. ASSUME NEW w \in Workers, job[w].delivery = d, CommitClaim(w)
      PROVE  /\ status'[d] = "attempting"
             /\ \A k \in AttemptNumbers : k < attemptCount'[d] => Scheduled(d, k)'
  <2>1. job[w].attempt \in AttemptNumbers /\ job[w].attempt = attemptCount[d] + 1
        /\ status[d] \in Waiting
    BY <1>1, <1>7, WorkerAt DEF LedgerInvariant, JobShapeOf
  <2>2. status'[d] = "attempting" /\ attemptCount'[d] = attemptCount[d] + 1
    BY <1>1, <1>7, <2>1 DEF CommitClaim, UpdateDelivery, TypeOK
  <2>3. ASSUME NEW k \in AttemptNumbers, k < attemptCount'[d] PROVE Scheduled(d, k)'
    <3>1. k < attemptCount[d] \/ k = attemptCount[d]
      BY <1>4, <2>2, <2>3, AttemptsAssumption DEF AttemptNumbers
    <3> QED
      BY <1>3, <2>1, <3>1 DEF DecisionShape
  <2> QED
    BY <2>2, <2>3
<1>8. ASSUME NEW w \in Workers, job[w].delivery = d, RecordTemporary(w)
      PROVE  InForce(d)' /\ Scheduled(d, attemptCount[d])' /\ attemptCount'[d] = attemptCount[d]
  <2>1. job[w].stage = "replied" /\ job[w].attempt = attemptCount[d]
    BY <1>8 DEF RecordTemporary, LedgerInvariant, JobShapeOf
  <2> DEFINE at == ScheduleAt(attemptCount[d], job[w].observation)
             r  == AutomaticDecision(d, attemptCount[d], "scheduled", at)
  <2>2. r \in retryRequests'
    BY <1>8, <2>1 DEF RecordTemporary
  <2>3. revision'[d] = revision[d] + 1 /\ nextAttemptAt'[d] = at
    BY <1>1, <1>8 DEF RecordTemporary, UpdateDelivery, TypeOK
  <2>4. /\ r.delivery = d /\ r.decision = "scheduled" /\ r.sourceRevision = revision[d]
        /\ r.scheduledAt = at /\ r.key = AutomaticKey(attemptCount[d])
    BY DEF AutomaticDecision
  <2> HIDE DEF r, at
  <2>5. InForce(d)'
    BY <1>4, <2>2, <2>3, <2>4 DEF InForce
  <2>6. attemptCount'[d] = attemptCount[d]
    BY <1>8 DEF RecordTemporary
  <2>7. Scheduled(d, attemptCount[d])'
    BY <2>2, <2>4, <2>6 DEF Scheduled, AutomaticKey
  <2> QED
    BY <2>5, <2>6, <2>7
<1>9. ASSUME NEW w \in Workers, job[w].delivery = d, Recorded(w), ~RecordTemporary(w)
      PROVE  status'[d] \in {"accepted", "failed", "delivery_unknown"} /\ attemptCount'[d] = attemptCount[d]
  BY <1>1, <1>9 DEF Recorded, RecordAccepted, RecordExhausted, RecordPermanent, RecordUnknown,
                    UpdateDelivery, TypeOK
<1>10. ASSUME NEW i \in ObservationIds, NEW r \in ReceiptObservations, r.delivery = d,
              RecordReceipt(i, r)
       PROVE  status'[d] \in {"delivered", "failed"} /\ attemptCount'[d] = attemptCount[d]
  BY <1>1, <1>10 DEF RecordReceipt, UpdateDelivery, TypeOK
<1>11. ASSUME NEW i \in ObservationIds, NEW o, ObserveLifecycle(i, o), Cancellable(d, o)
       PROVE  status'[d] = "failed" /\ attemptCount'[d] = attemptCount[d]
  BY <1>11 DEF ObserveLifecycle
<1>12. ASSUME NEW key \in RetryKeys, ManualRetry(d, key)
       PROVE  /\ InForce(d)' /\ attemptCount'[d] = attemptCount[d]
              /\ status[d] = "retry_scheduled"
  <2>1. revision'[d] = revision[d] + 1 /\ nextAttemptAt'[d] = clock
        /\ status[d] = "retry_scheduled"
    BY <1>1, <1>12 DEF ManualRetry, UpdateDelivery, RetryEligible, TypeOK
  <2> DEFINE q == [delivery |-> d, kind |-> "manual", key |-> key, decision |-> "scheduled",
                   sourceRevision |-> revision[d], scheduledAt |-> clock]
  <2>2. PICK r \in retryRequests' :
          r.delivery = d /\ r.decision = "scheduled" /\ r.sourceRevision = revision[d]
          /\ r.scheduledAt = clock
    <3>1. q \in retryRequests'
      BY <1>12 DEF ManualRetry
    <3>2. q.delivery = d /\ q.decision = "scheduled" /\ q.sourceRevision = revision[d]
          /\ q.scheduledAt = clock
      OBVIOUS
    <3> QED
      BY <3>1, <3>2
  <2> QED
    BY <1>4, <1>12, <2>1, <2>2 DEF InForce, ManualRetry
<1>13. ASSUME status'[d] \notin Waiting, attemptCount'[d] = attemptCount[d]
       PROVE  /\ status'[d] = "retry_scheduled" => InForce(d)'
              /\ \A k \in AttemptNumbers :
                   k < attemptCount'[d] \/ (k = attemptCount'[d] /\ status'[d] \in Waiting)
                     => Scheduled(d, k)'
  BY <1>3, <1>13 DEF DecisionShape, Waiting
<1>14. ASSUME InForce(d)', attemptCount'[d] = attemptCount[d],
              status[d] \in Waiting \/ Scheduled(d, attemptCount[d])'
       PROVE  /\ status'[d] = "retry_scheduled" => InForce(d)'
              /\ \A k \in AttemptNumbers :
                   k < attemptCount'[d] \/ (k = attemptCount'[d] /\ status'[d] \in Waiting)
                     => Scheduled(d, k)'
  BY <1>3, <1>14 DEF DecisionShape
<1>15. ASSUME NEW w \in Workers, job[w].delivery = d, Recorded(w)
       PROVE  /\ status'[d] = "retry_scheduled" => InForce(d)'
              /\ \A k \in AttemptNumbers :
                   k < attemptCount'[d] \/ (k = attemptCount'[d] /\ status'[d] \in Waiting)
                     => Scheduled(d, k)'
  BY <1>8, <1>9, <1>13, <1>14, <1>15 DEF Waiting
<1>16. Unmoved(d) \/ Moved(d)
  BY <1>1, WhoMoves
<1> QED
  BY <1>5, <1>6, <1>7, <1>10, <1>11, <1>12, <1>13, <1>14, <1>15, <1>16 DEF Moved, Waiting

\* Every further attempt rests on a scheduling decision, and the decision in
\* force was taken on the revision before and names the time the delivery is
\* due, whatever automatic and manual retries compete.
THEOREM DecisionsAreKept == Spec => []RetryEvidence
<1>1. Init => DecisionShape
  BY AttemptsAssumption DEF Init, DecisionShape, AttemptNumbers, Waiting
<1>2. LedgerInvariant /\ DecisionShape /\ [Next]_vars => DecisionShape'
  BY DecisionStep
<1>3. DecisionShape => RetryEvidence
  BY DEF DecisionShape, RetryEvidence, InForce, Scheduled
<1> QED BY <1>1, <1>2, <1>3, LedgerInvariantHolds, PTL DEF Spec

-----------------------------------------------------------------------------
(* Content that cannot be revealed *)

LEMMA UnrevealableStep ==
    ASSUME LedgerInvariant, UnrevealableUntouched, [Next]_vars
    PROVE  UnrevealableUntouched'
<1>1. TypeOK
  BY DEF LedgerInvariant
<1> SUFFICES ASSUME NEW d \in Deliveries, d \in Unrevealable
             PROVE  /\ status'[d] \in {"absent", "queued", "failed"}
                    /\ status'[d] = "failed" => finalReason'[d] \in CancelReasons
                    /\ attemptCount'[d] = 0
                    /\ \A k \in AttemptNumbers :
                         attemptStatus'[d][k] = "none" /\ effect'[d][k] = "none"
  BY DEF UnrevealableUntouched
<1>2. /\ status[d] \in {"absent", "queued", "failed"} /\ attemptCount[d] = 0
      /\ status[d] = "failed" => finalReason[d] \in CancelReasons
      /\ \A k \in AttemptNumbers : attemptStatus[d][k] = "none" /\ effect[d][k] = "none"
  BY DEF UnrevealableUntouched
<1>3. \A w \in Workers : job[w].stage \in {"claimed", "sent", "replied"} => job[w].delivery # d
  <2> SUFFICES ASSUME NEW w \in Workers, job[w].stage \in {"claimed", "sent", "replied"},
                      job[w].delivery = d
               PROVE  FALSE
    OBVIOUS
  <2>1. job[w].attempt \in AttemptNumbers
    BY <1>1, JobShape DEF TypeOK
  <2>2. job[w].attempt = attemptCount[d]
    BY DEF LedgerInvariant, JobShapeOf
  <2> QED
    BY <1>2, <2>1, <2>2, AttemptsAssumption DEF AttemptNumbers
<1>4. \A w \in Workers : CommitClaim(w) \/ Recorded(w) \/ AbsorbLate(w) => job[w].delivery # d
  <2>1. \A w \in Workers : CommitClaim(w) => job[w].delivery # d
    BY DEF CommitClaim, Claimable
  <2> QED
    BY <1>1, <1>3, <2>1, WorkerAt
<1>5. \A i \in ObservationIds, r \in ReceiptObservations : RecordReceipt(i, r) => r.delivery # d
  BY <1>2 DEF RecordReceipt, ReceiptAdmits
<1>6. effect'[d] = effect[d]
  <2>1. ASSUME NEW w \in Workers, job[w].stage \in {"claimed", "sent"}, NEW x,
               effect' = [effect EXCEPT ![job[w].delivery][job[w].attempt] = x]
        PROVE  effect'[d] = effect[d]
    BY <1>1, <1>3, <2>1 DEF TypeOK
  <2> QED
    BY <2>1, EffectStep DEF Send, Answered
<1>7. attemptStatus'[d] = attemptStatus[d]
  <2>1. CASE Quiet
    BY <2>1 DEF Quiet, attemptVars
  <2>2. ASSUME NEW w \in Workers, CommitClaim(w) \/ Recorded(w) \/ AbsorbLate(w)
        PROVE  attemptStatus'[d] = attemptStatus[d]
    <3>1. job[w].delivery # d
      BY <1>4, <2>2
    <3> QED
      BY <1>1, <2>2, <3>1 DEF CommitClaim, Recorded, RecordAccepted, RecordTemporary,
         RecordExhausted, RecordPermanent, RecordUnknown, AbsorbLate, CloseAttempt, TypeOK
  <2>3. ASSUME NEW i \in ObservationIds, NEW r \in ReceiptObservations,
               RecordReceipt(i, r) \/ AcknowledgeReceipt(i, r)
        PROVE  attemptStatus'[d] = attemptStatus[d]
    BY <1>1, <1>5, <2>3 DEF RecordReceipt, AcknowledgeReceipt, attemptVars, TypeOK
  <2> QED
    BY <1>1, <2>1, <2>2, <2>3, StepCases DEF PersistIntent, ObserveLifecycle, ManualRetry, attemptVars
<1>8. /\ status'[d] \in {"absent", "queued", "failed"} /\ attemptCount'[d] = 0
      /\ status'[d] = "failed" => finalReason'[d] \in CancelReasons
  <2>1. CASE Unmoved(d)
    BY <1>2, <2>1 DEF Unmoved, Row
  <2>2. CASE PersistIntent(d)
    BY <1>1, <1>2, <2>2 DEF PersistIntent, TypeOK
  <2>3. ASSUME NEW i \in ObservationIds, NEW o \in LifecycleObservations,
               ObserveLifecycle(i, o), Cancellable(d, o)
        PROVE  status'[d] = "failed" /\ attemptCount'[d] = 0 /\ finalReason'[d] \in CancelReasons
    <3>1. CancelReason[o.lifecycle] \in CancelReasons
      BY LifecyclesAssumption DEF LifecycleObservations, CancelReasons, CancelReason
    <3> QED
      BY <1>2, <2>3, <3>1 DEF ObserveLifecycle
  <2>4. \A key \in RetryKeys : ~ManualRetry(d, key)
    BY <1>2 DEF ManualRetry, RetryEligible
  <2> QED
    BY <1>1, <1>4, <1>5, <2>1, <2>2, <2>3, <2>4, WhoMoves DEF Moved
<1> QED
  BY <1>2, <1>6, <1>7, <1>8

\* A delivery whose content cannot be revealed is never half claimed: no attempt
\* row, no call of the provider, and still waiting unless its source ended it.
THEOREM UnrevealableIsLeft == Spec => []UnrevealableUntouched
<1>1. Init => UnrevealableUntouched
  BY DEF Init, UnrevealableUntouched
<1>2. LedgerInvariant /\ UnrevealableUntouched /\ [Next]_vars => UnrevealableUntouched'
  BY UnrevealableStep
<1> QED BY <1>1, <1>2, LedgerInvariantHolds, PTL DEF Spec

-----------------------------------------------------------------------------
(* What is recorded of an answer *)

\* From where each step takes a delivery, and where to.
LEMMA MovesFrom ==
    ASSUME TypeOK, NEW d \in Deliveries
    PROVE  /\ PersistIntent(d) => status[d] = "absent" /\ status'[d] = "queued"
           /\ \A w \in Workers : CommitClaim(w) /\ job[w].delivery = d =>
                status[d] \in Waiting /\ status'[d] = "attempting"
           /\ \A w \in Workers : Recorded(w) /\ job[w].delivery = d =>
                /\ status[d] = "attempting"
                /\ status'[d] \in {"accepted", "retry_scheduled", "failed", "delivery_unknown"}
           /\ \A i \in ObservationIds, r \in ReceiptObservations :
                RecordReceipt(i, r) /\ r.delivery = d =>
                  status[d] \in {"attempting", "accepted"} /\ status'[d] \in {"delivered", "failed"}
           /\ \A i \in ObservationIds, o \in LifecycleObservations :
                ObserveLifecycle(i, o) /\ Cancellable(d, o) =>
                  status[d] \in Waiting /\ status'[d] = "failed"
           /\ \A key \in RetryKeys : ManualRetry(d, key) =>
                status[d] = "retry_scheduled" /\ status'[d] = "retry_scheduled"
<1>1. PersistIntent(d) => status[d] = "absent" /\ status'[d] = "queued"
  BY DEF PersistIntent, TypeOK
<1>2. ASSUME NEW w \in Workers, CommitClaim(w), job[w].delivery = d
      PROVE  status[d] \in Waiting /\ status'[d] = "attempting"
  BY <1>2 DEF CommitClaim, Claimable, UpdateDelivery, TypeOK
<1>3. ASSUME NEW w \in Workers, Recorded(w), job[w].delivery = d
      PROVE  /\ status[d] = "attempting"
             /\ status'[d] \in {"accepted", "retry_scheduled", "failed", "delivery_unknown"}
  BY <1>3 DEF Recorded, RecordAccepted, RecordTemporary, RecordExhausted, RecordPermanent,
              RecordUnknown, Recordable, UpdateDelivery, TypeOK
<1>4. ASSUME NEW i \in ObservationIds, NEW r \in ReceiptObservations,
             RecordReceipt(i, r), r.delivery = d
      PROVE  status[d] \in {"attempting", "accepted"} /\ status'[d] \in {"delivered", "failed"}
  BY <1>4 DEF RecordReceipt, ReceiptAdmits, UpdateDelivery, TypeOK
<1>5. ASSUME NEW i \in ObservationIds, NEW o \in LifecycleObservations,
             ObserveLifecycle(i, o), Cancellable(d, o)
      PROVE  status[d] \in Waiting /\ status'[d] = "failed"
  BY <1>5 DEF ObserveLifecycle, Cancellable
<1>6. ASSUME NEW key \in RetryKeys, ManualRetry(d, key)
      PROVE  status[d] = "retry_scheduled" /\ status'[d] = "retry_scheduled"
  BY <1>6 DEF ManualRetry, RetryEligible, UpdateDelivery, TypeOK
<1> QED
  BY <1>1, <1>2, <1>3, <1>4, <1>5, <1>6

\* A settled delivery stays, an accepted one can only be settled, and only a
\* claim opens one.
LEMMA StatusMoves ==
    ASSUME TypeOK, [Next]_vars, NEW d \in Deliveries
    PROVE  /\ status[d] \in Terminal => status'[d] = status[d]
           /\ status[d] = "accepted" => status'[d] \in {"accepted", "delivered", "failed"}
           /\ status'[d] = "attempting" =>
                \/ status[d] = "attempting" /\ Unmoved(d)
                \/ \E w \in Workers : CommitClaim(w) /\ job[w].delivery = d
<1>1. CASE Unmoved(d)
  BY <1>1 DEF Unmoved, Row
<1>2. CASE Moved(d)
  BY <1>2, MovesFrom DEF Moved, Waiting, Terminal
<1> QED
  BY <1>1, <1>2, WhoMoves

\* An attempt that is written is written by one of these steps, and it is theirs.
Written(d, k) ==
    \/ \E w \in Workers :
         /\ job[w].delivery = d /\ job[w].attempt = k
         /\ CommitClaim(w) \/ Recorded(w) \/ AbsorbLate(w)
    \/ \E i \in ObservationIds, r \in ReceiptObservations :
         r.delivery = d /\ r.attempt = k /\ RecordReceipt(i, r)

Unwritten(d, k) ==
    attemptStatus'[d][k] = attemptStatus[d][k] /\ dispatchRecord'[d][k] = dispatchRecord[d][k]

LEMMA WhoWrites ==
    ASSUME TypeOK, [Next]_vars, NEW d \in Deliveries, NEW k \in AttemptNumbers
    PROVE  Unwritten(d, k) \/ Written(d, k)
<1>1. CASE UNCHANGED attemptVars
  BY <1>1 DEF attemptVars, Unwritten
<1>2. ASSUME NEW w \in Workers, CommitClaim(w) \/ Recorded(w) \/ AbsorbLate(w)
      PROVE  Unwritten(d, k) \/ Written(d, k)
  <2>1. CASE job[w].delivery = d /\ job[w].attempt = k
    BY <1>2, <2>1 DEF Written
  <2>2. CASE ~(job[w].delivery = d /\ job[w].attempt = k)
    <3>1. job[w].delivery \in Deliveries /\ job[w].attempt \in AttemptNumbers
      BY <1>2, WorkerAt
    <3> QED
      BY <1>2, <2>2, <3>1 DEF CommitClaim, Recorded, RecordAccepted, RecordTemporary,
         RecordExhausted, RecordPermanent, RecordUnknown, AbsorbLate, CloseAttempt, TypeOK,
         Unwritten
  <2> QED
    BY <2>1, <2>2
<1>3. ASSUME NEW i \in ObservationIds, NEW r \in ReceiptObservations, RecordReceipt(i, r)
      PROVE  Unwritten(d, k) \/ Written(d, k)
  <2>1. CASE r.delivery = d /\ r.attempt = k
    BY <1>3, <2>1 DEF Written
  <2>2. CASE ~(r.delivery = d /\ r.attempt = k)
    <3>1. r.delivery \in Deliveries /\ r.attempt \in AttemptNumbers
      BY DEF ReceiptObservations
    <3> QED
      BY <1>3, <2>2, <3>1 DEF RecordReceipt, TypeOK, Unwritten
  <2> QED
    BY <2>1, <2>2
<1>4. Quiet => UNCHANGED attemptVars
  BY DEF Quiet
<1>5. \A e \in Deliveries : PersistIntent(e) => UNCHANGED attemptVars
  BY DEF PersistIntent
<1>6. \A i \in ObservationIds : \A o : ObserveLifecycle(i, o) \/ AcknowledgeReceipt(i, o)
                                         => UNCHANGED attemptVars
  BY DEF ObserveLifecycle, AcknowledgeReceipt
<1>7. \A e \in Deliveries, key \in RetryKeys : ManualRetry(e, key) => UNCHANGED attemptVars
  BY DEF ManualRetry
<1> QED
  BY <1>1, <1>2, <1>3, <1>4, <1>5, <1>6, <1>7, StepCases

\* What a receipt says of its delivery and of its attempt is what they show.
ReceiptShape ==
    \A r \in receipts :
        LET d == r.delivery
            k == r.attempt
        IN  /\ r.kind = "accepted" =>
                 dispatchRecord[d][k] = "accepted" /\ status[d] \in {"accepted", "delivered", "failed"}
            /\ r.kind = "delivered" => status[d] = "delivered" /\ attemptStatus[d][k] = "accepted"
            /\ r.kind \in {"bounced", "rejected"} =>
                 status[d] = "failed" /\ attemptStatus[d][k] = "permanent_failure"

\* A recorded answer is the provider's, its attempt agrees, and one that ends a
\* delivery is recorded of no delivery that goes on.
AnswerOf(d, k) ==
    LET recorded == dispatchRecord[d][k] IN
    recorded # "none" =>
        /\ recorded = effect[d][k]
        /\ recorded = "accepted" =>
             \/ attemptStatus[d][k] = "accepted"
             \/ attemptStatus[d][k] = "permanent_failure" /\ HasReceipt(d, k)
        /\ recorded = "temporary_failure" =>
             attemptStatus[d][k] = "temporary_failure" \/ HasReceipt(d, k)
        /\ recorded \in {"permanent_failure", "delivery_unknown"} =>
             attemptStatus[d][k] = recorded /\ status[d] \in Terminal

\* An attempting delivery has its latest attempt open and unanswered.
OpenOf(d) ==
    status[d] = "attempting" =>
        \A k \in AttemptNumbers : k = attemptCount[d] =>
            attemptStatus[d][k] = "dispatching" /\ dispatchRecord[d][k] = "none"

AnswerShape ==
    /\ ReceiptShape
    /\ \A d \in Deliveries, k \in AttemptNumbers : AnswerOf(d, k)
    /\ \A d \in Deliveries : OpenOf(d)

\* The steps that write, at the place they write.
LEMMA RecordedAt ==
    ASSUME LedgerInvariant, NEW w \in Workers, Recorded(w)
    PROVE  LET d == job[w].delivery
               k == job[w].attempt
           IN  /\ d \in Deliveries /\ k \in AttemptNumbers
               /\ dispatchRecord[d][k] = "none" /\ status[d] = "attempting"
               /\ dispatchRecord'[d][k] = effect[d][k] /\ attemptStatus'[d][k] = effect[d][k]
               /\ effect' = effect /\ effect[d][k] \in Outcomes
               /\ effect[d][k] = "permanent_failure" => status'[d] = "failed"
               /\ effect[d][k] = "delivery_unknown" => status'[d] = "delivery_unknown"
               /\ RecordAccepted(w) <=> effect[d][k] = "accepted"
<1> DEFINE d == job[w].delivery
           k == job[w].attempt
<1>1. /\ TypeOK /\ job[w].stage = "replied" /\ Recordable(w)
      /\ d \in Deliveries /\ k \in AttemptNumbers /\ job[w].observation \in Observations
  BY WorkerAt DEF LedgerInvariant
<1>2. effect[d][k] = job[w].observation.outcome /\ job[w].observation.outcome \in Outcomes
  BY <1>1 DEF LedgerInvariant, JobShapeOf, Observations
<1>3. CloseAttempt(d, k, effect[d][k]) /\ effect' = effect
  BY <1>2 DEF Recorded, RecordAccepted, RecordTemporary, RecordExhausted, RecordPermanent,
              RecordUnknown
<1>4. dispatchRecord'[d][k] = effect[d][k] /\ attemptStatus'[d][k] = effect[d][k]
  BY <1>1, <1>3 DEF CloseAttempt, TypeOK
<1>5. /\ effect[d][k] = "permanent_failure" => status'[d] = "failed"
      /\ effect[d][k] = "delivery_unknown" => status'[d] = "delivery_unknown"
      /\ RecordAccepted(w) <=> effect[d][k] = "accepted"
  BY <1>1, <1>2 DEF Recorded, RecordAccepted, RecordTemporary, RecordExhausted, RecordPermanent,
              RecordUnknown, UpdateDelivery, TypeOK
<1> QED
  BY <1>1, <1>2, <1>3, <1>4, <1>5 DEF Recordable

LEMMA ReceiptAt ==
    ASSUME TypeOK, NEW i \in ObservationIds, NEW r \in ReceiptObservations, RecordReceipt(i, r)
    PROVE  LET d == r.delivery
               k == r.attempt
           IN  /\ d \in Deliveries /\ k \in AttemptNumbers
               /\ dispatchRecord' = dispatchRecord /\ effect' = effect
               /\ receipts' = receipts \cup {r} /\ r.kind # "accepted"
               /\ \/ /\ r.kind = "delivered"
                     /\ status'[d] = "delivered" /\ attemptStatus'[d][k] = "accepted"
                  \/ /\ r.kind \in {"bounced", "rejected"}
                     /\ status'[d] = "failed" /\ attemptStatus'[d][k] = "permanent_failure"
BY DEF RecordReceipt, ReceiptObservations, ReceiptKinds, UpdateDelivery, TypeOK

LEMMA AbsorbedAt ==
    ASSUME LedgerInvariant, NEW w \in Workers, AbsorbLate(w)
    PROVE  LET d == job[w].delivery
               k == job[w].attempt
           IN  /\ d \in Deliveries /\ k \in AttemptNumbers
               /\ dispatchRecord[d][k] = "none" /\ HasReceipt(d, k)
               /\ \/ status[d] = "delivered" /\ effect[d][k] = "accepted"
                  \/ status[d] = "failed" /\ effect[d][k] = "permanent_failure"
               /\ dispatchRecord'[d][k] = effect[d][k]
               /\ UNCHANGED <<status, attemptStatus, receipts, effect>>
<1> DEFINE d == job[w].delivery
           k == job[w].attempt
<1>1. /\ TypeOK /\ job[w].stage = "replied" /\ Absorbable(w)
      /\ d \in Deliveries /\ k \in AttemptNumbers
  BY WorkerAt DEF LedgerInvariant, AbsorbLate
<1>2. effect[d][k] = job[w].observation.outcome
  BY <1>1 DEF LedgerInvariant, JobShapeOf
<1>3. dispatchRecord' = [dispatchRecord EXCEPT ![d][k] = effect[d][k]]
      /\ UNCHANGED <<status, attemptStatus, receipts, effect>>
  BY <1>2 DEF AbsorbLate, deliveryVars, evidenceVars
<1> QED
  BY <1>1, <1>2, <1>3 DEF Absorbable, LateObservationIsCompatible, TypeOK

\* Receipts that are stored keep saying what their delivery and attempt show,
\* and a new one does.
LEMMA ReceiptShapeStep ==
    ASSUME LedgerInvariant, AnswerShape, [Next]_vars
    PROVE  ReceiptShape'
<1>1. TypeOK
  BY DEF LedgerInvariant
<1>2. ASSUME NEW r \in receipts
      PROVE  LET d == r.delivery
                 k == r.attempt
             IN  /\ r.kind = "accepted" =>
                      /\ dispatchRecord'[d][k] = "accepted"
                      /\ status'[d] \in {"accepted", "delivered", "failed"}
                 /\ r.kind = "delivered" =>
                      status'[d] = "delivered" /\ attemptStatus'[d][k] = "accepted"
                 /\ r.kind \in {"bounced", "rejected"} =>
                      status'[d] = "failed" /\ attemptStatus'[d][k] = "permanent_failure"
  <2> DEFINE d == r.delivery
             k == r.attempt
  <2>1. d \in Deliveries /\ k \in AttemptNumbers
    BY <1>1 DEF TypeOK, Receipts
  <2>2. /\ r.kind = "accepted" =>
             dispatchRecord[d][k] = "accepted" /\ status[d] \in {"accepted", "delivered", "failed"}
        /\ r.kind = "delivered" => status[d] = "delivered" /\ attemptStatus[d][k] = "accepted"
        /\ r.kind \in {"bounced", "rejected"} =>
             status[d] = "failed" /\ attemptStatus[d][k] = "permanent_failure"
    BY DEF AnswerShape, ReceiptShape
  <2>3. /\ r.kind = "accepted" => status'[d] \in {"accepted", "delivered", "failed"}
        /\ r.kind \in {"delivered", "bounced", "rejected"} => status'[d] = status[d]
    BY <1>1, <2>1, <2>2, StatusMoves DEF Terminal
  <2>4. CASE Unwritten(d, k)
    BY <2>2, <2>3, <2>4 DEF Unwritten
  <2>5. ASSUME NEW w \in Workers, job[w].delivery = d, job[w].attempt = k,
               CommitClaim(w) \/ Recorded(w) \/ AbsorbLate(w),
               r.kind \in {"accepted", "delivered", "bounced", "rejected"}
        PROVE  AbsorbLate(w) /\ r.kind # "accepted"
    <3>1. status[d] \notin Waiting \cup {"attempting"}
      BY <2>2, <2>5 DEF Waiting
    <3>2. ~CommitClaim(w) /\ ~Recorded(w)
      BY <1>1, <2>1, <2>5, <3>1, MovesFrom
    <3> QED
      BY <2>2, <2>5, <3>2, AbsorbedAt
  <2>6. ASSUME NEW i \in ObservationIds, NEW q \in ReceiptObservations,
               q.delivery = d, q.attempt = k, RecordReceipt(i, q)
        PROVE  /\ status[d] \in {"attempting", "accepted"}
               /\ dispatchRecord' = dispatchRecord
    BY <1>1, <2>1, <2>6, MovesFrom, ReceiptAt
  <2>7. CASE Written(d, k)
    <3>1. ASSUME NEW w \in Workers, job[w].delivery = d, job[w].attempt = k, AbsorbLate(w)
          PROVE  attemptStatus' = attemptStatus
      BY <3>1, AbsorbedAt
    <3> QED
      BY <2>2, <2>3, <2>5, <2>6, <2>7, <3>1 DEF Written
  <2> QED
    BY <1>1, <2>1, <2>4, <2>7, WhoWrites
<1>3. CASE receipts' = receipts
  BY <1>2, <1>3 DEF ReceiptShape
<1>4. ASSUME NEW w \in Workers, RecordAccepted(w) PROVE ReceiptShape'
  <2> DEFINE d == job[w].delivery
             k == job[w].attempt
  <2>1. d \in Deliveries /\ dispatchRecord'[d][k] = "accepted"
    BY <1>4, RecordedAt DEF Recorded
  <2>2. status'[d] = "accepted"
    BY <1>1, <1>4, <2>1 DEF RecordAccepted, UpdateDelivery, TypeOK
  <2>3. \A r \in receipts' \ receipts : r.delivery = d /\ r.attempt = k /\ r.kind = "accepted"
    BY <1>4 DEF RecordAccepted
  <2> QED
    BY <1>2, <2>1, <2>2, <2>3 DEF ReceiptShape
<1>5. ASSUME NEW i \in ObservationIds, NEW r \in ReceiptObservations, RecordReceipt(i, r)
      PROVE  ReceiptShape'
  <2>1. receipts' = receipts \cup {r} /\ r.kind # "accepted"
        /\ \/ r.kind = "delivered" /\ status'[r.delivery] = "delivered"
              /\ attemptStatus'[r.delivery][r.attempt] = "accepted"
           \/ r.kind \in {"bounced", "rejected"} /\ status'[r.delivery] = "failed"
              /\ attemptStatus'[r.delivery][r.attempt] = "permanent_failure"
    BY <1>1, <1>5, ReceiptAt
  <2> QED
    BY <1>2, <2>1 DEF ReceiptShape
<1>6. \A w \in Workers : CommitClaim(w) \/ (Recorded(w) /\ ~RecordAccepted(w)) \/ AbsorbLate(w)
                           => receipts' = receipts
  BY DEF CommitClaim, Recorded, RecordTemporary, RecordExhausted, RecordPermanent,
         RecordUnknown, AbsorbLate, evidenceVars
<1>7. /\ Quiet => receipts' = receipts
      /\ \A d \in Deliveries : PersistIntent(d) => receipts' = receipts
      /\ \A d \in Deliveries, key \in RetryKeys : ManualRetry(d, key) => receipts' = receipts
      /\ \A i \in ObservationIds : \A o : ObserveLifecycle(i, o) \/ AcknowledgeReceipt(i, o)
                                            => receipts' = receipts
  BY DEF Quiet, PersistIntent, ManualRetry, ObserveLifecycle, AcknowledgeReceipt, evidenceVars
<1> QED
  BY <1>1, <1>3, <1>4, <1>5, <1>6, <1>7, StepCases

LEMMA AnswerKept ==
    ASSUME LedgerInvariant, AnswerShape, [Next]_vars,
           NEW d \in Deliveries, NEW k \in AttemptNumbers
    PROVE  AnswerOf(d, k)'
<1>1. TypeOK
  BY DEF LedgerInvariant
<1>2. AnswerOf(d, k) /\ ReceiptShape
  BY DEF AnswerShape
<1>3. HasReceipt(d, k) => HasReceipt(d, k)'
  BY <1>1, EvidenceGrows DEF HasReceipt
<1>4. status[d] \in Terminal => status'[d] \in Terminal
  BY <1>1, StatusMoves
<1>5. CASE Unwritten(d, k)
  <2> SUFFICES ASSUME dispatchRecord[d][k] # "none" PROVE AnswerOf(d, k)'
    BY <1>5 DEF Unwritten, AnswerOf
  <2>1. effect[d][k] = dispatchRecord[d][k] /\ dispatchRecord[d][k] \in Outcomes
    BY <1>1, <1>2 DEF AnswerOf, TypeOK
  <2>2. effect'[d][k] = dispatchRecord'[d][k]
    BY <1>5, <2>1, AnswerStands DEF Unwritten
  <2> QED
    BY <1>2, <1>3, <1>4, <1>5, <2>2 DEF Unwritten, AnswerOf
<1>6. ASSUME NEW w \in Workers, job[w].delivery = d, job[w].attempt = k, CommitClaim(w)
      PROVE  AnswerOf(d, k)'
  <2>1. k = attemptCount[d] + 1
    BY <1>6 DEF CommitClaim, LedgerInvariant, JobShapeOf
  <2>2. k > attemptCount[d]
    BY <1>1, <2>1, AttemptsAssumption DEF TypeOK
  <2>3. effect[d][k] = "none"
    BY <2>2 DEF LedgerInvariant, DeliveryShape, AttemptShape
  <2>4. dispatchRecord'[d][k] = "none"
    BY <1>2, <1>6, <2>3 DEF AnswerOf, CommitClaim
  <2> QED
    BY <2>4 DEF AnswerOf
<1>7. ASSUME NEW w \in Workers, job[w].delivery = d, job[w].attempt = k, Recorded(w)
      PROVE  AnswerOf(d, k)'
  BY <1>7, RecordedAt DEF AnswerOf, Outcomes, Terminal
<1>8. ASSUME NEW w \in Workers, job[w].delivery = d, job[w].attempt = k, AbsorbLate(w)
      PROVE  AnswerOf(d, k)'
  <2>1. /\ dispatchRecord[d][k] = "none" /\ HasReceipt(d, k)
        /\ \/ status[d] = "delivered" /\ effect[d][k] = "accepted"
           \/ status[d] = "failed" /\ effect[d][k] = "permanent_failure"
        /\ dispatchRecord'[d][k] = effect[d][k]
        /\ UNCHANGED <<status, attemptStatus, effect>>
    BY <1>8, AbsorbedAt
  <2>2. PICK r \in receipts : r.delivery = d /\ r.attempt = k
    BY <2>1 DEF HasReceipt
  <2>3. r.kind \in {"accepted", "delivered", "bounced", "rejected"}
    BY <1>1, <2>2 DEF TypeOK, Receipts, ReceiptKinds
  <2>4. \/ status[d] = "delivered" /\ attemptStatus[d][k] = "accepted"
        \/ status[d] = "failed" /\ attemptStatus[d][k] = "permanent_failure"
    BY <1>2, <2>1, <2>2, <2>3 DEF ReceiptShape
  <2> QED
    BY <2>1, <2>4 DEF AnswerOf, Terminal
<1>9. ASSUME NEW i \in ObservationIds, NEW r \in ReceiptObservations,
             r.delivery = d, r.attempt = k, RecordReceipt(i, r)
      PROVE  AnswerOf(d, k)'
  <2>1. status[d] \notin Terminal
    BY <1>1, <1>9, MovesFrom DEF Terminal
  <2>2. /\ dispatchRecord' = dispatchRecord /\ effect' = effect
        /\ receipts' = receipts \cup {r}
        /\ attemptStatus'[d][k] \in {"accepted", "permanent_failure"}
    BY <1>1, <1>9, ReceiptAt
  <2>3. HasReceipt(d, k)'
    BY <1>9, <2>2 DEF HasReceipt
  <2> QED
    BY <1>2, <2>1, <2>2, <2>3 DEF AnswerOf
<1>10. Unwritten(d, k) \/ Written(d, k)
  BY <1>1, WhoWrites
<1> QED
  BY <1>5, <1>6, <1>7, <1>8, <1>9, <1>10 DEF Written

LEMMA OpenKept ==
    ASSUME LedgerInvariant, AnswerShape, [Next]_vars, NEW d \in Deliveries
    PROVE  OpenOf(d)'
<1>1. TypeOK
  BY DEF LedgerInvariant
<1> SUFFICES ASSUME status'[d] = "attempting", NEW k \in AttemptNumbers, k = attemptCount'[d]
             PROVE  attemptStatus'[d][k] = "dispatching" /\ dispatchRecord'[d][k] = "none"
  BY DEF OpenOf
<1>2. CASE status[d] = "attempting" /\ Unmoved(d)
  <2>1. attemptStatus[d][k] = "dispatching" /\ dispatchRecord[d][k] = "none"
    BY <1>2 DEF AnswerShape, OpenOf, Unmoved, Row
  <2>2. ~Written(d, k)
    <3>1. \A w \in Workers : job[w].delivery = d => ~CommitClaim(w) /\ ~Recorded(w)
      BY <1>1, <1>2, MovesFrom DEF Waiting
    <3>2. \A w \in Workers : job[w].delivery = d => ~AbsorbLate(w)
      BY <1>2 DEF AbsorbLate, Absorbable
    <3>3. \A i \in ObservationIds, r \in ReceiptObservations :
            r.delivery = d => ~RecordReceipt(i, r)
      BY <1>1, MovesFrom
    <3> QED
      BY <3>1, <3>2, <3>3 DEF Written
  <2> QED
    BY <1>1, <2>1, <2>2, WhoWrites DEF Unwritten
<1>3. ASSUME NEW w \in Workers, CommitClaim(w), job[w].delivery = d
      PROVE  attemptStatus'[d][k] = "dispatching" /\ dispatchRecord'[d][k] = "none"
  <2>1. job[w].attempt = attemptCount[d] + 1 /\ job[w].attempt = k
    BY <1>1, <1>3 DEF CommitClaim, LedgerInvariant, JobShapeOf, TypeOK
  <2>2. k > attemptCount[d]
    BY <1>1, <2>1, AttemptsAssumption DEF TypeOK
  <2>3. effect[d][k] = "none"
    BY <2>2 DEF LedgerInvariant, DeliveryShape, AttemptShape
  <2>4. dispatchRecord[d][k] = "none"
    BY <2>3 DEF AnswerShape, AnswerOf
  <2> QED
    BY <1>1, <1>3, <2>1, <2>4 DEF CommitClaim, TypeOK
<1> QED
  BY <1>1, <1>2, <1>3, StatusMoves

LEMMA AnswerShapeHolds == Spec => []AnswerShape
<1>1. Init => AnswerShape
  BY DEF Init, AnswerShape, ReceiptShape, AnswerOf, OpenOf
<1>2. LedgerInvariant /\ AnswerShape /\ [Next]_vars => AnswerShape'
  BY ReceiptShapeStep, AnswerKept, OpenKept DEF AnswerShape
<1> QED BY <1>1, <1>2, LedgerInvariantHolds, PTL DEF Spec

\* What an attempt records of the provider's answer is what the provider
\* answered, and its status contradicts the answer only where a receipt does.
THEOREM AnswersAreTrue == Spec => []AttemptEvidenceAgrees
<1>1. AnswerShape => AttemptEvidenceAgrees
  BY DEF AnswerShape, AnswerOf, AttemptEvidenceAgrees
<1> QED BY <1>1, AnswerShapeHolds, PTL

-----------------------------------------------------------------------------
(* What a final reason rests on *)

LEMMA CancelReasonValues ==
    /\ CancelReasons = {"source_invitation_accepted", "source_invitation_expired",
                        "source_invitation_revoked"}
    /\ \A l \in Lifecycles : CancelReason[l] \in CancelReasons
<1>1. DOMAIN CancelReason = {"accepted", "expired", "revoked"}
  BY DEF CancelReason
<1>2. CancelReasons = {CancelReason["accepted"], CancelReason["expired"], CancelReason["revoked"]}
  BY <1>1 DEF CancelReasons
<1> QED
  BY <1>1, <1>2, LifecyclesAssumption DEF CancelReason

\* The evidence of each reason: an answer, the policy, a receipt, a lifecycle.
ByAnswer(d, reason) ==
    LET last == attemptCount[d] IN
    /\ reason \in {"permanent_failure", "ambiguous_external_effect", "retry_exhausted"} =>
         last \in AttemptNumbers
    /\ reason = "permanent_failure" => effect[d][last] = "permanent_failure"
    /\ reason = "ambiguous_external_effect" => effect[d][last] = "delivery_unknown"
    /\ reason = "retry_exhausted" => effect[d][last] = "temporary_failure"

ByPolicy(d, reason) ==
    LET last == attemptCount[d] IN
    reason = "retry_exhausted" =>
        /\ last = MaxAttempts \/ last \notin DOMAIN Delays
        /\ \E r \in retryRequests : /\ r.delivery = d /\ r.decision = "rejected"
                                     /\ r.key = AutomaticKey(last)

ByReceipt(d, reason) ==
    /\ reason = "authoritative_delivery_receipt" =>
         \E r \in receipts : r.delivery = d /\ r.kind = "delivered"
    /\ reason \in {"bounced", "rejected"} => \E r \in receipts : r.delivery = d /\ r.kind = reason

Observed(d, reason) ==
    \E i \in ObservationIds :
        /\ consumed[i] \in LifecycleObservations
        /\ consumed[i].subject = SubjectOf[d]
        /\ reason = CancelReason[consumed[i].lifecycle]
        /\ requestedAt[d] <= consumed[i].observedAt

ByLifecycle(d, reason) ==
    reason \in CancelReasons =>
        Observed(d, reason) /\ \A k \in AttemptNumbers : attemptStatus[d][k] # "dispatching"

SettledBy(d, reason) ==
    ByAnswer(d, reason) /\ ByPolicy(d, reason) /\ ByReceipt(d, reason) /\ ByLifecycle(d, reason)

\* FinalEvidence, reason by reason.
FinalOf(d) ==
    /\ status[d] \in Terminal <=> finalReason[d] # "none"
    /\ status[d] = "delivered" <=> finalReason[d] = "authoritative_delivery_receipt"
    /\ status[d] = "delivery_unknown" <=> finalReason[d] = "ambiguous_external_effect"
    /\ finalReason[d] # "none" => SettledBy(d, finalReason[d])

\* The time of a request is the time of its row from the first commit on.
LEMMA RequestKept ==
    ASSUME TypeOK, [Next]_vars, NEW d \in Deliveries, status[d] # "absent"
    PROVE  requestedAt'[d] = requestedAt[d]
<1>1. Quiet => requestedAt'[d] = requestedAt[d]
  BY DEF Quiet
<1>2. \A e \in Deliveries : PersistIntent(e) \/ (\E key \in RetryKeys : ManualRetry(e, key))
                              => requestedAt' = requestedAt
  BY DEF PersistIntent, ManualRetry, UpdateDelivery
<1>3. \A w \in Workers : CommitClaim(w) \/ Recorded(w) \/ AbsorbLate(w) => requestedAt' = requestedAt
  BY DEF CommitClaim, Recorded, RecordAccepted, RecordTemporary, RecordExhausted, RecordPermanent,
         RecordUnknown, AbsorbLate, UpdateDelivery, deliveryVars
<1>4. \A i \in ObservationIds : \A o : RecordReceipt(i, o) \/ AcknowledgeReceipt(i, o)
        \/ ObserveLifecycle(i, o) => requestedAt' = requestedAt
  BY DEF RecordReceipt, AcknowledgeReceipt, ObserveLifecycle, UpdateDelivery, deliveryVars
<1> QED
  BY <1>1, <1>2, <1>3, <1>4, StepCases

\* Evidence is never withdrawn from a settled delivery.
LEMMA SettledKept ==
    ASSUME LedgerInvariant, [Next]_vars, NEW d \in Deliveries,
           status[d] \in Terminal, Unmoved(d), NEW reason, SettledBy(d, reason)
    PROVE  SettledBy(d, reason)'
<1>1. TypeOK
  BY DEF LedgerInvariant
<1>2. attemptCount'[d] = attemptCount[d] /\ requestedAt'[d] = requestedAt[d]
  BY <1>1, RequestKept DEF Unmoved, Row, Terminal
<1>3. receipts \subseteq receipts' /\ retryRequests \subseteq retryRequests'
      /\ \A i \in ObservationIds : consumed'[i] = consumed[i] \/ consumed[i] = Unconsumed
  BY <1>1, EvidenceGrows
<1>4. ByAnswer(d, reason)'
  <2>1. ASSUME reason \in {"permanent_failure", "ambiguous_external_effect", "retry_exhausted"}
        PROVE  effect'[d][attemptCount[d]] = effect[d][attemptCount[d]]
    <3>1. attemptCount[d] \in AttemptNumbers /\ effect[d][attemptCount[d]] \in Outcomes
      BY <2>1 DEF SettledBy, ByAnswer, Outcomes
    <3> QED
      BY <3>1, AnswerStands
  <2> QED
    BY <1>2, <2>1 DEF SettledBy, ByAnswer
<1>5. ByPolicy(d, reason)'
  BY <1>2, <1>3 DEF SettledBy, ByPolicy, AutomaticKey
<1>6. ByReceipt(d, reason)'
  BY <1>3 DEF SettledBy, ByReceipt
<1>7. Observed(d, reason) => Observed(d, reason)'
  <2>1. Unconsumed \notin LifecycleObservations
    <3>1. \A o \in LifecycleObservations : DOMAIN o = {"subject", "lifecycle", "observedAt"}
      BY DEF LifecycleObservations
    <3>2. DOMAIN Unconsumed = {"unconsumed"}
      BY DEF Unconsumed
    <3> QED
      BY <3>1, <3>2
  <2> QED
    BY <1>2, <1>3, <2>1 DEF Observed
<1>8. \A k \in AttemptNumbers :
        attemptStatus'[d][k] = "dispatching" => attemptStatus[d][k] = "dispatching"
  <2>1. \A w \in Workers : job[w].delivery = d => ~CommitClaim(w) /\ ~Recorded(w)
    BY <1>1, MovesFrom DEF Waiting, Terminal
  <2>2. \A w \in Workers : AbsorbLate(w) => attemptStatus' = attemptStatus
    BY DEF AbsorbLate
  <2>3. \A i \in ObservationIds, r \in ReceiptObservations :
          r.delivery = d => ~RecordReceipt(i, r)
    BY <1>1, MovesFrom DEF Terminal
  <2> QED
    BY <1>1, <2>1, <2>2, <2>3, WhoWrites DEF Written, Unwritten
<1>9. ByLifecycle(d, reason)'
  BY <1>7, <1>8 DEF SettledBy, ByLifecycle
<1> QED
  BY <1>4, <1>5, <1>6, <1>9 DEF SettledBy

\* The reasons are told apart.
LEMMA Apart ==
    \A reason \in CancelReasons :
        reason \notin {"none", "permanent_failure", "ambiguous_external_effect", "retry_exhausted",
                       "authoritative_delivery_receipt", "bounced", "rejected"}
BY CancelReasonValues

LEMMA FinalKept ==
    ASSUME LedgerInvariant, LedgerInvariant', [Next]_vars, NEW d \in Deliveries, FinalOf(d)
    PROVE  FinalOf(d)'
<1>1. TypeOK
  BY DEF LedgerInvariant
<1>2. CASE Unmoved(d)
  <2>1. status'[d] = status[d] /\ finalReason'[d] = finalReason[d]
    BY <1>2 DEF Unmoved, Row
  <2>2. finalReason[d] # "none" => status[d] \in Terminal
    BY DEF FinalOf
  <2>3. finalReason[d] # "none" => SettledBy(d, finalReason[d])'
    <3>1. ASSUME NEW reason, reason = finalReason[d], reason # "none"
          PROVE  SettledBy(d, reason)'
      BY <1>2, <2>2, <3>1, SettledKept DEF FinalOf
    <3> QED
      BY <2>1, <3>1
  <2> QED
    BY <2>1, <2>3 DEF FinalOf
<1>3. CASE status'[d] \notin Terminal
  <2>1. finalReason'[d] = "none"
    BY <1>3 DEF LedgerInvariant, DeliveryShape
  <2> QED
    BY <1>3, <2>1 DEF FinalOf, Terminal
<1>4. ASSUME NEW w \in Workers, job[w].delivery = d, Recorded(w), status'[d] \in Terminal
      PROVE  FinalOf(d)'
  <2> DEFINE k == job[w].attempt
  <2>1. /\ k \in AttemptNumbers /\ k = attemptCount[d] /\ attemptCount'[d] = k
        /\ effect' = effect /\ effect[d][k] = job[w].observation.outcome
    <3>1. job[w].stage = "replied" /\ k \in AttemptNumbers
      BY <1>1, <1>4, WorkerAt
    <3>2. k = attemptCount[d] /\ effect[d][k] = job[w].observation.outcome
      BY <1>4, <3>1 DEF LedgerInvariant, JobShapeOf
    <3>3. UNCHANGED <<attemptCount, effect>>
      BY <1>4 DEF Recorded, RecordAccepted, RecordTemporary, RecordExhausted, RecordPermanent,
                  RecordUnknown
    <3> QED
      BY <3>1, <3>2, <3>3
  <2>2. CASE RecordExhausted(w)
    <3>1. status'[d] = "failed" /\ finalReason'[d] = "retry_exhausted"
      BY <1>1, <1>4, <2>2 DEF RecordExhausted, UpdateDelivery, TypeOK
    <3>2. effect[d][k] = "temporary_failure"
      BY <2>1, <2>2 DEF RecordExhausted
    <3>3. k = MaxAttempts \/ k \notin DOMAIN Delays
      <4>1. NextAt(k, job[w].observation.observedAt) = NoTime
        BY <1>4, <2>1, <2>2 DEF RecordExhausted
      <4>2. job[w].observation \in Observations
        BY <1>1, <1>4, WorkerAt
      <4>3. k \in DOMAIN Delays =>
              Later(job[w].observation.observedAt, Delays[k]) \in Times
        BY <4>2, LaterType, DelaysAssumption, TimeAssumption DEF Observations, Times
      <4>4. NoTime \notin Times
        BY TimeAssumption DEF Times, NoTime
      <4> QED
        BY <2>1, <4>1, <4>3, <4>4, AttemptsAssumption DEF NextAt, AttemptNumbers
    <3>4. \E r \in retryRequests' : /\ r.delivery = d /\ r.decision = "rejected"
                                     /\ r.key = AutomaticKey(k)
      <4> DEFINE q == AutomaticDecision(d, k, "rejected", NoTime)
      <4>1. q \in retryRequests'
        BY <1>4, <2>2 DEF RecordExhausted
      <4>2. q.delivery = d /\ q.decision = "rejected" /\ q.key = AutomaticKey(k)
        BY DEF AutomaticDecision
      <4> QED
        BY <4>1, <4>2
    <3>5. SettledBy(d, "retry_exhausted")'
      BY <2>1, <3>2, <3>3, <3>4, Apart DEF SettledBy, ByAnswer, ByPolicy, ByReceipt, ByLifecycle, AutomaticKey
    <3> QED
      BY <3>1, <3>5 DEF FinalOf, Terminal
  <2>3. CASE RecordPermanent(w)
    <3>1. status'[d] = "failed" /\ finalReason'[d] = "permanent_failure"
          /\ effect[d][k] = "permanent_failure"
      BY <1>1, <1>4, <2>1, <2>3 DEF RecordPermanent, UpdateDelivery, TypeOK
    <3>2. SettledBy(d, "permanent_failure")'
      BY <2>1, <3>1, Apart DEF SettledBy, ByAnswer, ByPolicy, ByReceipt, ByLifecycle
    <3> QED
      BY <3>1, <3>2 DEF FinalOf, Terminal
  <2>4. CASE RecordUnknown(w)
    <3>1. status'[d] = "delivery_unknown" /\ finalReason'[d] = "ambiguous_external_effect"
          /\ effect[d][k] = "delivery_unknown"
      BY <1>1, <1>4, <2>1, <2>4 DEF RecordUnknown, UpdateDelivery, TypeOK
    <3>2. SettledBy(d, "ambiguous_external_effect")'
      BY <2>1, <3>1, Apart DEF SettledBy, ByAnswer, ByPolicy, ByReceipt, ByLifecycle
    <3> QED
      BY <3>1, <3>2 DEF FinalOf, Terminal
  <2>5. CASE RecordAccepted(w) \/ RecordTemporary(w)
    <3>1. status'[d] \in {"accepted", "retry_scheduled"}
      BY <1>1, <1>4, <2>5 DEF RecordAccepted, RecordTemporary, UpdateDelivery, TypeOK
    <3> QED
      BY <1>4, <3>1 DEF Terminal
  <2> QED
    BY <1>4, <2>2, <2>3, <2>4, <2>5 DEF Recorded
<1>5. ASSUME NEW i \in ObservationIds, NEW r \in ReceiptObservations, r.delivery = d,
             RecordReceipt(i, r)
      PROVE  FinalOf(d)'
  <2>1. r \in receipts'
    BY <1>5 DEF RecordReceipt
  <2>2. CASE r.kind = "delivered"
    <3>1. status'[d] = "delivered" /\ finalReason'[d] = "authoritative_delivery_receipt"
      BY <1>1, <1>5, <2>2 DEF RecordReceipt, UpdateDelivery, TypeOK
    <3>2. SettledBy(d, "authoritative_delivery_receipt")'
      BY <1>5, <2>1, <2>2, Apart DEF SettledBy, ByAnswer, ByPolicy, ByReceipt, ByLifecycle
    <3> QED
      BY <3>1, <3>2 DEF FinalOf, Terminal
  <2>3. CASE r.kind \in {"bounced", "rejected"}
    <3>1. status'[d] = "failed" /\ finalReason'[d] = r.kind
      BY <1>1, <1>5, <2>3 DEF RecordReceipt, UpdateDelivery, TypeOK
    <3>2. SettledBy(d, r.kind)'
      BY <1>5, <2>1, <2>3, Apart DEF SettledBy, ByAnswer, ByPolicy, ByReceipt, ByLifecycle
    <3> QED
      BY <2>3, <3>1, <3>2 DEF FinalOf, Terminal
  <2> QED
    BY <1>5, <2>2, <2>3 DEF RecordReceipt
<1>6. ASSUME NEW i \in ObservationIds, NEW o \in LifecycleObservations,
             ObserveLifecycle(i, o), Cancellable(d, o)
      PROVE  FinalOf(d)'
  <2> DEFINE why == CancelReason[o.lifecycle]
  <2>1. /\ status'[d] = "failed" /\ finalReason'[d] = why
        /\ UNCHANGED <<attemptCount, requestedAt, attemptStatus>>
        /\ consumed'[i] = o
    BY <1>1, <1>6 DEF ObserveLifecycle, attemptVars, TypeOK
  <2>2. why \in CancelReasons
    BY CancelReasonValues DEF LifecycleObservations
  <2>3. \A k \in AttemptNumbers : attemptStatus'[d][k] # "dispatching"
    <3>1. status[d] \in Waiting /\ attemptCount[d] \in Int
      BY <1>1, <1>6, AttemptsAssumption DEF Cancellable, TypeOK
    <3>2. \A k \in AttemptNumbers : AttemptShape(d, k)
      BY DEF LedgerInvariant, DeliveryShape
    <3> QED
      BY <2>1, <3>1, <3>2 DEF AttemptShape, AttemptNumbers, Waiting
  <2>4. SettledBy(d, why)'
    <3>1. o.subject = SubjectOf[d] /\ requestedAt'[d] <= o.observedAt
      BY <1>6, <2>1 DEF Cancellable
    <3>2. Observed(d, why)'
      BY <2>1, <3>1 DEF Observed
    <3> HIDE DEF why
    <3> QED
      BY <2>2, <2>3, <3>2, Apart DEF SettledBy, ByAnswer, ByPolicy, ByReceipt, ByLifecycle
  <2>5. why # "none" /\ why # "authoritative_delivery_receipt" /\ why # "ambiguous_external_effect"
    BY <2>2, Apart
  <2> QED
    BY <2>1, <2>4, <2>5 DEF FinalOf, Terminal
<1>7. CASE Moved(d) /\ status'[d] \in Terminal
  <2>1. ~PersistIntent(d) /\ \A key \in RetryKeys : ~ManualRetry(d, key)
    BY <1>1, <1>7, MovesFrom DEF Terminal
  <2>2. \A w \in Workers : job[w].delivery = d => ~CommitClaim(w)
    BY <1>1, <1>7, MovesFrom DEF Terminal
  <2> QED
    BY <1>4, <1>5, <1>6, <1>7, <2>1, <2>2 DEF Moved
<1> QED
  BY <1>1, <1>2, <1>3, <1>7, WhoMoves

LEMMA FinalHolds == Spec => [](\A d \in Deliveries : FinalOf(d))
<1> DEFINE All == \A d \in Deliveries : FinalOf(d)
<1>1. Init => All
  BY DEF Init, FinalOf, Terminal
<1>2. LedgerInvariant /\ LedgerInvariant' /\ All /\ [Next]_vars => All'
  BY FinalKept
<1> QED BY <1>1, <1>2, LedgerInvariantHolds, PTL DEF Spec

\* Every final reason is backed by durable evidence of what it claims: the
\* receipt, the provider's last answer, the exhausted policy, or an observation
\* of the same subject that is not older and found nothing in flight.
THEOREM ReasonsHaveEvidence == Spec => []FinalEvidence
<1>1. (\A d \in Deliveries : FinalOf(d)) => FinalEvidence
  <2> SUFFICES ASSUME \A d \in Deliveries : FinalOf(d) PROVE FinalEvidence
    OBVIOUS
  <2>1. ASSUME NEW d \in Deliveries, finalReason[d] \in CancelReasons
        PROVE  /\ \E e \in LifecycleEvents : /\ e.subject = SubjectOf[d]
                                             /\ finalReason[d] = CancelReason[e.lifecycle]
                                             /\ requestedAt[d] <= e.observedAt
               /\ \A k \in AttemptNumbers : attemptStatus[d][k] # "dispatching"
    <3>1. finalReason[d] # "none"
      BY <2>1, Apart
    <3>2. /\ Observed(d, finalReason[d])
          /\ \A k \in AttemptNumbers : attemptStatus[d][k] # "dispatching"
      BY <2>1, <3>1 DEF FinalOf, SettledBy, ByLifecycle
    <3> QED
      BY <3>2 DEF Observed, LifecycleEvents
  <2> QED
    BY <2>1 DEF FinalEvidence, FinalOf, SettledBy, ByAnswer, ByPolicy, ByReceipt
<1> QED BY <1>1, FinalHolds, PTL

-----------------------------------------------------------------------------
(* Who is left attempting *)

\* The guards of every writer keep the revision within its bound.
RevisionBounded == \A d \in Deliveries : revision[d] <= MaxRevision

\* Without abandonment an attempting delivery has its worker, or cannot record.
OrphanOf(d) ==
    status[d] = "attempting" =>
        \/ \E w \in Workers : job[w].delivery = d /\ job[w].stage \in {"claimed", "sent", "replied"}
        \/ revision[d] = MaxRevision
        \/ /\ attemptCount[d] \in AttemptNumbers
           /\ effect[d][attemptCount[d]] = "accepted"
           /\ \E r \in receipts : r.kind = "accepted" /\ r.delivery # d

\* A call of the provider is answered with an observation.
LEMMA CallsAnswered ==
    ASSUME TypeOK, NEW w \in Workers, Dispatch(w)
    PROVE  Send(w) \/ \E o \in Observations : Answered(w, o.outcome, o)
<1>1. CASE ProviderResponds(w)
  BY <1>1 DEF ProviderResponds, Observations, NearClock
<1>2. \A t \in Times, outcome \in Outcomes :
        OwnObservation(outcome, t) \in Observations
        /\ OwnObservation(outcome, t).outcome = outcome
  BY TimeAssumption DEF OwnObservation, Observations
<1>3. job[w].stage = "sent" => job[w].now \in Times
  BY JobShape DEF TypeOK
<1>4. CASE ProviderRejects(w)
  BY <1>2, <1>3, <1>4 DEF ProviderRejects, Answered, Outcomes
<1>5. CASE ProviderAmbiguous(w)
  BY <1>2, <1>3, <1>5 DEF ProviderAmbiguous, UnknownDispatch, Answered, Outcomes
<1> QED
  BY <1>1, <1>4, <1>5 DEF Dispatch

\* The stages of an attempt in which somebody works on it.
Working == {"claimed", "sent", "replied"}

\* What a step does to the job of a worker with a claimed attempt.
LEMMA JobMoves ==
    ASSUME TypeOK, [Next]_vars, NEW w \in Workers, job[w].stage \in Working
    PROVE  \/ job'[w].delivery = job[w].delivery /\ job'[w].stage \in Working
           \/ Recorded(w) \/ AbsorbLate(w) \/ ObservationRefused(w) \/ Abandon(w)
<1>1. job \in [Workers -> Jobs]
  BY DEF TypeOK
<1>2. CASE job'[w] = job[w]
  BY <1>2
<1>3. CASE Send(w)
  <2>1. PICK i \in Jobs : i = job[w]
    BY <1>1
  <2>2. PICK n : n = [i EXCEPT !.stage = "sent"]
    OBVIOUS
  <2>3. i.stage = "claimed" /\ job'[w] = n
    BY <1>1, <1>3, <2>1, <2>2 DEF Send
  <2>4. n.delivery = i.delivery /\ n.stage = "sent"
    BY <2>2, <2>3, SendAdvance
  <2> QED
    BY <2>1, <2>3, <2>4 DEF Working
<1>4. ASSUME NEW o \in Observations, Answered(w, o.outcome, o)
      PROVE  job'[w].delivery = job[w].delivery /\ job'[w].stage \in Working
  <2>1. PICK i \in Jobs : i = job[w]
    BY <1>1
  <2>2. PICK n : n = [i EXCEPT !.stage = "replied", !.observation = o]
    OBVIOUS
  <2>3. job'[w] = n
    BY <1>1, <1>4, <2>1, <2>2 DEF Answered
  <2>4. i.stage = "sent" /\ o \in Observations
        /\ n = [i EXCEPT !.stage = "replied", !.observation = o]
    BY <1>4, <2>1, <2>2 DEF Answered
  <2>5. /\ n.delivery = i.delivery /\ n.attempt = i.attempt
        /\ n.stage = "replied" /\ n.observation = o
    BY <2>4, ReplyAdvance
  <2> QED
    BY <2>1, <2>3, <2>5 DEF Working
<1>5. ASSUME NEW v \in Workers, v # w, Claim(v) \/ Dispatch(v) \/ ApplyDispatch(v) \/ Abandon(v)
      PROVE  job'[w] = job[w]
  <2>1. \E j : job' = [job EXCEPT ![v] = j]
    BY <1>5 DEF Claim, SelectDue, CommitClaim, ClaimRefused, Dispatch, Send, ProviderResponds,
       ProviderRejects, ProviderAmbiguous, Answered, ApplyDispatch, RecordAccepted,
       RecordTemporary, RecordExhausted, RecordPermanent, RecordUnknown, AbsorbLate,
       ObservationRefused, Abandon, Finish
  <2> QED
    BY <1>1, <1>5, <2>1
<1>6. ~Claim(w)
  BY DEF Claim, SelectDue, CommitClaim, ClaimRefused, Working
<1>7. ASSUME ~(\E v \in Workers : Claim(v) \/ Dispatch(v) \/ ApplyDispatch(v) \/ Abandon(v))
      PROVE  job' = job
  BY <1>7 DEF Next, vars, Tick, Create, StartIntent, RenderFailure, PersistIntent,
     ObserveReceipt, RecordReceipt, AcknowledgeReceipt, ObserveInvitation, ObserveLifecycle,
     ManualRetry
<1> QED
  BY <1>2, <1>3, <1>4, <1>5, <1>6, <1>7, CallsAnswered DEF ApplyDispatch, Recorded

LEMMA RevisionStep ==
    ASSUME LedgerInvariant, Fresh, RevisionBounded, [Next]_vars
    PROVE  RevisionBounded'
<1>1. TypeOK
  BY DEF LedgerInvariant
<1> SUFFICES ASSUME NEW d \in Deliveries PROVE revision'[d] <= MaxRevision
  BY DEF RevisionBounded
<1>2. revision[d] \in Nat /\ revision[d] <= MaxRevision
  BY <1>1 DEF TypeOK, RevisionBounded
<1>3. Unmoved(d) \/ (Moved(d) /\ revision'[d] = revision[d] + 1)
  BY <1>1, RowStep, WhoMoves DEF Unmoved, Counted
<1>4. CASE PersistIntent(d)
  <2>1. revision'[d] = 1
    BY <1>1, <1>4 DEF PersistIntent, TypeOK
  <2> QED
    BY <2>1, RevisionAssumption
<1>5. ASSUME Moved(d), ~PersistIntent(d) PROVE revision[d] < MaxRevision
  <2>1. \A w \in Workers : CommitClaim(w) /\ job[w].delivery = d => revision[d] < MaxRevision
    BY DEF CommitClaim, Claimable
  <2>2. \A w \in Workers : Recorded(w) /\ job[w].delivery = d => revision[d] < MaxRevision
    BY <1>1, WorkerAt DEF Recordable
  <2>3. \A i \in ObservationIds, r \in ReceiptObservations :
          RecordReceipt(i, r) /\ r.delivery = d => revision[d] < MaxRevision
    BY DEF RecordReceipt
  <2>4. \A i \in ObservationIds, o \in LifecycleObservations :
          ObserveLifecycle(i, o) /\ Cancellable(d, o) => revision[d] < MaxRevision
    BY DEF ObserveLifecycle
  <2>5. \A key \in RetryKeys : ManualRetry(d, key) => revision[d] < MaxRevision
    BY DEF ManualRetry
  <2> QED
    BY <1>5, <2>1, <2>2, <2>3, <2>4, <2>5 DEF Moved
<1> QED
  BY <1>2, <1>3, <1>4, <1>5, RevisionAssumption DEF Unmoved

\* A worker that has claimed leaves its delivery attempting only when the ledger
\* cannot record the answer.
LEMMA OrphanStep ==
    ASSUME ~MayAbandon, LedgerInvariant, AnswerShape, RevisionBounded, [Next]_vars,
           NEW d \in Deliveries, OrphanOf(d)
    PROVE  OrphanOf(d)'
<1>1. TypeOK
  BY DEF LedgerInvariant
<1> SUFFICES ASSUME status'[d] = "attempting" PROVE OrphanOf(d)'
  BY DEF OrphanOf
<1>2. ASSUME NEW w \in Workers, CommitClaim(w), job[w].delivery = d
      PROVE  OrphanOf(d)'
  <2>1. PICK i \in Jobs : i = job[w]
    BY <1>1 DEF TypeOK
  <2>2. PICK n : n = [i EXCEPT !.stage = "claimed", !.revision = 0]
    OBVIOUS
  <2>3. i.stage = "selected" /\ job'[w] = n
    BY <1>1, <1>2, <2>1, <2>2 DEF CommitClaim, TypeOK
  <2>4. n.delivery = d /\ n.stage = "claimed"
    BY <1>2, <2>1, <2>2, <2>3, ClaimAdvance
  <2> QED
    BY <2>3, <2>4 DEF OrphanOf
<1>3. CASE status[d] = "attempting" /\ Unmoved(d)
  <2>1. revision'[d] = revision[d] /\ attemptCount'[d] = attemptCount[d]
    BY <1>3 DEF Unmoved, Row
  <2>2. CASE revision[d] = MaxRevision
    BY <2>1, <2>2 DEF OrphanOf
  <2>3. CASE /\ attemptCount[d] \in AttemptNumbers
             /\ effect[d][attemptCount[d]] = "accepted"
             /\ \E r \in receipts : r.kind = "accepted" /\ r.delivery # d
    <3>1. effect'[d][attemptCount[d]] = "accepted"
      BY <2>3, AnswerStands DEF Outcomes
    <3>2. receipts \subseteq receipts'
      BY <1>1, EvidenceGrows
    <3> QED
      BY <2>1, <2>3, <3>1, <3>2 DEF OrphanOf
  <2>4. ASSUME NEW w \in Workers, job[w].delivery = d, job[w].stage \in Working
        PROVE  OrphanOf(d)'
    <3>1. CASE job'[w].delivery = d /\ job'[w].stage \in Working
      BY <3>1 DEF OrphanOf, Working
    <3>2. ~Recorded(w) /\ ~AbsorbLate(w) /\ ~Abandon(w)
      BY <1>1, <1>3, <2>4, MovesFrom DEF AbsorbLate, Absorbable, Abandon
    <3>3. CASE ObservationRefused(w)
      <4>1. /\ job[w].stage = "replied" /\ ~Recordable(w) /\ effect' = effect
            /\ receipts' = receipts
        BY <3>3 DEF ObservationRefused, evidenceVars
      <4>2. job[w].attempt \in AttemptNumbers /\ job[w].attempt = attemptCount[d]
            /\ effect[d][attemptCount[d]] = job[w].observation.outcome
        BY <1>1, <2>4, <4>1, JobShape DEF LedgerInvariant, JobShapeOf, TypeOK
      <4>3. attemptStatus[d][job[w].attempt] = "dispatching"
            /\ dispatchRecord[d][job[w].attempt] = "none"
        BY <1>3, <4>2 DEF AnswerShape, OpenOf
      <4>4. CASE ~(revision[d] < MaxRevision)
        <5>1. revision[d] \in Nat /\ MaxRevision \in Nat
          BY <1>1, RevisionAssumption DEF TypeOK
        <5>2. revision[d] <= MaxRevision
          BY DEF RevisionBounded
        <5>3. revision[d] = MaxRevision
          BY <4>4, <5>1, <5>2
        <5> QED
          BY <2>2, <5>3
      <4>5. CASE revision[d] < MaxRevision
        <5>1. /\ job[w].observation.outcome = "accepted"
              /\ \E r \in receipts : r.kind = "accepted"
          BY <1>3, <2>4, <4>1, <4>3, <4>5 DEF Recordable, ReceiptRecorded
        <5>2. \A r \in receipts : r.kind = "accepted" => r.delivery # d
          BY <1>3 DEF AnswerShape, ReceiptShape
        <5> QED
          BY <2>3, <4>2, <5>1, <5>2
      <4> QED
        BY <4>4, <4>5
    <3> QED
      BY <1>1, <2>4, <3>1, <3>2, <3>3, JobMoves
  <2> QED
    BY <1>3, <2>2, <2>3, <2>4 DEF OrphanOf, Working
<1> QED
  BY <1>1, <1>2, <1>3, StatusMoves

\* Without lost processes or storage failures a delivery is left attempting with
\* nobody working on it only where the ledger cannot record the answer.
THEOREM OrphansHaveACause == Spec => []OrphansExplained
<1> DEFINE Explained == ~MayAbandon => \A d \in Deliveries : OrphanOf(d)
<1>1. Init => RevisionBounded /\ Explained
  BY RevisionAssumption DEF Init, RevisionBounded, OrphanOf
<1>2. LedgerInvariant /\ Fresh /\ RevisionBounded /\ [Next]_vars => RevisionBounded'
  BY RevisionStep
<1>3. LedgerInvariant /\ AnswerShape /\ RevisionBounded /\ Explained /\ [Next]_vars => Explained'
  BY OrphanStep
<1>4. Explained => OrphansExplained
  BY DEF OrphanOf, OrphansExplained, Unrecordable
<1> QED
  BY <1>1, <1>2, <1>3, <1>4, LedgerInvariantHolds, AnswerShapeHolds, FreshHolds, PTL DEF Spec
=============================================================================
