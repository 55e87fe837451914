--------------------------- MODULE DeliveryLedger ---------------------------
(***************************************************************************)
(* The delivery ledger of the Notification plugin: the rows of the         *)
(* deliveries, attempts, receipts, retry_requests and consumed_events      *)
(* tables, the concurrent dispatch_due invocations that claim a due        *)
(* delivery, call the Email Dispatch provider and record its answer, and   *)
(* the three other writers of the same rows: receipt observations,         *)
(* invitation lifecycle observations and the operator's manual retry.      *)
(*                                                                         *)
(* Every PostgreSQL transaction is one action, except claim_one_due, whose *)
(* row lock (FOR UPDATE SKIP LOCKED) is visible to the other claimers and  *)
(* is therefore two: SelectDue takes it, CommitClaim or ClaimRefused       *)
(* releases it.  A call that is refused, or that replays what is already   *)
(* recorded, leaves the ledger as it is and is a stuttering step.          *)
(*                                                                         *)
(* Operators whose comment begins with "Fault:" are slips a maintainer     *)
(* could make in the definition that follows; the specification never      *)
(* uses them.                                                              *)
(***************************************************************************)
EXTENDS Integers, FiniteSets

CONSTANTS
    Deliveries,      \* delivery ids, numbered in the order of "order by id"
    Workers,         \* concurrent dispatch_due invocations
    Subjects,        \* [source, invitation]: what a lifecycle observation names
    SubjectOf,       \* the subject of each delivery's intent, or NoSubject
    NoSubject,       \* an access request: no lifecycle observation names it
    MaxAttempts,     \* deliveries.max_attempts
    Delays,          \* RetryPolicy.delays_seconds
    RetryAfters,     \* retry_after values of the provider, 0 for none
    MaxRevision,     \* MAX_SAFE_WIRE_INTEGER
    Horizon,         \* bound on time: Horizon stands for every later instant
    ClockSkew,       \* how far the clocks of provider and sources may be off
    RemoteIds,       \* (source, remote_id) identities of remote receipts
    NoRemote,        \* no remote receipt
    Digests,         \* receipt digests
    ObservationIds,  \* observation ids chosen by the observing callers
    Lifecycles,      \* the observed lifecycle states
    RetryKeys,       \* idempotency keys of manual retries
    Unrevealable,    \* deliveries whose protected content cannot be decrypted
    MayAbandon       \* whether a process may die or the storage may fail

ASSUME DeliveriesAssumption == Deliveries \subseteq Nat \ {0}
ASSUME SubjectsAssumption == SubjectOf \in [Deliveries -> Subjects \cup {NoSubject}]
ASSUME AttemptsAssumption == MaxAttempts \in Nat \ {0}
ASSUME DelaysAssumption == Delays \in [DOMAIN Delays -> Nat]
ASSUME TimeAssumption == /\ Horizon \in Nat
                         /\ ClockSkew \in Nat
                         /\ RetryAfters \subseteq Nat
                         /\ 0 \in RetryAfters
ASSUME RevisionAssumption == MaxRevision \in Nat \ {0}
ASSUME LifecyclesAssumption == Lifecycles \subseteq {"accepted", "expired", "revoked"}
ASSUME SwitchAssumption == MayAbandon \in BOOLEAN

VARIABLES
    clock,          \* Utc::now()
    status,         \* deliveries.status; "absent" before the row exists
    revision,       \* deliveries.revision
    attemptCount,   \* deliveries.attempt_count
    nextAttemptAt,  \* deliveries.next_attempt_at, NoTime for null
    finalReason,    \* deliveries.final_reason, "none" for null
    requestedAt,    \* intents.requested_at: the time the create call captured
    attemptStatus,  \* attempts.status by sequence; "none" before the row exists
    dispatchRecord, \* attempts.provider and failure_classification, as an outcome
    receipts,       \* the receipts table
    retryRequests,  \* the retry_requests table
    consumed,       \* consumed_events: what each observation id was used for
    job,            \* the dispatch_due invocation each worker is executing
    effect          \* history: what the provider was asked and answered

deliveryVars == <<status, revision, attemptCount, nextAttemptAt, finalReason, requestedAt>>
attemptVars == <<attemptStatus, dispatchRecord>>
evidenceVars == <<receipts, retryRequests, consumed>>
vars == <<clock, deliveryVars, attemptVars, evidenceVars, job, effect>>

-----------------------------------------------------------------------------
(* Values *)

Times == 0..Horizon
NoTime == -1
AttemptNumbers == 1..MaxAttempts

\* Fault: stuck attempts are put back into the queue.
WaitingOrStuck == {"queued", "retry_scheduled", "attempting"}

\* where status in ('queued', 'retry_scheduled')
Waiting == {"queued", "retry_scheduled"}
Terminal == {"delivered", "failed", "delivery_unknown"}
Statuses == Waiting \cup Terminal \cup {"attempting", "accepted"}

Outcomes == {"accepted", "temporary_failure", "permanent_failure", "delivery_unknown"}
AttemptStatuses == Outcomes \cup {"dispatching"}

CancelReason == [accepted |-> "source_invitation_accepted",
                 expired  |-> "source_invitation_expired",
                 revoked  |-> "source_invitation_revoked"]
CancelReasons == {CancelReason[l] : l \in DOMAIN CancelReason}
FinalReasons == CancelReasons \cup
    {"authoritative_delivery_receipt", "bounced", "rejected", "permanent_failure",
     "retry_exhausted", "ambiguous_external_effect"}

ReceiptKinds == {"delivered", "bounced", "rejected"}
ReceiptObservations ==
    [delivery : Deliveries, attempt : AttemptNumbers, kind : ReceiptKinds,
     remote : RemoteIds, digest : Digests]
Receipts ==
    [delivery : Deliveries, attempt : AttemptNumbers, kind : ReceiptKinds \cup {"accepted"},
     remote : RemoteIds, digest : Digests]
LifecycleObservations ==
    [subject : Subjects, lifecycle : Lifecycles, observedAt : Times]
Unconsumed == [unconsumed |-> TRUE]

\* The idempotency key of an automatic decision is the id of the dispatch
\* observation it was taken from, one per attempt.
AutomaticKey(k) == <<"dispatch-observation", k>>
RetryRequests ==
    [delivery : Deliveries, kind : {"automatic", "manual"},
     key : RetryKeys \cup {AutomaticKey(k) : k \in AttemptNumbers},
     decision : {"scheduled", "rejected"},
     sourceRevision : Nat, scheduledAt : Times \cup {NoTime}]

\* EmailDispatchObserved: a native response of the shape the plugin admits.
\* A remote receipt carries its own digest; it accompanies acceptance only,
\* a retry delay accompanies temporary failure only.
RemoteReceipts == [remote : RemoteIds, digest : Digests]
NoReceipt == [remote |-> NoRemote]
Observations ==
    [outcome : Outcomes, receipt : RemoteReceipts \cup {NoReceipt},
     retryAfter : RetryAfters, observedAt : Times]
ValidDispatchResponse(o) ==
    /\ o.outcome # "accepted" => o.receipt = NoReceipt
    /\ o.outcome # "temporary_failure" => o.retryAfter = 0
NoObservation == [outcome |-> "none"]

Idle == [stage |-> "idle", delivery |-> 0, attempt |-> 0, revision |-> 0,
         now |-> 0, observation |-> NoObservation]
Jobs == {Idle} \cup
    [stage : {"selected", "claimed", "sent"}, delivery : Deliveries,
     attempt : AttemptNumbers, revision : Nat, now : Times, observation : {NoObservation}] \cup
    [stage : {"replied"}, delivery : Deliveries,
     attempt : AttemptNumbers, revision : Nat, now : Times, observation : Observations]

\* The clock of another process, off by at most ClockSkew.
NearClock == {t \in Times : clock - ClockSkew <= t /\ t <= clock + ClockSkew}

-----------------------------------------------------------------------------
(* Time and the retry policy *)

\* t + delay, where Horizon stands for every instant from Horizon on.
Later(t, delay) == IF t + delay <= Horizon THEN t + delay ELSE Horizon

\* Fault: one attempt more than the policy allows.
NextAtOffByOne(completed, observedAt) ==
    IF completed > MaxAttempts \/ completed \notin DOMAIN Delays
    THEN Later(observedAt, 0)
    ELSE Later(observedAt, Delays[completed])

\* RetryPolicy::next_at: NoTime once the attempts or the delays are used up.
NextAt(completed, observedAt) ==
    IF completed >= MaxAttempts \/ completed \notin DOMAIN Delays
    THEN NoTime
    ELSE Later(observedAt, Delays[completed])

\* The instant of the next attempt: the policy's, or the provider's if later.
ScheduleAt(completed, o) ==
    LET policy == NextAt(completed, o.observedAt)
        asked  == Later(o.observedAt, o.retryAfter)
    IN  IF policy >= asked THEN policy ELSE asked

-----------------------------------------------------------------------------
(* Initial state *)

Init ==
    /\ clock = 0
    /\ status = [d \in Deliveries |-> "absent"]
    /\ revision = [d \in Deliveries |-> 0]
    /\ attemptCount = [d \in Deliveries |-> 0]
    /\ nextAttemptAt = [d \in Deliveries |-> NoTime]
    /\ finalReason = [d \in Deliveries |-> "none"]
    /\ requestedAt = [d \in Deliveries |-> NoTime]
    /\ attemptStatus = [d \in Deliveries |-> [k \in AttemptNumbers |-> "none"]]
    /\ dispatchRecord = [d \in Deliveries |-> [k \in AttemptNumbers |-> "none"]]
    /\ receipts = {}
    /\ retryRequests = {}
    /\ consumed = [i \in ObservationIds |-> Unconsumed]
    /\ job = [w \in Workers |-> Idle]
    /\ effect = [d \in Deliveries |-> [k \in AttemptNumbers |-> "none"]]

\* Fault: the revision is incremented only when the status changes.
UpdateDeliveryStatus(d, newStatus, newNext, newReason) ==
    /\ status' = [status EXCEPT ![d] = newStatus]
    /\ revision' = [revision EXCEPT ![d] = IF newStatus = status[d] THEN @ ELSE @ + 1]
    /\ nextAttemptAt' = [nextAttemptAt EXCEPT ![d] = newNext]
    /\ finalReason' = [finalReason EXCEPT ![d] = newReason]
    /\ UNCHANGED requestedAt

\* One UPDATE of a deliveries row: the new status, time and reason, and the
\* revision that every such statement increments.
UpdateDelivery(d, newStatus, newNext, newReason) ==
    /\ status' = [status EXCEPT ![d] = newStatus]
    /\ revision' = [revision EXCEPT ![d] = @ + 1]
    /\ nextAttemptAt' = [nextAttemptAt EXCEPT ![d] = newNext]
    /\ finalReason' = [finalReason EXCEPT ![d] = newReason]
    /\ UNCHANGED requestedAt

-----------------------------------------------------------------------------
(* Creating a delivery.  The create call captures now, renders the template *)
(* outside any transaction, then commits one queued delivery stamped with   *)
(* the captured time; a failed render writes nothing.                       *)

StartIntent(d) ==
    /\ status[d] = "absent"
    /\ requestedAt[d] = NoTime
    /\ requestedAt' = [requestedAt EXCEPT ![d] = clock]
    /\ UNCHANGED <<clock, status, revision, attemptCount, nextAttemptAt, finalReason,
                   attemptVars, evidenceVars, job, effect>>

RenderFailure(d) ==
    /\ status[d] = "absent"
    /\ requestedAt[d] # NoTime
    /\ requestedAt' = [requestedAt EXCEPT ![d] = NoTime]
    /\ UNCHANGED <<clock, status, revision, attemptCount, nextAttemptAt, finalReason,
                   attemptVars, evidenceVars, job, effect>>

PersistIntent(d) ==
    /\ status[d] = "absent"
    /\ requestedAt[d] # NoTime
    /\ status' = [status EXCEPT ![d] = "queued"]
    /\ revision' = [revision EXCEPT ![d] = 1]
    /\ nextAttemptAt' = [nextAttemptAt EXCEPT ![d] = requestedAt[d]]
    /\ UNCHANGED <<clock, attemptCount, finalReason, requestedAt,
                   attemptVars, evidenceVars, job, effect>>

-----------------------------------------------------------------------------
(* dispatch_due: claim *)

\* Fault: the claim query does not look at the row locks.
NeverLocked(d) == FALSE

\* The row is locked by a claim transaction that has not committed.
Locked(d) == \E w \in Workers : job[w].stage = "selected" /\ job[w].delivery = d

Due(d, now) ==
    /\ status[d] \in Waiting
    /\ nextAttemptAt[d] <= now
    /\ attemptCount[d] < MaxAttempts

\* order by next_attempt_at asc, id asc
Precedes(d, e) == \/ nextAttemptAt[d] < nextAttemptAt[e]
                  \/ nextAttemptAt[d] = nextAttemptAt[e] /\ d <= e

\* select ... for update of deliveries skip locked limit 1
SelectDue(w) ==
    /\ job[w].stage = "idle"
    /\ \E d \in Deliveries :
        /\ Due(d, clock) /\ ~Locked(d)
        /\ \A e \in Deliveries : Due(e, clock) /\ ~Locked(e) => Precedes(d, e)
        /\ job' = [job EXCEPT ![w] =
                     [stage |-> "selected", delivery |-> d,
                      attempt |-> attemptCount[d] + 1, revision |-> revision[d],
                      now |-> clock, observation |-> NoObservation]]
    /\ UNCHANGED <<clock, deliveryVars, attemptVars, evidenceVars, effect>>

\* Fault: the content is revealed only after the claim is committed.
ClaimableUnrevealed(w) ==
    LET d == job[w].delivery IN
    /\ job[w].revision < MaxRevision
    /\ status[d] \in Waiting
    /\ revision[d] = job[w].revision

\* What the claim transaction requires before it commits: a revision that can
\* still grow, content that can be revealed, and the compare-and-set update.
Claimable(w) ==
    LET d == job[w].delivery IN
    /\ job[w].revision < MaxRevision
    /\ d \notin Unrevealable
    /\ status[d] \in Waiting
    /\ revision[d] = job[w].revision

\* The attempt row and the claimed delivery are committed together.
CommitClaim(w) ==
    LET d == job[w].delivery
        k == job[w].attempt
    IN  /\ job[w].stage = "selected"
        /\ Claimable(w)
        /\ attemptStatus' = [attemptStatus EXCEPT ![d][k] = "dispatching"]
        /\ attemptCount' = [attemptCount EXCEPT ![d] = k]
        /\ UpdateDelivery(d, "attempting", NoTime, finalReason[d])
        /\ job' = [job EXCEPT ![w] = [@ EXCEPT !.stage = "claimed", !.revision = 0]]
        /\ UNCHANGED <<clock, dispatchRecord, evidenceVars, effect>>

\* The claim fails and rolls back; the row is unlocked and still due.
ClaimRefused(w) ==
    /\ job[w].stage = "selected"
    /\ ~Claimable(w)
    /\ job' = [job EXCEPT ![w] = Idle]
    /\ UNCHANGED <<clock, deliveryVars, attemptVars, evidenceVars, effect>>

-----------------------------------------------------------------------------
(* dispatch_due: the provider call, outside any transaction *)

\* email.dispatch is invoked with the attempt id as idempotency key.
Send(w) ==
    LET d == job[w].delivery
        k == job[w].attempt
    IN  /\ job[w].stage = "claimed"
        /\ effect' = [effect EXCEPT ![d][k] = "invoked"]
        /\ job' = [job EXCEPT ![w] = [@ EXCEPT !.stage = "sent"]]
        /\ UNCHANGED <<clock, deliveryVars, attemptVars, evidenceVars>>

\* The call returns: the truth is history, the observation is what the
\* invocation will try to record.
Answered(w, truth, o) ==
    LET d == job[w].delivery
        k == job[w].attempt
    IN  /\ job[w].stage = "sent"
        /\ effect' = [effect EXCEPT ![d][k] = truth]
        /\ job' = [job EXCEPT ![w] = [@ EXCEPT !.stage = "replied", !.observation = o]]
        /\ UNCHANGED <<clock, deliveryVars, attemptVars, evidenceVars>>

\* A native response of an admitted shape, stamped by the provider's clock.
ProviderResponds(w) ==
    \E outcome \in Outcomes, receipt \in RemoteReceipts \cup {NoReceipt},
       retryAfter \in RetryAfters, t \in NearClock :
        LET o == [outcome |-> outcome, receipt |-> receipt,
                  retryAfter |-> retryAfter, observedAt |-> t]
        IN  ValidDispatchResponse(o) /\ Answered(w, outcome, o)

\* An observation the plugin makes itself carries the time of the claim.
OwnObservation(outcome, now) ==
    [outcome |-> outcome, receipt |-> NoReceipt, retryAfter |-> 0, observedAt |-> now]

\* invalid_dispatch or unsupported_message: rejected before any effect.
ProviderRejects(w) ==
    Answered(w, "permanent_failure", OwnObservation("permanent_failure", job[w].now))

\* Fault: a Runtime failure is taken for a temporary one.
UnknownDispatchRetried(now) == OwnObservation("temporary_failure", now)

UnknownDispatch(now) == OwnObservation("delivery_unknown", now)

\* A Runtime failure, an unknown Domain error or a response that breaks the
\* contract: the effect may or may not have happened.
ProviderAmbiguous(w) == Answered(w, "delivery_unknown", UnknownDispatch(job[w].now))

-----------------------------------------------------------------------------
(* dispatch_due: apply_dispatch_observation *)

HasReceipt(d, k) == \E r \in receipts : r.delivery = d /\ r.attempt = k

\* Fault: late_observation_is_compatible accepts whatever a receipt finished.
LateObservationAlwaysCompatible(d, k, outcome) ==
    HasReceipt(d, k) /\ status[d] \in {"delivered", "failed"}

LateObservationIsCompatible(d, k, outcome) ==
    /\ HasReceipt(d, k)
    /\ \/ status[d] = "delivered" /\ outcome = "accepted"
       \/ status[d] = "failed" /\ outcome = "permanent_failure"

\* Fault: the identity of a receipt leaves out its kind.
ReceiptRecordedAnyKind(remote, kind) == \E r \in receipts : r.remote = remote

\* unique (source, remote_id, kind)
ReceiptRecorded(remote, kind) == \E r \in receipts : r.remote = remote /\ r.kind = kind

\* Fault: the check of the revision bound is missing.
RecordableUnbounded(w) ==
    LET d == job[w].delivery
        k == job[w].attempt
        o == job[w].observation
    IN  /\ dispatchRecord[d][k] = "none"
        /\ status[d] = "attempting"
        /\ attemptStatus[d][k] = "dispatching"
        /\ o.outcome = "accepted" /\ o.receipt # NoReceipt
              => ~ReceiptRecorded(o.receipt.remote, "accepted")

\* The observation finds its attempt open, its event id unused and the
\* revision able to grow; an acceptance can insert its remote receipt.  The
\* event dispatch-observation:<attempt> is consumed in the transaction that
\* fills the attempt's provider columns, and only there.
Recordable(w) ==
    LET d == job[w].delivery
        k == job[w].attempt
        o == job[w].observation
    IN  /\ dispatchRecord[d][k] = "none"
        /\ status[d] = "attempting"
        /\ attemptStatus[d][k] = "dispatching"
        /\ revision[d] < MaxRevision
        /\ o.outcome = "accepted" /\ o.receipt # NoReceipt
              => ~ReceiptRecorded(o.receipt.remote, "accepted")

Absorbable(w) ==
    LET d == job[w].delivery
        k == job[w].attempt
    IN  /\ dispatchRecord[d][k] = "none"
        /\ status[d] # "attempting"
        /\ LateObservationIsCompatible(d, k, job[w].observation.outcome)

\* update_attempt: the open attempt takes the outcome as its status.
CloseAttempt(d, k, outcome) ==
    /\ attemptStatus' = [attemptStatus EXCEPT ![d][k] = outcome]
    /\ dispatchRecord' = [dispatchRecord EXCEPT ![d][k] = outcome]

Finish(w) == job' = [job EXCEPT ![w] = Idle]

RecordAccepted(w) ==
    LET d == job[w].delivery
        k == job[w].attempt
        o == job[w].observation
    IN  /\ job[w].stage = "replied" /\ Recordable(w)
        /\ o.outcome = "accepted"
        /\ CloseAttempt(d, k, "accepted")
        /\ UpdateDelivery(d, "accepted", nextAttemptAt[d], finalReason[d])
        /\ receipts' = receipts \cup
             IF o.receipt = NoReceipt THEN {}
             ELSE {[delivery |-> d, attempt |-> k, kind |-> "accepted",
                    remote |-> o.receipt.remote, digest |-> o.receipt.digest]}
        /\ Finish(w)
        /\ UNCHANGED <<clock, attemptCount, retryRequests, consumed, effect>>

\* Fault: the decision is stamped with the revision it produces.
AutomaticDecisionAfter(d, k, decision, at) ==
    [delivery |-> d, kind |-> "automatic", key |-> AutomaticKey(k), decision |-> decision,
     sourceRevision |-> revision[d] + 1, scheduledAt |-> at]

\* insert_retry_decision
AutomaticDecision(d, k, decision, at) ==
    [delivery |-> d, kind |-> "automatic", key |-> AutomaticKey(k), decision |-> decision,
     sourceRevision |-> revision[d], scheduledAt |-> at]

\* A known temporary failure closes the attempt and schedules the next one.
RecordTemporary(w) ==
    LET d  == job[w].delivery
        k  == job[w].attempt
        o  == job[w].observation
        at == ScheduleAt(attemptCount[d], o)
    IN  /\ job[w].stage = "replied" /\ Recordable(w)
        /\ o.outcome = "temporary_failure"
        /\ NextAt(attemptCount[d], o.observedAt) # NoTime
        /\ CloseAttempt(d, k, "temporary_failure")
        /\ UpdateDelivery(d, "retry_scheduled", at, finalReason[d])
        /\ retryRequests' = retryRequests \cup {AutomaticDecision(d, k, "scheduled", at)}
        /\ Finish(w)
        /\ UNCHANGED <<clock, attemptCount, receipts, consumed, effect>>

\* ... or, when the policy has no further attempt, fails the delivery.
RecordExhausted(w) ==
    LET d == job[w].delivery
        k == job[w].attempt
        o == job[w].observation
    IN  /\ job[w].stage = "replied" /\ Recordable(w)
        /\ o.outcome = "temporary_failure"
        /\ NextAt(attemptCount[d], o.observedAt) = NoTime
        /\ CloseAttempt(d, k, "temporary_failure")
        /\ UpdateDelivery(d, "failed", NoTime, "retry_exhausted")
        /\ retryRequests' = retryRequests \cup {AutomaticDecision(d, k, "rejected", NoTime)}
        /\ Finish(w)
        /\ UNCHANGED <<clock, attemptCount, receipts, consumed, effect>>

RecordPermanent(w) ==
    LET d == job[w].delivery
        k == job[w].attempt
    IN  /\ job[w].stage = "replied" /\ Recordable(w)
        /\ job[w].observation.outcome = "permanent_failure"
        /\ CloseAttempt(d, k, "permanent_failure")
        /\ UpdateDelivery(d, "failed", NoTime, "permanent_failure")
        /\ Finish(w)
        /\ UNCHANGED <<clock, attemptCount, evidenceVars, effect>>

RecordUnknown(w) ==
    LET d == job[w].delivery
        k == job[w].attempt
    IN  /\ job[w].stage = "replied" /\ Recordable(w)
        /\ job[w].observation.outcome = "delivery_unknown"
        /\ CloseAttempt(d, k, "delivery_unknown")
        /\ UpdateDelivery(d, "delivery_unknown", NoTime, "ambiguous_external_effect")
        /\ Finish(w)
        /\ UNCHANGED <<clock, attemptCount, evidenceVars, effect>>

\* absorb_late_dispatch_observation: a receipt was faster; the attempt's
\* provider columns are filled and nothing else changes.
AbsorbLate(w) ==
    LET d == job[w].delivery
        k == job[w].attempt
    IN  /\ job[w].stage = "replied" /\ Absorbable(w)
        /\ dispatchRecord' = [dispatchRecord EXCEPT ![d][k] = job[w].observation.outcome]
        /\ Finish(w)
        /\ UNCHANGED <<clock, deliveryVars, attemptStatus, evidenceVars, effect>>

\* Any other observation is a conflict: the transaction rolls back, and the
\* answer of the provider is known to nobody once the call returns.  So is a
\* late one that could be absorbed, when its receipt was committed while the
\* select waited for the delivery: whether there is a receipt was answered
\* before (LedgerStatements).
ObservationRefused(w) ==
    /\ job[w].stage = "replied" /\ ~Recordable(w)
    /\ Finish(w)
    /\ UNCHANGED <<clock, deliveryVars, attemptVars, evidenceVars, effect>>

\* The process dies, the call is cancelled or a statement of the open
\* transaction fails: what is not committed is lost, nobody resumes the job.
Abandon(w) ==
    /\ MayAbandon
    /\ job[w].stage # "idle"
    /\ Finish(w)
    /\ UNCHANGED <<clock, deliveryVars, attemptVars, evidenceVars, effect>>

-----------------------------------------------------------------------------
(* observe_receipt *)

\* Fault: a late receipt reopens the question of an ambiguous delivery.
ReceiptAdmitsUnknown(d) == status[d] \in {"attempting", "accepted", "delivery_unknown"}

ReceiptAdmits(d) == status[d] \in {"attempting", "accepted"}

\* A first observation of a receipt for an attempt that was handed to the
\* provider.  Any attempt of the delivery will do, not only the latest.
RecordReceipt(i, r) ==
    LET d == r.delivery
        k == r.attempt
    IN  /\ effect[d][k] # "none"
        /\ consumed[i] = Unconsumed
        /\ ~ReceiptRecorded(r.remote, r.kind)
        /\ ReceiptAdmits(d)
        /\ revision[d] < MaxRevision
        /\ consumed' = [consumed EXCEPT ![i] = r]
        /\ receipts' = receipts \cup {r}
        /\ \/ /\ r.kind = "delivered"
              /\ attemptStatus' = [attemptStatus EXCEPT ![d][k] = "accepted"]
              /\ UpdateDelivery(d, "delivered", nextAttemptAt[d],
                                "authoritative_delivery_receipt")
           \/ /\ r.kind \in {"bounced", "rejected"}
              /\ attemptStatus' = [attemptStatus EXCEPT ![d][k] = "permanent_failure"]
              /\ UpdateDelivery(d, "failed", NoTime, r.kind)
        /\ UNCHANGED <<clock, attemptCount, dispatchRecord, retryRequests, job, effect>>

\* Fault: another kind of receipt counts as the same one.
SameReceiptAnyKind(q, r) == q.remote = r.remote /\ q.digest = r.digest

SameReceipt(q, r) == q.remote = r.remote /\ q.kind = r.kind /\ q.digest = r.digest

\* A receipt whose identity is recorded with the same digest is acknowledged
\* and its observation id used up; nothing else is looked at.
AcknowledgeReceipt(i, r) ==
    /\ effect[r.delivery][r.attempt] # "none"
    /\ consumed[i] = Unconsumed
    /\ \E q \in receipts : SameReceipt(q, r)
    /\ consumed' = [consumed EXCEPT ![i] = r]
    /\ UNCHANGED <<clock, deliveryVars, attemptVars, receipts, retryRequests, job, effect>>

-----------------------------------------------------------------------------
(* observe_invitation_lifecycle *)

\* Fault: the work in flight is cancelled with the rest.
CancellableInFlight(d, o) ==
    /\ SubjectOf[d] = o.subject
    /\ status[d] \in Waiting \cup {"attempting"}
    /\ requestedAt[d] <= o.observedAt

\* Work of the invitation that is not in flight and not newer than the
\* observation.
Cancellable(d, o) ==
    /\ SubjectOf[d] = o.subject
    /\ status[d] \in Waiting
    /\ requestedAt[d] <= o.observedAt

\* All the cancellable work fails in one transaction, or, when one revision
\* cannot grow, none.  A locked row is waited for.
ObserveLifecycle(i, o) ==
    LET cancelled == {d \in Deliveries : Cancellable(d, o)} IN
    /\ consumed[i] = Unconsumed
    /\ \A d \in cancelled : ~Locked(d) /\ revision[d] < MaxRevision
    /\ consumed' = [consumed EXCEPT ![i] = o]
    /\ status' = [d \in Deliveries |-> IF d \in cancelled THEN "failed" ELSE status[d]]
    /\ revision' = [d \in Deliveries |->
                      IF d \in cancelled THEN revision[d] + 1 ELSE revision[d]]
    /\ nextAttemptAt' = [d \in Deliveries |->
                           IF d \in cancelled THEN NoTime ELSE nextAttemptAt[d]]
    /\ finalReason' = [d \in Deliveries |->
                         IF d \in cancelled THEN CancelReason[o.lifecycle] ELSE finalReason[d]]
    /\ UNCHANGED <<clock, attemptCount, requestedAt, attemptVars, receipts, retryRequests,
                   job, effect>>

-----------------------------------------------------------------------------
(* retry_delivery *)

\* Fault: a failed delivery with attempts left can be retried by hand.
RetryEligibleFailed(d) ==
    status[d] \in {"retry_scheduled", "failed"} /\ attemptCount[d] < MaxAttempts

\* Only a retry that is already scheduled can be brought forward.
RetryEligible(d) == status[d] = "retry_scheduled" /\ attemptCount[d] < MaxAttempts

\* The caller names the current revision and an unused key: retry now.
ManualRetry(d, key) ==
    /\ \A r \in retryRequests : ~(r.delivery = d /\ r.key = key)
    /\ ~Locked(d)
    /\ revision[d] < MaxRevision
    /\ RetryEligible(d)
    /\ retryRequests' = retryRequests \cup
         {[delivery |-> d, kind |-> "manual", key |-> key, decision |-> "scheduled",
           sourceRevision |-> revision[d], scheduledAt |-> clock]}
    /\ UpdateDelivery(d, "retry_scheduled", clock, finalReason[d])
    /\ UNCHANGED <<clock, attemptCount, attemptVars, receipts, consumed, job, effect>>

-----------------------------------------------------------------------------
Tick ==
    /\ clock < Horizon
    /\ clock' = clock + 1
    /\ UNCHANGED <<deliveryVars, attemptVars, evidenceVars, job, effect>>

Create(d) == StartIntent(d) \/ RenderFailure(d) \/ PersistIntent(d)

Claim(w) == SelectDue(w) \/ CommitClaim(w) \/ ClaimRefused(w)

Dispatch(w) == Send(w) \/ ProviderResponds(w) \/ ProviderRejects(w) \/ ProviderAmbiguous(w)

ApplyDispatch(w) ==
    \/ RecordAccepted(w) \/ RecordTemporary(w) \/ RecordExhausted(w)
    \/ RecordPermanent(w) \/ RecordUnknown(w)
    \/ AbsorbLate(w) \/ ObservationRefused(w)

ObserveReceipt ==
    \E i \in ObservationIds, r \in ReceiptObservations :
        RecordReceipt(i, r) \/ AcknowledgeReceipt(i, r)

\* A source stamps its observation with its own clock.
ObserveInvitation ==
    \E i \in ObservationIds, s \in Subjects, l \in Lifecycles, t \in NearClock :
        ObserveLifecycle(i, [subject |-> s, lifecycle |-> l, observedAt |-> t])

Next ==
    \/ Tick
    \/ \E d \in Deliveries : Create(d)
    \/ \E w \in Workers : Claim(w) \/ Dispatch(w) \/ ApplyDispatch(w) \/ Abandon(w)
    \/ ObserveReceipt
    \/ ObserveInvitation
    \/ \E d \in Deliveries, key \in RetryKeys : ManualRetry(d, key)

Spec == Init /\ [][Next]_vars

-----------------------------------------------------------------------------
(* Properties *)

\* Every column holds a value of its type.
TypeOK ==
    /\ clock \in Times
    /\ status \in [Deliveries -> Statuses \cup {"absent"}]
    /\ revision \in [Deliveries -> Nat]
    /\ attemptCount \in [Deliveries -> 0..MaxAttempts]
    /\ nextAttemptAt \in [Deliveries -> Times \cup {NoTime}]
    /\ finalReason \in [Deliveries -> FinalReasons \cup {"none"}]
    /\ requestedAt \in [Deliveries -> Times \cup {NoTime}]
    /\ attemptStatus \in [Deliveries -> [AttemptNumbers -> AttemptStatuses \cup {"none"}]]
    /\ dispatchRecord \in [Deliveries -> [AttemptNumbers -> Outcomes \cup {"none"}]]
    /\ receipts \subseteq Receipts
    /\ retryRequests \subseteq RetryRequests
    /\ consumed \in [ObservationIds ->
                       ReceiptObservations \cup LifecycleObservations \cup {Unconsumed}]
    /\ job \in [Workers -> Jobs]
    /\ effect \in [Deliveries -> [AttemptNumbers -> Outcomes \cup {"none", "invoked"}]]

\* Two dispatch_due invocations never work on the same delivery, from the
\* row lock of the claim to the end of the observation (claim_one_due).
ExclusiveWork ==
    \A v, w \in Workers :
        v # w /\ job[v].stage # "idle" /\ job[w].stage # "idle"
            => job[v].delivery # job[w].delivery

\* Only the latest attempt can be open, and only while its delivery is
\* attempting; the one exception is a receipt for an earlier attempt, which
\* finishes the delivery under the open one (apply_receipt).
OneOpenAttempt ==
    \A d \in Deliveries, k \in AttemptNumbers :
        attemptStatus[d][k] = "dispatching" =>
            /\ k = attemptCount[d]
            /\ \/ status[d] = "attempting"
               \/ /\ status[d] \in {"delivered", "failed"}
                  /\ \E r \in receipts : r.delivery = d /\ r.attempt < k

\* A delivery is attempted again only after the provider answered every
\* earlier attempt with a temporary failure: never after a success, after an
\* ambiguous answer, or after a call whose answer was lost.
NoReplayAfterAmbiguity ==
    \A d \in Deliveries, k \in AttemptNumbers :
        k < attemptCount[d] => effect[d][k] = "temporary_failure"

LifecycleEvents == {consumed[i] : i \in ObservationIds} \cap LifecycleObservations

\* A final reason is backed by durable evidence of what it claims: the
\* receipt, the provider's answer to the last attempt, the exhausted policy,
\* or a lifecycle observation of the same subject that is not older than the
\* request and that found no attempt in flight.
FinalEvidence ==
    \A d \in Deliveries :
        LET reason == finalReason[d]
            last   == attemptCount[d]
        IN  /\ status[d] \in Terminal <=> reason # "none"
            /\ status[d] = "delivered" <=> reason = "authoritative_delivery_receipt"
            /\ status[d] = "delivery_unknown" <=> reason = "ambiguous_external_effect"
            /\ reason = "authoritative_delivery_receipt" =>
                 \E r \in receipts : r.delivery = d /\ r.kind = "delivered"
            /\ reason \in {"bounced", "rejected"} =>
                 \E r \in receipts : r.delivery = d /\ r.kind = reason
            /\ reason = "permanent_failure" => effect[d][last] = "permanent_failure"
            /\ reason = "ambiguous_external_effect" => effect[d][last] = "delivery_unknown"
            /\ reason = "retry_exhausted" =>
                 /\ effect[d][last] = "temporary_failure"
                 /\ last = MaxAttempts \/ last \notin DOMAIN Delays
                 /\ \E r \in retryRequests : /\ r.delivery = d /\ r.decision = "rejected"
                                              /\ r.key = AutomaticKey(last)
            /\ reason \in CancelReasons =>
                 /\ \E e \in LifecycleEvents : /\ e.subject = SubjectOf[d]
                                              /\ reason = CancelReason[e.lifecycle]
                                              /\ requestedAt[d] <= e.observedAt
                 /\ \A k \in AttemptNumbers : attemptStatus[d][k] # "dispatching"

\* Every further attempt rests on a scheduling decision, and the decision in
\* force is the newest one: it was taken on the previous revision and names
\* the time at which the delivery is due.
RetryEvidence ==
    /\ \A d \in Deliveries : status[d] = "retry_scheduled" =>
        \E r \in retryRequests :
            /\ r.delivery = d /\ r.decision = "scheduled"
            /\ r.sourceRevision = revision[d] - 1
            /\ r.scheduledAt = nextAttemptAt[d]
    /\ \A d \in Deliveries, k \in AttemptNumbers : k < attemptCount[d] =>
        \E r \in retryRequests :
            r.delivery = d /\ r.decision = "scheduled" /\ r.key = AutomaticKey(k)

\* A receipt that was acknowledged is in the ledger, and a delivery receipt
\* in the ledger was observed (claim_event and insert_receipt commit together).
AcknowledgedReceipts ==
    /\ \A i \in ObservationIds : consumed[i] \in ReceiptObservations =>
        \E r \in receipts : /\ r.remote = consumed[i].remote
                            /\ r.kind = consumed[i].kind
                            /\ r.digest = consumed[i].digest
    /\ \A r \in receipts : r.kind = "accepted" \/ \E i \in ObservationIds : consumed[i] = r

\* What an attempt records of the provider's answer is what the provider
\* answered, and the attempt's status contradicts it only where a receipt
\* does (update_attempt, absorb_late_dispatch_observation).
AttemptEvidenceAgrees ==
    \A d \in Deliveries, k \in AttemptNumbers :
        LET recorded == dispatchRecord[d][k] IN
        recorded # "none" =>
            /\ recorded = effect[d][k]
            /\ recorded = "accepted" =>
                 \/ attemptStatus[d][k] = "accepted"
                 \/ attemptStatus[d][k] = "permanent_failure" /\ HasReceipt(d, k)
            /\ recorded = "temporary_failure" =>
                 attemptStatus[d][k] = "temporary_failure" \/ HasReceipt(d, k)
            /\ recorded \in {"permanent_failure", "delivery_unknown"} =>
                 attemptStatus[d][k] = recorded

Row(d) == <<status[d], attemptCount[d], nextAttemptAt[d], finalReason[d]>>

\* A reader that sees the same revision sees the same row: every change of a
\* delivery increments its revision by exactly one.
RevisionCountsChanges ==
    [][\A d \in Deliveries : \/ revision'[d] = revision[d] + 1
                             \/ revision'[d] = revision[d] /\ Row(d)' = Row(d)]_vars

\* A terminal delivery never changes again, whatever arrives late.
TerminalAbsorbing ==
    [][\A d \in Deliveries : status[d] \in Terminal =>
         Row(d)' = Row(d) /\ revision'[d] = revision[d]]_vars

\* The provider is invoked at most once for an attempt, while it is the open
\* attempt of a delivery that no lifecycle observation has cancelled.
SendOnce ==
    [][\A d \in Deliveries, k \in AttemptNumbers :
         effect'[d][k] = "invoked" /\ effect[d][k] # "invoked" =>
            /\ effect[d][k] = "none"
            /\ attemptStatus[d][k] = "dispatching" /\ k = attemptCount[d]
            /\ finalReason[d] \notin CancelReasons]_vars

\* The ledger cannot record the answer of the attempt in flight: the revision
\* cannot grow, or the answer is an acceptance and so is a recorded one of
\* another delivery, which can have the same remote id.  The remote id of an
\* answer that is lost is not kept; where the provider has only one, it is the
\* same.
Unrecordable(d) ==
    /\ status[d] = "attempting"
    /\ \/ revision[d] = MaxRevision
       \/ /\ effect[d][attemptCount[d]] = "accepted"
          /\ \E r \in receipts : r.kind = "accepted" /\ r.delivery # d

\* Without lost processes or storage failures, a delivery is left attempting
\* with nobody working on it only where the ledger cannot record the answer.
OrphansExplained ==
    ~MayAbandon => \A d \in Deliveries :
        status[d] = "attempting" =>
            \/ \E w \in Workers : job[w].delivery = d /\ job[w].stage # "idle"
            \/ Unrecordable(d)

\* A delivery whose content cannot be revealed is never half claimed: it has
\* no attempt row, the provider never hears of it, and it is still waiting
\* unless its source cancelled it (the reveal calls inside claim_one_due).
UnrevealableUntouched ==
    \A d \in Deliveries \cap Unrevealable :
        /\ status[d] \in {"absent", "queued", "failed"}
        /\ status[d] = "failed" => finalReason[d] \in CancelReasons
        /\ attemptCount[d] = 0
        /\ \A k \in AttemptNumbers : attemptStatus[d][k] = "none" /\ effect[d][k] = "none"

-----------------------------------------------------------------------------
(* The inductive invariant behind ExclusiveWork, OneOpenAttempt,             *)
(* NoReplayAfterAmbiguity and SendOnce.                                      *)

\* Attempts are used up in order: those before the latest were answered with a
\* temporary failure and are closed, those after it do not exist, and the latest
\* is open only while its delivery is attempting or an older receipt ended it.
AttemptShape(d, k) ==
    /\ k > attemptCount[d] => attemptStatus[d][k] = "none" /\ effect[d][k] = "none"
    /\ k < attemptCount[d] =>
         attemptStatus[d][k] # "dispatching" /\ effect[d][k] = "temporary_failure"
    /\ k = attemptCount[d] =>
         /\ status[d] \in Waiting => effect[d][k] = "temporary_failure"
         /\ attemptStatus[d][k] = "dispatching" =>
              \/ status[d] = "attempting"
              \/ /\ status[d] \in {"delivered", "failed"}
                 /\ \E r \in receipts : r.delivery = d /\ r.attempt < k

\* A delivery without attempts waits, and one that is not final has no reason.
DeliveryShape(d) ==
    /\ status[d] \in {"absent", "queued"} => attemptCount[d] = 0
    /\ status[d] \notin Terminal => finalReason[d] = "none"
    /\ \A k \in AttemptNumbers : AttemptShape(d, k)

\* A worker that selected holds the row of a waiting delivery; from the claim
\* on it works on the latest attempt of a delivery that only a receipt can
\* have moved, and the history of the attempt is at the worker's stage.
JobShapeOf(w) ==
    LET d == job[w].delivery
        k == job[w].attempt
    IN  /\ job[w].stage = "selected" =>
             status[d] \in Waiting /\ k = attemptCount[d] + 1
        /\ job[w].stage \in {"claimed", "sent", "replied"} =>
             k = attemptCount[d] /\ status[d] \in {"attempting", "delivered", "failed"}
        /\ job[w].stage = "claimed" =>
             /\ attemptStatus[d][k] = "dispatching" /\ effect[d][k] = "none"
             /\ finalReason[d] \notin CancelReasons
        /\ job[w].stage = "sent" => effect[d][k] = "invoked"
        /\ job[w].stage = "replied" => effect[d][k] = job[w].observation.outcome

\* The state of the ledger, of its attempts and of the invocations working on
\* them fit together at every step (claim_one_due, dispatch_due and the
\* observations); every transaction preserves it whatever the others do.
LedgerInvariant ==
    /\ TypeOK
    /\ ExclusiveWork
    /\ \A d \in Deliveries : DeliveryShape(d)
    /\ \A w \in Workers : JobShapeOf(w)

-----------------------------------------------------------------------------
(* Statements of the repository that the ledger does not keep                *)

\* A Runtime failure or an invalid response after the invocation is recorded:
\* once nobody works on the attempt, the delivery is final.
AmbiguityRecorded ==
    \A d \in Deliveries, k \in AttemptNumbers :
        effect[d][k] = "delivery_unknown" =>
            \/ status[d] \in Terminal
            \/ \E w \in Workers : job[w].delivery = d

\* A temporary failure closes its attempt: the attempt keeps that status.
TemporaryFailureCloses ==
    [][\A d \in Deliveries, k \in AttemptNumbers :
         attemptStatus[d][k] = "temporary_failure" =>
            attemptStatus'[d][k] = "temporary_failure"]_vars

-----------------------------------------------------------------------------
(* The ledger implements DeliveryPromise: phases are statuses, tries are     *)
(* attempts, calls are the attempts handed to the provider.                  *)

Phase(s) ==
    IF s = "absent" THEN "none"
    ELSE IF s \in Waiting THEN "pending"
    ELSE IF s = "attempting" THEN "in_flight"
    ELSE IF s = "delivery_unknown" THEN "unknown"
    ELSE s

Promise == INSTANCE DeliveryPromise WITH
    Budget <- MaxAttempts,
    phase <- [d \in Deliveries |-> Phase(status[d])],
    tries <- attemptCount,
    calls <- [d \in Deliveries |-> {k \in AttemptNumbers : effect[d][k] # "none"}]

\* Every behaviour of the ledger is a behaviour the promise allows: the
\* attempts stay within the budget, the provider is called at most once for
\* each, and no attempt begins before the previous one was called and failed.
ImplementsPromise == Promise!Spec

-----------------------------------------------------------------------------
(* Liveness.  The application schedules dispatch_due again and again, the    *)
(* provider call returns, and time passes; creating, observing and manual    *)
(* retries are left to their callers.                                        *)

WorkerStep(w) == Claim(w) \/ Dispatch(w) \/ ApplyDispatch(w)

FairSpec == Spec /\ WF_vars(Tick) /\ \A w \in Workers : WF_vars(WorkerStep(w))

\* A queued delivery is eventually settled or accepted by the provider, unless
\* the ledger cannot record what the provider answered.
EventuallySettled ==
    \A d \in Deliveries :
        status[d] = "queued" ~>
            status[d] \in Terminal \cup {"accepted"} \/ Unrecordable(d)

=============================================================================
