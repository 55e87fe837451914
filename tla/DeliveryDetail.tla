--------------------------- MODULE DeliveryDetail ---------------------------
(***************************************************************************)
(* get_delivery while the ledger moves: the detail of a delivery is read   *)
(* by four statements without a common snapshot, so it can mix four states *)
(* of the ledger.  The same reads follow a recorded dispatch, where they   *)
(* decide what dispatch_due answers.                                       *)
(*                                                                         *)
(* One call is followed, begun at any time by the administrator or by any  *)
(* worker whose observation was recorded; readers do not affect each other *)
(* or the ledger.                                                          *)
(***************************************************************************)
EXTENDS DeliveryLedger, Sequences

CONSTANTS
    AttemptLimit,    \* ADMIN_ATTEMPT_LIMIT
    ReceiptLimit,    \* ADMIN_RECEIPT_LIMIT
    RetryLimit       \* ADMIN_RETRY_REQUEST_LIMIT

ASSUME LimitsAssumption == {AttemptLimit, ReceiptLimit, RetryLimit} \subseteq Nat \ {0}

VARIABLE
    read    \* the get_delivery call: the next statement, and what was read

readVars == <<vars, read>>

-----------------------------------------------------------------------------
\* Fault: the row is read after its evidence.
EvidenceFirst == <<"attempts", "receipts", "retries", "row">>

\* The statements of get_delivery in the order they are executed.
Statements == <<"row", "attempts", "receipts", "retries">>

NotReading == [next |-> 0]

\* A call about delivery d; about is the attempt whose dispatch_due reads
\* its delivery back, or 0 for the administrator.
Call(d, about) ==
    [next |-> 1, delivery |-> d, about |-> about, error |-> "none",
     row |-> <<>>, attempts |-> {}, receipts |-> {}, retries |-> {}]

NextStatement(s) ==
    read.next \in DOMAIN Statements /\ Statements[read.next] = s
Returned == read.next > Len(Statements)

\* The statement's result is kept and the next one is executed.
Keep(s, result) == read' = [read EXCEPT !.next = @ + 1, ![s] = result]

\* An early return; what was read so far is dropped.
Fail(error) ==
    read' = [Call(read.delivery, read.about) EXCEPT !.next = Len(Statements) + 1,
                                                    !.error = error]

\* The columns of the delivery that change.
Summary(d) ==
    [status |-> status[d], revision |-> revision[d], attemptCount |-> attemptCount[d],
     nextAttemptAt |-> nextAttemptAt[d], finalReason |-> finalReason[d]]

ReadRow ==
    /\ NextStatement("row")
    /\ IF status[read.delivery] = "absent" THEN Fail("not_found")
       ELSE Keep("row", Summary(read.delivery))

\* One more row than the limit is asked for; if it comes, the call fails
\* rather than show evidence that is cut off.
ReadEvidence(s, rows, limit) ==
    /\ NextStatement(s)
    /\ IF Cardinality(rows) > limit THEN Fail("evidence_overflow") ELSE Keep(s, rows)

ReadAttempts ==
    LET d == read.delivery IN
    ReadEvidence("attempts",
        {[sequence |-> k, status |-> attemptStatus[d][k]] :
            k \in {n \in AttemptNumbers : attemptStatus[d][n] # "none"}},
        AttemptLimit)

ReadReceipts ==
    ReadEvidence("receipts", {r \in receipts : r.delivery = read.delivery}, ReceiptLimit)

ReadRetries ==
    ReadEvidence("retries", {r \in retryRequests : r.delivery = read.delivery}, RetryLimit)

\* Fault: an observation that could not be recorded is answered like one that was.
AppliedOrRefused(w) == ApplyDispatch(w)

\* The observation of the native response is in the ledger.
Applied(w) ==
    \/ RecordAccepted(w) \/ RecordTemporary(w) \/ RecordExhausted(w)
    \/ RecordPermanent(w) \/ RecordUnknown(w) \/ AbsorbLate(w)

\* dispatch_due goes on to read its delivery back.  (The observations the
\* plugin makes itself are answered without that, but the provider can give
\* the same ones.)
ReadBack(w) ==
    /\ read = NotReading
    /\ Applied(w)
    /\ read' = Call(job[w].delivery, job[w].attempt)

\* The administrator calls get_delivery.
GetDelivery(d) ==
    /\ read = NotReading
    /\ read' = Call(d, 0)

\* admin_delivery and admin_retry_record: what the wire format can carry.
Projectable ==
    /\ read.row.revision \in 1..MaxRevision
    /\ read.row.attemptCount <= MaxAttempts
    /\ \A r \in read.retries : r.sourceRevision \in 1..MaxRevision

\* delivery_status: the states a delivery can be in after a dispatch.
DispatchStatuses == {"accepted", "retry_scheduled", "failed", "delivery_unknown"}

\* The answer of the call.  A read-back answers the status alone, and every
\* failure of it is a Runtime failure of dispatch_due.
Answer ==
    IF read.about # 0
    THEN IF read.error = "none" /\ read.row.status \in DispatchStatuses
         THEN read.row.status ELSE "runtime"
    ELSE IF read.error # "none" THEN read.error
    ELSE IF Projectable THEN "detail" ELSE "invalid_projection"

ReadInit == Init /\ read = NotReading

ReadNext ==
    \/ Next /\ UNCHANGED read
    \/ \E w \in Workers : ReadBack(w)
    \/ /\ \/ \E d \in Deliveries : GetDelivery(d)
          \/ ReadRow \/ ReadAttempts \/ ReadReceipts \/ ReadRetries
       /\ UNCHANGED vars

ReadSpec == ReadInit /\ [][ReadNext]_readVars

-----------------------------------------------------------------------------
(* Properties *)

\* The evidence in a detail covers the row in it, though both were read at
\* different times: every counted attempt is shown, and closed unless the row
\* admits an open one; the decision that schedules the row's next attempt is
\* shown, and so is the receipt or the decision its final reason claims.
EvidenceCoversRow ==
    Returned /\ Answer = "detail" =>
        LET row == read.row IN
        /\ \A k \in 1..row.attemptCount : \E a \in read.attempts :
             /\ a.sequence = k
             /\ a.status = "dispatching" => row.status \in {"attempting", "delivered", "failed"}
        /\ row.status = "retry_scheduled" =>
             \E r \in read.retries : /\ r.decision = "scheduled"
                                     /\ r.sourceRevision = row.revision - 1
                                     /\ r.scheduledAt = row.nextAttemptAt
        /\ row.finalReason = "authoritative_delivery_receipt" =>
             \E r \in read.receipts : r.kind = "delivered"
        /\ row.finalReason \in {"bounced", "rejected"} =>
             \E r \in read.receipts : r.kind = row.finalReason
        /\ row.finalReason = "retry_exhausted" =>
             \E r \in read.retries : r.decision = "rejected"

\* Whatever the ledger did to a delivery, an administrator is never told that
\* its stored row is invalid (admin_delivery, admin_retry_record).
AlwaysProjectable == Returned => Answer # "invalid_projection"

\* What dispatch_due answers about its attempt is explained by how the
\* attempt really ended, or by what overtook it before the row was read: a
\* receipt, a cancellation, or the next attempt after a temporary failure.
\* It fails although the observation is recorded only where the delivery is
\* delivered by then, is being attempted again, or has too much evidence.
ReplyExplained ==
    Returned /\ read.about # 0 =>
        LET d     == read.delivery
            ended == effect[d][read.about]
            row   == read.row
            hasReceipt(kind) == \E r \in receipts : r.delivery = d /\ r.kind = kind
        IN  /\ read.error # "not_found"
            /\ read.error = "evidence_overflow" =>
                 \/ Cardinality({r \in receipts : r.delivery = d}) > ReceiptLimit
                 \/ Cardinality({r \in retryRequests : r.delivery = d}) > RetryLimit
            /\ read.error = "none" /\ row.attemptCount > read.about =>
                 ended = "temporary_failure"
            /\ read.error = "none" /\ row.attemptCount = read.about =>
                 \/ Answer \in {"accepted", "delivery_unknown"} /\ ended = Answer
                 \/ Answer = "retry_scheduled" /\ ended = "temporary_failure"
                 \/ Answer = "failed" /\ ended \in {"temporary_failure", "permanent_failure"}
                 \/ Answer = "failed" /\ (hasReceipt("bounced") \/ hasReceipt("rejected"))
                 \/ Answer = "runtime" /\ hasReceipt("delivered")

=============================================================================
