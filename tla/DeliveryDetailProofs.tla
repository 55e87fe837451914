------------------------ MODULE DeliveryDetailProofs ------------------------
(***************************************************************************)
(* Theorems about get_delivery and dispatch_due for every value of the     *)
(* constants.  A detail read by four statements covers the row it shows,   *)
(* and is never refused as invalid, for any evidence limits: the first     *)
(* statement reads the row; what its evidence is then, the ledger never    *)
(* withdraws (LedgerEvidenceProofs), so each later statement finds it.     *)
(*                                                                         *)
(* What dispatch_due answers about its attempt is explained, where an      *)
(* attempt limit is never exceeded.  The call begins when the observation  *)
(* is recorded, so the answer of the provider is history by then           *)
(* (AnswerStands); the row read later is of the same attempt, of a later   *)
(* one, or of a settled delivery, and each has its explanation in the      *)
(* ledger (FinalEvidence, OutcomeOf).                                      *)
(***************************************************************************)
EXTENDS DeliveryDetail, LedgerEvidenceProofs, FiniteSetTheorems

-----------------------------------------------------------------------------
(* A reader changes nothing: the ledger under it is the ledger *)

LEMMA ReaderOnly ==
    ASSUME [ReadNext]_readVars
    PROVE  [Next]_vars
<1>1. \A w \in Workers : Applied(w) => ApplyDispatch(w)
  BY DEF Applied, ApplyDispatch
<1> QED
  BY <1>1 DEF ReadNext, ReadBack, readVars, Next

LEMMA ReadSpecIsSpec == ReadSpec => Spec
<1>1. ReadInit => Init
  BY DEF ReadInit
<1>2. [ReadNext]_readVars => [Next]_vars
  BY ReaderOnly
<1> QED BY <1>1, <1>2, PTL DEF ReadSpec, Spec

-----------------------------------------------------------------------------
(* What the ledger has to offer a reader *)

\* Every counted attempt has its row.
AttemptsExist ==
    \A d \in Deliveries, k \in AttemptNumbers : k <= attemptCount[d] => attemptStatus[d][k] # "none"

\* Every decision was taken on a revision that can be shown.
DecisionsPortable == \A r \in retryRequests : r.sourceRevision \in 1..MaxRevision

\* A delivery that exists has a revision.
Revised == \A d \in Deliveries : status[d] # "absent" => revision[d] \in 1..MaxRevision

\* An attempt, once written, is never unwritten, and one that is closed is opened
\* again by nobody: a claim opens the attempt after the latest.
LEMMA AttemptMoves ==
    ASSUME LedgerInvariant, [Next]_vars, NEW d \in Deliveries, NEW k \in AttemptNumbers
    PROVE  /\ attemptCount[d] <= attemptCount'[d]
           /\ attemptStatus[d][k] # "none" => attemptStatus'[d][k] # "none"
           /\ attemptCount[d] < k /\ k <= attemptCount'[d] => attemptStatus'[d][k] # "none"
           /\ k <= attemptCount[d] /\ attemptStatus'[d][k] = "dispatching" =>
                attemptStatus[d][k] = "dispatching"
<1>1. TypeOK /\ attemptCount[d] \in Int /\ k \in Int
  BY AttemptsAssumption DEF LedgerInvariant, TypeOK, AttemptNumbers
<1>2. ASSUME NEW w \in Workers, CommitClaim(w), job[w].delivery = d
      PROVE  /\ job[w].attempt = attemptCount[d] + 1 /\ job[w].attempt \in AttemptNumbers
             /\ attemptCount'[d] = attemptCount[d] + 1
             /\ attemptStatus'[d] = [attemptStatus[d] EXCEPT ![job[w].attempt] = "dispatching"]
  <2>1. job[w].attempt = attemptCount[d] + 1 /\ job[w].attempt \in AttemptNumbers
    BY <1>1, <1>2, WorkerAt DEF CommitClaim, LedgerInvariant, JobShapeOf
  <2> QED
    BY <1>1, <1>2, <2>1 DEF CommitClaim, TypeOK
<1>3. CASE \E w \in Workers : CommitClaim(w) /\ job[w].delivery = d
  <2> PICK w \in Workers : CommitClaim(w) /\ job[w].delivery = d
    BY <1>3
  <2> DEFINE n == job[w].attempt
             a == attemptStatus[d]
  <2>1. /\ n = attemptCount[d] + 1 /\ n \in AttemptNumbers /\ attemptCount'[d] = n
        /\ attemptStatus'[d] = [a EXCEPT ![n] = "dispatching"]
    BY <1>2
  <2>2. DOMAIN a = AttemptNumbers
    BY <1>1 DEF TypeOK
  <2> HIDE DEF n, a
  <2>3. attemptStatus'[d][k] = IF k = n THEN "dispatching" ELSE a[k]
    BY <2>1, <2>2
  <2>4. n \in Int /\ attemptCount[d] \in Int /\ (k <= attemptCount[d] => k # n)
    BY <1>1, <2>1 DEF AttemptNumbers
  <2>5. attemptCount[d] < k /\ k <= attemptCount'[d] => k = n
    BY <1>1, <2>1, <2>4
  <2> QED
    BY <1>1, <2>1, <2>3, <2>4, <2>5 DEF a
<1>4. CASE ~(\E w \in Workers : CommitClaim(w) /\ job[w].delivery = d)
  <2>1. attemptCount'[d] = attemptCount[d]
    <3>1. \A w \in Workers : Recorded(w) => attemptCount' = attemptCount
      BY DEF Recorded, RecordAccepted, RecordTemporary, RecordExhausted, RecordPermanent,
             RecordUnknown
    <3> QED
      BY <1>1, <1>4, <3>1, WhoMoves DEF Moved, Unmoved, Row, PersistIntent, RecordReceipt,
         ObserveLifecycle, ManualRetry
  <2>2. attemptStatus'[d][k] = attemptStatus[d][k] \/ attemptStatus'[d][k] \in Outcomes
    <3>1. \A w \in Workers : Recorded(w) /\ job[w].delivery = d /\ job[w].attempt = k =>
            attemptStatus'[d][k] \in Outcomes
      BY RecordedAt
    <3>2. \A w \in Workers : AbsorbLate(w) => attemptStatus' = attemptStatus
      BY DEF AbsorbLate
    <3>3. \A i \in ObservationIds, r \in ReceiptObservations :
            RecordReceipt(i, r) /\ r.delivery = d /\ r.attempt = k =>
              attemptStatus'[d][k] \in Outcomes
      BY <1>1, ReceiptAt DEF Outcomes
    <3> QED
      BY <1>1, <1>4, <3>1, <3>2, <3>3, WhoWrites DEF Written, Unwritten
  <2>3. "none" \notin Outcomes /\ "dispatching" \notin Outcomes
    BY DEF Outcomes
  <2> QED
    BY <1>1, <2>1, <2>2, <2>3
<1> QED
  BY <1>3, <1>4

LEMMA OfferStep ==
    ASSUME LedgerInvariant, Fresh, Fresh', RevisionBounded, RevisionBounded', LedgerInvariant',
           AttemptsExist, Revised, DecisionsPortable, [Next]_vars
    PROVE  AttemptsExist' /\ Revised' /\ DecisionsPortable'
<1>1. TypeOK /\ TypeOK'
  BY DEF LedgerInvariant
<1>2. AttemptsExist'
  <2> SUFFICES ASSUME NEW d \in Deliveries, NEW k \in AttemptNumbers, k <= attemptCount'[d]
               PROVE  attemptStatus'[d][k] # "none"
    BY DEF AttemptsExist
  <2>1. k <= attemptCount[d] \/ attemptCount[d] < k
    BY <1>1, AttemptsAssumption DEF TypeOK, AttemptNumbers
  <2> QED
    BY <2>1, AttemptMoves DEF AttemptsExist
<1>3. Revised'
  <2> SUFFICES ASSUME NEW d \in Deliveries, status'[d] # "absent"
               PROVE  revision'[d] \in 1..MaxRevision
    BY DEF Revised
  <2>1. Unmoved(d) \/ Counted(d)
    BY RowStep
  <2>2. revision[d] \in Nat /\ revision'[d] \in Nat /\ revision'[d] <= MaxRevision
    BY <1>1 DEF TypeOK, RevisionBounded
  <2> QED
    BY <2>1, <2>2, RevisionAssumption DEF Unmoved, Counted, Row, Revised
<1>4. DecisionsPortable'
  <2>1. ASSUME NEW d \in Deliveries, status[d] # "absent", NEW r, r.sourceRevision = revision[d]
        PROVE  r.sourceRevision \in 1..MaxRevision
    BY <2>1 DEF Revised
  <2>2. ASSUME NEW w \in Workers, RecordTemporary(w) \/ RecordExhausted(w)
        PROVE  \A r \in retryRequests' \ retryRequests : r.sourceRevision \in 1..MaxRevision
    <3>1. job[w].delivery \in Deliveries /\ status[job[w].delivery] # "absent"
      BY <2>2, RecordedAt DEF Recorded
    <3>2. \A r \in retryRequests' \ retryRequests : r.sourceRevision = revision[job[w].delivery]
      BY <2>2 DEF RecordTemporary, RecordExhausted, AutomaticDecision
    <3> QED
      BY <3>1, <3>2 DEF Revised
  <2>3. ASSUME NEW d \in Deliveries, NEW key \in RetryKeys, ManualRetry(d, key)
        PROVE  \A r \in retryRequests' \ retryRequests : r.sourceRevision \in 1..MaxRevision
    <3>1. status[d] # "absent"
      BY <2>3 DEF ManualRetry, RetryEligible
    <3>2. \A r \in retryRequests' \ retryRequests : r.sourceRevision = revision[d]
      BY <2>3 DEF ManualRetry
    <3> QED
      BY <3>1, <3>2 DEF Revised
  <2>4. /\ Quiet => retryRequests' = retryRequests
        /\ \A d \in Deliveries : PersistIntent(d) => retryRequests' = retryRequests
        /\ \A w \in Workers : CommitClaim(w) \/ RecordAccepted(w) \/ RecordPermanent(w)
             \/ RecordUnknown(w) \/ AbsorbLate(w) => retryRequests' = retryRequests
        /\ \A i \in ObservationIds : \A o : RecordReceipt(i, o) \/ AcknowledgeReceipt(i, o)
             \/ ObserveLifecycle(i, o) => retryRequests' = retryRequests
    BY DEF Quiet, PersistIntent, CommitClaim, RecordAccepted, RecordPermanent, RecordUnknown,
       AbsorbLate, RecordReceipt, AcknowledgeReceipt, ObserveLifecycle, evidenceVars
  <2> QED
    BY <1>1, <2>2, <2>3, <2>4, StepCases DEF DecisionsPortable, Recorded
<1> QED
  BY <1>2, <1>3, <1>4

LEMMA RevisionHolds == Spec => []RevisionBounded
<1>1. Init => RevisionBounded
  BY RevisionAssumption DEF Init, RevisionBounded
<1>2. LedgerInvariant /\ Fresh /\ RevisionBounded /\ [Next]_vars => RevisionBounded'
  BY RevisionStep
<1> QED BY <1>1, <1>2, LedgerInvariantHolds, FreshHolds, PTL DEF Spec

LEMMA OfferHolds == Spec => [](AttemptsExist /\ Revised /\ DecisionsPortable)
<1>1. Init => AttemptsExist /\ Revised /\ DecisionsPortable
  BY AttemptsAssumption DEF Init, AttemptsExist, Revised, DecisionsPortable, AttemptNumbers
<1>2. LedgerInvariant /\ LedgerInvariant' /\ Fresh /\ Fresh' /\ RevisionBounded
      /\ RevisionBounded' /\ AttemptsExist /\ Revised /\ DecisionsPortable /\ [Next]_vars
        => AttemptsExist' /\ Revised' /\ DecisionsPortable'
  BY OfferStep
<1> QED BY <1>1, <1>2, LedgerInvariantHolds, FreshHolds, RevisionHolds, PTL DEF Spec
-----------------------------------------------------------------------------
(* What the call holds *)

Summaries ==
    [status : Statuses, revision : 1..MaxRevision, attemptCount : 0..MaxAttempts,
     nextAttemptAt : Times \cup {NoTime}, finalReason : FinalReasons \cup {"none"}]

Calls ==
    [next : 1..5, delivery : Deliveries, about : {0} \cup AttemptNumbers,
     error : {"none", "not_found", "evidence_overflow"}, row : {<<>>} \cup Summaries,
     attempts : SUBSET [sequence : AttemptNumbers, status : AttemptStatuses],
     receipts : SUBSET Receipts, retries : SUBSET RetryRequests]

\* The parts of EvidenceCoversRow: what a row asks of the attempts, the receipts
\* and the decisions shown with it.
MayBeOpen(row) == row.status \in {"attempting", "delivered", "failed"}

AttemptsCover(row, shown) ==
    \A k \in 1..row.attemptCount : \E a \in shown :
        a.sequence = k /\ (a.status = "dispatching" => MayBeOpen(row))

ReceiptsCover(row, shown) ==
    /\ row.finalReason = "authoritative_delivery_receipt" => \E r \in shown : r.kind = "delivered"
    /\ row.finalReason \in {"bounced", "rejected"} => \E r \in shown : r.kind = row.finalReason

DecisionsCover(row, shown) ==
    /\ row.status = "retry_scheduled" =>
         \E r \in shown : /\ r.decision = "scheduled" /\ r.sourceRevision = row.revision - 1
                          /\ r.scheduledAt = row.nextAttemptAt
    /\ row.finalReason = "retry_exhausted" => \E r \in shown : r.decision = "rejected"

\* The rows the three later statements select.
AttemptsOf(d) ==
    {[sequence |-> k, status |-> attemptStatus[d][k]] :
        k \in {n \in AttemptNumbers : attemptStatus[d][n] # "none"}}
ReceiptsOf(d) == {r \in receipts : r.delivery = d}
DecisionsOf(d) == {r \in retryRequests : r.delivery = d}

\* The ledger covers a row that was read from it, at any later time.
Covered(d, row) ==
    /\ row \in Summaries
    /\ row.attemptCount <= attemptCount[d]
    /\ AttemptsCover(row, AttemptsOf(d))
    /\ ReceiptsCover(row, ReceiptsOf(d))
    /\ DecisionsCover(row, DecisionsOf(d))

\* A statement that was executed left its part.
Executed ==
    /\ read.next > 1 => Covered(read.delivery, read.row)
    /\ read.next > 2 => AttemptsCover(read.row, read.attempts)
    /\ read.next > 3 => ReceiptsCover(read.row, read.receipts)
    /\ read.next > 4 => DecisionsCover(read.row, read.retries)
    /\ \A r \in read.retries : r.sourceRevision \in 1..MaxRevision

ReadShape ==
    read = NotReading \/ (read \in Calls /\ (read.error = "none" => Executed))

\* What the ledger guarantees, put together.
Offer ==
    /\ LedgerInvariant /\ OneOpenAttempt /\ RetryEvidence /\ FinalEvidence
    /\ AttemptsExist /\ Revised /\ DecisionsPortable

LEMMA LedgerOffers == Spec => []Offer
<1>1. LedgerInvariant /\ OneOpenAttempt /\ RetryEvidence /\ FinalEvidence
        /\ (AttemptsExist /\ Revised /\ DecisionsPortable) => Offer
  BY DEF Offer
<1> QED
  BY <1>1, LedgerInvariantHolds, AttemptIsLatest, DecisionsAreKept, ReasonsHaveEvidence,
     OfferHolds, PTL

-----------------------------------------------------------------------------
(* The ledger covers its own rows, and never stops covering an older one *)

LEMMA RowIsCovered ==
    ASSUME Offer, NEW d \in Deliveries, status[d] # "absent"
    PROVE  Covered(d, Summary(d))
<1> DEFINE row == Summary(d)
<1>1. TypeOK
  BY DEF Offer, LedgerInvariant
<1>2. /\ row.status = status[d] /\ row.revision = revision[d]
      /\ row.attemptCount = attemptCount[d] /\ row.nextAttemptAt = nextAttemptAt[d]
      /\ row.finalReason = finalReason[d]
  BY DEF Summary
<1>3. row \in Summaries /\ row.attemptCount <= attemptCount[d]
  BY <1>1, AttemptsAssumption DEF TypeOK, Offer, Revised, Summary, Summaries
<1>4. AttemptsCover(row, AttemptsOf(d))
  <2> SUFFICES ASSUME NEW k \in 1..attemptCount[d]
               PROVE  \E a \in AttemptsOf(d) :
                        a.sequence = k /\ (a.status = "dispatching" => MayBeOpen(row))
    BY <1>2 DEF AttemptsCover
  <2>1. k \in AttemptNumbers /\ attemptStatus[d][k] # "none"
    BY <1>1, AttemptsAssumption DEF TypeOK, AttemptNumbers, Offer, AttemptsExist
  <2>2. [sequence |-> k, status |-> attemptStatus[d][k]] \in AttemptsOf(d)
    BY <2>1 DEF AttemptsOf
  <2>3. attemptStatus[d][k] = "dispatching" => MayBeOpen(row)
    BY <2>1, <1>2 DEF Offer, OneOpenAttempt, MayBeOpen
  <2> QED
    BY <2>2, <2>3
<1>5. ReceiptsCover(row, ReceiptsOf(d))
  BY <1>2 DEF ReceiptsCover, ReceiptsOf, Offer, FinalEvidence
<1>6. DecisionsCover(row, DecisionsOf(d))
  BY <1>2 DEF DecisionsCover, DecisionsOf, Offer, FinalEvidence, RetryEvidence
<1> QED
  BY <1>3, <1>4, <1>5, <1>6 DEF Covered

LEMMA RowStaysCovered ==
    ASSUME Offer, [Next]_vars, NEW d \in Deliveries, NEW row, Covered(d, row)
    PROVE  Covered(d, row)'
<1>1. TypeOK /\ LedgerInvariant
  BY DEF Offer, LedgerInvariant
<1>2. receipts \subseteq receipts' /\ retryRequests \subseteq retryRequests'
  BY <1>1, EvidenceGrows
<1>3. row.attemptCount <= attemptCount'[d]
  <2>1. 1 \in AttemptNumbers
    BY AttemptsAssumption DEF AttemptNumbers
  <2>2. attemptCount[d] <= attemptCount'[d]
    BY <1>1, <2>1, AttemptMoves
  <2>3. attemptCount[d] \in Int /\ attemptCount'[d] \in Int /\ row.attemptCount \in Int
    BY <1>1, TypeStep, AttemptsAssumption DEF TypeOK, Covered, Summaries, LedgerInvariant
  <2> QED
    BY <2>2, <2>3 DEF Covered
<1>4. AttemptsCover(row, AttemptsOf(d)')
  <2> SUFFICES ASSUME NEW k \in 1..row.attemptCount
               PROVE  \E a \in AttemptsOf(d)' :
                        a.sequence = k /\ (a.status = "dispatching" => MayBeOpen(row))
    BY DEF AttemptsCover
  <2>1. PICK a \in AttemptsOf(d) :
          a.sequence = k /\ (a.status = "dispatching" => MayBeOpen(row))
    BY DEF Covered, AttemptsCover
  <2>2. /\ k \in AttemptNumbers /\ attemptStatus[d][k] # "none" /\ a.status = attemptStatus[d][k]
    BY <2>1 DEF AttemptsOf
  <2>3. k <= attemptCount[d]
    BY <1>1, AttemptsAssumption DEF TypeOK, Covered, Summaries
  <2>4. attemptStatus'[d][k] # "none"
        /\ (attemptStatus'[d][k] = "dispatching" => attemptStatus[d][k] = "dispatching")
    BY <1>1, <2>2, <2>3, AttemptMoves
  <2>5. [sequence |-> k, status |-> attemptStatus'[d][k]] \in AttemptsOf(d)'
    BY <2>2, <2>4 DEF AttemptsOf
  <2> QED
    BY <2>1, <2>2, <2>4, <2>5
<1>5. ReceiptsCover(row, ReceiptsOf(d)')
  BY <1>2 DEF ReceiptsCover, ReceiptsOf, Covered
<1>6. DecisionsCover(row, DecisionsOf(d)')
  BY <1>2 DEF DecisionsCover, DecisionsOf, Covered
<1> QED
  BY <1>3, <1>4, <1>5, <1>6 DEF Covered, AttemptsCover, ReceiptsCover, DecisionsCover, MayBeOpen

-----------------------------------------------------------------------------
(* The steps of the call *)

LEMMA StatementAt ==
    ASSUME NEW s, NextStatement(s)
    PROVE  /\ read # NotReading
           /\ s = "row" => read.next = 1
           /\ s = "attempts" => read.next = 2
           /\ s = "receipts" => read.next = 3
           /\ s = "retries" => read.next = 4
<1>1. /\ DOMAIN Statements = 1..4 /\ Statements[1] = "row" /\ Statements[2] = "attempts"
      /\ Statements[3] = "receipts" /\ Statements[4] = "retries"
  BY DEF Statements
<1>2. read.next \in 1..4 /\ Statements[read.next] = s
  BY <1>1 DEF NextStatement
<1>3. read.next \in {1, 2, 3, 4}
  BY <1>2
<1>4. read # NotReading
  BY <1>3 DEF NotReading
<1> QED
  BY <1>1, <1>2, <1>3, <1>4

LEMMA CallTyped ==
    ASSUME NEW d \in Deliveries, NEW about \in {0} \cup AttemptNumbers
    PROVE  Call(d, about) \in Calls
<1>1. 1 \in 1..5
  OBVIOUS
<1> QED
  BY <1>1 DEF Call, Calls

LEMMA FailShape ==
    ASSUME read \in Calls, NEW error \in {"not_found", "evidence_overflow"}, Fail(error)
    PROVE  /\ ReadShape' /\ read'.error = error
           /\ read'.delivery = read.delivery /\ read'.about = read.about
<1>1. Len(Statements) = 4
  BY DEF Statements
<1>2. read.delivery \in Deliveries /\ read.about \in {0} \cup AttemptNumbers
  BY DEF Calls
<1>3. PICK c \in Calls : c = Call(read.delivery, read.about)
  BY <1>2, CallTyped
<1>4. 5 \in 1..5 /\ Len(Statements) + 1 = 5
  BY <1>1
<1>5. PICK b \in Calls : b = [c EXCEPT !.next = Len(Statements) + 1]
  BY <1>3, <1>4 DEF Calls
<1>6. read' = [b EXCEPT !.error = error]
  BY <1>3, <1>5 DEF Fail, Calls
<1>7. read' \in Calls /\ read'.error = error
        /\ read'.delivery = c.delivery /\ read'.about = c.about
  BY <1>5, <1>6 DEF Calls
<1>8. c.delivery = read.delivery /\ c.about = read.about
  BY <1>3 DEF Call
<1> QED
  BY <1>7, <1>8 DEF ReadShape

\* The statement's result goes into its own field.
LEMMA KeepShape ==
    ASSUME read \in Calls, read.next \in 1..4,
           NEW s \in {"row", "attempts", "receipts", "retries"}, NEW x, Keep(s, x),
           s = "row" => x \in Summaries,
           s = "attempts" => x \subseteq [sequence : AttemptNumbers, status : AttemptStatuses],
           s = "receipts" => x \subseteq Receipts,
           s = "retries" => x \subseteq RetryRequests
    PROVE  /\ read' \in Calls /\ read'.next = read.next + 1
           /\ read'.delivery = read.delivery /\ read'.about = read.about
           /\ read'.error = read.error
           /\ read'.row = IF s = "row" THEN x ELSE read.row
           /\ read'.attempts = IF s = "attempts" THEN x ELSE read.attempts
           /\ read'.receipts = IF s = "receipts" THEN x ELSE read.receipts
           /\ read'.retries = IF s = "retries" THEN x ELSE read.retries
<1>1. read.next + 1 \in 1..5
  OBVIOUS
<1>2. PICK b \in Calls : b = [read EXCEPT !.next = read.next + 1]
  BY <1>1 DEF Calls
<1>3. read' = [b EXCEPT ![s] = x]
  BY <1>2 DEF Keep, Calls
<1>4. CASE s = "row"
  BY <1>2, <1>3, <1>4 DEF Calls
<1>5. CASE s = "attempts"
  BY <1>2, <1>3, <1>5 DEF Calls
<1>6. CASE s = "receipts"
  BY <1>2, <1>3, <1>6 DEF Calls
<1>7. CASE s = "retries"
  BY <1>2, <1>3, <1>7 DEF Calls
<1> QED
  BY <1>4, <1>5, <1>6, <1>7

LEMMA CallBegins ==
    ASSUME NEW d \in Deliveries, NEW about \in {0} \cup AttemptNumbers, read' = Call(d, about)
    PROVE  ReadShape'
BY DEF Call, Calls, ReadShape, Executed

\* Until a statement is executed, the ledger keeps what the call rests on.
LEMMA LedgerMoves ==
    ASSUME Offer, ReadShape, [Next]_vars, UNCHANGED read
    PROVE  ReadShape'
<1>1. CASE read = NotReading
  BY <1>1 DEF ReadShape
<1>2. CASE read \in Calls /\ (read.error = "none" => Executed)
  <2> SUFFICES ASSUME read.error = "none" PROVE Executed'
    BY <1>2 DEF ReadShape
  <2>1. read.delivery \in Deliveries
    BY <1>2 DEF Calls
  <2>2. read.next > 1 => Covered(read.delivery, read.row)'
    BY <1>2, <2>1, RowStaysCovered DEF Executed
  <2>3. AttemptsCover(read.row, read.attempts)' = AttemptsCover(read.row, read.attempts)
        /\ ReceiptsCover(read.row, read.receipts)' = ReceiptsCover(read.row, read.receipts)
        /\ DecisionsCover(read.row, read.retries)' = DecisionsCover(read.row, read.retries)
    BY DEF AttemptsCover, ReceiptsCover, DecisionsCover, MayBeOpen
  <2> QED
    BY <1>2, <2>2, <2>3 DEF Executed
<1> QED
  BY <1>1, <1>2 DEF ReadShape

\* A row is covered by a ledger that does not move.
LEMMA NothingCovers ==
    ASSUME UNCHANGED vars, NEW d, NEW row, Covered(d, row)
    PROVE  Covered(d, row)'
<1>1. /\ attemptCount' = attemptCount /\ attemptStatus' = attemptStatus
      /\ receipts' = receipts /\ retryRequests' = retryRequests
  BY DEF vars, deliveryVars, attemptVars, evidenceVars
<1>2. /\ AttemptsOf(d)' = AttemptsOf(d) /\ ReceiptsOf(d)' = ReceiptsOf(d)
      /\ DecisionsOf(d)' = DecisionsOf(d)
  BY <1>1 DEF AttemptsOf, ReceiptsOf, DecisionsOf
<1> QED
  BY <1>1, <1>2 DEF Covered, AttemptsCover, ReceiptsCover, DecisionsCover, MayBeOpen

\* Whether the row is found or not.
LEMMA ReadRowStep ==
    ASSUME Offer, ReadShape, ReadRow, UNCHANGED vars
    PROVE  ReadShape'
<1>1. read # NotReading /\ read.next = 1
  BY StatementAt DEF ReadRow
<1>2. read \in Calls /\ read.delivery \in Deliveries
  BY <1>1 DEF ReadShape, Calls
<1>3. CASE status[read.delivery] = "absent"
  BY <1>2, <1>3, FailShape DEF ReadRow
<1>4. CASE status[read.delivery] # "absent"
  <2> PICK d, row : d \in Deliveries /\ d = read.delivery /\ row = Summary(d)
    BY <1>2
  <2>1. Covered(d, row)
    BY <1>4, RowIsCovered
  <2>2. Covered(d, row)'
    BY <2>1, NothingCovers
  <2>3. row \in Summaries
    BY <2>1 DEF Covered
  <2>4. Keep("row", row)
    BY <1>4 DEF ReadRow
  <2>5. read' \in Calls /\ read'.next = 2 /\ read'.row = row /\ read'.delivery = d
        /\ read'.retries = read.retries /\ read'.error = read.error
    BY <1>1, <1>2, <2>3, <2>4, KeepShape
  <2>6. ASSUME read'.error = "none" PROVE Executed'
    <3>1. \A r \in read'.retries : r.sourceRevision \in 1..MaxRevision
      BY <1>1, <2>5, <2>6 DEF Executed, ReadShape
    <3> QED
      BY <2>2, <2>5, <3>1 DEF Executed
  <2> QED
    BY <2>5, <2>6 DEF ReadShape
<1> QED
  BY <1>3, <1>4

\* A later statement: the call fails, or keeps what the ledger covers.
LEMMA EvidenceStep ==
    ASSUME Offer, ReadShape, UNCHANGED vars,
           NEW s \in {"attempts", "receipts", "retries"}, NEW rows, NEW limit,
           ReadEvidence(s, rows, limit),
           s = "attempts" => rows = AttemptsOf(read.delivery),
           s = "receipts" => rows = ReceiptsOf(read.delivery),
           s = "retries" => rows = DecisionsOf(read.delivery)
    PROVE  ReadShape'
<1>1. /\ read # NotReading /\ read.next \in 2..4
      /\ s = "attempts" => read.next = 2
      /\ s = "receipts" => read.next = 3
      /\ s = "retries" => read.next = 4
  BY StatementAt DEF ReadEvidence
<1>2. read \in Calls /\ (read.error = "none" => Executed) /\ TypeOK
  BY <1>1 DEF ReadShape, Offer, LedgerInvariant
<1>3. CASE Fail("evidence_overflow")
  BY <1>2, <1>3, FailShape
<1>4. CASE Keep(s, rows)
  <2>1. /\ s = "attempts" => rows \subseteq [sequence : AttemptNumbers, status : AttemptStatuses]
        /\ s = "receipts" => rows \subseteq Receipts
        /\ s = "retries" => rows \subseteq RetryRequests
    BY <1>2 DEF AttemptsOf, ReceiptsOf, DecisionsOf, TypeOK, Calls
  <2>2. /\ read' \in Calls /\ read'.next = read.next + 1
        /\ read'.delivery = read.delivery /\ read'.error = read.error /\ read'.row = read.row
        /\ read'.attempts = IF s = "attempts" THEN rows ELSE read.attempts
        /\ read'.receipts = IF s = "receipts" THEN rows ELSE read.receipts
        /\ read'.retries = IF s = "retries" THEN rows ELSE read.retries
    BY <1>1, <1>2, <1>4, <2>1, KeepShape
  <2>3. ASSUME read'.error = "none" PROVE Executed'
    <3>1. Executed /\ Covered(read.delivery, read.row)
      BY <1>1, <1>2, <2>2, <2>3 DEF Executed
    <3>2. PICK d, row : d = read.delivery /\ row = read.row
      OBVIOUS
    <3>3. Covered(d, row)'
      BY <3>1, <3>2, NothingCovers
    <3>4. /\ read'.next > 2 => AttemptsCover(row, read'.attempts)
          /\ read'.next > 3 => ReceiptsCover(row, read'.receipts)
          /\ read'.next > 4 => DecisionsCover(row, read'.retries)
      BY <1>1, <2>2, <3>1, <3>2 DEF Covered, Executed
    <3>5. \A r \in read'.retries : r.sourceRevision \in 1..MaxRevision
      BY <2>2, <3>1 DEF Executed, DecisionsOf, Offer, DecisionsPortable
    <3> QED
      BY <2>2, <3>2, <3>3, <3>4, <3>5
      DEF Executed, AttemptsCover, ReceiptsCover, DecisionsCover, MayBeOpen
  <2> QED
    BY <2>2, <2>3 DEF ReadShape
<1> QED
  BY <1>3, <1>4 DEF ReadEvidence

LEMMA ReadShapeStep ==
    ASSUME Offer, ReadShape, [ReadNext]_readVars
    PROVE  ReadShape'
<1>1. TypeOK
  BY DEF Offer, LedgerInvariant
<1>2. CASE UNCHANGED readVars \/ (Next /\ UNCHANGED read)
  <2>1. [Next]_vars /\ UNCHANGED read
    BY <1>2 DEF readVars
  <2> QED
    BY <2>1, LedgerMoves
<1>3. ASSUME NEW w \in Workers, ReadBack(w)
      PROVE  ReadShape'
  <2>1. Recorded(w) \/ AbsorbLate(w)
    BY <1>3 DEF ReadBack, Applied, Recorded
  <2>2. job[w].delivery \in Deliveries /\ job[w].attempt \in AttemptNumbers
    BY <1>1, <2>1, WorkerAt
  <2> QED
    BY <1>3, <2>2, CallBegins DEF ReadBack
<1>4. ASSUME NEW d \in Deliveries, GetDelivery(d)
      PROVE  ReadShape'
  BY <1>4, CallBegins DEF GetDelivery
<1>5. CASE ReadRow /\ UNCHANGED vars
  BY <1>5, ReadRowStep
<1>6. CASE ReadAttempts /\ UNCHANGED vars
  BY <1>6, EvidenceStep DEF ReadAttempts, AttemptsOf
<1>7. CASE ReadReceipts /\ UNCHANGED vars
  BY <1>7, EvidenceStep DEF ReadReceipts, ReceiptsOf
<1>8. CASE ReadRetries /\ UNCHANGED vars
  BY <1>8, EvidenceStep DEF ReadRetries, DecisionsOf
<1> QED
  BY <1>2, <1>3, <1>4, <1>5, <1>6, <1>7, <1>8 DEF ReadNext

LEMMA ReadShapeHolds == ReadSpec => []ReadShape
<1>1. ReadInit => ReadShape
  BY DEF ReadInit, ReadShape
<1>2. Offer /\ ReadShape /\ [ReadNext]_readVars => ReadShape'
  BY ReadShapeStep
<1> QED BY <1>1, <1>2, ReadSpecIsSpec, LedgerOffers, PTL DEF ReadSpec

\* A call that returned went through its four statements.
LEMMA ReturnedAt ==
    ASSUME ReadShape, Returned
    PROVE  /\ read \in Calls /\ read.next = 5
           /\ read.error = "none" => Executed
<1>1. Len(Statements) = 4
  BY DEF Statements
<1>2. read # NotReading
  BY <1>1 DEF Returned, NotReading
<1> QED
  BY <1>1, <1>2 DEF Returned, ReadShape, Calls

-----------------------------------------------------------------------------
(* Theorems *)

\* A detail shows the evidence of the row it shows, although the row, the
\* attempts, the receipts and the decisions are read at four different times
\* and the delivery is attempted, retried and settled in between.
THEOREM DetailCoversRow == ReadSpec => []EvidenceCoversRow
<1>1. ReadShape => EvidenceCoversRow
  <2> SUFFICES ASSUME ReadShape, Returned, Answer = "detail"
               PROVE  /\ AttemptsCover(read.row, read.attempts)
                      /\ ReceiptsCover(read.row, read.receipts)
                      /\ DecisionsCover(read.row, read.retries)
    BY DEF EvidenceCoversRow, AttemptsCover, ReceiptsCover, DecisionsCover, MayBeOpen
  <2>1. read.error = "none"
    BY ReturnedAt DEF Answer, DispatchStatuses, Calls
  <2> QED
    BY <2>1, ReturnedAt DEF Executed
<1> QED BY <1>1, ReadShapeHolds, PTL

\* Whatever happened to a delivery, its row and its decisions can be shown: the
\* revision and the attempts stay within what the wire format carries.
THEOREM DetailIsProjectable == ReadSpec => []AlwaysProjectable
<1>1. ReadShape => AlwaysProjectable
  <2> SUFFICES ASSUME ReadShape, Returned, read.error = "none" PROVE Projectable
    BY ReturnedAt DEF AlwaysProjectable, Answer, DispatchStatuses, Calls
  <2>1. read.row \in Summaries /\ \A r \in read.retries : r.sourceRevision \in 1..MaxRevision
    BY ReturnedAt DEF Executed, Covered
  <2> QED
    BY <2>1, AttemptsAssumption DEF Projectable, Summaries
<1> QED BY <1>1, ReadShapeHolds, PTL

-----------------------------------------------------------------------------
(* How a delivery comes to its status after its latest attempt *)

OutcomeOf(d) ==
    \A k \in AttemptNumbers : k = attemptCount[d] =>
        /\ status[d] = "accepted" => effect[d][k] = "accepted"
        /\ finalReason[d] \in CancelReasons => effect[d][k] = "temporary_failure"

LEMMA OutcomeStep ==
    ASSUME LedgerInvariant, LedgerInvariant', [Next]_vars, NEW d \in Deliveries, OutcomeOf(d)
    PROVE  OutcomeOf(d)'
<1>1. TypeOK
  BY DEF LedgerInvariant
<1> SUFFICES ASSUME NEW k \in AttemptNumbers, k = attemptCount'[d]
             PROVE  /\ status'[d] = "accepted" => effect'[d][k] = "accepted"
                    /\ finalReason'[d] \in CancelReasons => effect'[d][k] = "temporary_failure"
  BY DEF OutcomeOf
<1>2. status'[d] \notin Terminal => finalReason'[d] \notin CancelReasons
  BY Apart DEF LedgerInvariant, DeliveryShape
<1>3. effect[d][k] \in Outcomes => effect'[d][k] = effect[d][k]
  BY AnswerStands
<1>4. "accepted" \in Outcomes /\ "temporary_failure" \in Outcomes
  BY DEF Outcomes
<1>5. CASE Unmoved(d)
  BY <1>3, <1>4, <1>5 DEF OutcomeOf, Unmoved, Row
<1>6. CASE PersistIntent(d)
  BY <1>1, <1>2, <1>6, MovesFrom DEF Terminal
<1>7. ASSUME NEW w \in Workers, job[w].delivery = d, CommitClaim(w)
      PROVE  status'[d] = "attempting"
  BY <1>1, <1>7, MovesFrom
<1>8. ASSUME NEW w \in Workers, job[w].delivery = d, Recorded(w)
      PROVE  /\ status'[d] = "accepted" => effect'[d][k] = "accepted"
             /\ finalReason'[d] \notin CancelReasons
  <2>1. attemptCount' = attemptCount /\ effect' = effect
    BY <1>8 DEF Recorded, RecordAccepted, RecordTemporary, RecordExhausted, RecordPermanent,
                RecordUnknown
  <2>2. job[w].attempt = k
    BY <1>8, <2>1, WorkerAt, <1>1 DEF LedgerInvariant, JobShapeOf
  <2>3. RecordAccepted(w) <=> effect[d][k] = "accepted"
    BY <1>8, <2>2, RecordedAt
  <2>4. status'[d] = "accepted" => RecordAccepted(w)
    BY <1>1, <1>8, WorkerAt DEF Recorded, RecordTemporary, RecordExhausted, RecordPermanent,
       RecordUnknown, UpdateDelivery, TypeOK
  <2>5. finalReason[d] = "none"
    BY <1>8, RecordedAt DEF LedgerInvariant, DeliveryShape, Terminal
  <2>6. finalReason'[d] \in {"none", "retry_exhausted", "permanent_failure",
                             "ambiguous_external_effect"}
    BY <1>1, <1>8, <2>5 DEF Recorded, RecordAccepted, RecordTemporary, RecordExhausted,
       RecordPermanent, RecordUnknown, UpdateDelivery, TypeOK
  <2> QED
    BY <2>1, <2>3, <2>4, <2>6, Apart
<1>9. ASSUME NEW i \in ObservationIds, NEW r \in ReceiptObservations,
             r.delivery = d, RecordReceipt(i, r)
      PROVE  status'[d] # "accepted" /\ finalReason'[d] \notin CancelReasons
  <2>1. status'[d] # "accepted"
    BY <1>1, <1>9, MovesFrom
  <2>2. finalReason'[d] \in {"authoritative_delivery_receipt", "bounced", "rejected"}
    BY <1>1, <1>9 DEF RecordReceipt, ReceiptObservations, ReceiptKinds, UpdateDelivery, TypeOK
  <2> QED
    BY <2>1, <2>2, Apart
<1>10. ASSUME NEW i \in ObservationIds, NEW o \in LifecycleObservations,
              ObserveLifecycle(i, o), Cancellable(d, o)
       PROVE  status'[d] # "accepted" /\ effect'[d][k] = "temporary_failure"
  <2>1. status[d] \in Waiting /\ status'[d] = "failed"
    BY <1>1, <1>10, MovesFrom
  <2>2. attemptCount' = attemptCount
    BY <1>10 DEF ObserveLifecycle
  <2>3. effect[d][k] = "temporary_failure"
    BY <2>1, <2>2 DEF LedgerInvariant, DeliveryShape, AttemptShape
  <2> QED
    BY <1>3, <1>4, <2>1, <2>3
<1>11. ASSUME NEW key \in RetryKeys, ManualRetry(d, key)
       PROVE  status'[d] = "retry_scheduled"
  BY <1>1, <1>11, MovesFrom
<1> QED
  BY <1>1, <1>2, <1>5, <1>6, <1>7, <1>8, <1>9, <1>10, <1>11, MovesFrom, WhoMoves
  DEF Moved, Terminal

\* An answer that was recorded stays recorded.
LEMMA RecordStands ==
    ASSUME LedgerInvariant, [Next]_vars, NEW d \in Deliveries, NEW k \in AttemptNumbers,
           dispatchRecord[d][k] # "none"
    PROVE  dispatchRecord'[d][k] # "none"
<1>1. TypeOK /\ "none" \notin Outcomes
  BY DEF LedgerInvariant, Outcomes
<1>2. \A w \in Workers : CommitClaim(w) => dispatchRecord' = dispatchRecord
  BY DEF CommitClaim
<1>3. \A w \in Workers : job[w].delivery = d /\ job[w].attempt = k =>
        ~Recorded(w) /\ ~AbsorbLate(w)
  BY RecordedAt, AbsorbedAt
<1>4. \A i \in ObservationIds, r \in ReceiptObservations :
        RecordReceipt(i, r) => dispatchRecord' = dispatchRecord
  BY <1>1, ReceiptAt
<1> QED
  BY <1>1, <1>2, <1>3, <1>4, WhoWrites DEF Unwritten, Written

-----------------------------------------------------------------------------
(* The evidence of a delivery is finite, and there is ever more of it *)

Finite == IsFiniteSet(receipts) /\ IsFiniteSet(retryRequests)

LEMMA FiniteStep ==
    ASSUME TypeOK, Finite, [Next]_vars
    PROVE  Finite'
<1>1. ASSUME NEW w \in Workers, Recorded(w)
      PROVE  /\ receipts' = receipts \/ \E r : receipts' = receipts \cup {r}
             /\ retryRequests' = retryRequests \/ \E r : retryRequests' = retryRequests \cup {r}
  <2>1. CASE RecordAccepted(w)
    <3>1. retryRequests' = retryRequests
      BY <2>1 DEF RecordAccepted
    <3>2. CASE job[w].observation.receipt = NoReceipt
      BY <2>1, <3>1, <3>2 DEF RecordAccepted
    <3>3. CASE job[w].observation.receipt # NoReceipt
      <4>1. \E r : receipts' = receipts \cup {r}
        BY <2>1, <3>3 DEF RecordAccepted
      <4> QED
        BY <3>1, <4>1
    <3> QED
      BY <3>2, <3>3
  <2>2. CASE RecordTemporary(w) \/ RecordExhausted(w)
    BY <2>2 DEF RecordTemporary, RecordExhausted
  <2>3. CASE RecordPermanent(w) \/ RecordUnknown(w)
    BY <2>3 DEF RecordPermanent, RecordUnknown, evidenceVars
  <2> QED
    BY <1>1, <2>1, <2>2, <2>3 DEF Recorded
<1>2. \A w \in Workers : CommitClaim(w) \/ AbsorbLate(w) =>
        receipts' = receipts /\ retryRequests' = retryRequests
  BY DEF CommitClaim, AbsorbLate, evidenceVars
<1>3. \A i \in ObservationIds : \A o :
        /\ RecordReceipt(i, o) => receipts' = receipts \cup {o} /\ retryRequests' = retryRequests
        /\ AcknowledgeReceipt(i, o) \/ ObserveLifecycle(i, o) =>
             receipts' = receipts /\ retryRequests' = retryRequests
  BY DEF RecordReceipt, AcknowledgeReceipt, ObserveLifecycle
<1>4. /\ Quiet => receipts' = receipts /\ retryRequests' = retryRequests
      /\ \A d \in Deliveries : PersistIntent(d) =>
           receipts' = receipts /\ retryRequests' = retryRequests
      /\ \A d \in Deliveries, key \in RetryKeys : ManualRetry(d, key) =>
           receipts' = receipts /\ \E r : retryRequests' = retryRequests \cup {r}
  BY DEF Quiet, PersistIntent, ManualRetry, evidenceVars
<1>5. /\ receipts' = receipts \/ \E r : receipts' = receipts \cup {r}
      /\ retryRequests' = retryRequests \/ \E r : retryRequests' = retryRequests \cup {r}
  BY <1>1, <1>2, <1>3, <1>4, StepCases
<1> QED
  BY <1>5, FS_AddElement DEF Finite

\* More rows than a limit stay more than the limit.
LEMMA MoreStaysMore ==
    ASSUME NEW S, NEW T, S \subseteq T, IsFiniteSet(T), NEW limit \in Nat, Cardinality(S) > limit
    PROVE  Cardinality(T) > limit
<1>1. S \in SUBSET T
  OBVIOUS
<1>2. IsFiniteSet(S) /\ Cardinality(S) <= Cardinality(T)
  BY <1>1, FS_Subset
<1>3. Cardinality(S) \in Nat /\ Cardinality(T) \in Nat
  BY <1>2, FS_CardinalityType
<1> QED
  BY <1>2, <1>3

TooMuch(d) ==
    \/ Cardinality(ReceiptsOf(d)) > ReceiptLimit
    \/ Cardinality(DecisionsOf(d)) > RetryLimit

LEMMA TooMuchStays ==
    ASSUME TypeOK, Finite, Finite', [Next]_vars, NEW d, TooMuch(d)
    PROVE  TooMuch(d)'
<1>1. receipts \subseteq receipts' /\ retryRequests \subseteq retryRequests'
  BY EvidenceGrows
<1>2. ReceiptsOf(d) \subseteq ReceiptsOf(d)' /\ DecisionsOf(d) \subseteq DecisionsOf(d)'
  BY <1>1 DEF ReceiptsOf, DecisionsOf
<1>3. ReceiptsOf(d)' \in SUBSET receipts' /\ DecisionsOf(d)' \in SUBSET retryRequests'
  BY DEF ReceiptsOf, DecisionsOf
<1>4. IsFiniteSet(ReceiptsOf(d)') /\ IsFiniteSet(DecisionsOf(d)')
  BY <1>3, FS_Subset DEF Finite
<1>5. ReceiptLimit \in Nat /\ RetryLimit \in Nat
  BY LimitsAssumption
<1> QED
  BY <1>2, <1>4, <1>5, MoreStaysMore DEF TooMuch

\* There are no more attempts than numbers.
LEMMA AttemptsAreFew ==
    ASSUME NEW d
    PROVE  Cardinality(AttemptsOf(d)) \in Nat /\ Cardinality(AttemptsOf(d)) <= MaxAttempts
<1> DEFINE S == {n \in AttemptNumbers : attemptStatus[d][n] # "none"}
           f == [k \in S |-> [sequence |-> k, status |-> attemptStatus[d][k]]]
<1>1. IsFiniteSet(AttemptNumbers) /\ Cardinality(AttemptNumbers) = MaxAttempts
  BY AttemptsAssumption, FS_Interval DEF AttemptNumbers
<1>2. S \in SUBSET AttemptNumbers
  OBVIOUS
<1>3. IsFiniteSet(S) /\ Cardinality(S) <= MaxAttempts
  BY <1>1, <1>2, FS_Subset
<1>4. f \in Surjection(S, AttemptsOf(d))
  BY DEF Surjection, AttemptsOf
<1>5. IsFiniteSet(AttemptsOf(d)) /\ Cardinality(AttemptsOf(d)) <= Cardinality(S)
  BY <1>3, <1>4, FS_Surjection
<1> QED
  BY <1>3, <1>5, AttemptsAssumption, FS_CardinalityType

-----------------------------------------------------------------------------
(* The explanation, and how the call comes by it *)

Bounced(d) == \E r \in receipts : r.delivery = d /\ r.kind \in {"bounced", "rejected"}
Delivered(d) == \E r \in receipts : r.delivery = d /\ r.kind = "delivered"

\* ReplyExplained of a row that was read about attempt k.
Told(d, k, row) ==
    /\ row.attemptCount > k => effect[d][k] = "temporary_failure"
    /\ row.attemptCount = k =>
         /\ row.status \in {"accepted", "delivery_unknown"} => effect[d][k] = row.status
         /\ row.status = "retry_scheduled" => effect[d][k] = "temporary_failure"
         /\ row.status = "failed" =>
              effect[d][k] \in {"temporary_failure", "permanent_failure"} \/ Bounced(d)
         /\ row.status \notin DispatchStatuses => Delivered(d)

ReplyShape ==
    read # NotReading /\ read.about # 0 =>
        /\ dispatchRecord[read.delivery][read.about] # "none"
        /\ read.error # "not_found"
        /\ read.error = "evidence_overflow" => TooMuch(read.delivery)
        /\ read.error = "none" /\ read.next > 1 => Told(read.delivery, read.about, read.row)

\* What the ledger adds to Offer.
History ==
    /\ Offer /\ AnswerShape /\ Finite
    /\ \A d \in Deliveries : OutcomeOf(d)

LEMMA HistoryHolds == Spec => []History
<1> DEFINE All == \A d \in Deliveries : OutcomeOf(d)
<1>1. Init => All /\ Finite
  BY FS_EmptySet DEF Init, OutcomeOf, Finite, CancelReasons, AttemptNumbers
<1>2. LedgerInvariant /\ LedgerInvariant' /\ All /\ [Next]_vars => All'
  BY OutcomeStep
<1>3. LedgerInvariant /\ Finite /\ [Next]_vars => Finite'
  BY FiniteStep DEF LedgerInvariant
<1>4. Offer /\ AnswerShape /\ Finite /\ All => History
  BY DEF History
<1> HIDE DEF All
<1> QED
  BY <1>1, <1>2, <1>3, <1>4, LedgerInvariantHolds, LedgerOffers, AnswerShapeHolds, PTL DEF Spec

\* An answer that was recorded is one of an existing delivery's attempts.
LEMMA RecordedIsHistory ==
    ASSUME History, NEW d \in Deliveries, NEW k \in AttemptNumbers, dispatchRecord[d][k] # "none"
    PROVE  effect[d][k] \in Outcomes /\ status[d] # "absent"
<1>1. TypeOK
  BY DEF History, Offer, LedgerInvariant
<1>2. effect[d][k] \in Outcomes
  BY <1>1 DEF History, AnswerShape, AnswerOf, TypeOK
<1>3. ~(k > attemptCount[d])
  BY <1>2 DEF History, Offer, LedgerInvariant, DeliveryShape, AttemptShape, Outcomes
<1>4. attemptCount[d] # 0
  BY <1>1, <1>3, AttemptsAssumption DEF TypeOK, AttemptNumbers
<1> QED
  BY <1>2, <1>4 DEF History, Offer, LedgerInvariant, DeliveryShape

\* The row the call reads has its explanation then ...
LEMMA RowTells ==
    ASSUME History, NEW d \in Deliveries, NEW k \in AttemptNumbers, dispatchRecord[d][k] # "none"
    PROVE  Told(d, k, Summary(d))
<1> DEFINE row == Summary(d)
<1>1. TypeOK /\ status[d] # "absent"
  BY RecordedIsHistory DEF History, Offer, LedgerInvariant
<1>2. row.status = status[d] /\ row.attemptCount = attemptCount[d]
  BY DEF Summary
<1>3. attemptCount[d] > k => effect[d][k] = "temporary_failure"
  <2>1. attemptCount[d] > k => k < attemptCount[d]
    BY <1>1, AttemptsAssumption DEF TypeOK, AttemptNumbers
  <2> QED
    BY <2>1 DEF History, Offer, LedgerInvariant, DeliveryShape, AttemptShape
<1>4. ASSUME attemptCount[d] = k
      PROVE  /\ status[d] \in {"accepted", "delivery_unknown"} => effect[d][k] = status[d]
             /\ status[d] = "retry_scheduled" => effect[d][k] = "temporary_failure"
             /\ status[d] = "failed" =>
                  effect[d][k] \in {"temporary_failure", "permanent_failure"} \/ Bounced(d)
             /\ status[d] \notin DispatchStatuses => Delivered(d)
  <2>1. status[d] = "accepted" => effect[d][k] = "accepted"
    BY <1>4 DEF History, OutcomeOf
  <2>2. status[d] = "delivery_unknown" => effect[d][k] = "delivery_unknown"
    BY <1>4 DEF History, Offer, FinalEvidence
  <2>3. status[d] = "retry_scheduled" => effect[d][k] = "temporary_failure"
    BY <1>4 DEF History, Offer, LedgerInvariant, DeliveryShape, AttemptShape, Waiting
  <2>4. ASSUME status[d] = "failed"
        PROVE  effect[d][k] \in {"temporary_failure", "permanent_failure"} \/ Bounced(d)
    <3>1. finalReason[d] \in FinalReasons
          /\ finalReason[d] \notin {"authoritative_delivery_receipt", "ambiguous_external_effect"}
      BY <1>1, <2>4 DEF History, Offer, FinalEvidence, Terminal, TypeOK
    <3>2. finalReason[d] \in {"bounced", "rejected"} => Bounced(d)
      BY DEF History, Offer, FinalEvidence, Bounced
    <3>3. finalReason[d] \in CancelReasons => effect[d][k] = "temporary_failure"
      BY <1>4 DEF History, OutcomeOf
    <3>4. /\ finalReason[d] = "permanent_failure" => effect[d][k] = "permanent_failure"
          /\ finalReason[d] = "retry_exhausted" => effect[d][k] = "temporary_failure"
      BY <1>4 DEF History, Offer, FinalEvidence
    <3> QED
      BY <3>1, <3>2, <3>3, <3>4 DEF FinalReasons
  <2>5. ASSUME status[d] \notin DispatchStatuses
        PROVE  Delivered(d)
    <3>1. status[d] \in {"queued", "attempting", "delivered"}
      BY <1>1, <2>5 DEF TypeOK, Statuses, Waiting, Terminal, DispatchStatuses
    <3>2. status[d] # "queued"
      BY <1>4, AttemptsAssumption
      DEF History, Offer, LedgerInvariant, DeliveryShape, AttemptNumbers
    <3>3. status[d] # "attempting"
      BY <1>4 DEF History, AnswerShape, OpenOf
    <3>4. status[d] = "delivered" => Delivered(d)
      BY DEF History, Offer, FinalEvidence, Delivered
    <3> QED
      BY <3>1, <3>2, <3>3, <3>4
  <2> QED
    BY <2>1, <2>2, <2>3, <2>4, <2>5
<1> QED
  BY <1>2, <1>3, <1>4 DEF Told

\* ... and keeps it.
LEMMA ToldStays ==
    ASSUME History, [Next]_vars, NEW d \in Deliveries, NEW k \in AttemptNumbers,
           dispatchRecord[d][k] # "none", NEW row, Told(d, k, row)
    PROVE  Told(d, k, row)'
<1>1. effect'[d][k] = effect[d][k]
  BY RecordedIsHistory, AnswerStands DEF History, Offer
<1>2. receipts \subseteq receipts'
  BY EvidenceGrows DEF History, Offer, LedgerInvariant
<1>3. (Bounced(d) => Bounced(d)') /\ (Delivered(d) => Delivered(d)')
  BY <1>2 DEF Bounced, Delivered
<1> QED
  BY <1>1, <1>3 DEF Told

LEMMA NothingTells ==
    ASSUME UNCHANGED vars, NEW d, NEW k, NEW row
    PROVE  /\ Told(d, k, row) => Told(d, k, row)'
           /\ TooMuch(d) => TooMuch(d)'
           /\ dispatchRecord' = dispatchRecord
BY DEF vars, attemptVars, evidenceVars, Told, TooMuch, Bounced, Delivered, ReceiptsOf, DecisionsOf

LEMMA ReplyLedgerStep ==
    ASSUME History, Finite', ReadShape, ReplyShape, [Next]_vars, UNCHANGED read
    PROVE  ReplyShape'
<1> SUFFICES ASSUME read # NotReading, read.about # 0 PROVE ReplyShape'
  BY DEF ReplyShape, NotReading
<1>1. read.delivery \in Deliveries /\ read.about \in AttemptNumbers
  BY DEF ReadShape, Calls
<1>2. PICK d, k, row :
        /\ d \in Deliveries /\ k \in AttemptNumbers
        /\ d = read.delivery /\ k = read.about /\ row = read.row
  BY <1>1
<1>3. dispatchRecord[d][k] # "none"
  BY <1>2 DEF ReplyShape
<1>4. dispatchRecord'[d][k] # "none"
  BY <1>2, <1>3, RecordStands DEF History, Offer
<1>5. TooMuch(d) => TooMuch(d)'
  BY <1>2, TooMuchStays DEF History, Offer, LedgerInvariant
<1>6. Told(d, k, row) => Told(d, k, row)'
  BY <1>2, <1>3, ToldStays
<1> QED
  BY <1>2, <1>4, <1>5, <1>6 DEF ReplyShape

LEMMA ReplyRowStep ==
    ASSUME History, ReadShape, ReplyShape, ReadRow, UNCHANGED vars
    PROVE  ReplyShape'
<1>1. read # NotReading /\ read.next = 1
  BY StatementAt DEF ReadRow
<1>2. read \in Calls /\ read.delivery \in Deliveries
  BY <1>1 DEF ReadShape, Calls
<1>3. dispatchRecord' = dispatchRecord
  BY NothingTells
<1>4. CASE status[read.delivery] = "absent"
  <2>1. read'.delivery = read.delivery /\ read'.about = read.about
    BY <1>2, <1>4, FailShape DEF ReadRow
  <2>2. read.about = 0
    <3>1. read.about # 0 =>
            read.about \in AttemptNumbers /\ dispatchRecord[read.delivery][read.about] # "none"
      BY <1>1, <1>2 DEF ReplyShape, Calls
    <3> QED
      BY <1>2, <1>4, <3>1, RecordedIsHistory
  <2> QED
    BY <2>1, <2>2 DEF ReplyShape
<1>5. CASE status[read.delivery] # "absent"
  <2> PICK d, k, row :
        d \in Deliveries /\ d = read.delivery /\ k = read.about /\ row = Summary(d)
    BY <1>2
  <2>1. Keep("row", row) /\ row \in Summaries
    BY <1>5, RowIsCovered DEF ReadRow, Covered, History
  <2>2. read'.delivery = d /\ read'.about = k /\ read'.error = read.error /\ read'.row = row
    BY <1>1, <1>2, <2>1, KeepShape
  <2> SUFFICES ASSUME k # 0 PROVE ReplyShape'
    BY <2>2 DEF ReplyShape
  <2>3. k \in AttemptNumbers /\ dispatchRecord[d][k] # "none"
        /\ read.error # "not_found" /\ (read.error = "evidence_overflow" => TooMuch(d))
    BY <1>1, <1>2 DEF ReplyShape, Calls
  <2>4. Told(d, k, row)
    BY <2>3, RowTells
  <2>5. Told(d, k, row)' /\ (TooMuch(d) => TooMuch(d)')
    BY <2>4, NothingTells
  <2> QED
    BY <1>3, <2>2, <2>3, <2>5 DEF ReplyShape
<1> QED
  BY <1>4, <1>5

LEMMA ReplyEvidenceStep ==
    ASSUME MaxAttempts <= AttemptLimit,
           History, ReadShape, ReplyShape, UNCHANGED vars,
           ReadAttempts \/ ReadReceipts \/ ReadRetries
    PROVE  ReplyShape'
<1>1. PICK s, rows, limit :
        /\ s \in {"attempts", "receipts", "retries"}
        /\ ReadEvidence(s, rows, limit)
        /\ s = "attempts" => rows = AttemptsOf(read.delivery) /\ limit = AttemptLimit
        /\ s = "receipts" => rows = ReceiptsOf(read.delivery) /\ limit = ReceiptLimit
        /\ s = "retries" => rows = DecisionsOf(read.delivery) /\ limit = RetryLimit
  <2>1. CASE ReadAttempts
    BY <2>1 DEF ReadAttempts, AttemptsOf
  <2>2. CASE ReadReceipts
    BY <2>2 DEF ReadReceipts, ReceiptsOf
  <2>3. CASE ReadRetries
    BY <2>3 DEF ReadRetries, DecisionsOf
  <2> QED
    BY <2>1, <2>2, <2>3
<1>2. read # NotReading /\ read.next \in 2..4
  BY <1>1, StatementAt DEF ReadEvidence
<1>3. read \in Calls /\ TypeOK
  BY <1>2 DEF ReadShape, History, Offer, LedgerInvariant
<1> PICK d, k, row : d = read.delivery /\ k = read.about /\ row = read.row
  OBVIOUS
<1>4. k # 0 =>
        /\ dispatchRecord[d][k] # "none" /\ read.error # "not_found"
        /\ read.error = "evidence_overflow" => TooMuch(d)
        /\ read.error = "none" => Told(d, k, row)
  BY <1>2 DEF ReplyShape
<1>5. dispatchRecord' = dispatchRecord /\ (TooMuch(d) => TooMuch(d)')
      /\ (Told(d, k, row) => Told(d, k, row)')
  BY NothingTells
<1>6. CASE Cardinality(rows) > limit
  <2>1. read'.error = "evidence_overflow" /\ read'.delivery = d /\ read'.about = k
    BY <1>1, <1>3, <1>6, FailShape DEF ReadEvidence
  <2>2. s # "attempts"
    <3>1. Cardinality(AttemptsOf(d)) <= AttemptLimit
      BY AttemptsAreFew, AttemptsAssumption, LimitsAssumption
    <3>2. Cardinality(AttemptsOf(d)) \in Nat /\ AttemptLimit \in Nat
      BY AttemptsAreFew, LimitsAssumption
    <3> QED
      BY <1>1, <1>6, <3>1, <3>2
  <2>3. TooMuch(d)
    BY <1>1, <1>6, <2>2 DEF TooMuch
  <2> QED
    BY <1>4, <1>5, <2>1, <2>3 DEF ReplyShape
<1>7. CASE ~(Cardinality(rows) > limit)
  <2>1. Keep(s, rows)
    BY <1>1, <1>7 DEF ReadEvidence
  <2>2. /\ s = "attempts" => rows \subseteq [sequence : AttemptNumbers, status : AttemptStatuses]
        /\ s = "receipts" => rows \subseteq Receipts
        /\ s = "retries" => rows \subseteq RetryRequests
    BY <1>1, <1>3 DEF AttemptsOf, ReceiptsOf, DecisionsOf, TypeOK, Calls
  <2>3. read'.delivery = d /\ read'.about = k /\ read'.error = read.error /\ read'.row = row
    BY <1>1, <1>2, <1>3, <2>1, <2>2, KeepShape
  <2> QED
    BY <1>4, <1>5, <2>3 DEF ReplyShape
<1> QED
  BY <1>6, <1>7

LEMMA ReplyBegins ==
    ASSUME LedgerInvariant, NEW w \in Workers, ReadBack(w)
    PROVE  ReplyShape'
<1> DEFINE d == job[w].delivery
           k == job[w].attempt
<1>1. Recorded(w) \/ AbsorbLate(w)
  BY DEF ReadBack, Applied, Recorded
<1>2. dispatchRecord'[d][k] \in Outcomes
  <2>1. "accepted" \in Outcomes /\ "permanent_failure" \in Outcomes
    BY DEF Outcomes
  <2> QED
    BY <1>1, <2>1, RecordedAt, AbsorbedAt
<1>3. read' = Call(d, k)
  BY DEF ReadBack
<1>4. read'.delivery = d /\ read'.about = k /\ read'.error = "none" /\ read'.next = 1
  BY <1>3 DEF Call
<1> HIDE DEF d, k
<1> QED
  BY <1>2, <1>4 DEF ReplyShape, Outcomes

LEMMA ReplyStep ==
    ASSUME MaxAttempts <= AttemptLimit,
           History, Finite', ReadShape, ReplyShape, [ReadNext]_readVars
    PROVE  ReplyShape'
<1>1. CASE UNCHANGED readVars \/ (Next /\ UNCHANGED read)
  <2>1. [Next]_vars /\ UNCHANGED read
    BY <1>1 DEF readVars
  <2> QED
    BY <2>1, ReplyLedgerStep
<1>2. ASSUME NEW w \in Workers, ReadBack(w) PROVE ReplyShape'
  BY <1>2, ReplyBegins DEF History, Offer
<1>3. ASSUME NEW d \in Deliveries, GetDelivery(d) PROVE ReplyShape'
  BY <1>3 DEF GetDelivery, Call, ReplyShape
<1>4. CASE ReadRow /\ UNCHANGED vars
  BY <1>4, ReplyRowStep
<1>5. CASE (ReadAttempts \/ ReadReceipts \/ ReadRetries) /\ UNCHANGED vars
  BY <1>5, ReplyEvidenceStep
<1> QED
  BY <1>1, <1>2, <1>3, <1>4, <1>5 DEF ReadNext

\* What dispatch_due answers of its attempt is how the attempt ended, or what
\* overtook it before the row was read; it fails although the observation is
\* recorded only for a delivery that is delivered, attempted again or has more
\* evidence than a detail may show.
THEOREM RepliesAreExplained == MaxAttempts <= AttemptLimit /\ ReadSpec => []ReplyExplained
<1> SUFFICES ASSUME MaxAttempts <= AttemptLimit PROVE ReadSpec => []ReplyExplained
  OBVIOUS
<1>1. ReadInit => ReplyShape
  BY DEF ReadInit, ReplyShape
<1>2. History /\ History' /\ ReadShape /\ ReplyShape /\ [ReadNext]_readVars => ReplyShape'
  BY ReplyStep DEF History
<1>3. ReadShape /\ ReplyShape => ReplyExplained
  <2> SUFFICES ASSUME ReadShape, ReplyShape, Returned, read.about # 0
               PROVE  ReplyExplained
    BY DEF ReplyExplained
  <2>1. read \in Calls /\ read.next = 5 /\ read # NotReading
    BY ReturnedAt DEF NotReading
  <2> DEFINE d == read.delivery
             k == read.about
             row == read.row
  <2>2. read.error # "not_found" /\ (read.error = "evidence_overflow" => TooMuch(d))
        /\ (read.error = "none" => Told(d, k, row))
    BY <2>1 DEF ReplyShape
  <2>3. read.error = "none" => Answer = IF row.status \in DispatchStatuses THEN row.status
                                        ELSE "runtime"
    BY DEF Answer
  <2>4. ASSUME read.error = "none", row.attemptCount = k
        PROVE  \/ Answer \in {"accepted", "delivery_unknown"} /\ effect[d][k] = Answer
               \/ Answer = "retry_scheduled" /\ effect[d][k] = "temporary_failure"
               \/ Answer = "failed" /\ effect[d][k] \in {"temporary_failure", "permanent_failure"}
               \/ Answer = "failed" /\ Bounced(d)
               \/ Answer = "runtime" /\ Delivered(d)
    BY <2>2, <2>3, <2>4 DEF Told, DispatchStatuses
  <2> QED
    BY <2>2, <2>4 DEF ReplyExplained, TooMuch, ReceiptsOf, DecisionsOf, Told, Bounced, Delivered
<1> QED
  BY <1>1, <1>2, <1>3, ReadSpecIsSpec, HistoryHolds, ReadShapeHolds, PTL DEF ReadSpec
=============================================================================
