-------------------------- MODULE LedgerStatements --------------------------
(***************************************************************************)
(* The transactions of the ledger that other transactions can get between: *)
(* the observation of an invitation's lifecycle, the manual retry, the     *)
(* receipt and the record of a provider's answer, statement by statement.  *)
(* DeliveryLedger takes each of them as one action; here a statement reads *)
(* a snapshot, waits for row locks, and sees the rows it waited for, and   *)
(* only those, as they are afterwards (read committed).  What changes one  *)
(* row in one go (creation, claim) is one action.                          *)
(*                                                                         *)
(* All deliveries belong to one invitation.  A connection of the pool runs *)
(* one call at a time.  Operators whose comment begins with "Fault:" are   *)
(* slips a maintainer could make in the definition that follows; the       *)
(* specification never uses them.                                          *)
(***************************************************************************)
EXTENDS Integers, FiniteSets, Sequences, SequencesExt

CONSTANTS
    Connections,    \* connections of the pool
    Deliveries,     \* numbered in the order of their ids
    MaxAttempts,    \* deliveries.max_attempts
    MaxRevision,    \* MAX_SAFE_WIRE_INTEGER
    Observations,   \* [id, lifecycle, observedAt] that sources may report
    Retries,        \* [delivery, key] that operators may retry
    ReceiptForms,   \* [remote, kind, digest] that receipt callers may report
    RequestedAt,    \* what the create call of each delivery captured as now
    Unrevealable,   \* deliveries whose content cannot be revealed: never claimed
    Outcomes,       \* what the provider may answer: some of DispatchOutcome
    NoRequest,      \* a connection that runs no call
    NoKey,          \* no advisory lock
    MayFail         \* whether a statement or a process may fail

ASSUME StatementAssumption ==
    /\ Deliveries \subseteq Nat /\ IsFiniteSet(Connections)
    /\ MaxAttempts \in Nat \ {0} /\ MaxRevision \in Nat \ {0}
    /\ \A t \in Retries :
         t.delivery \in Deliveries /\ NoKey # [delivery |-> t.delivery, key |-> t.key]
    /\ Outcomes \subseteq {"accepted", "temporary_failure", "permanent_failure", "delivery_unknown"}
    /\ MayFail \in BOOLEAN

VARIABLES
    row,        \* deliveries, committed: [status, revision, attempts]
    attempt,    \* how far dispatch_due is with each attempt
    consumed,   \* observations whose event id is consumed
    decisions,  \* manual retry_requests: [delivery, key, revision]
    receipts,   \* receipts: [delivery, attempt, form]
    call,       \* what each connection is doing
    told        \* the answer given in this step; "none" for none, and for a failure
                \* of the storage or the process, which leaves the outcome open

tables == <<consumed, decisions, receipts>>
vars == <<row, attempt, consumed, decisions, receipts, call, told>>

Waiting == {"queued", "retry_scheduled"}
Attempts == 1..MaxAttempts

\* held, key: the rows and the advisory key whose locks the transaction holds.
\* todo: the rows the current statement has still to visit.  matched, changed:
\* the rows its select returned and its update changed.
Idle ==
    [stage |-> "idle", request |-> NoRequest, held |-> {}, key |-> NoKey, todo |-> <<>>,
     matched |-> {}, changed |-> {}]

Init ==
    /\ row = [d \in Deliveries |->
                [status |-> "absent", revision |-> 0, attempts |-> 0]]
    /\ attempt = [d \in Deliveries |-> [k \in Attempts |-> "none"]]
    /\ consumed = {} /\ decisions = {} /\ receipts = {}
    /\ call = [c \in Connections |-> Idle]
    /\ told = "none"

-----------------------------------------------------------------------------
(* Calls, locks and waiting *)

Running(c, stages) == call[c].stage \in stages

\* The call goes on.
Continue(c, state) == call' = [call EXCEPT ![c] = state] /\ told' = "none"

\* The connection takes up a call.
Start(c, stage, request) ==
    /\ call[c].stage = "idle"
    /\ Continue(c, [call[c] EXCEPT !.stage = stage, !.request = request])

\* Fault: pg_advisory_lock, which stays with the connection.
EndKeepsKey(c, answer) ==
    call' = [call EXCEPT ![c] = [Idle EXCEPT !.key = call[c].key]] /\ told' = answer

\* The transaction is over, by commit or rollback, and its locks are free.
End(c, answer) == call' = [call EXCEPT ![c] = Idle] /\ told' = answer

\* A commit may succeed although its caller hears of a failure.
Committed(c, answer) ==
    \E a \in {answer} \cup (IF MayFail THEN {"none"} ELSE {}) : End(c, a)

LockedBy(c, d) == d \in call[c].held
Free(c, d) == \A x \in Connections \ {c} : ~LockedBy(x, d)

\* insert into consumed_events waits for an uncommitted insert of the same id.
ClaimedBy(x, id) ==
    /\ Running(x, {"select", "locking", "updating"})
    /\ call[x].request.id = id

\* pg_advisory_xact_lock of a delivery and a key
KeyOf(r) == [delivery |-> r.delivery, key |-> r.key]

\* x has what c is waiting for.
Blocks(x, c) ==
    /\ x # c
    /\ \/ Running(c, {"event"}) /\ ClaimedBy(x, call[c].request.id)
       \/ Running(c, {"key"}) /\ call[x].key = KeyOf(call[c].request)
       \/ /\ Running(c, {"locking", "updating"}) /\ call[c].todo # <<>>
          /\ LockedBy(x, Head(call[c].todo))
       \/ Running(c, {"retry_row", "receipt_row", "record_row"})
            /\ LockedBy(x, call[c].request.delivery)

\* c is in a circle of calls that wait for each other; a call waits for one
\* other at most.
Deadlocked(c) ==
    /\ \E x \in Connections : Blocks(x, c)
    /\ \E S \in SUBSET Connections :
        /\ c \in S
        /\ \A x \in S : (\E y \in S : Blocks(y, x)) /\ (\E y \in S : Blocks(x, y))

\* PostgreSQL fails one call of a circle.
Detect(c) ==
    /\ Deadlocked(c)
    /\ End(c, "none")
    /\ UNCHANGED <<row, attempt, tables>>

\* A statement fails, the pool has no connection or the process dies.
Fail(c) ==
    /\ MayFail /\ call[c].stage # "idle"
    /\ End(c, "none")
    /\ UNCHANGED <<row, attempt, tables>>

Silent == UNCHANGED call /\ told' = "none"

\* Fault: the bound is taken for the last revision that can be incremented.
IncrementableAtLimit(v) == v.revision <= MaxRevision

\* A revision that cannot be incremented refuses what would change the delivery.
Incrementable(v) == v.revision < MaxRevision

Update(d, status) == row' = [row EXCEPT ![d].status = status, ![d].revision = @ + 1]

-----------------------------------------------------------------------------
(* What changes one row in one go *)

\* A create call commits; it captured requested_at before it rendered.
Create(d) ==
    /\ row[d].status = "absent"
    /\ Update(d, "queued")
    /\ UNCHANGED <<attempt, tables>> /\ Silent

\* claim_one_due: skip locked passes rows that others have locked.
Claim(d) ==
    /\ d \notin Unrevealable
    /\ row[d].status \in Waiting /\ row[d].attempts < MaxAttempts
    /\ Incrementable(row[d])
    /\ \A c \in Connections : ~LockedBy(c, d)
    /\ row' = [row EXCEPT ![d] = [status |-> "attempting", revision |-> row[d].revision + 1,
                                  attempts |-> row[d].attempts + 1]]
    /\ attempt' = [attempt EXCEPT ![d][row[d].attempts + 1] = "claimed"]
    /\ UNCHANGED tables /\ Silent

\* dispatch_due calls the provider.
Send(d, k) ==
    /\ attempt[d][k] = "claimed"
    /\ attempt' = [attempt EXCEPT ![d][k] = "sent"]
    /\ UNCHANGED <<row, tables>> /\ Silent

-----------------------------------------------------------------------------
(* observe_invitation_lifecycle *)

Cancellable(d, o) == row[d].status \in Waiting /\ RequestedAt[d] <= o.observedAt

BeginObservation(c, o) ==
    /\ Start(c, "event", o)
    /\ UNCHANGED <<row, attempt, tables>>

\* claim_event: the id is new, or consumed by the same or other content.
ClaimEvent(c) ==
    LET o == call[c].request IN
    /\ Running(c, {"event"})
    /\ \A x \in Connections : ~Blocks(x, c)
    /\ IF \E e \in consumed : e.id = o.id
       THEN End(c, IF o \in consumed THEN "recorded" ELSE "observation_conflict")
       ELSE Continue(c, [call[c] EXCEPT !.stage = "select"])
    /\ UNCHANGED <<row, attempt, tables>>

\* Fault: the select does not order its rows.
SelectOrderAny(S) == SetToSeqs(S)

\* order by deliveries.id
SelectOrder(S) == {s \in SetToSeqs(S) : \A i, j \in DOMAIN s : i < j => s[i] < s[j]}

\* select ... for update of deliveries: the statement takes its snapshot ...
SelectWaiting(c) ==
    LET o == call[c].request IN
    /\ Running(c, {"select"})
    /\ \E s \in SelectOrder({d \in Deliveries : Cancellable(d, o)}) :
         Continue(c, [call[c] EXCEPT !.stage = "locking", !.todo = s])
    /\ UNCHANGED <<row, attempt, tables>>

\* ... and locks its rows one after the other; a row it had to wait for is
\* returned if it still matches, and stays locked either way.
LockNext(c) ==
    LET d == Head(call[c].todo) IN
    /\ Running(c, {"locking"}) /\ call[c].todo # <<>> /\ Free(c, d)
    /\ Continue(c, [call[c] EXCEPT !.todo = Tail(@), !.held = @ \cup {d},
                      !.matched = IF Cancellable(d, call[c].request) THEN @ \cup {d} ELSE @])
    /\ UNCHANGED <<row, attempt, tables>>

\* Fault: the bound of the update differs from the one of the check before it.
UpdatableOffByOne(d, o) == Cancellable(d, o) /\ row[d].revision < MaxRevision - 1

\* where status in (...) and requested_at <= $3 and revision < $6
Updatable(d, o) == Cancellable(d, o) /\ row[d].revision < MaxRevision

\* A revision that cannot be incremented fails the call.  Otherwise the event
\* is inserted, and the update takes a snapshot of its own, in which more
\* rows may match; it visits them in any order.
CheckRevisions(c) ==
    LET o == call[c].request IN
    /\ Running(c, {"locking"}) /\ call[c].todo = <<>>
    /\ IF \E d \in call[c].matched : row[d].revision >= MaxRevision
       THEN End(c, "observation_conflict")
       ELSE \E s \in SetToSeqs({d \in Deliveries : Updatable(d, o)}) :
              Continue(c, [call[c] EXCEPT !.stage = "updating", !.todo = s])
    /\ UNCHANGED <<row, attempt, tables>>

\* Fault: the update trusts its snapshot.
StillUpdatableAlways(d, o) == TRUE

\* A row the update had to wait for is checked again.
StillUpdatable(d, o) == Updatable(d, o)

UpdateNext(c) ==
    LET d == Head(call[c].todo) IN
    /\ Running(c, {"updating"}) /\ call[c].todo # <<>> /\ Free(c, d)
    /\ Continue(c, [call[c] EXCEPT !.todo = Tail(@), !.held = @ \cup {d},
                      !.changed = IF StillUpdatable(d, call[c].request) THEN @ \cup {d} ELSE @])
    /\ UNCHANGED <<row, attempt, tables>>

CommitObservation(c) ==
    /\ Running(c, {"updating"}) /\ call[c].todo = <<>>
    /\ row' = [d \in Deliveries |->
                 IF d \in call[c].changed
                 THEN [row[d] EXCEPT !.status = "failed", !.revision = @ + 1]
                 ELSE row[d]]
    /\ consumed' = consumed \cup {call[c].request}
    /\ Committed(c, "recorded")
    /\ UNCHANGED <<attempt, decisions, receipts>>

-----------------------------------------------------------------------------
(* retry_delivery *)

Decided(r) == {x \in decisions : x.delivery = r.delivery /\ x.key = r.key}

\* The operator sends the revision it has just read or, when it repeats a
\* call, the one it sent before; a delivery it has read is never deleted.  The
\* revision MAX is refused at once.
BeginRetry(c, t) ==
    /\ row[t.delivery].status # "absent"
    /\ \E revision \in {row[t.delivery].revision} \cup {x.revision : x \in Decided(t)} :
           IF revision = MaxRevision
           THEN Running(c, {"idle"}) /\ End(c, "retry_not_allowed")
           ELSE Start(c, "key", [delivery |-> t.delivery, key |-> t.key, revision |-> revision])
    /\ UNCHANGED <<row, attempt, tables>>

\* Fault: the calls with one key are not serialised.
KeyFreeAlways(c) == TRUE

KeyFree(c) == \A x \in Connections \ {c} : call[x].key # KeyOf(call[c].request)

LockKey(c) ==
    /\ Running(c, {"key"}) /\ KeyFree(c)
    /\ Continue(c, [call[c] EXCEPT !.stage = "lookup", !.key = KeyOf(call[c].request)])
    /\ UNCHANGED <<row, attempt, tables>>

\* Fault: the answer does not look at the status.
ReplayUnchecked(d) == "replayed"

\* admin_retry: the answer can only say that the delivery waits for a retry.
Replay(d) == IF row[d].status = "retry_scheduled" THEN "replayed" ELSE "moved_on"

\* The decision of the key and the delivery as it is now.
LookupRetry(c) ==
    LET r == call[c].request IN
    /\ Running(c, {"lookup"})
    /\ IF Decided(r) # {}
       THEN End(c, Replay(r.delivery))
       ELSE Continue(c, [call[c] EXCEPT !.stage = "retry_row"])
    /\ UNCHANGED <<row, attempt, tables>>

\* select ... for update: what the row, once locked, refuses.
RetryRefusal(r) ==
    LET v == row[r.delivery] IN
    IF v.revision # r.revision THEN "stale_revision"
    ELSE IF v.status = "retry_scheduled" /\ v.attempts < MaxAttempts
    THEN "none" ELSE "retry_not_allowed"

\* The decision is inserted and the delivery moved up in one transaction.
DecideRetry(c) ==
    LET r == call[c].request IN
    /\ Running(c, {"retry_row"}) /\ Free(c, r.delivery)
    /\ IF RetryRefusal(r) # "none"
       THEN End(c, RetryRefusal(r)) /\ UNCHANGED <<row, decisions>>
       ELSE /\ decisions' = decisions \cup {r}
            /\ Update(r.delivery, "retry_scheduled")
            /\ Committed(c, "scheduled")
    /\ UNCHANGED <<attempt, consumed, receipts>>

\* map_retry_error, and what the agent tool makes of it: the class of failure
\* its caller is told.
ToolAnswer(answer) ==
    CASE answer \in {"scheduled", "replayed"} -> "content"
      [] answer \in {"stale_revision", "retry_not_allowed"} -> "execution_failed"
      [] OTHER -> "runtime"

-----------------------------------------------------------------------------
(* observe_receipt *)

Recorded(form) == {x \in receipts : x.form.remote = form.remote /\ x.form.kind = form.kind}

\* A receipt that is recorded already is acknowledged or contradicted at once;
\* any other goes on to wait for the delivery.
BeginReceipt(c, d, k, form) ==
    /\ attempt[d][k] \in {"sent", "reported"}
    /\ IF Recorded(form) # {}
       THEN /\ Running(c, {"idle"})
            /\ End(c, IF \A x \in Recorded(form) : x.form = form
                      THEN "acknowledged" ELSE "receipt_conflict")
       ELSE Start(c, "receipt_row", [delivery |-> d, attempt |-> k, form |-> form])
    /\ UNCHANGED <<row, attempt, tables>>

\* The delivery is locked, the receipt inserted, the delivery finished.  Each
\* report has an event id of its own, which claim_event finds new.  The same
\* receipt may have been recorded since the lookup.
ApplyReceipt(c) ==
    LET r == call[c].request
        v == row[r.delivery]
    IN
    /\ Running(c, {"receipt_row"}) /\ Free(c, r.delivery)
    /\ IF v.status \notin {"attempting", "accepted"} \/ ~Incrementable(v)
       THEN End(c, "receipt_conflict") /\ UNCHANGED <<row, receipts>>
       ELSE IF Recorded(r.form) # {}
       THEN End(c, "none") /\ UNCHANGED <<row, receipts>>
       ELSE /\ receipts' = receipts \cup {r}
            /\ Update(r.delivery, IF r.form.kind = "delivered" THEN "delivered" ELSE "failed")
            /\ Committed(c, "acknowledged")
    /\ UNCHANGED <<attempt, consumed, decisions>>

-----------------------------------------------------------------------------
(* dispatch_due records the answer of the provider *)

HasReceipt(d, k) == \E x \in receipts : x.delivery = d /\ x.attempt = k

LateObservationIsCompatible(status, hasReceipt, outcome) ==
    /\ hasReceipt
    /\ \/ status = "delivered" /\ outcome = "accepted"
       \/ status = "failed" /\ outcome = "permanent_failure"

\* The select that locks the delivery begins.  Whether the attempt has a
\* receipt is a subquery on another table: it is answered from the snapshot of
\* the statement, however long the statement then waits for the delivery.
BeginRecord(c, d, k, outcome) ==
    /\ attempt[d][k] = "sent"
    /\ attempt' = [attempt EXCEPT ![d][k] = "reported"]
    /\ Start(c, "record_row", [delivery |-> d, attempt |-> k, outcome |-> outcome,
                               hasReceipt |-> HasReceipt(d, k)])
    /\ UNCHANGED <<row, tables>>

\* The status a recorded outcome leads to.
StatusAfter(v, outcome) ==
    CASE outcome = "temporary_failure" ->
           IF v.attempts < MaxAttempts THEN "retry_scheduled" ELSE "failed"
      [] outcome = "permanent_failure" -> "failed"
      [] OTHER -> outcome

Record(c) ==
    LET r == call[c].request
        v == row[r.delivery]
    IN
    /\ Running(c, {"record_row"}) /\ Free(c, r.delivery)
    /\ IF v.status = "attempting" /\ Incrementable(v)
       THEN Update(r.delivery, StatusAfter(v, r.outcome)) /\ Committed(c, "recorded")
       ELSE /\ UNCHANGED row
            /\ End(c, IF /\ v.status # "attempting"
                         /\ LateObservationIsCompatible(v.status, r.hasReceipt, r.outcome)
                      THEN "absorbed" ELSE "refused")
    /\ UNCHANGED <<attempt, tables>>

-----------------------------------------------------------------------------
Observe(c) ==
    \/ ClaimEvent(c) \/ SelectWaiting(c) \/ LockNext(c) \/ CheckRevisions(c)
    \/ UpdateNext(c) \/ CommitObservation(c)
Retry(c) == LockKey(c) \/ LookupRetry(c) \/ DecideRetry(c)
Report(c) == ApplyReceipt(c) \/ Record(c)

Proceed(c) == Observe(c) \/ Retry(c) \/ Report(c) \/ Detect(c)

Begin(c) ==
    \/ \E o \in Observations : BeginObservation(c, o)
    \/ \E t \in Retries : BeginRetry(c, t)
    \/ \E d \in Deliveries, k \in Attempts :
        \/ \E form \in ReceiptForms : BeginReceipt(c, d, k, form)
        \/ \E outcome \in Outcomes : BeginRecord(c, d, k, outcome)

Next ==
    \/ \E c \in Connections : Begin(c) \/ Proceed(c) \/ Fail(c)
    \/ \E d \in Deliveries :
        \/ Create(d)
        \/ Claim(d)
        \/ \E k \in Attempts : Send(d, k)

Spec == Init /\ [][Next]_vars

\* A begun call keeps being polled, PostgreSQL grants a lock to its waiters in
\* turn and fails a call of every circle.
FairSpec == Spec /\ \A c \in Connections : SF_vars(Proceed(c))
-----------------------------------------------------------------------------
(* Properties *)

Statuses ==
    Waiting \cup {"absent", "attempting", "accepted", "delivered", "failed", "delivery_unknown"}

RetryRequests ==
    {[delivery |-> t.delivery, key |-> t.key, revision |-> n] :
        t \in Retries, n \in 0..MaxRevision - 1}
ReceiptRequests == [delivery : Deliveries, attempt : Attempts, form : ReceiptForms]
RecordRequests ==
    [delivery : Deliveries, attempt : Attempts, outcome : Outcomes, hasReceipt : BOOLEAN]

\* What a call works on, by its stage.
RequestsOf(stage) ==
    CASE stage \in {"event", "select", "locking", "updating"} -> Observations
      [] stage \in {"key", "lookup", "retry_row"} -> RetryRequests
      [] stage = "receipt_row" -> ReceiptRequests
      [] stage = "record_row" -> RecordRequests
      [] OTHER -> {NoRequest}

Stages == {"idle", "event", "select", "locking", "updating", "key", "lookup", "retry_row",
           "receipt_row", "record_row"}

CallStates ==
    [stage : Stages, request : UNION {RequestsOf(stage) : stage \in Stages},
     held : SUBSET Deliveries, key : {KeyOf(t) : t \in Retries} \cup {NoKey},
     todo : Seq(Deliveries), matched : SUBSET Deliveries, changed : SUBSET Deliveries]

\* The tables and the calls are well typed; in particular no call, whatever it
\* waited for, takes a revision past MAX_SAFE_WIRE_INTEGER (revision_exhausted).
TypeOK ==
    /\ row \in [Deliveries -> [status : Statuses, revision : 0..MaxRevision,
                               attempts : 0..MaxAttempts]]
    /\ attempt \in [Deliveries -> [Attempts -> {"none", "claimed", "sent", "reported"}]]
    /\ consumed \subseteq Observations
    /\ decisions \subseteq RetryRequests /\ receipts \subseteq ReceiptRequests
    /\ \A c \in Connections : call[c].request \in RequestsOf(call[c].stage)
    /\ call \in [Connections -> CallStates]

\* Statement by statement, the ledger still implements what DeliveryPromise
\* promises: work in flight is never cancelled, tries stay within the budget,
\* nothing settled moves, whatever a statement saw before it waited.
Phase(s) ==
    CASE s = "absent" -> "none"
      [] s \in Waiting -> "pending"
      [] s = "attempting" -> "in_flight"
      [] s = "delivery_unknown" -> "unknown"
      [] OTHER -> s

Promise == INSTANCE DeliveryPromise WITH
    Budget <- MaxAttempts,
    phase <- [d \in Deliveries |-> Phase(row[d].status)],
    tries <- [d \in Deliveries |-> row[d].attempts],
    calls <- [d \in Deliveries |-> {k \in Attempts : attempt[d][k] \in {"sent", "reported"}}]

ImplementsPromise == Promise!Spec

\* An observation that is recorded has cancelled every delivery that its
\* select returned, whatever happened between its statements: the bound of
\* its update never skips what the check of the revisions let pass
\* (apply_invitation_lifecycle).
CancelsWhatItSaw ==
    [][\A c \in Connections :
         Running(c, {"updating"}) /\ call[c].request \in consumed' =>
            \A d \in call[c].matched : row'[d].status = "failed"]_vars

\* Calls wait for each other in a circle only when one of them, in the update
\* of an observation, has come to a delivery that began to wait after its
\* select: the order of the select and the order in which the other calls
\* take their locks leave no other way (apply_invitation_lifecycle,
\* request_manual_retry, claim_event).
DeadlockExplained ==
    \A c \in Connections :
        Deadlocked(c) =>
            \E x \in Connections :
                /\ Deadlocked(x) /\ Running(x, {"updating"})
                /\ Head(call[x].todo) \notin call[x].matched

\* A manual retry that repeats, key and revision, what was decided is never
\* told that it was refused: it gets its decision again, or a failure that
\* leaves the outcome open (request_manual_retry, admin_retry).
RepeatNeverRefused ==
    [][\A c \in Connections :
         /\ Running(c, {"lookup", "retry_row"})
         /\ call'[c].stage = "idle"
         /\ call[c].request \in decisions
         => ToolAnswer(told') \in {"content", "runtime"}]_vars

\* A retry is answered with content only for a decision that is recorded under
\* its key, and for a delivery that waits for its next attempt; a decision
\* whose delivery has moved on is answered with a failure although it was
\* carried out (admin_retry).
RetryAnswerExplained ==
    [][\A c \in Connections :
         Running(c, {"lookup", "retry_row"}) /\ call'[c].stage = "idle" =>
            LET r == call[c].request
                decided == \E x \in decisions' : x.delivery = r.delivery /\ x.key = r.key
            IN  /\ ToolAnswer(told') = "content" =>
                     decided /\ row'[r.delivery].status = "retry_scheduled"
                /\ told' = "moved_on" =>
                     decided /\ row'[r.delivery].status # "retry_scheduled"]_vars

\* Every begun call ends: no circle of locks, event ids and retry keys lasts.
EveryCallEnds == \A c \in Connections : call[c].stage # "idle" ~> call[c].stage = "idle"

\* The answer of the provider is absorbed when a receipt has finished the
\* delivery before: "A receipt can therefore finalize the delivery before the
\* causally earlier dispatch observation arrives. Preserve the final state
\* and only fill bounded attempt metadata" (absorb_late_dispatch_observation).
LateObservationAbsorbed ==
    [][\A c \in Connections :
         Running(c, {"record_row"}) /\ told' = "refused" =>
            LET r == call[c].request IN
            ~LateObservationIsCompatible(row[r.delivery].status,
                                         HasReceipt(r.delivery, r.attempt), r.outcome)]_vars
=============================================================================
