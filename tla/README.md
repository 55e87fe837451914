# Formal models of the Notification plugin

TLA+ modules that model the core of the Notification plugin
(`src/crates/notification`), TLC configurations that check them on small
instances, and proofs, checked by TLAPS, of the properties that matter most.

## 1. The system

The plugin stores transactional email intents in PostgreSQL, dispatches them
through an email provider, and records what is known of each delivery. All its
operations run in one process or in several, concurrently; everything they share
is in the database, so the interleaving of *transactions*, and inside them of
*statements*, is the concurrency of the system. The isolation level is
PostgreSQL's default, read committed.

| Component | State it keeps | Operations | Source |
|---|---|---|---|
| Intent creation | `intents`, `render_snapshots`, `template_releases`, the first row of `deliveries` | `create_organization_invitation`, `create_access_request_notification` | `plugin.rs`, `public.rs` |
| Claiming | `deliveries`, `attempts` | `claim_one_due` | `runtime.rs` |
| Dispatch | a job in memory per invocation | `dispatch_due` | `plugin.rs` |
| Observation ledger | `attempts`, `receipts`, `retry_requests`, `consumed_events`, `source_lifecycle_events`, `deliveries` | `apply_dispatch_observation`, `observe_receipt`, `observe_invitation_lifecycle` | `events.rs` |
| Manual retry | `retry_requests`, `deliveries` | `retry_delivery` | `repository.rs`, `plugin.rs` |
| Retry policy, status machine | none | `RetryPolicy::next_at`, `can_transition` | `domain.rs` |
| Admin reads | none | `list_deliveries`, `get_delivery`, the read-back of `dispatch_due` | `repository.rs`, `plugin.rs` |
| Snapshot protection | a key | `protect`, `reveal` | `snapshot.rs` |
| Schema operator | the schema, its migration ledger | `setup`, `upgrade`, `adopt_legacy`, `verify_managed_catalog` | `operator.rs` |
| Plugin lifecycle | pool, protector, provider instance | `prepare`, `deactivate` | `plugin.rs` |
| Agent tools adapter, capability crates, console | none | projections and generated messages | other crates, `packages/` |

How they interact. A create call renders through the *template provider* outside
any transaction and commits intent and queued delivery together. A scheduler,
outside this repository, calls `dispatch_due`: it claims the oldest due
delivery in one transaction, calls the *email provider* outside any transaction
and records the answer in a second one. Meanwhile *receipt* callers report what
happened to a message, *sources* report that an invitation ended, and an
*operator* may retry at once. All of them change the same `deliveries` row,
serialised by row locks, the `revision` compare-and-set, unique constraints and
transaction-scoped advisory locks. Before all that the schema has to be there:
`setup` and `upgrade` run in the PostgreSQL kit, `adopt_legacy` takes over a
schema that the host had migrated, and `prepare` refuses a catalog that is not
exactly what the migrations define.

What is hard here: two invocations claiming at once; a process that dies, or a
storage failure, between claim, call and record, where the effect may or may not
have happened; receipts that overtake the observation of the attempt they are
about, or arrive for an attempt before the latest; a statement that waits for a
row and sees one part of the database as it was before the wait and the other as
it is after; calls that wait for each other in a circle; redelivered and
conflicting observations; clocks of three parties; a revision that must stay
portable; content that cannot be revealed any more; two create calls with one
key, or with one template release; a retry whose answer was lost; reads in
several statements while all this goes on; a catalog that is compared part by
part while its owners may change it. `PROJECT.json` lists these hazards at the
lines where they bite.

What makes each component correct:

- *Creation*: a key is taken once; a replay gets the stored intent and changed
  input a conflict; a template release never changes; nobody waits forever.
- *Claiming*: one worker per delivery; a claim that fails leaves nothing.
- *Dispatch*: at most one provider call per attempt; no attempt after an
  ambiguous or lost answer; none after a cancellation.
- *Observations*: every final reason, decision and acknowledged receipt has its
  durable evidence; settled deliveries never change; every change is counted by
  the revision; an observation cancels what it saw waiting.
- *Retry*: the policy is respected, the newest decision is the one in force, a
  repeated call is never told that it was refused.
- *Reads*: a detail shows the evidence of the row it shows; what `dispatch_due`
  answers is explained by how its attempt ended; a listing repeats nothing and
  misses nothing that stayed.
- *Schema*: a schema is adopted only as what the first migration defines, is
  refused only for cause, and its ledger never records more than its tables
  show; comparing definitions drops the schema's qualifiers and nothing else.

## 2. The modules

| Module | Role |
|---|---|
| `DeliveryLedger` | the tables `deliveries`, `attempts`, `receipts`, `retry_requests`, `consumed_events` and everything that changes them, one action per transaction |
| `DeliveryPromise` | what the ledger promises to the business and to the provider; `DeliveryLedger` and `LedgerStatements` implement it |
| `LedgerStatements` | the transactions that others can get between, statement by statement, with row locks, advisory locks, snapshots and deadlock detection |
| `DeliveryDetail` | `get_delivery` statement by statement, and the read-back of `dispatch_due`, over the moving ledger |
| `DeliveryPages` | `list_deliveries` page by page, over the moving ledger |
| `IntentCreation` | concurrent create calls, await by await |
| `IntentRegistry` | what creating intents promises; `IntentCreation` implements it |
| `SchemaLifecycle` | `adopt_legacy` statement by statement, `prepare` and `deactivate`, setup and upgrade, among writers and owners |
| `CatalogNormalization` | the scan that makes two catalogs' definitions comparable, pass by pass of its loop |
| `MCLedger`, `MCStatements`, `MCDetail`, `MCPages`, `MCIntents`, `MCSchema`, `MCScan` | values of the constants for TLC |
| `DeliveryLedgerProofs`, `LedgerEvidenceProofs` | theorems about `DeliveryLedger`, the second module extending the first |
| `DeliveryDetailProofs`, `DeliveryPagesProofs` | theorems about the readers, on top of the ledger's |
| `LedgerStatementsProofs`, `IntentCreationProofs`, `SchemaLifecycleProofs`, `CatalogNormalizationProofs` | theorems about the four |

### DeliveryLedger

State. One variable per column that the code branches on (`status`, `revision`,
`attemptCount`, `nextAttemptAt`, `finalReason`, `requestedAt`, `attemptStatus`,
`dispatchRecord`), one per evidence table (`receipts`, `retryRequests`,
`consumed`), `job` for what each `dispatch_due` invocation holds in memory,
`clock`, and `effect`, a history variable: what the provider was really asked
and answered for each attempt. `effect` is read only where the code relies on
the outside world: a receipt can only arrive for an attempt that was sent.

Actions. One per transaction, with the guards of the code in their order:

| Actions | Code |
|---|---|
| `StartIntent`, `RenderFailure`, `PersistIntent` | a create call as the ledger sees it: `now` captured, render failed, row committed |
| `SelectDue`, `CommitClaim`, `ClaimRefused` | `claim_one_due`: the locked select; attempt row and compare-and-set; the error returns |
| `Send`, `ProviderResponds`, `ProviderRejects`, `ProviderAmbiguous` | `email.dispatch` and the arms of its `match` |
| `RecordAccepted`, `RecordTemporary`, `RecordExhausted`, `RecordPermanent`, `RecordUnknown`, `AbsorbLate`, `ObservationRefused` | `apply_dispatch_observation` |
| `Abandon` | the process ends, the call is cancelled or a statement fails: an open transaction rolls back |
| `RecordReceipt`, `AcknowledgeReceipt` | `apply_receipt` |
| `ObserveLifecycle` | `apply_invitation_lifecycle` |
| `ManualRetry` | `request_manual_retry` |
| `Tick` | time |

A call that is refused, or that finds its event id or key used for the same
thing, changes nothing and is a stuttering step. The claim is two actions
because its row lock is visible (`skip locked` passes it, other writers wait).
`ObservationRefused` may happen to any answer that cannot be recorded, also to
one that could still be absorbed: `LedgerStatements` shows how (a statement that
waited), and here the cause does not matter.

Abstractions, each chosen so that no property can tell the difference:

- `now` is the clock at `SelectDue` and at `ManualRetry`; a time captured before
  waiting for a lock is only earlier, and `next_attempt_at` in the past is due
  whatever it is.
- Time ends at `Horizon`, which stands for every later instant (`Later`).
- The event `dispatch-observation:<attempt>` is consumed exactly when the
  attempt's provider columns are filled, so `dispatchRecord # "none"` stands
  for it. Callers do not use ids and keys of that reserved form.
- `source_lifecycle_events` repeats `consumed` and is derived from it
  (`LifecycleEvents`).
- A remote receipt is identified by one value for `(source, remote_id)`.
- Receipts name attempts that were handed to the provider; a receipt about an
  attempt nobody sent would have to be invented.
- Field bounds, digests and the shape of native responses are reduced to
  well-formed or not; a malformed response is `ProviderAmbiguous`.
- A lifecycle observation is one action although it is several statements; what
  can come between them is the subject of `LedgerStatements`.

### LedgerStatements

State: the committed rows (`row`, `attempt`), the evidence that the statements
read (`consumed`, `decisions`, `receipts`), `call`, what each connection of the
pool is doing with the locks it holds, and `told`, the answer given in a step.

| Actions | Code |
|---|---|
| `BeginObservation`, `ClaimEvent`, `SelectWaiting`, `LockNext`, `CheckRevisions`, `UpdateNext`, `CommitObservation` | `apply_invitation_lifecycle`: `claim_event`, `select ... for update`, the revision check, the `update` |
| `BeginRetry`, `LockKey`, `LookupRetry`, `DecideRetry` | `request_manual_retry`; `Replay` and `ToolAnswer` are what `admin_retry` and the agent tool make of the result |
| `BeginReceipt`, `ApplyReceipt` | `apply_receipt` |
| `BeginRecord`, `Record` | `apply_dispatch_observation`, whose first statement waits for the delivery |
| `Create`, `Claim`, `Send` | what changes one row in one go |
| `Detect`, `Fail` | PostgreSQL fails a call of a circle; a statement, the pool or the process fails |

A statement takes a snapshot when it begins (`todo`, the rows it will visit),
waits for one row after the other, and looks again only at the row it waited for:
rows that begin to match after the snapshot are not visited, and a subquery on
another table (`has_receipt`) is answered from the snapshot. The `update` of an
observation has a snapshot of its own, so it visits rows its select did not lock,
in any order: that is the one way to a circle (`DeadlockExplained`). Insertion of
an event id waits for an uncommitted insert of the same id. A commit may succeed
although its caller hears of a failure (`Committed`), which is where repeated
calls come from. All deliveries belong to one invitation; each receipt report
has an event id of its own, conflicting ids are in `DeliveryLedger`.

### IntentCreation

State: committed `intents` and `releases`, and for each call its stage, captured
time, rendered digest and answer. The stages are the awaits of the code. An
advisory lock is held while the stage is `locked`, `checked` or `stored`
(`HoldsLock`); an inserted but uncommitted template release is a call in stage
`stored`, for which other inserters of the same release wait. The request record
stands for its digest. Hash collisions of `hashtextextended` are not modelled:
they only make a call wait longer. The commit of a call may reach its caller as
a failure.

The two create operations differ in validation and template only; the model
takes both, told apart by source, key and release. `RequestsOf` says which
requests a call may carry.

### DeliveryDetail and DeliveryPages

Both extend the ledger: a step is a step of the ledger or of one reader, which
changes nothing the ledger keeps. `get_delivery` runs four statements on the
pool without a transaction, so `ReadRow`, `ReadAttempts`, `ReadReceipts` and
`ReadRetries` each see the ledger as it is at that moment, and each of the last
three fails the call when its limit is exceeded. `GetDelivery` begins the call
for an administrator; `ReadBack` begins it in the step that records a worker's
observation, which is where `dispatch_due` goes on, and `Answer` says what either
caller is told. One call is followed, from any moment: reads do not affect each
other. A detail can show a receipt of an attempt it does not show, because the
attempts are read before the receipts; what it shows always covers its row,
because the row is read first, and nothing evidence says is ever withdrawn.

`ListDeliveries` is one statement and returns one page; `steady` remembers which
deliveries matched the filter all the time since the listing began. Deliveries
are created in any order of ids, as ids are not given out in ascending order.

### SchemaLifecycle and CatalogNormalization

State: `catalog` (the tables' definition as a whole, how many migrations they
show, whether the schema belongs to the operator, and what is there beyond the
migrations, by the part of the
fingerprint that would show it), the schema's own migration `ledger`, what the
`host`'s ledger proves, the tables a `writer` has locked, and per call a stage and
its locks. `witness` is history: which differences were there the whole time a
check took, and whether there was any.

| Actions | Code |
|---|---|
| `TakeKey`, `Examine`, `LockNext`, `CheckHost`, `PlaceLedger`, `CommitAdoption` | `adopt_legacy`: the two maintenance keys, the checks before the first lock, `LEGACY_LOCK_SQL`, `legacy_host_ledger_matches`, the ledger, the commit |
| `Check` (`Compare` of scope, tables, attached) | `legacy_schema_matches`, the comparison before the commit and `verify_managed_catalog` |
| `BeginPrepare`, `ReplaceState`, `Deactivate` | `prepare`, `deactivate` |
| `KitRuns` | `setup` and `upgrade`, which run in the PostgreSQL kit: external, under the same key |
| `Add`, `Drop`, `Alter`, `ChangeOwner`, `HostChanges`, `WriterTakes`, `WriterEnds` | owners, the host and writers that were not stopped; they respect PostgreSQL's table locks and nothing else |

Who owns a table is part of its definition, and changes under the lock of the
table (`Alter`). Who owns the schema is protected by no lock: it may change between
any two statements (`ChangeOwner`), so `AdoptedExactly` says nothing of it, and
`NothingSteadySlips` and `RefusedForCause` do.

The operator's fingerprint contains the owner of the schema, and the reference is
built in a temporary schema, which belongs to the bootstrap superuser: for any
other role the comparison fails. The model is of the role for which it can
succeed.

`CatalogNormalization` is the loop of `normalize_sql_qualifiers`, with the code's
`index` and `quote` and, for the output, the set `kept` of the positions that were
copied: the code copies from left to right and drops only qualifiers, so the set
says what the string says.

| Actions | Code |
|---|---|
| `Escape`, `DoubledQuote`, `EndLiteral`, `LiteralCharacter` | within a literal |
| `EndQuotes`, `QuotedCharacter` | within a quoted name or a body |
| `OpenLiteral`, `OpenBody`, `DropQualifier`, `OpenName`, `Copy` | outside, in the order of the code's tests |

A text is a sequence of symbols: the characters that the code looks for, and
whole words. The code sees only these. Beside them the model keeps, for every
symbol, the lexeme that PostgreSQL meant it to be part of, which is what the
property compares the scan with; `WellPrinted` is the grammar of what PostgreSQL
prints, modelled from outside the repository. It assumes of the definitions that
outside quotes the schema's name with a dot after it, at the beginning of a word,
is a qualifier (no alias or column has that name), and that in a quoted name two
double quotes, which stand for one, are not followed by what would look like a
quoted qualifier. `NoEscapedQuote` says that no literal has a backslash before a
quote. The theorem needs it and no migration breaks it: there the code takes the
backslash for an escape, PostgreSQL prints it as an ordinary character, and the scan
would take the next literal for what is outside literals. `legacy_reference_sql` is not part of the module: it
replaces the text `notification.` in the first migration wherever it stands, and
no literal of that migration contains it.

## 3. What the runs check

Every run explores its whole bounded state space.

| Run | Instance | Shows |
|---|---|---|
| `ledger_single` | 1 delivery, 3 attempts, 2 workers, abandonment anywhere, provider clock off by 1, retry-after, 2 observation ids, 2 manual keys, revision bound 7 | the types and the inductive invariant of the ledger (`LedgerInvariant`), exclusive work, evidence of retries, receipts, attempts and every final reason, absorbing final states, one provider call per attempt, and that the ledger implements `DeliveryPromise` |
| `ledger_pair` | 2 deliveries of one invitation, 2 workers, revision bound 5, one remote id, no abandonment, fair | every queued delivery is settled or accepted, unless the ledger cannot record the answer; a delivery is stuck in `attempting` only for the two reasons named in `Unrecordable`: its revision cannot grow, or its acceptance has a remote id that is taken |
| `statements` | 2 connections, 2 deliveries, 2 observations each possibly sent twice, a manual retry possibly repeated, a receipt, failures anywhere, fair | no call takes a revision past its bound (`TypeOK`); the ledger implements `DeliveryPromise` also statement by statement; an observation cancels what it saw; every circle has the one cause; a repeated retry is never refused; every call ends |
| `detail` | 1 delivery, 2 attempts, 1 worker, 1 receipt, cancellation, 2 manual keys, limits of 1 receipt and 2 decisions, revision bound 5 | a detail covers its row, is never refused as invalid, and every answer of `dispatch_due` is explained, its failures included |
| `pages` | 3 deliveries, one of them unrevealable and cancelled at some time, pages of 1, no filter and two filters, abandonment | nothing is listed twice, nothing steady is missed, the listing ends; nothing of a claim survives a failed reveal |
| `intents` | 3 calls, 3 requests (same slot with equal and changed input, same key of another source), 2 template digests, expiry, failures, fair | one intent per slot, no unique violation, immutable releases, `IntentRegistry` implemented, every call answered |
| `schema` | 2 adoptions, the plugin, 2 tables, 1 change by an owner or the host at any time, 3 kinds of additions, 2 definitions, failures, fair | exact adoption, nothing steady slips through, refusal for cause only, the ledger never ahead, every call ends, success in a maintenance window |
| `scan` | every text of three pieces, in both catalogs, out of names with every form of qualifier, a dotted name, a word before the schema's name, a parameter, literals, quoted names and bodies whose content looks like a qualifier, a quote or a delimiter | only qualifiers are dropped |

Runs that are expected to find a violation each check one statement of the
repository that the code does not keep:

| Run | Statement | What happens |
|---|---|---|
| `lost_answer` | a Runtime failure "is recorded as terminal `delivery_unknown`", `README.md` | not if the second transaction fails; the delivery then stays `attempting` |
| `reopened_attempt` | temporary outcomes "close" the attempt and attempts are "append-only", `docs/domain/notification.md` | a receipt for an earlier attempt rewrites its status |
| `overtaken_observation` | a receipt that finalises the delivery first: "preserve the final state and only fill bounded attempt metadata", `events.rs:657` | not if the receipt commits while the observation waits for the row: the subquery `has_receipt` (`events.rs:117`) keeps the answer from before the wait |
| `exact_replay` | "exact replay returns the existing intent", `docs/plugin-card.md` | not after `expires_at`: validation comes first |

Bounds and why they suffice. Two workers show every pairwise race of claims, and
the theorems below cover any number. Three attempts and two delays are needed
for a retry that is neither the first nor the last and for a policy that runs
out of attempts before delays; the code's default differs only in length. Two
deliveries are needed for queue order, for one observation that cancels several
and for a remote id claimed twice. Three deliveries give a page before, between
and after others. The limit of receipts and the limit of decisions in
`detail` are each exceeded without the other, and a read-back meets both cases.
In `ledger_pair` the revision bound of 5 is reached only while an attempt is in
flight, never by a delivery that waits: one that waits and cannot be claimed is
selected first by every invocation, and what is behind it in the queue starves,
with this bound or with content that cannot be revealed (`pages`); that is what
the code does, and no document promises otherwise. In `ledger_single` two manual
retries bring a waiting delivery to its bound of 7, while the policy can still
run out. Two observation ids allow a duplicate and a conflicting receipt. In
`ledger_single`, `Horizon` 2 with skew 1 lets a scheduled time lie before, at
and after the claim. Three create calls give a holder and two waiters of one
lock, the shortest circle being two. Two connections and two deliveries are
enough for that circle in `statements` too: each call of it holds what the other
waits for, and one delivery begins to wait between the two snapshots of an
observation; its revision bound lets the update's own bound bite. Two adoptions
contend for the key; one change at any time, between any two statements of
either, is enough for a difference that appears, that vanishes, or that is there
from the beginning (the initial states have every one of them). The run leaves out
the initial states in which both the catalog and the host's ledger are wrong
(`OneFlawInit`): one change cannot mend both, and every adoption is refused. Symmetry is used
for workers only, in runs without liveness properties.

Deadlock is not checked: an instance whose ids, keys and attempts are used up
has nothing left to do.

Fairness. `FairSpec` of `DeliveryLedger` is weak fairness of each worker's own
steps and of time: the application schedules `dispatch_due` repeatedly, the
provider call returns (the runtime bounds it) and transactions end. Nothing is
assumed of creators, receipts, sources or operators. `EventuallySettled` needs
that nothing is abandoned, as nobody resumes a lost attempt (`lost_answer`), and
leaves out the two cases in which the answer cannot be recorded (`Unrecordable`).
`FairPageSpec` of `DeliveryPages` assumes only that the administrator goes on
while there is a cursor. `FairSpec` of `IntentCreation`, of `LedgerStatements` and
of `SchemaLifecycle` are fairness of begun calls only: the future is polled, the
template provider answers or fails, and PostgreSQL grants a lock to its waiters
in turn, which is strong fairness, as a lock may be free and taken again many
times before a given waiter's turn. In `SchemaLifecycle` the transaction of a
writer ends as well. Nobody is assumed to begin anything.

Every property has a mutant in `PROJECT.json`: an operator with the comment
"Fault:" that changes one definition the way a slip in the code would. Its run
then finds the property violated.

## 4. What is proved

For every value of the constants: any number of deliveries, workers, attempts,
observation ids, connections, calls, operators and tables, any delays, limits and
clock skew, with and without abandonment or failures. Every safety invariant,
action property and refinement that a passing run checks has its theorem; the
types of `DeliveryLedger` are part of `LedgerInvariant`.

`DeliveryLedgerProofs`: `TypeCorrect`; `LedgerInvariantHolds`; `WorkIsExclusive`,
`AttemptIsLatest`, `AmbiguityIsNeverReplayed` (`ExclusiveWork`, `OneOpenAttempt`,
`NoReplayAfterAmbiguity`); `ProviderCalledOnce` (`SendOnce`). None of these is
inductive alone. What a worker may do to an attempt depends on where its
invocation stands, so `LedgerInvariant` adds `JobShapeOf` (a selected job holds a
waiting delivery, a claimed one an open attempt the provider has not heard of, a
replied one the answer that is in the history), and a new attempt is only sound
because of how the earlier ones ended, so it adds `AttemptShape` (before the
latest: temporary failures, closed; after it: nothing; the latest: open only under
`attempting` or an older receipt). One lemma per group of actions; `OwnJobStep`
carries what all worker steps share, `OutsideStep` what all others share, and a
receipt is the one step that moves a delivery under a worker (`ReceiptStep`).

In the same module: `ChangesAreCounted` (`RevisionCountsChanges`), `SettledStays`
(`TerminalAbsorbing`) and `PromiseKept`, the refinement of `DeliveryPromise`.
`RowStep` says what any transaction does to a row: nothing, or one counted change
from a state that is not final; it needs that an absent row has revision 0
(`Fresh`). The refinement is shown step by step: each action is the step of the
promise it stands for, or invisible.

`LedgerEvidenceProofs`: `AcknowledgedIsStored`, `DecisionsAreKept`,
`UnrevealableIsLeft`, `AnswersAreTrue`, `ReasonsHaveEvidence`, `OrphansHaveACause`.
The frame lemmas come first (`WhoMoves`, `WhoWrites`: which steps change a row or
an attempt; `EvidenceGrows`, `AnswerStands`: nothing is withdrawn). Then each
property has its strengthening: the decision the next attempt will rest on exists
while the delivery still waits (`DecisionShape`); a receipt agrees with what it
finished and an answer that ends a delivery is recorded of none that goes on
(`AnswerShape`); each reason is settled by evidence of its own kind (`FinalOf`);
and an attempting delivery has its worker or a cause (`OrphanOf`). The second cause
in `Unrecordable` is exact where the provider has one remote id, as in `ledger_pair`.
With several, the theorem says less: that the answer was an acceptance and that
another delivery has a recorded one, but not that their ids were equal, as nothing
keeps the remote id of an answer that could not be recorded.

`DeliveryDetailProofs`: `DetailCoversRow` (`EvidenceCoversRow`) and
`DetailIsProjectable` (`AlwaysProjectable`). A reader's steps are stuttering steps
of the ledger, so all its theorems hold under a reader. `Covered` says that the
ledger has the evidence of a row as it was read; it is true of the row at that
moment and no later step undoes it, so every later statement finds it.

`RepliesAreExplained` (`ReplyExplained`) is for a `MaxAttempts` that is at most
`AttemptLimit`: the contract allows 10 attempts (`plugin.rs:1344`) and the limit
is 10. `OutcomeOf` adds how the latest attempt of an accepted or cancelled
delivery ended; `Told` is the explanation of a row that was read.

`DeliveryPagesProofs`: `ListingIsOnce` (`ListedOnce`) and `SteadyIsListed`
(`SteadyListed`), for any page limit and any number of deliveries. A page is
defined by counting (a matching delivery belongs to it if few enough matching ones
have larger ids); the proof needs it by order. So the lemmas come first
(`AllAreFirst`: if no more than a page matches, the page is all of it;
`PageIsComplete`: it is, or a next cursor is set and the page is what matches from
there on), by choosing largest and smallest elements of finite sets of ids.
`PageInvariant` then says that everything listed so far is on the near side of the
cursor, once, and that everything steady on that side has been listed. It needs
that the table is finite (`Stored`), which creation keeps.

`LedgerStatementsProofs`: `StatementTypeCorrect` (`TypeOK`), `ObservationCancels`
(`CancelsWhatItSaw`), `RepetitionIsSafe` (`RepeatNeverRefused`), `RetryIsExplained`
(`RetryAnswerExplained`), `CirclesHaveACause` (`DeadlockExplained`) and
`StatementsKeepPromise`, the refinement of `DeliveryPromise`. A statement acts on
what an earlier one has read, so none of these is inductive, and
`StatementInvariant` says what a call may still rely on: the rows it holds are as
it found them, and in `locking` everything it holds has a smaller id than
everything it has still to lock (`LockShape`); its event id is not consumed, its
key has no decision, the answer it is about to record is that of the delivery's
latest attempt, which therefore does not wait (`WorkShape`); and no two calls have
the same row, event id, key or answer (`Apart`). Of the rows the update will visit
it says nothing: those may change until they are locked, which is why the update
checks them again. A step of one call changes nothing another has in hand
(`ShapeKept`, `CallAside`). For the circles: a call that waits for an event id, a
key or a single row holds nothing that a call of the circle waits for
(`CircleLocks`), so only `locking` and `updating` calls are in it; were all of them
`locking`, each would wait for a larger id than the one before, which a finite set
does not allow (`NoLastOne`); so one is `updating`, and what it waits for is held
by another, hence not among its own `matched` rows. `SomeCallGoesOn` adds that
waiting has no other way to last: whatever a call waits for is in the hands of a
call in progress (`BlockersAreBusy`), so if every call in progress waited, the
smallest set of them that waits for its own members would be a circle
(`WaitingEndsInACircle`). It states what `EveryCallEnds` rests on, for any number of
connections and without fairness. In the refinement a statement
is invisible unless it commits; a manual retry moves a waiting delivery to waiting
and is invisible too.

`IntentCreationProofs`: `CreationInvariantHolds`, and from it
`SlotsNeverCollide` (`NoUniqueViolation`),
`ReleasesAreImmutable` (`OneDigestPerRelease`) and `RegistryImplemented`, the
refinement of `IntentRegistry`. `CreationInvariant` adds that a slot's lock has one
holder, that what the holder found under it stays true (`SlotFree`), that a call
whose release is stored agrees with it (`Agrees`), and that a release is being
inserted by one transaction (`OneInserter`).

`SchemaLifecycleProofs`: `AdoptionInvariantHolds`, and from it
`SchemaTypeCorrect`, `LedgerIsNeverAhead`
(`LedgerNeverAhead`), `AdoptionIsExact` (`AdoptedExactly`). `AdoptionInvariant` says
that the maintenance key has one holder and what each stage of an adoption has
established about its locks, the ledger and the tables. Steps of calls keep it
because of the key; steps of everybody else because of the table locks.
`NothingSlipsThrough` (`NothingSteadySlips`) and `RefusalHasACause`
(`RefusedForCause`) speak of what no lock protects. For them `WitnessInvariant`
relates the history in `witness` to how far a call is: what was there all the time
is there now, and whoever meets a difference has one in its history (`Watched`);
what the parts compared so far would have shown was not there all the time
(`Caught`, by the comparison a call is in, `PassOf`); and an adoption that has
looked at the ledger knows it is still unmanaged (`Unrecorded`), so that what it
finds is never the record of another adoption. `OneQueue` says who waits for whom:
as whoever has a key or a table has the maintenance key (`KeyFirst`), adoptions wait
for each other at that key only, and the one they wait for can be held up by a
writer but by no adoption. Create calls need no such theorem: a waiter for a slot
waits for its holder, which waits at most for a call that waits for nothing.

`CatalogNormalizationProofs`: `OnlyQualifiersAreDropped` (`OnlyQualifiersDropped`),
for any texts of any length that satisfy `WellPrinted` (with what it assumes, section
2) and `NoEscapedQuote`. What the scan has copied
says nothing of the quotes it is in, so `ScanInvariant` adds that it is always at
the first symbol of a lexeme, in the quotes that PostgreSQL meant. There is one
exception, between the two double quotes that stand for one: there the scan
believes that one name is over, and with the second quote begins another, which
does no harm because what follows does not look like a quoted qualifier.

Assumptions: the named `ASSUME`s of the modules (numbered deliveries, at least
one attempt, delays and bounds natural numbers, a bound of the revision that the
first one does not exceed, a finite pool of connections, retries of deliveries
there are, every lock in the lock order); TLC evaluates them in every run. Tables
are finite by proof, not by assumption.

Only model-checked: liveness and everything else under fairness, which is out of
the proof system's reach (`EventuallySettled`, `ListingEnds`, `EveryCallAnswered`,
`EveryCallEnds`, `AdoptedInQuiet`).

## 5. Not modelled

- Cryptography, masking, previews and digests as functions (`snapshot.rs`). That
  stored content may have become impossible to reveal is modelled
  (`Unrevealable`).
- Field bounds of requests, responses and the configuration; authorization, a
  membership test at the head of every operation.
- `setup`, `upgrade` and the migrations' execution: they run in the PostgreSQL
  kit, which is not in this repository; `KitRuns` is what the operator relies on.
- Which columns of which system catalog a fingerprint reads: reduced to the
  parts it is read in.
- The agent tools adapter beyond the classes of failure a retry is answered with,
  the generated capability crates and the console, which keep no state;
  publishing scripts and contract checks, which are build tooling.

## 6. Plan

Done: the ledger, its statements, its readers, intent creation, the schema, and
proofs of the safety properties of all of them. What would add most next:

1. That a transaction of `LedgerStatements` that nobody gets between does what the
   one action of `DeliveryLedger` does: the two models agree on the promise so
   far, not on each other.
2. The claim and the dispatch in `LedgerStatements`, statement by statement.
