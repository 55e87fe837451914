--------------------------- MODULE IntentCreation ---------------------------
(***************************************************************************)
(* Concurrent create calls: create_organization_invitation and             *)
(* create_access_request_notification, which differ only in what they      *)
(* validate and render.  A call captures the time, looks for a committed   *)
(* replay, has the template rendered outside any transaction and then      *)
(* opens its own: it takes the advisory lock of its idempotency key, looks *)
(* again, registers the template release and inserts snapshot, intent and  *)
(* queued delivery.  Statements that another transaction can get between   *)
(* are actions of their own; what a transaction has inserted is seen by    *)
(* the others when it commits, but makes them wait before that.            *)
(*                                                                         *)
(* Operators whose comment begins with "Fault:" are slips a maintainer     *)
(* could make in the definition that follows; the specification never      *)
(* uses them.                                                              *)
(***************************************************************************)
EXTENDS Integers

CONSTANTS
    Calls,           \* create calls; each makes one request
    RequestsOf,      \* what the caller of each call may request: [source, key,
                     \* release, expiresAt, body]; the record itself stands
                     \* for its request digest
    TemplateDigests, \* digests the template provider may report for a release
    NoExpiry,        \* expires_at of a request that has none
    NoRequest,       \* a call that has not begun
    NoDigest,        \* nothing rendered, or no such template release
    Horizon,         \* bound on time
    MayFail          \* whether the storage may fail or a process may die

\* Everything that may be requested.
Requests == UNION {RequestsOf[c] : c \in Calls}

ASSUME HorizonAssumption == Horizon \in Nat
ASSUME ExpiryAssumption == \A r \in Requests : r.expiresAt \in Nat \cup {NoExpiry}
ASSUME AbsentAssumption == NoRequest \notin Requests /\ NoDigest \notin TemplateDigests
ASSUME FailAssumption == MayFail \in BOOLEAN

VARIABLES
    clock,     \* Utc::now()
    intents,   \* intents with their snapshot and delivery, committed together
    releases,  \* template_releases.template_digest by release, committed rows
    call       \* every create call; its transaction is open from "locked" to
               \* "stored", which is after its template release is inserted or found

vars == <<clock, intents, releases, call>>

Releases == {r.release : r \in Requests}
Slot(r) == <<r.source, r.key>>

NewCall == [stage |-> "new", request |-> NoRequest, now |-> 0,
            digest |-> NoDigest, answer |-> "none"]

Init ==
    /\ clock = 0
    /\ intents = {}
    /\ releases = [t \in Releases |-> NoDigest]
    /\ call = [c \in Calls |-> NewCall]

-----------------------------------------------------------------------------
\* The call is over; an open transaction is committed or rolled back, which
\* releases its locks.
Answer(c, answer) == call' = [call EXCEPT ![c].stage = "answered", ![c].answer = answer]

\* Fault: a lock of the session, which the rollback after a conflict keeps.
HoldsLockOfSession(d) ==
    \/ call[d].stage \in {"locked", "checked", "stored"}
    \/ call[d].digest # NoDigest /\ call[d].answer = "conflict"

\* pg_advisory_xact_lock is held to the end of the transaction.
HoldsLock(d) == call[d].stage \in {"locked", "checked", "stored"}

\* The committed intent of the request's slot, if any.
Stored(r) == {i \in intents : Slot(i.request) = Slot(r)}

\* Fault: the request digests are not compared.
IsReplayOfAny(i, r) == TRUE

\* stored_digest = digest
IsReplay(i, r) == i.request = r

\* find_idempotent_intent: an existing intent ends the call, as a replay when
\* the digests agree and as a conflict when they do not.
AnswerFrom(c, existing) ==
    \E i \in existing :
        Answer(c, IF IsReplay(i, call[c].request) THEN "replayed" ELSE "conflict")

-----------------------------------------------------------------------------
\* The call captures now and validates the request against it: an expiry has
\* to be in the future, also for a request that is already stored.
Begin(c, r) ==
    /\ call[c].stage = "new"
    /\ call' = [call EXCEPT ![c] =
                  IF r.expiresAt = NoExpiry \/ r.expiresAt > clock
                  THEN [@ EXCEPT !.stage = "looking", !.request = r, !.now = clock]
                  ELSE [@ EXCEPT !.stage = "answered", !.request = r, !.now = clock,
                                 !.answer = "invalid_intent"]]
    /\ UNCHANGED <<clock, intents, releases>>

\* find_*_replay: a committed replay is answered without rendering.
FindReplay(c) ==
    LET existing == Stored(call[c].request) IN
    /\ call[c].stage = "looking"
    /\ \/ existing = {} /\ call' = [call EXCEPT ![c].stage = "rendering"]
       \/ AnswerFrom(c, existing)
    /\ UNCHANGED <<clock, intents, releases>>

\* The provider renders the exact template version asked for; nothing but its
\* own contract makes two renders report the same template digest.
Render(c) ==
    /\ call[c].stage = "rendering"
    /\ \E digest \in TemplateDigests :
         call' = [call EXCEPT ![c].stage = "rendered", ![c].digest = digest]
    /\ UNCHANGED <<clock, intents, releases>>

\* The provider fails or its projection is invalid: nothing was written.
RenderFails(c) ==
    /\ call[c].stage = "rendering"
    /\ Answer(c, "runtime")
    /\ UNCHANGED <<clock, intents, releases>>

\* Fault: the contenders for a slot are not serialised.
LockFreeAlways(c) == TRUE

\* Nobody else holds the lock of the same source and key.
LockFree(c) ==
    \A d \in Calls \ {c} :
        ~(HoldsLock(d) /\ Slot(call[d].request) = Slot(call[c].request))

\* persist_intent: the transaction begins and waits for the advisory lock.
LockKey(c) ==
    /\ call[c].stage = "rendered"
    /\ LockFree(c)
    /\ call' = [call EXCEPT ![c].stage = "locked"]
    /\ UNCHANGED <<clock, intents, releases>>

\* ... looks for a committed replay again ...
Recheck(c) ==
    LET existing == Stored(call[c].request) IN
    /\ call[c].stage = "locked"
    /\ \/ existing = {} /\ call' = [call EXCEPT ![c].stage = "checked"]
       \/ AnswerFrom(c, existing)
    /\ UNCHANGED <<clock, intents, releases>>

\* insert ... on conflict do nothing
StoredDigest(stored, rendered) == IF stored = NoDigest THEN rendered ELSE stored

\* Fault: the stored digest is not compared with the rendered one.
ReleaseMatchesAny(c) == TRUE

\* stored_template_digest = template_digest
ReleaseMatches(c) ==
    StoredDigest(releases[call[c].request.release], call[c].digest) = call[c].digest

\* ... inserts the template release unless it exists, having waited for any
\* other transaction that has inserted it, and compares the stored digest ...
InsertRelease(c) ==
    /\ call[c].stage = "checked"
    /\ \A d \in Calls \ {c} :
         call[d].stage = "stored" =>
            \/ call[d].request.release # call[c].request.release
            \/ releases[call[c].request.release] # NoDigest
    /\ IF ReleaseMatches(c)
       THEN call' = [call EXCEPT ![c].stage = "stored"]
       ELSE Answer(c, "runtime")
    /\ UNCHANGED <<clock, intents, releases>>

\* ... and inserts snapshot, intent and queued delivery, stamped with the
\* captured time, unless unique (source_module, idempotency_key) forbids it.
\* The commit may succeed without the caller hearing of it.
Commit(c) ==
    LET r == call[c].request IN
    /\ call[c].stage = "stored"
    /\ IF Stored(r) = {}
       THEN /\ intents' = intents \cup
                 {[request |-> r, requestedAt |-> call[c].now, digest |-> call[c].digest]}
            /\ releases' = [releases EXCEPT ![r.release] = StoredDigest(@, call[c].digest)]
            /\ \E answer \in {"created"} \cup IF MayFail THEN {"runtime"} ELSE {} :
                 Answer(c, answer)
       ELSE Answer(c, "unique_violation") /\ UNCHANGED <<intents, releases>>
    /\ UNCHANGED clock

\* A statement fails, the protection key changes between two protect calls or
\* the process dies: an open transaction rolls back.
Fail(c) ==
    /\ MayFail
    /\ call[c].stage \notin {"new", "answered"}
    /\ Answer(c, "runtime")
    /\ UNCHANGED <<clock, intents, releases>>

Tick ==
    /\ clock < Horizon
    /\ clock' = clock + 1
    /\ UNCHANGED <<intents, releases, call>>

Proceed(c) ==
    \/ FindReplay(c) \/ Render(c) \/ RenderFails(c) \/ LockKey(c) \/ Recheck(c)
    \/ InsertRelease(c) \/ Commit(c)

Next ==
    \/ Tick
    \/ \E c \in Calls : (\E r \in RequestsOf[c] : Begin(c, r)) \/ Proceed(c) \/ Fail(c)

Spec == Init /\ [][Next]_vars

\* The runtime keeps polling a call that has begun, the provider answers or
\* fails, and PostgreSQL grants a lock that is free to its waiters.
FairSpec == Spec /\ \A c \in Calls : WF_vars(Proceed(c))

-----------------------------------------------------------------------------
(* Properties *)

\* No two transactions ever insert an intent for the same slot: the advisory
\* lock and the second lookup make the unique constraint a second line only,
\* so that a concurrent exact replay is answered as a replay and never as a
\* storage failure (persist_intent).
NoUniqueViolation == \A c \in Calls : call[c].answer # "unique_violation"

\* All the snapshots of a template release were rendered from the release that
\* is registered, whoever registered it and in whatever order the
\* transactions committed (persist_intent, "template release is immutable").
OneDigestPerRelease == \A i \in intents : i.digest = releases[i.request.release]

\* Create calls implement the registry: see IntentRegistry.
Requested(answers) == {call[c].request : c \in {d \in Calls : call[d].answer \in answers}}

Registry == INSTANCE IntentRegistry WITH
    registered <- {i.request : i \in intents},
    confirmed <- Requested({"created", "replayed"}),
    refused <- Requested({"conflict"})

ImplementsRegistry == Registry!Spec

\* A call that has begun is answered: contenders for a slot, and for a
\* template release across slots, never wait for each other in a circle.
EveryCallAnswered == \A c \in Calls : call[c].stage # "new" ~> call[c].stage = "answered"

\* Exact replay returns the existing intent: a request that is stored is never
\* called invalid.
ReplayNeverInvalid ==
    [][\A c \in Calls :
         call'[c].answer = "invalid_intent" /\ call[c].answer # "invalid_intent" =>
            \A i \in intents : i.request # call'[c].request]_vars

=============================================================================
