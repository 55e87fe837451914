----------------------- MODULE LedgerStatementsProofs -----------------------
(***************************************************************************)
(* Theorems about the transactions of the ledger statement by statement,   *)
(* for any number of connections, deliveries, observations and retries.    *)
(* What a call saw before it waited stays true of what it has in hand, and *)
(* only of that: the rows it holds (LockShape), its event id, its retry    *)
(* key and the answer it records (WorkShape, Apart).  From this follow     *)
(* that an observation cancels what its select returned, that the ledger   *)
(* still implements DeliveryPromise, how retries are answered, and which   *)
(* calls can wait for each other in a circle; without one, some call in    *)
(* progress waits for nobody (SomeoneGoesOn).                              *)
(***************************************************************************)
EXTENDS LedgerStatements, FiniteSetTheorems, TLAPS

\* The rows of the table.
Stored == {d \in Deliveries : row[d].status # "absent"}

\* The delivery is in the sequence.
Among(d, s) == \E i \in 1..Len(s) : s[i] = d

\* An attempt is open only while it is the latest and its delivery does not wait.
RowShape(d) ==
    /\ row[d].status = "absent" => row[d].attempts = 0 /\ row[d].revision = 0
    /\ \A k \in Attempts :
         /\ attempt[d][k] = "none" <=> row[d].attempts < k
         /\ attempt[d][k] \in {"claimed", "sent"} =>
              k = row[d].attempts /\ row[d].status \notin Waiting

\* A call that has claimed its event id, and one that holds its key.
Observing == {"select", "locking", "updating"}
Deciding == {"lookup", "retry_row"}

\* What the rows of an observation are while it holds them.
LockShape(c) ==
    LET v == call[c] IN
    /\ v.stage \notin {"locking", "updating"} =>
         v.held = {} /\ v.todo = <<>> /\ v.matched = {} /\ v.changed = {}
    /\ v.stage = "locking" =>
         /\ v.changed = {}
         /\ \A i, j \in 1..Len(v.todo) : i < j => v.todo[i] < v.todo[j]
         /\ \A h \in v.held, i \in 1..Len(v.todo) : h < v.todo[i]
    /\ v.stage \in {"locking", "updating"} =>
         v.matched \subseteq v.held /\ \A d \in v.matched : Cancellable(d, v.request)
    /\ v.stage = "updating" =>
         /\ \A d \in v.matched : Updatable(d, v.request) /\ (d \in v.changed \/ Among(d, v.todo))
         /\ v.changed \subseteq v.held /\ \A d \in v.changed : Updatable(d, v.request)

\* How far a call has got, and what that says of the tables.
WorkShape(c) ==
    LET v == call[c] IN
    /\ v.stage = "idle" => v = Idle
    /\ v.stage \in Observing => \A e \in consumed : e.id # v.request.id
    /\ v.key = IF v.stage \in Deciding THEN KeyOf(v.request) ELSE NoKey
    /\ v.stage = "retry_row" => Decided(v.request) = {}
    /\ v.stage = "receipt_row" =>
         attempt[v.request.delivery][v.request.attempt] \in {"sent", "reported"}
    /\ v.stage = "record_row" =>
         /\ attempt[v.request.delivery][v.request.attempt] = "reported"
         /\ v.request.attempt = row[v.request.delivery].attempts
         /\ row[v.request.delivery].status \notin Waiting

\* No two calls have the same row, event id, key or answer in hand.
Apart(c, x) ==
    LET v == call[c]
        w == call[x]
    IN
    /\ v.held \cap w.held = {}
    /\ v.stage \in Observing /\ w.stage \in Observing => v.request.id # w.request.id
    /\ v.stage \in Deciding /\ w.stage \in Deciding => v.key # w.key
    /\ v.stage = "record_row" /\ w.stage = "record_row" =>
         v.request.delivery # w.request.delivery

StatementInvariant ==
    /\ TypeOK
    /\ IsFiniteSet(Stored)
    /\ \A d \in Deliveries : RowShape(d)
    /\ \A c \in Connections : LockShape(c) /\ WorkShape(c)
    /\ \A c, x \in Connections : c # x => Apart(c, x)

-----------------------------------------------------------------------------
(* Lists of rows *)

\* A list of the elements of a finite set has each of them, and nothing else.
LEMMA ListHasAll ==
    ASSUME NEW S \in SUBSET Deliveries, IsFiniteSet(S), NEW s \in SetToSeqs(S)
    PROVE  s \in Seq(Deliveries) /\ \A d \in Deliveries : d \in S <=> Among(d, s)
<1> DEFINE n == Cardinality(S)
<1>1. n \in Nat
  BY FS_CardinalityType
<1>2. s \in [1..n -> S] /\ \A i, j \in 1..n : i # j => s[i] # s[j]
  BY DEF SetToSeqs
<1>3. IsFiniteSet(1..n) /\ Cardinality(1..n) = n
  BY <1>1, FS_Interval
<1> HIDE DEF n
<1>4. s \in Injection(1..n, S)
  BY <1>2 DEF Injection, IsInjective
<1>5. s \in Surjection(1..n, S)
  BY <1>3, <1>4, FS_Injection DEF n
<1>6. \A d \in S : \E i \in 1..n : s[i] = d
  BY <1>5 DEF Surjection
<1>7. s \in Seq(Deliveries) /\ Len(s) = n
  BY <1>1, <1>2
<1> QED
  BY <1>2, <1>6, <1>7 DEF Among

\* What is not the head of a list is in its tail.
LEMMA HeadAndTail ==
    ASSUME NEW s \in Seq(Deliveries), s # <<>>
    PROVE  /\ Head(s) \in Deliveries /\ Tail(s) \in Seq(Deliveries)
           /\ Len(s) \in Nat \ {0} /\ Len(Tail(s)) = Len(s) - 1 /\ Head(s) = s[1]
           /\ \A i \in 1..Len(Tail(s)) : Tail(s)[i] = s[i + 1] /\ i + 1 \in 1..Len(s)
           /\ \A d : Among(d, s) => d = Head(s) \/ Among(d, Tail(s))
<1>1. /\ Head(s) \in Deliveries /\ Tail(s) \in Seq(Deliveries)
      /\ Len(s) \in Nat \ {0} /\ Len(Tail(s)) = Len(s) - 1 /\ Head(s) = s[1]
      /\ \A i \in 1..Len(Tail(s)) : Tail(s)[i] = s[i + 1] /\ i + 1 \in 1..Len(s)
  OBVIOUS
<1>2. ASSUME NEW d, NEW i \in 1..Len(s), s[i] = d, d # Head(s)
      PROVE  Among(d, Tail(s))
  <2>1. i - 1 \in 1..Len(Tail(s)) /\ (i - 1) + 1 = i
    BY <1>1, <1>2
  <2>2. Tail(s)[i - 1] = d
    BY <1>1, <1>2, <2>1
  <2> QED
    BY <2>1, <2>2 DEF Among
<1> QED
  BY <1>1, <1>2 DEF Among

-----------------------------------------------------------------------------
(* One call moves, the tables stay *)

LEMMA StatementTypes ==
    ASSUME TypeOK
    PROVE  /\ \A d \in Deliveries :
                /\ row[d].status \in Statuses /\ row[d].revision \in Nat
                /\ row[d].revision <= MaxRevision
                /\ row[d].attempts \in Nat /\ row[d].attempts <= MaxAttempts
                /\ \A k \in Attempts : attempt[d][k] \in {"none", "claimed", "sent", "reported"}
           /\ \A c \in Connections :
                /\ call[c] \in CallStates /\ call[c].request \in RequestsOf(call[c].stage)
                /\ call[c].held \in SUBSET Deliveries /\ call[c].todo \in Seq(Deliveries)
                /\ call[c].matched \in SUBSET Deliveries /\ call[c].changed \in SUBSET Deliveries
<1>1. \A d \in Deliveries :
        row[d] \in [status : Statuses, revision : 0..MaxRevision, attempts : 0..MaxAttempts]
  BY DEF TypeOK
<1>2. \A d \in Deliveries, k \in Attempts :
        attempt[d][k] \in {"none", "claimed", "sent", "reported"}
  BY DEF TypeOK
<1>3. \A c \in Connections : call[c] \in CallStates /\ call[c].request \in RequestsOf(call[c].stage)
  BY DEF TypeOK
<1> QED
  BY <1>1, <1>2, <1>3, StatementAssumption DEF CallStates

LEMMA IdleType == Idle \in CallStates /\ Idle.request \in RequestsOf(Idle.stage)
<1>1. RequestsOf("idle") = {NoRequest} /\ "idle" \in Stages
  BY DEF RequestsOf, Stages
<1>2. NoRequest \in UNION {RequestsOf(stage) : stage \in Stages}
  BY <1>1
<1> QED
  BY <1>1, <1>2 DEF Idle, CallStates

\* What each stage works on.
LEMMA RequestKinds ==
    /\ \A stage \in {"event", "select", "locking", "updating"} : RequestsOf(stage) = Observations
    /\ \A stage \in {"key", "lookup", "retry_row"} : RequestsOf(stage) = RetryRequests
    /\ RequestsOf("receipt_row") = ReceiptRequests /\ RequestsOf("record_row") = RecordRequests
    /\ \A stage \in Stages : RequestsOf(stage) \subseteq UNION {RequestsOf(s) : s \in Stages}
BY DEF RequestsOf, Stages

LEMMA RetryKey ==
    ASSUME NEW r \in RetryRequests
    PROVE  /\ r.delivery \in Deliveries /\ r.revision \in 0..MaxRevision - 1
           /\ KeyOf(r) \in {KeyOf(t) : t \in Retries} /\ KeyOf(r) # NoKey
<1>1. \E t \in Retries, n \in 0..MaxRevision - 1 :
        r = [delivery |-> t.delivery, key |-> t.key, revision |-> n]
  BY DEF RetryRequests
<1> QED
  BY <1>1, StatementAssumption DEF KeyOf

LEMMA Reported ==
    ASSUME TypeOK, NEW x \in Connections, call[x].stage \in {"receipt_row", "record_row"}
    PROVE  /\ call[x].request \in ReceiptRequests \cup RecordRequests
           /\ call[x].stage = "receipt_row" => call[x].request \in ReceiptRequests
           /\ call[x].stage = "record_row" => call[x].request \in RecordRequests
           /\ call[x].request.delivery \in Deliveries /\ call[x].request.attempt \in Attempts
<1>1. call[x].request \in RequestsOf(call[x].stage)
  BY StatementTypes
<1>2. /\ call[x].stage = "receipt_row" => call[x].request \in ReceiptRequests
      /\ call[x].stage = "record_row" => call[x].request \in RecordRequests
  BY <1>1, RequestKinds
<1>3. \A r \in ReceiptRequests \cup RecordRequests :
        r.delivery \in Deliveries /\ r.attempt \in Attempts
  BY DEF ReceiptRequests, RecordRequests
<1> QED
  BY <1>2, <1>3

LEMMA StateStep ==
    ASSUME TypeOK, NEW c \in Connections, NEW state, Continue(c, state)
    PROVE  call'[c] = state /\ \A x \in Connections \ {c} : call'[x] = call[x]
BY DEF Continue, TypeOK

LEMMA EndStep ==
    ASSUME TypeOK, NEW c \in Connections, NEW answer,
           End(c, answer) \/ Committed(c, answer)
    PROVE  /\ call'[c] = Idle /\ \A x \in Connections \ {c} : call'[x] = call[x]
           /\ call' = [call EXCEPT ![c] = Idle]
BY DEF End, Committed, TypeOK

LEMMA CallType ==
    ASSUME TypeOK, NEW c \in Connections, NEW state \in CallStates,
           state.request \in RequestsOf(state.stage), call' = [call EXCEPT ![c] = state]
    PROVE  /\ call' \in [Connections -> CallStates]
           /\ \A x \in Connections : call'[x].request \in RequestsOf(call'[x].stage)
BY DEF TypeOK

LEMMA IdleShape ==
    ASSUME NEW c \in Connections, call'[c] = Idle
    PROVE  LockShape(c)' /\ WorkShape(c)' /\ \A x \in Connections : Apart(c, x)' /\ Apart(x, c)'
BY DEF Idle, LockShape, WorkShape, Apart, Observing, Deciding

\* The rows a call holds, and the records it relies on, are not touched.
LEMMA ShapeKept ==
    ASSUME TypeOK, NEW x \in Connections, call'[x] = call[x], LockShape(x), WorkShape(x),
           \A d \in call[x].matched \cup call[x].changed : row'[d] = row[d],
           call[x].stage \in Observing =>
             \A e \in consumed' : e \in consumed \/ e.id # call[x].request.id,
           call[x].stage = "retry_row" =>
             \A r \in decisions' : r \in decisions \/ KeyOf(r) # KeyOf(call[x].request),
           call[x].stage = "receipt_row" =>
             attempt'[call[x].request.delivery][call[x].request.attempt] \in {"sent", "reported"},
           call[x].stage = "record_row" =>
             /\ attempt'[call[x].request.delivery][call[x].request.attempt] = "reported"
             /\ row'[call[x].request.delivery].attempts = row[call[x].request.delivery].attempts
             /\ row'[call[x].request.delivery].status \notin Waiting
    PROVE  LockShape(x)' /\ WorkShape(x)'
<1> DEFINE v == call[x]
<1>1. LockShape(x)'
  BY DEF LockShape, Cancellable, Updatable, Among
<1>2. v.stage = "retry_row" => Decided(v.request)' = {}
  BY DEF WorkShape, Decided, KeyOf
<1>3. WorkShape(x)'
  BY <1>2 DEF WorkShape, Observing, Deciding, KeyOf, Idle, Decided
<1> QED
  BY <1>1, <1>3

\* A step of one call that changes no table.
LEMMA OnlyCall ==
    ASSUME StatementInvariant, NEW c \in Connections, UNCHANGED <<row, attempt, tables>>,
           call' \in [Connections -> CallStates],
           call'[c].request \in RequestsOf(call'[c].stage),
           \A x \in Connections \ {c} : call'[x] = call[x],
           LockShape(c)', WorkShape(c)', \A x \in Connections \ {c} : Apart(c, x)'
    PROVE  StatementInvariant'
<1>1. TypeOK /\ UNCHANGED <<row, attempt, consumed, decisions, receipts>>
  BY DEF StatementInvariant, tables
<1>2. ASSUME NEW x \in Connections \ {c} PROVE LockShape(x)' /\ WorkShape(x)'
  BY <1>1, <1>2, ShapeKept DEF StatementInvariant, WorkShape
<1>3. ASSUME NEW y \in Connections, NEW x \in Connections, y # x
      PROVE  Apart(y, x)'
  <2>1. CASE y # c /\ x # c
    BY <1>3, <2>1 DEF StatementInvariant, Apart
  <2>2. CASE y = c
    BY <1>3, <2>2
  <2>3. CASE x = c
    <3>1. Apart(x, y)'
      BY <1>3, <2>3
    <3> QED
      BY <3>1 DEF Apart
  <2> QED
    BY <1>3, <2>1, <2>2, <2>3
<1>4. TypeOK'
  BY <1>1 DEF TypeOK
<1>5. IsFiniteSet(Stored') /\ \A d \in Deliveries : RowShape(d)'
  BY <1>1 DEF StatementInvariant, Stored, RowShape
<1> QED
  BY <1>2, <1>3, <1>4, <1>5 DEF StatementInvariant

LEMMA Ended ==
    ASSUME StatementInvariant, NEW c \in Connections, NEW answer, End(c, answer),
           UNCHANGED <<row, attempt, tables>>
    PROVE  StatementInvariant'
<1>1. TypeOK
  BY DEF StatementInvariant
<1>2. call'[c] = Idle /\ \A x \in Connections \ {c} : call'[x] = call[x]
  BY <1>1, EndStep
<1>3. /\ call' \in [Connections -> CallStates]
      /\ call'[c].request \in RequestsOf(call'[c].stage)
  BY <1>1, EndStep, IdleType, CallType
<1> QED
  BY <1>2, <1>3, IdleShape, OnlyCall

-----------------------------------------------------------------------------
(* The steps of a call that change no table *)

\* The connection takes up a call, and holds nothing yet.
LEMMA StartHolds ==
    ASSUME StatementInvariant, NEW c \in Connections, NEW stage \in {"event", "key", "receipt_row"},
           NEW request \in RequestsOf(stage), Start(c, stage, request),
           UNCHANGED <<row, attempt, tables>>,
           stage = "receipt_row" =>
             attempt[request.delivery][request.attempt] \in {"sent", "reported"}
    PROVE  StatementInvariant'
<1>1. TypeOK /\ call[c] = Idle
  BY DEF Start, StatementInvariant, WorkShape
<1> DEFINE state == [Idle EXCEPT !.stage = stage, !.request = request]
<1>2. state \in CallStates /\ state.stage = stage /\ state.request = request
  BY IdleType, RequestKinds DEF Idle, CallStates, Stages
<1>3. /\ state.held = {} /\ state.todo = <<>> /\ state.matched = {} /\ state.changed = {}
      /\ state.key = NoKey
  BY DEF Idle
<1>4. Continue(c, state)
  BY <1>1 DEF Start
<1> HIDE DEF state
<1>5. call'[c] = state /\ \A x \in Connections \ {c} : call'[x] = call[x]
  BY <1>1, <1>4, StateStep
<1>6. call' \in [Connections -> CallStates] /\ call'[c].request \in RequestsOf(call'[c].stage)
  BY <1>1, <1>2, <1>4, CallType DEF Continue
<1>7. LockShape(c)'
  BY <1>2, <1>3, <1>5 DEF LockShape
<1>8. WorkShape(c)'
  BY <1>2, <1>3, <1>5 DEF WorkShape, Observing, Deciding
<1>9. \A x \in Connections \ {c} : Apart(c, x)'
  BY <1>2, <1>3, <1>5 DEF Apart, Observing, Deciding
<1> QED
  BY <1>5, <1>6, <1>7, <1>8, <1>9, OnlyCall

\* The call goes on to a later stage with the same request.
LEMMA GoesOn ==
    ASSUME StatementInvariant, NEW c \in Connections, NEW state \in CallStates,
           state.request = call[c].request,
           RequestsOf(state.stage) = RequestsOf(call[c].stage), Continue(c, state),
           UNCHANGED <<row, attempt, tables>>,
           LockShape(c)', WorkShape(c)', \A x \in Connections \ {c} : Apart(c, x)'
    PROVE  StatementInvariant'
<1>1. TypeOK
  BY DEF StatementInvariant
<1>2. call'[c] = state /\ \A x \in Connections \ {c} : call'[x] = call[x]
  BY <1>1, StateStep
<1>3. state.request \in RequestsOf(state.stage)
  BY <1>1, StatementTypes
<1>4. call' \in [Connections -> CallStates] /\ call'[c].request \in RequestsOf(call'[c].stage)
  BY <1>1, <1>2, <1>3, CallType DEF Continue
<1> QED
  BY <1>2, <1>4, OnlyCall

LEMMA BeginObservationHolds ==
    ASSUME StatementInvariant, NEW c \in Connections, NEW o \in Observations, BeginObservation(c, o)
    PROVE  StatementInvariant'
<1>1. o \in RequestsOf("event")
  BY RequestKinds
<1> QED
  BY <1>1, StartHolds DEF BeginObservation

LEMMA BeginRetryHolds ==
    ASSUME StatementInvariant, NEW c \in Connections, NEW t \in Retries, BeginRetry(c, t)
    PROVE  StatementInvariant'
<1> PICK revision \in {row[t.delivery].revision} \cup {x.revision : x \in Decided(t)} :
       IF revision = MaxRevision
       THEN Running(c, {"idle"}) /\ End(c, "retry_not_allowed")
       ELSE Start(c, "key", [delivery |-> t.delivery, key |-> t.key, revision |-> revision])
  BY DEF BeginRetry
<1>1. CASE revision = MaxRevision
  BY <1>1, Ended DEF BeginRetry
<1>2. CASE revision # MaxRevision
  <2> DEFINE request == [delivery |-> t.delivery, key |-> t.key, revision |-> revision]
  <2>1. t.delivery \in Deliveries /\ MaxRevision \in Nat
    BY StatementAssumption
  <2>2. \A x \in Decided(t) : x.revision \in 0..MaxRevision - 1
    BY RetryKey DEF StatementInvariant, TypeOK, Decided
  <2>3. row[t.delivery].revision \in Nat /\ row[t.delivery].revision <= MaxRevision
    BY <2>1, StatementTypes DEF StatementInvariant
  <2>4. revision \in 0..MaxRevision - 1
    BY <1>2, <2>1, <2>2, <2>3
  <2>5. request \in RetryRequests
    BY <2>1, <2>4 DEF RetryRequests
  <2> HIDE DEF request
  <2>6. request \in RequestsOf("key")
    BY <2>5, RequestKinds
  <2>7. Start(c, "key", request) /\ UNCHANGED <<row, attempt, tables>>
    BY <1>2 DEF request, BeginRetry
  <2> QED
    BY <2>6, <2>7, StartHolds
<1> QED
  BY <1>1, <1>2

LEMMA BeginReceiptHolds ==
    ASSUME StatementInvariant, NEW c \in Connections, NEW d \in Deliveries, NEW k \in Attempts,
           NEW form \in ReceiptForms, BeginReceipt(c, d, k, form)
    PROVE  StatementInvariant'
<1>1. CASE Recorded(form) # {}
  BY <1>1, Ended DEF BeginReceipt
<1>2. CASE Recorded(form) = {}
  <2> DEFINE request == [delivery |-> d, attempt |-> k, form |-> form]
  <2>1. request \in RequestsOf("receipt_row") /\ request.delivery = d /\ request.attempt = k
    BY RequestKinds DEF ReceiptRequests
  <2>2. /\ Start(c, "receipt_row", request) /\ UNCHANGED <<row, attempt, tables>>
        /\ attempt[d][k] \in {"sent", "reported"}
    BY <1>2 DEF BeginReceipt
  <2> HIDE DEF request
  <2> QED
    BY <2>1, <2>2, StartHolds
<1> QED
  BY <1>1, <1>2

LEMMA ClaimEventHolds ==
    ASSUME StatementInvariant, NEW c \in Connections, ClaimEvent(c)
    PROVE  StatementInvariant'
<1> DEFINE o == call[c].request
           state == [call[c] EXCEPT !.stage = "select"]
<1>1. TypeOK /\ call[c].stage = "event" /\ call[c] \in CallStates
  BY StatementTypes DEF ClaimEvent, Running, StatementInvariant
<1>2. UNCHANGED <<row, attempt, tables, consumed>>
  BY DEF ClaimEvent, tables
<1>3. CASE \E e \in consumed : e.id = o.id
  BY <1>3, Ended DEF ClaimEvent
<1>4. CASE ~(\E e \in consumed : e.id = o.id)
  <2>1. Continue(c, state)
    BY <1>4 DEF ClaimEvent
  <2>2. /\ state \in CallStates /\ state.stage = "select" /\ state.request = o
        /\ state.held = call[c].held /\ state.todo = call[c].todo /\ state.key = call[c].key
        /\ state.matched = call[c].matched /\ state.changed = call[c].changed
    BY <1>1 DEF CallStates, Stages
  <2> HIDE DEF state
  <2>3. call'[c] = state /\ \A x \in Connections \ {c} : call'[x] = call[x]
    BY <1>1, <2>1, StateStep
  <2>4. LockShape(c)'
    BY <1>1, <2>2, <2>3 DEF StatementInvariant, LockShape
  <2>5. WorkShape(c)'
    BY <1>1, <1>2, <1>4, <2>2, <2>3 DEF StatementInvariant, WorkShape, Observing, Deciding
  <2>6. ASSUME NEW x \in Connections \ {c} PROVE Apart(c, x)'
    <3>1. call[x].stage \in Observing => call[x].request.id # o.id
      BY <1>1 DEF ClaimEvent, Blocks, ClaimedBy, Running, Observing
    <3> QED
      BY <1>1, <2>2, <2>3, <3>1 DEF StatementInvariant, Apart, Deciding
  <2> QED
    BY <1>1, <1>2, <2>1, <2>2, <2>4, <2>5, <2>6, GoesOn, RequestKinds
<1> QED
  BY <1>3, <1>4

LEMMA SelectHolds ==
    ASSUME StatementInvariant, NEW c \in Connections, SelectWaiting(c)
    PROVE  StatementInvariant'
<1> DEFINE o == call[c].request
           S == {d \in Deliveries : Cancellable(d, o)}
<1> PICK s \in SelectOrder(S) : Continue(c, [call[c] EXCEPT !.stage = "locking", !.todo = s])
  BY DEF SelectWaiting
<1> DEFINE state == [call[c] EXCEPT !.stage = "locking", !.todo = s]
<1>1. /\ TypeOK /\ call[c].stage = "select" /\ call[c] \in CallStates
      /\ UNCHANGED <<row, attempt, tables, consumed>>
  BY StatementTypes DEF SelectWaiting, Running, StatementInvariant, tables
<1>2. S \in SUBSET Stored
  BY DEF Cancellable, Waiting, Stored
<1>3. S \in SUBSET Deliveries /\ IsFiniteSet(S)
  BY <1>2, FS_Subset DEF StatementInvariant
<1> HIDE DEF S
<1>4. s \in SetToSeqs(S) /\ \A i, j \in DOMAIN s : i < j => s[i] < s[j]
  BY DEF SelectOrder
<1>5. s \in Seq(Deliveries)
  BY <1>3, <1>4, ListHasAll
<1>6. \A i, j \in 1..Len(s) : i < j => s[i] < s[j]
  BY <1>4, <1>5
<1>7. /\ state \in CallStates /\ state.stage = "locking" /\ state.request = o
      /\ state.held = call[c].held /\ state.todo = s /\ state.key = call[c].key
      /\ state.matched = call[c].matched /\ state.changed = call[c].changed
  BY <1>1, <1>5 DEF CallStates, Stages
<1> HIDE DEF state
<1>8. Continue(c, state)
  BY DEF state
<1>9. call'[c] = state /\ \A x \in Connections \ {c} : call'[x] = call[x]
  BY <1>1, <1>8, StateStep
<1>10. state.held = {} /\ state.matched = {} /\ state.changed = {}
  BY <1>1, <1>7 DEF StatementInvariant, LockShape
<1>11. LockShape(c)'
  BY <1>6, <1>7, <1>9, <1>10 DEF LockShape
<1>12. WorkShape(c)'
  BY <1>1, <1>7, <1>9 DEF StatementInvariant, WorkShape, Observing, Deciding
<1>13. \A x \in Connections \ {c} : Apart(c, x)'
  BY <1>1, <1>7, <1>9 DEF StatementInvariant, Apart, Observing, Deciding
<1> QED
  BY <1>1, <1>7, <1>8, <1>11, <1>12, <1>13, GoesOn, RequestKinds

\* A row is locked: it is above those locked before it, and not among what
\* others hold.
LEMMA LockNextHolds ==
    ASSUME StatementInvariant, NEW c \in Connections, LockNext(c)
    PROVE  StatementInvariant'
<1> DEFINE v == call[c]
           d == Head(v.todo)
           state == [v EXCEPT !.todo = Tail(@), !.held = @ \cup {d},
                       !.matched = IF Cancellable(d, v.request) THEN @ \cup {d} ELSE @]
<1>1. /\ TypeOK /\ v.stage = "locking" /\ v \in CallStates /\ v.todo # <<>>
      /\ v.todo \in Seq(Deliveries) /\ v.held \in SUBSET Deliveries
      /\ v.matched \in SUBSET Deliveries
      /\ UNCHANGED <<row, attempt, tables, consumed>> /\ Free(c, d) /\ Continue(c, state)
  BY StatementTypes DEF LockNext, Running, StatementInvariant, tables
<1>2. /\ d \in Deliveries /\ Tail(v.todo) \in Seq(Deliveries)
      /\ Len(v.todo) \in Nat \ {0} /\ Len(Tail(v.todo)) = Len(v.todo) - 1 /\ d = v.todo[1]
      /\ \A i \in 1..Len(Tail(v.todo)) :
           Tail(v.todo)[i] = v.todo[i + 1] /\ i + 1 \in 1..Len(v.todo)
  BY <1>1, HeadAndTail
<1>3. /\ state \in CallStates /\ state.stage = "locking" /\ state.request = v.request
      /\ state.held = v.held \cup {d} /\ state.todo = Tail(v.todo) /\ state.key = v.key
      /\ state.matched = (IF Cancellable(d, v.request) THEN v.matched \cup {d} ELSE v.matched)
      /\ state.changed = v.changed
  <2> HIDE DEF d
  <2> QED
    BY <1>1, <1>2 DEF CallStates
<1> HIDE DEF state
<1>4. call'[c] = state /\ \A x \in Connections \ {c} : call'[x] = call[x]
  BY <1>1, StateStep
<1>5. /\ v.changed = {} /\ v.matched \subseteq v.held
      /\ \A i, j \in 1..Len(v.todo) : i < j => v.todo[i] < v.todo[j]
      /\ \A h \in v.held, i \in 1..Len(v.todo) : h < v.todo[i]
      /\ \A m \in v.matched : Cancellable(m, v.request)
  BY <1>1 DEF StatementInvariant, LockShape
<1>6. \A i, j \in 1..Len(Tail(v.todo)) : i < j => Tail(v.todo)[i] < Tail(v.todo)[j]
  BY <1>2, <1>5
<1>7. \A h \in v.held \cup {d}, i \in 1..Len(Tail(v.todo)) : h < Tail(v.todo)[i]
  <2>1. \A i \in 1..Len(Tail(v.todo)) : 1 \in 1..Len(v.todo) /\ 1 < i + 1
    BY <1>2
  <2> QED
    BY <1>2, <1>5, <2>1
<1> HIDE DEF d
<1>8. /\ state.matched \subseteq state.held
      /\ \A m \in state.matched : Cancellable(m, v.request)
  BY <1>3, <1>5
<1> HIDE DEF v
<1>9. LockShape(c)'
  <2>1. \A m \in state.matched : Cancellable(m, call[c].request)'
    BY <1>1, <1>3, <1>4, <1>8 DEF Cancellable
  <2> QED
    BY <1>3, <1>4, <1>5, <1>6, <1>7, <1>8, <2>1 DEF LockShape, Cancellable
<1>10. WorkShape(c)'
  BY <1>1, <1>3, <1>4 DEF StatementInvariant, WorkShape, Observing, Deciding, v
<1>11. ASSUME NEW x \in Connections \ {c} PROVE Apart(c, x)'
  <2>1. d \notin call[x].held
    BY <1>1 DEF Free, LockedBy
  <2> QED
    BY <1>1, <1>3, <1>4, <2>1 DEF StatementInvariant, Apart, Observing, Deciding, v
<1> QED
  BY <1>1, <1>3, <1>9, <1>10, <1>11, GoesOn DEF v

\* The update begins: what the select returned is among its rows.
LEMMA CheckHolds ==
    ASSUME StatementInvariant, NEW c \in Connections, CheckRevisions(c)
    PROVE  StatementInvariant'
<1> DEFINE v == call[c]
           S == {d \in Deliveries : Updatable(d, v.request)}
<1>1. /\ TypeOK /\ v.stage = "locking" /\ v \in CallStates /\ v.todo = <<>>
      /\ v.matched \in SUBSET Deliveries
      /\ UNCHANGED <<row, attempt, tables, consumed>>
  BY StatementTypes DEF CheckRevisions, Running, StatementInvariant, tables
<1>2. CASE \E d \in v.matched : row[d].revision >= MaxRevision
  BY <1>2, Ended DEF CheckRevisions
<1>3. CASE ~(\E d \in v.matched : row[d].revision >= MaxRevision)
  <2> PICK s \in SetToSeqs(S) : Continue(c, [v EXCEPT !.stage = "updating", !.todo = s])
    BY <1>3 DEF CheckRevisions
  <2> DEFINE state == [v EXCEPT !.stage = "updating", !.todo = s]
  <2>1. S \in SUBSET Stored
    BY DEF Updatable, Cancellable, Waiting, Stored
  <2>2. S \in SUBSET Deliveries /\ IsFiniteSet(S)
    BY <2>1, FS_Subset DEF StatementInvariant
  <2>3. \A d \in v.matched : d \in Deliveries /\ Cancellable(d, v.request)
    BY <1>1 DEF StatementInvariant, LockShape
  <2>4. \A d \in v.matched : Updatable(d, v.request)
    <3>1. \A d \in v.matched : row[d].revision \in Nat
      BY <1>1, StatementTypes
    <3> QED
      BY <1>3, <2>3, <3>1, StatementAssumption DEF Updatable
  <2>5. v.matched \subseteq S
    BY <2>3, <2>4
  <2> HIDE DEF S
  <2>6. s \in Seq(Deliveries) /\ \A d \in v.matched : Among(d, s)
    BY <2>2, <2>3, <2>5, ListHasAll
  <2>7. /\ state \in CallStates /\ state.stage = "updating" /\ state.request = v.request
        /\ state.held = v.held /\ state.todo = s /\ state.key = v.key
        /\ state.matched = v.matched /\ state.changed = v.changed
    BY <1>1, <2>6 DEF CallStates, Stages
  <2>8. Continue(c, state)
    OBVIOUS
  <2> HIDE DEF state
  <2>9. call'[c] = state /\ \A x \in Connections \ {c} : call'[x] = call[x]
    BY <1>1, <2>8, StateStep
  <2>10. v.changed = {} /\ v.matched \subseteq v.held
    BY <1>1 DEF StatementInvariant, LockShape
  <2> HIDE DEF v
  <2>11. LockShape(c)'
    BY <1>1, <2>3, <2>4, <2>6, <2>7, <2>9, <2>10 DEF LockShape, Cancellable, Updatable, Among
  <2>12. WorkShape(c)'
    BY <1>1, <2>7, <2>9 DEF StatementInvariant, WorkShape, Observing, Deciding, v
  <2>13. \A x \in Connections \ {c} : Apart(c, x)'
    BY <1>1, <2>7, <2>9 DEF StatementInvariant, Apart, Observing, Deciding, v
  <2> QED
    BY <1>1, <2>7, <2>8, <2>11, <2>12, <2>13, GoesOn, RequestKinds DEF v
<1> QED
  BY <1>2, <1>3

\* The update visits a row: one that its select returned still matches.
LEMMA UpdateNextHolds ==
    ASSUME StatementInvariant, NEW c \in Connections, UpdateNext(c)
    PROVE  StatementInvariant'
<1> DEFINE v == call[c]
           d == Head(v.todo)
           state == [v EXCEPT !.todo = Tail(@), !.held = @ \cup {d},
                       !.changed = IF StillUpdatable(d, v.request) THEN @ \cup {d} ELSE @]
<1>1. /\ TypeOK /\ v.stage = "updating" /\ v \in CallStates /\ v.todo # <<>>
      /\ v.todo \in Seq(Deliveries) /\ v.held \in SUBSET Deliveries
      /\ v.changed \in SUBSET Deliveries
      /\ UNCHANGED <<row, attempt, tables, consumed>> /\ Free(c, d) /\ Continue(c, state)
  BY StatementTypes DEF UpdateNext, Running, StatementInvariant, tables
<1>2. /\ d \in Deliveries /\ Tail(v.todo) \in Seq(Deliveries)
      /\ \A e : Among(e, v.todo) => e = d \/ Among(e, Tail(v.todo))
  BY <1>1, HeadAndTail
<1> HIDE DEF d
<1>3. /\ state \in CallStates /\ state.stage = "updating" /\ state.request = v.request
      /\ state.held = v.held \cup {d} /\ state.todo = Tail(v.todo) /\ state.key = v.key
      /\ state.matched = v.matched
      /\ state.changed = (IF Updatable(d, v.request) THEN v.changed \cup {d} ELSE v.changed)
  BY <1>1, <1>2 DEF CallStates, StillUpdatable
<1> HIDE DEF state
<1>4. call'[c] = state /\ \A x \in Connections \ {c} : call'[x] = call[x]
  BY <1>1, StateStep
<1>5. /\ v.matched \subseteq v.held /\ v.changed \subseteq v.held
      /\ \A m \in v.matched : Cancellable(m, v.request) /\ Updatable(m, v.request)
      /\ \A m \in v.matched : m \in v.changed \/ Among(m, v.todo)
      /\ \A m \in v.changed : Updatable(m, v.request)
  BY <1>1 DEF StatementInvariant, LockShape
<1> HIDE DEF v
<1>6. \A m \in state.matched : m \in state.changed \/ Among(m, state.todo)
  BY <1>2, <1>3, <1>5
<1>7. state.changed \subseteq state.held /\ \A m \in state.changed : Updatable(m, v.request)
  BY <1>3, <1>5
<1>8. LockShape(c)'
  <2>1. /\ \A m \in state.matched :
             Cancellable(m, call[c].request)' /\ Updatable(m, call[c].request)'
        /\ \A m \in state.changed : Updatable(m, call[c].request)'
    BY <1>1, <1>3, <1>4, <1>5, <1>7 DEF Cancellable, Updatable
  <2> QED
    BY <1>3, <1>4, <1>5, <1>6, <1>7, <2>1 DEF LockShape, Cancellable, Updatable, Among
<1>9. WorkShape(c)'
  BY <1>1, <1>3, <1>4 DEF StatementInvariant, WorkShape, Observing, Deciding, v
<1>10. ASSUME NEW x \in Connections \ {c} PROVE Apart(c, x)'
  <2>1. d \notin call[x].held
    BY <1>1 DEF Free, LockedBy
  <2> QED
    BY <1>1, <1>3, <1>4, <2>1 DEF StatementInvariant, Apart, Observing, Deciding, v
<1> QED
  BY <1>1, <1>3, <1>8, <1>9, <1>10, GoesOn DEF v

LEMMA LockKeyHolds ==
    ASSUME StatementInvariant, NEW c \in Connections, LockKey(c)
    PROVE  StatementInvariant'
<1> DEFINE v == call[c]
           key == KeyOf(v.request)
           state == [v EXCEPT !.stage = "lookup", !.key = key]
<1>1. /\ TypeOK /\ v.stage = "key" /\ v \in CallStates
      /\ UNCHANGED <<row, attempt, tables, consumed>> /\ Continue(c, state)
  BY StatementTypes DEF LockKey, Running, StatementInvariant, tables
<1>2. v.request \in RetryRequests
  BY <1>1, StatementTypes, RequestKinds
<1>3. key \in {KeyOf(t) : t \in Retries}
  BY <1>1, <1>2, RetryKey
<1> HIDE DEF key
<1>4. /\ state \in CallStates /\ state.stage = "lookup" /\ state.request = v.request
      /\ state.held = v.held /\ state.todo = v.todo /\ state.key = key
      /\ state.matched = v.matched /\ state.changed = v.changed
  BY <1>1, <1>3 DEF CallStates, Stages
<1> HIDE DEF state
<1>5. call'[c] = state /\ \A x \in Connections \ {c} : call'[x] = call[x]
  BY <1>1, StateStep
<1>6. LockShape(c)'
  BY <1>1, <1>4, <1>5 DEF StatementInvariant, LockShape
<1>7. WorkShape(c)'
  BY <1>1, <1>4, <1>5 DEF StatementInvariant, WorkShape, Observing, Deciding, key, KeyOf
<1>8. ASSUME NEW x \in Connections \ {c} PROVE Apart(c, x)'
  <2>1. call[x].key # key
    BY DEF LockKey, KeyFree, key
  <2> QED
    BY <1>1, <1>4, <1>5, <2>1 DEF StatementInvariant, Apart, Observing, Deciding
<1> QED
  BY <1>1, <1>4, <1>6, <1>7, <1>8, GoesOn, RequestKinds

LEMMA LookupHolds ==
    ASSUME StatementInvariant, NEW c \in Connections, LookupRetry(c)
    PROVE  StatementInvariant'
<1> DEFINE v == call[c]
           state == [v EXCEPT !.stage = "retry_row"]
<1>1. /\ TypeOK /\ v.stage = "lookup" /\ v \in CallStates
      /\ UNCHANGED <<row, attempt, tables, consumed, decisions>>
  BY StatementTypes DEF LookupRetry, Running, StatementInvariant, tables
<1>2. CASE Decided(v.request) # {}
  BY <1>2, Ended DEF LookupRetry
<1>3. CASE Decided(v.request) = {}
  <2>1. Continue(c, state)
    BY <1>3 DEF LookupRetry
  <2>2. /\ state \in CallStates /\ state.stage = "retry_row" /\ state.request = v.request
        /\ state.held = v.held /\ state.todo = v.todo /\ state.key = v.key
        /\ state.matched = v.matched /\ state.changed = v.changed
    BY <1>1 DEF CallStates, Stages
  <2> HIDE DEF state
  <2>3. call'[c] = state /\ \A x \in Connections \ {c} : call'[x] = call[x]
    BY <1>1, <2>1, StateStep
  <2>4. LockShape(c)'
    BY <1>1, <2>2, <2>3 DEF StatementInvariant, LockShape
  <2>5. WorkShape(c)'
    BY <1>1, <1>3, <2>2, <2>3
    DEF StatementInvariant, WorkShape, Observing, Deciding, KeyOf, Decided
  <2>6. \A x \in Connections \ {c} : Apart(c, x)'
    BY <1>1, <2>2, <2>3 DEF StatementInvariant, Apart, Observing, Deciding
  <2> QED
    BY <1>1, <2>1, <2>2, <2>4, <2>5, <2>6, GoesOn, RequestKinds
<1> QED
  BY <1>2, <1>3

-----------------------------------------------------------------------------
(* The steps that change a table *)

\* What an observation has in hand it holds, and waits.
LEMMA InHand ==
    ASSUME TypeOK, NEW x \in Connections, LockShape(x)
    PROVE  /\ call[x].matched \cup call[x].changed \subseteq call[x].held
           /\ \A d \in call[x].matched \cup call[x].changed :
                d \in Deliveries /\ row[d].status \in Waiting
<1>1. call[x].matched \in SUBSET Deliveries /\ call[x].changed \in SUBSET Deliveries
  BY StatementTypes
<1> QED
  BY <1>1 DEF LockShape, Cancellable, Updatable

\* A row changes.
LEMMA RowStep ==
    ASSUME TypeOK, IsFiniteSet(Stored), NEW d \in Deliveries, NEW status \in Statuses,
           NEW n \in 0..MaxAttempts, Incrementable(row[d]),
           row' = [row EXCEPT ![d] = [status |-> status, revision |-> row[d].revision + 1,
                                      attempts |-> n]]
    PROVE  /\ row' \in [Deliveries -> [status : Statuses, revision : 0..MaxRevision,
                                       attempts : 0..MaxAttempts]]
           /\ row'[d].status = status /\ row'[d].attempts = n
           /\ \A e \in Deliveries \ {d} : row'[e] = row[e]
           /\ IsFiniteSet(Stored')
<1>1. row[d].revision + 1 \in 0..MaxRevision
  BY StatementTypes, StatementAssumption DEF Incrementable
<1> DEFINE v == [status |-> status, revision |-> row[d].revision + 1, attempts |-> n]
<1>2. /\ v \in [status : Statuses, revision : 0..MaxRevision, attempts : 0..MaxAttempts]
      /\ v.status = status /\ v.attempts = n
  BY <1>1
<1> HIDE DEF v
<1>3. row' = [row EXCEPT ![d] = v]
  BY DEF v
<1>4. Stored' \in SUBSET (Stored \cup {d})
  BY <1>3 DEF Stored, TypeOK
<1>5. IsFiniteSet(Stored')
  BY <1>4, FS_AddElement, FS_Subset
<1> QED
  BY <1>2, <1>3, <1>5 DEF TypeOK

LEMMA UpdateStep ==
    ASSUME TypeOK, IsFiniteSet(Stored), NEW d \in Deliveries, NEW status \in Statuses,
           Incrementable(row[d]), Update(d, status)
    PROVE  /\ row' \in [Deliveries -> [status : Statuses, revision : 0..MaxRevision,
                                       attempts : 0..MaxAttempts]]
           /\ row'[d].status = status /\ row'[d].attempts = row[d].attempts
           /\ \A e \in Deliveries \ {d} : row'[e] = row[e]
           /\ IsFiniteSet(Stored')
<1>1. row[d] \in [status : Statuses, revision : 0..MaxRevision, attempts : 0..MaxAttempts]
  BY DEF TypeOK
<1>2. row[d].attempts \in 0..MaxAttempts
  BY <1>1
<1>3. row' = [row EXCEPT ![d] = [status |-> status, revision |-> row[d].revision + 1,
                                 attempts |-> row[d].attempts]]
  BY <1>1 DEF Update, TypeOK
<1> QED
  BY <1>2, <1>3, RowStep

\* What a row shows of its attempts, when their number stays.
LEMMA RowShapeKept ==
    ASSUME NEW d \in Deliveries, RowShape(d), row'[d].attempts = row[d].attempts,
           row'[d].status # "absent", attempt'[d] = attempt[d],
           row'[d].status \in Waiting =>
             \A k \in Attempts : attempt[d][k] \notin {"claimed", "sent"}
    PROVE  RowShape(d)'
BY DEF RowShape

LEMMA RowShapeAside ==
    ASSUME NEW d \in Deliveries, RowShape(d), row'[d] = row[d], attempt'[d] = attempt[d]
    PROVE  RowShape(d)'
BY DEF RowShape

\* A call that has nothing to do with a delivery that changes.
LEMMA CallAside ==
    ASSUME StatementInvariant, NEW d \in Deliveries, NEW x \in Connections,
           call'[x] = call[x], d \notin call[x].matched \cup call[x].changed,
           \A e \in Deliveries \ {d} : row'[e] = row[e] /\ attempt'[e] = attempt[e],
           consumed' = consumed,
           call[x].stage = "retry_row" =>
             \A r \in decisions' : r \in decisions \/ KeyOf(r) # KeyOf(call[x].request),
           \A k \in Attempts :
             /\ attempt[d][k] \in {"sent", "reported"} => attempt'[d][k] \in {"sent", "reported"}
             /\ attempt[d][k] = "reported" => attempt'[d][k] = "reported",
           call[x].stage = "record_row" /\ call[x].request.delivery = d =>
             row'[d].attempts = row[d].attempts /\ row'[d].status \notin Waiting
    PROVE  LockShape(x)' /\ WorkShape(x)'
<1> DEFINE v == call[x]
<1>1. TypeOK /\ LockShape(x) /\ WorkShape(x)
  BY DEF StatementInvariant
<1>2. \A e \in v.matched \cup v.changed : row'[e] = row[e]
  BY <1>1, InHand
<1>3. v.stage = "receipt_row" =>
        /\ v.request.delivery \in Deliveries /\ v.request.attempt \in Attempts
        /\ attempt'[v.request.delivery][v.request.attempt] \in {"sent", "reported"}
  <2>1. v.stage = "receipt_row" =>
          v.request.delivery \in Deliveries /\ v.request.attempt \in Attempts
    BY <1>1, Reported
  <2> QED
    BY <1>1, <2>1 DEF WorkShape
<1>4. v.stage = "record_row" =>
        /\ attempt'[v.request.delivery][v.request.attempt] = "reported"
        /\ row'[v.request.delivery].attempts = row[v.request.delivery].attempts
        /\ row'[v.request.delivery].status \notin Waiting
  <2>1. v.stage = "record_row" =>
          v.request.delivery \in Deliveries /\ v.request.attempt \in Attempts
    BY <1>1, Reported
  <2> QED
    BY <1>1, <2>1 DEF WorkShape
<1> QED
  BY <1>1, <1>2, <1>3, <1>4, ShapeKept

LEMMA DataStep ==
    ASSUME StatementInvariant, TypeOK', IsFiniteSet(Stored'), \A d \in Deliveries : RowShape(d)',
           \A x \in Connections :
             call'[x] = Idle \/ (call'[x] = call[x] /\ LockShape(x)' /\ WorkShape(x)')
    PROVE  StatementInvariant'
<1>1. \A x \in Connections : LockShape(x)' /\ WorkShape(x)'
  BY IdleShape
<1>2. ASSUME NEW c \in Connections, NEW x \in Connections, c # x PROVE Apart(c, x)'
  <2>1. CASE call'[c] = Idle \/ call'[x] = Idle
    BY <2>1, IdleShape
  <2>2. CASE call'[c] = call[c] /\ call'[x] = call[x]
    BY <1>2, <2>2 DEF StatementInvariant, Apart
  <2> QED
    BY <2>1, <2>2
<1> QED
  BY <1>1, <1>2 DEF StatementInvariant

\* The tables other than those of a step keep their types.
LEMMA TypesAfter ==
    ASSUME TypeOK, row' \in [Deliveries -> [status : Statuses, revision : 0..MaxRevision,
                                            attempts : 0..MaxAttempts]],
           attempt' \in [Deliveries -> [Attempts -> {"none", "claimed", "sent", "reported"}]],
           consumed' \subseteq Observations, decisions' \subseteq RetryRequests,
           receipts' \subseteq ReceiptRequests,
           call' = call \/ \E c \in Connections : call' = [call EXCEPT ![c] = Idle]
    PROVE  TypeOK'
<1>1. CASE call' = call
  BY <1>1 DEF TypeOK
<1>2. ASSUME NEW c \in Connections, call' = [call EXCEPT ![c] = Idle] PROVE TypeOK'
  BY <1>2, CallType, IdleType DEF TypeOK
<1> QED
  BY <1>1, <1>2

LEMMA CreateHolds ==
    ASSUME StatementInvariant, NEW d \in Deliveries, Create(d)
    PROVE  StatementInvariant'
<1>1. /\ TypeOK /\ row[d].status = "absent" /\ row[d].attempts = 0 /\ row[d].revision = 0
      /\ Update(d, "queued") /\ call' = call
      /\ UNCHANGED <<attempt, consumed, decisions, receipts>>
  BY DEF Create, Silent, tables, StatementInvariant, RowShape
<1>2. Incrementable(row[d])
  BY <1>1, StatementAssumption DEF Incrementable
<1>3. /\ row' \in [Deliveries -> [status : Statuses, revision : 0..MaxRevision,
                                  attempts : 0..MaxAttempts]]
      /\ row'[d].status = "queued" /\ row'[d].attempts = row[d].attempts
      /\ \A e \in Deliveries \ {d} : row'[e] = row[e]
      /\ IsFiniteSet(Stored')
  <2>1. "queued" \in Statuses
    BY DEF Statuses, Waiting
  <2> QED
    BY <1>1, <1>2, <2>1, UpdateStep DEF StatementInvariant
<1>4. TypeOK'
  BY <1>1, <1>3, TypesAfter DEF TypeOK
<1>5. \A k \in Attempts : k \in Nat /\ k > 0 /\ attempt[d][k] = "none"
  BY <1>1 DEF StatementInvariant, RowShape, Attempts
<1>6. ASSUME NEW e \in Deliveries PROVE RowShape(e)'
  BY <1>1, <1>3, <1>5, RowShapeKept, RowShapeAside DEF StatementInvariant
<1>7. ASSUME NEW x \in Connections PROVE LockShape(x)' /\ WorkShape(x)'
  <2>1. d \notin call[x].matched \cup call[x].changed
    BY <1>1, InHand DEF StatementInvariant, Waiting
  <2>2. ~(call[x].stage = "record_row" /\ call[x].request.delivery = d)
    BY <1>1, <1>5, Reported DEF StatementInvariant, WorkShape
  <2> QED
    BY <1>1, <1>3, <2>1, <2>2, CallAside
<1> QED
  BY <1>1, <1>3, <1>4, <1>6, <1>7, DataStep

LEMMA ClaimHolds ==
    ASSUME StatementInvariant, NEW d \in Deliveries, Claim(d)
    PROVE  StatementInvariant'
<1> DEFINE n == row[d].attempts + 1
<1>1. /\ TypeOK /\ row[d].status \in Waiting /\ row[d].attempts < MaxAttempts
      /\ Incrementable(row[d]) /\ \A c \in Connections : d \notin call[c].held
      /\ call' = call /\ UNCHANGED <<consumed, decisions, receipts>>
  BY DEF Claim, Silent, tables, StatementInvariant, LockedBy
<1>2. n \in Attempts /\ row[d].attempts \in Nat /\ n \in 0..MaxAttempts
  BY <1>1, StatementTypes, StatementAssumption DEF Attempts
<1>3. row' = [row EXCEPT ![d] = [status |-> "attempting", revision |-> row[d].revision + 1,
                                 attempts |-> n]]
  BY DEF Claim
<1>4. attempt' = [attempt EXCEPT ![d][n] = "claimed"]
  BY DEF Claim
<1> HIDE DEF n
<1>5. /\ row' \in [Deliveries -> [status : Statuses, revision : 0..MaxRevision,
                                  attempts : 0..MaxAttempts]]
      /\ row'[d].status = "attempting" /\ row'[d].attempts = n
      /\ \A e \in Deliveries \ {d} : row'[e] = row[e]
      /\ IsFiniteSet(Stored')
  <2>1. "attempting" \in Statuses
    BY DEF Statuses
  <2> QED
    BY <1>1, <1>2, <1>3, <2>1, RowStep DEF StatementInvariant
<1>6. /\ attempt' \in [Deliveries -> [Attempts -> {"none", "claimed", "sent", "reported"}]]
      /\ \A k \in Attempts : attempt'[d][k] = IF k = n THEN "claimed" ELSE attempt[d][k]
      /\ \A e \in Deliveries \ {d} : attempt'[e] = attempt[e]
  BY <1>1, <1>2, <1>4 DEF TypeOK
<1>7. TypeOK'
  BY <1>1, <1>5, <1>6, TypesAfter DEF TypeOK
<1>8. /\ \A k \in Attempts : attempt[d][k] = "none" <=> row[d].attempts < k
      /\ \A k \in Attempts : attempt[d][k] \notin {"claimed", "sent"}
      /\ attempt[d][n] = "none"
  BY <1>1, <1>2 DEF StatementInvariant, RowShape, n
<1>9. RowShape(d)'
  <2>1. \A k \in Attempts : k \in Nat /\ (row[d].attempts < k <=> n < k \/ k = n)
    BY <1>2 DEF n, Attempts
  <2>2. n \in Nat /\ ~(n < n)
    BY <1>2
  <2> QED
    BY <1>5, <1>6, <1>8, <2>1, <2>2 DEF RowShape, Waiting
<1>10. ASSUME NEW e \in Deliveries \ {d} PROVE RowShape(e)'
  BY <1>5, <1>6, RowShapeAside DEF StatementInvariant
<1>11. ASSUME NEW x \in Connections PROVE LockShape(x)' /\ WorkShape(x)'
  <2>1. d \notin call[x].matched \cup call[x].changed
    BY <1>1, InHand DEF StatementInvariant
  <2>2. ~(call[x].stage = "record_row" /\ call[x].request.delivery = d)
    BY <1>1 DEF StatementInvariant, WorkShape
  <2>3. \A k \in Attempts : attempt[d][k] # "none" => attempt'[d][k] = attempt[d][k]
    BY <1>6, <1>8
  <2> QED
    BY <1>1, <1>5, <1>6, <2>1, <2>2, <2>3, CallAside
<1> QED
  BY <1>1, <1>5, <1>7, <1>9, <1>10, <1>11, DataStep

LEMMA SendHolds ==
    ASSUME StatementInvariant, NEW d \in Deliveries, NEW k \in Attempts, Send(d, k)
    PROVE  StatementInvariant'
<1>1. /\ TypeOK /\ attempt[d][k] = "claimed" /\ attempt' = [attempt EXCEPT ![d][k] = "sent"]
      /\ call' = call /\ UNCHANGED <<row, consumed, decisions, receipts>>
  BY DEF Send, Silent, tables, StatementInvariant
<1>2. /\ attempt' \in [Deliveries -> [Attempts -> {"none", "claimed", "sent", "reported"}]]
      /\ \A j \in Attempts : attempt'[d][j] = IF j = k THEN "sent" ELSE attempt[d][j]
      /\ \A e \in Deliveries \ {d} : attempt'[e] = attempt[e]
  BY <1>1 DEF TypeOK
<1>3. TypeOK' /\ IsFiniteSet(Stored')
  BY <1>1, <1>2, TypesAfter DEF TypeOK, StatementInvariant, Stored
<1>4. RowShape(d)'
  BY <1>1, <1>2 DEF StatementInvariant, RowShape
<1>5. ASSUME NEW e \in Deliveries \ {d} PROVE RowShape(e)'
  BY <1>1, <1>2, RowShapeAside DEF StatementInvariant
<1>6. ASSUME NEW x \in Connections PROVE LockShape(x)' /\ WorkShape(x)'
  <2>1. TypeOK /\ LockShape(x) /\ WorkShape(x)
    BY DEF StatementInvariant
  <2>2. call[x].stage \in {"receipt_row", "record_row"} =>
          attempt'[call[x].request.delivery][call[x].request.attempt]
            = attempt[call[x].request.delivery][call[x].request.attempt]
    BY <1>1, <1>2, <2>1, Reported DEF WorkShape
  <2> QED
    BY <1>1, <2>1, <2>2, ShapeKept DEF WorkShape
<1> QED
  BY <1>1, <1>3, <1>4, <1>5, <1>6, DataStep

\* A call that has locked a row, changes it and ends.
LEMMA LockedRowHolds ==
    ASSUME StatementInvariant, NEW c \in Connections, NEW d \in Deliveries,
           NEW status \in Statuses \ {"absent"},
           NEW answer, Committed(c, answer), Free(c, d), call[c].held = {},
           Update(d, status), Incrementable(row[d]), row[d].status # "absent",
           UNCHANGED <<attempt, consumed>>,
           decisions' \subseteq RetryRequests, receipts' \subseteq ReceiptRequests,
           \A x \in Connections \ {c} : call[x].stage = "retry_row" =>
             \A r \in decisions' : r \in decisions \/ KeyOf(r) # KeyOf(call[x].request),
           status \in Waiting =>
             /\ \A k \in Attempts : attempt[d][k] \notin {"claimed", "sent"}
             /\ \A x \in Connections \ {c} :
                  ~(call[x].stage = "record_row" /\ call[x].request.delivery = d)
    PROVE  StatementInvariant'
<1>1. TypeOK /\ call' = [call EXCEPT ![c] = Idle] /\ call'[c] = Idle
  BY EndStep DEF StatementInvariant
<1>2. /\ row' \in [Deliveries -> [status : Statuses, revision : 0..MaxRevision,
                                  attempts : 0..MaxAttempts]]
      /\ row'[d].status = status /\ row'[d].attempts = row[d].attempts
      /\ \A e \in Deliveries \ {d} : row'[e] = row[e]
      /\ IsFiniteSet(Stored')
  BY <1>1, UpdateStep DEF StatementInvariant
<1>3. TypeOK'
  BY <1>1, <1>2, TypesAfter DEF TypeOK
<1>4. ASSUME NEW e \in Deliveries PROVE RowShape(e)'
  BY <1>2, RowShapeKept, RowShapeAside DEF StatementInvariant
<1>5. ASSUME NEW x \in Connections \ {c}
      PROVE  call'[x] = call[x] /\ LockShape(x)' /\ WorkShape(x)'
  <2>1. call'[x] = call[x]
    BY <1>1, EndStep
  <2>2. d \notin call[x].held
    BY DEF Free, LockedBy
  <2>3. d \notin call[x].matched \cup call[x].changed
    BY <1>1, <2>2, InHand DEF StatementInvariant
  <2> QED
    BY <1>2, <2>1, <2>3, CallAside
<1> QED
  BY <1>1, <1>2, <1>3, <1>4, <1>5, DataStep

LEMMA DecideHolds ==
    ASSUME StatementInvariant, NEW c \in Connections, DecideRetry(c)
    PROVE  StatementInvariant'
<1> DEFINE r == call[c].request
           v == row[r.delivery]
<1>1. TypeOK /\ call[c].stage = "retry_row" /\ r \in RetryRequests /\ call[c].held = {}
  <2>1. TypeOK /\ call[c].stage = "retry_row" /\ LockShape(c)
    BY DEF DecideRetry, Running, StatementInvariant
  <2> QED
    BY <2>1, StatementTypes, RequestKinds DEF LockShape
<1>2. r.delivery \in Deliveries /\ r.revision \in 0..MaxRevision - 1
  BY <1>1, RetryKey
<1>3. CASE RetryRefusal(r) # "none"
  <2>1. End(c, RetryRefusal(r)) /\ UNCHANGED <<row, attempt, tables>>
    BY <1>3 DEF DecideRetry, tables
  <2> QED
    BY <2>1, Ended
<1>4. CASE RetryRefusal(r) = "none"
  <2>1. v.revision = r.revision /\ v.status = "retry_scheduled"
    BY <1>4 DEF RetryRefusal
  <2>2. /\ decisions' = decisions \cup {r} /\ Update(r.delivery, "retry_scheduled")
        /\ Committed(c, "scheduled") /\ UNCHANGED <<attempt, consumed, receipts>>
        /\ Free(c, r.delivery)
    BY <1>4 DEF DecideRetry
  <2>3. Incrementable(v)
    BY <1>2, <2>1, StatementAssumption DEF Incrementable
  <2>4. ASSUME NEW x \in Connections \ {c}, call[x].stage = "retry_row", NEW q \in decisions'
        PROVE  q \in decisions \/ KeyOf(q) # KeyOf(call[x].request)
    <3>1. KeyOf(r) # KeyOf(call[x].request)
      BY <1>1, <2>4 DEF StatementInvariant, Apart, WorkShape, Deciding
    <3> QED
      BY <2>2, <2>4, <3>1
  <2>5. \A k \in Attempts : attempt[r.delivery][k] \notin {"claimed", "sent"}
    BY <1>2, <2>1 DEF StatementInvariant, RowShape, Waiting
  <2>6. \A x \in Connections :
           ~(call[x].stage = "record_row" /\ call[x].request.delivery = r.delivery)
    BY <2>1 DEF StatementInvariant, WorkShape, Waiting
  <2>7. "retry_scheduled" \in Statuses \ {"absent"} /\ row[r.delivery].status # "absent"
    BY <2>1 DEF Statuses, Waiting
  <2>8. decisions' \subseteq RetryRequests /\ receipts' \subseteq ReceiptRequests
    BY <1>1, <2>2 DEF TypeOK
  <2> QED
    BY <1>1, <1>2, <2>2, <2>3, <2>4, <2>5, <2>6, <2>7, <2>8, LockedRowHolds
<1> QED
  BY <1>3, <1>4

LEMMA ReceiptHolds ==
    ASSUME StatementInvariant, NEW c \in Connections, ApplyReceipt(c)
    PROVE  StatementInvariant'
<1> DEFINE r == call[c].request
           v == row[r.delivery]
<1>1. /\ TypeOK /\ call[c].stage = "receipt_row" /\ call[c].held = {}
      /\ r \in ReceiptRequests /\ r.delivery \in Deliveries
  <2>1. TypeOK /\ call[c].stage = "receipt_row" /\ LockShape(c)
    BY DEF ApplyReceipt, Running, StatementInvariant
  <2> QED
    BY <2>1, Reported DEF LockShape
<1>2. CASE v.status \notin {"attempting", "accepted"} \/ ~Incrementable(v)
  <2>1. End(c, "receipt_conflict") /\ UNCHANGED <<row, attempt, tables>>
    BY <1>2 DEF ApplyReceipt, tables
  <2> QED
    BY <2>1, Ended
<1>3. CASE /\ ~(v.status \notin {"attempting", "accepted"} \/ ~Incrementable(v))
           /\ Recorded(r.form) # {}
  <2>1. End(c, "none") /\ UNCHANGED <<row, attempt, tables>>
    BY <1>3 DEF ApplyReceipt, tables
  <2> QED
    BY <2>1, Ended
<1>4. CASE /\ ~(v.status \notin {"attempting", "accepted"} \/ ~Incrementable(v))
           /\ ~(Recorded(r.form) # {})
  <2> DEFINE status == IF r.form.kind = "delivered" THEN "delivered" ELSE "failed"
  <2>1. /\ receipts' = receipts \cup {r} /\ Update(r.delivery, status)
        /\ Committed(c, "acknowledged") /\ UNCHANGED <<attempt, consumed, decisions>>
        /\ Free(c, r.delivery)
    BY <1>4 DEF ApplyReceipt
  <2>2. status \in Statuses \ {"absent"} /\ status \notin Waiting
    BY DEF Statuses, Waiting
  <2>3. v.status # "absent" /\ Incrementable(v)
    BY <1>4
  <2>4. decisions' \subseteq RetryRequests /\ receipts' \subseteq ReceiptRequests
    BY <1>1, <2>1 DEF TypeOK
  <2> HIDE DEF status
  <2> QED
    BY <1>1, <2>1, <2>2, <2>3, <2>4, LockedRowHolds
<1> QED
  BY <1>2, <1>3, <1>4

LEMMA RecordHolds ==
    ASSUME StatementInvariant, NEW c \in Connections, Record(c)
    PROVE  StatementInvariant'
<1> DEFINE r == call[c].request
           v == row[r.delivery]
<1>1. /\ TypeOK /\ call[c].stage = "record_row" /\ call[c].held = {} /\ WorkShape(c)
      /\ r \in RecordRequests /\ r.delivery \in Deliveries /\ r.attempt \in Attempts
  <2>1. TypeOK /\ call[c].stage = "record_row" /\ LockShape(c) /\ WorkShape(c)
    BY DEF Record, Running, StatementInvariant
  <2> QED
    BY <2>1, Reported DEF LockShape
<1>2. CASE ~(v.status = "attempting" /\ Incrementable(v))
  <2>1. PICK answer : End(c, answer) /\ UNCHANGED <<row, attempt, tables>>
    BY <1>2 DEF Record
  <2> QED
    BY <2>1, Ended
<1>3. CASE v.status = "attempting" /\ Incrementable(v)
  <2> DEFINE status == StatusAfter(v, r.outcome)
  <2>1. /\ Update(r.delivery, status) /\ Committed(c, "recorded") /\ Free(c, r.delivery)
        /\ UNCHANGED <<attempt, consumed, decisions, receipts>>
    BY <1>3 DEF Record, tables
  <2>2. r.outcome \in {"accepted", "temporary_failure", "permanent_failure", "delivery_unknown"}
    BY <1>1, StatementAssumption DEF RecordRequests
  <2>3. status \in Statuses \ {"absent"}
    BY <2>2 DEF StatusAfter, Statuses, Waiting
  <2>4. \A k \in Attempts : attempt[r.delivery][k] \notin {"claimed", "sent"}
    <3>1. /\ attempt[r.delivery][r.attempt] = "reported" /\ r.attempt = v.attempts
      BY <1>1 DEF WorkShape
    <3> QED
      BY <1>1, <3>1 DEF StatementInvariant, RowShape
  <2>5. \A x \in Connections \ {c} :
           ~(call[x].stage = "record_row" /\ call[x].request.delivery = r.delivery)
    BY <1>1 DEF StatementInvariant, Apart
  <2>6. v.status # "absent" /\ Incrementable(v)
    BY <1>3
  <2>7. decisions' \subseteq RetryRequests /\ receipts' \subseteq ReceiptRequests
    BY <1>1, <2>1 DEF TypeOK
  <2>8. \A x \in Connections \ {c} : call[x].stage = "retry_row" =>
          \A q \in decisions' : q \in decisions \/ KeyOf(q) # KeyOf(call[x].request)
    BY <2>1
  <2> HIDE DEF status
  <2> QED
    BY <1>1, <2>1, <2>3, <2>4, <2>5, <2>6, <2>7, <2>8, LockedRowHolds
<1> QED
  BY <1>2, <1>3

LEMMA CommitHolds ==
    ASSUME StatementInvariant, NEW c \in Connections, CommitObservation(c)
    PROVE  StatementInvariant'
<1> DEFINE o == call[c].request
           changed == call[c].changed
<1>1. /\ TypeOK /\ call[c].stage = "updating" /\ LockShape(c)
      /\ call' = [call EXCEPT ![c] = Idle] /\ call'[c] = Idle
      /\ \A x \in Connections \ {c} : call'[x] = call[x]
      /\ UNCHANGED <<attempt, decisions, receipts>> /\ consumed' = consumed \cup {o}
  BY EndStep DEF CommitObservation, Running, StatementInvariant
<1>2. o \in Observations /\ changed \in SUBSET Deliveries /\ changed \subseteq call[c].held
  BY <1>1, StatementTypes, RequestKinds DEF LockShape
<1>3. \A d \in changed : row[d].status \in Waiting /\ row[d].revision < MaxRevision
  BY <1>1, StatementTypes DEF LockShape, Updatable, Cancellable
<1> HIDE DEF changed
<1>4. row' = [d \in Deliveries |->
                IF d \in changed THEN [row[d] EXCEPT !.status = "failed", !.revision = @ + 1]
                ELSE row[d]]
  BY DEF CommitObservation, changed
<1>5. \A d \in Deliveries \ changed : row'[d] = row[d]
  BY <1>4
<1>6. ASSUME NEW d \in changed
      PROVE  /\ row'[d] \in [status : Statuses, revision : 0..MaxRevision,
                              attempts : 0..MaxAttempts]
             /\ row'[d].status = "failed" /\ row'[d].attempts = row[d].attempts
  <2> DEFINE old == row[d]
  <2>1. old \in [status : Statuses, revision : 0..MaxRevision, attempts : 0..MaxAttempts]
    BY <1>1, <1>2 DEF TypeOK
  <2>2. old.revision \in Nat /\ old.revision + 1 \in 0..MaxRevision /\ "failed" \in Statuses
    <3>1. old.revision \in 0..MaxRevision /\ old.revision < MaxRevision
      BY <1>3, <2>1
    <3>2. old.revision \in Nat /\ old.revision + 1 \in 0..MaxRevision
      BY <3>1, StatementAssumption
    <3> QED
      BY <3>2 DEF Statuses
  <2>3. row'[d] = [old EXCEPT !.status = "failed", !.revision = @ + 1]
    BY <1>2, <1>4
  <2> HIDE DEF old
  <2>4. /\ row'[d] \in [status : Statuses, revision : 0..MaxRevision, attempts : 0..MaxAttempts]
        /\ row'[d].status = "failed" /\ row'[d].attempts = old.attempts
    BY <2>1, <2>2, <2>3
  <2> QED
    BY <2>4 DEF old
<1>7. row' \in [Deliveries -> [status : Statuses, revision : 0..MaxRevision,
                               attempts : 0..MaxAttempts]]
  <2>1. \A d \in Deliveries :
           row'[d] \in [status : Statuses, revision : 0..MaxRevision, attempts : 0..MaxAttempts]
    BY <1>1, <1>5, <1>6 DEF TypeOK
  <2> QED
    BY <1>4, <2>1
<1>8. TypeOK'
  BY <1>1, <1>2, <1>7, TypesAfter DEF TypeOK
<1>9. IsFiniteSet(Stored')
  <2>1. Stored' \in SUBSET Stored
    BY <1>3, <1>5 DEF Stored, Waiting
  <2> QED
    BY <2>1, FS_Subset DEF StatementInvariant
<1>10. ASSUME NEW d \in Deliveries PROVE RowShape(d)'
  <2>1. CASE d \in changed
    BY <1>1, <1>6, <2>1, RowShapeKept DEF StatementInvariant, Waiting
  <2>2. CASE d \notin changed
    BY <1>1, <1>5, <2>2, RowShapeAside DEF StatementInvariant
  <2> QED
    BY <2>1, <2>2
<1>11. ASSUME NEW x \in Connections \ {c} PROVE LockShape(x)' /\ WorkShape(x)'
  <2>1. LockShape(x) /\ WorkShape(x) /\ call'[x] = call[x]
    BY <1>1 DEF StatementInvariant
  <2>2. \A d \in call[x].matched \cup call[x].changed : row'[d] = row[d]
    <3>1. call[x].matched \cup call[x].changed \subseteq Deliveries \cap call[x].held
      BY <1>1, <2>1, InHand
    <3>2. call[x].held \cap call[c].held = {}
      BY DEF StatementInvariant, Apart
    <3> QED
      BY <1>2, <1>5, <3>1, <3>2
  <2>3. call[x].stage \in Observing => call[x].request.id # o.id
    BY <1>1 DEF StatementInvariant, Apart, Observing
  <2>4. call[x].stage = "record_row" =>
          row'[call[x].request.delivery] = row[call[x].request.delivery]
    BY <1>1, <1>3, <1>5, <2>1, Reported DEF WorkShape
  <2> QED
    BY <1>1, <2>1, <2>2, <2>3, <2>4, ShapeKept DEF WorkShape
<1> QED
  BY <1>1, <1>8, <1>9, <1>10, <1>11, DataStep

\* The provider has answered: no other call has an answer for the delivery.
LEMMA BeginRecordHolds ==
    ASSUME StatementInvariant, NEW c \in Connections, NEW d \in Deliveries, NEW k \in Attempts,
           NEW outcome \in Outcomes, BeginRecord(c, d, k, outcome)
    PROVE  StatementInvariant'
<1> DEFINE has == HasReceipt(d, k)
           request == [delivery |-> d, attempt |-> k, outcome |-> outcome, hasReceipt |-> has]
           state == [Idle EXCEPT !.stage = "record_row", !.request = request]
<1>1. /\ TypeOK /\ attempt[d][k] = "sent" /\ attempt' = [attempt EXCEPT ![d][k] = "reported"]
      /\ call[c] = Idle /\ Continue(c, [call[c] EXCEPT !.stage = "record_row", !.request = request])
      /\ UNCHANGED <<row, consumed, decisions, receipts>>
  BY DEF BeginRecord, Start, tables, StatementInvariant, WorkShape
<1>2. has \in BOOLEAN
  BY DEF HasReceipt
<1> HIDE DEF has
<1>3. /\ request \in RecordRequests /\ request.delivery = d /\ request.attempt = k
  BY <1>2 DEF RecordRequests
<1> HIDE DEF request
<1>4. Continue(c, state)
  BY <1>1
<1>5. /\ state \in CallStates /\ state.stage = "record_row" /\ state.request = request
      /\ state.held = {} /\ state.todo = <<>> /\ state.matched = {} /\ state.changed = {}
      /\ state.key = NoKey
  <2>1. request \in UNION {RequestsOf(stage) : stage \in Stages}
    BY <1>3, RequestKinds DEF Stages
  <2> QED
    BY <2>1, IdleType DEF Idle, CallStates, Stages
<1> HIDE DEF state
<1>6. /\ call'[c] = state /\ \A x \in Connections \ {c} : call'[x] = call[x]
      /\ call' = [call EXCEPT ![c] = state]
  BY <1>1, <1>4, StateStep DEF Continue
<1>7. /\ attempt' \in [Deliveries -> [Attempts -> {"none", "claimed", "sent", "reported"}]]
      /\ \A j \in Attempts : attempt'[d][j] = IF j = k THEN "reported" ELSE attempt[d][j]
      /\ \A e \in Deliveries \ {d} : attempt'[e] = attempt[e]
  BY <1>1 DEF TypeOK
<1>8. TypeOK' /\ IsFiniteSet(Stored')
  <2>1. state.request \in RequestsOf(state.stage)
    BY <1>3, <1>5, RequestKinds
  <2>2. /\ call' \in [Connections -> CallStates]
        /\ \A x \in Connections : call'[x].request \in RequestsOf(call'[x].stage)
    BY <1>1, <1>5, <1>6, <2>1, CallType
  <2> QED
    BY <1>1, <1>7, <2>2 DEF TypeOK, StatementInvariant, Stored
<1>9. k = row[d].attempts /\ row[d].status \notin Waiting
  BY <1>1 DEF StatementInvariant, RowShape
<1>10. RowShape(d)'
  BY <1>1, <1>7 DEF StatementInvariant, RowShape
<1>11. ASSUME NEW e \in Deliveries \ {d} PROVE RowShape(e)'
  BY <1>1, <1>7, RowShapeAside DEF StatementInvariant
<1>12. LockShape(c)' /\ WorkShape(c)'
  <2>1. LockShape(c)'
    BY <1>5, <1>6 DEF LockShape
  <2>2. WorkShape(c)'
    BY <1>1, <1>3, <1>5, <1>6, <1>7, <1>9 DEF WorkShape, Observing, Deciding
  <2> QED
    BY <2>1, <2>2
<1>13. ASSUME NEW x \in Connections \ {c} PROVE LockShape(x)' /\ WorkShape(x)'
  <2>1. LockShape(x) /\ WorkShape(x) /\ call'[x] = call[x]
    BY <1>6 DEF StatementInvariant
  <2>2. call[x].stage = "receipt_row" =>
          attempt'[call[x].request.delivery][call[x].request.attempt] \in {"sent", "reported"}
    BY <1>1, <1>7, <2>1, Reported DEF WorkShape
  <2>3. call[x].stage = "record_row" =>
          attempt'[call[x].request.delivery][call[x].request.attempt] = "reported"
    BY <1>1, <1>7, <2>1, Reported DEF WorkShape
  <2> QED
    BY <1>1, <2>1, <2>2, <2>3, ShapeKept DEF WorkShape
<1>14. ASSUME NEW x \in Connections \ {c} PROVE Apart(c, x)' /\ Apart(x, c)'
  <2>1. ~(call[x].stage = "record_row" /\ call[x].request.delivery = d)
    BY <1>1, <1>9 DEF StatementInvariant, WorkShape
  <2> QED
    BY <1>3, <1>5, <1>6, <2>1 DEF Apart, Observing, Deciding
<1>15. ASSUME NEW y \in Connections \ {c}, NEW x \in Connections \ {c}, y # x PROVE Apart(y, x)'
  BY <1>6, <1>15 DEF StatementInvariant, Apart
<1> QED
  BY <1>8, <1>10, <1>11, <1>12, <1>13, <1>14, <1>15 DEF StatementInvariant

-----------------------------------------------------------------------------
(* The invariant *)

LEMMA InitHolds == Init => StatementInvariant
<1> SUFFICES ASSUME Init PROVE StatementInvariant
  OBVIOUS
<1>1. Stored = {}
  BY DEF Init, Stored
<1>2. TypeOK
  <2>1. [status |-> "absent", revision |-> 0, attempts |-> 0] \in
          [status : Statuses, revision : 0..MaxRevision, attempts : 0..MaxAttempts]
    BY StatementAssumption DEF Statuses
  <2>2. row \in [Deliveries -> [status : Statuses, revision : 0..MaxRevision,
                                attempts : 0..MaxAttempts]]
    BY <2>1 DEF Init
  <2>3. /\ call \in [Connections -> CallStates]
        /\ \A c \in Connections : call[c].request \in RequestsOf(call[c].stage)
    BY IdleType DEF Init
  <2> QED
    BY <2>2, <2>3 DEF Init, TypeOK
<1>3. IsFiniteSet(Stored)
  BY <1>1, FS_EmptySet
<1>4. \A d \in Deliveries : RowShape(d)
  BY DEF Init, RowShape, Attempts, Waiting
<1>5. \A c \in Connections : LockShape(c) /\ WorkShape(c)
  BY DEF Init, Idle, LockShape, WorkShape, Observing, Deciding
<1>6. \A c, x \in Connections : c # x => Apart(c, x)
  BY DEF Init, Idle, Apart, Observing, Deciding
<1> QED
  BY <1>2, <1>3, <1>4, <1>5, <1>6 DEF StatementInvariant

LEMMA StepHolds == StatementInvariant /\ [Next]_vars => StatementInvariant'
<1> SUFFICES ASSUME StatementInvariant, [Next]_vars PROVE StatementInvariant'
  OBVIOUS
<1>1. CASE UNCHANGED vars
  BY <1>1 DEF vars, StatementInvariant, TypeOK, Stored, RowShape, LockShape, WorkShape, Apart,
              Cancellable, Updatable, Among, Decided
<1>2. ASSUME NEW c \in Connections, Begin(c) PROVE StatementInvariant'
  BY <1>2, BeginObservationHolds, BeginRetryHolds, BeginReceiptHolds, BeginRecordHolds DEF Begin
<1>3. ASSUME NEW c \in Connections, Observe(c) PROVE StatementInvariant'
  BY <1>3, ClaimEventHolds, SelectHolds, LockNextHolds, CheckHolds, UpdateNextHolds, CommitHolds
  DEF Observe
<1>4. ASSUME NEW c \in Connections, Retry(c) \/ Report(c) PROVE StatementInvariant'
  BY <1>4, LockKeyHolds, LookupHolds, DecideHolds, ReceiptHolds, RecordHolds DEF Retry, Report
<1>5. ASSUME NEW c \in Connections, Detect(c) \/ Fail(c) PROVE StatementInvariant'
  BY <1>5, Ended DEF Detect, Fail
<1>6. ASSUME NEW d \in Deliveries, Create(d) \/ Claim(d) \/ \E k \in Attempts : Send(d, k)
      PROVE  StatementInvariant'
  BY <1>6, CreateHolds, ClaimHolds, SendHolds
<1> QED
  BY <1>1, <1>2, <1>3, <1>4, <1>5, <1>6 DEF Next, Proceed

\* The inductive invariant of the calls: what each has in hand stays as it found
\* it, and no other call has it (LedgerStatements).
LEMMA StatementInvariantHolds == Spec => []StatementInvariant
BY InitHolds, StepHolds, PTL DEF Spec

\* Rows, evidence and calls are well typed, and no call takes a revision past its
\* bound, whatever it waited for (revision_exhausted).
THEOREM StatementTypeCorrect == Spec => []TypeOK
<1>1. StatementInvariant => TypeOK
  BY DEF StatementInvariant
<1> QED BY <1>1, StatementInvariantHolds, PTL

-----------------------------------------------------------------------------
(* Whose step it is *)

\* A step moves one call at most.
LEMMA OwnStep ==
    ASSUME TypeOK, [Next]_vars, NEW c \in Connections
    PROVE  call'[c] = call[c] \/ Begin(c) \/ Proceed(c) \/ Fail(c)
<1>1. CASE UNCHANGED vars
  BY <1>1 DEF vars
<1>2. ASSUME NEW d \in Deliveries, Create(d) \/ Claim(d) \/ \E k \in Attempts : Send(d, k)
      PROVE  call' = call
  BY <1>2 DEF Create, Claim, Send, Silent
<1>3. ASSUME NEW x \in Connections, Begin(x) \/ Proceed(x) \/ Fail(x)
      PROVE  \E state : call' = [call EXCEPT ![x] = state]
  <2>1. CASE Begin(x)
    BY <2>1 DEF Begin, BeginObservation, BeginRetry, BeginReceipt, BeginRecord, Start, Continue, End
  <2>2. CASE Observe(x)
    BY <2>2 DEF Observe, ClaimEvent, SelectWaiting, LockNext, CheckRevisions, UpdateNext,
                CommitObservation, Continue, Committed, End
  <2>3. CASE Retry(x) \/ Report(x)
    BY <2>3 DEF Retry, Report, LockKey, LookupRetry, DecideRetry, ApplyReceipt, Record,
                Continue, Committed, End
  <2>4. CASE Detect(x) \/ Fail(x)
    BY <2>4 DEF Detect, Fail, End
  <2> QED
    BY <1>3, <2>1, <2>2, <2>3, <2>4 DEF Proceed
<1>4. ASSUME NEW x \in Connections \ {c}, Begin(x) \/ Proceed(x) \/ Fail(x)
      PROVE  call'[c] = call[c]
  BY <1>3, <1>4 DEF TypeOK
<1> QED
  BY <1>1, <1>2, <1>4 DEF Next

\* An observation is recorded by its commit only.
LEMMA WhoConsumes ==
    ASSUME [Next]_vars
    PROVE  consumed' = consumed \/ \E x \in Connections : CommitObservation(x)
<1>1. CASE UNCHANGED vars
  BY <1>1 DEF vars
<1>2. ASSUME NEW d \in Deliveries, Create(d) \/ Claim(d) \/ \E k \in Attempts : Send(d, k)
      PROVE  consumed' = consumed
  BY <1>2 DEF Create, Claim, Send, tables
<1>3. ASSUME NEW x \in Connections, Begin(x) PROVE consumed' = consumed
  BY <1>3 DEF Begin, BeginObservation, BeginRetry, BeginReceipt, BeginRecord, tables
<1>4. ASSUME NEW x \in Connections, Observe(x) PROVE consumed' = consumed \/ CommitObservation(x)
  BY <1>4 DEF Observe, ClaimEvent, SelectWaiting, LockNext, CheckRevisions, UpdateNext, tables
<1>5. ASSUME NEW x \in Connections, Retry(x) \/ Report(x) PROVE consumed' = consumed
  BY <1>5 DEF Retry, Report, LockKey, LookupRetry, DecideRetry, ApplyReceipt, Record, tables
<1>6. ASSUME NEW x \in Connections, Detect(x) \/ Fail(x) PROVE consumed' = consumed
  BY <1>6 DEF Detect, Fail, tables
<1> QED
  BY <1>1, <1>2, <1>3, <1>4, <1>5, <1>6 DEF Next, Proceed

-----------------------------------------------------------------------------
(* Observations *)

LEMMA CancelStep ==
    ASSUME StatementInvariant, [Next]_vars, NEW c \in Connections, call[c].stage = "updating",
           call[c].request \in consumed', NEW d \in call[c].matched
    PROVE  row'[d].status = "failed"
<1>1. \A e \in consumed : e.id # call[c].request.id
  BY DEF StatementInvariant, WorkShape, Observing
<1>2. PICK x \in Connections : CommitObservation(x)
  BY <1>1, WhoConsumes
<1>3. call[x].stage = "updating" /\ consumed' = consumed \cup {call[x].request}
  BY <1>2 DEF CommitObservation, Running
<1>4. x = c
  BY <1>1, <1>3 DEF StatementInvariant, Apart, Observing
<1>5. /\ call[c].todo = <<>> /\ d \in Deliveries
      /\ d \in call[c].changed \/ Among(d, call[c].todo)
      /\ row'[d] = IF d \in call[c].changed
                   THEN [row[d] EXCEPT !.status = "failed", !.revision = @ + 1] ELSE row[d]
  BY <1>2, <1>4, InHand DEF CommitObservation, StatementInvariant, LockShape
<1>6. d \in call[c].changed
  BY <1>5 DEF Among
<1>7. row[d] \in [status : Statuses, revision : 0..MaxRevision, attempts : 0..MaxAttempts]
  BY <1>5 DEF StatementInvariant, TypeOK
<1> QED
  BY <1>5, <1>6, <1>7

\* An observation that commits has cancelled what its select returned, for any
\* number of calls between its statements (apply_invitation_lifecycle).
THEOREM ObservationCancels == Spec => CancelsWhatItSaw
<1>1. StatementInvariant /\ [Next]_vars =>
        [\A c \in Connections :
           Running(c, {"updating"}) /\ call[c].request \in consumed' =>
              \A d \in call[c].matched : row'[d].status = "failed"]_vars
  BY CancelStep DEF Running
<1> QED BY <1>1, StatementInvariantHolds, PTL DEF Spec, CancelsWhatItSaw

-----------------------------------------------------------------------------
(* Manual retries *)

\* How a retry that holds its key ends.
LEMMA RetryEnds ==
    ASSUME StatementInvariant, [Next]_vars, NEW c \in Connections,
           call[c].stage \in {"lookup", "retry_row"}, call'[c].stage = "idle"
    PROVE  LookupRetry(c) \/ DecideRetry(c) \/ told' = "none"
<1>1. Begin(c) \/ Proceed(c) \/ Fail(c)
  BY OwnStep DEF StatementInvariant
<1>2. ~Begin(c)
  BY DEF Begin, BeginObservation, BeginRetry, BeginReceipt, BeginRecord, Start, Running
<1>3. ~Observe(c)
  BY DEF Observe, ClaimEvent, SelectWaiting, LockNext, CheckRevisions, UpdateNext,
         CommitObservation, Running
<1>4. ~Report(c) /\ ~LockKey(c)
  BY DEF Report, ApplyReceipt, Record, LockKey, Running
<1>5. Detect(c) \/ Fail(c) => told' = "none"
  BY DEF Detect, Fail, End
<1> QED
  BY <1>1, <1>2, <1>3, <1>4, <1>5 DEF Proceed, Retry

\* What a retry that holds its key is told, and what that says of the tables.
LEMMA RetryAnswer ==
    ASSUME StatementInvariant, [Next]_vars, NEW c \in Connections,
           call[c].stage \in {"lookup", "retry_row"}, call'[c].stage = "idle"
    PROVE  \/ told' = "none"
           \/ /\ told' \in {"stale_revision", "retry_not_allowed"}
              /\ call[c].request \notin decisions
           \/ /\ told' \in {"scheduled", "replayed"}
              /\ \E x \in decisions' : KeyOf(x) = KeyOf(call[c].request)
              /\ row'[call[c].request.delivery].status = "retry_scheduled"
           \/ /\ told' = "moved_on"
              /\ \E x \in decisions' : KeyOf(x) = KeyOf(call[c].request)
              /\ row'[call[c].request.delivery].status # "retry_scheduled"
<1> DEFINE r == call[c].request
<1>1. r \in RetryRequests /\ r.delivery \in Deliveries
  BY StatementTypes, RequestKinds, RetryKey DEF StatementInvariant
<1>2. CASE LookupRetry(c)
  <2>1. Decided(r) # {} /\ told' = Replay(r.delivery) /\ row' = row /\ decisions' = decisions
    <3>1. Decided(r) = {} => call'[c].stage = "retry_row"
      <4>1. call[c] \in CallStates /\ TypeOK
        BY StatementTypes DEF StatementInvariant
      <4>2. Decided(r) = {} => call'[c] = [call[c] EXCEPT !.stage = "retry_row"]
        BY <1>2, <4>1, StateStep DEF LookupRetry
      <4> QED
        BY <4>1, <4>2 DEF CallStates
    <3> QED
      BY <1>2, <3>1 DEF LookupRetry, End, tables
  <2>2. \E x \in decisions' : KeyOf(x) = KeyOf(r)
    BY <2>1 DEF Decided, KeyOf
  <2> QED
    BY <2>1, <2>2 DEF Replay
<1>3. CASE DecideRetry(c)
  <2>1. r \notin decisions
    BY <1>3 DEF DecideRetry, Running, StatementInvariant, WorkShape, Decided
  <2>2. CASE RetryRefusal(r) # "none"
    BY <1>3, <2>1, <2>2 DEF DecideRetry, End, RetryRefusal
  <2>3. CASE RetryRefusal(r) = "none"
    <3>1. /\ decisions' = decisions \cup {r} /\ Update(r.delivery, "retry_scheduled")
          /\ Committed(c, "scheduled")
      BY <1>3, <2>3 DEF DecideRetry
    <3>2. row'[r.delivery].status = "retry_scheduled"
      <4>1. row[r.delivery] \in
              [status : Statuses, revision : 0..MaxRevision, attempts : 0..MaxAttempts]
        BY <1>1 DEF StatementInvariant, TypeOK
      <4> QED
        BY <1>1, <3>1, <4>1 DEF Update, StatementInvariant, TypeOK
    <3>3. told' \in {"scheduled", "none"}
      BY <3>1 DEF Committed, End
    <3>4. \E x \in decisions' : KeyOf(x) = KeyOf(r)
      BY <3>1
    <3> QED
      BY <3>2, <3>3, <3>4
  <2> QED
    BY <2>2, <2>3
<1> QED
  BY <1>2, <1>3, RetryEnds

LEMMA Answers ==
    /\ ToolAnswer("scheduled") = "content" /\ ToolAnswer("replayed") = "content"
    /\ ToolAnswer("stale_revision") = "execution_failed"
    /\ ToolAnswer("retry_not_allowed") = "execution_failed"
    /\ ToolAnswer("moved_on") = "runtime" /\ ToolAnswer("none") = "runtime"
BY DEF ToolAnswer

\* A repeated retry is never told that what it decided was refused
\* (request_manual_retry, admin_retry).
THEOREM RepetitionIsSafe == Spec => RepeatNeverRefused
<1>1. ASSUME StatementInvariant, [Next]_vars, NEW c \in Connections,
             Running(c, {"lookup", "retry_row"}), call'[c].stage = "idle",
             call[c].request \in decisions
      PROVE  ToolAnswer(told') \in {"content", "runtime"}
  BY <1>1, RetryAnswer, Answers DEF Running
<1>2. StatementInvariant /\ [Next]_vars =>
        [\A c \in Connections :
           /\ Running(c, {"lookup", "retry_row"})
           /\ call'[c].stage = "idle"
           /\ call[c].request \in decisions
           => ToolAnswer(told') \in {"content", "runtime"}]_vars
  BY <1>1
<1> QED BY <1>2, StatementInvariantHolds, PTL DEF Spec, RepeatNeverRefused

\* What a retry is told is what the decisions and its delivery show when it is
\* told (admin_retry).
THEOREM RetryIsExplained == Spec => RetryAnswerExplained
<1>1. ASSUME StatementInvariant, [Next]_vars, NEW c \in Connections,
             Running(c, {"lookup", "retry_row"}), call'[c].stage = "idle"
      PROVE  LET r == call[c].request
                 decided == \E x \in decisions' : x.delivery = r.delivery /\ x.key = r.key
             IN  /\ ToolAnswer(told') = "content" =>
                      decided /\ row'[r.delivery].status = "retry_scheduled"
                 /\ told' = "moved_on" =>
                      decided /\ row'[r.delivery].status # "retry_scheduled"
  <2>1. \A x \in decisions' : KeyOf(x) = KeyOf(call[c].request) =>
           x.delivery = call[c].request.delivery /\ x.key = call[c].request.key
    BY DEF KeyOf
  <2> QED
    BY <1>1, <2>1, RetryAnswer, Answers DEF Running
<1>2. StatementInvariant /\ [Next]_vars =>
        [\A c \in Connections :
           Running(c, {"lookup", "retry_row"}) /\ call'[c].stage = "idle" =>
              LET r == call[c].request
                  decided == \E x \in decisions' : x.delivery = r.delivery /\ x.key = r.key
              IN  /\ ToolAnswer(told') = "content" =>
                       decided /\ row'[r.delivery].status = "retry_scheduled"
                  /\ told' = "moved_on" =>
                       decided /\ row'[r.delivery].status # "retry_scheduled"]_vars
  BY <1>1
<1> QED BY <1>2, StatementInvariantHolds, PTL DEF Spec, RetryAnswerExplained

-----------------------------------------------------------------------------
(* Circles of calls *)

\* Where every member of a finite set has one that follows it, some member
\* follows itself, if what follows is transitive: otherwise the member that the
\* fewest follow would have another.
LEMMA NoLastOne ==
    ASSUME NEW S, IsFiniteSet(S), S # {}, NEW R,
           \A x \in S : \E y \in S : <<x, y>> \in R,
           \A x, y, z \in S : <<x, y>> \in R /\ <<y, z>> \in R => <<x, z>> \in R
    PROVE  \E x \in S : <<x, x>> \in R
<1> DEFINE After(x) == {y \in S : <<x, y>> \in R}
           Sets == {After(x) : x \in S}
<1>1. IsWellFoundedOn(StrictSubsetOrdering(S), SUBSET S)
  <2>1. FiniteSubsetsOf(S) = SUBSET S
    BY FS_FiniteSubsetsOfFinite
  <2> QED
    BY <2>1, FS_StrictSubsetOrderingWellFounded
<1>2. Sets \subseteq SUBSET S /\ Sets # {}
  <2>1. \A x \in S : After(x) \in SUBSET S /\ After(x) \in Sets
    OBVIOUS
  <2> HIDE DEF After
  <2> QED
    BY <2>1
<1>3. PICK T \in Sets : \A U \in Sets : ~(<<U, T>> \in StrictSubsetOrdering(S))
  <2> HIDE DEF Sets
  <2> QED
    BY <1>1, <1>2, WFMin
<1>4. PICK x \in S : T = After(x)
  BY <1>3
<1>5. PICK y \in S : <<x, y>> \in R
  OBVIOUS
<1>6. After(y) \in Sets /\ After(y) \in SUBSET S /\ After(x) \in SUBSET S
  OBVIOUS
<1>7. After(y) \subseteq After(x) /\ y \in After(x)
  BY <1>5
<1>8. After(y) = After(x)
  <2> HIDE DEF After, Sets
  <2> SUFFICES ASSUME After(y) # After(x) PROVE FALSE
    OBVIOUS
  <2>1. <<After(y), T>> \in StrictSubsetOrdering(S)
    BY <1>4, <1>6, <1>7 DEF StrictSubsetOrdering
  <2> QED
    BY <1>3, <1>6, <2>1
<1>9. <<y, y>> \in R
  BY <1>7, <1>8
<1> QED
  BY <1>9

\* Only calls that lock rows can be in a circle: a call that waits for an event
\* id, a key or one row has nothing that a member of the circle waits for.
LEMMA CircleLocks ==
    ASSUME StatementInvariant, NEW S \in SUBSET Connections, NEW x \in S,
           \A z \in S : (\E y \in S : Blocks(y, z)) /\ (\E y \in S : Blocks(z, y))
    PROVE  Running(x, {"locking", "updating"})
<1>1. ASSUME NEW y \in S, NEW z \in S, Blocks(y, z) PROVE ~Running(y, {"lookup"})
  BY <1>1 DEF Blocks, Running
<1> DEFINE Waits(z) == Running(z, {"event", "key", "locking", "updating", "retry_row",
                                  "receipt_row", "record_row"})
<1>2. \A z \in S : Waits(z)
  BY DEF Blocks, Running
<1>3. ASSUME NEW y \in S, NEW z \in S, Blocks(y, z)
      PROVE  Running(y, {"locking", "updating", "retry_row"})
  <2>1. LockShape(y) /\ WorkShape(y) /\ TypeOK /\ y \in Connections /\ z \in Connections
    BY DEF StatementInvariant
  <2>2. CASE Running(z, {"event"})
    BY <1>2, <1>3, <2>2 DEF Blocks, Running, ClaimedBy
  <2>3. CASE Running(z, {"key"})
    <3>1. KeyOf(call[z].request) # NoKey
      <4>1. call[z].request \in RetryRequests
        BY <2>1, <2>3, StatementTypes, RequestKinds DEF Running
      <4> QED
        BY <4>1, RetryKey
    <3>2. call[y].key = KeyOf(call[z].request)
      BY <1>3, <2>3 DEF Blocks, Running
    <3>3. call[y].stage \in Deciding
      BY <2>1, <3>1, <3>2 DEF WorkShape
    <3> QED
      BY <1>2, <3>3 DEF Deciding, Running
  <2>4. CASE ~Running(z, {"event"}) /\ ~Running(z, {"key"})
    <3>1. \E d : LockedBy(y, d)
      BY <1>3, <2>4 DEF Blocks, Running
    <3> QED
      BY <2>1, <3>1 DEF LockShape, LockedBy, Running
  <2> QED
    BY <2>2, <2>3, <2>4
<1>4. PICK z \in S : Blocks(x, z)
  OBVIOUS
<1>5. Running(z, {"locking", "updating", "retry_row"})
  BY <1>3
<1>6. LockShape(x) /\ \E d : LockedBy(x, d)
  BY <1>4, <1>5 DEF Blocks, Running, StatementInvariant
<1> QED
  BY <1>6 DEF LockShape, LockedBy, Running

LEMMA CircleExplained ==
    ASSUME StatementInvariant, NEW c \in Connections, Deadlocked(c)
    PROVE  \E x \in Connections :
             /\ Deadlocked(x) /\ Running(x, {"updating"})
             /\ Head(call[x].todo) \notin call[x].matched
<1> PICK S \in SUBSET Connections :
      /\ c \in S
      /\ \A x \in S : (\E y \in S : Blocks(y, x)) /\ (\E y \in S : Blocks(x, y))
  BY DEF Deadlocked
<1>1. \A x \in S : Deadlocked(x)
  BY DEF Deadlocked
<1>2. ASSUME NEW x \in S
      PROVE  /\ Running(x, {"locking", "updating"}) /\ call[x].todo # <<>>
             /\ \E y \in S : y # x /\ Head(call[x].todo) \in call[y].held
  BY CircleLocks DEF Blocks, Running, LockedBy
<1>3. CASE \E x \in S : Running(x, {"updating"})
  <2> PICK x \in S : Running(x, {"updating"})
    BY <1>3
  <2>1. PICK y \in S : y # x /\ Head(call[x].todo) \in call[y].held
    BY <1>2
  <2>2. call[x].matched \subseteq call[x].held /\ call[x].held \cap call[y].held = {}
    BY <2>1 DEF StatementInvariant, LockShape, Apart, Running
  <2>3. Head(call[x].todo) \notin call[x].matched
    BY <2>1, <2>2
  <2> QED
    BY <1>1, <2>3
<1>4. CASE \A x \in S : Running(x, {"locking"})
  <2> DEFINE head(x) == Head(call[x].todo)
             R == {p \in S \X S : head(p[1]) < head(p[2])}
  <2>1. ASSUME NEW x \in S
        PROVE  /\ head(x) \in Nat /\ \A h \in call[x].held : h < head(x)
    <3>1. /\ call[x].stage = "locking" /\ call[x].todo \in Seq(Deliveries)
          /\ call[x].todo # <<>> /\ LockShape(x)
      BY <1>2, <1>4, StatementTypes DEF StatementInvariant, Running
    <3>2. head(x) \in Deliveries /\ 1 \in 1..Len(call[x].todo) /\ head(x) = call[x].todo[1]
      BY <3>1, HeadAndTail
    <3> QED
      BY <3>1, <3>2, StatementAssumption DEF LockShape
  <2>2. \A x \in S : \E y \in S : head(x) < head(y)
    BY <1>2, <2>1
  <2> HIDE DEF head
  <2>3. \A x, y \in S : <<x, y>> \in R <=> head(x) < head(y)
    OBVIOUS
  <2> HIDE DEF R
  <2>4. \A x \in S : \E y \in S : <<x, y>> \in R
    BY <2>2, <2>3
  <2>5. \A x, y, z \in S : <<x, y>> \in R /\ <<y, z>> \in R => <<x, z>> \in R
    BY <2>1, <2>3
  <2>6. IsFiniteSet(S)
    BY FS_Subset, StatementAssumption
  <2>7. \E x \in S : <<x, x>> \in R
    BY <2>4, <2>5, <2>6, NoLastOne
  <2> QED
    BY <2>1, <2>3, <2>7
<1> QED
  BY <1>2, <1>3, <1>4 DEF Running

\* Calls wait for each other in a circle only because of a row that began to wait
\* after the select of an observation, for any number of calls
\* (apply_invitation_lifecycle, request_manual_retry, claim_event).
THEOREM CirclesHaveACause == Spec => []DeadlockExplained
<1>1. StatementInvariant => DeadlockExplained
  BY CircleExplained DEF DeadlockExplained
<1> QED BY <1>1, StatementInvariantHolds, PTL

\* While calls are in progress, one of them does not wait for another, or a
\* circle that PostgreSQL breaks has formed at a row that began to wait after
\* the select of an observation: no event id, key or row is kept by a call that
\* is over, and no chain of waiting calls ends nowhere.
SomeoneGoesOn ==
    LET busy == {c \in Connections : call[c].stage # "idle"} IN
    busy # {} =>
        \/ \E c \in busy : \A x \in Connections : ~Blocks(x, c)
        \/ \E c \in busy : /\ Deadlocked(c) /\ Running(c, {"updating"})
                           /\ Head(call[c].todo) \notin call[c].matched

\* What another call waits for is in the hands of a call in progress.
LEMMA BlockersAreBusy ==
    ASSUME StatementInvariant, NEW x \in Connections, NEW c \in Connections, Blocks(x, c)
    PROVE  call[x].stage # "idle"
<1>1. LockShape(x) /\ WorkShape(x) /\ TypeOK
  BY DEF StatementInvariant
<1>2. CASE Running(c, {"event"}) /\ ClaimedBy(x, call[c].request.id)
  BY <1>2 DEF ClaimedBy, Running
<1>3. CASE Running(c, {"key"}) /\ call[x].key = KeyOf(call[c].request)
  <2>1. KeyOf(call[c].request) # NoKey
    BY <1>1, <1>3, StatementTypes, RequestKinds, RetryKey DEF Running
  <2> QED
    BY <1>1, <1>3, <2>1 DEF WorkShape, Deciding
<1>4. CASE \E d : LockedBy(x, d)
  BY <1>1, <1>4 DEF LockShape, LockedBy
<1> QED
  BY <1>2, <1>3, <1>4 DEF Blocks

\* Where each of finitely many calls waits for one of them, some of them are a
\* circle: the smallest such set, in which each must also be waited for.
LEMMA WaitingEndsInACircle ==
    ASSUME NEW B \in SUBSET Connections, B # {},
           \A x \in B : \E y \in B : Blocks(y, x)
    PROVE  \E c \in B : Deadlocked(c)
<1> DEFINE Closed(S) == \A x \in S : \E y \in S : Blocks(y, x)
           Sets == {S \in SUBSET B : S # {} /\ Closed(S)}
<1>1. IsWellFoundedOn(StrictSubsetOrdering(B), SUBSET B)
  <2>1. IsFiniteSet(B)
    BY FS_Subset, StatementAssumption
  <2> QED
    BY <2>1, FS_FiniteSubsetsOfFinite, FS_StrictSubsetOrderingWellFounded
<1>2. Sets \subseteq SUBSET B /\ Sets # {}
  <2>1. B \in Sets
    OBVIOUS
  <2> QED
    BY <2>1
<1>3. PICK S \in Sets : \A U \in Sets : ~(<<U, S>> \in StrictSubsetOrdering(B))
  <2> HIDE DEF Sets
  <2> QED
    BY <1>1, <1>2, WFMin
<1> DEFINE Wanted == {y \in S : \E x \in S : Blocks(y, x)}
<1>4. Wanted \in Sets
  <2>1. PICK x \in S : TRUE
    BY <1>3
  <2>2. PICK y \in S : Blocks(y, x)
    BY <1>3
  <2>3. y \in Wanted
    BY <2>2
  <2>4. ASSUME NEW v \in Wanted PROVE \E w \in Wanted : Blocks(w, v)
    BY <1>3
  <2> QED
    BY <1>3, <2>3, <2>4
<1>5. Wanted = S
  <2>1. S \in SUBSET B /\ Wanted \in SUBSET B /\ Wanted \subseteq S
    BY <1>3
  <2> HIDE DEF Wanted, Sets
  <2>2. Wanted # S => <<Wanted, S>> \in StrictSubsetOrdering(B)
    BY <2>1 DEF StrictSubsetOrdering
  <2> QED
    BY <1>3, <1>4, <2>2
<1>6. /\ S \in SUBSET Connections /\ S # {}
      /\ \A x \in S : (\E y \in S : Blocks(y, x)) /\ (\E y \in S : Blocks(x, y))
  <2>1. S \in SUBSET B /\ S # {} /\ Closed(S)
    BY <1>3
  <2>2. \A x \in S : \E y \in S : Blocks(x, y)
    BY <1>5
  <2> QED
    BY <2>1, <2>2
<1>7. PICK c \in S : TRUE
  BY <1>6
<1>8. Deadlocked(c)
  <2>1. c \in S /\ \E x \in Connections : Blocks(x, c)
    BY <1>6
  <2> HIDE DEF Sets, Closed
  <2> QED
    BY <1>6, <2>1 DEF Deadlocked
<1> QED
  BY <1>3, <1>8

\* Some call in progress goes on, or the circle has its known cause, for any
\* number of calls (apply_invitation_lifecycle, request_manual_retry,
\* claim_event, observe_receipt, record_dispatch_observation).
THEOREM SomeCallGoesOn == Spec => []SomeoneGoesOn
<1>1. StatementInvariant => SomeoneGoesOn
  <2> DEFINE busy == {c \in Connections : call[c].stage # "idle"}
  <2> SUFFICES ASSUME StatementInvariant, busy # {},
                      \A c \in busy : \E x \in Connections : Blocks(x, c)
               PROVE  \E c \in busy : /\ Deadlocked(c) /\ Running(c, {"updating"})
                                      /\ Head(call[c].todo) \notin call[c].matched
    BY DEF SomeoneGoesOn
  <2>1. \A c \in busy : \E x \in busy : Blocks(x, c)
    BY BlockersAreBusy
  <2>2. PICK c \in Connections : Deadlocked(c)
    <3> HIDE DEF busy
    <3>1. busy \in SUBSET Connections
      BY DEF busy
    <3> QED
      BY <2>1, <3>1, WaitingEndsInACircle
  <2>3. PICK x \in Connections : /\ Deadlocked(x) /\ Running(x, {"updating"})
                                 /\ Head(call[x].todo) \notin call[x].matched
    BY <2>2, CircleExplained
  <2> QED
    BY <2>3 DEF Running
<1> QED BY <1>1, StatementInvariantHolds, PTL

-----------------------------------------------------------------------------
(* The refinement *)

\* What the promise sees of the tables.
PhaseOf == [d \in Deliveries |-> Phase(row[d].status)]
TriesOf == [d \in Deliveries |-> row[d].attempts]
CallsOf == [d \in Deliveries |-> {k \in Attempts : attempt[d][k] \in {"sent", "reported"}}]

Promised == [Promise!Next]_Promise!vars

LEMMA PhaseValues ==
    /\ Phase("absent") = "none" /\ \A s \in Waiting : Phase(s) = "pending"
    /\ Phase("attempting") = "in_flight" /\ Phase("delivery_unknown") = "unknown"
    /\ \A s \in {"accepted", "delivered", "failed"} : Phase(s) = s
BY DEF Phase, Waiting

\* A step that changes no phase, try or call is none of the promise.
LEMMA Invisible ==
    ASSUME \A d \in Deliveries :
             /\ Phase(row'[d].status) = Phase(row[d].status) /\ row'[d].attempts = row[d].attempts
             /\ \A k \in Attempts :
                  attempt'[d][k] \in {"sent", "reported"} <=> attempt[d][k] \in {"sent", "reported"}
    PROVE  Promised
<1>1. UNCHANGED <<PhaseOf, TriesOf, CallsOf>>
  BY DEF PhaseOf, TriesOf, CallsOf
<1> QED
  BY <1>1 DEF Promised, Promise!vars, PhaseOf, TriesOf, CallsOf

\* A step of the promise at one delivery is a step of the promise.
LEMMA PromiseAt ==
    ASSUME NEW d \in Deliveries,
           \/ Promise!Request(d) \/ Promise!Begin(d) \/ Promise!Call(d) \/ Promise!Postpone(d)
           \/ Promise!Accept(d) \/ Promise!Deliver(d) \/ Promise!Fail(d) \/ Promise!LoseTrack(d)
    PROVE  Promised
<1>1. Promise!Next
  BY DEF Promise!Next
<1> QED
  BY <1>1 DEF Promised

\* A row that changes its status moves its phase, and no other.
LEMMA PhaseMove ==
    ASSUME NEW d \in Deliveries, NEW from, Phase(row[d].status) \in from,
           \A e \in Deliveries \ {d} : row'[e] = row[e]
    PROVE  Promise!Move(d, from, Phase(row'[d].status))
<1>1. PhaseOf' = [PhaseOf EXCEPT ![d] = Phase(row'[d].status)]
  BY DEF PhaseOf
<1> QED
  BY <1>1 DEF Promise!Move, PhaseOf

\* A row whose status changes while its attempts stay.
LEMMA StatusMove ==
    ASSUME TypeOK, IsFiniteSet(Stored), NEW d \in Deliveries, NEW status \in Statuses,
           Incrementable(row[d]), Update(d, status), attempt' = attempt,
           NEW from, Phase(row[d].status) \in from
    PROVE  Promise!Move(d, from, Phase(status)) /\ UNCHANGED <<TriesOf, CallsOf>>
<1>1. /\ row'[d].status = status /\ row'[d].attempts = row[d].attempts
      /\ \A e \in Deliveries \ {d} : row'[e] = row[e]
  BY UpdateStep
<1>2. \A e \in Deliveries : row'[e].attempts = row[e].attempts
  BY <1>1
<1>3. UNCHANGED <<TriesOf, CallsOf>>
  BY <1>2 DEF TriesOf, CallsOf
<1> QED
  BY <1>1, <1>3, PhaseMove

LEMMA CreatePromised ==
    ASSUME StatementInvariant, NEW d \in Deliveries, Create(d)
    PROVE  Promised
<1>1. /\ row[d].status = "absent" /\ Update(d, "queued") /\ attempt' = attempt
      /\ Incrementable(row[d])
  BY StatementAssumption DEF Create, StatementInvariant, RowShape, Incrementable
<1>2. Promise!Move(d, {"none"}, Phase("queued")) /\ UNCHANGED <<TriesOf, CallsOf>>
  BY <1>1, StatusMove, PhaseValues DEF StatementInvariant, Statuses, Waiting
<1>3. Promise!Request(d)
  BY <1>2, PhaseValues DEF Promise!Request, TriesOf, CallsOf, Waiting
<1> QED
  BY <1>3, PromiseAt

\* A claim begins the next try, within the budget.
LEMMA ClaimPromised ==
    ASSUME StatementInvariant, NEW d \in Deliveries, Claim(d)
    PROVE  Promised
<1> DEFINE n == row[d].attempts + 1
<1>1. /\ TypeOK /\ row[d].status \in Waiting /\ row[d].attempts < MaxAttempts
      /\ Incrementable(row[d]) /\ attempt' = [attempt EXCEPT ![d][n] = "claimed"]
      /\ row' = [row EXCEPT ![d] = [status |-> "attempting", revision |-> row[d].revision + 1,
                                    attempts |-> n]]
  BY DEF Claim, StatementInvariant
<1>2. n \in Attempts /\ n \in 0..MaxAttempts
  BY <1>1, StatementTypes, StatementAssumption DEF Attempts
<1>3. attempt[d][n] = "none"
  BY <1>1, <1>2, StatementTypes DEF StatementInvariant, RowShape
<1>4. /\ row'[d].status = "attempting" /\ row'[d].attempts = n
      /\ \A e \in Deliveries \ {d} : row'[e] = row[e]
  <2> HIDE DEF n
  <2> QED
    BY <1>1, <1>2, RowStep DEF StatementInvariant, Statuses
<1>5. Promise!Move(d, {"pending"}, "in_flight")
  BY <1>1, <1>4, PhaseMove, PhaseValues
<1>6. TriesOf' = [TriesOf EXCEPT ![d] = @ + 1]
  BY <1>4 DEF TriesOf
<1>7. UNCHANGED CallsOf
  <2> HIDE DEF n
  <2>1. \A e \in Deliveries, k \in Attempts :
          attempt'[e][k] \in {"sent", "reported"} <=> attempt[e][k] \in {"sent", "reported"}
    BY <1>1, <1>2, <1>3 DEF TypeOK
  <2> QED
    BY <2>1 DEF CallsOf
<1>8. Promise!Begin(d)
  BY <1>1, <1>5, <1>6, <1>7 DEF Promise!Begin, TriesOf, CallsOf
<1> QED
  BY <1>8, PromiseAt

\* The provider is called for the latest try, once.
LEMMA SendPromised ==
    ASSUME StatementInvariant, NEW d \in Deliveries, NEW k \in Attempts, Send(d, k)
    PROVE  Promised
<1>1. /\ TypeOK /\ attempt[d][k] = "claimed" /\ row' = row
      /\ attempt' = [attempt EXCEPT ![d][k] = "sent"]
  BY DEF Send, StatementInvariant
<1>2. k = row[d].attempts /\ k > 0
  BY <1>1 DEF StatementInvariant, RowShape, Attempts
<1>3. ASSUME NEW e \in Deliveries
      PROVE  {j \in Attempts : attempt'[e][j] \in {"sent", "reported"}}
               = IF e = d THEN CallsOf[d] \cup {k} ELSE CallsOf[e]
  <2>1. CASE e = d
    <3>1. \A j \in Attempts : attempt'[d][j] = IF j = k THEN "sent" ELSE attempt[d][j]
      BY <1>1 DEF TypeOK
    <3>2. CallsOf[d] = {j \in Attempts : attempt[d][j] \in {"sent", "reported"}}
      BY DEF CallsOf
    <3> QED
      BY <2>1, <3>1, <3>2
  <2>2. CASE e # d
    BY <1>1, <2>2 DEF TypeOK, CallsOf
  <2> QED
    BY <2>1, <2>2
<1>4. CallsOf' = [CallsOf EXCEPT ![d] = @ \cup {k}]
  BY <1>3 DEF CallsOf
<1>5. k \notin CallsOf[d]
  BY <1>1 DEF CallsOf
<1>6. UNCHANGED <<PhaseOf, TriesOf>>
  BY <1>1 DEF PhaseOf, TriesOf
<1>7. Promise!Call(d)
  BY <1>2, <1>4, <1>5, <1>6 DEF Promise!Call, Promise!Called, PhaseOf, TriesOf, CallsOf
<1> QED
  BY <1>7, PromiseAt

\* An observation cancels pending deliveries, all of them together.
LEMMA CommitPromised ==
    ASSUME StatementInvariant, NEW c \in Connections, CommitObservation(c)
    PROVE  Promised
<1> DEFINE D == call[c].changed
<1>1. /\ TypeOK /\ LockShape(c) /\ attempt' = attempt
      /\ row' = [d \in Deliveries |->
                   IF d \in D THEN [row[d] EXCEPT !.status = "failed", !.revision = @ + 1]
                   ELSE row[d]]
  BY DEF CommitObservation, StatementInvariant
<1>2. D \in SUBSET Deliveries /\ \A d \in D : row[d].status \in Waiting
  BY <1>1, InHand, StatementTypes
<1> HIDE DEF D
<1>3. ASSUME NEW d \in Deliveries
      PROVE  /\ row'[d].status = IF d \in D THEN "failed" ELSE row[d].status
             /\ row'[d].attempts = row[d].attempts
  <2>1. row[d] \in [status : Statuses, revision : 0..MaxRevision, attempts : 0..MaxAttempts]
    BY <1>1 DEF TypeOK
  <2> QED
    BY <1>1, <2>1
<1>4. /\ \A d \in D : PhaseOf[d] = "pending"
      /\ PhaseOf' = [d \in Deliveries |-> IF d \in D THEN "failed" ELSE PhaseOf[d]]
  BY <1>2, <1>3, PhaseValues DEF PhaseOf
<1>5. UNCHANGED <<TriesOf, CallsOf>>
  BY <1>1, <1>3 DEF TriesOf, CallsOf
<1>6. Promise!Cancel(D)
  BY <1>4, <1>5 DEF Promise!Cancel, PhaseOf, TriesOf, CallsOf
<1>7. Promise!Next
  BY <1>2, <1>6 DEF Promise!Next
<1> QED
  BY <1>7 DEF Promised

\* A manual retry moves a delivery that waits up, and leaves it waiting.
LEMMA DecidePromised ==
    ASSUME StatementInvariant, NEW c \in Connections, DecideRetry(c)
    PROVE  Promised
<1> DEFINE r == call[c].request
           d == r.delivery
<1>1. TypeOK /\ IsFiniteSet(Stored) /\ attempt' = attempt /\ r \in RetryRequests
  BY StatementTypes, RequestKinds DEF DecideRetry, Running, StatementInvariant
<1>2. d \in Deliveries /\ r.revision \in 0..MaxRevision - 1
  BY <1>1, RetryKey
<1>3. CASE RetryRefusal(r) # "none"
  <2>1. row' = row
    BY <1>3 DEF DecideRetry
  <2> QED
    BY <1>1, <2>1, Invisible
<1>4. CASE RetryRefusal(r) = "none"
  <2>1. row[d].revision = r.revision /\ row[d].status = "retry_scheduled"
    BY <1>4 DEF RetryRefusal
  <2>2. Incrementable(row[d])
    BY <1>2, <2>1, StatementAssumption DEF Incrementable
  <2>3. Update(d, "retry_scheduled")
    BY <1>4 DEF DecideRetry
  <2>4. /\ row'[d].status = row[d].status /\ row'[d].attempts = row[d].attempts
        /\ \A e \in Deliveries \ {d} : row'[e] = row[e]
    BY <1>1, <1>2, <2>1, <2>2, <2>3, UpdateStep DEF Statuses, Waiting
  <2>5. \A e \in Deliveries :
          row'[e].status = row[e].status /\ row'[e].attempts = row[e].attempts
    BY <2>4
  <2> QED
    BY <1>1, <2>5, Invisible
<1> QED
  BY <1>3, <1>4

\* A receipt settles a delivery about which some call was made.
LEMMA ReceiptPromised ==
    ASSUME StatementInvariant, NEW c \in Connections, ApplyReceipt(c)
    PROVE  Promised
<1> DEFINE r == call[c].request
           d == r.delivery
           to == IF r.form.kind = "delivered" THEN "delivered" ELSE "failed"
<1>1. /\ TypeOK /\ IsFiniteSet(Stored) /\ call[c].stage = "receipt_row" /\ attempt' = attempt
      /\ WorkShape(c)
  BY DEF ApplyReceipt, Running, StatementInvariant
<1>2. d \in Deliveries /\ r.attempt \in Attempts /\ r.attempt \in CallsOf[d]
  BY <1>1, Reported DEF WorkShape, CallsOf
<1>3. CASE row' = row
  BY <1>1, <1>3, Invisible
<1>4. CASE /\ row[d].status \in {"attempting", "accepted"} /\ Incrementable(row[d])
           /\ Update(d, to)
  <2> HIDE DEF d
  <2>1. Phase(row[d].status) \in {"in_flight", "accepted"}
    BY <1>4, PhaseValues
  <2>2. to \in {"delivered", "failed"} /\ to \in Statuses /\ Phase(to) = to
    BY PhaseValues DEF Statuses
  <2> HIDE DEF to
  <2>3. Promise!Move(d, {"in_flight", "accepted"}, to) /\ UNCHANGED <<TriesOf, CallsOf>>
    BY <1>1, <1>2, <1>4, <2>1, <2>2, StatusMove
  <2>4. Promise!Deliver(d) \/ Promise!Fail(d)
    BY <1>2, <2>2, <2>3 DEF Promise!Deliver, Promise!Fail, TriesOf, CallsOf
  <2> QED
    BY <1>2, <2>4, PromiseAt
<1> QED
  BY <1>3, <1>4 DEF ApplyReceipt

\* Recording an answer ends the try it is about: its call was made.
LEMMA RecordPromised ==
    ASSUME StatementInvariant, NEW c \in Connections, Record(c)
    PROVE  Promised
<1> DEFINE r == call[c].request
           d == r.delivery
           to == StatusAfter(row[d], r.outcome)
<1>1. /\ TypeOK /\ IsFiniteSet(Stored) /\ call[c].stage = "record_row" /\ attempt' = attempt
      /\ WorkShape(c)
  BY DEF Record, Running, StatementInvariant
<1>2. /\ d \in Deliveries /\ r.attempt \in Attempts /\ r \in RecordRequests
      /\ attempt[d][r.attempt] = "reported" /\ r.attempt = row[d].attempts
  BY <1>1, Reported DEF WorkShape
<1>3. TriesOf[d] \in CallsOf[d]
  BY <1>2 DEF TriesOf, CallsOf
<1>4. CASE row' = row
  BY <1>1, <1>4, Invisible
<1>5. CASE row[d].status = "attempting" /\ Incrementable(row[d]) /\ Update(d, to)
  <2>1. Phase(row[d].status) = "in_flight"
    BY <1>5, PhaseValues
  <2>2. r.outcome \in {"accepted", "temporary_failure", "permanent_failure", "delivery_unknown"}
    BY <1>2, StatementAssumption DEF RecordRequests
  <2>3. \/ to = "retry_scheduled" /\ row[d].attempts < MaxAttempts
        \/ to \in {"failed", "accepted", "delivery_unknown"}
    BY <2>2 DEF StatusAfter
  <2>4. to \in Statuses
    BY <2>3 DEF Statuses, Waiting
  <2> HIDE DEF d, to
  <2>5. \A from : "in_flight" \in from =>
          Promise!Move(d, from, Phase(to)) /\ UNCHANGED <<TriesOf, CallsOf>>
    BY <1>1, <1>2, <1>5, <2>1, <2>4, StatusMove
  <2>6. CASE to = "retry_scheduled" /\ row[d].attempts < MaxAttempts
    <3>1. Promise!Move(d, {"in_flight"}, "pending")
      BY <2>5, <2>6, PhaseValues DEF Waiting
    <3>2. Promise!Postpone(d)
      BY <1>2, <1>3, <2>5, <2>6, <3>1 DEF Promise!Postpone, Promise!Called, TriesOf, CallsOf
    <3> QED
      BY <1>2, <3>2, PromiseAt
  <2>7. CASE to = "failed"
    <3>1. Promise!Move(d, {"in_flight", "accepted"}, "failed")
      BY <2>5, <2>7, PhaseValues
    <3>2. Promise!Fail(d)
      BY <1>2, <1>3, <2>5, <3>1 DEF Promise!Fail, TriesOf, CallsOf
    <3> QED
      BY <1>2, <3>2, PromiseAt
  <2>8. CASE to = "accepted"
    <3>1. Promise!Move(d, {"in_flight"}, "accepted")
      BY <2>5, <2>8, PhaseValues
    <3>2. Promise!Accept(d)
      BY <1>2, <1>3, <2>5, <3>1 DEF Promise!Accept, Promise!Called, TriesOf, CallsOf
    <3> QED
      BY <1>2, <3>2, PromiseAt
  <2>9. CASE to = "delivery_unknown"
    <3>1. Promise!Move(d, {"in_flight"}, "unknown")
      BY <2>5, <2>9, PhaseValues
    <3>2. Promise!LoseTrack(d)
      BY <1>2, <1>3, <2>5, <3>1 DEF Promise!LoseTrack, Promise!Called, TriesOf, CallsOf
    <3> QED
      BY <1>2, <3>2, PromiseAt
  <2> QED
    BY <2>3, <2>6, <2>7, <2>8, <2>9
<1> QED
  BY <1>4, <1>5 DEF Record

\* An answer that is about to be recorded is the answer of a call.
LEMMA BeginRecordPromised ==
    ASSUME StatementInvariant, NEW c \in Connections, NEW d \in Deliveries, NEW k \in Attempts,
           NEW outcome \in Outcomes, BeginRecord(c, d, k, outcome)
    PROVE  Promised
<1>1. /\ TypeOK /\ row' = row /\ attempt[d][k] = "sent"
      /\ attempt' = [attempt EXCEPT ![d][k] = "reported"]
  BY DEF BeginRecord, StatementInvariant
<1>2. \A e \in Deliveries, j \in Attempts :
        attempt'[e][j] \in {"sent", "reported"} <=> attempt[e][j] \in {"sent", "reported"}
  BY <1>1 DEF TypeOK
<1> QED
  BY <1>1, <1>2, Invisible

\* Every statement is a step of the promise, or none.
LEMMA PromisedStep ==
    ASSUME StatementInvariant, [Next]_vars
    PROVE  Promised
<1>1. ASSUME UNCHANGED <<row, attempt>> PROVE Promised
  BY <1>1, Invisible
<1>2. CASE UNCHANGED vars
  BY <1>1, <1>2 DEF vars
<1>3. ASSUME NEW c \in Connections, Begin(c) PROVE Promised
  <2>1. CASE \E d \in Deliveries, k \in Attempts, outcome \in Outcomes :
               BeginRecord(c, d, k, outcome)
    BY <2>1, BeginRecordPromised
  <2>2. CASE UNCHANGED <<row, attempt>>
    BY <1>1, <2>2
  <2> QED
    BY <1>3, <2>1, <2>2 DEF Begin, BeginObservation, BeginRetry, BeginReceipt
<1>4. ASSUME NEW c \in Connections, Observe(c) PROVE Promised
  BY <1>1, <1>4, CommitPromised
  DEF Observe, ClaimEvent, SelectWaiting, LockNext, CheckRevisions, UpdateNext
<1>5. ASSUME NEW c \in Connections, Retry(c) PROVE Promised
  BY <1>1, <1>5, DecidePromised DEF Retry, LockKey, LookupRetry
<1>6. ASSUME NEW c \in Connections, Report(c) PROVE Promised
  BY <1>6, ReceiptPromised, RecordPromised DEF Report
<1>7. ASSUME NEW c \in Connections, Detect(c) \/ Fail(c) PROVE Promised
  BY <1>1, <1>7 DEF Detect, Fail
<1>8. ASSUME NEW d \in Deliveries, Create(d) \/ Claim(d) \/ \E k \in Attempts : Send(d, k)
      PROVE  Promised
  BY <1>8, CreatePromised, ClaimPromised, SendPromised
<1> QED
  BY <1>2, <1>3, <1>4, <1>5, <1>6, <1>7, <1>8 DEF Next, Proceed

\* Statement by statement the ledger implements the promise, for any number of
\* calls that get between each other's statements.
THEOREM StatementsKeepPromise == Spec => ImplementsPromise
<1>1. Init => Promise!Init
  BY PhaseValues DEF Init, Promise!Init
<1>2. StatementInvariant /\ [Next]_vars => [Promise!Next]_Promise!vars
  BY PromisedStep DEF Promised
<1> QED BY <1>1, <1>2, StatementInvariantHolds, PTL DEF Spec, ImplementsPromise, Promise!Spec
=============================================================================
