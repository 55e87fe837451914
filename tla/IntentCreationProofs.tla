------------------------ MODULE IntentCreationProofs -------------------------
(***************************************************************************)
(* Theorems about IntentCreation: no two transactions insert an intent for *)
(* one slot, every snapshot was rendered from the registered release, and  *)
(* the create calls implement IntentRegistry, for any number of calls,     *)
(* requests and template digests.                                          *)
(*                                                                         *)
(* A slot is safe because its advisory lock has one holder, and what the   *)
(* holder found under the lock cannot change before it commits; a release  *)
(* because a transaction waits for another one's uncommitted insert.       *)
(* CreationInvariant states both for every call in progress.               *)
(***************************************************************************)
EXTENDS IntentCreation, TLAPS

Holding == {"locked", "checked", "stored"}
Rendered == {"rendered", "locked", "checked", "stored"}

CallStates ==
    [stage : {"new", "looking", "rendering", "rendered", "locked", "checked", "stored",
              "answered"},
     request : Requests \cup {NoRequest}, now : 0..Horizon,
     digest : TemplateDigests \cup {NoDigest},
     answer : {"none", "created", "replayed", "invalid_intent", "conflict",
               "unique_violation", "runtime"}]

\* What a call in a stage has.
Shape(s) ==
    /\ s.stage # "new" => s.request \in Requests
    /\ s.stage # "answered" => s.answer = "none"
    /\ s.stage \in Rendered => s.digest \in TemplateDigests
    /\ s.answer # "unique_violation"

Typed ==
    /\ clock \in 0..Horizon
    /\ \A i \in intents : i.request \in Requests /\ i.digest \in TemplateDigests
    /\ releases \in [Releases -> TemplateDigests \cup {NoDigest}]
    /\ call \in [Calls -> CallStates]
    /\ \A c \in Calls : Shape(call[c])

\* The advisory lock of a slot has one holder.
OneHolder ==
    \A c, d \in Calls :
        /\ call[c].stage \in Holding /\ call[d].stage \in Holding
        /\ Slot(call[c].request) = Slot(call[d].request)
        => c = d

\* What a holder has found under its lock is still so.
SlotFree(s) == s.stage \in {"checked", "stored"} => Stored(s.request) = {}

\* A call whose release is stored agrees with it.
Agrees(s) ==
    s.stage = "stored" => releases[s.request.release] \in {NoDigest, s.digest}

\* Nobody else has an uncommitted release of the same version.
OneInserter ==
    \A c, d \in Calls :
        /\ call[c].stage = "stored" /\ call[d].stage = "stored"
        /\ call[c].request.release = call[d].request.release
        /\ releases[call[c].request.release] = NoDigest
        => c = d

CreationInvariant ==
    /\ Typed
    /\ OneHolder
    /\ \A c \in Calls : SlotFree(call[c]) /\ Agrees(call[c])
    /\ OneInserter
    /\ OneDigestPerRelease

-----------------------------------------------------------------------------
\* What a call does to its own state alone keeps the invariant, as long as it
\* has the lock for what it holds and has found what it claims.
LEMMA CallStep ==
    ASSUME CreationInvariant, NEW c \in Calls, NEW state \in CallStates,
           call' = [call EXCEPT ![c] = state], UNCHANGED <<intents, releases>>,
           clock' \in 0..Horizon,
           Shape(state),
           state.stage \in Holding =>
             \A d \in Calls \ {c} :
               call[d].stage \in Holding => Slot(call[d].request) # Slot(state.request),
           SlotFree(state), Agrees(state),
           state.stage = "stored" =>
             \A d \in Calls \ {c} :
               call[d].stage = "stored" /\ call[d].request.release = state.request.release
                 => releases[state.request.release] # NoDigest
    PROVE  CreationInvariant'
<1>1. \A d \in Calls : call'[d] = IF d = c THEN state ELSE call[d]
  BY DEF CreationInvariant, Typed
<1>2. Typed'
  BY <1>1 DEF CreationInvariant, Typed, Shape
<1>3. OneHolder'
  BY <1>1 DEF CreationInvariant, OneHolder
<1>4. \A d \in Calls : SlotFree(call[d])' /\ Agrees(call[d])'
  BY <1>1 DEF CreationInvariant, SlotFree, Agrees, Stored
<1>5. OneInserter'
  BY <1>1 DEF CreationInvariant, OneInserter
<1>6. OneDigestPerRelease'
  BY DEF CreationInvariant, OneDigestPerRelease
<1> QED
  BY <1>2, <1>3, <1>4, <1>5, <1>6 DEF CreationInvariant

\* A call that is answered gives up its lock.
LEMMA AnswerStep ==
    ASSUME CreationInvariant, NEW c \in Calls,
           NEW answer \in {"created", "replayed", "conflict", "runtime"},
           call[c].stage # "new", Answer(c, answer), UNCHANGED <<clock, intents, releases>>
    PROVE  CreationInvariant'
<1> DEFINE state == [call[c] EXCEPT !.stage = "answered", !.answer = answer]
<1>1. call[c] \in CallStates /\ Shape(call[c]) /\ clock' \in 0..Horizon
  BY DEF CreationInvariant, Typed
<1>2. state \in CallStates
  BY <1>1 DEF CallStates
<1>3. call' = [call EXCEPT ![c] = state]
  BY <1>1 DEF Answer
<1>4. state.stage = "answered" /\ Shape(state)
  BY <1>1 DEF Shape, Rendered, CallStates
<1> HIDE DEF state
<1> QED
  BY <1>1, <1>2, <1>3, <1>4, CallStep DEF SlotFree, Agrees, Holding

\* A call that goes on, to its next statement.
LEMMA GoesOn ==
    ASSUME CreationInvariant, NEW c \in Calls, NEW stage,
           stage \in {"rendering", "locked", "checked", "stored"},
           call[c].stage \notin {"new", "answered"}, stage = "rendering" \/ call[c].stage \in Rendered,
           call' = [call EXCEPT ![c].stage = stage], UNCHANGED <<clock, intents, releases>>,
           call[c].stage \in Holding \/ LockFree(c) \/ stage = "rendering",
           stage \in {"checked", "stored"} => Stored(call[c].request) = {},
           stage = "stored" =>
             /\ releases[call[c].request.release] \in {NoDigest, call[c].digest}
             /\ \A d \in Calls \ {c} :
                  call[d].stage = "stored" /\ call[d].request.release = call[c].request.release
                    => releases[call[c].request.release] # NoDigest
    PROVE  CreationInvariant'
<1> DEFINE state == [call[c] EXCEPT !.stage = stage]
<1>1. call[c] \in CallStates /\ Shape(call[c]) /\ clock' \in 0..Horizon
  BY DEF CreationInvariant, Typed
<1>2. state \in CallStates
  BY <1>1 DEF CallStates
<1>3. call' = [call EXCEPT ![c] = state]
  BY <1>1
<1>4. /\ state.stage = stage /\ state.request = call[c].request
      /\ state.digest = call[c].digest /\ state.answer = call[c].answer
  BY <1>1 DEF CallStates
<1> HIDE DEF state
<1>5. Shape(state)
  BY <1>1, <1>4 DEF Shape, Rendered
<1>6. state.stage \in Holding =>
        \A d \in Calls \ {c} :
          call[d].stage \in Holding => Slot(call[d].request) # Slot(state.request)
  BY <1>4 DEF CreationInvariant, OneHolder, Holding, LockFree, HoldsLock
<1>7. SlotFree(state) /\ Agrees(state)
  BY <1>4 DEF SlotFree, Agrees
<1> QED
  BY <1>1, <1>2, <1>3, <1>4, <1>5, <1>6, <1>7, CallStep

-----------------------------------------------------------------------------
(* The actions *)

LEMMA BeginStep ==
    ASSUME CreationInvariant, NEW c \in Calls, NEW r \in RequestsOf[c], Begin(c, r)
    PROVE  CreationInvariant'
<1>1. call[c] \in CallStates /\ Shape(call[c]) /\ clock \in 0..Horizon /\ clock' \in 0..Horizon
      /\ UNCHANGED <<intents, releases>> /\ r \in Requests
  BY DEF CreationInvariant, Typed, Begin, Requests
<1>2. call[c].answer = "none" /\ call[c].stage = "new"
  BY <1>1 DEF Begin, Shape
<1>3. CASE r.expiresAt = NoExpiry \/ r.expiresAt > clock
  <2> DEFINE state == [call[c] EXCEPT !.stage = "looking", !.request = r, !.now = clock]
  <2>1. state \in CallStates /\ state.stage = "looking" /\ Shape(state)
    BY <1>1, <1>2 DEF CallStates, Shape, Rendered
  <2>2. call' = [call EXCEPT ![c] = state]
    BY <1>3 DEF Begin
  <2> HIDE DEF state
  <2> QED
    BY <1>1, <2>1, <2>2, CallStep DEF SlotFree, Agrees, Holding
<1>4. CASE ~(r.expiresAt = NoExpiry \/ r.expiresAt > clock)
  <2> DEFINE state == [call[c] EXCEPT !.stage = "answered", !.request = r, !.now = clock,
                                      !.answer = "invalid_intent"]
  <2>1. state \in CallStates /\ state.stage = "answered" /\ Shape(state)
    BY <1>1, <1>2 DEF CallStates, Shape, Rendered
  <2>2. call' = [call EXCEPT ![c] = state]
    BY <1>4 DEF Begin
  <2> HIDE DEF state
  <2> QED
    BY <1>1, <2>1, <2>2, CallStep DEF SlotFree, Agrees, Holding
<1> QED
  BY <1>3, <1>4

\* Looking for a replay, before and under the lock.
LEMMA LookupStep ==
    ASSUME CreationInvariant, NEW c \in Calls, FindReplay(c) \/ Recheck(c)
    PROVE  CreationInvariant'
<1>1. CASE AnswerFrom(c, Stored(call[c].request))
  <2>1. \E answer \in {"replayed", "conflict"} : Answer(c, answer)
    BY <1>1 DEF AnswerFrom
  <2> QED
    BY <2>1, AnswerStep DEF FindReplay, Recheck
<1>2. CASE FindReplay(c) /\ ~AnswerFrom(c, Stored(call[c].request))
  BY <1>2, GoesOn DEF FindReplay
<1>3. CASE Recheck(c) /\ ~AnswerFrom(c, Stored(call[c].request))
  BY <1>3, GoesOn DEF Recheck, Rendered, Holding
<1> QED
  BY <1>1, <1>2, <1>3

LEMMA RenderStep ==
    ASSUME CreationInvariant, NEW c \in Calls, Render(c)
    PROVE  CreationInvariant'
<1>1. PICK digest \in TemplateDigests :
        call' = [call EXCEPT ![c].stage = "rendered", ![c].digest = digest]
  BY DEF Render
<1> DEFINE state == [call[c] EXCEPT !.stage = "rendered", !.digest = digest]
<1>2. call[c] \in CallStates /\ Shape(call[c]) /\ clock' \in 0..Horizon
      /\ call[c].stage = "rendering" /\ UNCHANGED <<intents, releases>>
  BY DEF CreationInvariant, Typed, Render
<1>3. state \in CallStates /\ state.stage = "rendered" /\ Shape(state)
  BY <1>2 DEF CallStates, Shape, Rendered
<1>4. call' = [call EXCEPT ![c] = state]
  BY <1>1
<1> HIDE DEF state
<1> QED
  BY <1>2, <1>3, <1>4, CallStep DEF SlotFree, Agrees, Holding

LEMMA LockStep ==
    ASSUME CreationInvariant, NEW c \in Calls, LockKey(c)
    PROVE  CreationInvariant'
BY GoesOn DEF LockKey, Rendered

LEMMA ReleaseStep ==
    ASSUME CreationInvariant, NEW c \in Calls, InsertRelease(c)
    PROVE  CreationInvariant'
<1>1. CASE ReleaseMatches(c)
  <2>1. Stored(call[c].request) = {}
    BY DEF CreationInvariant, SlotFree, InsertRelease
  <2>2. releases[call[c].request.release] \in {NoDigest, call[c].digest}
    BY <1>1 DEF ReleaseMatches, StoredDigest
  <2> QED
    BY <1>1, <2>1, <2>2, GoesOn DEF InsertRelease, Rendered, Holding
<1>2. CASE ~ReleaseMatches(c)
  BY <1>2, AnswerStep DEF InsertRelease
<1> QED
  BY <1>1, <1>2

\* What a commit adds is for a slot that nobody else holds, and for a release
\* that nobody else has inserted.
LEMMA CommitStep ==
    ASSUME CreationInvariant, NEW c \in Calls, Commit(c)
    PROVE  CreationInvariant'
<1> DEFINE r == call[c].request
           new == [request |-> r, requestedAt |-> call[c].now, digest |-> call[c].digest]
<1>1. call[c] \in CallStates /\ Shape(call[c]) /\ call[c].stage = "stored" /\ r \in Requests
      /\ call[c].digest \in TemplateDigests
  BY DEF CreationInvariant, Typed, Commit, Shape, Rendered
<1>2. Stored(r) = {} /\ releases[r.release] \in {NoDigest, call[c].digest}
  BY <1>1 DEF CreationInvariant, SlotFree, Agrees
<1>3. intents' = intents \cup {new} /\ UNCHANGED clock
      /\ releases' = [releases EXCEPT ![r.release] = StoredDigest(@, call[c].digest)]
      /\ \E answer \in {"created", "runtime"} : Answer(c, answer)
  BY <1>2 DEF Commit
<1>4. r.release \in Releases
  BY <1>1 DEF Releases
<1>5. releases'[r.release] = call[c].digest
      /\ \A t \in Releases \ {r.release} : releases'[t] = releases[t]
  BY <1>2, <1>3, <1>4 DEF StoredDigest, CreationInvariant, Typed
<1>6. PICK answer \in {"created", "runtime"} : Answer(c, answer)
  BY <1>3
<1> DEFINE state == [call[c] EXCEPT !.stage = "answered", !.answer = answer]
<1>7. state \in CallStates /\ state.stage = "answered" /\ Shape(state)
  BY <1>1 DEF CallStates, Shape, Rendered
<1>8. \A d \in Calls : call'[d] = IF d = c THEN state ELSE call[d]
  BY <1>6 DEF Answer, CreationInvariant, Typed
<1>9. call' \in [Calls -> CallStates]
  BY <1>7, <1>6 DEF Answer, CreationInvariant, Typed
<1> HIDE DEF state
<1>10. Typed'
  <2>1. \A i \in intents' : i.request \in Requests /\ i.digest \in TemplateDigests
    BY <1>1, <1>3 DEF CreationInvariant, Typed
  <2>2. releases' \in [Releases -> TemplateDigests \cup {NoDigest}]
    BY <1>1, <1>3, <1>4 DEF CreationInvariant, Typed, StoredDigest
  <2> QED
    BY <1>3, <1>7, <1>8, <1>9, <2>1, <2>2 DEF CreationInvariant, Typed
<1>11. OneHolder'
  BY <1>7, <1>8 DEF CreationInvariant, OneHolder, Holding
<1>12. ASSUME NEW d \in Calls
       PROVE  SlotFree(call[d])' /\ Agrees(call[d])'
  <2>1. CASE d = c
    BY <1>7, <1>8, <2>1 DEF SlotFree, Agrees
  <2>2. CASE d # c
    <3>1. call'[d] = call[d]
      BY <1>8, <2>2
    <3>2. SlotFree(call[d])'
      <4> SUFFICES ASSUME call[d].stage \in {"checked", "stored"}
                   PROVE  Stored(call[d].request)' = {}
        BY <3>1 DEF SlotFree, Stored
      <4>1. Slot(call[d].request) # Slot(r)
        BY <1>1, <2>2 DEF CreationInvariant, OneHolder, Holding
      <4>2. Stored(call[d].request) = {}
        BY DEF CreationInvariant, SlotFree
      <4> QED
        BY <1>3, <3>1, <4>1, <4>2 DEF Stored
    <3>3. Agrees(call[d])'
      <4> SUFFICES ASSUME call[d].stage = "stored"
                   PROVE  releases'[call[d].request.release] \in {NoDigest, call[d].digest}
        BY <3>1 DEF Agrees
      <4>1. releases[call[d].request.release] \in {NoDigest, call[d].digest}
            /\ call[d].request.release \in Releases
        BY DEF CreationInvariant, Agrees, Typed, Shape, Releases
      <4>2. CASE call[d].request.release = r.release
        <5>1. releases[r.release] # NoDigest
          BY <1>1, <2>2, <4>2 DEF CreationInvariant, OneInserter
        <5> QED
          BY <1>2, <1>5, <4>1, <4>2, <5>1
      <4> QED
        BY <1>5, <4>1, <4>2
    <3> QED
      BY <3>2, <3>3
  <2> QED
    BY <2>1, <2>2
<1>13. OneInserter'
  <2> SUFFICES ASSUME NEW d \in Calls, NEW e \in Calls,
                      call'[d].stage = "stored", call'[e].stage = "stored",
                      call'[d].request.release = call'[e].request.release,
                      releases'[call'[d].request.release] = NoDigest
               PROVE  d = e
    BY DEF OneInserter
  <2>1. call'[d] = call[d] /\ call'[e] = call[e]
    BY <1>7, <1>8
  <2>2. call[d].request.release \in Releases
    BY <2>1 DEF CreationInvariant, Typed, Shape, Releases
  <2>3. releases[call[d].request.release] = NoDigest
    BY <1>1, <1>5, <2>1, <2>2, AbsentAssumption
  <2> QED
    BY <2>1, <2>3 DEF CreationInvariant, OneInserter
<1>14. OneDigestPerRelease'
  <2> SUFFICES ASSUME NEW i \in intents'
               PROVE  i.digest = releases'[i.request.release]
    BY DEF OneDigestPerRelease
  <2>1. CASE i = new
    BY <1>5, <2>1
  <2>2. CASE i \in intents
    <3>1. i.digest = releases[i.request.release] /\ i.digest # NoDigest
          /\ i.request.release \in Releases
      BY <2>2, AbsentAssumption DEF CreationInvariant, Typed, OneDigestPerRelease, Releases
    <3> QED
      BY <1>2, <1>5, <3>1
  <2> QED
    BY <1>3, <2>1, <2>2
<1> QED
  BY <1>10, <1>11, <1>12, <1>13, <1>14 DEF CreationInvariant

-----------------------------------------------------------------------------
(* Theorems *)

LEMMA InitCreates == Init => CreationInvariant
<1> SUFFICES ASSUME Init PROVE CreationInvariant
  OBVIOUS
<1>1. \A c \in Calls : call[c] = NewCall
  BY DEF Init
<1>2. NewCall \in CallStates /\ Shape(NewCall) /\ NewCall.stage = "new"
  BY HorizonAssumption DEF NewCall, CallStates, Shape, Rendered
<1>3. Typed
  BY <1>1, <1>2, HorizonAssumption DEF Init, Typed
<1>4. OneHolder /\ OneInserter /\ OneDigestPerRelease
      /\ \A c \in Calls : SlotFree(call[c]) /\ Agrees(call[c])
  BY <1>1, <1>2
     DEF Init, OneHolder, OneInserter, OneDigestPerRelease, SlotFree, Agrees, Holding
<1> QED
  BY <1>3, <1>4 DEF CreationInvariant

LEMMA NextCreates == CreationInvariant /\ [Next]_vars => CreationInvariant'
<1> SUFFICES ASSUME CreationInvariant, [Next]_vars
             PROVE  CreationInvariant'
  OBVIOUS
<1>1. CASE Tick \/ UNCHANGED vars
  <2>1. UNCHANGED <<intents, releases, call>> /\ clock' \in 0..Horizon
    BY <1>1, HorizonAssumption DEF Tick, vars, CreationInvariant, Typed
  <2> QED
    BY <2>1 DEF CreationInvariant, Typed, OneHolder, OneInserter, OneDigestPerRelease,
                SlotFree, Agrees, Stored
<1>2. ASSUME NEW c \in Calls, NEW r \in RequestsOf[c], Begin(c, r)
      PROVE  CreationInvariant'
  BY <1>2, BeginStep
<1>3. ASSUME NEW c \in Calls, Proceed(c)
      PROVE  CreationInvariant'
  <2>1. CASE RenderFails(c)
    BY <2>1, AnswerStep DEF RenderFails
  <2> QED
    BY <1>3, <2>1, LookupStep, RenderStep, LockStep, ReleaseStep, CommitStep DEF Proceed
<1>4. ASSUME NEW c \in Calls, Fail(c)
      PROVE  CreationInvariant'
  BY <1>4, AnswerStep DEF Fail
<1> QED
  BY <1>1, <1>2, <1>3, <1>4 DEF Next

\* In every reachable state a slot's lock has one holder, what it found is
\* still so, and the releases agree with what was rendered from them
\* (persist_intent).
THEOREM CreationInvariantHolds == Spec => []CreationInvariant
<1> QED BY InitCreates, NextCreates, PTL DEF Spec

\* The unique constraint of the slots never fails a call (persist_intent: the
\* advisory lock and the second lookup).
THEOREM SlotsNeverCollide == Spec => []NoUniqueViolation
<1>1. CreationInvariant => NoUniqueViolation
  BY DEF CreationInvariant, Typed, Shape, NoUniqueViolation
<1> QED BY <1>1, CreationInvariantHolds, PTL

\* All the snapshots of a release were rendered from the registered one
\* (persist_intent: template release is immutable).
THEOREM ReleasesAreImmutable == Spec => []OneDigestPerRelease
<1>1. CreationInvariant => OneDigestPerRelease
  BY DEF CreationInvariant
<1> QED BY <1>1, CreationInvariantHolds, PTL

-----------------------------------------------------------------------------
(* The refinement *)

\* What the registry sees of the calls and the tables.
RegisteredSet == {i.request : i \in intents}
Confirmed == Requested({"created", "replayed"})
Refused == Requested({"conflict"})

\* An answer adds the request of its caller to those with this kind of answer,
\* and to no others.
LEMMA AnswerTells ==
    ASSUME CreationInvariant, NEW c \in Calls, NEW answer, call[c].stage # "answered",
           Answer(c, answer)
    PROVE  /\ Confirmed' = IF answer \in {"created", "replayed"}
                           THEN Confirmed \cup {call[c].request} ELSE Confirmed
           /\ Refused' = IF answer = "conflict"
                         THEN Refused \cup {call[c].request} ELSE Refused
<1>1. call[c].answer = "none"
  BY DEF CreationInvariant, Typed, Shape
<1>2. /\ \A d \in Calls : call'[d].request = call[d].request
      /\ \A d \in Calls \ {c} : call'[d].answer = call[d].answer
      /\ call'[c].answer = answer
  BY DEF Answer, CreationInvariant, Typed, CallStates
<1>3. Confirmed' = IF answer \in {"created", "replayed"}
                   THEN Confirmed \cup {call[c].request} ELSE Confirmed
  BY <1>1, <1>2 DEF Confirmed, Requested
<1>4. Refused' = IF answer = "conflict"
                 THEN Refused \cup {call[c].request} ELSE Refused
  BY <1>1, <1>2 DEF Refused, Requested
<1> QED
  BY <1>3, <1>4

\* A step of a call that answers nobody, or only with a failure, is invisible.
LEMMA SilentStep ==
    ASSUME CreationInvariant, UNCHANGED intents,
           \A d \in Calls :
             \/ call'[d].answer = call[d].answer /\ call'[d].request = call[d].request
             \/ /\ call[d].answer = "none"
                /\ call'[d].answer \in {"none", "runtime", "invalid_intent"}
    PROVE  UNCHANGED <<RegisteredSet, Confirmed, Refused>>
BY DEF RegisteredSet, Confirmed, Refused, Requested

LEMMA StepImplements ==
    CreationInvariant /\ [Next]_vars => [Registry!Next]_Registry!vars
<1> SUFFICES ASSUME CreationInvariant, [Next]_vars
             PROVE  [Registry!Next]_Registry!vars
  OBVIOUS
<1>1. ASSUME UNCHANGED <<RegisteredSet, Confirmed, Refused>>
      PROVE  [Registry!Next]_Registry!vars
  BY <1>1 DEF Registry!vars, RegisteredSet, Confirmed, Refused
<1>2. ASSUME NEW c \in Calls, AnswerFrom(c, Stored(call[c].request)), UNCHANGED intents,
             call[c].stage \notin {"new", "answered"}
      PROVE  [Registry!Next]_Registry!vars
  <2>1. PICK i \in Stored(call[c].request) :
          Answer(c, IF IsReplay(i, call[c].request) THEN "replayed" ELSE "conflict")
    BY <1>2 DEF AnswerFrom
  <2>2. call[c].request \in Requests /\ i.request \in RegisteredSet
        /\ Slot(i.request) = Slot(call[c].request) /\ UNCHANGED RegisteredSet
    BY <1>2 DEF CreationInvariant, Typed, Shape, Stored, RegisteredSet
  <2>3. CASE IsReplay(i, call[c].request)
    <3>1. Confirmed' = Confirmed \cup {call[c].request} /\ UNCHANGED Refused
      BY <1>2, <2>1, <2>3, AnswerTells
    <3>2. Registry!Confirm(call[c].request)
      BY <2>2, <2>3, <3>1 DEF Registry!Confirm, IsReplay, RegisteredSet, Confirmed, Refused
    <3> QED
      BY <2>2, <3>2 DEF Registry!Next
  <2>4. CASE ~IsReplay(i, call[c].request)
    <3>1. Refused' = Refused \cup {call[c].request} /\ UNCHANGED Confirmed
      BY <1>2, <2>1, <2>4, AnswerTells
    <3>2. Registry!Refuse(call[c].request)
      BY <2>2, <2>4, <3>1 DEF Registry!Refuse, IsReplay, RegisteredSet, Confirmed, Refused
    <3> QED
      BY <2>2, <3>2 DEF Registry!Next
  <2> QED
    BY <2>3, <2>4
<1>3. ASSUME NEW c \in Calls, Commit(c)
      PROVE  [Registry!Next]_Registry!vars
  <2>1. PICK r \in Requests : r = call[c].request
    BY <1>3 DEF Commit, CreationInvariant, Typed, Shape
  <2>2. call[c].stage = "stored" /\ Stored(r) = {}
    BY <1>3, <2>1 DEF Commit, CreationInvariant, SlotFree
  <2>3. PICK answer \in {"created", "runtime"} : Answer(c, answer)
    BY <1>3, <2>1, <2>2 DEF Commit
  <2>4. RegisteredSet' = RegisteredSet \cup {r}
    <3>1. PICK new : new.request = r /\ intents' = intents \cup {new}
      BY <1>3, <2>1, <2>2 DEF Commit
    <3>2. \A i \in intents' : i.request \in RegisteredSet \cup {r}
      BY <3>1 DEF RegisteredSet
    <3>3. \A q \in RegisteredSet \cup {r} : \E i \in intents' : i.request = q
      BY <3>1 DEF RegisteredSet
    <3> QED
      BY <3>2, <3>3 DEF RegisteredSet
  <2>5. \A q \in RegisteredSet : Slot(q) # Slot(r)
    BY <2>2 DEF RegisteredSet, Stored
  <2>6. Confirmed' \in {Confirmed, Confirmed \cup {r}} /\ UNCHANGED Refused
    BY <2>1, <2>2, <2>3, AnswerTells
  <2>7. Registry!Register(r)
    BY <2>4, <2>5, <2>6 DEF Registry!Register, RegisteredSet, Confirmed, Refused
  <2> QED
    BY <2>7 DEF Registry!Next
<1>4. ASSUME NEW c \in Calls, NEW answer \in {"runtime"}, Answer(c, answer), UNCHANGED intents,
             call[c].stage # "answered"
      PROVE  [Registry!Next]_Registry!vars
  BY <1>1, <1>4, AnswerTells DEF RegisteredSet
<1>5. ASSUME NEW c \in Calls, NEW r \in RequestsOf[c], Begin(c, r)
      PROVE  [Registry!Next]_Registry!vars
  <2>1. call[c].answer = "none" /\ call \in [Calls -> CallStates] /\ UNCHANGED intents
    BY <1>5 DEF Begin, CreationInvariant, Typed, Shape
  <2>2. /\ \A d \in Calls \ {c} : call'[d] = call[d]
        /\ call'[c].answer \in {"none", "invalid_intent"}
    BY <1>5, <2>1 DEF Begin, CallStates
  <2> QED
    BY <1>1, <2>1, <2>2, SilentStep
<1>6. ASSUME NEW c \in Calls, UNCHANGED intents,
             \/ \E stage \in {"rendering", "locked", "checked", "stored"} :
                  call' = [call EXCEPT ![c].stage = stage]
             \/ \E digest \in TemplateDigests :
                  call' = [call EXCEPT ![c].stage = "rendered", ![c].digest = digest]
      PROVE  [Registry!Next]_Registry!vars
  <2>1. \A d \in Calls : call'[d].answer = call[d].answer /\ call'[d].request = call[d].request
    BY <1>6 DEF CreationInvariant, Typed, CallStates
  <2> QED
    BY <1>1, <1>6, <2>1, SilentStep
<1>7. ASSUME NEW c \in Calls, Proceed(c)
      PROVE  [Registry!Next]_Registry!vars
  <2>1. CASE FindReplay(c)
    BY <1>2, <1>6, <2>1 DEF FindReplay
  <2>2. CASE Recheck(c)
    BY <1>2, <1>6, <2>2 DEF Recheck
  <2>3. CASE Render(c)
    BY <1>6, <2>3 DEF Render
  <2>4. CASE RenderFails(c)
    BY <1>4, <2>4 DEF RenderFails
  <2>5. CASE LockKey(c)
    BY <1>6, <2>5 DEF LockKey
  <2>6. CASE InsertRelease(c)
    BY <1>4, <1>6, <2>6 DEF InsertRelease
  <2> QED
    BY <1>3, <1>7, <2>1, <2>2, <2>3, <2>4, <2>5, <2>6 DEF Proceed
<1>8. ASSUME NEW c \in Calls, Fail(c)
      PROVE  [Registry!Next]_Registry!vars
  BY <1>4, <1>8 DEF Fail
<1>9. CASE Tick \/ UNCHANGED vars
  <2>1. UNCHANGED <<intents, call>>
    BY <1>9 DEF Tick, vars
  <2> QED
    BY <1>1, <2>1 DEF RegisteredSet, Confirmed, Refused, Requested
<1> QED
  BY <1>5, <1>7, <1>8, <1>9 DEF Next

\* Create calls, statement by statement, implement the registry: a slot is
\* taken once, a caller is told of its own request only, and a conflict is
\* answered only when another request has the slot.
THEOREM RegistryImplemented == Spec => ImplementsRegistry
<1>1. Init => Registry!Init
  <2> SUFFICES ASSUME Init PROVE Registry!Init
    OBVIOUS
  <2> QED
    BY DEF Init, NewCall, Requested, Registry!Init
<1> QED
  BY <1>1, StepImplements, CreationInvariantHolds, PTL
     DEF Spec, ImplementsRegistry, Registry!Spec
=============================================================================
