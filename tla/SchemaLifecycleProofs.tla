------------------------ MODULE SchemaLifecycleProofs ------------------------
(***************************************************************************)
(* Theorems about SchemaLifecycle: its types, that the schema's ledger is  *)
(* never ahead of its tables, and that a schema is adopted only as what    *)
(* the first migration defines, for any number of concurrent adoptions,    *)
(* tables and changes by others.                                           *)
(*                                                                         *)
(* What an adoption has seen stays true for two reasons: the maintenance   *)
(* key keeps every other operator away, and the table locks keep the       *)
(* owners away from what they cover.  AdoptionInvariant says what each     *)
(* stage has therefore established.  The key is also where adoptions wait  *)
(* for each other, and the only place (OneQueue).                          *)
(***************************************************************************)
EXTENDS SchemaLifecycle, TLAPS

\* The stages in which an adoption has the maintenance key, and all its locks.
Serialised == {"own", "examine", "lock", "scope", "tables", "attached", "record", "commit"}
Comparing == {"scope", "tables", "attached", "record", "commit"}

\* Two adoptions never have the maintenance key at the same time.
Exclusive ==
    \A o, q \in Operators : "global" \in job[o].keys /\ "global" \in job[q].keys => o = q

\* o has compared the tables; o has compared everything once.
TablesSeen(o) ==
    \/ job[o].stage \in {"attached", "record", "commit"}
    \/ job[o].stage \in Comparing /\ job[o].pass = 2
AllSeen(o) ==
    \/ job[o].stage \in {"record", "commit"}
    \/ job[o].stage \in Comparing /\ job[o].pass = 2

TablesAsDefined ==
    /\ ledger = Unmanaged
    /\ catalog.definition = Legacy /\ catalog.layout = 1

\* What the stage of an adoption says about its locks and about the database.
Established(o) ==
    /\ job[o].stage \in Serialised => "global" \in job[o].keys
    /\ job[o].stage \in Comparing =>
        job[o].locked = Len(LockOrder) /\ host = "proven" /\ job[o].pass \in {1, 2}
    /\ TablesSeen(o) => TablesAsDefined
    /\ AllSeen(o) => "policy" \notin catalog.extras

AdoptionInvariant ==
    /\ TypeOK
    /\ Exclusive
    /\ \A o \in Operators : Established(o)
    /\ LedgerNeverAhead

-----------------------------------------------------------------------------
(* Locks *)

\* LEGACY_LOCK_SQL names the host's ledger and every table, each a place of
\* its own in the order.
LEMMA OrderOfLocks ==
    /\ Len(LockOrder) \in Nat \ {0}
    /\ \E i \in 1..Len(LockOrder) : LockOrder[i] = HostLedger
    /\ \E i \in 1..Len(LockOrder) : LockOrder[i] = Defined
<1> DEFINE T == TableSet
<1>1. Tables \in Seq(T) /\ Defined \in T
  BY SchemaAssumption
<1>2. PICK i \in DOMAIN Tables : Tables[i] = Defined
  BY <1>1 DEF TableSet
<1> HIDE DEF T
<1>3. Len(Tables) \in Nat /\ i \in 1..Len(Tables)
  BY <1>1, <1>2
<1>4. <<HostLedger>> \in Seq(T \cup {HostLedger}) /\ Tables \in Seq(T \cup {HostLedger})
  BY <1>1
<1>5. Len(LockOrder) = 1 + Len(Tables)
  BY <1>4 DEF LockOrder
<1>6. LockOrder[1] = HostLedger
  BY <1>4 DEF LockOrder
<1>7. LockOrder[i + 1] = Defined
  BY <1>2, <1>3, <1>4 DEF LockOrder
<1> QED BY <1>3, <1>5, <1>6, <1>7

\* An adoption with all its locks has locked the host's ledger and the table
\* that definitions and policies are about.
LEMMA EverythingLocked ==
    ASSUME NEW o \in Operators, job[o].locked = Len(LockOrder)
    PROVE  LockedByAny(HostLedger) /\ LockedByAny(Defined)
BY OrderOfLocks DEF LockedByAny, Locked

-----------------------------------------------------------------------------
(* Steps of calls *)

\* What a call does to its own state alone keeps the invariant, as long as
\* what the call has established goes with it.
LEMMA CallStep ==
    ASSUME AdoptionInvariant, NEW p \in Processes, NEW state \in Jobs,
           job' = [job EXCEPT ![p] = state],
           UNCHANGED <<databaseVars, writer>>, prepared' \in BOOLEAN,
           state.stage = "idle" => state = Idle,
           p = Plugin => state.keys = {} /\ state.locked = 0,
           "global" \in state.keys => "global" \in job[p].keys \/ KeyFree(p, "global"),
           p \in Operators => Established(p)'
    PROVE  AdoptionInvariant'
<1>1. TypeOK'
  <2>1. job' \in [Processes -> Jobs]
    BY DEF AdoptionInvariant, TypeOK
  <2>2. \A q \in Processes : At(q, "idle")' => job'[q] = Idle
    BY DEF AdoptionInvariant, TypeOK, At
  <2>3. job'[Plugin].keys = {} /\ job'[Plugin].locked = 0
    BY DEF AdoptionInvariant, TypeOK, Processes
  <2> QED
    BY <2>1, <2>2, <2>3 DEF AdoptionInvariant, TypeOK, databaseVars
<1>2. Exclusive'
  <2> SUFFICES ASSUME NEW o \in Operators, NEW q \in Operators,
                      "global" \in job'[o].keys, "global" \in job'[q].keys
               PROVE  o = q
    BY DEF Exclusive
  <2>1. o \in Processes /\ q \in Processes
    BY DEF Processes
  <2>2. \A r \in Processes \ {p} : job'[r] = job[r]
    BY DEF AdoptionInvariant, TypeOK
  <2>3. job'[p] = state
    BY DEF AdoptionInvariant, TypeOK
  <2>4. CASE "global" \in job[p].keys
    BY <2>1, <2>2, <2>4 DEF AdoptionInvariant, Exclusive
  <2>5. CASE KeyFree(p, "global")
    BY <2>1, <2>2, <2>5 DEF KeyFree, AdoptionInvariant, Exclusive
  <2> QED
    BY <2>1, <2>2, <2>3, <2>4, <2>5 DEF AdoptionInvariant, Exclusive
<1>3. \A o \in Operators : Established(o)'
  <2> SUFFICES ASSUME NEW o \in Operators, o # p
               PROVE  Established(o)'
    OBVIOUS
  <2>1. job'[o] = job[o]
    BY DEF AdoptionInvariant, TypeOK, Processes
  <2> QED
    BY <2>1 DEF AdoptionInvariant, Established, TablesSeen, AllSeen, TablesAsDefined,
                databaseVars
<1>4. LedgerNeverAhead'
  BY DEF AdoptionInvariant, LedgerNeverAhead, databaseVars
<1> QED
  BY <1>1, <1>2, <1>3, <1>4 DEF AdoptionInvariant

LEMMA IdleIsJob == Idle \in Jobs /\ Idle.stage = "idle" /\ Idle.keys = {} /\ Idle.locked = 0
BY OrderOfLocks DEF Idle, Jobs, Stages

\* A call that ends takes nothing with it, neither keys nor locks (the
\* transaction is committed or dropped).
LEMMA EndStep ==
    ASSUME AdoptionInvariant, NEW p \in Processes, NEW answer, End(p, answer),
           UNCHANGED <<databaseVars, writer>>, prepared' \in BOOLEAN
    PROVE  AdoptionInvariant'
<1>1. job' = [job EXCEPT ![p] = Idle]
  BY DEF End
<1>2. job'[p] = Idle
  BY <1>1 DEF AdoptionInvariant, TypeOK
<1>3. p \in Operators => Established(p)'
  BY <1>2, IdleIsJob DEF Established, TablesSeen, AllSeen, Serialised, Comparing
<1> QED
  BY <1>1, <1>3, IdleIsJob, CallStep

\* A call that goes on, to its next statement or lock.
LEMMA ContinueStep ==
    ASSUME AdoptionInvariant, NEW p \in Processes, NEW state \in Jobs, Continue(p, state),
           UNCHANGED <<databaseVars, writer, prepared>>,
           state.stage # "idle", p = Plugin => state.keys = {} /\ state.locked = 0,
           "global" \in state.keys => "global" \in job[p].keys \/ KeyFree(p, "global"),
           p \in Operators => Established(p)'
    PROVE  AdoptionInvariant'
<1>1. prepared' \in BOOLEAN
  BY DEF AdoptionInvariant, TypeOK
<1> QED
  BY <1>1, CallStep DEF Continue

LEMMA OperatorStep ==
    ASSUME AdoptionInvariant, NEW o \in Operators, UNCHANGED prepared,
           BeginAdoption(o) \/ Examine(o) \/ LockNext(o) \/ CheckHost(o) \/ PlaceLedger(o)
             \/ TakeKey(o, "global", "global", "own") \/ TakeKey(o, "own", "own", "examine")
    PROVE  AdoptionInvariant'
<1>1. o \in Processes /\ o # Plugin
  BY SchemaAssumption DEF Processes
<1>2. job \in [Processes -> Jobs] /\ job[o] \in Jobs /\ prepared' \in BOOLEAN
  BY <1>1 DEF AdoptionInvariant, TypeOK
<1>3. Established(o)
  BY DEF AdoptionInvariant
<1>4. CASE BeginAdoption(o)
  <2> DEFINE state == [job[o] EXCEPT !.stage = "global"]
  <2>1. Continue(o, state) /\ UNCHANGED <<databaseVars, writer, prepared>>
    BY <1>4 DEF BeginAdoption
  <2>2. state \in Jobs /\ job'[o] = state
    BY <1>1, <1>2, <2>1 DEF Jobs, Stages, Continue
  <2>3. Established(o)'
    BY <1>2, <2>2 DEF Established, TablesSeen, AllSeen, Serialised, Comparing, Jobs
  <2> QED
    BY <1>1, <1>2, <2>1, <2>2, <2>3, ContinueStep DEF Jobs
<1>5. CASE TakeKey(o, "global", "global", "own")
  <2> DEFINE state == [job[o] EXCEPT !.stage = "own", !.keys = @ \cup {"global"}]
  <2>1. Continue(o, state) /\ UNCHANGED <<databaseVars, writer, prepared>>
        /\ KeyFree(o, "global")
    BY <1>5 DEF TakeKey
  <2>2. state \in Jobs /\ job'[o] = state
    BY <1>1, <1>2, <2>1 DEF Jobs, Stages, Continue
  <2>3. Established(o)'
    BY <1>2, <2>2 DEF Established, TablesSeen, AllSeen, Serialised, Comparing, Jobs
  <2> QED
    BY <1>1, <1>2, <2>1, <2>2, <2>3, ContinueStep DEF Jobs
<1>6. CASE TakeKey(o, "own", "own", "examine")
  <2> DEFINE state == [job[o] EXCEPT !.stage = "examine", !.keys = @ \cup {"own"}]
  <2>1. Continue(o, state) /\ UNCHANGED <<databaseVars, writer, prepared>>
        /\ job[o].stage = "own"
    BY <1>6 DEF TakeKey, At
  <2>2. state \in Jobs /\ job'[o] = state
    BY <1>1, <1>2, <2>1 DEF Jobs, Stages, Continue
  <2>3. Established(o)'
    BY <1>2, <1>3, <2>1, <2>2
       DEF Established, TablesSeen, AllSeen, Serialised, Comparing, Jobs
  <2>4. "global" \in state.keys => "global" \in job[o].keys
    BY <1>2 DEF Jobs
  <2> QED
    BY <1>1, <1>2, <2>1, <2>2, <2>3, <2>4, ContinueStep DEF Jobs
<1>7. CASE Examine(o)
  <2> DEFINE state == [job[o] EXCEPT !.stage = "lock"]
  <2>1. UNCHANGED <<databaseVars, writer, prepared>> /\ job[o].stage = "examine"
    BY <1>7 DEF Examine, At
  <2>2. CASE ExamineAnswer = "none"
    <3>1. Continue(o, state)
      BY <1>7, <2>2 DEF Examine, GoTo
    <3>2. state \in Jobs /\ job'[o] = state
      BY <1>1, <1>2, <3>1 DEF Jobs, Stages, Continue
    <3>3. Established(o)'
      BY <1>2, <1>3, <2>1, <3>2
         DEF Established, TablesSeen, AllSeen, Serialised, Comparing, Jobs
    <3> QED
      BY <1>1, <1>2, <2>1, <3>1, <3>2, <3>3, ContinueStep DEF Jobs
  <2>3. CASE ExamineAnswer # "none"
    BY <1>1, <1>2, <1>7, <2>1, <2>3, EndStep DEF Examine
  <2> QED
    BY <2>2, <2>3
<1>8. CASE LockNext(o)
  <2> DEFINE state == [job[o] EXCEPT !.locked = @ + 1]
  <2>1. Continue(o, state) /\ UNCHANGED <<databaseVars, writer, prepared>>
        /\ job[o].stage = "lock" /\ job[o].locked # Len(LockOrder)
    BY <1>8 DEF LockNext, At, LockedEnough
  <2>2. state \in Jobs /\ job'[o] = state
    <3>1. job[o].locked + 1 \in 0..Len(LockOrder)
      BY <1>2, <2>1, OrderOfLocks DEF Jobs
    <3>2. state \in Jobs
      BY <1>2, <3>1 DEF Jobs
    <3> QED
      BY <1>1, <1>2, <2>1, <3>2 DEF Continue
  <2>3. Established(o)'
    BY <1>2, <1>3, <2>1, <2>2
       DEF Established, TablesSeen, AllSeen, Serialised, Comparing, Jobs
  <2> QED
    BY <1>1, <1>2, <2>1, <2>2, <2>3, ContinueStep DEF Jobs
<1>9. CASE CheckHost(o)
  <2> DEFINE state == [job[o] EXCEPT !.stage = "scope", !.pass = 1]
  <2>1. UNCHANGED <<databaseVars, writer, prepared>>
        /\ job[o].stage = "lock" /\ job[o].locked = Len(LockOrder)
    BY <1>9 DEF CheckHost, At, LockedEnough
  <2>2. CASE host = "proven"
    <3>1. Continue(o, state)
      BY <1>9, <2>2 DEF CheckHost
    <3>2. state \in Jobs /\ job'[o] = state
      <4>1. 1 \in 0..2 /\ "scope" \in Stages
        BY DEF Stages
      <4>2. state \in Jobs
        BY <1>2, <4>1 DEF Jobs
      <4> QED
        BY <1>1, <1>2, <3>1, <4>2 DEF Continue
    <3>3. Established(o)'
      BY <1>2, <1>3, <2>1, <2>2, <3>2
         DEF Established, TablesSeen, AllSeen, Serialised, Comparing, Jobs, databaseVars
    <3> QED
      BY <1>1, <1>2, <2>1, <3>1, <3>2, <3>3, ContinueStep DEF Jobs
  <2>3. CASE host # "proven"
    BY <1>1, <1>2, <1>9, <2>1, <2>3, EndStep DEF CheckHost
  <2> QED
    BY <2>2, <2>3
<1>10. CASE PlaceLedger(o)
  <2> DEFINE state == [job[o] EXCEPT !.stage = "scope", !.pass = 2]
  <2>1. UNCHANGED <<databaseVars, writer, prepared>> /\ job[o].stage = "record"
    BY <1>10 DEF PlaceLedger, At
  <2>2. CASE Continue(o, state)
    <3>1. state \in Jobs /\ job'[o] = state
      <4>1. 2 \in 0..2 /\ "scope" \in Stages
        BY DEF Stages
      <4>2. state \in Jobs
        BY <1>2, <4>1 DEF Jobs
      <4> QED
        BY <1>1, <1>2, <2>2, <4>2 DEF Continue
    <3>2. Established(o)'
      BY <1>2, <1>3, <2>1, <3>1
         DEF Established, TablesSeen, AllSeen, TablesAsDefined, Serialised, Comparing, Jobs,
             databaseVars
    <3> QED
      BY <1>1, <1>2, <2>1, <2>2, <3>1, <3>2, ContinueStep DEF Jobs
  <2>3. CASE \E answer \in {"database", "mismatch"} : End(o, answer)
    BY <1>1, <1>2, <2>1, <2>3, EndStep
  <2> QED
    BY <1>10, <2>2, <2>3 DEF PlaceLedger
<1> QED
  BY <1>4, <1>5, <1>6, <1>7, <1>8, <1>9, <1>10

\* A part of a comparison: what it found equal has been established.
LEMMA CheckStep ==
    ASSUME AdoptionInvariant, NEW p \in Processes, Check(p)
    PROVE  AdoptionInvariant'
<1>1. job \in [Processes -> Jobs] /\ job[p] \in Jobs /\ prepared' \in BOOLEAN
      /\ (p = Plugin => job[p].keys = {} /\ job[p].locked = 0)
      /\ UNCHANGED <<databaseVars, writer, prepared>>
  BY DEF AdoptionInvariant, TypeOK, Check, Compare
<1>2. CASE \E answer \in {"mismatch"} : End(p, answer)
  BY <1>1, <1>2, EndStep
<1>3. ASSUME NEW next \in Stages \ {"idle"}, GoTo(p, next), p \in Operators => Established(p)'
      PROVE  AdoptionInvariant'
  <2>1. Continue(p, [job[p] EXCEPT !.stage = next])
    BY <1>3 DEF GoTo
  <2>2. [job[p] EXCEPT !.stage = next] \in Jobs
    BY <1>1 DEF Jobs
  <2> QED
    BY <1>1, <1>3, <2>1, <2>2, ContinueStep DEF Jobs
<1>4. ASSUME NEW next \in Stages, GoTo(p, next)
      PROVE  job'[p] = [job[p] EXCEPT !.stage = next]
  BY <1>1, <1>4 DEF GoTo, Continue
<1>5. p \in Operators => Established(p) /\ p # Plugin
  BY SchemaAssumption DEF AdoptionInvariant
<1>6. CASE At(p, "scope") /\ GoTo(p, "tables")
  <2>1. p \in Operators => Established(p)'
    BY <1>1, <1>4, <1>5, <1>6
       DEF At, Established, TablesSeen, AllSeen, TablesAsDefined, Serialised, Comparing, Jobs,
           Stages, databaseVars
  <2> QED
    BY <1>3, <1>6, <2>1 DEF Stages
<1>7. CASE At(p, "tables") /\ GoTo(p, "attached") /\ ~TablesDiffer(p)
  <2>1. p \in Operators => Established(p)'
    BY <1>1, <1>4, <1>5, <1>7
       DEF At, Established, TablesSeen, AllSeen, TablesAsDefined, Serialised, Comparing, Jobs,
           Stages, databaseVars, TablesDiffer, ReferenceLayout
  <2> QED
    BY <1>3, <1>7, <2>1 DEF Stages
<1>8. CASE At(p, "attached") /\ GoTo(p, Decided(p)) /\ ~AttachedDiffers(p)
  <2>1. Decided(p) \in {"replace", "record", "commit"}
    BY <1>1 DEF Decided, Jobs
  <2>2. ASSUME p \in Operators
        PROVE  Established(p)'
    <3>1. Decided(p) \in {"record", "commit"}
      BY <1>5, <1>8, <2>2 DEF At, Decided, Established, Comparing
    <3>2. "policy" \notin catalog.extras
      BY <1>8 DEF AttachedDiffers, Parts
    <3> QED
      BY <1>1, <1>4, <1>5, <1>8, <2>2, <3>1, <3>2
         DEF At, Established, TablesSeen, AllSeen, TablesAsDefined, Serialised, Comparing, Jobs,
             Stages, databaseVars
  <2> QED
    BY <1>3, <1>8, <2>1, <2>2 DEF Stages
<1> QED
  BY <1>2, <1>6, <1>7, <1>8 DEF Check, Compare

\* The commit of an adoption, which nobody else is close to.
LEMMA CommitStep ==
    ASSUME AdoptionInvariant, NEW o \in Operators, CommitAdoption(o), UNCHANGED prepared
    PROVE  AdoptionInvariant'
<1>1. o \in Processes /\ job[o].stage = "commit" /\ UNCHANGED <<catalog, host, writer>>
      /\ job' = [job EXCEPT ![o] = Idle] /\ ledger' = 1
  BY DEF CommitAdoption, At, End, Processes, RecordedVersion
<1>2. job \in [Processes -> Jobs]
  BY DEF AdoptionInvariant, TypeOK
<1>3. "global" \in job[o].keys /\ TablesAsDefined
  BY <1>1 DEF AdoptionInvariant, Established, Serialised, TablesSeen
<1>4. TypeOK'
  <2>1. job' \in [Processes -> Jobs]
    BY <1>1, <1>2, IdleIsJob
  <2>2. \A q \in Processes : At(q, "idle")' => job'[q] = Idle
    BY <1>1, <1>2 DEF AdoptionInvariant, TypeOK, At
  <2>3. job'[Plugin].keys = {} /\ job'[Plugin].locked = 0
    BY <1>1, <1>2, IdleIsJob DEF AdoptionInvariant, TypeOK, Processes
  <2>4. ledger' \in {Unmanaged} \cup 1..Latest
    BY <1>1, SchemaAssumption
  <2> QED
    BY <1>1, <2>1, <2>2, <2>3, <2>4 DEF AdoptionInvariant, TypeOK
<1>5. Exclusive'
  BY <1>1, <1>2, IdleIsJob DEF AdoptionInvariant, Exclusive, Processes
<1>6. \A q \in Operators : Established(q)'
  <2> TAKE q \in Operators
  <2>1. CASE q = o
    <3>1. job'[q] = Idle
      BY <1>1, <1>2, <2>1
    <3> QED
      BY <3>1, IdleIsJob DEF Established, TablesSeen, AllSeen, Serialised, Comparing
  <2>2. CASE q # o
    <3>1. job'[q] = job[q] /\ job[q].stage \notin Serialised
      BY <1>1, <1>2, <1>3, <2>2 DEF AdoptionInvariant, Exclusive, Established, Processes
    <3> QED
      BY <3>1 DEF Established, TablesSeen, AllSeen, Serialised, Comparing
  <2> QED
    BY <2>1, <2>2
<1>7. LedgerNeverAhead'
  BY <1>1, <1>3 DEF LedgerNeverAhead, TablesAsDefined
<1> QED
  BY <1>4, <1>5, <1>6, <1>7 DEF AdoptionInvariant

LEMMA PluginStep ==
    ASSUME AdoptionInvariant, BeginPrepare \/ ReplaceState \/ Deactivate
    PROVE  AdoptionInvariant'
<1>1. Plugin \in Processes /\ Plugin \notin Operators
  BY SchemaAssumption DEF Processes
<1>2. job \in [Processes -> Jobs] /\ job[Plugin] \in Jobs
  BY <1>1 DEF AdoptionInvariant, TypeOK
<1>3. CASE BeginPrepare
  <2> DEFINE state == [job[Plugin] EXCEPT !.stage = "scope"]
  <2>1. UNCHANGED <<databaseVars, writer, prepared>> /\ prepared' \in BOOLEAN
    BY <1>3 DEF BeginPrepare, AdoptionInvariant, TypeOK
  <2>2. CASE Continue(Plugin, state)
    <3>1. state \in Jobs
      BY <1>2 DEF Jobs, Stages
    <3>2. state.keys = {} /\ state.locked = 0 /\ state.stage # "idle"
      BY <1>2 DEF AdoptionInvariant, TypeOK, Jobs
    <3> QED
      BY <1>1, <2>1, <2>2, <3>1, <3>2, ContinueStep
  <2>3. CASE \E answer \in {"database", "ledger_mismatch"} : End(Plugin, answer)
    BY <1>1, <2>1, <2>3, EndStep
  <2> QED
    BY <1>3, <2>2, <2>3 DEF BeginPrepare
<1>4. CASE ReplaceState
  BY <1>1, <1>4, EndStep DEF ReplaceState
<1>5. CASE Deactivate
  <2>1. UNCHANGED <<job, databaseVars, writer>> /\ prepared' \in BOOLEAN
    BY <1>5 DEF Deactivate, Quietly
  <2> QED
    BY <2>1 DEF AdoptionInvariant, TypeOK, Exclusive, Established, TablesSeen, AllSeen,
                TablesAsDefined, LedgerNeverAhead, databaseVars, At
<1> QED
  BY <1>3, <1>4, <1>5

-----------------------------------------------------------------------------
(* Steps of everybody else *)

\* Who changes the database has to leave alone what the adoptions have
\* established.
LEMMA OutsideStep ==
    ASSUME AdoptionInvariant, UNCHANGED <<job, prepared>>, writer' \subseteq TableSet,
           catalog' \in [layout : 0..Latest, definition : Definitions, owned : BOOLEAN,
                         extras : SUBSET Additions],
           ledger' \in {Unmanaged} \cup 1..Latest, host' \in HostProofs,
           LedgerNeverAhead',
           \A o \in Operators : Established(o)'
    PROVE  AdoptionInvariant'
<1>1. TypeOK'
  BY DEF AdoptionInvariant, TypeOK, At
<1>2. Exclusive'
  BY DEF AdoptionInvariant, Exclusive
<1> QED
  BY <1>1, <1>2 DEF AdoptionInvariant

\* setup and upgrade find no adoption under way (the maintenance key).
LEMMA KitStep ==
    ASSUME AdoptionInvariant, KitRuns
    PROVE  AdoptionInvariant'
<1>1. UNCHANGED <<job, prepared, writer, host>> /\ ledger' = Latest
      /\ catalog' = [catalog EXCEPT !.layout = Latest]
  BY DEF KitRuns, Quietly
<1>2. \A o \in Operators : Established(o)'
  BY <1>1 DEF KitRuns, AdoptionInvariant, Established, TablesSeen, AllSeen, Serialised, Comparing
<1>3. catalog' \in [layout : 0..Latest, definition : Definitions, owned : BOOLEAN,
                    extras : SUBSET Additions]
  BY <1>1, SchemaAssumption DEF AdoptionInvariant, TypeOK
<1>4. LedgerNeverAhead' /\ ledger' \in {Unmanaged} \cup 1..Latest
  <2>1. catalog'.layout = Latest
    BY <1>1 DEF AdoptionInvariant, TypeOK
  <2> QED
    BY <1>1, <2>1, SchemaAssumption DEF LedgerNeverAhead
<1> QED
  BY <1>1, <1>2, <1>3, <1>4, OutsideStep DEF AdoptionInvariant, TypeOK

\* Owners, the host and writers: the locks of an adoption keep them away from
\* what it has compared.  Who owns the schema, which they do not protect, is no
\* part of what is established.
LEMMA InterferenceStep ==
    ASSUME AdoptionInvariant,
           \/ \E k \in Additions : Add(k) \/ Drop(k)
           \/ \E d \in Altered : Alter(d)
           \/ ChangeOwner \/ HostChanges \/ WriterEnds
           \/ \E t \in TableSet : WriterTakes(t)
    PROVE  AdoptionInvariant'
<1>1. \A o \in Operators :
        job[o].stage \in Comparing => LockedByAny(HostLedger) /\ LockedByAny(Defined)
  BY EverythingLocked DEF AdoptionInvariant, Established
<1>2. catalog \in [layout : 0..Latest, definition : Definitions, owned : BOOLEAN,
                   extras : SUBSET Additions]
      /\ ledger \in {Unmanaged} \cup 1..Latest /\ host \in HostProofs
      /\ writer \subseteq TableSet
  BY DEF AdoptionInvariant, TypeOK
<1>3. LedgerNeverAhead /\ \A o \in Operators : Established(o)
  BY DEF AdoptionInvariant
<1>4. ASSUME NEW k \in Additions, Add(k) \/ Drop(k)
      PROVE  AdoptionInvariant'
  <2>1. UNCHANGED <<job, prepared, ledger, host, writer>>
    BY <1>4 DEF Add, Drop, Interfere, Quietly
  <2>2. PICK extras \in SUBSET Additions :
          /\ catalog' = [catalog EXCEPT !.extras = extras]
          /\ "policy" \in extras /\ "policy" \notin catalog.extras => ~LockedByAny(Defined)
    <3>1. CASE Add(k)
      <4>1. catalog.extras \cup {k} \in SUBSET Additions
        BY <1>2
      <4> QED
        BY <3>1, <4>1 DEF Add, DefinedFree
    <3>2. CASE Drop(k)
      <4>1. catalog.extras \ {k} \in SUBSET Additions
        BY <1>2
      <4> QED
        BY <3>2, <4>1 DEF Drop, DefinedFree
    <3> QED
      BY <1>4, <3>1, <3>2
  <2>3. /\ catalog' \in [layout : 0..Latest, definition : Definitions, owned : BOOLEAN,
                         extras : SUBSET Additions]
        /\ catalog'.layout = catalog.layout /\ catalog'.definition = catalog.definition
        /\ catalog'.extras = extras
    BY <1>2, <2>2
  <2>4. LedgerNeverAhead'
    BY <1>3, <2>1, <2>3 DEF LedgerNeverAhead
  <2>5. \A o \in Operators : Established(o)'
    BY <1>1, <1>3, <2>1, <2>2, <2>3
       DEF Established, TablesSeen, AllSeen, TablesAsDefined, Comparing
  <2> QED
    BY <1>2, <2>1, <2>3, <2>4, <2>5, OutsideStep
<1>5. ASSUME NEW d \in Altered, Alter(d)
      PROVE  AdoptionInvariant'
  <2>1. UNCHANGED <<job, prepared, ledger, host, writer>> /\ ~LockedByAny(Defined)
        /\ catalog' = [catalog EXCEPT !.definition = d]
    BY <1>5 DEF Alter, Interfere, Quietly, DefinedFree
  <2>2. d \in Definitions
    BY SchemaAssumption
  <2>3. /\ catalog' \in [layout : 0..Latest, definition : Definitions, owned : BOOLEAN,
                         extras : SUBSET Additions]
        /\ catalog'.layout = catalog.layout
    BY <1>2, <2>1, <2>2
  <2>4. LedgerNeverAhead'
    BY <1>3, <2>1, <2>3 DEF LedgerNeverAhead
  <2>5. \A o \in Operators : job[o].stage \notin Comparing
    BY <1>1, <2>1
  <2>6. \A o \in Operators : Established(o)'
    BY <1>3, <2>1, <2>5 DEF Established, TablesSeen, AllSeen, Comparing
  <2> QED
    BY <1>2, <2>1, <2>3, <2>4, <2>6, OutsideStep
<1>6. CASE HostChanges
  <2>1. UNCHANGED <<job, prepared, ledger, catalog, writer>> /\ ~LockedByAny(HostLedger)
        /\ host' \in HostProofs
    BY <1>6 DEF HostChanges, Interfere, Quietly, HostProofs
  <2>2. \A o \in Operators : job[o].stage \notin Comparing
    BY <1>1, <2>1
  <2>3. \A o \in Operators : Established(o)'
    BY <1>3, <2>1, <2>2 DEF Established, TablesSeen, AllSeen, Comparing
  <2>4. LedgerNeverAhead'
    BY <1>3, <2>1 DEF LedgerNeverAhead
  <2> QED
    BY <1>2, <2>1, <2>3, <2>4, OutsideStep
<1>7. CASE WriterEnds \/ \E t \in TableSet : WriterTakes(t)
  <2>1. UNCHANGED <<job, prepared, ledger, catalog, host>> /\ writer' \subseteq TableSet
    BY <1>2, <1>7 DEF WriterEnds, WriterTakes, Quietly, databaseVars
  <2>2. LedgerNeverAhead' /\ \A o \in Operators : Established(o)'
    BY <1>3, <2>1
       DEF LedgerNeverAhead, Established, TablesSeen, AllSeen, TablesAsDefined
  <2> QED
    BY <1>2, <2>1, <2>2, OutsideStep
<1>8. CASE ChangeOwner
  <2>1. UNCHANGED <<job, prepared, ledger, host, writer>>
        /\ catalog' = [catalog EXCEPT !.owned = ~@]
    BY <1>8 DEF ChangeOwner, Interfere, Quietly
  <2>2. /\ catalog' \in [layout : 0..Latest, definition : Definitions, owned : BOOLEAN,
                         extras : SUBSET Additions]
        /\ catalog'.layout = catalog.layout /\ catalog'.definition = catalog.definition
        /\ catalog'.extras = catalog.extras
    BY <1>2, <2>1
  <2>3. LedgerNeverAhead'
    BY <1>3, <2>1, <2>2 DEF LedgerNeverAhead
  <2>4. \A o \in Operators : Established(o)'
    BY <1>3, <2>1, <2>2 DEF Established, TablesSeen, AllSeen, TablesAsDefined, Comparing
  <2> QED
    BY <1>2, <2>1, <2>2, <2>3, <2>4, OutsideStep
<1> QED
  BY <1>4, <1>5, <1>6, <1>7, <1>8

-----------------------------------------------------------------------------
(* Theorems *)

LEMMA InitEstablishes == Init => AdoptionInvariant
<1> SUFFICES ASSUME Init PROVE AdoptionInvariant
  OBVIOUS
<1>1. \A p \in Processes : job[p] = Idle
  BY DEF Init
<1>2. TypeOK
  <2>1. catalog \in [layout : 0..Latest, definition : Definitions, owned : BOOLEAN,
                     extras : SUBSET Additions]
    <3>1. {0} \subseteq 0..Latest /\ {1} \subseteq 0..Latest /\ {Legacy} \subseteq Definitions
      BY SchemaAssumption
    <3>2. {{}} \subseteq SUBSET Additions /\ {{k} : k \in Additions} \subseteq SUBSET Additions
      OBVIOUS
    <3> DEFINE Catalogs(L, D, O, E) == [layout : L, definition : D, owned : O, extras : E]
    <3>3. \A L \in SUBSET (0..Latest), D \in SUBSET Definitions, O \in SUBSET BOOLEAN,
            E \in SUBSET SUBSET Additions :
            Catalogs(L, D, O, E)
              \subseteq Catalogs(0..Latest, Definitions, BOOLEAN, SUBSET Additions)
      OBVIOUS
    <3>4. \/ catalog \in Catalogs({1}, Definitions, {TRUE}, {{}})
          \/ catalog \in Catalogs({1}, {Legacy}, {FALSE}, {{}})
          \/ catalog \in Catalogs({1}, {Legacy}, {TRUE}, {{k} : k \in Additions})
          \/ catalog \in Catalogs({0}, {Legacy}, {TRUE}, {{}})
      BY DEF Init
    <3> HIDE DEF Catalogs
    <3>5. catalog \in Catalogs(0..Latest, Definitions, BOOLEAN, SUBSET Additions)
      BY <3>1, <3>2, <3>3, <3>4
    <3> QED
      BY <3>5 DEF Catalogs
  <2>2. job \in [Processes -> Jobs] /\ job[Plugin].keys = {} /\ job[Plugin].locked = 0
    BY IdleIsJob DEF Init, Processes
  <2> QED
    BY <1>1, <2>1, <2>2 DEF Init, TypeOK
<1>3. Exclusive
  BY <1>1, IdleIsJob DEF Exclusive, Processes
<1>4. \A o \in Operators : Established(o)
  BY <1>1, IdleIsJob DEF Established, TablesSeen, AllSeen, Serialised, Comparing, Processes
<1>5. LedgerNeverAhead
  BY DEF Init, LedgerNeverAhead
<1> QED
  BY <1>2, <1>3, <1>4, <1>5 DEF AdoptionInvariant

LEMMA NextPreserves == AdoptionInvariant /\ [Next]_vars => AdoptionInvariant'
<1> SUFFICES ASSUME AdoptionInvariant, [Next]_vars
             PROVE  AdoptionInvariant'
  OBVIOUS
<1>1. CASE \E o \in Operators : BeginAdoption(o)
  BY <1>1, OperatorStep DEF BeginAdoption
<1>2. CASE BeginPrepare \/ Deactivate
  BY <1>2, PluginStep
<1>3. ASSUME NEW p \in Processes, Step(p)
      PROVE  AdoptionInvariant'
  <2>1. CASE Check(p)
    BY <2>1, CheckStep
  <2>2. CASE p = Plugin /\ ReplaceState
    BY <2>2, PluginStep
  <2>3. ASSUME p \in Operators, Adopt(p)
        PROVE  AdoptionInvariant'
    <3>1. CASE CommitAdoption(p)
      BY <2>3, <3>1, CommitStep DEF CommitAdoption
    <3>2. CASE ~CommitAdoption(p)
      <4>1. UNCHANGED prepared
        BY <2>3, <3>2 DEF Adopt, TakeKey, Examine, LockNext, CheckHost, PlaceLedger
      <4> QED
        BY <2>3, <3>2, <4>1, OperatorStep DEF Adopt
    <3> QED
      BY <3>1, <3>2
  <2> QED
    BY <1>3, <2>1, <2>2, <2>3 DEF Step, Processes
<1>4. ASSUME NEW p \in Processes, Fail(p)
      PROVE  AdoptionInvariant'
  <2>1. prepared' \in BOOLEAN /\ End(p, "database") /\ UNCHANGED <<databaseVars, writer>>
    BY <1>4 DEF Fail, AdoptionInvariant, TypeOK
  <2> QED
    BY <2>1, EndStep
<1>5. CASE KitRuns
  BY <1>5, KitStep
<1>6. CASE \/ ChangeOwner \/ HostChanges \/ WriterEnds
           \/ \E k \in Additions : Add(k) \/ Drop(k)
           \/ \E d \in Altered : Alter(d)
           \/ \E t \in TableSet : WriterTakes(t)
  BY <1>6, InterferenceStep
<1>7. CASE UNCHANGED vars
  BY <1>7 DEF vars, databaseVars, AdoptionInvariant, TypeOK, At, Exclusive, Established,
              TablesSeen, AllSeen, TablesAsDefined, LedgerNeverAhead
<1> QED
  BY <1>1, <1>2, <1>3, <1>4, <1>5, <1>6, <1>7 DEF Next

\* In every reachable state the adoptions are serialised, and what each has
\* established holds (GLOBAL_MAINTENANCE_LOCK_SQL, LEGACY_LOCK_SQL).
THEOREM AdoptionInvariantHolds == Spec => []AdoptionInvariant
<1> QED BY InitEstablishes, NextPreserves, PTL DEF Spec

\* The catalog, the ledger and every call have their types.
THEOREM SchemaTypeCorrect == Spec => []TypeOK
<1>1. AdoptionInvariant => TypeOK
  BY DEF AdoptionInvariant
<1> QED BY <1>1, AdoptionInvariantHolds, PTL

\* The ledger never records a migration that the tables do not show, whoever
\* migrates, adopts or interferes (adopt_legacy, upgrade).
THEOREM LedgerIsNeverAhead == Spec => []LedgerNeverAhead
<1>1. AdoptionInvariant => LedgerNeverAhead
  BY DEF AdoptionInvariant
<1> QED BY <1>1, AdoptionInvariantHolds, PTL

\* A schema is adopted only as what the first migration defines
\* (legacy_schema_matches, and the locks that keep its result true).
THEOREM AdoptionIsExact == Spec => AdoptedExactly
<1> DEFINE Exact(o) ==
      At(o, "commit") /\ ledger' # ledger =>
         /\ ledger = Unmanaged
         /\ catalog.definition = Legacy /\ catalog.layout = 1
         /\ "policy" \notin catalog.extras
         /\ host = "proven"
<1>1. AdoptionInvariant => \A o \in Operators : Exact(o)
  <2> SUFFICES ASSUME AdoptionInvariant, NEW o \in Operators, At(o, "commit")
               PROVE  TablesAsDefined /\ "policy" \notin catalog.extras /\ host = "proven"
    BY DEF TablesAsDefined
  <2> QED
    BY DEF At, AdoptionInvariant, Established, TablesSeen, AllSeen, Comparing
<1>2. AdoptionInvariant /\ [Next]_vars => [\A o \in Operators : Exact(o)]_vars
  BY <1>1
<1> QED BY <1>2, AdoptionInvariantHolds, PTL DEF Spec, AdoptedExactly

-----------------------------------------------------------------------------
(* What a call could have seen *)

\* From its look at the ledger on, an adoption knows that there is none.
Unrecorded(o) ==
    job[o].stage \in {"lock", "scope", "tables", "attached", "record", "commit"} =>
        ledger = Unmanaged

\* Which comparison a call is in: the plugin's only one, or one of an adoption's
\* two.
PassOf(p) ==
    IF p = Plugin
    THEN job[p].pass = 0 /\ job[p].stage \in {"idle", "scope", "tables", "attached", "replace"}
    ELSE /\ job[p].stage # "replace"
         /\ job[p].stage = "commit" => job[p].pass = 2

\* What the parts of the comparison that decides have not found was not there
\* all the time.
Caught(p) ==
    job[p].pass # 1 =>
        /\ job[p].stage \in {"tables", "attached", "commit", "replace"} =>
             witness[p].steady \cap Parts.scope = {}
        /\ job[p].stage \in {"attached", "commit", "replace"} =>
             witness[p].steady \cap {"relation", "definition", "layout", "owner"} = {}
        /\ job[p].stage \in {"commit", "replace"} =>
             witness[p].steady \cap Parts.attached = {}

\* The history of a call is about the differences that there are.
Watched(p) ==
    job[p].stage # "idle" =>
        /\ witness[p].steady \subseteq Differences(p)
        /\ Differences(p) # {} => witness[p].dirty

Witnesses ==
    [steady : SUBSET (Kinds \cup {"definition", "layout", "owner", "host"}), dirty : BOOLEAN]

WitnessInvariant ==
    /\ witness \in [Processes -> Witnesses]
    /\ \A o \in Operators : Unrecorded(o)
    /\ \A p \in Processes : PassOf(p) /\ Watched(p) /\ Caught(p)

\* There is nothing else that can differ.
LEMMA DifferencesAreKnown ==
    ASSUME TypeOK, NEW p
    PROVE  Differences(p) \in SUBSET (Kinds \cup {"definition", "layout", "owner", "host"})
BY SchemaAssumption DEF TypeOK, Differences

LEMMA WitnessTyped ==
    ASSUME WitnessInvariant, NEW p \in Processes
    PROVE  witness[p].steady \in SUBSET (Kinds \cup {"definition", "layout", "owner", "host"})
           /\ witness[p].dirty \in BOOLEAN
BY DEF WitnessInvariant, Witnesses

\* A step of one call, which leaves alone what the others compare.
LEMMA CallWitness ==
    ASSUME AdoptionInvariant, WitnessInvariant, NEW p \in Processes,
           NEW state, NEW seen \in Witnesses,
           job' = [job EXCEPT ![p] = state], witness' = [witness EXCEPT ![p] = seen],
           UNCHANGED <<catalog, host>>,
           \A o \in Operators : Unrecorded(o)',
           PassOf(p)', Watched(p)', Caught(p)'
    PROVE  WitnessInvariant'
<1>1. witness' \in [Processes -> Witnesses]
  BY DEF WitnessInvariant
<1>2. ASSUME NEW q \in Processes, q # p
      PROVE  PassOf(q)' /\ Watched(q)' /\ Caught(q)'
  <2>1. job'[q] = job[q] /\ witness'[q] = witness[q]
    BY <1>2 DEF WitnessInvariant, AdoptionInvariant, TypeOK
  <2>2. PassOf(q)' /\ Caught(q)'
    BY <2>1 DEF WitnessInvariant, PassOf, Caught
  <2>3. Differences(q)' = Differences(q)
    BY DEF Differences, ReferenceLayout
  <2>4. Watched(q)'
    BY <2>1, <2>3 DEF WitnessInvariant, Watched
  <2> QED
    BY <2>2, <2>4
<1> QED
  BY <1>1, <1>2 DEF WitnessInvariant

\* A call that ends.
LEMMA EndWitness ==
    ASSUME AdoptionInvariant, WitnessInvariant, NEW p \in Processes, NEW answer, End(p, answer),
           UNCHANGED <<catalog, host>>,
           \A o \in Operators \ {p} : Unrecorded(o)'
    PROVE  WitnessInvariant'
<1>1. job' = [job EXCEPT ![p] = Idle] /\ witness' = [witness EXCEPT ![p] = Unseen]
  BY DEF End
<1>2. job'[p] = Idle
  BY <1>1 DEF AdoptionInvariant, TypeOK
<1>3. Unseen \in Witnesses
  BY DEF Unseen, Witnesses
<1>4. PassOf(p)' /\ Watched(p)' /\ Caught(p)' /\ Unrecorded(p)'
  BY <1>2 DEF Idle, PassOf, Watched, Caught, Unrecorded
<1> QED
  BY <1>1, <1>3, <1>4, CallWitness

\* A call that goes on without looking at the database, or having looked at it.
LEMMA GoOnWitness ==
    ASSUME AdoptionInvariant, WitnessInvariant, NEW p \in Processes, NEW state,
           Continue(p, state), UNCHANGED <<catalog, ledger, host, witness>>, job[p].stage # "idle",
           p \in Operators => Unrecorded(p)', PassOf(p)', Caught(p)'
    PROVE  WitnessInvariant'
<1>1. job' = [job EXCEPT ![p] = state] /\ witness' = [witness EXCEPT ![p] = witness[p]]
      /\ witness[p] \in Witnesses
  BY DEF Continue, WitnessInvariant
<1>2. \A o \in Operators \ {p} : job'[o] = job[o]
  BY <1>1 DEF AdoptionInvariant, TypeOK, Processes
<1>3. \A o \in Operators : Unrecorded(o)'
  BY <1>2 DEF Unrecorded, WitnessInvariant
<1>4. Differences(p)' = Differences(p)
  BY DEF Differences, ReferenceLayout
<1>5. Watched(p)'
  BY <1>4 DEF WitnessInvariant, Watched
<1> QED
  BY <1>1, <1>3, <1>5, CallWitness

\* A call that begins a check.
LEMMA FreshWitness ==
    ASSUME AdoptionInvariant, WitnessInvariant, NEW p \in Processes, NEW state,
           Continue(p, state), Fresh(p), UNCHANGED <<catalog, ledger, host>>,
           state.stage \in {"global", "scope"},
           p \in Operators => Unrecorded(p)', PassOf(p)'
    PROVE  WitnessInvariant'
<1> DEFINE seen == [steady |-> Differences(p), dirty |-> witness[p].dirty \/ Differences(p) # {}]
<1>1. job' = [job EXCEPT ![p] = state] /\ witness' = [witness EXCEPT ![p] = seen]
  BY DEF Continue, Fresh
<1>2. job'[p] = state /\ witness'[p] = seen /\ \A o \in Operators \ {p} : job'[o] = job[o]
  BY <1>1 DEF AdoptionInvariant, TypeOK, Processes, WitnessInvariant
<1>3. seen \in Witnesses
  BY DifferencesAreKnown DEF Witnesses, AdoptionInvariant
<1>4. \A o \in Operators : Unrecorded(o)'
  BY <1>2 DEF Unrecorded, WitnessInvariant
<1>5. Differences(p)' = Differences(p)
  BY DEF Differences, ReferenceLayout
<1>6. Watched(p)'
  <2>1. seen.steady = Differences(p) /\ (Differences(p) # {} => seen.dirty)
    OBVIOUS
  <2> HIDE DEF seen
  <2> QED
    BY <1>2, <1>5, <2>1, Zenon DEF Watched
<1>7. Caught(p)'
  BY <1>2 DEF Caught
<1> QED
  BY <1>1, <1>3, <1>4, <1>6, <1>7, CallWitness

\* Everybody who changes what calls compare is watched by all of them.
LEMMA DatabaseWitness ==
    ASSUME AdoptionInvariant, TypeOK', WitnessInvariant, Witness, UNCHANGED job,
           \A o \in Operators : Unrecorded(o)'
    PROVE  WitnessInvariant'
<1>1. \A p \in Processes :
        witness'[p] = IF job[p].stage = "idle" THEN Unseen
                      ELSE [steady |-> witness[p].steady \cap Differences(p)',
                            dirty |-> witness[p].dirty \/ Differences(p)' # {}]
  BY DEF Witness
<1>2. witness' \in [Processes -> Witnesses]
  <2>1. \A S \in SUBSET (Kinds \cup {"definition", "layout", "owner", "host"}), b \in BOOLEAN :
          [steady |-> S, dirty |-> b] \in Witnesses
    BY DEF Witnesses
  <2>2. ASSUME NEW p \in Processes
        PROVE  witness'[p] \in Witnesses
    <3> DEFINE dirty == witness[p].dirty \/ Differences(p)' # {}
               steady == witness[p].steady \cap Differences(p)'
    <3>1. dirty \in BOOLEAN
      OBVIOUS
    <3>2. steady \in SUBSET (Kinds \cup {"definition", "layout", "owner", "host"})
      BY WitnessTyped
    <3>3. witness'[p] \in {Unseen, [steady |-> steady, dirty |-> dirty]}
      BY <1>1, Zenon
    <3> HIDE DEF steady, dirty
    <3>4. [steady |-> steady, dirty |-> dirty] \in Witnesses
      BY <2>1, <3>1, <3>2, Zenon
    <3>5. Unseen \in Witnesses
      BY <2>1 DEF Unseen
    <3> QED
      BY <3>3, <3>4, <3>5
  <2> QED
    BY <2>2 DEF Witness
<1>3. ASSUME NEW p \in Processes
      PROVE  PassOf(p)' /\ Watched(p)' /\ Caught(p)'
  <2>1. PassOf(p)'
    BY DEF WitnessInvariant, PassOf
  <2>2. CASE job[p].stage = "idle"
    BY <2>1, <2>2 DEF Watched, Caught
  <2>3. CASE job[p].stage # "idle"
    <3>1. witness'[p].steady \subseteq witness[p].steady
          /\ witness'[p].steady \subseteq Differences(p)'
          /\ (Differences(p)' # {} => witness'[p].dirty)
      <4> DEFINE dirty == witness[p].dirty \/ Differences(p)' # {}
                 steady == witness[p].steady \cap Differences(p)'
      <4>1. Differences(p)' # {} => dirty
        OBVIOUS
      <4>2. steady \subseteq witness[p].steady /\ steady \subseteq Differences(p)'
        OBVIOUS
      <4>3. witness'[p] = [steady |-> steady, dirty |-> dirty]
        BY <1>1, <2>3, Zenon
      <4> HIDE DEF steady, dirty
      <4>4. witness'[p].steady = steady /\ witness'[p].dirty = dirty
        BY <4>3
      <4> QED
        BY <4>1, <4>2, <4>4, Zenon
    <3>2. Watched(p)'
      BY <3>1 DEF Watched
    <3>3. Caught(p)'
      BY <3>1 DEF WitnessInvariant, Caught
    <3> QED
      BY <2>1, <3>2, <3>3
  <2> QED
    BY <2>2, <2>3
<1> QED
  BY <1>2, <1>3 DEF WitnessInvariant

\* Steps that no call is concerned with.
LEMMA NothingSeen ==
    ASSUME WitnessInvariant, UNCHANGED <<catalog, ledger, host, job, witness>>
    PROVE  WitnessInvariant'
BY DEF WitnessInvariant, Unrecorded, PassOf, Watched, Caught, Differences, ReferenceLayout

\* The statements of an adoption before its first comparison, and its commit.
LEMMA OperatorWitness ==
    ASSUME AdoptionInvariant, WitnessInvariant, NEW o \in Operators,
           BeginAdoption(o) \/ Adopt(o)
    PROVE  WitnessInvariant'
<1>1. o \in Processes /\ o # Plugin /\ \A q \in Operators : q \in Processes /\ q # Plugin
  BY SchemaAssumption DEF Processes
<1>2. job \in [Processes -> Jobs] /\ job[o] \in Jobs
  BY <1>1 DEF AdoptionInvariant, TypeOK
<1>3. Established(o) /\ Unrecorded(o) /\ PassOf(o) /\ Caught(o)
  BY <1>1 DEF AdoptionInvariant, WitnessInvariant
<1>4. ASSUME UNCHANGED <<job, ledger>> \/ (UNCHANGED ledger /\ \E state : job' = [job EXCEPT ![o] = state])
      PROVE  \A q \in Operators \ {o} : Unrecorded(q)'
  BY <1>1, <1>2, <1>4 DEF WitnessInvariant, Unrecorded
<1>5. ASSUME NEW answer, End(o, answer), UNCHANGED <<catalog, ledger, host>>
      PROVE  WitnessInvariant'
  BY <1>1, <1>4, <1>5, EndWitness DEF End
<1>6. CASE BeginAdoption(o)
  <2> DEFINE state == [job[o] EXCEPT !.stage = "global"]
  <2>1. Continue(o, state) /\ Fresh(o) /\ UNCHANGED <<catalog, ledger, host>>
    BY <1>6 DEF BeginAdoption, databaseVars
  <2>2. job'[o] = state /\ state.stage = "global"
    BY <1>1, <1>2, <2>1 DEF Continue, Jobs
  <2>3. Unrecorded(o)' /\ PassOf(o)'
    BY <1>1, <2>2 DEF Unrecorded, PassOf
  <2> QED
    BY <1>1, <2>1, <2>2, <2>3, FreshWitness
<1>7. ASSUME NEW stage, NEW key, NEW next \in {"own", "examine"}, TakeKey(o, stage, key, next),
             stage # "idle"
      PROVE  WitnessInvariant'
  <2> DEFINE state == [job[o] EXCEPT !.stage = next, !.keys = @ \cup {key}]
  <2>1. Continue(o, state) /\ UNCHANGED <<catalog, ledger, host, witness>> /\ job[o].stage = stage
    BY <1>7 DEF TakeKey, databaseVars, At
  <2>2. job'[o] = state /\ state.stage = next
    BY <1>1, <1>2, <2>1 DEF Continue, Jobs
  <2>3. Unrecorded(o)' /\ PassOf(o)' /\ Caught(o)'
    BY <1>1, <2>2 DEF Unrecorded, PassOf, Caught
  <2> QED
    BY <1>1, <1>7, <2>1, <2>3, GoOnWitness
<1>8. CASE Examine(o)
  <2> DEFINE state == [job[o] EXCEPT !.stage = "lock"]
  <2>1. UNCHANGED <<catalog, ledger, host>> /\ job[o].stage = "examine"
    BY <1>8 DEF Examine, databaseVars, At
  <2>2. CASE ExamineAnswer = "none"
    <3>1. Continue(o, state) /\ UNCHANGED witness
      BY <1>8, <2>2 DEF Examine, GoTo
    <3>2. job'[o] = state /\ state.stage = "lock"
      BY <1>1, <1>2, <3>1 DEF Continue, Jobs
    <3>3. ledger = Unmanaged
      BY <2>2 DEF ExamineAnswer
    <3>4. Unrecorded(o)' /\ PassOf(o)' /\ Caught(o)'
      BY <1>1, <2>1, <3>2, <3>3 DEF Unrecorded, PassOf, Caught
    <3> QED
      BY <1>1, <2>1, <3>1, <3>4, GoOnWitness
  <2>3. CASE ExamineAnswer # "none"
    BY <1>5, <1>8, <2>1, <2>3 DEF Examine
  <2> QED
    BY <2>2, <2>3
<1>9. CASE LockNext(o)
  <2> DEFINE state == [job[o] EXCEPT !.locked = @ + 1]
  <2>1. Continue(o, state) /\ UNCHANGED <<catalog, ledger, host, witness>> /\ job[o].stage = "lock"
    BY <1>9 DEF LockNext, databaseVars, At
  <2>2. job'[o] = state /\ state.stage = "lock"
    BY <1>1, <1>2, <2>1 DEF Continue, Jobs
  <2>3. Unrecorded(o)' /\ PassOf(o)' /\ Caught(o)'
    BY <1>1, <1>3, <2>1, <2>2 DEF Unrecorded, PassOf, Caught
  <2> QED
    BY <1>1, <2>1, <2>3, GoOnWitness
<1>10. CASE CheckHost(o)
  <2> DEFINE state == [job[o] EXCEPT !.stage = "scope", !.pass = 1]
  <2>1. UNCHANGED <<catalog, ledger, host>> /\ job[o].stage = "lock"
    BY <1>10 DEF CheckHost, databaseVars, At
  <2>2. CASE host = "proven"
    <3>1. Continue(o, state) /\ UNCHANGED witness
      BY <1>10, <2>2 DEF CheckHost
    <3>2. job'[o] = state /\ state.stage = "scope"
      BY <1>1, <1>2, <3>1 DEF Continue, Jobs
    <3>3. Unrecorded(o)' /\ PassOf(o)' /\ Caught(o)'
      BY <1>1, <1>3, <2>1, <3>2 DEF Unrecorded, PassOf, Caught
    <3> QED
      BY <1>1, <2>1, <3>1, <3>3, GoOnWitness
  <2>3. CASE host # "proven"
    BY <1>5, <1>10, <2>1, <2>3 DEF CheckHost
  <2> QED
    BY <2>2, <2>3
<1>11. CASE PlaceLedger(o)
  <2> DEFINE state == [job[o] EXCEPT !.stage = "scope", !.pass = 2]
  <2>1. UNCHANGED <<catalog, ledger, host>> /\ job[o].stage = "record"
    BY <1>11 DEF PlaceLedger, databaseVars, At
  <2>2. CASE Continue(o, state) /\ Fresh(o)
    <3>1. job'[o] = state /\ state.stage = "scope"
      BY <1>1, <1>2, <2>2 DEF Continue, Jobs
    <3>2. Unrecorded(o)' /\ PassOf(o)'
      BY <1>1, <1>3, <2>1, <3>1 DEF Unrecorded, PassOf
    <3> QED
      BY <1>1, <2>1, <2>2, <3>1, <3>2, FreshWitness
  <2>3. CASE \E answer \in {"database", "mismatch"} : End(o, answer)
    BY <1>5, <2>1, <2>3
  <2> QED
    BY <1>11, <2>2, <2>3 DEF PlaceLedger
<1>12. CASE CommitAdoption(o)
  <2>1. PICK answer : End(o, answer)
    BY <1>12 DEF CommitAdoption
  <2>2. UNCHANGED <<catalog, host>> /\ job[o].stage = "commit"
    BY <1>12 DEF CommitAdoption, At
  <2>3. ASSUME NEW q \in Operators \ {o}
        PROVE  Unrecorded(q)'
    <3>1. job'[q] = job[q]
      BY <1>1, <1>2, <2>1 DEF End
    <3>2. job[q].stage \notin Serialised
      BY <1>3, <2>2 DEF AdoptionInvariant, Exclusive, Established, Serialised
    <3> QED
      BY <3>1, <3>2 DEF Unrecorded, Serialised
  <2> QED
    BY <1>1, <2>1, <2>2, <2>3, EndWitness
<1> QED
  BY <1>6, <1>7, <1>8, <1>9, <1>10, <1>11, <1>12 DEF Adopt

\* A part that has found no difference has caught what was there all the time.
LEMMA CheckWitness ==
    ASSUME AdoptionInvariant, WitnessInvariant, NEW p \in Processes, Check(p)
    PROVE  WitnessInvariant'
<1>1. job \in [Processes -> Jobs] /\ job[p] \in Jobs /\ UNCHANGED <<catalog, ledger, host>>
  BY DEF AdoptionInvariant, TypeOK, Check, Compare, databaseVars
<1>2. /\ p \in Operators => Established(p) /\ Unrecorded(p) /\ p # Plugin
      /\ PassOf(p) /\ Watched(p) /\ Caught(p)
  BY SchemaAssumption DEF AdoptionInvariant, WitnessInvariant
<1>3. CASE End(p, "mismatch")
  <2>1. \A q \in Operators \ {p} : job'[q] = job[q]
    BY <1>1, <1>3 DEF End, Processes
  <2>2. \A q \in Operators \ {p} : Unrecorded(q)'
    BY <1>1, <2>1 DEF WitnessInvariant, Unrecorded
  <2> QED
    BY <1>1, <1>3, <2>2, EndWitness
<1>4. ASSUME NEW next, GoTo(p, next), job[p].stage \in {"scope", "tables", "attached"},
             p \in Operators => Unrecorded(p)', PassOf(p)', Caught(p)'
      PROVE  WitnessInvariant'
  <2>1. Continue(p, [job[p] EXCEPT !.stage = next]) /\ UNCHANGED witness
    BY <1>4 DEF GoTo
  <2> QED
    BY <1>1, <1>4, <2>1, GoOnWitness
<1>5. ASSUME NEW next, GoTo(p, next)
      PROVE  job'[p] = [job[p] EXCEPT !.stage = next] /\ job'[p].stage = next
             /\ job'[p].pass = job[p].pass /\ UNCHANGED witness
  BY <1>1, <1>5 DEF GoTo, Continue, Jobs
<1>6. p = Plugin => job[p].pass = 0
  BY <1>2 DEF PassOf
<1>7. CASE At(p, "scope") /\ GoTo(p, "tables") /\ ~ScopeDiffers(p)
  <2>0. job'[p].stage = "tables" /\ job'[p].pass = job[p].pass /\ UNCHANGED witness
    BY <1>5, <1>7
  <2>1. p \in Operators => Unrecorded(p)'
    BY <1>1, <1>2, <1>7 DEF At, Unrecorded
  <2>2. PassOf(p)'
    BY <1>2, <2>0, <1>7 DEF At, PassOf
  <2>3. job[p].pass # 1 => catalog.extras \cap Parts.scope = {}
    BY <1>7 DEF ScopeDiffers
  <2>4. job[p].pass # 1 => witness[p].steady \cap Parts.scope = {}
    BY <1>2, <1>7, <2>3 DEF At, Watched, Differences, Parts
  <2>5. Caught(p)'
    BY <2>0, <1>7, <2>4 DEF Caught
  <2> QED
    BY <1>4, <1>7, <2>1, <2>2, <2>5 DEF At
<1>8. CASE At(p, "tables") /\ GoTo(p, "attached") /\ ~TablesDiffer(p)
  <2>0. job'[p].stage = "attached" /\ job'[p].pass = job[p].pass /\ UNCHANGED witness
    BY <1>5, <1>8
  <2>1. p \in Operators => Unrecorded(p)'
    BY <1>1, <1>2, <1>8 DEF At, Unrecorded
  <2>2. PassOf(p)'
    BY <1>2, <2>0, <1>8 DEF At, PassOf
  <2>3. Differences(p) \cap {"relation", "definition", "layout", "owner"} = {}
    <3>1. catalog.extras \subseteq Kinds
      BY SchemaAssumption DEF AdoptionInvariant, TypeOK
    <3> QED
      BY <1>8, <3>1 DEF TablesDiffer, Differences, Parts, Kinds
  <2>4. witness[p].steady \cap {"relation", "definition", "layout", "owner"} = {}
    BY <1>2, <1>8, <2>3 DEF At, Watched
  <2>5. Caught(p)'
    BY <1>2, <2>0, <1>8, <2>4 DEF At, Caught
  <2> QED
    BY <1>4, <1>8, <2>1, <2>2, <2>5 DEF At
<1>9. CASE At(p, "attached") /\ GoTo(p, Decided(p)) /\ ~AttachedDiffers(p)
  <2>1. /\ job[p].pass = 0 => Decided(p) = "replace"
        /\ job[p].pass = 1 => Decided(p) = "record"
        /\ job[p].pass = 2 => Decided(p) = "commit"
        /\ job[p].pass \in 0..2
    BY <1>1 DEF Decided, Jobs
  <2>2. p # Plugin => job[p].pass \in {1, 2} /\ p \in Operators
    BY <1>2, <1>9 DEF At, Established, Comparing, Processes
  <2>3. p \in Operators => Unrecorded(p)'
    BY <1>1, <1>2, <1>9 DEF At, Unrecorded
  <2>4. PassOf(p)'
    BY <1>2, <1>5, <1>6, <1>9, <2>1, <2>2 DEF PassOf
  <2>5. catalog.extras \cap Parts.attached = {}
    BY <1>9 DEF AttachedDiffers
  <2>6. witness[p].steady \cap Parts.attached = {}
    BY <1>2, <1>9, <2>5 DEF At, Watched, Differences, Parts
  <2>7. Caught(p)'
    BY <1>2, <1>5, <1>9, <2>1, <2>6 DEF At, Caught
  <2> QED
    BY <1>4, <1>9, <2>3, <2>4, <2>7 DEF At
<1> QED
  BY <1>3, <1>7, <1>8, <1>9 DEF Check, Compare

LEMMA PluginWitness ==
    ASSUME AdoptionInvariant, WitnessInvariant, BeginPrepare \/ ReplaceState
    PROVE  WitnessInvariant'
<1>1. Plugin \in Processes /\ Plugin \notin Operators
  BY SchemaAssumption DEF Processes
<1>2. job \in [Processes -> Jobs] /\ job[Plugin] \in Jobs /\ UNCHANGED <<catalog, ledger, host>>
  BY <1>1 DEF AdoptionInvariant, TypeOK, BeginPrepare, ReplaceState, databaseVars
<1>3. ASSUME NEW answer, End(Plugin, answer)
      PROVE  WitnessInvariant'
  <2>1. \A q \in Operators : job'[q] = job[q]
    BY <1>1, <1>2, <1>3 DEF End, Processes
  <2>2. \A q \in Operators : Unrecorded(q)'
    BY <1>2, <2>1 DEF WitnessInvariant, Unrecorded
  <2> QED
    BY <1>1, <1>2, <1>3, <2>2, EndWitness
<1> DEFINE state == [job[Plugin] EXCEPT !.stage = "scope"]
<1>4. CASE Continue(Plugin, state) /\ Fresh(Plugin)
  <2>1. job'[Plugin] = state /\ state.stage = "scope" /\ state.pass = job[Plugin].pass
    BY <1>1, <1>2, <1>4 DEF Continue, Jobs
  <2>2. PassOf(Plugin)'
    BY <1>1, <2>1 DEF WitnessInvariant, PassOf
  <2> QED
    BY <1>1, <1>2, <1>4, <2>1, <2>2, FreshWitness
<1> QED
  BY <1>3, <1>4 DEF BeginPrepare, ReplaceState

\* Everybody else.
LEMMA OutsideWitness ==
    ASSUME AdoptionInvariant, TypeOK', WitnessInvariant,
           \/ KitRuns \/ ChangeOwner \/ HostChanges
           \/ \E k \in Additions : Add(k) \/ Drop(k)
           \/ \E d \in Altered : Alter(d)
    PROVE  WitnessInvariant'
<1>1. UNCHANGED job /\ Witness
  BY DEF KitRuns, ChangeOwner, HostChanges, Add, Drop, Alter, Interfere, Quietly
<1>2. CASE KitRuns
  <2>1. \A o \in Operators : job[o].stage \notin Serialised
    BY <1>2 DEF KitRuns, AdoptionInvariant, Established
  <2>2. \A o \in Operators : Unrecorded(o)'
    BY <1>1, <2>1 DEF Unrecorded, Serialised
  <2> QED
    BY <1>1, <2>2, DatabaseWitness
<1>3. CASE UNCHANGED ledger
  <2>1. \A o \in Operators : Unrecorded(o)'
    BY <1>1, <1>3 DEF WitnessInvariant, Unrecorded
  <2> QED
    BY <1>1, <2>1, DatabaseWitness
<1> QED
  BY <1>2, <1>3 DEF ChangeOwner, HostChanges, Add, Drop, Alter, Interfere

LEMMA InitWitness == Init => WitnessInvariant
<1> SUFFICES ASSUME Init PROVE WitnessInvariant
  OBVIOUS
<1>1. \A p \in Processes : job[p].stage = "idle" /\ job[p].pass = 0
  BY DEF Init, Idle
<1>2. witness \in [Processes -> Witnesses]
  BY DEF Init, Unseen, Witnesses
<1>3. \A o \in Operators : Unrecorded(o)
  BY DEF Init, Unrecorded
<1> QED
  BY <1>1, <1>2, <1>3 DEF WitnessInvariant, PassOf, Watched, Caught

LEMMA NextWitness ==
    AdoptionInvariant /\ AdoptionInvariant' /\ WitnessInvariant /\ [Next]_vars => WitnessInvariant'
<1> SUFFICES ASSUME AdoptionInvariant, TypeOK', WitnessInvariant, [Next]_vars
             PROVE  WitnessInvariant'
  BY DEF AdoptionInvariant
<1>1. CASE \E o \in Operators : BeginAdoption(o)
  BY <1>1, OperatorWitness
<1>2. CASE BeginPrepare
  BY <1>2, PluginWitness
<1>3. ASSUME NEW p \in Processes, Step(p)
      PROVE  WitnessInvariant'
  BY <1>3, CheckWitness, PluginWitness, OperatorWitness DEF Step, Processes
<1>4. ASSUME NEW p \in Processes, Fail(p)
      PROVE  WitnessInvariant'
  <2>1. End(p, "database") /\ UNCHANGED <<catalog, ledger, host>>
    BY <1>4 DEF Fail, databaseVars
  <2>2. \A q \in Operators \ {p} : job'[q] = job[q]
    BY <2>1 DEF End, AdoptionInvariant, TypeOK, Processes
  <2>3. \A q \in Operators \ {p} : Unrecorded(q)'
    BY <2>1, <2>2 DEF WitnessInvariant, Unrecorded
  <2> QED
    BY <2>1, <2>3, EndWitness
<1>5. CASE \/ KitRuns \/ ChangeOwner \/ HostChanges
           \/ \E k \in Additions : Add(k) \/ Drop(k)
           \/ \E d \in Altered : Alter(d)
  BY <1>5, OutsideWitness
<1>6. CASE \/ Deactivate \/ WriterEnds \/ UNCHANGED vars
           \/ \E t \in TableSet : WriterTakes(t)
  BY <1>6, NothingSeen DEF Deactivate, WriterEnds, WriterTakes, Quietly, vars, databaseVars
<1> QED
  BY <1>1, <1>2, <1>3, <1>4, <1>5, <1>6 DEF Next

\* In every reachable state the history of a call tells what it could have
\* seen, and what its parts cannot have missed.
LEMMA WitnessInvariantHolds == Spec => []WitnessInvariant
<1> QED BY InitWitness, NextWitness, AdoptionInvariantHolds, PTL DEF Spec

-----------------------------------------------------------------------------
(* Answers *)

\* What an answer says about what its call could have seen.
Justified(p, answer) ==
    /\ answer \in {"adopted", "prepared"} => witness[p].steady = {}
    /\ answer \in {"mismatch", "host_mismatch"} => witness[p].dirty

Answered(p) == \E answer : told' = [to |-> p, answer |-> answer] /\ Justified(p, answer)

\* An answer that ends a call says nothing but what it is.
LEMMA EndAnswers ==
    ASSUME NEW p, NEW answer, End(p, answer), Justified(p, answer)
    PROVE  Answered(p)
BY DEF End, Answered

\* Nothing was there all the time if each part looked for its share of it.
LEMMA NothingLeft ==
    ASSUME AdoptionInvariant, WitnessInvariant, NEW p \in Processes,
           job[p].stage \in {"commit", "replace"}
    PROVE  witness[p].steady = {}
<1>1. PassOf(p) /\ Watched(p) /\ Caught(p) /\ (p \in Operators => Established(p) /\ p # Plugin)
  BY SchemaAssumption DEF WitnessInvariant, AdoptionInvariant
<1>2. job[p].pass # 1
  BY <1>1 DEF PassOf
<1>3. witness[p].steady \cap (Kinds \cup {"definition", "layout", "owner"}) = {}
  BY <1>1, <1>2 DEF Caught, Parts, Kinds
<1>4. "host" \notin Differences(p)
  <2>1. p # Plugin => host = "proven"
    BY <1>1 DEF PassOf, Established, Comparing, Processes
  <2>2. "host" \notin catalog.extras
    BY SchemaAssumption DEF AdoptionInvariant, TypeOK, Kinds
  <2> QED
    BY <2>1, <2>2 DEF Differences
<1>5. witness[p].steady \subseteq Kinds \cup {"definition", "layout", "owner", "host"}
  BY WitnessTyped
<1> QED
  BY <1>1, <1>3, <1>4, <1>5 DEF Watched

\* A difference of the moment has made the call's history dirty.
LEMMA DirtyNow ==
    ASSUME WitnessInvariant, NEW p \in Processes, job[p].stage # "idle", Differences(p) # {}
    PROVE  witness[p].dirty
BY DEF WitnessInvariant, Watched

LEMMA ExamineJustified ==
    ASSUME AdoptionInvariant, WitnessInvariant, NEW o \in Operators, Examine(o)
    PROVE  told' = NoAnswer \/ Answered(o)
<1>1. o \in Processes /\ o # Plugin /\ job[o].stage # "idle"
  BY SchemaAssumption DEF Processes, Examine, At
<1>2. CASE ExamineAnswer = "none"
  BY <1>2 DEF Examine, GoTo, Continue
<1>3. CASE ExamineAnswer # "none"
  <2>1. ExamineAnswer \in {"schema_missing", "ownership_mismatch", "mismatch",
                           "already_managed", "host_mismatch"}
    BY <1>3 DEF ExamineAnswer
  <2>2. ASSUME ExamineAnswer \in {"mismatch", "host_mismatch"}
        PROVE  Differences(o) # {}
    BY <1>1, <2>2 DEF ExamineAnswer, Differences
  <2>3. Justified(o, ExamineAnswer)
    BY <1>1, <2>1, <2>2, DirtyNow DEF Justified
  <2> QED
    BY <1>3, <2>3, EndAnswers DEF Examine
<1> QED
  BY <1>2, <1>3

LEMMA CompareJustified ==
    ASSUME AdoptionInvariant, WitnessInvariant, NEW p \in Processes, Check(p)
    PROVE  told' = NoAnswer \/ Answered(p)
<1>1. job[p].stage \in {"scope", "tables", "attached"}
  BY DEF Check, Compare, At
<1>2. p \in Operators => Unrecorded(p)
  BY DEF WitnessInvariant
<1>3. p = Plugin => job[p].pass = 0
  BY DEF WitnessInvariant, PassOf
<1>4. ASSUME ScopeDiffers(p) \/ TablesDiffer(p) \/ AttachedDiffers(p)
      PROVE  Differences(p) # {}
  <2>1. job[p].pass = 1 => ledger = Unmanaged
    BY <1>1, <1>2, <1>3 DEF Unrecorded, Processes
  <2> QED
    BY <1>4, <2>1 DEF ScopeDiffers, TablesDiffer, AttachedDiffers, Differences
<1>5. ScopeDiffers(p) \/ TablesDiffer(p) \/ AttachedDiffers(p) => Justified(p, "mismatch")
  BY <1>1, <1>4, DirtyNow DEF Justified
<1>6. \A next : GoTo(p, next) => told' = NoAnswer
  BY DEF GoTo, Continue
<1> QED
  BY <1>5, <1>6, EndAnswers DEF Check, Compare

LEMMA StepJustified ==
    ASSUME AdoptionInvariant, WitnessInvariant, NEW p \in Processes, Step(p)
    PROVE  told' = NoAnswer \/ Answered(p)
<1>1. CASE Check(p)
  BY <1>1, CompareJustified
<1>2. CASE p = Plugin /\ ReplaceState
  <2>1. witness[p].steady = {}
    BY <1>2, NothingLeft DEF ReplaceState, At
  <2> QED
    BY <1>2, <2>1, EndAnswers DEF ReplaceState, Justified
<1>3. CASE p # Plugin /\ Adopt(p)
  <2>1. p \in Operators
    BY <1>3 DEF Processes
  <2>2. ASSUME NEW stage, NEW key, NEW next, TakeKey(p, stage, key, next)
        PROVE  told' = NoAnswer
    BY <2>2 DEF TakeKey, Continue
  <2>3. CASE LockNext(p)
    BY <2>3 DEF LockNext, Continue
  <2>4. CASE Examine(p)
    BY <2>1, <2>4, ExamineJustified
  <2>5. CASE CheckHost(p)
    <3>1. CASE host = "proven"
      BY <2>5, <3>1 DEF CheckHost, Continue
    <3>2. CASE host # "proven"
      <4>1. Differences(p) # {} /\ job[p].stage # "idle"
        BY <1>3, <2>5, <3>2 DEF Differences, CheckHost, At
      <4>2. Justified(p, "host_mismatch")
        BY <4>1, DirtyNow DEF Justified
      <4> QED
        BY <2>5, <3>2, <4>2, EndAnswers DEF CheckHost
    <3> QED
      BY <3>1, <3>2
  <2>6. CASE PlaceLedger(p)
    <3>1. Justified(p, "database")
      BY DEF Justified
    <3>2. "default_acl" \in catalog.extras => Justified(p, "mismatch")
      <4>1. "default_acl" \in catalog.extras => Differences(p) # {}
        BY DEF Differences
      <4> QED
        BY <2>6, <4>1, DirtyNow DEF Justified, PlaceLedger, At
    <3> QED
      BY <2>6, <3>1, <3>2, EndAnswers DEF PlaceLedger, Continue
  <2>7. CASE CommitAdoption(p)
    <3>1. witness[p].steady = {}
      BY <2>7, NothingLeft DEF CommitAdoption, At
    <3>2. PICK answer \in {"adopted", "database"} : End(p, answer)
      BY <2>7 DEF CommitAdoption
    <3>3. Justified(p, answer)
      BY <3>1, <3>2 DEF Justified
    <3> QED
      BY <3>2, <3>3, EndAnswers
  <2> QED
    BY <1>3, <2>2, <2>3, <2>4, <2>5, <2>6, <2>7 DEF Adopt
<1> QED
  BY <1>1, <1>2, <1>3 DEF Step

\* Every answer is about the call that ends in the step, and justified by what
\* that call could have seen.
LEMMA NextJustified ==
    ASSUME AdoptionInvariant, WitnessInvariant, Next
    PROVE  told' = NoAnswer \/ \E p \in Processes : Answered(p)
<1>1. Plugin \in Processes
  BY DEF Processes
<1>2. CASE BeginPrepare
  <2>1. \A answer \in {"database", "ledger_mismatch"} : Justified(Plugin, answer)
    BY DEF Justified
  <2> QED
    BY <1>1, <1>2, <2>1, EndAnswers DEF BeginPrepare, Continue
<1>3. ASSUME NEW p \in Processes, Fail(p)
      PROVE  Answered(p)
  <2>1. Justified(p, "database")
    BY DEF Justified
  <2> QED
    BY <1>3, <2>1, EndAnswers DEF Fail
<1>4. ASSUME NEW p \in Processes, Step(p)
      PROVE  told' = NoAnswer \/ Answered(p)
  BY <1>4, StepJustified
<1>5. CASE \E o \in Operators : BeginAdoption(o)
  BY <1>5 DEF BeginAdoption, Continue
<1>6. CASE \/ Deactivate \/ KitRuns \/ ChangeOwner \/ HostChanges \/ WriterEnds
           \/ \E k \in Additions : Add(k) \/ Drop(k)
           \/ \E d \in Altered : Alter(d)
           \/ \E t \in TableSet : WriterTakes(t)
  BY <1>6 DEF Deactivate, KitRuns, ChangeOwner, HostChanges, WriterEnds, Add, Drop, Alter,
              WriterTakes, Interfere, Quietly
<1> QED
  BY <1>2, <1>3, <1>4, <1>5, <1>6 DEF Next

LEMMA AnswersAreJustified ==
    ASSUME AdoptionInvariant, WitnessInvariant, Next, NEW p \in Processes, told'.to = p
    PROVE  Justified(p, told'.answer)
<1>1. CASE told' = NoAnswer
  BY <1>1 DEF NoAnswer, Justified
<1>2. ASSUME NEW q \in Processes, Answered(q)
      PROVE  Justified(p, told'.answer)
  BY <1>2 DEF Answered
<1> QED
  BY <1>1, <1>2, NextJustified

\* What was wrong before a check began and stays is found by it: an adoption
\* and a preparation succeed only if no difference was there all the time, in
\* whatever order owners add and remove things between the parts of the
\* fingerprint (legacy_schema_matches, verify_managed_catalog).
THEOREM NothingSlipsThrough == Spec => NothingSteadySlips
<1>1. AdoptionInvariant /\ WitnessInvariant /\ [Next]_vars =>
        [\A p \in Processes :
           told'.answer \in {"adopted", "prepared"} /\ told'.to = p =>
              witness[p].steady = {}]_vars
  BY AnswersAreJustified DEF Justified
<1> QED
  BY <1>1, AdoptionInvariantHolds, WitnessInvariantHolds, PTL DEF Spec, NothingSteadySlips

\* No call is refused as a mismatch because of another adoption: there was a
\* difference while it was going on (GLOBAL_MAINTENANCE_LOCK_SQL).
THEOREM RefusalHasACause == Spec => RefusedForCause
<1>1. AdoptionInvariant /\ WitnessInvariant /\ [Next]_vars =>
        [\A p \in Processes :
           told'.answer \in {"mismatch", "host_mismatch"} /\ told'.to = p =>
              witness[p].dirty]_vars
  BY AnswersAreJustified DEF Justified
<1> QED
  BY <1>1, AdoptionInvariantHolds, WitnessInvariantHolds, PTL DEF Spec, RefusedForCause
-----------------------------------------------------------------------------
(* Who waits for whom *)

\* q has the key or the table that o is waiting for.
WaitsFor(o, q) ==
    /\ o # q
    /\ \/ At(o, "global") /\ "global" \in job[q].keys
       \/ At(o, "own") /\ "own" \in job[q].keys
       \/ /\ At(o, "lock") /\ ~LockedEnough(o)
          /\ LET t == LockOrder[job[o].locked + 1] IN t # HostLedger /\ Locked(q, t)

\* An adoption waits for another only before it has the maintenance key, and
\* the other is in progress and waits for none.  Adoptions can therefore never
\* wait for each other in a circle, and one that has the key can only be held
\* up by a writer.
AdoptionsQueueUp ==
    \A o, q \in Operators :
        WaitsFor(o, q) =>
            At(o, "global") /\ ~At(q, "idle") /\ \A r \in Operators : ~WaitsFor(q, r)

\* Whoever has a key or a table has the maintenance key.
KeyFirst ==
    \A o \in Operators :
        job[o].keys # {} \/ job[o].locked # 0 => "global" \in job[o].keys

\* A step of a call that lets go of everything, or keeps the order.
LEMMA KeyFirstKept ==
    ASSUME AdoptionInvariant, KeyFirst, NEW p \in Processes, NEW state,
           job' = [job EXCEPT ![p] = state],
           \/ state.keys = {} /\ state.locked = 0
           \/ "global" \in state.keys
           \/ state.keys = job[p].keys /\ state.locked = job[p].locked
    PROVE  KeyFirst'
<1> SUFFICES ASSUME NEW o \in Operators
             PROVE  (job'[o].keys # {} \/ job'[o].locked # 0) => "global" \in job'[o].keys
  BY DEF KeyFirst
<1>1. job'[o] = IF o = p THEN state ELSE job[o]
  BY DEF AdoptionInvariant, TypeOK, Processes
<1> QED
  BY <1>1 DEF KeyFirst

LEMMA KeyFirstStep == AdoptionInvariant /\ KeyFirst /\ [Next]_vars => KeyFirst'
<1> SUFFICES ASSUME AdoptionInvariant, KeyFirst, [Next]_vars PROVE KeyFirst'
  OBVIOUS
<1>1. ASSUME NEW p \in Processes, NEW answer, End(p, answer) PROVE KeyFirst'
  BY <1>1, IdleIsJob, KeyFirstKept DEF End
<1>2. ASSUME NEW p \in Processes, NEW stage, GoTo(p, stage) PROVE KeyFirst'
  <2>1. job[p] \in Jobs
    BY DEF AdoptionInvariant, TypeOK
  <2> QED
    BY <1>2, <2>1, KeyFirstKept DEF GoTo, Continue, Jobs
<1>3. ASSUME UNCHANGED job PROVE KeyFirst'
  BY <1>3 DEF KeyFirst
<1>4. ASSUME NEW o \in Operators, BeginAdoption(o) \/ Adopt(o) PROVE KeyFirst'
  <2>1. o \in Processes /\ job[o] \in Jobs /\ Established(o)
    BY DEF AdoptionInvariant, TypeOK, Processes
  <2>2. CASE BeginAdoption(o)
    BY <2>1, <2>2, KeyFirstKept DEF BeginAdoption, Continue, Jobs
  <2>3. CASE TakeKey(o, "global", "global", "own")
    BY <2>1, <2>3, KeyFirstKept DEF TakeKey, Continue, Jobs
  <2>4. CASE TakeKey(o, "own", "own", "examine")
    BY <2>1, <2>4, KeyFirstKept DEF TakeKey, Continue, Jobs, At, Established, Serialised
  <2>5. CASE Examine(o)
    BY <1>1, <1>2, <2>1, <2>5 DEF Examine
  <2>6. CASE LockNext(o)
    BY <2>1, <2>6, KeyFirstKept DEF LockNext, Continue, Jobs, At, Established, Serialised
  <2>7. CASE CheckHost(o)
    BY <1>1, <2>1, <2>7, KeyFirstKept DEF CheckHost, Continue, Jobs
  <2>8. CASE PlaceLedger(o)
    BY <1>1, <2>1, <2>8, KeyFirstKept DEF PlaceLedger, Continue, Jobs
  <2>9. CASE CommitAdoption(o)
    BY <1>1, <2>1, <2>9 DEF CommitAdoption
  <2> QED
    BY <1>4, <2>2, <2>3, <2>4, <2>5, <2>6, <2>7, <2>8, <2>9 DEF Adopt
<1>5. CASE BeginPrepare \/ Deactivate
  <2>1. Plugin \in Processes /\ job[Plugin] \in Jobs
    BY DEF AdoptionInvariant, TypeOK, Processes
  <2> QED
    BY <1>1, <1>3, <1>5, <2>1, KeyFirstKept
       DEF BeginPrepare, Deactivate, Quietly, Continue, Jobs
<1>6. ASSUME NEW p \in Processes, Step(p) \/ Fail(p) PROVE KeyFirst'
  <2>1. CASE Check(p)
    BY <1>1, <1>2, <2>1 DEF Check, Compare
  <2>2. CASE p = Plugin /\ ReplaceState
    BY <1>1, <2>2 DEF ReplaceState, Processes
  <2>3. CASE p \in Operators /\ Adopt(p)
    BY <1>4, <2>3
  <2>4. CASE Fail(p)
    BY <1>1, <2>4 DEF Fail
  <2> QED
    BY <1>6, <2>1, <2>2, <2>3, <2>4 DEF Step, Processes
<1>7. CASE \/ KitRuns \/ ChangeOwner \/ HostChanges \/ WriterEnds \/ UNCHANGED vars
           \/ \E k \in Additions : Add(k) \/ Drop(k)
           \/ \E d \in Altered : Alter(d)
           \/ \E t \in TableSet : WriterTakes(t)
  <2>1. UNCHANGED job
    BY <1>7 DEF KitRuns, ChangeOwner, HostChanges, WriterEnds, Add, Drop, Alter, WriterTakes,
                Interfere, Quietly, vars
  <2> QED
    BY <1>3, <2>1
<1> QED
  BY <1>4, <1>5, <1>6, <1>7 DEF Next

\* Adoptions queue up at the maintenance key and nowhere else, for any number
\* of them (GLOBAL_MAINTENANCE_LOCK_SQL, LEGACY_LOCK_SQL).
THEOREM OneQueue == Spec => []AdoptionsQueueUp
<1>1. Init => KeyFirst
  BY IdleIsJob DEF Init, KeyFirst, Processes
<1>2. AdoptionInvariant /\ KeyFirst => AdoptionsQueueUp
  <2> SUFFICES ASSUME AdoptionInvariant, KeyFirst, NEW o \in Operators, NEW q \in Operators,
                      WaitsFor(o, q)
               PROVE  At(o, "global") /\ ~At(q, "idle") /\ \A r \in Operators : ~WaitsFor(q, r)
    BY DEF AdoptionsQueueUp
  <2>1. ASSUME NEW x \in Operators, NEW y \in Operators, WaitsFor(x, y)
        PROVE  "global" \in job[y].keys
    <3>1. CASE job[y].keys # {}
      BY <3>1 DEF KeyFirst
    <3>2. CASE job[y].keys = {}
      <4>1. job[y].locked = 0
        BY <3>2 DEF KeyFirst
      <4> QED
        BY <2>1, <3>2, <4>1 DEF WaitsFor, Locked
    <3> QED
      BY <3>1, <3>2
  <2>2. ASSUME NEW x \in Operators, NEW y \in Operators, WaitsFor(x, y)
        PROVE  At(x, "global") /\ "global" \notin job[x].keys
    <3>1. "global" \notin job[x].keys
      BY <2>1, <2>2 DEF WaitsFor, AdoptionInvariant, Exclusive
    <3>2. job[x].stage \notin Serialised
      BY <3>1 DEF AdoptionInvariant, Established
    <3> QED
      BY <2>2, <3>1, <3>2 DEF WaitsFor, At, Serialised
  <2>3. ~At(q, "idle")
    BY <2>1, IdleIsJob DEF AdoptionInvariant, TypeOK, Processes
  <2> QED
    BY <2>1, <2>2, <2>3
<1> QED
  BY <1>1, <1>2, KeyFirstStep, AdoptionInvariantHolds, PTL DEF Spec
=============================================================================
