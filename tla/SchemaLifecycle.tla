--------------------------- MODULE SchemaLifecycle --------------------------
(***************************************************************************)
(* The schema notification from the legacy installation to a prepared      *)
(* plugin: NotificationOperator::adopt_legacy, statement by statement, and *)
(* the verification of the managed catalog when the plugin is prepared,    *)
(* among whoever else works on the database: another adoption, setup and   *)
(* upgrade, writers that were not stopped, and owners that change the      *)
(* catalog without taking part in any protocol.                            *)
(*                                                                         *)
(* A catalog is the definition of the tables, as a whole and with their    *)
(* owners, the number of migrations its tables show, whether the schema    *)
(* belongs to the operator, and what it has beyond that, by the part of    *)
(* the fingerprint that shows it.  A transaction that fails leaves nothing *)
(* behind, so that what it writes is only in its stage.                    *)
(* The statements that read the catalog before the first lock are one      *)
(* step, and so are the statements of each part of the fingerprint; a part *)
(* that differs ends the call at once, where the code reads on and then    *)
(* gives the same answer.                                                  *)
(*                                                                         *)
(* Operators whose comment begins with "Fault:" are slips a maintainer     *)
(* could make in the definition that follows; the specification never uses *)
(* them.                                                                   *)
(***************************************************************************)
EXTENDS Integers, Sequences

CONSTANTS
    Operators,      \* concurrent adopt_legacy calls
    Plugin,         \* the instance whose prepare verifies the catalog
    Latest,         \* the number of NOTIFICATION_MIGRATIONS
    Definitions,    \* what the tables may be defined as, their owners included
    Legacy,         \* what migration 1 defines
    Altered,        \* the definitions that an owner may change the tables to
    Additions,      \* what an owner may add: some of Kinds
    Tables,         \* LEGACY_TABLES, in the order in which they are locked
    Defined,        \* the table that Definitions and policies are about
    HostLedger,     \* the table platform.schema_migrations
    NoOne,
    MaxChanges,     \* bound on the changes of owners and of the host
    MayFail         \* whether a statement or a process may fail

Processes == Operators \cup {Plugin}

\* What a catalog can have that its migrations do not give it.
Kinds == {"default_acl", "publication", "unsupported", "relation", "routine", "policy"}
TableSet == {Tables[i] : i \in DOMAIN Tables}

ASSUME SchemaAssumption ==
    /\ Plugin \notin Operators
    /\ Latest \in Nat \ {0}
    /\ Legacy \in Definitions /\ Altered \subseteq Definitions
    /\ Additions \subseteq Kinds
    /\ Tables \in Seq(TableSet) /\ Defined \in TableSet
    /\ HostLedger \notin TableSet
    /\ MaxChanges \in Nat /\ MayFail \in BOOLEAN

VARIABLES
    catalog,    \* the schema, as committed
    ledger,     \* the migrations its own ledger records, Unmanaged for no ledger
    host,       \* what platform.schema_migrations proves
    writer,     \* the tables that a writer's transaction has locked
    job,        \* how far every call is, and the locks it holds
    prepared,   \* whether the plugin has a prepared state
    changes,    \* how many changes owners and the host have made
    witness,    \* history: what every call could have seen
    told        \* the answer given in this step

databaseVars == <<catalog, ledger, host, changes>>
vars == <<databaseVars, writer, job, prepared, witness, told>>

Unmanaged == -1
HostProofs == {"none", "unproven", "proven"}   \* unproven: another shape, or no row
NoAnswer == [to |-> NoOne, answer |-> "none"]

\* The locks of an adoption, in the order of LEGACY_LOCK_SQL.
LockOrder == <<HostLedger>> \o Tables

\* The stages of a call, in the order in which it passes them; "tables" and
\* "attached" are reached once the parts before them have shown no difference.
Stages == {"idle", "global", "own", "examine", "lock", "scope", "tables", "attached",
           "record", "commit", "replace"}
Jobs == [stage : Stages, pass : 0..2, keys : SUBSET {"global", "own"},
         locked : 0..Len(LockOrder)]

Idle == [stage |-> "idle", pass |-> 0, keys |-> {}, locked |-> 0]
Unseen == [steady |-> {}, dirty |-> FALSE]

Init ==
    /\ catalog \in [layout : {1}, definition : Definitions, owned : {TRUE}, extras : {{}}]
         \cup [layout : {1}, definition : {Legacy}, owned : {FALSE}, extras : {{}}]
         \cup [layout : {1}, definition : {Legacy}, owned : {TRUE}, extras : {{k} : k \in Additions}]
         \cup [layout : {0}, definition : {Legacy}, owned : {TRUE}, extras : {{}}]
    /\ ledger = Unmanaged
    /\ host \in HostProofs
    /\ writer = {}
    /\ job = [p \in Processes |-> Idle]
    /\ prepared = FALSE /\ changes = 0
    /\ witness = [p \in Processes |-> Unseen]
    /\ told = NoAnswer

-----------------------------------------------------------------------------
(* What a call could have seen *)

\* Fault: the reference is built from all the migrations.
ReferenceLayoutLatest(p) == Latest

\* The migrations of the reference that p compares the schema with.
ReferenceLayout(p) == IF p = Plugin THEN Latest ELSE 1

\* How the database differs from what p requires.
Differences(p) ==
    catalog.extras
    \cup (IF catalog.definition # Legacy THEN {"definition"} ELSE {})
    \cup (IF catalog.layout # ReferenceLayout(p) THEN {"layout"} ELSE {})
    \cup (IF catalog.owned THEN {} ELSE {"owner"})
    \cup (IF p # Plugin /\ host # "proven" THEN {"host"} ELSE {})

\* steady: the differences that were there all the time since the check that
\* decides began; dirty: whether there was any since the call began.
Witness ==
    witness' = [p \in Processes |->
        IF job[p].stage = "idle" THEN Unseen
        ELSE [steady |-> witness[p].steady \cap Differences(p)',
              dirty |-> witness[p].dirty \/ Differences(p)' # {}]]

\* A check begins.
Fresh(p) ==
    witness' = [witness EXCEPT ![p] =
        [steady |-> Differences(p), dirty |-> @.dirty \/ Differences(p) # {}]]

-----------------------------------------------------------------------------
(* Calls *)

At(p, stage) == job[p].stage = stage

Continue(p, state) == job' = [job EXCEPT ![p] = state] /\ told' = NoAnswer
GoTo(p, stage) == Continue(p, [job[p] EXCEPT !.stage = stage]) /\ UNCHANGED witness

\* Fault: pg_advisory_lock, which stays with the session.
EndKeepsKeys(p, answer) ==
    /\ job' = [job EXCEPT ![p] = [Idle EXCEPT !.keys = job[p].keys]]
    /\ witness' = [witness EXCEPT ![p] = Unseen]
    /\ told' = [to |-> p, answer |-> answer]

\* The transaction is over, by commit or rollback, and its locks are free.
End(p, answer) ==
    /\ job' = [job EXCEPT ![p] = Idle]
    /\ witness' = [witness EXCEPT ![p] = Unseen]
    /\ told' = [to |-> p, answer |-> answer]

Quietly == UNCHANGED job /\ told' = NoAnswer

Locked(p, t) == \E i \in 1..job[p].locked : LockOrder[i] = t
LockedByAny(t) == \E o \in Operators : Locked(o, t)

\* A statement fails or the process dies.
Fail(p) ==
    /\ MayFail /\ ~At(p, "idle")
    /\ End(p, "database")
    /\ UNCHANGED <<databaseVars, writer, prepared>>

-----------------------------------------------------------------------------
(* adopt_legacy *)

BeginAdoption(o) ==
    /\ At(o, "idle")
    /\ Continue(o, [job[o] EXCEPT !.stage = "global"])
    /\ Fresh(o)
    /\ UNCHANGED <<databaseVars, writer, prepared>>

\* Fault: adoptions are not serialised.
KeyFreeAlways(o, key) == TRUE

KeyFree(o, key) == \A q \in Operators \ {o} : key \notin job[q].keys

\* pg_advisory_xact_lock of the maintenance key, then of the plugin's own.
TakeKey(o, stage, key, next) ==
    /\ At(o, stage) /\ KeyFree(o, key)
    /\ Continue(o, [job[o] EXCEPT !.stage = next, !.keys = @ \cup {key}])
    /\ UNCHANGED <<databaseVars, writer, prepared, witness>>

\* The checks before the first lock: the schema and its owner, default
\* privileges and publications, the ledger, and the tables to be locked.
ExamineAnswer ==
    IF catalog.layout = 0 THEN "schema_missing"
    ELSE IF ~catalog.owned THEN "ownership_mismatch"
    ELSE IF catalog.extras \cap {"default_acl", "publication"} # {} THEN "mismatch"
    ELSE IF ledger # Unmanaged THEN "already_managed"
    ELSE IF host = "none" THEN "host_mismatch"
    ELSE IF "relation" \in catalog.extras THEN "mismatch"
    ELSE "none"

Examine(o) ==
    /\ At(o, "examine")
    /\ IF ExamineAnswer = "none" THEN GoTo(o, "lock") ELSE End(o, ExamineAnswer)
    /\ UNCHANGED <<databaseVars, writer, prepared>>

\* Fault: one table is left out of LEGACY_LOCK_SQL.
LockedEnoughSoon(o) == job[o].locked + 1 = Len(LockOrder)

LockedEnough(o) == job[o].locked = Len(LockOrder)

\* The next of the locks: SHARE on the host's ledger, which adoptions can hold
\* together, ACCESS EXCLUSIVE on the others.
LockNext(o) ==
    LET t == LockOrder[job[o].locked + 1] IN
    /\ At(o, "lock") /\ ~LockedEnough(o)
    /\ t \notin writer
    /\ t # HostLedger => \A q \in Operators \ {o} : ~Locked(q, t)
    /\ Continue(o, [job[o] EXCEPT !.locked = @ + 1])
    /\ UNCHANGED <<databaseVars, writer, prepared, witness>>

\* legacy_host_ledger_matches: the table has the shape and the row.
CheckHost(o) ==
    /\ At(o, "lock") /\ LockedEnough(o)
    /\ IF host = "proven"
       THEN /\ Continue(o, [job[o] EXCEPT !.stage = "scope", !.pass = 1])
            /\ UNCHANGED witness
       ELSE End(o, "host_mismatch")
    /\ UNCHANGED <<databaseVars, writer, prepared>>

\* The ledger is created, found private, and filled; the schema is then
\* compared again, with the reference and a reference of the ledger.
PlaceLedger(o) ==
    /\ At(o, "record")
    /\ IF ledger # Unmanaged THEN End(o, "database")
       ELSE IF "default_acl" \in catalog.extras THEN End(o, "mismatch")
       ELSE Continue(o, [job[o] EXCEPT !.stage = "scope", !.pass = 2]) /\ Fresh(o)
    /\ UNCHANGED <<databaseVars, writer, prepared>>

\* Fault: the newest migration is recorded.
RecordedVersionNewest == Latest

\* NOTIFICATION_MIGRATIONS[0]
RecordedVersion == 1

\* The commit may succeed although the caller hears of a failure.
CommitAdoption(o) ==
    /\ At(o, "commit")
    /\ ledger' = RecordedVersion
    /\ \E answer \in {"adopted"} \cup (IF MayFail THEN {"database"} ELSE {}) : End(o, answer)
    /\ UNCHANGED <<catalog, host, changes, writer, prepared>>

-----------------------------------------------------------------------------
(* The comparison of the schema with a reference: legacy_schema_matches in  *)
(* pass 1, the check before the commit in pass 2, verify_managed_catalog in *)
(* pass 0.                                                                  *)

\* Fault: policies are not compared.
PartsWithoutPolicies ==
    [scope |-> {"default_acl", "publication", "unsupported"}, tables |-> {"relation"},
     attached |-> {"routine"}]

\* What each part of the check would show, beyond the tables themselves.
Parts ==
    [scope |-> {"default_acl", "publication", "unsupported"}, tables |-> {"relation"},
     attached |-> {"routine", "policy"}]

\* unsafe_owner_default_acl, unsafe_publication_scope and
\* unsupported_schema_object_count; default privileges are not looked at again
\* in pass 1.
ScopeDiffers(p) ==
    catalog.extras \cap (Parts.scope \ IF job[p].pass = 1 THEN {"default_acl"} ELSE {}) # {}

\* Relations, columns, constraints, indexes and triggers, the ledger among
\* them: in pass 1 there must be none.
TablesDiffer(p) ==
    \/ catalog.extras \cap Parts.tables # {}
    \/ catalog.definition # Legacy
    \/ catalog.layout # ReferenceLayout(p)
    \/ ~catalog.owned
    \/ job[p].pass = 1 /\ ledger # Unmanaged

\* Types, routines, policies, inheritance, rules, security labels and members
\* of publications.
AttachedDiffers(p) == catalog.extras \cap Parts.attached # {}

Compare(p, stage, differs, next) ==
    /\ At(p, stage)
    /\ IF differs THEN End(p, "mismatch") ELSE GoTo(p, next)
    /\ UNCHANGED <<databaseVars, writer, prepared>>

Decided(p) == CASE job[p].pass = 0 -> "replace"
                [] job[p].pass = 1 -> "record"
                [] job[p].pass = 2 -> "commit"

Check(p) ==
    \/ Compare(p, "scope", ScopeDiffers(p), "tables")
    \/ Compare(p, "tables", TablesDiffer(p), "attached")
    \/ Compare(p, "attached", AttachedDiffers(p), Decided(p))

-----------------------------------------------------------------------------
(* The plugin's lifecycle *)

\* prepare: exactly one email provider, two secrets and a snapshot key; then
\* OwnedPostgres::prepare compares the ledger with the plan, and the catalog
\* is verified.
BeginPrepare ==
    /\ At(Plugin, "idle")
    /\ \/ MayFail /\ End(Plugin, "database")
       \/ ledger # Latest /\ End(Plugin, "ledger_mismatch")
       \/ /\ ledger = Latest
          /\ Continue(Plugin, [job[Plugin] EXCEPT !.stage = "scope"]) /\ Fresh(Plugin)
    /\ UNCHANGED <<databaseVars, writer, prepared>>

ReplaceState ==
    /\ At(Plugin, "replace")
    /\ prepared' = TRUE
    /\ End(Plugin, "prepared")
    /\ UNCHANGED <<databaseVars, writer>>

Deactivate ==
    /\ prepared /\ prepared' = FALSE
    /\ Quietly
    /\ UNCHANGED <<databaseVars, writer, witness>>

-----------------------------------------------------------------------------
(* Everybody else *)

\* setup and upgrade take the maintenance key and run to their end.
KitRuns ==
    /\ \A o \in Operators : "global" \notin job[o].keys
    /\ \/ /\ catalog.layout = 0
          /\ ledger = Unmanaged
       \/ ledger \in 1..(Latest - 1)
    /\ ledger' = Latest
    /\ catalog' = [catalog EXCEPT !.layout = Latest]
    /\ Quietly
    /\ UNCHANGED <<host, changes, writer, prepared>>
    /\ Witness

\* Nobody has locked the table that policies and definitions belong to.
DefinedFree == ~LockedByAny(Defined) /\ Defined \notin writer

Interfere ==
    /\ changes < MaxChanges /\ changes' = changes + 1
    /\ Quietly
    /\ UNCHANGED <<ledger, writer, prepared>>

\* An owner adds something to the schema, or to what applies to it.
Add(k) ==
    /\ catalog.layout > 0 /\ k \notin catalog.extras
    /\ k = "policy" => DefinedFree
    /\ catalog' = [catalog EXCEPT !.extras = @ \cup {k}]
    /\ Interfere /\ UNCHANGED host
    /\ Witness

Drop(k) ==
    /\ k \in catalog.extras
    /\ k = "policy" => DefinedFree
    /\ catalog' = [catalog EXCEPT !.extras = @ \ {k}]
    /\ Interfere /\ UNCHANGED host
    /\ Witness

\* An owner changes a table or gives it to another role.
Alter(d) ==
    /\ catalog.layout > 0 /\ catalog.definition # d
    /\ DefinedFree
    /\ catalog' = [catalog EXCEPT !.definition = d]
    /\ Interfere /\ UNCHANGED host
    /\ Witness

\* The schema is given to another role or back: no lock of a table stops it.
ChangeOwner ==
    /\ catalog.layout > 0
    /\ catalog' = [catalog EXCEPT !.owned = ~@]
    /\ Interfere /\ UNCHANGED host
    /\ Witness

\* The host records the migration, or its owner changes the table.
HostChanges ==
    /\ host # "none" /\ ~LockedByAny(HostLedger)
    /\ host' \in {"unproven", "proven"} \ {host}
    /\ Interfere /\ UNCHANGED catalog
    /\ Witness

\* A transaction of a writer that was not stopped uses the tables in any order.
WriterTakes(t) ==
    /\ catalog.layout > 0 /\ t \notin writer /\ ~LockedByAny(t)
    /\ writer' = writer \cup {t}
    /\ Quietly
    /\ UNCHANGED <<databaseVars, prepared, witness>>

\* It commits, or it is failed because it waits for a table that an adoption
\* has locked, which waits for one of its own.
WriterEnds ==
    /\ writer # {} /\ writer' = {}
    /\ Quietly
    /\ UNCHANGED <<databaseVars, prepared, witness>>

-----------------------------------------------------------------------------
Adopt(o) ==
    \/ TakeKey(o, "global", "global", "own") \/ TakeKey(o, "own", "own", "examine")
    \/ Examine(o) \/ LockNext(o) \/ CheckHost(o) \/ PlaceLedger(o) \/ CommitAdoption(o)

Step(p) == Check(p) \/ (IF p = Plugin THEN ReplaceState ELSE Adopt(p))

Next ==
    \/ \E o \in Operators : BeginAdoption(o)
    \/ BeginPrepare \/ Deactivate
    \/ \E p \in Processes : Step(p) \/ Fail(p)
    \/ KitRuns \/ ChangeOwner \/ HostChanges \/ WriterEnds
    \/ \E k \in Additions : Add(k) \/ Drop(k)
    \/ \E d \in Altered : Alter(d)
    \/ \E t \in TableSet : WriterTakes(t)

Spec == Init /\ [][Next]_vars

\* A begun call keeps being polled, PostgreSQL grants a lock to its waiters in
\* turn, and a writer's transaction ends: on its own, or because it is failed
\* as part of a circle.
Fairness ==
    /\ \A o \in Operators : SF_vars(Step(o))
    /\ WF_vars(Step(Plugin)) /\ WF_vars(WriterEnds)

FairSpec == Spec /\ Fairness
-----------------------------------------------------------------------------
(* Properties *)

TypeOK ==
    /\ catalog \in [layout : 0..Latest, definition : Definitions, owned : BOOLEAN,
                    extras : SUBSET Additions]
    /\ ledger \in {Unmanaged} \cup 1..Latest
    /\ host \in HostProofs
    /\ writer \subseteq TableSet
    /\ job \in [Processes -> Jobs]
    /\ \A p \in Processes : At(p, "idle") => job[p] = Idle
    /\ job[Plugin].keys = {} /\ job[Plugin].locked = 0
    /\ prepared \in BOOLEAN

\* The ledger never records a migration that the tables do not show
\* (adopt_legacy records the first migration only).
LedgerNeverAhead == ledger # Unmanaged => ledger <= catalog.layout

\* A schema is adopted only while its tables are defined exactly as the first
\* migration defines them, their owners included, and have no policy of their
\* own, the host's ledger proves the migration, and nobody else has adopted
\* the schema, whatever anybody did since the first check
\* (LEGACY_LOCK_SQL, legacy_host_ledger_matches, legacy_schema_matches).
AdoptedExactly ==
    [][\A o \in Operators : At(o, "commit") /\ ledger' # ledger =>
         /\ ledger = Unmanaged
         /\ catalog.definition = Legacy /\ catalog.layout = 1
         /\ "policy" \notin catalog.extras
         /\ host = "proven"]_vars

\* An adoption is committed and a state prepared only if nothing that the
\* schema may not have was there during the whole of the check before: what
\* an owner adds can slip through while the parts of the fingerprint are read,
\* what was there before and stays cannot.
NothingSteadySlips ==
    [][\A p \in Processes :
         told'.answer \in {"adopted", "prepared"} /\ told'.to = p =>
            witness[p].steady = {}]_vars

\* A schema is refused as a mismatch only if there was a difference while the
\* call was going on: never because of another adoption, whose result is
\* answered for what it is (GLOBAL_MAINTENANCE_LOCK_SQL).
RefusedForCause ==
    [][\A p \in Processes :
         told'.answer \in {"mismatch", "host_mismatch"} /\ told'.to = p =>
            witness[p].dirty]_vars

\* Every adoption and every preparation ends, though writers use the tables
\* in another order than LEGACY_LOCK_SQL.
EveryCallEnds == \A p \in Processes : ~At(p, "idle") ~> At(p, "idle")

\* The maintenance window that adopt_legacy asks for.
Quiet ==
    /\ catalog = [layout |-> 1, definition |-> Legacy, owned |-> TRUE, extras |-> {}]
    /\ host = "proven" /\ writer = {}

\* An adoption succeeds, unless the maintenance window is broken, somebody
\* else has adopted the schema before, or the storage fails.
AdoptedInQuiet ==
    \A o \in Operators :
        ~At(o, "idle") ~>
            ledger # Unmanaged \/ ~Quiet \/ told = [to |-> o, answer |-> "database"]
=============================================================================
