CONSTANTS
    Operators = {o1, o2}
    Plugin = plugin
    Latest = 3
    Definitions = {"version1", "drifted"}
    Legacy = "version1"
    Altered = {"version1", "drifted"}
    Additions = {"default_acl", "routine", "policy"}
    Tables <- TwoTables
    Defined = "deliveries"
    HostLedger = "schema_migrations"
    NoOne = NoOne
    MaxChanges = 1
    MayFail = TRUE
SPECIFICATION OneFlawSpec
CHECK_DEADLOCK FALSE
INVARIANTS
    TypeOK
    LedgerNeverAhead
PROPERTIES
    AdoptedExactly
    NothingSteadySlips
    RefusedForCause
    EveryCallEnds
    AdoptedInQuiet
