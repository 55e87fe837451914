CONSTANTS
    Deliveries <- Three
    Workers = {w1}
    Subjects <- OneSubject
    SubjectOf <- SecondSubjectOf
    NoSubject = NoSubject
    MaxAttempts = 1
    Delays <- NoDelays
    RetryAfters = {0}
    MaxRevision = 4
    Horizon = 0
    ClockSkew = 0
    RemoteIds = {}
    NoRemote = NoRemote
    Digests = {}
    ObservationIds = {o1}
    Lifecycles = {"revoked"}
    RetryKeys = {}
    Unrevealable = {2}
    MayAbandon = TRUE
    Filters <- UsedFilters
    NoFilter = NoFilter
    NoCursor = NoCursor
    PageLimit = 1
SPECIFICATION FairPageSpec
CHECK_DEADLOCK FALSE
INVARIANTS
    ListedOnce
    SteadyListed
    UnrevealableUntouched
PROPERTIES
    ListingEnds
