CONSTANTS
    Deliveries <- Pair
    Workers = {w1, w2}
    Subjects <- OneSubject
    SubjectOf <- PairSubjectOf
    NoSubject = NoSubject
    MaxAttempts = 2
    Delays <- OneDelay
    RetryAfters = {0}
    MaxRevision = 5
    Horizon = 1
    ClockSkew = 0
    RemoteIds = {m1}
    NoRemote = NoRemote
    Digests = {g1}
    ObservationIds = {o1}
    Lifecycles = {"revoked"}
    RetryKeys = {key1}
    Unrevealable = {}
    MayAbandon = FALSE
SPECIFICATION FairSpec
CHECK_DEADLOCK FALSE
INVARIANTS
    OrphansExplained
PROPERTIES
    EventuallySettled
