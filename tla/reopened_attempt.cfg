CONSTANTS
    Deliveries <- Single
    Workers = {w1}
    Subjects <- OneSubject
    SubjectOf <- SingleSubjectOf
    NoSubject = NoSubject
    MaxAttempts = 2
    Delays <- OneDelay
    RetryAfters = {0}
    MaxRevision = 9
    Horizon = 2
    ClockSkew = 0
    RemoteIds = {m1}
    NoRemote = NoRemote
    Digests = {g1}
    ObservationIds = {o1}
    Lifecycles = {"revoked"}
    RetryKeys = {key1}
    Unrevealable = {}
    MayAbandon = FALSE
SPECIFICATION Spec
CHECK_DEADLOCK FALSE
PROPERTIES
    TemporaryFailureCloses
