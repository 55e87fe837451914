CONSTANTS
    Deliveries <- Single
    Workers = {w1}
    Subjects <- OneSubject
    SubjectOf <- SingleSubjectOf
    NoSubject = NoSubject
    MaxAttempts = 2
    Delays <- OneDelay
    RetryAfters = {0}
    MaxRevision = 5
    Horizon = 1
    ClockSkew = 0
    RemoteIds = {m1}
    NoRemote = NoRemote
    Digests = {g1}
    ObservationIds = {o1}
    Lifecycles = {"revoked"}
    RetryKeys = {key1, key2}
    Unrevealable = {}
    MayAbandon = FALSE
    AttemptLimit = 2
    ReceiptLimit = 1
    RetryLimit = 2
SPECIFICATION ReadSpec
CHECK_DEADLOCK FALSE
INVARIANTS
    EvidenceCoversRow
    AlwaysProjectable
    ReplyExplained
