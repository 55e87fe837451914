CONSTANTS
    Deliveries <- Single
    Workers = {w1, w2}
    Subjects <- OneSubject
    SubjectOf <- SingleSubjectOf
    NoSubject = NoSubject
    MaxAttempts = 3
    Delays <- TwoDelays
    RetryAfters = {0, 2}
    MaxRevision = 7
    Horizon = 2
    ClockSkew = 1
    RemoteIds = {m1}
    NoRemote = NoRemote
    Digests = {g1}
    ObservationIds = {o1, o2}
    Lifecycles = {"revoked"}
    RetryKeys = {key1, key2}
    Unrevealable = {}
    MayAbandon = TRUE
SPECIFICATION Spec
SYMMETRY WorkerSymmetry
CHECK_DEADLOCK FALSE
INVARIANTS
    ExclusiveWork
    FinalEvidence
    OneOpenAttempt
    NoReplayAfterAmbiguity
    RetryEvidence
    AcknowledgedReceipts
    AttemptEvidenceAgrees
    LedgerInvariant
PROPERTIES
    RevisionCountsChanges
    TerminalAbsorbing
    SendOnce
    ImplementsPromise
