CONSTANTS
    Connections = {x1, x2}
    Deliveries <- Pair
    MaxAttempts = 2
    MaxRevision = 5
    Observations <- TwoObservations
    Retries <- OneRetry
    ReceiptForms <- OneReceipt
    RequestedAt <- FirstEarlier
    Unrevealable = {2}
    Outcomes = {"accepted", "temporary_failure"}
    NoKey = NoKey
    NoRequest = NoRequest
    MayFail = TRUE
SPECIFICATION FairSpec
CHECK_DEADLOCK FALSE
INVARIANTS
    TypeOK
    DeadlockExplained
PROPERTIES
    ImplementsPromise
    CancelsWhatItSaw
    RepeatNeverRefused
    RetryAnswerExplained
    EveryCallEnds
