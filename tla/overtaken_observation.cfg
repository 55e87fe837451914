CONSTANTS
    Connections = {x1, x2}
    Deliveries <- One
    MaxAttempts = 1
    MaxRevision = 4
    Observations = {}
    Retries = {}
    ReceiptForms <- OneReceipt
    RequestedAt <- FirstEarlier
    Unrevealable = {}
    Outcomes = {"accepted"}
    NoKey = NoKey
    NoRequest = NoRequest
    MayFail = FALSE
SPECIFICATION Spec
CHECK_DEADLOCK FALSE
PROPERTIES
    LateObservationAbsorbed
