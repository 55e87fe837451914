CONSTANTS
    c1 = c1
    c2 = c2
    c3 = c3
    Calls = {c1, c2, c3}
    RequestsOf <- Contention
    TemplateDigests = {d1, d2}
    NoExpiry = NoExpiry
    NoRequest = NoRequest
    NoDigest = NoDigest
    Horizon = 1
    MayFail = TRUE
SPECIFICATION FairSpec
CHECK_DEADLOCK FALSE
INVARIANTS
    NoUniqueViolation
    OneDigestPerRelease
PROPERTIES
    ImplementsRegistry
    EveryCallAnswered
