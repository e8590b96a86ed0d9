\* Two rows of any kind, a registry that changes, fair scheduling, one disturbance.
SPECIFICATION FairSpec
CONSTANTS
    m1 = m1
    m2 = m2
    acme = acme
    Ids = {m1, m2}
    Partners <- MCPartners
    Requests <- AllRequests
    Profiles <- ChangingRegistry
    Times <- NoTimes
    MaxRetries = 3
    MaxFaults = 1
INVARIANTS
    TypeOK
    AttemptsBounded
    GivenUpOnlyWhenExhausted
PROPERTIES
    EventuallySettled
