\* Two documents of one worker, receipts at any time, two disturbances.
SPECIFICATION Spec
CONSTANTS
    m1 = m1
    m2 = m2
    acme = acme
    Ids = {m1, m2}
    Partners <- MCPartners
    Requests <- Documents
    Profiles <- SteadyRegistry
    Times <- OneTime
    MaxRetries = 2
    MaxFaults = 2
SYMMETRY IdSymmetry
INVARIANTS
    CopyIsFresh
    DeliveredIsConfirmed
PROPERTIES
    OnlyOpenRowsAreSent
    BackoffRespected
CONSTRAINT OneReceiptAtATime
