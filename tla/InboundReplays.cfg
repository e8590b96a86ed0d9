\* Overlapping calls for one message, a registry that changes, two disturbances.
SPECIFICATION Spec
CONSTANTS
    m1 = m1
    m2 = m2
    u1 = u1
    u2 = u2
    acme = acme
    Ids = {m1, m2, u1, u2}
    Uuids = {u1, u2}
    Partners <- MCPartners
    Envelopes <- MCEnvelopes
    Profiles <- MCProfiles
    MaxCalls = 2
    MaxFaults = 2
SYMMETRY UuidSymmetry
INVARIANTS
    TypeOK
    AcceptedAtMostOnce
    ReceiptsMatchAcceptance
    AnswersAgreeWithTable
    OnlyForgottenReceiptsAreMissing
