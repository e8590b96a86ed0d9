\* Two documents, two file names used again, two disturbances.
SPECIFICATION Spec
CONSTANTS
    u1 = u1
    u2 = u2
    u3 = u3
    u4 = u4
    d1 = d1
    d2 = d2
    acme = acme
    Nothing = Nothing
    Ids = {u1, u2, u3, u4}
    Names = {"order.json", "invoice.json"}
    Documents = {d1, d2}
    Partners = {acme}
    Profiles <- MCProfiles
    MaxFaults = 2
    MaxPending = 2
SYMMETRY MCSymmetry
INVARIANTS
    TypeOK
    ArchivedIsQueued
    QueuedOncePerDisturbance
    OnlySkippedFilesStay
\* The folder rests when every document is queued.
CHECK_DEADLOCK FALSE
