\* One document, sound and unsound envelopes, every loss and delay, one disturbance.
SPECIFICATION Spec
CONSTANTS
    d1 = d1
    u1 = u1
    sender = sender
    receiver = receiver
    Documents = {d1}
    Uuids = {u1}
    SenderProfiles <- KnownOnly
    ReceiverProfiles <- KnownOnly
    Soundness = {TRUE, FALSE}
    MaxRetries = 2
    MaxFaults = 1
INVARIANTS
    TypeOK
    ReceiptsAreTruthful
    SentReceiptsArrived
PROPERTIES
    KeepsPromise
