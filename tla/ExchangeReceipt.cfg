\* external_handlers.go:291-292 against a worker that gives up late.
SPECIFICATION Spec
CONSTANTS
    d1 = d1
    u1 = u1
    sender = sender
    receiver = receiver
    Documents = {d1}
    Uuids = {u1}
    SenderProfiles <- KnownOnly
    ReceiverProfiles <- KnownOnly
    Soundness = {TRUE}
    MaxRetries = 2
    MaxFaults = 0
PROPERTIES
    ReceiptStands
