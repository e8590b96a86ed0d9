\* external_handlers.go:246-247 against the answer to the call.
SPECIFICATION Spec
CONSTANTS
    m1 = m1
    m2 = m2
    u1 = u1
    u2 = u2
    acme = acme
    Ids = {m1, m2, u1, u2}
    Uuids = {u1, u2}
    Partners <- MCPartners
    Envelopes <- OneEnvelope
    Profiles <- KnownOnly
    MaxCalls = 1
    MaxFaults = 1
INVARIANTS
    ForgottenIsNotConfirmed
