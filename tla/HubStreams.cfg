\* Two connections, three discoveries, buffers of one event.
SPECIFICATION Spec
CONSTANTS
    c1 = c1
    c2 = c2
    d1 = d1
    d2 = d2
    d3 = d3
    Clients = {c1, c2}
    Discoveries = {d1, d2, d3}
    SendBuffer = 1
    BroadcastBuffer = 1
INVARIANTS
    TypeOK
    NeverPanics
    GaplessStream
    EventsFollowTheTable
PROPERTIES
    ClosedClientsLeave
    BroadcastsGetThrough
\* The dashboard rests when nobody does anything.
CHECK_DEADLOCK FALSE
