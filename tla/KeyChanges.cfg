\* Two nodes, three key pairs (one rotation), two starts each, one disturbance.
SPECIFICATION Spec
CONSTANTS
    a = a
    b = b
    k1 = k1
    k2 = k2
    k3 = k3
    t1 = t1
    t2 = t2
    NoKey = NoKey
    Nodes = {a, b}
    Keys = {k1, k2, k3}
    Tasks = {t1, t2}
    MaxBoots = 2
    MaxFaults = 1
SYMMETRY MCSymmetry
INVARIANTS
    TypeOK
    OpensWithinALife
    FilesMatchUnlessSpoilt
\* Nothing happens any more when every node is down for good.
CHECK_DEADLOCK FALSE
