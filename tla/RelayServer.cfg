CONSTANTS
    Peers = {p1, p2}
    Handlers = {h1, h2, h3}
    MaxEnv = 2
    None = None
    p1 = p1
    p2 = p2
    h1 = h1
    h2 = h2
    h3 = h3
SPECIFICATION Spec
CHECK_DEADLOCK FALSE
SYMMETRY Symmetry
INVARIANT TypeOK
INVARIANT RegisteredIsServing
INVARIANT DeliveredToDst
INVARIANT PerSourceOrder
INVARIANT UnreachableAfterReturn
INVARIANT EnvelopesWhole
