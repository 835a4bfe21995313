CONSTANTS
    Dials = FALSE
    Peers = {p1, p2}
    Entries = {e1, e2, e3}
    MaxSID = 2
    MaxMsg = 3
    RecvCap = 2
    AcceptCap = 1
    None = None
    p1 = p1
    p2 = p2
    e1 = e1
    e2 = e2
    e3 = e3
SPECIFICATION Spec
SYMMETRY Symmetry
INVARIANT OwnStreamOnly
