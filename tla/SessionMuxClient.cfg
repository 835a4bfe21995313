\* Who sent a message plays no part in what is checked here: one peer.
CONSTANTS
    Dials = TRUE
    Peers = {p1}
    Entries = {e1, e2, e3}
    MaxSID = 2
    MaxMsg = 4
    RecvCap = 2
    AcceptCap = 1
    None = None
    p1 = p1
    e1 = e1
    e2 = e2
    e3 = e3
SPECIFICATION Spec
SYMMETRY Symmetry
INVARIANT TypeOK
INVARIANT OpenIffMapped
INVARIANT InOrder
PROPERTY ImplementsChannel
