CONSTANTS
    Dials = FALSE
    Peers = {p1}
    Entries = {e1, e2, e3}
    MaxSID = 2
    MaxMsg = 3
    RecvCap = 2
    AcceptCap = 1
    None = None
    p1 = p1
    e1 = e1
    e2 = e2
    e3 = e3
SPECIFICATION FairSpec
PROPERTY LostStreamEndsSessions
