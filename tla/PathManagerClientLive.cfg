CONSTANTS
    Role = "client"
    RelayConns = {c1, c2}
    DirectConns = {d1}
    Retriers = {r1}
    None = None
    c1 = c1
    c2 = c2
    d1 = d1
    r1 = r1
SPECIFICATION FairSpec
PROPERTY DeadConnReplaced
PROPERTY RetryConverges
