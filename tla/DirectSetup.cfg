\* Two goroutines probe one usable and one unusable address; two QUIC connections.
SPECIFICATION FairSpec
CONSTANTS
    Role = "client"
    Candidates = {a4, a6}
    IPv4 = {a4}
    Probers = {1, 2}
    NoAddr = NoAddr
    Conns = {c1, c2}
    AcceptCap = 2
    None = None
INVARIANTS TypeOK DirectPathRead OneDirectPath
PROPERTIES DialsEnd PathConverges
