CONSTANTS
    Role = "proxy"
    RelayConns = {c1, c2, c3}
    DirectConns = {d1, d2}
    Retriers = {r1}
    None = None
    c1 = c1
    c2 = c2
    c3 = c3
    d1 = d1
    d2 = d2
    r1 = r1
SPECIFICATION Spec
SYMMETRY Symmetry
INVARIANT NoLostSession
