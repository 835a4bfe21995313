\* Two writers, three capsules of every kind, a control channel with room for one.
SPECIFICATION FairSpec
CONSTANTS
    Writers = {w1, w2}
    Capsules <- MCCapsules
    MaxWritten = 3
    MTU = 1400
    AllowedIPs = {"inside"}
    CtrlCap = 1
    None = None
INVARIANTS TypeOK WireFramed TunExact ControlOrdered EndsForCause
PROPERTIES BrokenConnEnds ImplementsQueue
CHECK_DEADLOCK FALSE
