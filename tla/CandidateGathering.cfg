\* Two relay sessions query at the same time.
SPECIFICATION FairSpec
CONSTANTS
    Sessions = {1, 2}
    Interfaces <- MCInterfaces
    Overlay = {"tun"}
    LinkLocal = {"fe80"}
    None = None
INVARIANTS TypeOK OffersOwnAddresses
PROPERTIES GatheringEnds ResultSent
CHECK_DEADLOCK FALSE
