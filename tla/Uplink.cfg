\* Two sessions writing, one caller of IsConnected, two streams one after the other.
SPECIFICATION FairSpec
CONSTANTS
    Writers = {w1, w2}
    Callers = {c1}
    MaxStreams = 2
    MaxEnv = 3
    None = None
INVARIANTS TypeOK FramesWhole CutOnlyWhenLost
PROPERTIES LostStreamCleanedUp CallsReturn
