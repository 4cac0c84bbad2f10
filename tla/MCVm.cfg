SPECIFICATION Spec
CONSTANTS
    s1 = s1
    s2 = s2
    Spaces <- MCSpaces
    Cores = {c1, c2}
    NoSpace = NoSpace
    MmapTop = 4
    NFrames = 2
    NRegions = 2
    NSegs = 1
    MaxId = 1
    MaxRefs <- MCMaxRefs
    MaxLen <- MCMaxLen
    MaxSeg = 2
    MapProts <- MCMapProts
    Prots <- MCProts
    Kinds <- MCKinds
    Leftovers = FALSE
    Halfway = FALSE
    Keys = {7}
INVARIANTS TlbTrue FramesHeld LaidOut
SYMMETRY Symmetric
CHECK_DEADLOCK FALSE
