SPECIFICATION Spec
CONSTANTS
    Owners = {o1, o2, o3}
    NFrames = 5
    PageSize = 6
    Sizes = {1, 2, 10}
    PreWarm = 6
    Tries = 2
INVARIANTS ListSound
PROPERTIES NullOnlyIfFull Allocates
SYMMETRY Symmetric
CHECK_DEADLOCK FALSE
