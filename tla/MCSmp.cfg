SPECIFICATION FairSpec
CONSTANTS
    NAps = 2
    MaxJobs = 2
    Late = FALSE
INVARIANTS EachItsOwn
PROPERTIES JobEnds AllJoin
CHECK_DEADLOCK FALSE
