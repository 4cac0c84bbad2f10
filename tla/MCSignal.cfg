SPECIFICATION FairSpec
CONSTANTS
    Threads = {t1}
    Programs <- Both
CHECK_DEADLOCK FALSE
INVARIANTS RedoneIffUndone HandlersInOrder DefaultsNotSleptOn
PROPERTIES KillEnds
