SPECIFICATION FairSpec
CONSTANTS
    Cores = {b, a1, a2}
    Bsp = b
    None = None
    MaxNest = 4
INVARIANTS KernelExclusive DepthCounts NoPanic NoStaleTranslation TicksDoNotStack
PROPERTIES ShootdownAnswered
