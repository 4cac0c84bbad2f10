SPECIFICATION FairSpec
CONSTANTS
    Cores = {b, a}
    Bsp = b
    None = None
    Setups <- Patient
PROPERTIES SleepEnds KilledDies NoStarvation
