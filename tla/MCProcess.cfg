SPECIFICATION Spec
CONSTANTS
    Cores = {b, a}
    Bsp = b
    None = None
    Setups <- Families
INVARIANTS Exclusive SpacesHeld NoLostWake
