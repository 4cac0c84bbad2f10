SPECIFICATION Spec
CONSTANTS
    None = None
    MaxPipes = 2
    Cap = 2
    Setups <- Both
CHECK_DEADLOCK FALSE
INVARIANTS Carried NoStuck NoLeak
