SPECIFICATION FairSpec
CONSTANTS
    Mod = 20
    Iss <- MCIss
    Mss = 1
    RxCap = 3
    TxCap = 4
    CwndMax = 3
    Retries = 1
    SynRetries = 1
    HeldMax = 1
    DupAcks = 2
    Bytes = 4
    Writes = {4}
    Reads = {1, 3}
    Faults = 1
INVARIANTS StreamKept WholeAtEnd
PROPERTIES Delivered
CHECK_DEADLOCK FALSE
