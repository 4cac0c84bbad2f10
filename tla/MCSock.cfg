CONSTANTS
  a = a
  a2 = a2
  b = b
  Threads = {a, a2, b}
  Main <- MCMain
  Slots = {1, 2}
  Handles = {1, 2}
  Listeners = {1}
  Udps = {1}
  Ports = {1}
  TxCap = 1
  Backlog = 1
  Setups <- MCSetups
  Risky = {}
SPECIFICATION FairSpec
INVARIANTS Accounted ActsOnOwn
PROPERTIES EndOrReason WaitEnds
CHECK_DEADLOCK FALSE
