CONSTANTS
  Names = {"a", "b"}
  NClus = 4
  CSize = 2
  MaxSize = 5
  Writes = {2}
  Places = {0, 3}
  Drives = {"f", "x"}
  ExFat = {"x"}
  Shipped <- MCShipped
  Risky = {}
  Setups <- MCSetups
SPECIFICATION Spec
INVARIANTS HoldsClosed FilesSound
CHECK_DEADLOCK FALSE
