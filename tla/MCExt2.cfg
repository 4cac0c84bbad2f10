CONSTANTS
  Names = {"a", "b"}
  Fds = {1, 2}
  NBlocks = 8
  NInodes = 3
  NDirect = 1
  Per = 2
  BSize = 2
  DirRoom = 3
  MaxSize = 10
  Writes = {3}
  Places = {0, 5}
  Lens = {0, 2, 6}
  Risky = {}
  MaxCalls = 5
SPECIFICATION Spec
INVARIANTS Clean HoldsOthers ReadsOwn
CHECK_DEADLOCK FALSE
