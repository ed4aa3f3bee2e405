SPECIFICATION Spec
CONSTANTS
  Threads = {p, q}
  End = End
  NULL = NULL
  MaxNodes = 4
  MaxPushes = 2
  MaxPops = 2
INVARIANTS
  FirstInFirstOut
CHECK_DEADLOCK FALSE
