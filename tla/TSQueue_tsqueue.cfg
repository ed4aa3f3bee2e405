SPECIFICATION Spec
CONSTANTS
  Threads = {p, q}
  End = End
  NULL = NULL
  MaxNodes = 4
  MaxPushes = 2
  MaxPops = 2
INVARIANTS
  TypeOK
  NullOnlyIfEmpty
  NothingLost
PROPERTIES
  ImplementsFifo
  NonBlocking
\* an instance ends with its operations
CHECK_DEADLOCK FALSE
