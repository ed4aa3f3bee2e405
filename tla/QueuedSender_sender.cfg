SPECIFICATION FairSpec
CONSTANTS
  Data = {d1, d2, d3}
  Channels = {ch}
  MaxQueuedPackets = 2
  WaitInterval = 2
  Wrap = 100
  StartTime = 0
  MaxClock = 3
INVARIANTS
  TypeOK
  SentInOrder
  NeverOversleeps
PROPERTIES
  ShutdownReturns
  QueuedIsSent
\* the system stops when the sender was shut down
CHECK_DEADLOCK FALSE
