SPECIFICATION Spec
CONSTANTS
  Short = short
  Packets = {short, long}
  Zipped = {long}
  ShortLen = 4
  LongLen = 5
  SendLen <- MCSendLen
  SPLIT_SIZE = 2
  MAX_SPLITPACKET_SPLITS = 3
  Nothing = nothing
  Torn = torn
  Channels = {c1, c2}
  MaxQueuedPackets = 2
  WaitInterval = 3
  MaxClock = 4
  Pace = 1
  MaxPackets = 2
INVARIANTS
  AllPutTogether
  NoneTorn
\* an instance ends when its packets were sent and its time is over
CHECK_DEADLOCK FALSE
