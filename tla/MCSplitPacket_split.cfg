SPECIFICATION Spec
CONSTANTS
  Short = short
  Packets = {short, long}
  Zipped = {short}
  ShortLen = 5
  LongLen = 6
  SendLen <- MCSendLen
  SPLIT_SIZE = 2
  MAX_SPLITPACKET_SPLITS = 3
  Nothing = nothing
  Torn = torn
  Addresses = {a1}
  SPLIT_PACKET_STALE_TIME = 1
  MaxPackets = 2
INVARIANTS
  TypeOK
  OnlyWholePackets
  CountsAgree
\* the bounded instance stops when all was sent and has arrived or is lost
CHECK_DEADLOCK FALSE
