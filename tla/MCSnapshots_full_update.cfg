SPECIFICATION MCSpec
CONSTANTS
  Slots = {s1}
  Classes = {c}
  Values = {0, 1}
  ClassBaseline <- MCClassBaseline
  NoEntity = NoEntity
  Same = Same
  NoMsg = NoMsg
  MAX_CLIENT_FRAMES = 2
  MayOverflow = FALSE
  MaxTick = 5
  MaxSerial = 1
  MaxToClient = 2
  MaxToServer = 1
  MaxRequests = 0
INVARIANTS
  ClientShowsSnapshot
CHECK_DEADLOCK FALSE
