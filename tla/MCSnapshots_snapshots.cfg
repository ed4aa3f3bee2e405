SPECIFICATION MCSpec
CONSTANTS
  Slots = {s1, s2}
  Classes = {c}
  Values = {0, 1}
  ClassBaseline <- MCClassBaseline
  NoEntity = NoEntity
  Same = Same
  NoMsg = NoMsg
  MAX_CLIENT_FRAMES = 3
  MayOverflow = TRUE
  MaxTick = 3
  MaxSerial = 2
  MaxToClient = 2
  MaxToServer = 1
  MaxRequests = 1
SYMMETRY SlotSymmetry
INVARIANTS
  TypeOK
  ClientShowsSnapshot
  NothingDrops
  BaselinesAgree
  WaitIsAnswered
\* an instance ends with its ticks
CHECK_DEADLOCK FALSE
