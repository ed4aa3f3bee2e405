SPECIFICATION Spec
VIEW MCView
CONSTANTS
  Msgs = {a, r}
  Files = {f}
  Missing = {}
  ResetMsgs = {r}
  FailMsgs = {}
  Garbage = garbage
  ClientItems = {}
  LargeItems = {a}
  LargeBytes = 6
  Sender <- MCSender
  Bytes <- MCBytes
  Packed <- MCPacked
  FRAGMENT_SIZE = 2
  MAX_SUBCHANNELS = 2
  NET_MAX_PAYLOAD = 8
  SendMaxFragments = 2
  FileBackground = TRUE
  Compressing = {"server"}
  MinCompress = 3
  MaxPacketDrop = 0
  MaxSeq = 100
  MaxChoked = 1
  ServerCap = 1
  ClientCap = 1
  NetCap <- MCNetCap
INVARIANTS
  TypeOK
  SubchannelsInv
  FragmentAccounting
  FragmentsDisjoint
  InOrderOnce
  DrainedMeansDelivered
