SPECIFICATION MCFairSpec
CONSTANTS
  Msgs = {r}
  Files = {g}
  Missing = {g}
  ResetMsgs = {r}
  FailMsgs = {}
  Garbage = garbage
  ClientItems = {g}
  LargeItems = {g}
  LargeBytes = 5
  Sender <- MCSender
  Bytes <- MCBytes
  Packed <- MCPacked
  FRAGMENT_SIZE = 2
  MAX_SUBCHANNELS = 2
  NET_MAX_PAYLOAD = 8
  SendMaxFragments = 2
  FileBackground = TRUE
  Compressing = {}
  MinCompress = 3
  MaxPacketDrop = 0
  MaxSeq = 100
  MaxChoked = 0
  ServerCap = 1
  ClientCap = 1
  NetCap <- MCNetCap
PROPERTIES
  ImplementsServerStream
  ImplementsClientStream
