\* Two workers; a job without flags and a serial one that may be raised; two
\* calls of the master beside AddJob and ResumeExecution.
SPECIFICATION FairPoolSpec
CONSTANTS
  w1 = w1
  w2 = w2
  plain = plain
  serial = serial
  NoQueue = NoQueue
  NoJob = NoJob
  NoThread = NoThread
  Master = master
  SharedQueue = shared
  m_Threads <- MCThreads
  Threads = {w1, w2, master}
  Queues = {w1, w2, shared}
  Jobs = {plain, serial}
  QueueJobs = {serial}
  SerialJobs = {serial}
  FirstPriority <- MCPriority
  MaxCalls = 2
INVARIANTS
  TypeOK
  NeverEmptyHanded
  ExecutedOnce
  ReferencesCover
  SuspendedMeansIdle
  NoneLeftAsleep
  AbortAllTakesAll
PROPERTIES
  JobsFinish
CHECK_DEADLOCK FALSE
