CONSTANTS
  r1 = r1  t1 = t1  t2 = t2  a = a  b = b
  NoRun = NoRun
  NoThread = NoThread
  Runs <- OneRun
  Nodes <- TwoNodes
  PlainTypes <- NoTypes
  Threads <- TwoThreads
  PoolSize = 1
  MaxJobs = 2
  MaxCalls = 1
  MaxOutages = 0
  MaxFaults = 0
  MaxRestarts = 1
SPECIFICATION FairSpec
INVARIANT TypeOK
INVARIANT PoolRespected
PROPERTY PendingIsServed
CHECK_DEADLOCK FALSE
