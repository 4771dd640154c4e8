CONSTANTS
  r1 = r1  t1 = t1  t2 = t2  a = a  b = b
  NoRun = NoRun
  NoThread = NoThread
  Runs <- OneRun
  Nodes = {}
  PlainTypes <- Decompose
  Threads <- TwoThreads
  PoolSize = 1
  MaxJobs = 2
  MaxCalls = 1
  MaxOutages = 1
  MaxFaults = 1
  MaxRestarts = 0
SPECIFICATION Spec
SYMMETRY ThreadSymmetry
INVARIANT OneActiveJob
INVARIANT DrainersCounted
INVARIANT NoLostWakeup
INVARIANT SoleExecutor
PROPERTY FinishedIsFinal
CHECK_DEADLOCK FALSE
