CONSTANTS
  r1 = r1  r2 = r2  a = a  b = b  c = c
  NoAgent = NoAgent  Nobody = Nobody
  Runs <- OneRun
  Nodes <- ThreeNodes
  Agents <- TwoAgents
  RunOf <- SameRun
  Deps <- Pair
  Pinned <- SharedPins
  Workers = 2
  PoolSize = 2
  MaxAttempts = 1
  MaxCancels = 1
  MaxResumes = 0
  MaxToggles = 1
  MaxErrors = 1
  MaxOutages = 1
  MaxRestarts = 0
SPECIFICATION FairSpec
INVARIANT NoDeadGraph
 
 
PROPERTY GraphSettles
CHECK_DEADLOCK FALSE
