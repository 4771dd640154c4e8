CONSTANTS
  r1 = r1  r2 = r2  a = a  b = b  c = c
  NoAgent = NoAgent  Nobody = Nobody
  Runs <- OneRun
  Nodes <- ThreeNodes
  Agents <- TwoAgents
  RunOf <- SameRun
  Deps <- Join
  Pinned <- NoPins
  Workers = 2
  PoolSize = 2
  MaxAttempts = 2
  MaxCancels = 1
  MaxResumes = 1
  MaxToggles = 0
  MaxErrors = 0
  MaxOutages = 1
  MaxRestarts = 1
SPECIFICATION Spec
INVARIANT TypeOK
INVARIANT DependenciesFirst
INVARIANT MergedWhole
CHECK_DEADLOCK FALSE
