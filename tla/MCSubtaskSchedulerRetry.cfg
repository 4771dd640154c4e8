CONSTANTS
  r1 = r1  r2 = r2  a = a  b = b  c = c
  NoAgent = NoAgent  Nobody = Nobody
  Runs <- OneRun
  Nodes <- TwoNodes
  Agents <- TwoAgents
  RunOf <- SameRun
  Deps <- Apart
  Pinned <- NoPins
  Workers = 2
  PoolSize = 2
  MaxAttempts = 2
  MaxCancels = 0
  MaxResumes = 0
  MaxToggles = 0
  MaxErrors = 0
  MaxOutages = 0
  MaxRestarts = 0
SPECIFICATION Spec
INVARIANT RetryIsQueued
CHECK_DEADLOCK FALSE
