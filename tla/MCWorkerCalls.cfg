CONSTANTS
  a = a  b = b
  Calls <- TwoCalls
  NodeOf <- SameName
  Unregistered = Unregistered
  MaxAttempts = 2
  MaxTurns = 1
  MaxSessions <- TwoEach
  MaxFaults = 1
  MaxCancels = 1
SPECIFICATION FairSpec
INVARIANT CancelReaches
INVARIANT ResultIsStable
PROPERTY CallEnds
CHECK_DEADLOCK FALSE
