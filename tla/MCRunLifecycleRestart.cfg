CONSTANTS
  c1 = c1  c2 = c2
  Clients <- OneClient
  Requests = {"approve", "resume", "redo"}
  Workers = 1
  RepairCycles = 2
  Online = TRUE
  MaxPlans = 3
  MaxRequests = 4
  MaxEdits = 0
  MaxExpansions = 1
  MaxErrors = 1
  MaxOutages = 0
  MaxRestarts = 1
SPECIFICATION Spec
 
PROPERTY InterruptedApplyNotRerun
CHECK_DEADLOCK FALSE
