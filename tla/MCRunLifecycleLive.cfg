CONSTANTS
  c1 = c1  c2 = c2
  Clients <- TwoClients
  Requests = {"approve", "rollback"}
  Workers = 1
  RepairCycles = 2
  Online = FALSE
  MaxPlans = 4
  MaxRequests = 4
  MaxEdits = 0
  MaxExpansions = 2
  MaxErrors = 2
  MaxOutages = 0
  MaxRestarts = 0
SPECIFICATION FairSpec
INVARIANT NoStranded
PROPERTY RunSettles
 
CHECK_DEADLOCK FALSE
