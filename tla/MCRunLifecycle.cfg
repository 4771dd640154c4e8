CONSTANTS
  c1 = c1  c2 = c2
  Clients <- OneClient
  Requests = {"approve", "edit", "rollback", "resume", "cancel"}
  Workers = 2
  RepairCycles = 2
  Online = FALSE
  MaxPlans = 4
  MaxRequests = 4
  MaxEdits = 1
  MaxExpansions = 1
  MaxErrors = 1
  MaxOutages = 1
  MaxRestarts = 0
SPECIFICATION Spec
INVARIANT TypeOK
INVARIANT OutcomeMatchesWorkspace
 
INVARIANT ExecutedIsApproved
PROPERTY OutcomeIsFinal
CHECK_DEADLOCK FALSE
