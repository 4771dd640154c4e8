CONSTANTS
  c1 = c1  c2 = c2
  Clients <- TwoClients
  Snaps = {s1, s2}
  NoSnap = NoSnap
  Requests <- MCRequests
  MaxRequests = 5
  MaxErrors = 1
  MaxRestarts = 1
SPECIFICATION FairSpec
 
INVARIANT ActiveKeepsSnapshot
INVARIANT TrackedIsPresent
 
PROPERTY TreeReclaimed
CHECK_DEADLOCK FALSE
