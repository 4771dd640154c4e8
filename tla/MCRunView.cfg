CONSTANTS
  r1 = r1  r2 = r2
  Requests <- TwoRequests
  MaxErrors = 2
  CapSetting = 0
  CapFallback = 2
  MaxRows = 2
  MaxOwed = 1
  MaxEvents = 2
  MaxClicks = 1
  MaxFaults = 1
SPECIFICATION FairSpec
INVARIANT ClosedShowsEnd
PROPERTY MirrorsRun
PROPERTY PageCatchesUp
CHECK_DEADLOCK FALSE
