SPECIFICATION FairSpec
CONSTANTS
  p1 = p1
  p2 = p2
  e1 = e1
  e2 = e2
  NoPlanner = NoPlanner
  NoEvidence = NoEvidence
  Planners = {p1}
  Evidence = {e1, e2}
  MaxAttempts = 2
  EventKinds = {"catalog", "expiry", "restart"}
  MaxEvents = 2
  MaxFaults = 1
PROPERTY RestsOrReplays
CHECK_DEADLOCK FALSE
