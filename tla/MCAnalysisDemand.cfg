SPECIFICATION Spec
CONSTANTS
  p1 = p1
  p2 = p2
  e1 = e1
  e2 = e2
  NoPlanner = NoPlanner
  NoEvidence = NoEvidence
  Planners = {p1, p2}
  Evidence = {e1, e2}
  MaxAttempts = 2
  EventKinds = {"catalog", "role", "review"}
  MaxEvents = 2
  MaxFaults = 1
SYMMETRY Symmetry
INVARIANTS
  SlotAndBudget
  FreshWhenDecided
PROPERTY OneRunAtATime
CHECK_DEADLOCK FALSE
