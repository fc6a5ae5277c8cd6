SPECIFICATION Spec
CONSTANTS
  p1 = p1
  p2 = p2
  a1 = a1
  a2 = a2
  b1 = b1
  c1 = c1
  NoPlanner = NoPlanner
  Planners = {p1, p2}
  Demands = {a1, a2, b1, c1}
  Workspaces = {1, 2, 3}
  Home <- HomeOf
  Arrival <- ArrivalOf
  GlobalLimit = 2
  WorkspaceLimit = 1
  ReleaseLimit = 2
  EnumerationLimit = 2
  MaxEvents = 1
  MaxFaults = 1
INVARIANTS
  CapacityIsSharedOut
  BoundedBypass
PROPERTIES
  EveryDemandServed
CHECK_DEADLOCK FALSE
