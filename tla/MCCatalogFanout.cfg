SPECIFICATION Spec
CONSTANTS
  pe = pe
  pdb1 = pdb1
  pdb2 = pdb2
  ws1 = ws1
  ws2 = ws2
  c = c
  g = g
  Public = Public
  Nothing = Nothing
  Files = {pe, pdb1, pdb2}
  Kind <- MCKind
  Code <- MCCode
  Debug <- MCDebug
  Workspaces = {ws1, ws2}
  Demands = {1, 2}
  Home <- MCHome
  Modules <- MCModules
  PageSize = 1
  Uploaded <- MCUploaded
  Planned = {2}
  MaxEvents = 2
  MaxFaults = 1
INVARIANTS
  CatalogIsDerived
  NobodyIsMissed
PROPERTY
  EverybodyIsServed
CHECK_DEADLOCK FALSE
