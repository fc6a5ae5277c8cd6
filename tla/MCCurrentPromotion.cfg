SPECIFICATION Spec
CONSTANTS
  Nothing = Nothing
  p1 = p1
  p2 = p2
  Pairs = {p1, p2}
  Reviewers = {v1}
  Identity <- MCIdentity
  FirstPairs <- MCFirstPairs
  Causes = {"initial", "symbol_refresh", "role_change"}
  Fields = {"function"}
  Results = {"none", "f", "g", "down", "conflict"}
  Report <- MCReport
  MaxRuns = 4
  MaxComparisons = 2
  MaxAttempts = 2
  MaxChanges = 2
  MaxPairEvents = 2
  MaxFaults = 1
INVARIANTS
  DecisionsAreSound
PROPERTIES
  Promise
  ReviewedPairsHold
  EveryRunEnds
CHECK_DEADLOCK FALSE
