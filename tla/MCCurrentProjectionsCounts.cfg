SPECIFICATION ProjectionsSpec
CONSTANTS
  None = None
  o1 = o1
  o2 = o2
  s1 = s1
  s2 = s2
  g1 = g1
  g2 = g2
  Occurrences = {o1, o2}
  Symbols = {s1, s2}
  Groups = {g1, g2}
  OccurredAt <- MCOccurredAt
  Id <- MCId
  Views = {"issues", "symbol_affected", "unclassified"}
  Reports <- MCReports
  PageSize = 1
INVARIANTS
  CountsAreExact
