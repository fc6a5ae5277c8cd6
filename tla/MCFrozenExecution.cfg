SPECIFICATION Spec
CONSTANTS
  Pairs <- MCPairs
  PublicSources <- MCPublicSources
  Microsoft = 9
  Dumps <- MCDumps
  Replies <- MCReplies
  Budget = 3
  PeBudget = 1
  PartBudget = 3
  MaxPosts = 2
  MaxPe = 2
  MaxFaults <- MCMaxFaults
INVARIANTS
  EvidenceIsHonest
  PublicNeverFailsTheRun
  LeakHasCause
PROPERTY ExecutionEnds
CHECK_DEADLOCK FALSE
