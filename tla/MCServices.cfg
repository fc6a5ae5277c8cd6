SPECIFICATION ServicesSpec
CONSTANTS
  Nothing = Nothing
  Fields <- MCFields
  Reports <- MCReports
  Allowed <- MCAllowed
  Reviewable <- MCReviewable

  PdbJobs = {j1, j2}
  PdbKeys = {k1, k2}
  PdbWorkers = {w1, w2}
  PdbModules = {1, 2, 3}
  PdbIdentity <- MCPdbIdentity
  PdbSkip <- MCPdbSkip
  PdbVerdicts = {"downloaded"}
  TargetLimit = 2
  MaxDeliveries = 2
  NoPdbJob = NoPdbJob
  PdbRuns = {1}
  NoPdbRun = 0
  MaxPdbFaults = 1

  SrcFiles = {"big", "small"}
  SrcRequests = {q1, q2}
  SrcSize <- MCSrcSize
  SrcReserve <- MCSrcReserve
  SrcReplicas <- MCSrcReplicas
  MaxLocations = 2
  MaxDownloads = 2
  MaxConcurrent = 2
  MaterializeBytes = 4
  CacheBytes = 3
  NoFile = NoFile
  MaxSrcFaults = 1

  Humans = {a, b}
  Services = {s}
  Credentials = {c1, c2}
  AcctRequests = {r1, r2}
  NoRequest = NoRequest
  NoAccount = NoAccount
  NoCredential = NoCredential

  GwJobs = {g1}
  GwModules <- MCGwModules
  GwIdentity <- MCGwIdentity
  GwPath <- MCGwPath
  GwPe = {"a1", "a2", "x"}
  NoIdentity = "none"
  NoPath = "none"
  GwSeed = {"A2"}
  MaxGwFaults = 2
INVARIANTS
  NoReturn
  PublicSymbolJobsAreSound
  SourceBooksBalance
  PermanentMeansProven
  
  MissesAreProven
PROPERTIES
  ReplacementIsEarned
  
  AdminRemains
SYMMETRY ServicesSymmetry
CHECK_DEADLOCK FALSE
