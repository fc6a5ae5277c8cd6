SPECIFICATION Spec
CONSTANTS
    u1 = u1
    u2 = u2
    ws1 = ws1
    ws2 = ws2
    dump = dump
    other = other
    short = short
    k1 = k1
    k2 = k2
    v1 = v1
    v2 = v2
    x1 = x1
    g1 = g1
    g2 = g2
    Uploads <- MCUploads
    Workspaces <- MCWorkspaces
    Contents <- MCContents
    Fitting <- MCFitting
    Declared <- MCFitting
    Dumps <- MCDumps
    Completers <- MCOneCompleter
    Verifiers <- MCVerifiers
    Expirers <- MCExpirers
    Collectors <- MCCollectors
    NoUpload = NoUpload
    NoWorkspace = NoWorkspace
    NoContent = NoContent
    NoProcess = NoProcess
    MaxPuts = 2
    MaxClaims = 2
    MaxPasses = 2
    MaxFaults = 1
SYMMETRY Symmetry
INVARIANTS DumpsAreKept 
 
CHECK_DEADLOCK FALSE
