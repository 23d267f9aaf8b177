CONSTANTS
    w1 = w1
    w2 = w2
    w3 = w3
    r1 = r1
    r2 = r2
    h1 = h1
    h2 = h2
    f1 = f1
    WriteJobs = {w1}
    ReadJobs = {r2}
    HashJobs = {h2}
    FenceJobs = {f1}
    SequentialHash = {h2}
    VolatileHash = {}
    StopJobs = {}
    LateJobs = {r2}
    Workloads <- LiveWorkloads
    Blocks <- PieceBlocks
    BlocksOf <- JobBlocks
    GenericThreads = {g1, g2}
    HashThreads = {t1}
    Net = net
    Settings <- NoneToTwo
    SettingsChanges <- BetweenOneAndTwo
    DiskFaults = {"exception"}
    MayReap = TRUE
    MayAbort = TRUE
SPECIFICATION FairSpec
INVARIANTS  ShutdownCallsHandlers
PROPERTIES ShutdownEndsThreads EveryHandlerCalled
