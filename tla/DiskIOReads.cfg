CONSTANTS
    w1 = w1
    w2 = w2
    w3 = w3
    r1 = r1
    r2 = r2
    h1 = h1
    h2 = h2
    f1 = f1
    WriteJobs = {w1, w2, w3}
    ReadJobs = {r1, r2}
    HashJobs = {h1}
    FenceJobs = {f1}
    SequentialHash = {h1}
    VolatileHash = {h1}
    StopJobs = {f1}
    LateJobs = {}
    Workloads <- ReadWorkloads
    Blocks <- PieceBlocks
    BlocksOf <- JobBlocks
    GenericThreads = {g1, g2}
    HashThreads = {t1}
    Net = net
    Settings <- TwoGenericOneHash
    SettingsChanges = {}
    DiskFaults = {"error"}
    MayReap = FALSE
    MayAbort = FALSE
SPECIFICATION Spec
SYMMETRY ThreadSymmetry
INVARIANTS ReadsSeeWrites StoreBufferExact FenceSynchronizes JobsInOnePlace
