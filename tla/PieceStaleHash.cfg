CONSTANTS
    Blocks = {b1, b2}
    Peers = {p1, p2}
    FastPeers = {p1}
    OneIOThread = TRUE
    MaxFailedWrites = 1
SPECIFICATION Spec
INVARIANT HaveIsGood
