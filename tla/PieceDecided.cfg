CONSTANTS
    Blocks = {b1, b2}
    Peers = {p1, p2}
    FastPeers = {p1}
    OneIOThread = TRUE
    MaxFailedWrites = 0
SPECIFICATION FairSpec
INVARIANTS AnnouncedIsKept
PROPERTIES CompleteIsDecided
