CONSTANTS
    Peers = {p1, p2}
    PoolSizes = {0}
    BlocksPerRead = 2
    MaxBlocks = 3
    MaxPosted = 1
    MaxSends = 1
SPECIFICATION FairSpec
INVARIANTS WaitersHaveWrites WaitersWillBeTold PeersReadOrWait
PROPERTY PeersKeepReading
