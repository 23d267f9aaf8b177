CONSTANTS
    Blocks = {b1, b2}
    Peers = {p1, p2}
    FastPeers = {p1, p2}
    OneIOThread = FALSE
    MaxFailedWrites = 2
SPECIFICATION Spec
SYMMETRY BlockSymmetry
CONSTRAINT FewJobsOnceForgotten
INVARIANTS WritingIsWritten CountersExact OneWritePerBlock AnsweredNotRequested GoodUntilForgotten
PROPERTIES NoRequestsWhileClearing
