SPECIFICATION Spec
CONSTANTS
    PieceLength = 2
    TorrentSize = 6
    Openings <- MCOpenings
    BufferPieces = 3
    Stops <- MCStops
    IntRange = 4
INVARIANTS Contiguous
PROPERTIES EosAtEnd ChainReaction
CHECK_DEADLOCK FALSE
