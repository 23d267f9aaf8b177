SPECIFICATION Spec
CONSTANTS
    NumFiles = 2
    NumPieces = 2
    Layout <- TwoFiles
    FullPieces = {0, 1}
    FirstPriorities <- Unwanted
    MaxWrites = 2
    MaxChanges = 2
    MaxFaults = 2
    MaxRestarts = 1
INVARIANTS SlotsExact ReadsSeeWrites SavedIsKept NothingDestroyed
CHECK_DEADLOCK FALSE
