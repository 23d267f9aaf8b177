SPECIFICATION Spec
CONSTANTS
    NumFiles = 2
    NumPieces = 2
    Layout <- TwoFiles
    FullPieces = {0, 1}
    FirstPriorities <- Unwanted
    MaxWrites = 1
    MaxChanges = 2
    MaxFaults = 0
    MaxRestarts = 0
INVARIANT PrioritiesTakeEffect
CHECK_DEADLOCK FALSE
