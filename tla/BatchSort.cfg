SPECIFICATION Spec
CONSTANTS
    K = 2
    MaxBatch = 3
    ShuffleBuffer = 1
    MergeBuffer = 2
    SmallSizes = {0, 1, 2}
    LargeSizes = {3, 4, 9}
    Inputs <- MCInputs
INVARIANTS
    PaddedSizeIsAccepted
    ShuffleKeepsRows
    MergeInvariant
PROPERTIES
    ImplementsSortService
    CallEnds
