SPECIFICATION Spec
CONSTANTS
    K = 2
    MaxBatch = 3
    ShuffleBuffer = 1
    MergeBuffer = 2
    SmallSizes = {0, 1}
    LargeSizes = {4, 5}
    Inputs <- MCInputs
INVARIANT ShuffleCompletes
