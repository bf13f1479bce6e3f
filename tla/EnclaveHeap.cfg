SPECIFICATION Spec
CONSTANTS
    MaxNodes = 4
    Trees <- MCTrees
INVARIANTS
    NothingLeaks
    HeapInvariant
    FailureIsReported
