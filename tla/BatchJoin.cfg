SPECIFICATION Spec
CONSTANTS
    IntBits = 16
    AttrMax = 1000
    MaxRows = 3
    Values = {0, 1}
    PairValues = {0, 1, 2}
    Comparisons <- MCComparisons
    WideComparisons <- MCWideComparisons
    Inputs <- MCInputs
    Shuffles <- MCShuffles
INVARIANTS
    TypeOK
    TreeDecidesTheQuery
    LocalMultIsSubtreeCount
    FinalMultIsUseCount
    AccumulatorHoldsMatches
PROPERTY ImplementsQueryService
