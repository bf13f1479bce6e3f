SPECIFICATION Spec
CONSTANTS
    AttrMax = 7
    IntBits = 3
    Shapes = {"chain", "star"}
    Constraints = {"equal", "atmost"}
    Values = {0, 1}
    MaxRows = 2
    MaxRootRows = 2
    MaxLastRows = 2
    PairConstraints = {"equal"}
    PairValues = {0}
    PairRows = 1
    Trees <- MCTrees
    TableData <- MCTableData
    Shuffles <- MCShuffles
    XorKey <- MCXorKey
INVARIANTS
    TypeOK
    FinalMultCountsUses
    AccumulatorIsPartialJoin
