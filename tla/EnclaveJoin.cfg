SPECIFICATION Spec
CONSTANTS
    AttrMax = 7
    IntBits = 16
    Shapes = {"pair", "centre", "fork"}
    Constraints = {"atmost"}
    Values = {0, 1}
    MaxRows = 2
    MaxRootRows = 2
    MaxLastRows = 1
    PairConstraints = {"equal", "band", "openlow", "openhigh", "open", "atleast", "more", "atmost", "less", "unequal"}
    PairValues = {0, 1, 2}
    PairRows = 3
    Trees <- MCTrees
    TableData <- MCTableData
    Shuffles <- MCShuffles
    XorKey <- MCXorKey
INVARIANTS
    LocalMultCountsSubtrees
    FinalMultCountsUses
    AccumulatorIsPartialJoin
PROPERTY ImplementsJoinService
