SPECIFICATION Spec
CONSTANTS
    AttrMax = 2
    IntBits = 16
    Shapes = {"pair"}
    Constraints = {}
    Values = {0}
    MaxRows = 1
    MaxRootRows = 1
    MaxLastRows = 1
    PairConstraints = {"atleast"}
    PairValues <- MCExtremes
    PairRows = 1
    Trees <- MCTrees
    TableData <- MCTableData
    Shuffles <- MCShuffles
    XorKey <- MCXorKeySigned
INVARIANT InfiniteSideIsUnbounded
