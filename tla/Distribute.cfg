SPECIFICATION Spec
CONSTANTS
    MaxRows = 4
    MaxMult = 3
    Mults <- MCMults
INVARIANTS
    TypeOK
    RowsReachDestinations
    EveryRowFillsItsBlock
    SortLeavesTiesInAnyOrder
PROPERTY NeverDisplacesARow
