SPECIFICATION Spec
CONSTANTS
    AttrMax = 7
    Values <- MCValues
    GoodOps = {"=", ">=", "<"}
    Families = {"chain", "star", "branching", "single", "refused", "where_only"}
    Queries <- MCQueries
    NumCols <- MCNumCols
INVARIANTS
    WalkInvariant
    TreeDecidesQuery
    VariantsEnumerateOrientations
    RefusedForAReason
