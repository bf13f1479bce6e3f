SPECIFICATION Spec
CONSTANTS
    AttrMax = 7
    Values <- MCValues
    GoodOps = {"="}
    Families = {"opposite"}
    Queries <- MCQueries
    NumCols <- MCNumCols
INVARIANT TreeDecidesQuery
