SPECIFICATION Spec
CONSTANTS
    AKS_BUFFER = 4
    MaxBatch = 3
    MaxRows = 3
    MaxMult = 7
    MaxOut = 13
    Counts <- MCCounts
INVARIANTS
    BatchInvariant
    DistributionInvariant
    EncryptionIsUniform
PROPERTY ImplementsExpandService
