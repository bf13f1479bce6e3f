SPECIFICATION Spec
CONSTANTS
    STREAM_CHUNK = 2
    BATCH = 3
    MaxRows = 7
    Results <- MCResults
    OutCols <- MCOutCols
INVARIANTS
    TypeOK
    OnlyCiphertextLeaves
    NoncesAreFresh
    FileIsResultPrefix
    FailsOnlyOnFault
    DecryptorRestoresFile
