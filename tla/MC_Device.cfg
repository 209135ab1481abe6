CONSTANTS
    r1 = r1
    r2 = r2
    r3 = r3
    r4 = r4
    r5 = r5
    cmdA = cmdA
    empty = empty
    Results = {r1, r2, r3, r4, r5}
    CommandIDs = {cmdA, empty, r3, r4, r5}
    NoID = empty
    RecordIDs = {cmdA, r3, r4, r5}
    CommandOf <- MCCommandOf
    SanitizedID <- MCSanitizedID
    Bytes <- MCBytes
    ErrorBytes = 1
    MaxRecords = 1
    MaxBytes = 9
    BaseDelay = 2
    MaxDelay = 3
    JitterPart = 3
    MaxAttempts = 1
    Nil = Nil
    MaxTroubles = 2
SYMMETRY Alike
SPECIFICATION Spec
INVARIANTS RecordsWhole SavedIsKept OverfullByFailures GoneStaysGone
CHECK_DEADLOCK FALSE
