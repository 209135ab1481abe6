CONSTANTS
    r1 = r1
    r2 = r2
    r3 = r3
    r4 = r4
    r5 = r5
    cmdA = cmdA
    cmdB = cmdB
    cmdC = cmdC
    empty = empty
    fileA = fileA
    fileB = fileB
    fileC = fileC
    unknown = unknown
    Results = {r1, r2, r3, r4, r5}
    CommandIDs = {cmdA, cmdB, cmdC, empty}
    NoID = empty
    RecordIDs = {fileA, fileB, fileC, unknown}
    CommandOf <- MCCommandOf
    SanitizedID <- MCSanitizedID
    Bytes <- MCBytes
    ErrorBytes = 1
    MaxRecords = 2
    MaxBytes = 4
    BaseDelay = 2
    MaxDelay = 3
    JitterPart = 3
    MaxTime = 1
    MaxAttempts = 2
SPECIFICATION StoreSpec
INVARIANTS BoundedWait LimitsSlack
PROPERTIES DropsOldest
