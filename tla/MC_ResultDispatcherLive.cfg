CONSTANTS
    r1 = r1
    r2 = r2
    r3 = r3
    r4 = r4
    cmdA = cmdA
    cmdB = cmdB
    empty = empty
    fileA = fileA
    fileB = fileB
    unknown = unknown
    Results = {r1, r3}
    CommandIDs = {cmdA, cmdB, empty}
    NoID = empty
    RecordIDs = {fileA, fileB, unknown}
    CommandOf <- MCCommandOf
    SanitizedID <- MCSanitizedID
    Bytes <- MCBytes
    ErrorBytes = 1
    MaxRecords = 2
    MaxBytes = 2
    BaseDelay = 1
    MaxDelay = 2
    JitterPart = 5
    MaxTime = 1
    MaxAttempts = 1
    Tickers = {ticker}
    Connects = {}
    Enqueuers = {worker}
    WSEnabled = TRUE
    PullEnabled = FALSE
    BatchLimit = 2
    MaxCrashes = 1
SPECIFICATION FairSpec
PROPERTIES OutboxDrains ImplementsBox
