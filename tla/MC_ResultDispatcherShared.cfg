CONSTANTS
    r1 = r1
    r2 = r2
    r3 = r3
    r4 = r4
    cmdA = cmdA
    cmdB = cmdB
    empty = empty
    fileA = fileA
    fileB = fileB
    unknown = unknown
    Results = {r1, r2}
    CommandIDs = {cmdA, cmdB, empty}
    NoID = empty
    RecordIDs = {fileA, fileB, unknown}
    CommandOf <- MCCommandOf
    SanitizedID <- MCSanitizedID
    Bytes <- MCBytes
    ErrorBytes = 1
    MaxRecords = 1
    MaxBytes = 3
    BaseDelay = 1
    MaxDelay = 2
    JitterPart = 5
    MaxTime = 1
    MaxAttempts = 1
    Tickers = {ticker}
    Connects = {connect}
    Enqueuers = {worker}
    WSEnabled = TRUE
    PullEnabled = TRUE
    BatchLimit = 2
    MaxCrashes = 1
SPECIFICATION Spec
PROPERTIES DeletedResultWasSent
