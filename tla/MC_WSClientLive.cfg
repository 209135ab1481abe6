CONSTANTS
    d1 = d1
    d2 = d2
    d3 = d3
    d4 = d4
    d5 = d5
    cmdA = cmdA
    cmdB = cmdB
    Threads <- MCThreads
    Deliveries = {d1, d2, d5}
    CommandIDs = {cmdA, cmdB}
    IDOf <- MCIDOf
    Flaws <- MCFlawed
    MaxConns = 1
    ConnOf <- MCConnOf
    MaxParallelJobs = 2
    Envelope <- MCEnvelope
    QueueSize = 1
    OutboundSize = 1
    MaxSaveErrors = 1
SPECIFICATION FairSpec
PROPERTIES QueuedIsAnswered TakenIsAnswered ReaderNotStuck
CHECK_DEADLOCK FALSE
