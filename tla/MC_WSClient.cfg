CONSTANTS
    d1 = d1
    d2 = d2
    d3 = d3
    d4 = d4
    d5 = d5
    cmdA = cmdA
    cmdB = cmdB
    Threads <- MCThreads
    Deliveries = {d1, d2, d4}
    CommandIDs = {cmdA, cmdB}
    IDOf <- MCIDOf
    Flaws <- MCFlaws
    MaxConns = 2
    ConnOf <- MCConnOf
    MaxParallelJobs = 1
    Envelope <- MCEnvelope
    QueueSize = 1
    OutboundSize = 1
    MaxSaveErrors = 1
SPECIFICATION Spec
INVARIANTS TypeOK OneExecution NoneDropped AnsweredOnce AckMeansQueued DuplicateOfAnother
CHECK_DEADLOCK FALSE
