CONSTANTS
    d1 = d1
    d2 = d2
    d3 = d3
    d4 = d4
    d5 = d5
    cmdA = cmdA
    cmdB = cmdB
    Threads = {pull, worker}
    PullThread = pull
    Deliveries = {d1, d2, d4, d5}
    CommandIDs = {cmdA, cmdB}
    IDOf <- MCIDOf
    Flaws <- MCFlaws
    Envelope <- MCEnvelope
    WSEnabled = TRUE
    HealthSize = 1
    MaxCommands = 2
    MaxEnqueueErrors = 1
SPECIFICATION FairSpec
INVARIANTS TypeOK OneExecution HealthTracksLink NoneForgotten LeftOutLimited
PROPERTIES PullTakesOver PullPauses PulledIsAnswered ShutdownEnds
