CONSTANTS
    Nil = Nil
    Width = 4
    Second = 3
    SpecTimeouts = {3, 6}
    DefaultTimeout = 3
    MaxOutputBytes = 3
    PipeSize = 2
    SnapshotBytes = 2
    MaxEmitted = 3
SPECIFICATION FairSpec
INVARIANTS DeadlineWithinLimit OutputAccounted ResultTellsExit SummaryTellsRun
PROPERTIES CallReturns
CHECK_DEADLOCK FALSE
