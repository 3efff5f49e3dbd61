SPECIFICATION FairSpec
CONSTANTS
    NumFiles = 2
    NumWorkers = 2
    PrimesOf <- TwoFiles
    MarkerDest <- OwnPort
    MaxRuns = 2
    MaxWorkerCrashes = 1
    MaxFaults = 1
INVARIANTS
    TypeOK
    NoReprocessing
    SurvivorCompletes
    DurableAtLoopHead
    ConsistentCut
    CleanFirstRun
    SnapshotFaithful
    OutputWholeFiles
    EachFileOnce
    ChannelNeverFull
PROPERTIES
    ImplementsJob
    RunEnds
CHECK_DEADLOCK FALSE
