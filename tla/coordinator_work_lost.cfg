SPECIFICATION Spec
CONSTANTS
    NumFiles = 3
    NumWorkers = 2
    PrimesOf <- SharedPrimes
    MarkerDest <- OwnPort
    MaxRuns = 2
    MaxWorkerCrashes = 1
    MaxFaults = 0
INVARIANTS
    WorkLostAtMostOneFile
CHECK_DEADLOCK FALSE
