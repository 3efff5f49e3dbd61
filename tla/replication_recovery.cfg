SPECIFICATION Spec
CONSTANTS
    s1 = s1  s2 = s2  s3 = s3
    k1 = k1
    Server = {s1, s2, s3}
    None = None
    Slot = {k1}
    MaxRequests = 2
    MaxAttempts = 2
    MaxCrashes = 1
    MaxFaults = 0
INVARIANTS
    RecoveredMatches
CHECK_DEADLOCK FALSE
