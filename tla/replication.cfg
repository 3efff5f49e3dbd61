SPECIFICATION Spec
CONSTANTS
    s1 = s1  s2 = s2  s3 = s3
    k1 = k1  k2 = k2
    Server = {s1, s2, s3}
    None = None
    Slot = {k1, k2}
    MaxRequests = 2
    MaxAttempts = 2
    MaxCrashes = 1
    MaxFaults = 1
SYMMETRY Symmetric
INVARIANTS
    TypeOK
    AckedOnLive
    AgreedVersions
PROPERTIES
    RepeatExplained
CHECK_DEADLOCK FALSE
