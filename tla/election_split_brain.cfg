SPECIFICATION FairSpec
CONSTANTS
    NumServers = 3
    FlagPrimary = 1
    heartbeatInterval = 1
    heartbeatTimeout = 3
    startupGrace = 6
    ProbeTimeout = 1
    AskTimeout = 2
    MaxCrashes = 1
    MaxRestarts = 0
PROPERTIES
    EventuallyOnePrimary
