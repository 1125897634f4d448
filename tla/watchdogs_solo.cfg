SPECIFICATION FairSpec
CONSTANTS
    PThreads = {p1}
    GThreads = {g1}
    Starter = starter
    Configs <- OneWatchdog
    GamespyRetries = 1
    LaunchMayFail = TRUE
    LaunchWithin10s = TRUE
    PromptReplies = TRUE
    MaxLaunch = 6
    MaxFailures = 2
    MaxEdits = 0
    MaxQueue = 2
    MaxDatagrams = 2
INVARIANT AliveIsTracked
PROPERTIES
    ProcessRestarts
    GamespyRestarts
CHECK_DEADLOCK FALSE
