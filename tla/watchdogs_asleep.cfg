SPECIFICATION FairSpec
CONSTANTS
    PThreads = {p1}
    GThreads = {g1}
    Starter = starter
    Configs <- BothWatchdogs
    GamespyRetries = 1
    LaunchMayFail = FALSE
    LaunchWithin10s = TRUE
    PromptReplies = TRUE
    MaxLaunch = 3
    MaxFailures = 1
    MaxEdits = 0
    MaxQueue = 3
    MaxDatagrams = 1
PROPERTY SomeWatchdogOnDuty
CHECK_DEADLOCK FALSE
