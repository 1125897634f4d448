SPECIFICATION Spec
CONSTANTS
    PThreads = {p1}
    GThreads = {g1}
    Starter = starter
    Configs <- BothWatchdogs
    GamespyRetries = 1
    LaunchMayFail = FALSE
    LaunchWithin10s = FALSE
    PromptReplies = TRUE
    MaxLaunch = 2
    MaxFailures = 0
    MaxEdits = 2
    MaxQueue = 2
    MaxDatagrams = 1
INVARIANTS
    TypeOK
    SleepMirrorsWaiting
CHECK_DEADLOCK FALSE
