SPECIFICATION FairSpec
CONSTANTS
    PThreads = {p1}
    GThreads = {g1}
    Starter = starter
    Configs <- ProcessOnly
    GamespyRetries = 1
    LaunchMayFail = TRUE
    LaunchWithin10s = TRUE
    PromptReplies = TRUE
    MaxLaunch = 3
    MaxFailures = 2
    MaxEdits = 0
    MaxQueue = 2
    MaxDatagrams = 1
PROPERTY RestartsForSure
CHECK_DEADLOCK FALSE
