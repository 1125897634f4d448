SPECIFICATION FairSpec
CONSTANTS
    PThreads = {p1}
    GThreads = {g1}
    Starter = starter
    Configs <- GamespyOnly
    GamespyRetries = 1
    LaunchMayFail = FALSE
    LaunchWithin10s = TRUE
    PromptReplies = TRUE
    MaxLaunch = 4
    MaxFailures = 2
    MaxEdits = 0
    MaxQueue = 2
    MaxDatagrams = 1
PROPERTY RebootsUnresponsive
CHECK_DEADLOCK FALSE
