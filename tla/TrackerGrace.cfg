\* One session on one handler: ticks, grace period, failing writes, a restart; fairness.
SPECIFICATION FairSpec
CONSTANTS
    s1 = s1
    s2 = s2
    h1 = h1
    h2 = h2
    Sessions <- OneSession
    Pids <- OnePid
    Handlers <- OneHandler
    Grace = 1
    RehydrateLimit = 2
    MaxRss = 0
    MaxTime = 4
    Horizon = 2
    MaxPosts = 2
    MaxStops = 1
    DiskMayFail = TRUE
PROPERTIES
    VisibleUntilGraceIsOver
    EndedSessionsLeave
