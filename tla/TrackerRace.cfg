\* One session whose events overlap on two handlers and with Tick, one stop.
SPECIFICATION Spec
CONSTANTS
    s1 = s1
    s2 = s2
    h1 = h1
    h2 = h2
    Sessions <- OneSession
    Pids <- OnePid
    Handlers <- TwoHandlers
    Grace = 1
    RehydrateLimit = 2
    MaxRss = 1
    MaxTime = 3
    Horizon = 1
    MaxPosts = 3
    MaxStops = 1
    DiskMayFail = FALSE
SYMMETRY HandlerSymmetry
INVARIANTS
    TypeOK
    PeakOnItsWayToDisk
    AnsweredEventsAreRecorded
    TrackedSessionsAreRecorded
PROPERTIES
    KeepsTheBook
