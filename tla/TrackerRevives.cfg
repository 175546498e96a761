\* Two handlers write the events of one session in the order the disk lock falls.
SPECIFICATION Spec
CONSTANTS
    s1 = s1
    s2 = s2
    h1 = h1
    h2 = h2
    Sessions <- OneSession
    Pids <- OnePid
    Handlers <- TwoHandlers
    Grace = 1
    RehydrateLimit = 2
    MaxRss = 0
    MaxTime = 2
    Horizon = 2
    MaxPosts = 2
    MaxStops = 1
    DiskMayFail = FALSE
PROPERTIES
    RestartRevivesNothing
