\* Two sessions, up to two process rows, three events; all orders of the maps.
SPECIFICATION Spec
CONSTANTS
    k1 = k1
    k2 = k2
    l1 = l1
    Pids <- TwoPids
    Agents <- TwoAgents
    Keys = {k1, k2}
    AgentOf <- OneAgent
    NoAgent = NoAgent
    Launches = {l1}
    NoLaunch = NoLaunch
    NoRow = NoRow
    Rank <- RankOfIds
    Near = 1
    Window = 0
    Limit = 1
    Dirs = {1}
    Processes <- PidOneTwice
    ProcessRows <- SmallProcessRows
    MaxTime = 3
    MaxTicks = 1
    MaxReports = 2
    MaxWrites = 1
INVARIANTS
    NoSessionListedTwice
    UncontestedSessionsAreShown
    ProbableRowsAreUnique
CHECK_DEADLOCK FALSE
