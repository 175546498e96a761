\* A hooked session that is pruned and announced again, whose id begins the id
\* that telemetry gives a discovered one; processes that ignore SIGTERM or are
\* another user's, pids that are reused, commands that give up.
SPECIFICATION StopFairSpec
CONSTANTS
    Pids = {1, 2}
    Agents = {1, 2}
    Sessions <- ThreeSessions
    Hooked <- OneHooked
    AutoSessions <- OneAuto
    AgentIds <- OneReported
    RootOf <- AutoRoot
    Args <- ThreeArgs
    Matches <- ArgMatches
    Users = {u1}
    MaxBorn = 3
    MaxHooks = 2
    MaxCommands = 1
INVARIANTS
    OnlyOneSessionIsHit
PROPERTIES
    PlannedProcessesDie
CHECK_DEADLOCK FALSE
