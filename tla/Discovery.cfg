\* Three pids, three processes, one session of hooks; scans of tables that change.
SPECIFICATION Spec
CONSTANTS
    Pids = {p1, p2, p3}
    Agents = {"codex", "codex-desktop"}
    Sessions = {s1}
    Tool = "tool"
    MaxBorn = 3
    MaxHooks = 2
SYMMETRY PidSymmetry
INVARIANTS
    AutoTreesAreDisjoint
    EveryAgentIsShown
    OverlapsStartAboveTheHook
PROPERTIES
    OldDatesEndWithTheirTick
CHECK_DEADLOCK FALSE
