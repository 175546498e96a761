\* Two terminals: commands one after the other, at the same time, interrupted;
\* daemons that start slowly, fail, drain or crash, and a reused pid.
SPECIFICATION FairSpec
CONSTANTS
    Pids = {1, 2, 3}
    Shells = {t1, t2}
    MaxCommands = 3
    MaxMishaps = 2
INVARIANTS
    TypeOK
    OneDaemon
    ServingDaemonIsReachable
PROPERTIES
    SignalledDaemonsExit
    CommandsReturn
CHECK_DEADLOCK FALSE
