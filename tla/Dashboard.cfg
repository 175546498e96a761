\* Tick, refreshUsage and two OTLP requests at a time; a failing write, a restart.
SPECIFICATION FairSpec
CONSTANTS
    Requests = {r1, r2}
    MaxChanges = 1
    MaxBatches = 2
    MaxFaults = 1
    MaxStops = 1
INVARIANTS
    TypeOK
PROPERTIES
    NoPartGoesBack
    ClientsCatchUp
