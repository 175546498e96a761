\* Two exporters of one session, a window of two batches: failing writes, timeouts, a restart.
SPECIFICATION FairSpec
CONSTANTS
    h1 = h1
    h2 = h2
    Exporters <- TwoExporters
    Sessions <- OneSession
    SessionOf <- SameSession
    Fingerprints <- AllFingerprints
    FingerprintOf <- TwoAlike
    Handlers <- TwoHandlers
    BatchSize = 2
    Window = 4
    MaxBatches = 2
    MaxFaults = 1
    MaxStops = 1
INVARIANTS
    TypeOK
    CountedAtMostOnce
    AnsweredAloneIsStored
    AnsweredIsCounted
PROPERTIES
    BatchesLeave
CHECK_DEADLOCK FALSE
