\* A transcript that is written, archived, taken back and deleted while it is scanned.
SPECIFICATION FairSpec
CONSTANTS
    Sessions = {s1}
    MaxWrites = 3
    MaxMoves = 3
    MaxFaults = 1
    MaxStops = 1
INVARIANTS
    TypeOK
    NothingIsCountedTwice
PROPERTIES
    CountNeverDecreases
    TranscriptsAreCounted
