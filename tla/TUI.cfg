\* Two rows, two keys and two signals, with refreshes at any time.
SPECIFICATION TUISpec
CONSTANTS
    Sessions = {s1, s2}
    NoKey = NoKey
    SigQueue = 1
    MaxPresses = 2
    MaxChanges = 1
    MaxSignals = 2
INVARIANTS
    ArrowsDoNotQuit
PROPERTIES
    SelectionFollowsItsSession
    AskedToEndEnds
CHECK_DEADLOCK FALSE
