\* Installs and uninstalls, cut or not, between edits by the user and Claude Code.
SPECIFICATION Spec
CONSTANTS
    Keys = {k1, k2}
    MaxCommands = 3
    MaxEdits = 2
    MaxInterrupts = 1
INVARIANTS
    TypeOK
    UserSettingsSurvive
    ProfileStaysWhole
    SetupIsIdempotent
CHECK_DEADLOCK FALSE
