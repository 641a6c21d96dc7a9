SPECIFICATION Spec
CONSTANTS
    MaxKeys = 2
    MaxVer = 1
    MaxFails = 1
    MaxRestarts = 1
INVARIANTS
    TypeOK
    CommandsInOrder
    CpuMatchesStatus
    ModeFollowsEmulator
    CapsFollowEmulator
PROPERTIES
    QuitSendsNothing
    FrozenShowsNothingNew
