SPECIFICATION Spec
CONSTANTS
    Start = 65533
    Stop = 65535
    Values = {0, 1}
    MaxChunk = 2
    Texts <- MCTexts
    Indices = {0, 1, 2, 65537}
    MaxCommands = 3
    MaxChanges = 3
    MaxFails = 1
INVARIANTS
    KeepsMatches
    ShellTellsTheTruth
    ReportsTheTable
\* A session ends.
CHECK_DEADLOCK FALSE
