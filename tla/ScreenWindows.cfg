SPECIFICATION Spec
CONSTANTS
    Lists <- MCLists
    MaxRead = 12
    MaxFrames = 2
    MaxFails = 1
INVARIANTS
    LinesReassembled
    FetchesWhatIsShown
    SegmentsAreTheScreen
    StaleOnlyInside
\* A command ends.
CHECK_DEADLOCK FALSE
