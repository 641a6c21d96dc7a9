SPECIFICATION Spec
CONSTANTS
    Clauses = {a, b}
    MaxClauses = 2
    MaxKeys = 3
    MaxOthers = 1
    MaxFails = 1
    MaxFlips = 1
INVARIANTS
    TypeOK
    DeletesTheSelected
    AddsOnce
PROPERTIES
    OwnChangesShown
    ShowsTableUnlessMissed
\* The user may freeze the interface and press no key any more.
CHECK_DEADLOCK FALSE
