CONSTANTS
    Clauses = {a}
    MaxClauses = 2
    MaxKeys = 0
    MaxOthers = 1
    MaxFails = 1
    MaxFlips = 0
SPECIFICATION Spec
PROPERTY ShowsTable
\* The user may freeze the interface and press no key any more.
CHECK_DEADLOCK FALSE
