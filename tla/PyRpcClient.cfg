CONSTANTS
    Tasks = {t1, t2}
    NoTask = NoTask
    MaxCalls = 2
    MaxConns = 2
    MaxCrashes = 1
SPECIFICATION Spec
SYMMETRY Symmetry
INVARIANTS
    TypeOK
    MisreadOnlyAfterSilentHandshake
    QuietUnlessSilent
    AtMostOnce
\* Every call has been made.
CHECK_DEADLOCK FALSE
