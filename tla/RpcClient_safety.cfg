CONSTANTS
    Callers = {p1, p2}
    NoCaller = NoCaller
    MaxCalls = 3
    MaxConns = 2
    MaxCrashes = 1
SPECIFICATION Spec
SYMMETRY Symmetry
INVARIANTS
    TypeOK
    RepliesInFrame
    QuietBetweenCalls
    OneOutstanding
    ErrorMatchesConnection
PROPERTY ImplementsService
\* Every call has been made.
CHECK_DEADLOCK FALSE
