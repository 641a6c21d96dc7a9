CONSTANTS
    Callers = {p1}
    NoCaller = NoCaller
    MaxCalls = 3
    MaxConns = 2
    MaxCrashes = 1
SPECIFICATION FairSpec
INVARIANT CapsOfConnection
PROPERTY EveryCallReturns
\* Every call has been made.
CHECK_DEADLOCK FALSE
