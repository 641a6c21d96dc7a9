CONSTANTS
    Tasks = {t1, t2}
    NoTask = NoTask
    MaxCalls = 3
    MaxConns = 2
    MaxCrashes = 1
SPECIFICATION Spec
INVARIANT ReplyAnswersRequest
\* Every call has been made.
CHECK_DEADLOCK FALSE
