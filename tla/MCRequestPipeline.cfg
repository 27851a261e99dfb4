CONSTANTS
    Requests = 2
    MaxTime = 4
    NoDeadline = NoDeadline
    Timeouts <- MCTimeouts

SPECIFICATION Spec

\* Once every request has been handled the program has nothing left to do.
CHECK_DEADLOCK FALSE

INVARIANTS
    TypeOK
    HandlerOnce
    HandedBack
    DeadlineRespected

PROPERTIES
    Completes
