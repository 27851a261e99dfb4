CONSTANTS
    NoDeadline = NoDeadline
    QueryTimeouts <- MCQueryTimeouts
    CancelTimeouts <- MCCancelTimeouts
    Executors <- MCExecutors
    QueryAnswers <- MCQueryAnswers
    QueryCount = 2
    CancelAfter = 1
    MaxTime = 7
SPECIFICATION Spec
\* The clock stops at MaxTime: a statement without a deadline whose cancel
\* never reached the server still waits there.
CHECK_DEADLOCK FALSE
INVARIANTS
    CancelHitsTarget
