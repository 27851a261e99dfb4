CONSTANTS
    Budget = 6
    TriesOptions = {0, 1, 2, 3}
    CondOptions <- MCCondOptions
    InfoOptions <- MCInfoOptions

SPECIFICATION Spec

\* A request ends once its handler has run.
CHECK_DEADLOCK FALSE

INVARIANTS
    TypeOK
    RetryBudget
    Disposal
    ObserverFaithful
    FairShare

PROPERTIES
    Completes
