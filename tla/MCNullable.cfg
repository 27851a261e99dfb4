CONSTANTS
    MaxWrappers = 3

SPECIFICATION Spec

\* A value of a type with no wrapper has no null state to change.
CHECK_DEADLOCK FALSE

INVARIANTS
    TypeOK
    NullWalkCorrect
    GuardedUnwrapSafe
