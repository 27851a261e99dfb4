CONSTANTS
    MaxWrappers = 2

SPECIFICATION Spec

INVARIANT
    CodeMatchesDocumentedLoop

\* A value of a type with no wrapper has no null state to change.
CHECK_DEADLOCK FALSE
