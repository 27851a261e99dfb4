\* Two transactions, one after the other, on one connection, with two
\* writes; the link may fail at any point.
CONSTANTS
    w1 = w1
    w2 = w2
    noWrite = noWrite
    Writes <- MCWrites
    NoWrite = noWrite
    MaxTx = 2
SPECIFICATION Spec
\* The client stops after its last transaction, or once the link is gone.
CHECK_DEADLOCK FALSE
SYMMETRY Symmetry
INVARIANTS
    TypeOK
    StatusFaithful
    CommitAtomic
