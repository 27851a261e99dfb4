---------------------------- MODULE MCTransaction ----------------------------
(* Writes and bounds for checking transactions.                             *)
EXTENDS Transaction, TLC

CONSTANTS w1, w2, noWrite

MCWrites == {w1, w2}

\* The two writes are interchangeable.
Symmetry == Permutations(MCWrites)
=============================================================================
