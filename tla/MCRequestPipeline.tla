-------------------------- MODULE MCRequestPipeline --------------------------
(***************************************************************************)
(* Two requests on one connection, a clock of four ticks.  The time        *)
(* constraints are those the tests use: none, negative, zero, a finite     *)
(* one, and duration::max().                                               *)
(***************************************************************************)
EXTENDS RequestPipeline

MCTimeouts == {NoDeadline, -1, 0, 2, MaxTime}
=============================================================================
