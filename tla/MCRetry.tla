------------------------------- MODULE MCRetry -------------------------------
(* The retry strategy with every option the tests use: tries 0 to 3, any  *)
(* error or connection errors only or a non-matching condition, closing   *)
(* on or off, and conninfo lists of up to three entries, valid or not,    *)
(* under a deadline of 6 ticks.                                           *)
EXTENDS Retry

MCInfoOptions == UNION {[1..n -> {"valid", "invalid"}] : n \in 0..3}

MCCondOptions == {{}, {"connection_error"}, {"database_readonly"}}
=============================================================================
