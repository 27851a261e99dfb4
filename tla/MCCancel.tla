------------------------------- MODULE MCCancel -------------------------------
(* The two scenarios of cancel_integration.cpp together: the canceller's  *)
(* timer at 1s, execute without a deadline or with 2s, cancel with 0s, 1s *)
(* or 5s, on the system executor or on an io_context nobody runs.  Beside *)
(* the tests' pg_sleep, a short statement the server answers, after which *)
(* the coroutine runs a second one on the same connection.                *)
EXTENDS Cancel

MCQueryTimeouts == {NoDeadline, 2}
MCCancelTimeouts == {0, 1, 5}
MCExecutors == {"system", "idle"}
MCQueryAnswers == {FALSE, TRUE}
=============================================================================
