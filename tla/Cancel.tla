-------------------------------- MODULE Cancel --------------------------------
(***************************************************************************)
(* Out-of-band cancellation of a running query (spec section 4.3,          *)
(* tests/integration/cancel_integration.cpp).                              *)
(*                                                                         *)
(* One coroutine runs execute(conn, "SELECT pg_sleep(...)", [t]) on the    *)
(* io_context; the server never answers it by itself.  A second coroutine  *)
(* waits on a timer, then calls cancel(handle, io, t): the cancel handle   *)
(* sends a cancel request to the backend over a separate short-lived       *)
(* connection, served by the handle's executor (the system executor, or an *)
(* io_context nobody runs), while a deadline timer on io bounds it; a zero *)
(* time constraint fails at once with timed_out without any network        *)
(* operation.  cancel.h is not part of this repository: the operation is   *)
(* taken from the spec and from what the two integration tests pin.        *)
(***************************************************************************)
EXTENDS Naturals

CONSTANTS
    NoDeadline,       \* the time constraint of an execute without one
    QueryTimeouts,    \* execute's time constraints to explore
    CancelTimeouts,   \* cancel's time constraints to explore
    Executors,        \* the executors a cancel handle may be bound to
    QueryAnswers,     \* whether the server answers a statement by itself:
                      \* FALSE for pg_sleep, TRUE for a short statement
    QueryCount,       \* statements the query coroutine runs in turn
    CancelAfter,      \* when the canceller's timer expires
    MaxTime           \* the last tick explored

VARIABLES
    now,          \* the clock
    qTimeout,     \* execute's time constraint
    cTimeout,     \* cancel's time constraint
    executor,     \* the cancel handle's executor: "system" or "idle" (an io nobody runs)
    answers,      \* the server answers the statement by itself
    qn,           \* the number of the current statement
    qDeadline,    \* its deadline
    query,        \* "running", "ok" or the error execute ended with
    backend,      \* the backend: "running" a statement, "idle" between
                  \* statements, or "canceled" (it took a cancel request
                  \* while running and failed the statement)
    canceledQ,    \* the statements that ended with query_canceled
    target,       \* the statement in flight when cancel was called
    cpc,          \* the canceller: "timer", "cancel" or "done"
    cec,          \* the error the canceller's yield[ec] got, "none" before
    cancelOp,     \* the cancel connection: "none", "connecting", "sent"
                  \* (the request is in flight to the backend) or "closed"
    cDeadline,    \* the cancel's deadline
    cTimer,       \* the cancel's deadline timer on io: "armed" or "off"
    cres,         \* the cancel's outcome once decided: "none", "ok", "timed_out"
    posted,       \* the cancel's completion handler is queued on io
    aborted,      \* the aborted deadline timer's handler is queued on io
    guard,        \* the canceller holds a work guard on io
    io            \* io.run(): "running" or "stopped" (returned)

fixed == <<qTimeout, cTimeout, executor>>
queryVars == <<answers, qn, qDeadline, query, backend, canceledQ>>
cancelVars == <<cpc, cec, cancelOp, cDeadline, cTimer, cres, posted, aborted,
                guard, target>>
vars == <<now, io, fixed, queryVars, cancelVars>>

\* A statement's deadline, from the time it starts.
QueryDeadline(t) == IF qTimeout = NoDeadline THEN NoDeadline ELSE t + qTimeout
Expired(d) == d # NoDeadline /\ now >= d

-----------------------------------------------------------------------------
(***************************************************************************)
(* io's outstanding work: io.run() returns once there is none.  The query  *)
(* coroutine's socket operation or its next statement, the timers armed on *)
(* io, queued handlers and a work guard count; an operation running on     *)
(* another executor does not.                                              *)
(***************************************************************************)
QueryPending == query = "running" \/ (query = "ok" /\ qn < QueryCount)

IoWork ==
    \/ QueryPending \/ cpc = "timer" \/ cTimer = "armed"
    \/ posted \/ aborted \/ guard

IoStops ==
    /\ io = "running" /\ ~IoWork
    /\ io' = "stopped"
    /\ UNCHANGED <<now, fixed, queryVars, cancelVars>>

-----------------------------------------------------------------------------
(***************************************************************************)
(* The query coroutine, on io.  The server answers a short statement; its  *)
(* deadline timer runs cancel_io, so execute ends with timed_out while the *)
(* backend runs on; a canceled backend answers with query_canceled.  On an *)
(* answer the connection comes back idle and the coroutine runs its next   *)
(* statement on it.                                                        *)
(***************************************************************************)
QueryAnswered ==
    /\ io = "running" /\ answers
    /\ query = "running" /\ backend = "running"
    /\ query' = "ok" /\ backend' = "idle"
    /\ UNCHANGED <<now, io, fixed, answers, qn, qDeadline, canceledQ, cancelVars>>

QueryTimesOut ==
    /\ io = "running" /\ query = "running" /\ Expired(qDeadline)
    /\ query' = "timed_out"
    /\ UNCHANGED <<now, io, fixed, answers, qn, qDeadline, backend, canceledQ,
                   cancelVars>>

QueryCanceled ==
    /\ io = "running" /\ query = "running" /\ backend = "canceled"
    /\ query' = "query_canceled" /\ canceledQ' = canceledQ \cup {qn}
    /\ UNCHANGED <<now, io, fixed, answers, qn, qDeadline, backend, cancelVars>>

\* Runs one statement more than the coroutine has.
NextQueryPastLast ==
    /\ io = "running" /\ query = "ok" /\ qn <= QueryCount
    /\ qn' = qn + 1 /\ query' = "running" /\ backend' = "running"
    /\ qDeadline' = QueryDeadline(now)
    /\ UNCHANGED <<now, io, fixed, answers, canceledQ, cancelVars>>

NextQuery ==
    /\ io = "running" /\ query = "ok" /\ qn < QueryCount
    /\ qn' = qn + 1 /\ query' = "running" /\ backend' = "running"
    /\ qDeadline' = QueryDeadline(now)
    /\ UNCHANGED <<now, io, fixed, answers, canceledQ, cancelVars>>

-----------------------------------------------------------------------------
(***************************************************************************)
(* The canceller.  Its timer expires on io; it takes a work guard on io    *)
(* and calls cancel: a zero time constraint completes at once with         *)
(* timed_out; otherwise the cancel connection is started on the handle's   *)
(* executor and the cancel's deadline timer is armed on io.                *)
(***************************************************************************)
\* Starts the cancel connection whatever the time constraint.
StartCancelUnchecked ==
    /\ cancelOp' = "connecting" /\ cTimer' = "armed"
    /\ cDeadline' = now + cTimeout
    /\ UNCHANGED <<cres, posted>>

StartCancel ==
    IF cTimeout = 0
      THEN /\ cres' = "timed_out" /\ posted' = TRUE
           /\ UNCHANGED <<cancelOp, cDeadline, cTimer>>
      ELSE /\ cancelOp' = "connecting" /\ cTimer' = "armed"
           /\ cDeadline' = now + cTimeout
           /\ UNCHANGED <<cres, posted>>

\* Calls cancel without holding a work guard on io.
CancelTimerFiresUnguarded ==
    /\ io = "running" /\ cpc = "timer" /\ now >= CancelAfter
    /\ cpc' = "cancel" /\ guard' = FALSE /\ target' = qn
    /\ StartCancel
    /\ UNCHANGED <<now, io, fixed, queryVars, cec, aborted>>

CancelTimerFires ==
    /\ io = "running" /\ cpc = "timer" /\ now >= CancelAfter
    /\ cpc' = "cancel" /\ guard' = TRUE /\ target' = qn
    /\ StartCancel
    /\ UNCHANGED <<now, io, fixed, queryVars, cec, aborted>>

\* The handle's executor connects to the server and writes the cancel
\* request; an executor nobody runs never does.
CancelSend ==
    /\ cancelOp = "connecting" /\ executor = "system"
    /\ cancelOp' = "sent"
    /\ UNCHANGED <<now, io, fixed, queryVars, cpc, cec, cDeadline, cTimer, cres,
                   posted, aborted, guard, target>>

\* The server takes the request: the request names the backend, which
\* cancels whatever statement it is running.  It closes the connection;
\* on the handle's executor the operation, unless its deadline already
\* decided it, succeeds and cancels its deadline timer, whose aborted
\* handler is queued on io.
CancelDelivered ==
    /\ cancelOp = "sent"
    /\ backend' = IF backend = "running" THEN "canceled" ELSE backend
    /\ cancelOp' = "closed"
    /\ IF cres = "none"
         THEN /\ cres' = "ok" /\ cTimer' = "off" /\ aborted' = TRUE
         ELSE UNCHANGED <<cres, cTimer, aborted>>
    /\ UNCHANGED <<now, io, fixed, answers, qn, qDeadline, query, canceledQ,
                   cpc, cec, cDeadline, posted, guard, target>>

\* The handle's executor then posts the cancel's completion to io.
PostCompletion ==
    /\ cres = "ok" /\ cpc = "cancel" /\ ~posted
    /\ posted' = TRUE
    /\ UNCHANGED <<now, io, fixed, queryVars, cpc, cec, cancelOp, cDeadline,
                   cTimer, cres, aborted, guard, target>>

\* Arms the cancel's deadline timer on the handle's executor.
CancelDeadlineOnHandle ==
    /\ executor = "system"
    /\ io = "running" /\ cTimer = "armed" /\ now >= cDeadline /\ cres = "none"
    /\ cres' = "timed_out" /\ cTimer' = "off" /\ posted' = TRUE
    /\ UNCHANGED <<now, io, fixed, queryVars, cpc, cec, cancelOp, cDeadline,
                   aborted, guard, target>>

\* The cancel's deadline timer on io decides the cancel as timed_out; a
\* request already written may still reach the server.
CancelDeadline ==
    /\ io = "running" /\ cTimer = "armed" /\ now >= cDeadline /\ cres = "none"
    /\ cres' = "timed_out" /\ cTimer' = "off" /\ posted' = TRUE
    /\ UNCHANGED <<now, io, fixed, queryVars, cpc, cec, cancelOp, cDeadline,
                   aborted, guard, target>>

\* io runs the aborted timer's handler, which does nothing.
RunAborted ==
    /\ io = "running" /\ aborted
    /\ aborted' = FALSE
    /\ UNCHANGED <<now, io, fixed, queryVars, cpc, cec, cancelOp, cDeadline,
                   cTimer, cres, posted, guard, target>>

\* io resumes the canceller with the outcome; leaving the scope releases
\* the guard.
RunCancelHandler ==
    /\ io = "running" /\ posted /\ cpc = "cancel"
    /\ cpc' = "done" /\ cec' = cres /\ posted' = FALSE /\ guard' = FALSE
    /\ UNCHANGED <<now, io, fixed, queryVars, cancelOp, cDeadline, cTimer, cres,
                   aborted, target>>

\* Time passes once nothing is due.
Tick ==
    /\ now < MaxTime
    /\ ~(query = "running" /\ Expired(qDeadline))
    /\ ~(cpc = "timer" /\ now >= CancelAfter)
    /\ ~(cTimer = "armed" /\ now >= cDeadline)
    /\ now' = now + 1
    /\ UNCHANGED <<io, fixed, queryVars, cancelVars>>

-----------------------------------------------------------------------------
Init ==
    /\ now = 0 /\ io = "running"
    /\ qTimeout \in QueryTimeouts
    /\ cTimeout \in CancelTimeouts
    /\ executor \in Executors
    /\ answers \in QueryAnswers
    /\ qn = 1 /\ qDeadline = QueryDeadline(0)
    /\ query = "running" /\ backend = "running" /\ canceledQ = {}
    /\ cpc = "timer" /\ cec = "none" /\ target = 0
    /\ cancelOp = "none" /\ cDeadline = 0 /\ cTimer = "off"
    /\ cres = "none" /\ posted = FALSE /\ aborted = FALSE /\ guard = FALSE

Next ==
    \/ QueryAnswered \/ QueryTimesOut \/ QueryCanceled \/ NextQuery
    \/ CancelTimerFires \/ CancelSend \/ CancelDelivered \/ PostCompletion
    \/ CancelDeadline \/ RunAborted \/ RunCancelHandler
    \/ IoStops \/ Tick

\* io runs its handlers and timers and returns once out of work, time
\* passes, the system executor runs the cancel connection and the server
\* answers statements and cancel requests.
Fairness ==
    /\ WF_vars(QueryAnswered) /\ WF_vars(QueryTimesOut)
    /\ WF_vars(QueryCanceled) /\ WF_vars(NextQuery)
    /\ WF_vars(CancelTimerFires) /\ WF_vars(CancelSend)
    /\ WF_vars(CancelDelivered) /\ WF_vars(PostCompletion)
    /\ WF_vars(CancelDeadline) /\ WF_vars(RunAborted)
    /\ WF_vars(RunCancelHandler) /\ WF_vars(IoStops) /\ WF_vars(Tick)

Spec == Init /\ [][Next]_vars /\ Fairness

-----------------------------------------------------------------------------
TypeOK ==
    /\ now \in 0..MaxTime /\ io \in {"running", "stopped"}
    /\ qTimeout \in QueryTimeouts /\ cTimeout \in CancelTimeouts
    /\ executor \in Executors /\ answers \in QueryAnswers
    /\ qn \in 1..QueryCount /\ qDeadline \in Nat \cup {NoDeadline}
    /\ query \in {"running", "ok", "timed_out", "query_canceled"}
    /\ backend \in {"running", "idle", "canceled"}
    /\ canceledQ \subseteq 1..QueryCount /\ target \in 0..QueryCount
    /\ cpc \in {"timer", "cancel", "done"}
    /\ cec \in {"none", "ok", "timed_out"} /\ cres \in {"none", "ok", "timed_out"}
    /\ cancelOp \in {"none", "connecting", "sent", "closed"}
    /\ cDeadline \in Nat /\ cTimer \in {"armed", "off"}
    /\ posted \in BOOLEAN /\ aborted \in BOOLEAN /\ guard \in BOOLEAN

(* A statement is canceled only by a cancel request that reached its      *)
(* backend through the handle's executor; a zero time constraint never    *)
(* touches the network and always fails with timed_out (spec section 4.3, *)
(* cancel_integration.cpp:54-86); a cancel reported successful has        *)
(* reached the backend.                                                   *)
CancelFaithful ==
    /\ canceledQ # {} => cTimeout > 0 /\ executor = "system" /\ cancelOp = "closed"
    /\ cTimeout = 0 => cancelOp = "none" /\ (cpc = "done" => cec = "timed_out")
    /\ cec = "ok" => cancelOp = "closed"

(* io.run() returns only once both coroutines have ended: the work guard  *)
(* the canceller holds across cancel (cancel_integration.cpp:40-44) keeps *)
(* io running while the cancel's completion is still on the handle's      *)
(* executor, after the query and the cancel's timer are gone.             *)
IoStopsOnlyWhenDone ==
    io = "stopped" => ~QueryPending /\ cpc = "done"

(* A cancel handle is obtained for an in-flight query (spec section 4.3): *)
(* only the statement in flight when cancel was called ends with          *)
(* query_canceled.                                                        *)
CancelHitsTarget ==
    \A q \in canceledQ : q = target

(* Both coroutines end and io.run() returns (cancel_integration.cpp:      *)
(* 22-86): the canceller within its own time constraint even on an       *)
(* executor nobody runs; a statement with a deadline, or whose backend   *)
(* took a cancel, ends; and io returns once nothing is left to run.      *)
Completes ==
    /\ <>(cpc = "done")
    /\ (query = "running" /\ (qTimeout # NoDeadline \/ backend = "canceled"))
         ~> (query # "running")
    /\ (cpc = "done" /\ ~QueryPending) ~> (io = "stopped")

=============================================================================
