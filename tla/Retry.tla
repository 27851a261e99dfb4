-------------------------------- MODULE Retry --------------------------------
(***************************************************************************)
(* One request run under the retry failover strategy (spec section 4.5)    *)
(* over the connection_info_sequence provider of                           *)
(* tests/integration/retry_integration.cpp.  The strategy itself           *)
(* (failover/retry.h) is not part of this repository: basic_try and        *)
(* get_next_try are taken from the spec and from the behaviour pinned by   *)
(* tests/failover/retry.cpp.                                               *)
(*                                                                         *)
(* A try asks the provider for a connection with its share of the time     *)
(* left, runs the request on it while its own deadline timer races the     *)
(* I/O, and hands the outcome to get_next_try, which either starts the     *)
(* next try (after the on_retry observer and the close) or completes the   *)
(* request through the user's handler.  Time is counted in ticks from the  *)
(* start of the request, whose deadline is Budget.                         *)
(***************************************************************************)
EXTENDS Naturals, Sequences, FiniteSets

CONSTANTS
    Budget,         \* the request's time constraint, in ticks from its start
    TriesOptions,   \* values of retry_options::tries to explore
    CondOptions,    \* values of retry_options::conditions to explore
    InfoOptions     \* conninfo lists handed to connection_info_sequence

Null == 0           \* the null connection (connection_type{})

\* Error conditions, by the class errc::match_code tells apart.
Errors == {"connection_error", "timeout", "database_readonly", "syntax_error"}
\* What a query on an established connection can fail with by itself.
QueryErrors == {"connection_error", "database_readonly", "syntax_error"}

VARIABLES
    conditions,       \* retry_options::conditions ({} matches any error)
    closeConnection,  \* retry_options::close_connection
    infos,            \* connection_info_sequence::base_
    cursor,           \* connection_info_sequence::i_, 1-based
    tries,            \* tries_remain() of the current try
    pc,               \* "start", "io", "decide" or "done"
    conn,             \* the current try's connection, Null or a try number
    err,              \* the current try's outcome
    now,              \* ticks since the request started
    tryDeadline,      \* the current try's own deadline
    shares,           \* the time constraint handed to each try, in order
    opened,           \* connections the provider has handed out
    closed,           \* connections close_connection has been applied to
    onRetry,          \* the on_retry calls: [err, conn, open]
    handled           \* how many times the user's handler was called

vars == <<conditions, closeConnection, infos, cursor, tries, pc, conn, err,
          now, tryDeadline, shares, opened, closed, onRetry, handled>>

attempts == Len(shares)

\* time_left(deadline, now): never negative.
TimeLeft(d, t) == IF d > t THEN d - t ELSE 0

\* errc::match_code(conditions, ec): an empty set matches any error.
Matches(e) == conditions = {} \/ e \in conditions

-----------------------------------------------------------------------------
(***************************************************************************)
(* Faulty variants, each a plausible slip in the strategy.                 *)
(***************************************************************************)

\* Retries while any try remains, counting the failed one.
CanRetryOffByOne(e) == tries > 0 /\ Matches(e)

\* Divides the whole budget, not the time left, among the tries left.
TryShareOfBudget(d, n, t) == IF n > 0 THEN d \div n ELSE 0

\* Closes the connection whether or not it is null.
AfterCloseUnguarded(c) == IF closeConnection THEN closed \cup {c} ELSE closed

(***************************************************************************)
(* The strategy's helpers; the faulty variants below use them.             *)
(***************************************************************************)

\* detail::get_try_time_constraint(deadline, n, now).
TryTimeConstraint(d, n, t) == IF n > 0 THEN TimeLeft(d, t) \div n ELSE 0

\* close_connection(conn) as the strategy applies it: a null connection is
\* skipped (the test mock throws on one).
AfterClose(c) == IF closeConnection /\ c # Null THEN closed \cup {c} ELSE closed

\* Closes the failed connection first, then shows it to the observer.
RetryClosingFirst ==
    /\ onRetry' = Append(onRetry, [err |-> err, conn |-> conn,
                                   open |-> conn \notin AfterClose(conn)])
    /\ closed' = AfterClose(conn)
    /\ tries' = tries - 1
    /\ pc' = "start"
    /\ UNCHANGED handled

\* Hands out the next conninfo without checking for the end of the list:
\* what it reads past the end is whatever the memory holds.
ConnectionInfoSequenceUnchecked ==
    /\ cursor' = cursor + 1
    /\ conn' = attempts + 1
    /\ opened' = opened \cup {attempts + 1}
    /\ \E info \in {"valid", "invalid"} :
         LET read == IF cursor <= Len(infos) THEN infos[cursor] ELSE info IN
         IF read = "invalid"
           THEN err' = "connection_error" /\ pc' = "decide"
           ELSE pc' = "io" /\ UNCHANGED err

\* Fires the try's timer only once its deadline has passed.
ExpireLate ==
    /\ pc = "io" /\ now > tryDeadline
    /\ err' = "timeout"
    /\ pc' = "decide"
    /\ UNCHANGED <<conditions, closeConnection, infos, cursor, tries, conn, now,
                   tryDeadline, shares, opened, closed, onRetry, handled>>

-----------------------------------------------------------------------------
\* basic_try::get_next_try's test: more than one try left, and a match.
CanRetry(e) == tries > 1 /\ Matches(e)

\* The time constraint of the try about to start (basic_try::get_context).
TryShare == TryTimeConstraint(Budget, tries, now)

(***************************************************************************)
(* A try starts: connection_info_sequence::operator() hands out the next   *)
(* conninfo's connection, or a null connection with                        *)
(* pq_connection_start_failed once the list is used up.  An invalid        *)
(* conninfo fails at once with a connection error.                         *)
(***************************************************************************)
ConnectionInfoSequence ==
    IF cursor > Len(infos)
      THEN /\ conn' = Null
           /\ err' = "connection_error"
           /\ pc' = "decide"
           /\ UNCHANGED <<cursor, opened>>
      ELSE /\ cursor' = cursor + 1
           /\ conn' = attempts + 1
           /\ opened' = opened \cup {attempts + 1}
           /\ IF infos[cursor] = "invalid"
                THEN err' = "connection_error" /\ pc' = "decide"
                ELSE pc' = "io" /\ UNCHANGED err

StartTry ==
    /\ pc = "start"
    /\ shares' = Append(shares, TryShare)
    /\ tryDeadline' = now + TryShare
    /\ ConnectionInfoSequence
    /\ UNCHANGED <<conditions, closeConnection, infos, tries, now, closed,
                   onRetry, handled>>

(***************************************************************************)
(* The request runs on the connection; time passes; the try's deadline     *)
(* timer races the I/O and whichever completes first wins.                 *)
(***************************************************************************)
Tick ==
    /\ pc = "io" /\ now < tryDeadline
    /\ now' = now + 1
    /\ UNCHANGED <<conditions, closeConnection, infos, cursor, tries, pc, conn,
                   err, tryDeadline, shares, opened, closed, onRetry, handled>>

Complete ==
    /\ pc = "io" /\ now < tryDeadline
    /\ err' \in {"ok"} \cup QueryErrors
    /\ pc' = "decide"
    /\ UNCHANGED <<conditions, closeConnection, infos, cursor, tries, conn, now,
                   tryDeadline, shares, opened, closed, onRetry, handled>>

Expire ==
    /\ pc = "io" /\ now >= tryDeadline
    /\ err' = "timeout"
    /\ pc' = "decide"
    /\ UNCHANGED <<conditions, closeConnection, infos, cursor, tries, conn, now,
                   tryDeadline, shares, opened, closed, onRetry, handled>>

(***************************************************************************)
(* The try's handler: success completes the request; a failure goes to     *)
(* get_next_try, which on a retry calls on_retry(ec, conn), closes the     *)
(* connection (unless close_connection = false) and starts the next try    *)
(* with one try less; otherwise it closes the connection likewise and the  *)
(* user's handler gets the error with that connection.                     *)
(***************************************************************************)
Retry ==
    /\ onRetry' = Append(onRetry, [err |-> err, conn |-> conn,
                                   open |-> conn \notin closed])
    /\ closed' = AfterClose(conn)
    /\ tries' = tries - 1
    /\ pc' = "start"
    /\ UNCHANGED handled

GiveUp ==
    /\ closed' = AfterClose(conn)
    /\ handled' = handled + 1
    /\ pc' = "done"
    /\ UNCHANGED <<tries, onRetry>>

Succeed ==
    /\ handled' = handled + 1
    /\ pc' = "done"
    /\ UNCHANGED <<tries, closed, onRetry>>

Decide ==
    /\ pc = "decide"
    /\ IF err = "ok" THEN Succeed
       ELSE IF CanRetry(err) THEN Retry
       ELSE GiveUp
    /\ UNCHANGED <<conditions, closeConnection, infos, cursor, conn, err, now,
                   tryDeadline, shares, opened>>

-----------------------------------------------------------------------------
Init ==
    /\ conditions \in CondOptions
    /\ closeConnection \in BOOLEAN
    /\ infos \in InfoOptions
    /\ tries \in TriesOptions
    /\ cursor = 1
    /\ pc = "start"
    /\ conn = Null
    /\ err = "ok"
    /\ now = 0
    /\ tryDeadline = 0
    /\ shares = <<>>
    /\ opened = {}
    /\ closed = {}
    /\ onRetry = <<>>
    /\ handled = 0

Next == StartTry \/ Tick \/ Complete \/ Expire \/ Decide

\* The request runs on an event loop that keeps running it: its I/O ends
\* and its timers fire.
Spec == Init /\ [][Next]_vars /\ WF_vars(Next)

-----------------------------------------------------------------------------
TypeOK ==
    /\ conditions \subseteq Errors /\ closeConnection \in BOOLEAN
    /\ infos \in Seq({"valid", "invalid"})
    /\ cursor \in 1..(Len(infos) + 1)
    /\ tries \in Nat
    /\ pc \in {"start", "io", "decide", "done"}
    /\ conn \in {Null} \cup opened
    /\ err \in {"ok"} \cup Errors
    /\ now \in 0..Budget /\ tryDeadline \in Nat
    /\ shares \in Seq(0..Budget)
    /\ opened \subseteq 1..attempts /\ closed \subseteq Nat
    /\ handled \in Nat

\* The tries_remain() the request started with: each retry takes one.
InitialTries == tries + Len(onRetry)

(* The attempt budget is kept exactly: a request never makes more tries    *)
(* than retry_options::tries allows (at least one), and it gives up on an  *)
(* error the conditions match only once that budget is spent.  An          *)
(* off-by-one in get_next_try's tries_remain() test breaks the first half, *)
(* a decrement on the wrong path the second.                               *)
RetryBudget ==
    LET budget == IF InitialTries > 1 THEN InitialTries ELSE 1 IN
    /\ attempts <= budget
    /\ (pc = "done" /\ err # "ok" /\ Matches(err)) => attempts = budget

(* Connections are disposed of as close_connection promises: a null       *)
(* connection (an exhausted provider) is never closed, with closing on no *)
(* earlier try's connection is left open once the next try has its own,   *)
(* and the connection a successful request hands back is not closed.      *)
Disposal ==
    /\ Null \notin closed
    /\ closeConnection => opened \ closed \subseteq {conn}
    /\ (pc = "done" /\ err = "ok") => conn \notin closed

(* The on_retry observer is called once per retry and only then, with an  *)
(* error the conditions match, and sees the failed connection before it   *)
(* is closed (the example's print_error reads its error message).         *)
ObserverFaithful ==
    /\ Len(onRetry) = IF pc = "start" THEN attempts ELSE attempts - 1
    /\ \A i \in DOMAIN onRetry :
         /\ onRetry[i].err # "ok" /\ Matches(onRetry[i].err)
         /\ onRetry[i].conn # Null => onRetry[i].open

(* The time left is shared fairly (examples/retry_request.cpp:42-46): no  *)
(* try is given less time than the first one was, and no try's deadline   *)
(* lies beyond the request's.                                             *)
FairShare ==
    /\ \A i \in DOMAIN shares : shares[i] >= shares[1]
    /\ tryDeadline <= Budget

(* The user's handler is eventually called, and exactly once: every try   *)
(* ends, by completing or at its own deadline.                            *)
Completes == <>[](handled = 1)

=============================================================================
