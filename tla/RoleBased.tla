------------------------------ MODULE RoleBased ------------------------------
(***************************************************************************)
(* One request under the role-based failover strategy (spec section 4.5):  *)
(* roles are tried in order, each on its own connection provider, with a   *)
(* share of the time left; a connectivity-class failure falls back to the  *)
(* next role after the on_fallback observer has seen it, any other outcome *)
(* goes to the user's handler.  failover/role_based.h is not part of this  *)
(* repository: the strategy is taken from the spec, from                   *)
(* tests/integration/role_based_integration.cpp and from                   *)
(* examples/role_based_request.cpp.  Time is counted in ticks from the     *)
(* start of the request, whose deadline is Budget.                         *)
(***************************************************************************)
EXTENDS Naturals, Sequences

CONSTANTS
    Roles,          \* the roles in the order role_based(...) lists them
    Budget,         \* the request's time constraint, in ticks
    InfoOptions     \* per role, whether its conninfo is "valid" or "invalid"

\* What a query on an established connection can end with.
QueryOutcomes == {"ok", "connection_error", "database_readonly", "syntax_error"}
Errors == {"connection_error", "timeout", "database_readonly", "syntax_error"}

\* The failures that switch roles: the connectivity class (a failed or
\* timed-out connection) and a write refused by a read-only server.
FallbackErrors == {"connection_error", "timeout", "database_readonly"}

VARIABLES
    infos,        \* infos[i]: the conninfo of role i
    idx,          \* the role being tried, 1-based
    pc,           \* "start", "io", "decide" or "done"
    conn,         \* the current try's connection (the role's index)
    err,          \* the current try's outcome
    now,          \* ticks since the request started
    tryDeadline,  \* the current try's deadline
    shares,       \* the time constraint handed to each try, in order
    fallbacks,    \* the on_fallback calls: [err, conn, next]
    handler       \* the user handler's calls: [err, conn]

vars == <<infos, idx, pc, conn, err, now, tryDeadline, shares, fallbacks, handler>>

TimeLeft(d, t) == IF d > t THEN d - t ELSE 0

-----------------------------------------------------------------------------
(***************************************************************************)
(* Faulty variants, each a plausible slip in the strategy.                 *)
(***************************************************************************)

\* Falls back on any error.
CanFallbackAny(e) == idx < Len(Roles)

\* Starts a try without taking the role's connection: the handler or the
\* observer is shown the previous one.
StartTryKeepingConnection ==
    /\ pc = "start"
    /\ idx <= Len(Roles)
    /\ shares' = Append(shares, TimeLeft(Budget, now) \div (Len(Roles) - idx + 1))
    /\ tryDeadline' = now + TimeLeft(Budget, now) \div (Len(Roles) - idx + 1)
    /\ IF infos[idx] = "invalid"
         THEN err' = "connection_error" /\ pc' = "decide"
         ELSE pc' = "io" /\ UNCHANGED err
    /\ UNCHANGED <<infos, idx, conn, now, fallbacks, handler>>

\* Fires the try's timer only once its deadline has passed.
ExpireLate ==
    /\ pc = "io" /\ now > tryDeadline
    /\ err' = "timeout"
    /\ pc' = "decide"
    /\ UNCHANGED <<infos, idx, conn, now, tryDeadline, shares, fallbacks, handler>>

\* Shares the time left among all roles, not the roles left.
TryShareAmongAll == TimeLeft(Budget, now) \div Len(Roles)

\* Tells the observer about the final failure too.
GiveUpNotifying ==
    /\ fallbacks' = Append(fallbacks, [err |-> err, conn |-> conn, next |-> Roles[idx]])
    /\ handler' = Append(handler, [err |-> err, conn |-> conn])
    /\ pc' = "done"
    /\ UNCHANGED idx

-----------------------------------------------------------------------------
\* A failure that falls back, while a role is left to fall back to.
CanFallback(e) == e \in FallbackErrors /\ idx < Len(Roles)

\* The time constraint of the try about to start: the time left, shared
\* among the roles left (get_try_time_constraint).
TryShare == TimeLeft(Budget, now) \div (Len(Roles) - idx + 1)

(***************************************************************************)
(* A try starts: the role's provider is asked for a connection; an invalid *)
(* conninfo fails at once with a connection error and a bad connection.    *)
(***************************************************************************)
StartTry ==
    /\ pc = "start"
    /\ idx <= Len(Roles)
    /\ shares' = Append(shares, TryShare)
    /\ tryDeadline' = now + TryShare
    /\ conn' = idx
    /\ IF infos[idx] = "invalid"
         THEN err' = "connection_error" /\ pc' = "decide"
         ELSE pc' = "io" /\ UNCHANGED err
    /\ UNCHANGED <<infos, idx, now, fallbacks, handler>>

\* The request runs; its I/O completes or time passes, while the try's
\* own deadline timer races it.
Tick ==
    /\ pc = "io" /\ now < tryDeadline
    /\ now' = now + 1
    /\ UNCHANGED <<infos, idx, pc, conn, err, tryDeadline, shares, fallbacks, handler>>

Complete ==
    /\ pc = "io" /\ now < tryDeadline
    /\ err' \in QueryOutcomes
    /\ pc' = "decide"
    /\ UNCHANGED <<infos, idx, conn, now, tryDeadline, shares, fallbacks, handler>>

Expire ==
    /\ pc = "io" /\ now >= tryDeadline
    /\ err' = "timeout"
    /\ pc' = "decide"
    /\ UNCHANGED <<infos, idx, conn, now, tryDeadline, shares, fallbacks, handler>>

(***************************************************************************)
(* The try's continuation: a fallback calls on_fallback(ec, conn, next     *)
(* role) and starts the next role's try; any other outcome, or a failure   *)
(* of the last role, calls the user's handler with the try's connection.   *)
(***************************************************************************)
Fallback ==
    /\ fallbacks' = Append(fallbacks, [err |-> err, conn |-> conn, next |-> Roles[idx + 1]])
    /\ idx' = idx + 1
    /\ pc' = "start"
    /\ UNCHANGED handler

GiveUp ==
    /\ handler' = Append(handler, [err |-> err, conn |-> conn])
    /\ pc' = "done"
    /\ UNCHANGED <<idx, fallbacks>>

Decide ==
    /\ pc = "decide"
    /\ IF err # "ok" /\ CanFallback(err) THEN Fallback ELSE GiveUp
    /\ UNCHANGED <<infos, conn, err, now, tryDeadline, shares>>

-----------------------------------------------------------------------------
Init ==
    /\ infos \in InfoOptions
    /\ idx = 1
    /\ pc = "start"
    /\ conn = 0
    /\ err = "ok"
    /\ now = 0
    /\ tryDeadline = 0
    /\ shares = <<>>
    /\ fallbacks = <<>>
    /\ handler = <<>>

Next == StartTry \/ Tick \/ Complete \/ Expire \/ Decide

\* The event loop keeps running the request: its I/O ends or its timer
\* fires, and each continuation runs.
Spec == Init /\ [][Next]_vars /\ WF_vars(Next)

-----------------------------------------------------------------------------
TypeOK ==
    /\ infos \in [1..Len(Roles) -> {"valid", "invalid"}]
    /\ idx \in 1..Len(Roles)
    /\ pc \in {"start", "io", "decide", "done"}
    /\ conn \in 0..Len(Roles) /\ err \in {"ok"} \cup Errors
    /\ now \in 0..Budget /\ tryDeadline \in 0..Budget
    /\ shares \in Seq(0..Budget)
    /\ fallbacks \in Seq([err : Errors, conn : 1..Len(Roles), next : {Roles[i] : i \in DOMAIN Roles}])
    /\ handler \in Seq([err : {"ok"} \cup Errors, conn : 1..Len(Roles)])

(* Roles are switched only as the strategy promises (spec section 4.5,    *)
(* role_based_integration.cpp:57-75): every fallback follows a            *)
(* connectivity-class failure of the role just tried and goes to the next *)
(* role in order; a request fails for good only on an error that does not *)
(* fall back (a syntax error surfaces directly) or when the last role has *)
(* failed.                                                                *)
RoleOrder ==
    /\ \A i \in DOMAIN fallbacks :
         /\ fallbacks[i].err \in FallbackErrors
         /\ fallbacks[i].next = Roles[i + 1]
    /\ \A i \in DOMAIN handler :
         handler[i].err \in FallbackErrors => idx = Len(Roles)

(* The observer and the handler see what they are promised                *)
(* (role_based_integration.cpp:77-97): on_fallback is called once for     *)
(* each role that failed and was left, with that role's connection, and   *)
(* never for the final outcome; the handler is called at most once, with  *)
(* the most recent try's connection.                                      *)
ObserverFaithful ==
    /\ Len(fallbacks) = idx - 1
    /\ \A i \in DOMAIN fallbacks : fallbacks[i].conn = i
    /\ Len(handler) <= 1
    /\ \A i \in DOMAIN handler : handler[i].conn = idx

(* The time left is shared fairly (examples/role_based_request.cpp:59-61): *)
(* no role is given less time than the first, and no try's deadline lies   *)
(* beyond the request's.                                                   *)
FairShare ==
    /\ \A i \in DOMAIN shares : shares[i] >= shares[1]
    /\ tryDeadline <= Budget

(* The user's handler is eventually called, exactly once.                  *)
Completes == <>[](Len(handler) = 1)

=============================================================================
