--------------------------- MODULE RequestPipeline ---------------------------
(***************************************************************************)
(* The request pipeline of spec section 4.3 on one connection, which       *)
(* serves Requests requests one after the other, as                         *)
(* tests/integration/request_integration.cpp:206-208 does: the first is    *)
(* async_execute on a connection_info provider (connect, then the oid      *)
(* request when the oid map is not empty, then the query); each later one  *)
(* is issued by the previous one's handler on the connection it was handed *)
(* (impl/async_execute.h, detail/post_handler.h).                          *)
(*                                                                         *)
(* Everything runs on one io_context: completions are handlers in a FIFO   *)
(* queue that the context runs one at a time.  Each request arms a         *)
(* deadline timer; when it fires, cancel_io cancels whatever I/O the       *)
(* connection's socket has in flight, which then completes with            *)
(* operation_aborted and the request ends with timed_out.  Time is counted *)
(* in ticks; MaxTime is time_point::max().                                 *)
(***************************************************************************)
EXTENDS Integers, Sequences, FiniteSets

CONSTANTS
    Requests,     \* how many requests the connection serves in turn
    MaxTime,      \* time_point::max() (and duration::max()), in ticks
    Timeouts,     \* time constraints a request may be given
    NoDeadline    \* the time constraint bozo::none

ASSUME Requests \in Nat \ {0} /\ MaxTime \in Nat \ {0}

Reqs == 1..Requests

\* The steps of a request, each of which arms a timer: async_execute gives
\* get_connection and async_request_op the same deadline, and the oid
\* request is bounded by what is left of it (spec section 4.3).
Ops == Reqs \X {"connect", "oid", "query"}

VARIABLES
    now,        \* the clock
    timeout,    \* timeout[r]: the time constraint request r is given
    validInfo,  \* the conninfo string can be parsed (PQconnectStart succeeds)
    custom,     \* the connection's oid map registers custom types
    start,      \* start[r]: when request r was issued, -1 before
    dl,         \* dl[r]: request r's deadline, deadline(t) at issue
    cur,        \* the request whose operation owns the connection, 0 if none
    phase,      \* the step that operation is in: "connect", "oid", "query"
    conn,       \* the connection: "disconnected", "connecting", "busy",
                \*   "idle" or "bad"
    oids,       \* the oid map: the id of each registered type, NullOid until resolved
    socket,     \* an asynchronous socket operation is in flight
    ioSince,    \* when that socket operation began
    timer,      \* timer[<<r, p>>]: the deadline timer of request r's step
                \*   p: "off", "armed" or "queued" (expired, its handler
                \*   posted)
    queue,      \* the io_context's ready handlers, in FIFO order
    calls       \* the user handlers called: [req, ec, conn, at]

vars == <<now, timeout, validInfo, custom, start, dl, cur, phase, conn, oids,
          socket, ioSince, timer, queue, calls>>

\* What one step's socket operation can complete with.
Outcomes(p) ==
    CASE p = "connect" -> {"ok", "connection_error"}
      [] p = "oid"     -> {"ok", "length_mismatch", "null_oid", "connection_error"}
      [] p = "query"   -> {"ok", "sql_error", "connection_error"}

Handler(r, ec) == [kind |-> "handler", req |-> r, ec |-> ec]
IoDone(r, ec)  == [kind |-> "io", req |-> r, ec |-> ec]
TimerDue(o)    == [kind |-> "timer", req |-> o, ec |-> "ok"]

\* Cancels request r's armed timers; one already expired keeps its posted
\* handler, which will run with success.
CancelTimers(tm, r) ==
    [o \in Ops |-> IF o[1] = r /\ tm[o] = "armed" THEN "off" ELSE tm[o]]

\* Arms the timer of request r's step p, unless r has no deadline.
Arm(tm, r, p) ==
    [tm EXCEPT ![<<r, p>>] = IF timeout[r] = NoDeadline THEN "off"
                                                             ELSE "armed"]

-----------------------------------------------------------------------------
(***************************************************************************)
(* bozo::deadline(duration, now): saturating, so that duration::max() from *)
(* any later time point is time_point::max(), and a negative duration      *)
(* gives now.                                                              *)
(***************************************************************************)
\* Adds in the representation's width, wrapping round past time_point::max.
DeadlineWrapping(d, t) ==
    IF d = NoDeadline THEN NoDeadline
    ELSE IF d < 0 THEN t ELSE (t + d) % (MaxTime + 1)

Deadline(d, t) ==
    IF d = NoDeadline THEN NoDeadline
    ELSE IF d < 0 THEN t
    ELSE IF d > MaxTime - t THEN MaxTime
    ELSE t + d

\* An operation starts step p: its socket operation is issued.
Issue(p) ==
    /\ phase' = p
    /\ socket' = TRUE
    /\ ioSince' = now

\* Request r starts on the connection, in step p, with its deadline armed
\* (unless it has none) in the timer table tm.
Launch(r, p, tm) ==
    /\ start' = [start EXCEPT ![r] = now]
    /\ dl' = [dl EXCEPT ![r] = Deadline(timeout[r], now)]
    /\ timer' = Arm(tm, r, p)
    /\ cur' = r
    /\ Issue(p)

(***************************************************************************)
(* The operation of request r ends with ec, leaving the connection in      *)
(* state c: it cancels its timer (a timer whose handler is already posted  *)
(* can no longer be cancelled: it runs with success) and post_handler      *)
(* posts the user's handler to the connection's executor.                  *)
(***************************************************************************)
\* Calls the user's handler directly instead of posting it.
FinishInline(r, ec, c) ==
    LET tm == CancelTimers(timer, r) IN
    /\ calls' = Append(calls, [req |-> r, ec |-> ec, conn |-> c, at |-> now])
    /\ queue' = Tail(queue)
    /\ IF ec = "ok" /\ r < Requests
         THEN Launch(r + 1, "query", tm) /\ conn' = "busy"
         ELSE /\ timer' = tm /\ cur' = 0 /\ conn' = c /\ socket' = FALSE
              /\ UNCHANGED <<start, dl, phase, ioSince>>

Finish(r, ec, c) ==
    /\ timer' = CancelTimers(timer, r)
    /\ queue' = Append(Tail(queue), Handler(r, ec))
    /\ cur' = 0
    /\ conn' = c
    /\ socket' = FALSE
    /\ UNCHANGED <<start, dl, phase, ioSince, calls>>

-----------------------------------------------------------------------------
(***************************************************************************)
(* The oid request (request_oid_map_op): the ids the catalogue query       *)
(* returned are applied by set_oid_map, which throws length_error on a     *)
(* count that differs from the map's and invalid_argument on a null oid    *)
(* (tests/impl/request_oid_map.cpp:35-54); the operation turns either into *)
(* oid_request_failed (lines 81-88).  Two custom types are registered.     *)
(***************************************************************************)
NullOid == 0

OidsReturned(res) ==
    CASE res = "ok"              -> <<11, 22>>
      [] res = "length_mismatch" -> <<11>>
      [] res = "null_oid"        -> <<11, NullOid>>

\* Assigns ids in declaration order and throws at the first null one.
SetOidMapPartial(m, ids) ==
    IF Len(ids) # Len(m) THEN [err |-> "length_error", map |-> m]
    ELSE IF \E i \in DOMAIN ids : ids[i] = NullOid
      THEN LET k == CHOOSE i \in DOMAIN ids : ids[i] = NullOid
                        /\ \A j \in 1..(i - 1) : ids[j] # NullOid
           IN [err |-> "invalid_argument",
               map |-> [i \in DOMAIN m |-> IF i < k THEN ids[i] ELSE m[i]]]
    ELSE [err |-> "none", map |-> ids]

\* Does not compare the result's length with the map's.
SetOidMapUnchecked(m, ids) ==
    IF \E i \in DOMAIN ids : ids[i] = NullOid
      THEN [err |-> "invalid_argument", map |-> m]
    ELSE [err |-> "none", map |-> ids]

\* set_oid_map: validates the whole result, then assigns.
SetOidMap(m, ids) ==
    IF Len(ids) # Len(m) THEN [err |-> "length_error", map |-> m]
    ELSE IF \E i \in DOMAIN ids : ids[i] = NullOid
      THEN [err |-> "invalid_argument", map |-> m]
    ELSE [err |-> "none", map |-> ids]

OnOidResult(r, res) ==
    LET s == SetOidMap(oids, OidsReturned(res)) IN
    /\ oids' = s.map
    /\ IF s.err = "none"
         THEN /\ Issue("query") /\ queue' = Tail(queue)
              /\ timer' = Arm(CancelTimers(timer, r), r, "query")
              /\ UNCHANGED <<start, dl, cur, conn, calls>>
         ELSE Finish(r, "oid_request_failed", "idle")

(***************************************************************************)
(* A socket operation of request r completes with an error, or aborted by  *)
(* cancel_io: the request ends, the connection is bad.                     *)
(***************************************************************************)
ErrorOf(res) == IF res = "aborted" THEN "timed_out" ELSE res

\* Ends the request but leaves the connection in the state it was in.
OnIoErrorKeepsConnection(r, res) == Finish(r, ErrorOf(res), conn)

OnIoError(r, res) == Finish(r, ErrorOf(res), "bad")

\* A completed step of request r moves the operation on.
OnIo(r, res) ==
    /\ IF res \in {"aborted", "connection_error"} THEN OnIoError(r, res)
       ELSE CASE phase = "connect" ->
                   /\ Issue(IF custom THEN "oid" ELSE "query")
                   /\ conn' = "busy" /\ queue' = Tail(queue)
                   /\ timer' = Arm(CancelTimers(timer, r), r,
                                    IF custom THEN "oid" ELSE "query")
                   /\ UNCHANGED <<start, dl, cur, calls, oids>>
              [] phase = "oid" -> OnOidResult(r, res)
              [] phase = "query" ->
                   Finish(r, res, "idle") /\ UNCHANGED oids
    /\ (res \in {"aborted", "connection_error"} => UNCHANGED oids)

(***************************************************************************)
(* A timer's handler (detail::cancel_io, tests/detail/timeout_handler.cpp):*)
(* it cancels the socket I/O of the connection, whichever request it       *)
(* belongs to, which completes with operation_aborted.                     *)
(***************************************************************************)
\* Also ends the request itself, with timed_out.
OnTimerCompleting(o) ==
    /\ timer' = [timer EXCEPT ![o] = "off"]
    /\ IF socket
         THEN /\ socket' = FALSE
              /\ queue' = Tail(queue) \o <<IoDone(cur, "aborted"),
                                           Handler(o[1], "timed_out")>>
         ELSE /\ queue' = Append(Tail(queue), Handler(o[1], "timed_out"))
              /\ UNCHANGED socket

\* Does not cancel the socket's I/O.
CancelIoNoop(o) ==
    /\ timer' = [timer EXCEPT ![o] = "off"]
    /\ queue' = Tail(queue)
    /\ UNCHANGED socket

OnTimer(o) ==
    /\ timer' = [timer EXCEPT ![o] = "off"]
    /\ IF socket
         THEN /\ socket' = FALSE
              /\ queue' = Append(Tail(queue), IoDone(cur, "aborted"))
         ELSE /\ queue' = Tail(queue)
              /\ UNCHANGED socket

(***************************************************************************)
(* The user's handler runs with the error and the connection; after a      *)
(* success it issues the next request on the same connection.              *)
(***************************************************************************)
OnHandler(r, ec) ==
    /\ calls' = Append(calls, [req |-> r, ec |-> ec, conn |-> conn, at |-> now])
    /\ queue' = Tail(queue)
    /\ IF ec = "ok" /\ r < Requests
         THEN Launch(r + 1, "query", timer) /\ conn' = "busy"
         ELSE UNCHANGED <<start, dl, timer, cur, phase, socket, ioSince, conn>>

\* The io_context runs the handler at the head of its queue.
Run ==
    /\ queue # <<>>
    /\ LET h == Head(queue) IN
         \/ /\ h.kind = "timer" /\ OnTimer(h.req)
            /\ UNCHANGED <<start, dl, cur, phase, conn, oids, ioSince, calls>>
         \/ h.kind = "io" /\ OnIo(h.req, h.ec)
         \/ /\ h.kind = "handler" /\ OnHandler(h.req, h.ec)
            /\ UNCHANGED oids
    /\ UNCHANGED <<now, timeout, validInfo, custom>>

-----------------------------------------------------------------------------
(***************************************************************************)
(* async_execute(provider, query, t, handler) (impl/async_execute.h:9-21): *)
(* get_connection and the request share one deadline, deadline(t).  An     *)
(* unparsable conninfo fails at once with a bad connection                 *)
(* (request_integration.cpp:114-129).                                      *)
(***************************************************************************)
AsyncExecute ==
    /\ start[1] = -1
    /\ IF validInfo
         THEN /\ Launch(1, "connect", timer) /\ conn' = "connecting"
              /\ UNCHANGED queue
         ELSE /\ start' = [start EXCEPT ![1] = now]
              /\ dl' = [dl EXCEPT ![1] = Deadline(timeout[1], now)]
              /\ conn' = "bad"
              /\ queue' = Append(queue, Handler(1, "connection_error"))
              /\ UNCHANGED <<timer, cur, phase, socket, ioSince>>
    /\ UNCHANGED <<now, timeout, validInfo, custom, oids, calls>>

\* The server or the network completes the socket operation in flight;
\* it takes at least a tick.  Nothing obliges it to (pg_sleep).
IoReady ==
    /\ socket /\ now > ioSince
    /\ \E res \in Outcomes(phase) :
         queue' = Append(queue, IoDone(cur, res))
    /\ socket' = FALSE
    /\ UNCHANGED <<now, timeout, validInfo, custom, start, dl, cur, phase,
                   conn, oids, ioSince, timer, calls>>

\* An armed timer reaches its deadline: its handler is posted.
TimerExpire(o) ==
    /\ timer[o] = "armed" /\ dl[o[1]] <= now
    /\ timer' = [timer EXCEPT ![o] = "queued"]
    /\ queue' = Append(queue, TimerDue(o))
    /\ UNCHANGED <<now, timeout, validInfo, custom, start, dl, cur, phase,
                   conn, oids, socket, ioSince, calls>>

\* Time passes.  The io_context runs its ready handlers and reaps expired
\* timers before the clock moves on: a tick is the time a network round
\* trip takes at least.
Tick ==
    /\ now < MaxTime
    /\ queue = <<>>
    /\ ~\E o \in Ops : timer[o] = "armed" /\ dl[o[1]] <= now
    /\ now' = now + 1
    /\ UNCHANGED <<timeout, validInfo, custom, start, dl, cur, phase, conn,
                   oids, socket, ioSince, timer, queue, calls>>

Init ==
    /\ now = 0
    /\ timeout \in [Reqs -> Timeouts]
    /\ validInfo \in BOOLEAN
    /\ custom \in BOOLEAN
    /\ start = [r \in Reqs |-> -1]
    /\ dl = [r \in Reqs |-> 0]
    /\ cur = 0
    /\ phase = "connect"
    /\ conn = "disconnected"
    /\ oids = IF custom THEN <<NullOid, NullOid>> ELSE <<>>
    /\ socket = FALSE
    /\ ioSince = 0
    /\ timer = [o \in Ops |-> "off"]
    /\ queue = <<>>
    /\ calls = <<>>

Next ==
    \/ AsyncExecute
    \/ IoReady
    \/ \E o \in Ops : TimerExpire(o)
    \/ Tick
    \/ Run

(***************************************************************************)
(* The io_context runs every ready handler, time passes and expired timers *)
(* are reaped; the test body issues its request.  The server need not      *)
(* answer: IoReady is not fair.                                            *)
(***************************************************************************)
Spec == Init /\ [][Next]_vars
          /\ WF_vars(AsyncExecute) /\ WF_vars(Run) /\ WF_vars(Tick)
          /\ WF_vars(\E o \in Ops : TimerExpire(o))

-----------------------------------------------------------------------------
TypeOK ==
    /\ now \in 0..MaxTime
    /\ timeout \in [Reqs -> Timeouts]
    /\ start \in [Reqs -> -1..MaxTime]
    /\ cur \in 0..Requests
    /\ phase \in {"connect", "oid", "query"}
    /\ conn \in {"disconnected", "connecting", "busy", "idle", "bad"}
    /\ oids \in Seq(Nat) /\ Len(oids) = IF custom THEN 2 ELSE 0
    /\ socket \in BOOLEAN
    /\ timer \in [Ops -> {"off", "armed", "queued"}]
    /\ \A i \in DOMAIN queue : queue[i].kind \in {"handler", "io", "timer"}

Called(r) == \E i \in DOMAIN calls : calls[i].req = r

(* The user's handler is called at most once per request, however the      *)
(* request's timer and its I/O race: a timer that ends the request itself  *)
(* as well as cancelling its I/O completes it twice (the tests' atomic_flag*)
(* checks, request_integration.cpp:244-247, get_connection_integration.cpp).*)
HandlerOnce ==
    \A r \in Reqs : Cardinality({i \in DOMAIN calls : calls[i].req = r}) <= 1

(* The connection a handler is given is idle or bad, never in the middle   *)
(* of the protocol: bad after a timeout or a connection error, idle and    *)
(* with every custom type's oid resolved after a success; and the oid map  *)
(* is never left half resolved by a failed set_oid_map.                    *)
HandedBack ==
    /\ \A i \in DOMAIN calls :
         LET c == calls[i] IN
         /\ c.conn \in {"idle", "bad"}
         /\ c.ec \in {"timed_out", "connection_error"} => c.conn = "bad"
         /\ c.ec = "ok" => c.conn = "idle" /\ \A k \in DOMAIN oids : oids[k] # NullOid
    /\ \/ \A k \in DOMAIN oids : oids[k] = NullOid
       \/ \A k \in DOMAIN oids : oids[k] # NullOid

\* The latest moment request r may be timed out: the time it asked for,
\* or time_point::max() when that is not representable.
Intended(r) ==
    IF timeout[r] = NoDeadline THEN MaxTime + 1
    ELSE IF timeout[r] <= 0 THEN start[r]
    ELSE IF start[r] + timeout[r] > MaxTime THEN MaxTime
    ELSE start[r] + timeout[r]

(* A request fails with timed_out only once the time it was given has      *)
(* passed (deadline saturates: duration::max() never times out early,     *)
(* request_integration.cpp:255-274), even when an earlier request's timer *)
(* fires while it runs on the same connection; and a request whose        *)
(* deadline has already passed when it is issued always times out         *)
(* (request_integration.cpp:235-253).                                     *)
DeadlineRespected ==
    \A i \in DOMAIN calls :
        LET c == calls[i] IN
        /\ c.ec = "timed_out" => c.at >= Intended(c.req)
        /\ (/\ timeout[c.req] # NoDeadline /\ timeout[c.req] <= 0
            /\ (c.req > 1 \/ validInfo))
           => c.ec = "timed_out"

(* Every request with a deadline completes: its handler is eventually     *)
(* called, even if the server never answers.                              *)
Completes ==
    \A r \in Reqs :
        (start[r] >= 0 /\ timeout[r] # NoDeadline) ~> Called(r)

=============================================================================
