# TLA+ models of bozo

bozo is an asynchronous PostgreSQL client driver (spec.md). A caller describes
a query and the native types of its result. The library then does the rest:

- obtains a connection from a *connection provider*: a single connection
  factory, a pool, or a failover wrapper around either;
- resolves the oids of custom types;
- encodes the parameters in the binary wire format;
- drives the request over a non-blocking socket while a deadline timer races it;
- decodes the rows;
- hands back a connection that is idle (reusable) or bad.

This directory holds the TLA+ modules that model the parts of it that
TLC can check, the configurations that check them, and `PROJECT.json`, which
lists the components, runs, mutants, the map from definitions to source lines,
findings and hazards.

The repository under `src/` holds the public headers of the core, the `ext/`
adapters, two examples and the test suite. Several core headers are not in
the repository: the pool, `failover/retry.h`, `failover/role_based.h`,
`connection.h`, `request_oid_map.h` and `composite.h`. Where a model covers
one of those, it is taken from the spec and from the tests that pin the
behaviour. `PROJECT.json` maps each such definition to those test lines, or
marks it `spec_modelled`.

## The system's parts and how they interact

| Part | Source | State | Operations |
|---|---|---|---|
| Nullable capability | `core/recursive.h`, `ext/std/*`, `ext/boost/*` | a value's chain of wrappers and the null state of each level | `is_null`, `unwrap`, `is_null_recursive`, `unwrap_recursive`, `allocate_nullable` |
| Binary codec | `pg/types/*.h` (integer, float, bytea, name, json, jsonb), `ext/std/{string,pair,vector,list,array}.h`, `tests/composite.cpp`, `tests/io/size_of.cpp`, `impl/query.h` | a value, the query carrying it, and the frame written for it | `size_of`, `send`, `recv`, `fit_array_size`, type oids, `make_query` |
| Oid map | `tests/impl/request_oid_map.cpp` | the resolved id of each registered type | `set_oid_map`, `request_oid_map_op` |
| Connection and request pipeline | `impl/async_execute.h`, `detail/post_handler.h`, `impl/result_status.h`, `tests/integration/request_integration.cpp`, `tests/integration/get_connection_integration.cpp`, `tests/integration/cancel_integration.cpp` | the connection state, the deadline timer, the handler; the cancel connection and its deadline | `get_connection`, `async_execute`, `async_request`, the timer, `cancel_io`, the out-of-band `cancel` |
| Connection pool | `tests/integration/connection_pool_integration.cpp` | slots, link health, holders, the waiter queue | `get_connection`, connect completion, release, waiter timeout |
| Failover: retry | `tests/failover/retry.cpp`, `tests/integration/retry_integration.cpp`, `examples/retry_request.cpp` | tries left, the current try, its deadline, the provider's cursor | `basic_try::get_next_try`, `get_try_time_constraint`, `close_connection`, `on_retry` |
| Failover: role-based | `tests/integration/role_based_integration.cpp`, `examples/role_based_request.cpp` | the role being tried, the roles left | fallback on a connection error only |
| Transactions | `tests/impl/async_start_transaction.cpp`, `tests/impl/async_end_transaction.cpp`, `tests/transaction_status.cpp`, `tests/integration/transaction_integration.cpp` | the transaction status of a connection | `begin`, `commit`, `rollback`, `get_transaction_status` |
| Deadlines | `tests/deadline.cpp` | time points | `deadline`, `time_left` |

The interactions the models care about are these:

- **Providers and failover.** Every provider answers "a connection, or a
  failure, by this deadline". The failover strategies wrap any provider:
  retry wraps the `connection_info_sequence` of the tests, and role-based
  wraps one provider per role.
- **Pipeline and nullable.** The pipeline's error path guards every read of a
  connection's error context with `is_null_recursive`. This is the reason the
  nullable walks matter.
- **Pool and pipeline.** The pool lends its connections to the pipeline. A
  request that times out marks its connection bad, and the pool then discards
  it on release.

## Modules

- `Nullable` covers `recursive.h` and the `ext/` adapters.
  - **State:** `kinds` is the type of a value, a chain of wrappers
    around a terminal (`value`, `nullopt_t`, `nullptr_t`). There is one
    wrapper kind per `ext/` header: `std::optional`, `boost::optional`,
    `std::shared_ptr`, `boost::shared_ptr`, `boost::scoped_ptr` and
    `boost::weak_ptr`. `null` is the null state of each level.
  - **Operators:** `IsNullRecursive` and `UnwrapRecursive` are RECURSIVE
    operators that translate `is_null_recursive_impl` and
    `unwrap_recursive_impl`. Each returns a record of its answer and the set
    of levels where it dereferenced a null handle.
  - **Actions:** the owner's actions are `AllocateNullable` (the pointers
    that specialise `allocate_nullable_impl`, in `Allocatable`), `Engage` (optional emplace, weak_ptr assignment) and `Reset`
    (reset, or a weak_ptr's owner letting go).
  - **Documentation check:** `DocumentedIsNullRecursive` is the loop that
    recursive.h's comment describes.
- `ConnectionPool` models the pool.
  - **State:** slots (`empty`, `connecting`, `free`, `busy`) with link
    health, the slot each requester holds, and the FIFO waiter queue.
  - **Actions:** `GetConnection` splits into `Recycle`, `Establish`,
    `Enqueue` and `Exhausted`. The other actions are `Connected`,
    `ConnectFailed`, `LinkBreaks`, `Release` (`ReleaseHealthy` and
    `ReleaseBad`) and `Timeout`. One pool operation is one atomic step,
    because the thread-safe pool mutates its state under its lock and the
    single-threaded one from one context. The I/O happens between these steps.
- `PoolSemaphore` is the abstract promise of the pool: a counting semaphore
  with a bounded FIFO queue.
  - `ConnectionPool` is shown to implement it:
    `INSTANCE PoolSemaphore WITH holders <- {c : conn[c] # None}`, checked as
    the property `RefinesSemaphore`.
- `Retry` models one request under the retry strategy over
  `connection_info_sequence`.
  - **Actions:**
    - `StartTry` hands the try its share of the time left and asks the
      provider (`ConnectionInfoSequence`) for a connection.
    - The I/O (`Tick`, `Complete`) races the try's timer (`Expire`).
    - `Decide` is the try's continuation: `Succeed`, or get_next_try's
      `Retry` (on_retry, then close, then the next try) or `GiveUp`
      (close, then the user's handler).
  - **State:** time is counted in ticks and `Budget` is the request's deadline.
- `RequestPipeline` models `async_execute` on one connection that serves
  two requests in turn. The first request goes through a `connection_info`
  provider; the second is issued by the first's handler on the connection
  it was handed.
  - **State:**
    - the clock and each request's time constraint, start and deadline;
    - the connection's state: `disconnected`, `connecting`, `busy`, `idle`
      or `bad`;
    - the oid map;
    - whether a socket operation is in flight;
    - a deadline timer per step (connect, oid request, query);
    - the io_context's FIFO queue of ready handlers;
    - the user handler calls.
  - **Actions:**
    - `AsyncExecute`: `deadline(t)`, or an unparsable conninfo failing at once.
    - `IoReady`: the server answering a socket operation.
    - `TimerExpire`: a deadline timer posting its handler.
    - `Run`: the io_context running the handler at the head of its queue.
      That handler is one of `OnIo` (the step's continuation, including
      `set_oid_map`), `OnTimer` (`cancel_io`) or `OnHandler` (the user's
      handler, which issues the next request).
    - `Tick`: time passing.
  - **Oid map and deadlines:** these are parts of the same module.
    - `SetOidMap` is `set_oid_map`. It checks the length and null oids of
      the result before it changes the map.
    - `Deadline` is `deadline(duration, now)`, saturating at
      `time_point::max()`.
- `Codec` models the binary codec. `SizeOf`, `Send` and `Recv` are RECURSIVE
  operators over byte sequences for these types: int2, int4 and int8
  (big-endian two's complement, `IntBytes`/`IntVal`), float4 and float8
  (their IEEE bytes, copied), text, bytea, name, json, jsonb,
  `std::optional`, (nested) composites, `std::pair` (a two-field
  composite), and `std::vector`, `std::list` and `std::array`.
  - **Type catalogue:** `Catalogue` and `ArrayCatalogue` give each type's
    oid and its array's oid (`BOZO_PG_DEFINE_TYPE_AND_ARRAY`); `TypeName`
    names a type as `type_traits_of` does (`_int4` for an array of int4,
    `record` for a composite). `Recv` rejects a frame whose oid is not the
    one the catalogue gives.
  - **Checked against a reference:** `Frame` is the column the server sends.
    `Recv` must give back the value or a named error.
  - **Query:** `MakeQuery`, `GetQueryText` and `GetQueryParams` translate
    `impl/query.h`. A query is its text and the tuple of its parameters.
  - **Actions:** `SendValue`, `Corrupt` and `RecvValue` are one column's trip
    through the wire. `SendValue` builds the request tests' `SELECT $1`
    query with the value as its one parameter. The server answers with
    that parameter's binary frame as the column (`Echo`). `Corrupt` models damage to the frame:
    - a short read;
    - a count or dimension that is off by one;
    - a wrong type oid;
    - a NULL flag;
    - a jsonb version byte taken from `JsonbVersions`.
- `RoleBased` models one request under `role_based(master, replica)`.
  - **Actions:**
    - `StartTry`: the role's provider, and the try's share of the time left
      (the time left divided by the roles left).
    - `Tick`, `Complete` and `Expire`: the I/O racing the try's timer.
    - `Decide`: the continuation, which is `Fallback` (on_fallback, then the
      next role) or `GiveUp` (the user's handler).
- `Transaction` models `begin`, requests, `commit` and `rollback` on one
  connection, together with the server's side of the transaction.
  - **State:**
    - `holder`: the client object that owns the connection. It is
      `connection` or `transaction`, or `moved` while `begin`, `commit` or
      `rollback` runs.
    - `srv`: the server's transaction state.
    - `inflight`: the call in flight and the statement it sent.
    - the written and visible writes.
  - **Actions:**
    - `Begin`, `Request`, `Commit` and `Rollback` send a statement.
    - `Reply` is the server answering and the call's handler running.
    - `LinkFails` may happen at any point and aborts the server's
      transaction. With COMMIT in flight, the server may already have
      applied it when the reply is lost (`AfterLoss`). The commit then
      reports a connection error while its writes are visible.
  - **Status:** `GetTransactionStatus` is `get_transaction_status`. A null
    connection gives `unknown`, otherwise the status is the mapping of
    `PQtransactionStatus`.
- `Nullable` also holds `PrintError`, the examples' `print_error`, which
  reads libpq's error only when `is_null_recursive` is false.
- `Cancel` models the out-of-band cancel of `cancel_integration.cpp`. One
  coroutine runs `execute` with or without a deadline: the tests'
  `pg_sleep`, which the server never answers, or a short statement, after
  which it runs a second statement on the connection handed back. The
  other coroutine waits on a timer, takes a work guard on io and calls
  `cancel(handle, io, t)`.
  - **State:**
    - the clock, and whether `io.run()` still runs;
    - the current statement, its deadline and outcome, and the backend
      (`running`, `idle` or `canceled`);
    - the canceller's step and the statement in flight when it called
      cancel;
    - the cancel connection (`none`, `connecting`, `sent`, `closed`), the
      cancel's deadline timer on io, and its decided outcome;
    - the handlers queued on io (the cancel's completion, the aborted
      timer's) and the work guard.
  - **Actions:**
    - query side: `QueryAnswered`, `QueryTimesOut` (`cancel_io`),
      `QueryCanceled` and `NextQuery`;
    - canceller: `CancelTimerFires` with `StartCancel` (a zero constraint
      completes at once with `timed_out`; otherwise the connection starts
      and the deadline is armed) and `RunCancelHandler`;
    - the handle's executor: `CancelSend` (never, for an io_context nobody
      runs), `CancelDelivered` (the server cancels whatever its backend
      runs; the operation succeeds and cancels its timer) and
      `PostCompletion`;
    - io: `CancelDeadline`, `RunAborted`, and `IoStops` (run() returns once
      `IoWork` is empty);
    - `Tick`.
  - `cancel.h` is not in the repository: the cancel operation's steps are
    taken from spec section 4.3. Delivery and the posting of the
    completion are separate steps, as for any operation served by another
    executor.
- Each `MC*` module gives the constants model values or small sets.

## Runs

| Run | What it checks |
|---|---|
| `pool` | 5 requesters, 2 slots, queue of 2. `SlotOwnership` (one holder per slot in use; nobody both holds and waits). `NoIdleCapacityWhileWaiting` (no lost wake-up after a release of a bad link). `FifoHandOut` (action property: whoever gets a connection while others wait is the head). `WaiterServed` (every waiter leaves the queue by being served or timing out). `RefinesSemaphore`. |
| `retry` | tries in 0..3; conditions {}, {connection_error}, {database_readonly}; close_connection both ways; conninfo lists of up to 3 valid/invalid entries; budget 6 ticks. `RetryBudget` (never more tries than allowed; a matched error is final only when the budget is spent). `Disposal` (a null connection is never closed; with closing on, no earlier try's connection is left open; a success is not closed). `ObserverFaithful` (on_retry once per retry, with a matched error and an open connection). `FairShare` (no try gets less than the first; no try's deadline beyond the request's). `Completes` (the handler runs exactly once). |
| `nullable` | all chains of up to 3 wrappers over each terminal. `NullWalkCorrect` (is_null_recursive is right and never dereferences a null level). `GuardedUnwrapSafe` (a value it passes unwraps fully without a null dereference). |
| `nullable_doc` | expected violation of `CodeMatchesDocumentedLoop`: the documented loop answers false for a terminal `std::nullopt_t`/`std::nullptr_t`, the code answers true. |
| `pipeline` | 2 requests, clock up to 4 ticks, time constraints {none, -1, 0, 2, max}, with or without custom types, a valid or unparsable conninfo. `HandlerOnce` (a request's timer and its I/O never both complete it). `HandedBack` (the handler gets an idle or bad connection; bad after a timeout or connection error; the oid map is all or nothing). `DeadlineRespected` (no timeout before the request's own deadline, even when the first request's stale timer fires during the second; a past deadline always times out). `Completes` (a request with a deadline is eventually handled even if the server never answers). |
| `codec` | nineteen column types (every scalar, optional, five composites including a pair, vector, list and array), integers {-1, 258, -32768}, three float bit patterns, texts {"", "{}"}, vectors of up to 2 elements, every corruption. `RoundTrip` (recv(send(v)) = v). `SizeExact` (size_of equals the bytes send writes). `NoSilentCorruption` (an accepted frame is one send would have written for the value). |
| `codec_jsonb_version` | expected violation of `NoSilentCorruption` once jsonb version 2 is possible: recv ignores the version byte. |
| `rolebased` | master and replica, each conninfo valid or invalid, every query outcome, budget 6 ticks. `RoleOrder` (fallback only on connectivity-class errors and only to the next role; a connectivity error reaches the handler only from the last role). `ObserverFaithful` (on_fallback once per role left, with that role's connection; the handler at most once, with the last try's). `FairShare`. `Completes`. |
| `cancel` | execute without a deadline or with 2s, of `pg_sleep` or of a short statement followed by a second; cancel after 1s with 0s, 1s or 5s; the handle on the system executor or on an io_context nobody runs. `CancelFaithful` (a statement is canceled only by a request that reached its backend through a running executor; a zero constraint never touches the network and fails with `timed_out`; a successful cancel has reached the backend, while a timed-out one may still have). `IoStopsOnlyWhenDone` (io.run() returns only after both coroutines end; without the work guard it returns while the cancel's completion is still on the other executor). `Completes` (the canceller always ends, by its own deadline if need be; a statement with a deadline or a canceled backend ends; io then returns). |
| `cancel_late` | expected violation of `CancelHitsTarget`: a cancel request that arrives after its statement was answered cancels the next statement on the same connection. |
| `transaction` | two transactions, two writes, a live or null connection, failing requests, link failure at any step. `StatusFaithful` (get_transaction_status agrees with the object the client holds: idle for a connection, transaction or error for a transaction, active during a statement, unknown for a failed or null connection). `CommitAtomic` (each transaction is all or nothing, even when the link is lost with COMMIT in flight; a visible write belongs to a transaction that sent COMMIT and had no failed request; a commit reported as success is durable). |

Every property of a passing run has a mutant in `PROJECT.json`. A mutant
replaces one mapped definition with a plausible bug, and TLC must then find
that property violated.

## What the checks show

- **`is_null_recursive` on a terminal.** For a terminal `std::nullopt_t` or
  `std::nullptr_t`, the code's `is_null_recursive` differs from the loop its
  comment documents (run `nullable_doc`).
- **The jsonb version byte.** recv of jsonb reads the version byte and
  ignores it (`jsonb.h:62-63`). A frame in any other jsonb version is
  accepted and misread as version 1 (run `codec_jsonb_version`). send
  always writes version 1, so this bites only with a server that uses
  another format.
- **Stale timers are drained by `post_handler`.** A timer of the first
  request is cancelled when the first request ends, but it may already
  have expired and been queued. `post_handler` queues the user's handler
  behind it. The stale timer therefore runs, and finds nothing to cancel,
  before the second request starts. `DeadlineRespected` holds. Its mutant
  `FinishInline` calls the handler inline instead: the second request then
  starts first, and the stale timer cancels its I/O before its deadline.
- **A timed-out cancel may still cancel.** cancel's deadline races the
  delivery of the request: the canceller can see `timed_out` while the
  request it wrote still reaches the server and the query ends with
  `query_canceled`. Only a successful cancel tells the caller the request
  arrived (`CancelFaithful`).
- **The work guard is needed.** Once the query has ended, the cancel
  succeeds on the handle's executor and cancels its deadline timer, io
  runs the aborted timer's handler, and io has no work left until the
  completion is posted: `io.run()` would return with the canceller
  suspended. The test's guard (`cancel_integration.cpp:40-44`) closes that
  window (`IoStopsOnlyWhenDone`; its mutant drops the guard).
- **A late cancel hits the next statement.** The handle comes from the
  connection (`get_cancel_handle(conn)`) and the request names the
  backend. If the statement it was meant for is answered first and the
  connection runs another, the request cancels that one (run
  `cancel_late`). The spec says a handle is obtained "for any in-flight
  query" and is silent on this.
- **A commit that reports an error may have committed.** If the link is
  lost after the server applied COMMIT, `commit` reports a connection
  error while the writes are visible. `CommitAtomic` states what still
  holds: all or nothing, and a reported success is durable. An error from
  commit does not tell the caller that nothing was applied.
- **COMMIT after a failed request.** The server turns such a COMMIT into a
  rollback and still reports success. `CommitAtomic` therefore counts a
  transaction with a failed request as never committed.

## Bounds

- **Pool:** two slots make a hand-off while another slot connects possible. A
  queue of two makes FIFO order observable. Five requesters make the
  queue-full refusal reachable while both slots are in use.
- **Retry:**
  - Three tries over three conninfos cover all of these: the provider
    running out before the tries do, the tries running out first, and both
    together.
  - A budget of six ticks gives shares of 2, 3 and 6 ticks, so a try can
    expire with time left for the next one.
- **Nullable:** three nested wrappers cover every pair of adjacent wrapper
  kinds with a level under each.
- **Pipeline:**
  - Two requests on one connection are the least that lets a stale timer of
    the first be queued when the second is issued.
  - A clock of four ticks lets a 2-tick deadline expire with time left, and
    lets `MaxTime` test saturation.
  - The constraints -1 and 0 give deadlines already past.
- **Codec:**
  - -1 exercises two's complement.
  - 258 has two non-zero bytes, so byte order is observable.
  - Two-element vectors and `std::array<int,2>` make count and size
    mismatches reachable in both directions.
  - Composites nest to depth two.
  - -32768 is the least int2, so int2's range check and the sign of a
    two-byte frame meet at their boundary.
  - The float patterns are 1.0f, 0.0f and 1.0 (8 bytes); a 4-byte pattern
    in an 8-byte column is a size mismatch.
- **Cancel:** the tests' 1s timer, 2s query deadline and 0s/5s cancel
  constraints; 1s adds a cancel deadline that coincides with the query's.
  Two statements are the least for a late cancel to meet a second one.
  The clock stops at 7, past every deadline; this is why the run does not
  check deadlock (a query without a deadline whose cancel never arrived
  waits there, as `pg_sleep` would).
- **Role-based:** two roles are the example's and the tests'. A budget of six
  ticks gives the master 3 ticks, so a timeout leaves time for the replica.
- **Transaction:**
  - Two transactions are enough for the connection that commit hands back
    to be reused.
  - Two writes let one succeed and one fail within a transaction.

## Fairness

- **Pool:** weak fairness on each holder's `Release`. A request ends at the
  latest at its deadline, and dropping the handle returns it. There is also
  weak fairness on the end of a connect attempt. A waiter's `Timeout` is not
  fair, because a waiter may have no deadline, so `WaiterServed` holds only
  because releases serve the queue.
- **Retry and role-based:** weak fairness on the whole next-state relation.
  The event loop keeps running the request: its I/O ends, or its timer fires.
- **Pipeline:** the io_context runs queued handlers (`Run`), time passes
  (`Tick`), and expired timers are posted (`TimerExpire`). All three have
  weak fairness. The server's answer (`IoReady`) has none: a query may
  never return (`pg_sleep`), so `Completes` relies only on the deadline
  timer.
- **Cancel:** weak fairness on every action. io runs its timers and
  handlers and returns once out of work, time passes, the system executor
  runs the cancel connection, and the server answers a short statement and
  a cancel request. An io_context nobody runs is the `idle` executor, under
  which `CancelSend` is never enabled; `pg_sleep` is a statement the server
  never answers.
- **Transaction** has no liveness property and no fairness: the client may
  stop at any point.

## Not modelled, and why

- **Query builder, SQL text, `bind`, `base36`, `none`, `concept`:** pure
  compile-time or formatting code with no state.
- **Benchmarks and the CLI:** outside the core.
- **Transport and TLS:** outside the core. The transport is an environment
  that may answer, fail or stall.
- **Other scalar codecs and multi-dimensional arrays:** uuid, timestamp,
  interval, ltree, bool and char are fixed-width or raw-byte payloads,
  handled like int8 and text.
- **The examples' printing:** `print_fallback` and the success branches
  of the two examples only write to stdout. `print_error`'s guard is
  modelled (`PrintError`).
- **`std::nullopt_t` as a query parameter:** its `send` writes nothing, and
  the server's answer to a NULL of type "null" cannot be decoded into any
  type of the codec. Its null behaviour is covered by `Nullable`.
- **Transaction options:** they change only the text of BEGIN.

## Plan

1. Compose the pool with the pipeline. The pool lends a connection, and a
   timed-out request returns it bad.
2. Compose role-based with retry (`role_based(...)` inside `retry(...)`).
3. Connections handed back by the pool while a cancel handle to them is
   still held.
