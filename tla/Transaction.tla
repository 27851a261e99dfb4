----------------------------- MODULE Transaction -----------------------------
(***************************************************************************)
(* Transactions over one connection: begin, requests inside the            *)
(* transaction, commit or rollback, and get_transaction_status.            *)
(*                                                                         *)
(* bozo::begin runs BEGIN through async_execute and hands the connection   *)
(* back wrapped in a transaction; commit and rollback consume the          *)
(* transaction, run COMMIT or ROLLBACK and hand the bare connection back   *)
(* (tests/impl/async_start_transaction.cpp, async_end_transaction.cpp,     *)
(* tests/integration/transaction_integration.cpp).  transaction.h is not   *)
(* part of this repository; get_transaction_status is translated from the  *)
(* behaviour tests/transaction_status.cpp pins.                            *)
(*                                                                         *)
(* The server runs one statement at a time; its transaction state is what  *)
(* PQtransactionStatus reports.  The link may fail at any time, which      *)
(* aborts the server's transaction -- unless the statement in flight was   *)
(* a COMMIT the server had already applied when the reply was lost.        *)
(***************************************************************************)
EXTENDS Naturals, FiniteSets

CONSTANTS
    Writes,     \* the writes a request can make (model values)
    MaxTx,      \* how many transactions the client runs
    NoWrite     \* the write of a statement that writes nothing

VARIABLES
    link,       \* "ok", "bad" (failed) or "null" (never connected)
    srv,        \* the server's state: "idle", "intrans" or "inerror"
    inflight,   \* the call being run, the statement it sent and its write:
                \* [call, op, w], call = "none" if none
    holder,     \* the client object owning the connection: "connection",
                \* "transaction", or "moved" while begin/commit/rollback run
    tx,         \* the number of the current (or last) transaction
    pending,    \* the writes of the open transaction
    visible,    \* the writes committed on the server
    okw,        \* okw[w]: the transaction in which write w succeeded, or 0
    failed,     \* the transactions in which a request reported an error
    committing, \* the transactions whose end sent a COMMIT statement
    reported    \* the transactions whose commit reported success

vars == <<link, srv, inflight, holder, tx, pending, visible, okw, failed,
          committing, reported>>

Idle == [call |-> "none", op |-> "none", w |-> NoWrite]

-----------------------------------------------------------------------------
(***************************************************************************)
(* get_transaction_status.                                                 *)
(***************************************************************************)
\* PQtransactionStatus: UNKNOWN on a bad link, ACTIVE while a statement
\* runs, otherwise the server's transaction state.
PQtransactionStatus ==
    IF link # "ok" THEN "PQTRANS_UNKNOWN"
    ELSE IF inflight.call # "none" THEN "PQTRANS_ACTIVE"
    ELSE CASE srv = "idle"    -> "PQTRANS_IDLE"
           [] srv = "intrans" -> "PQTRANS_INTRANS"
           [] srv = "inerror" -> "PQTRANS_INERROR"

\* Confuses a failed transaction with a healthy one.
StatusOfPQSwapped(p) ==
    CASE p = "PQTRANS_UNKNOWN" -> "unknown"
      [] p = "PQTRANS_IDLE"    -> "idle"
      [] p = "PQTRANS_ACTIVE"  -> "active"
      [] p = "PQTRANS_INTRANS" -> "error"
      [] p = "PQTRANS_INERROR" -> "transaction"

\* The mapping of PGTransactionStatusType to bozo::transaction_status.
StatusOfPQ(p) ==
    CASE p = "PQTRANS_UNKNOWN" -> "unknown"
      [] p = "PQTRANS_IDLE"    -> "idle"
      [] p = "PQTRANS_ACTIVE"  -> "active"
      [] p = "PQTRANS_INTRANS" -> "transaction"
      [] p = "PQTRANS_INERROR" -> "error"

\* A null connection is "unknown" without asking libpq.
GetTransactionStatus ==
    IF link = "null" THEN "unknown" ELSE StatusOfPQ(PQtransactionStatus)

-----------------------------------------------------------------------------
(***************************************************************************)
(* The client's calls.  Each sends one statement through async_execute;    *)
(* begin, commit and rollback move the connection into the operation.      *)
(***************************************************************************)
Send(call, op, w) == inflight' = [call |-> call, op |-> op, w |-> w]

\* Runs ROLLBACK for a commit.
EndTransactionQuerySwapped(op) == IF op = "commit" THEN "rollback" ELSE op

\* The statement end_transaction runs for commit and for rollback.
EndTransactionQuery(op) == op

Begin ==
    /\ holder = "connection" /\ link = "ok" /\ inflight.call = "none"
    /\ tx < MaxTx
    /\ Send("begin", "begin", NoWrite)
    /\ holder' = "moved"
    /\ tx' = tx + 1
    /\ UNCHANGED <<link, srv, pending, visible, okw, failed, committing, reported>>

Request(w) ==
    /\ holder = "transaction" /\ link = "ok" /\ inflight.call = "none"
    /\ okw[w] = 0 /\ w \notin pending
    /\ Send("request", "write", w)
    /\ UNCHANGED <<link, srv, holder, tx, pending, visible, okw, failed, committing,
                   reported>>

End(op) ==
    /\ holder = "transaction" /\ link = "ok" /\ inflight.call = "none"
    /\ Send(op, EndTransactionQuery(op), NoWrite)
    /\ holder' = "moved"
    /\ committing' = IF EndTransactionQuery(op) = "commit" THEN committing \cup {tx}
                                                           ELSE committing
    /\ UNCHANGED <<link, srv, tx, pending, visible, okw, failed, reported>>

Commit == End("commit")
Rollback == End("rollback")

(***************************************************************************)
(* The server runs the statement and the operation's handler gets the      *)
(* result: BEGIN opens a transaction; a write succeeds or fails (and every *)
(* statement of a failed transaction fails); COMMIT applies the writes of  *)
(* a healthy transaction and rolls back a failed one, reporting success    *)
(* either way; ROLLBACK discards them.                                     *)
(***************************************************************************)
Reply ==
    /\ link = "ok" /\ inflight.call # "none"
    /\ inflight' = Idle
    /\ LET op == inflight.op IN
       CASE op = "begin" ->
              /\ srv' = "intrans" /\ holder' = "transaction"
              /\ UNCHANGED <<pending, visible, okw, failed, reported>>
         [] op = "write" ->
              \/ /\ srv = "intrans"
                 /\ pending' = pending \cup {inflight.w}
                 /\ okw' = [okw EXCEPT ![inflight.w] = tx]
                 /\ UNCHANGED <<srv, failed>>
              \/ /\ srv' = "inerror"
                 /\ failed' = failed \cup {tx}
                 /\ UNCHANGED <<pending, okw>>
              /\ UNCHANGED <<holder, visible, reported>>
         [] op \in {"commit", "rollback"} ->
              /\ visible' = IF op = "commit" /\ srv = "intrans"
                              THEN visible \cup pending ELSE visible
              /\ reported' = IF inflight.call = "commit" THEN reported \cup {tx} ELSE reported
              /\ srv' = "idle" /\ pending' = {} /\ holder' = "connection"
              /\ UNCHANGED <<okw, failed>>
    /\ UNCHANGED <<link, tx, committing>>

(***************************************************************************)
(* The link fails: the server aborts the open transaction; an operation in *)
(* flight completes with a connection error and hands the (bad) connection *)
(* back in the object it was to return.  A COMMIT in flight may already    *)
(* have been applied by the server, its reply lost with the link: commit   *)
(* then reports an error while the writes are visible (in doubt).          *)
(***************************************************************************)
\* Drops the connection of a failed operation instead of handing it back.
LinkFailsDroppingHandle ==
    /\ link = "ok"
    /\ link' = "bad"
    /\ srv' = "idle" /\ pending' = {} /\ inflight' = Idle
    /\ holder' = IF inflight.call = "none" THEN holder ELSE "none"
    /\ failed' = IF inflight.call = "request" THEN failed \cup {tx} ELSE failed
    /\ UNCHANGED <<tx, visible, okw, committing, reported>>

\* The writes visible after the link fails with the given statement in
\* flight: a COMMIT of a healthy transaction may or may not have been
\* applied.
AfterLoss ==
    IF inflight.op = "commit" /\ srv = "intrans" THEN {visible, visible \cup pending}
                                                ELSE {visible}

LinkFails ==
    /\ link = "ok"
    /\ link' = "bad"
    /\ srv' = "idle" /\ pending' = {} /\ inflight' = Idle
    /\ visible' \in AfterLoss
    /\ holder' = CASE inflight.call = "begin" -> "transaction"
                   [] inflight.call \in {"commit", "rollback"} -> "connection"
                   [] OTHER -> holder
    /\ failed' = IF inflight.call = "request" THEN failed \cup {tx} ELSE failed
    /\ UNCHANGED <<tx, okw, committing, reported>>

-----------------------------------------------------------------------------
Init ==
    /\ link \in {"ok", "null"}
    /\ srv = "idle"
    /\ inflight = Idle
    /\ holder = "connection"
    /\ tx = 0
    /\ pending = {}
    /\ visible = {}
    /\ okw = [w \in Writes |-> 0]
    /\ failed = {}
    /\ committing = {}
    /\ reported = {}

Next ==
    \/ Begin \/ Commit \/ Rollback \/ Reply \/ LinkFails
    \/ \E w \in Writes : Request(w)

Spec == Init /\ [][Next]_vars

-----------------------------------------------------------------------------
TypeOK ==
    /\ link \in {"ok", "bad", "null"}
    /\ srv \in {"idle", "intrans", "inerror"}
    /\ inflight.call \in {"none", "begin", "request", "commit", "rollback"}
    /\ inflight.op \in {"none", "begin", "write", "commit", "rollback"}
    /\ inflight.w \in Writes \cup {NoWrite}
    /\ holder \in {"connection", "transaction", "moved"}
    /\ tx \in 0..MaxTx
    /\ pending \subseteq Writes /\ visible \subseteq Writes
    /\ okw \in [Writes -> 0..MaxTx]
    /\ failed \subseteq 1..MaxTx /\ reported \subseteq 1..MaxTx
    /\ committing \subseteq 1..MaxTx

(* get_transaction_status agrees with the object the client holds: a      *)
(* connection begin has not wrapped (or commit and rollback handed back)  *)
(* is "idle", a transaction is "transaction", or "error" after a failed   *)
(* request; a statement in flight is "active"; a failed or null           *)
(* connection is "unknown" (transaction_status.cpp:25-60).                *)
StatusFaithful ==
    LET s == GetTransactionStatus IN
    /\ link # "ok" => s = "unknown"
    /\ (link = "ok" /\ inflight.call # "none") => s = "active"
    /\ (link = "ok" /\ inflight.call = "none") =>
         /\ holder = "connection" => s = "idle"
         /\ holder = "transaction" => s = IF tx \in failed THEN "error" ELSE "transaction"

(* A transaction is all or nothing (transaction_integration.cpp:18-55),  *)
(* even when the link is lost with its COMMIT in flight: the successful   *)
(* writes of one transaction are all visible or none is; a visible write  *)
(* belongs to a transaction whose end sent COMMIT and none of whose       *)
(* requests failed (rolled-back and aborted writes never are); and a      *)
(* commit that reported success is durable.  A commit that reported an    *)
(* error is in doubt: its writes may be visible.                          *)
CommitAtomic ==
    /\ \A w1, w2 \in Writes :
         (okw[w1] # 0 /\ okw[w1] = okw[w2]) => (w1 \in visible <=> w2 \in visible)
    /\ \A w \in Writes :
         /\ w \in visible => okw[w] \in committing \ failed
         /\ okw[w] \in reported \ failed => w \in visible

=============================================================================
