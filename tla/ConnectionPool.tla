--------------------------- MODULE ConnectionPool ---------------------------
(***************************************************************************)
(* The connection pool of spec section 4.4 (the pool's source is not part  *)
(* of this repository: every definition here is taken from the spec and    *)
(* from tests/integration/connection_pool_integration.cpp).                *)
(*                                                                         *)
(* Capacity slots are pre-sized at construction; a slot's link is          *)
(* established lazily on demand and re-established after a failure.       *)
(* Requesters that find every slot in use wait in a FIFO queue of at most  *)
(* QueueCapacity entries; beyond that they are refused at once.            *)
(*                                                                         *)
(* Each pool operation is one atomic step: in thread-safe mode the pool    *)
(* state is mutated under its lock, in single-threaded mode from a single  *)
(* execution context.  Connecting a slot and using a connection are I/O    *)
(* and happen between pool steps, interleaved with everyone else's.        *)
(***************************************************************************)
EXTENDS Naturals, Sequences, FiniteSets, SequencesExt

CONSTANTS
    Clients,        \* requesters, each on its own execution context
    Capacity,       \* connection_pool_config::capacity
    QueueCapacity,  \* connection_pool_config::queue_capacity
    None            \* "holds no connection"

ASSUME Capacity \in Nat \ {0} /\ QueueCapacity \in Nat /\ None \notin Clients

Slots == 1..Capacity

VARIABLES
    slot,     \* slot[s]: "empty" (no link), "connecting", "free" or "busy"
    healthy,  \* healthy[s]: the slot's link is usable (PQstatus is OK)
    conn,     \* conn[c]: the slot whose connection requester c holds, or None
    queue     \* the waiting requesters in arrival order

vars == <<slot, healthy, conn, queue>>

Holding(c) == conn[c] # None
Waiting(c) == \E i \in DOMAIN queue : queue[i] = c
Idle(c)    == ~Holding(c) /\ ~Waiting(c)

FreeSlots  == {s \in Slots : slot[s] = "free"}
EmptySlots == {s \in Slots : slot[s] = "empty"}

-----------------------------------------------------------------------------
(***************************************************************************)
(* Faulty variants of the operations below, each a plausible slip in a     *)
(* pool implementation; the properties at the end must reject every one.   *)
(***************************************************************************)

\* Queues a requester when no idle link exists, forgetting unconnected slots.
EnqueueIgnoringEmptySlots(c) ==
    /\ Idle(c)
    /\ FreeSlots = {}
    /\ Len(queue) < QueueCapacity
    /\ queue' = Append(queue, c)
    /\ UNCHANGED <<slot, healthy, conn>>

\* Off by one in the queue bound.
EnqueueOffByOne(c) ==
    /\ Idle(c)
    /\ FreeSlots = {} /\ EmptySlots = {}
    /\ Len(queue) <= QueueCapacity
    /\ queue' = Append(queue, c)
    /\ UNCHANGED <<slot, healthy, conn>>

\* Hands a healthy link to the newest waiter instead of the oldest.
ReleaseHealthyLifo(c, s) ==
    IF queue = <<>>
      THEN /\ slot' = [slot EXCEPT ![s] = "free"]
           /\ conn' = [conn EXCEPT ![c] = None]
           /\ UNCHANGED queue
      ELSE LET w == queue[Len(queue)] IN
           /\ conn' = [conn EXCEPT ![c] = None, ![w] = s]
           /\ queue' = SubSeq(queue, 1, Len(queue) - 1)
           /\ UNCHANGED slot

\* Hands the link to the head of the queue but leaves the releaser's handle
\* pointing at it too.
ReleaseHealthyKeepsHandle(c, s) ==
    IF queue = <<>>
      THEN /\ slot' = [slot EXCEPT ![s] = "free"]
           /\ conn' = [conn EXCEPT ![c] = None]
           /\ UNCHANGED queue
      ELSE /\ conn' = [conn EXCEPT ![Head(queue)] = s]
           /\ queue' = Tail(queue)
           /\ UNCHANGED slot

\* Discards a bad link and leaves its slot empty "for the next demand",
\* without serving the requesters already waiting.
ReleaseBadForgetsWaiters(c, s) ==
    /\ slot' = [slot EXCEPT ![s] = "empty"]
    /\ conn' = [conn EXCEPT ![c] = None]
    /\ UNCHANGED queue

-----------------------------------------------------------------------------
(***************************************************************************)
(* get_connection on the pool: recycle an idle link, else establish one on *)
(* an empty slot, else wait, else fail with resource exhaustion.           *)
(***************************************************************************)
Recycle(c) ==
    /\ Idle(c)
    /\ \E s \in FreeSlots :
         /\ slot' = [slot EXCEPT ![s] = "busy"]
         /\ conn' = [conn EXCEPT ![c] = s]
    /\ UNCHANGED <<healthy, queue>>

Establish(c) ==
    /\ Idle(c)
    /\ FreeSlots = {}
    /\ \E s \in EmptySlots :
         /\ slot' = [slot EXCEPT ![s] = "connecting"]
         /\ conn' = [conn EXCEPT ![c] = s]
    /\ UNCHANGED <<healthy, queue>>

Enqueue(c) ==
    /\ Idle(c)
    /\ FreeSlots = {} /\ EmptySlots = {}
    /\ Len(queue) < QueueCapacity
    /\ queue' = Append(queue, c)
    /\ UNCHANGED <<slot, healthy, conn>>

Exhausted(c) ==
    /\ Idle(c)
    /\ FreeSlots = {} /\ EmptySlots = {}
    /\ Len(queue) >= QueueCapacity
    /\ UNCHANGED <<slot, healthy, conn, queue>>

GetConnection(c) == Recycle(c) \/ Establish(c) \/ Enqueue(c) \/ Exhausted(c)

(***************************************************************************)
(* The link of a connecting slot comes up, or fails (or its connect        *)
(* deadline fires): either way the requester is handed the connection, a   *)
(* bad one on failure, and the slot is in use until it is given back.      *)
(***************************************************************************)
Connected(c) ==
    /\ Holding(c) /\ slot[conn[c]] = "connecting"
    /\ slot' = [slot EXCEPT ![conn[c]] = "busy"]
    /\ healthy' = [healthy EXCEPT ![conn[c]] = TRUE]
    /\ UNCHANGED <<conn, queue>>

ConnectFailed(c) ==
    /\ Holding(c) /\ slot[conn[c]] = "connecting"
    /\ slot' = [slot EXCEPT ![conn[c]] = "busy"]
    /\ healthy' = [healthy EXCEPT ![conn[c]] = FALSE]
    /\ UNCHANGED <<conn, queue>>

(***************************************************************************)
(* An established link goes bad: a request on it fails with an I/O error   *)
(* or its deadline fires (the connection is then marked bad), or the       *)
(* server drops an idle link, which the pool's cheap check does not see.   *)
(***************************************************************************)
LinkBreaks(s) ==
    /\ slot[s] \in {"free", "busy"}
    /\ healthy[s]
    /\ healthy' = [healthy EXCEPT ![s] = FALSE]
    /\ UNCHANGED <<slot, conn, queue>>

(***************************************************************************)
(* The holder gives its connection back.  A healthy link goes to the head  *)
(* of the queue, or to the free list; a bad one is discarded and, if       *)
(* someone waits, its slot is re-established for the head of the queue.    *)
(***************************************************************************)
ReleaseHealthy(c, s) ==
    IF queue = <<>>
      THEN /\ slot' = [slot EXCEPT ![s] = "free"]
           /\ conn' = [conn EXCEPT ![c] = None]
           /\ UNCHANGED queue
      ELSE /\ conn' = [conn EXCEPT ![c] = None, ![Head(queue)] = s]
           /\ queue' = Tail(queue)
           /\ UNCHANGED slot

ReleaseBad(c, s) ==
    IF queue = <<>>
      THEN /\ slot' = [slot EXCEPT ![s] = "empty"]
           /\ conn' = [conn EXCEPT ![c] = None]
           /\ UNCHANGED queue
      ELSE /\ slot' = [slot EXCEPT ![s] = "connecting"]
           /\ conn' = [conn EXCEPT ![c] = None, ![Head(queue)] = s]
           /\ queue' = Tail(queue)
           
Release(c) ==
    /\ Holding(c) /\ slot[conn[c]] = "busy"
    /\ IF healthy[conn[c]] THEN ReleaseHealthy(c, conn[c])
                           ELSE ReleaseBad(c, conn[c])
    /\ UNCHANGED healthy

\* A waiter's own deadline fires before it is served.
Timeout(c) ==
    /\ Waiting(c)
    /\ queue' = Remove(queue, c)
    /\ UNCHANGED <<slot, healthy, conn>>

-----------------------------------------------------------------------------
Init ==
    /\ slot = [s \in Slots |-> "empty"]
    /\ healthy = [s \in Slots |-> FALSE]
    /\ conn = [c \in Clients |-> None]
    /\ queue = <<>>

Next ==
    \/ \E c \in Clients :
          \/ GetConnection(c)
          \/ Connected(c) \/ ConnectFailed(c)
          \/ Release(c)
          \/ Timeout(c)
    \/ \E s \in Slots : LinkBreaks(s)

(***************************************************************************)
(* A requester holding a connection eventually gives it back (every        *)
(* request ends, at the latest at its deadline, and dropping the handle    *)
(* returns it), and a connect attempt eventually ends.  Nobody is obliged  *)
(* to ask for a connection, and a waiter's deadline may be none.           *)
(***************************************************************************)
Fairness ==
    \A c \in Clients :
        /\ WF_vars(Release(c))
        /\ WF_vars(Connected(c) \/ ConnectFailed(c))

Spec == Init /\ [][Next]_vars /\ Fairness

-----------------------------------------------------------------------------
TypeOK ==
    /\ slot \in [Slots -> {"empty", "connecting", "free", "busy"}]
    /\ healthy \in [Slots -> BOOLEAN]
    /\ conn \in [Clients -> Slots \cup {None}]
    /\ queue \in Seq(Clients) /\ Len(queue) <= QueueCapacity

(* Every slot that is being connected or is in use has exactly one holder, *)
(* and no other slot has any; a requester never waits while it holds a     *)
(* connection, nor waits twice.  A hand-over on release that leaves the    *)
(* old handle pointing at the link would share one connection between two  *)
(* requests.                                                               *)
SlotOwnership ==
    /\ \A s \in Slots :
         Cardinality({c \in Clients : conn[c] = s})
            = IF slot[s] \in {"busy", "connecting"} THEN 1 ELSE 0
    /\ \A c \in Clients : ~(Holding(c) /\ Waiting(c))
    /\ IsInjective(queue)

(* No lost wake-up: while anyone waits, every slot is in use or being      *)
(* connected for someone.  A release (of a healthy or of a bad link) that  *)
(* does not serve the queue leaves waiters behind idle capacity.           *)
NoIdleCapacityWhileWaiting ==
    queue # <<>> => \A s \in Slots : slot[s] \in {"busy", "connecting"}

(* Waiters are served strictly in arrival order: whoever obtains a         *)
(* connection while the queue is not empty is its head.                    *)
FifoHandOut ==
    [][\A c \in Clients :
         (~Holding(c) /\ Holding(c)' /\ queue # <<>>) => c = Head(queue)]_vars

(* A waiter is never stranded: it leaves the queue, by being served,       *)
(* without relying on its own deadline to fire.                            *)
WaiterServed == \A c \in Clients : Waiting(c) ~> ~Waiting(c)

(* The slot machinery implements the FIFO semaphore of PoolSemaphore: the  *)
(* requesters holding (or connecting) a slot are the semaphore's holders.  *)
Semaphore == INSTANCE PoolSemaphore
                 WITH holders <- {c \in Clients : conn[c] # None}

RefinesSemaphore == Semaphore!Spec
=============================================================================
