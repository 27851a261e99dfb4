---------------------------- MODULE PoolSemaphore ----------------------------
(***************************************************************************)
(* What the connection pool promises its requesters, with the slots, the   *)
(* links and their health left out: a counting semaphore of Capacity       *)
(* permits with a bounded FIFO queue of waiters (spec section 4.4).        *)
(*                                                                         *)
(*  - a requester is admitted at once while fewer than Capacity hold a     *)
(*    connection (or a slot being connected);                              *)
(*  - otherwise it waits, unless QueueCapacity requesters already wait, in *)
(*    which case it is refused at once;                                    *)
(*  - a holder that gives its connection back passes the permit to the     *)
(*    head of the queue, if there is one;                                  *)
(*  - a waiter may give up when its own deadline fires.                    *)
(***************************************************************************)
EXTENDS Naturals, Sequences, FiniteSets, SequencesExt

CONSTANTS Clients, Capacity, QueueCapacity

VARIABLES holders, queue

Idle(c) == c \notin holders /\ ~ \E i \in DOMAIN queue : queue[i] = c

Admit(c) ==
    /\ Idle(c)
    /\ Cardinality(holders) < Capacity
    /\ holders' = holders \cup {c}
    /\ UNCHANGED queue

Wait(c) ==
    /\ Idle(c)
    /\ Cardinality(holders) = Capacity
    /\ Len(queue) < QueueCapacity
    /\ queue' = Append(queue, c)
    /\ UNCHANGED holders

Refuse(c) ==
    /\ Idle(c)
    /\ Cardinality(holders) = Capacity
    /\ Len(queue) = QueueCapacity
    /\ UNCHANGED <<holders, queue>>

GiveBack(c) ==
    /\ c \in holders
    /\ IF queue = <<>>
         THEN /\ holders' = holders \ {c}
              /\ UNCHANGED queue
         ELSE /\ holders' = (holders \ {c}) \cup {Head(queue)}
              /\ queue' = Tail(queue)

GiveUp(c) ==
    /\ \E i \in DOMAIN queue : queue[i] = c
    /\ queue' = Remove(queue, c)
    /\ UNCHANGED holders

Init == holders = {} /\ queue = <<>>

Next == \E c \in Clients :
          Admit(c) \/ Wait(c) \/ Refuse(c) \/ GiveBack(c) \/ GiveUp(c)

Spec == Init /\ [][Next]_<<holders, queue>>
=============================================================================
