-------------------------- MODULE MCConnectionPool --------------------------
(***************************************************************************)
(* Two slots, a queue of two and five requesters: enough for every slot to *)
(* be in use while two requesters wait and a fifth is refused, for a bad  *)
(* link to be re-established for a waiter, and for a hand-over to skip     *)
(* past a waiter that timed out.                                           *)
(***************************************************************************)
EXTENDS ConnectionPool

CONSTANTS c1, c2, c3, c4, c5

MCClients == {c1, c2, c3, c4, c5}
=============================================================================
