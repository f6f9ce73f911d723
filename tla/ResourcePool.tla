---------------------------- MODULE ResourcePool ----------------------------
(***************************************************************************)
(* What a pool of interchangeable resources promises its clients, with no  *)
(* mutex, no condition variable, no health checks and no queue: once       *)
(* opened it owns Capacity permits, a client holds at most one, a permit   *)
(* is taken only when one is free, and a permit given back is free again.  *)
(* DbConnectionPool implements this module (DbConnectionPool!PoolSpec).    *)
(***************************************************************************)
EXTENDS Naturals

CONSTANTS Clients,     \* the threads that may ask for a permit
          Capacity     \* the number of permits the pool owns once opened

VARIABLES opened,      \* the pool has been filled
          free,        \* permits nobody holds
          holders      \* clients that hold a permit

poolVars == <<opened, free, holders>>

Init ==
    /\ opened = FALSE
    /\ free = 0
    /\ holders = {}

(* The pool is filled, once. *)
Open ==
    /\ ~opened
    /\ opened' = TRUE
    /\ free' = Capacity
    /\ UNCHANGED holders

(* A client without a permit takes a free one. *)
Take(t) ==
    /\ free > 0
    /\ t \notin holders
    /\ free' = free - 1
    /\ holders' = holders \union {t}
    /\ UNCHANGED opened

(* A client gives its permit back. *)
Give(t) ==
    /\ t \in holders
    /\ free' = free + 1
    /\ holders' = holders \ {t}
    /\ UNCHANGED opened

Next ==
    \/ Open
    \/ \E t \in Clients : Take(t) \/ Give(t)

Spec == Init /\ [][Next]_poolVars
=============================================================================
