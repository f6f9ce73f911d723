------------------------------- MODULE SqlLog -------------------------------
(***************************************************************************)
(* What the asynchronous write path promises the chat: a statement that    *)
(* was accepted is not forgotten, it waits until it is stored, and nothing *)
(* is stored that was not accepted.  Storing twice is allowed: the path is *)
(* at least once.  MessageQueue implements this module.                    *)
(***************************************************************************)
CONSTANT Statements

VARIABLES accepted,    \* the broker has confirmed the statement
          waiting,     \* accepted, and still to be executed or acknowledged
          stored       \* MySQL has executed it

logVars == <<accepted, waiting, stored>>

Init ==
    /\ accepted = {}
    /\ waiting = {}
    /\ stored = {}

Accept(m) ==
    /\ m \notin accepted
    /\ accepted' = accepted \union {m}
    /\ waiting' = waiting \union {m}
    /\ UNCHANGED stored

(* A statement that still waits is executed, for the first time or again.  *)
Store(m) ==
    /\ m \in waiting
    /\ stored' = stored \union {m}
    /\ UNCHANGED <<accepted, waiting>>

(* A statement stops waiting only once it is stored. *)
Forget(m) ==
    /\ m \in stored
    /\ waiting' = waiting \ {m}
    /\ UNCHANGED <<accepted, stored>>

Next == \E m \in Statements : Accept(m) \/ Store(m) \/ Forget(m)

Spec == Init /\ [][Next]_logVars
=============================================================================
