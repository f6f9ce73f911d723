---------------------------- MODULE MCMessageQueue --------------------------
(* TLC instances of MessageQueue. *)
EXTENDS MessageQueue, TLC

CONSTANTS p1, p2, p3

(* The first statement of p2 is rejected by MySQL. *)
OneBad == {<<p2, 1>>}
NoneBad == {}

WorkerSymmetry == Permutations(Workers)
=============================================================================
