----------------------------- MODULE MCIoThreads ----------------------------
(* TLC instances of IoThreads: two loops, the first with two connections;  *)
(* ann has a tab on each loop.                                             *)
EXTENDS IoThreads, TLC

CONSTANTS t1, t2, c1, c2, c3, ann, bob

MCLoopOf == c1 :> t1 @@ c2 :> t1 @@ c3 :> t2
MCUserOf == c1 :> ann @@ c2 :> bob @@ c3 :> ann
=============================================================================
