------------------------ MODULE MCDbConnectionPool --------------------------
(* TLC instances of DbConnectionPool.  Threads and connection objects are  *)
(* model values; no symmetry, because the run checks liveness too.         *)
EXTENDS DbConnectionPool
=============================================================================
