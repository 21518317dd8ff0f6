---------------------------- MODULE MCQueryPool -----------------------------
(* A transaction of two queries and a lone query on two threads, which are  *)
(* started and terminated.                                                  *)
EXTENDS QueryPool
CONSTANTS q1, q2, q3
MCBatch == {<<q1, q2>>, <<q3>>}
=============================================================================
