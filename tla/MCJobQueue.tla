----------------------------- MODULE MCJobQueue -----------------------------
(* Three jobs, two threads that call add() and stop(): two pushes meet in   *)
(* one batch, a third arrives while the batch is executed, and stop() finds *)
(* the runner in each of its states.                                        *)
EXTENDS JobQueue, TLC
=============================================================================
