----------------------------- MODULE MCManager ------------------------------
(* One request connection and the management one, each with at most one     *)
(* unread chunk, and a call of stop() or terminate().                       *)
EXTENDS Manager
=============================================================================
