------------------------------ MODULE MCServer ------------------------------
(* Two slots and two requests, the first of which may go wrong: the second  *)
(* runs beside it, or after it in the same slot.                            *)
EXTENDS Server
=============================================================================
