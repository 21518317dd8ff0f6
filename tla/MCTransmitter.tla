--------------------------- MODULE MCTransmitter ----------------------------
(* Two connections, one request at a time on each, and a chunk of 512       *)
(* bytes: an output of 20 bytes leaves its chunk in use, one of 700 takes   *)
(* two records and uses one up, and three writes cut short leave output in  *)
(* three chunks.                                                            *)
EXTENDS Transmitter
=============================================================================
