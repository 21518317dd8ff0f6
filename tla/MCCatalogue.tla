----------------------------- MODULE MCCatalogue ----------------------------
(* Three scripts, two of them at a time, on up to two rows of two items with *)
(* up to two photos each: two can meet on one item and a third come after,   *)
(* or one can die half-way and two follow.                                   *)
EXTENDS Catalogue, TLC

\* Terminals and items are named in no definition but to be compared.
Symmetry == Permutations(Script) \cup Permutations(Item)
=============================================================================
