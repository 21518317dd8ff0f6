------------------------------ MODULE MCPages -------------------------------
(* Two items.  The view lists none, one, both in either order, or one twice; *)
(* the collection and the page of i1 are asked for; all three attempts of a  *)
(* query are made.                                                           *)
EXTENDS Pages

CONSTANTS i1, i2

MCTable == {<<>>, <<i1>>, <<i1, i2>>, <<i2, i1>>, <<i1, i1>>}
=============================================================================
