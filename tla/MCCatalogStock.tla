---------------------------- MODULE MCCatalogStock ----------------------------
(***************************************************************************)
(* Two sessions that work on two locations with reservations preferring    *)
(* the one with the larger id, so that the order of priority and the order *)
(* of ids differ.                                                          *)
(***************************************************************************)
EXTENDS CatalogStock

SomePlaces == {1, 2}
LargerFirst == <<2, 1>>
\* A unit to spare at each; a reservation of a unit at each, with one more
\* at the second; everything reserved at the second, nothing at the first.
SomeOpenings ==
    {<<<<0, 0>>, <<1, 1>>>>, <<<<1, 1>>, <<0, 1>>>>, <<<<0, 1>>, <<0, 0>>>>}
=============================================================================
