---------------------------- MODULE MCPathfinder ----------------------------
(* Pathfinder on every grid of a size small enough for TLC.                *)
EXTENDS Pathfinder

AllGrids == SUBSET Cells

\* From a corner, a side and a point outside to a side and an inner point.
MCSearches == {<<<<2, 3>>, <<1, 0>>>>, <<<<0, 1>>, <<2, 2>>>>, <<<<3, 1>>, <<1, 0>>>>}
=============================================================================
