-------------------------------- MODULE Grid --------------------------------
(***************************************************************************)
(* Grid and Point: the cells of a zone, which of them are blocked, and the *)
(* steps between neighbouring cells.                                       *)
(***************************************************************************)
EXTENDS Integers

CONSTANTS
  Rows, Cols,
  SizeLimit,    \* one more than the largest size_t
  Grids         \* the sets of blocked cells to look at

\* The points that are inside the grid, <<row, column>>.
Cells == (0..(Rows - 1)) \X (0..(Cols - 1))

ASSUME GridAssumption ==
  /\ SizeLimit \in Nat /\ Rows \in 0..(SizeLimit - 1) /\ Cols \in 0..(SizeLimit - 1)
  /\ Grids \subseteq SUBSET Cells

Distance(x, y) == IF x < y THEN y - x ELSE x - y

ManhattanDistance(p, q) == Distance(p[1], q[1]) + Distance(p[2], q[2])

\* The neighbours of a point, diagonal ones included; none of a point outside.
Neighbours(p) ==
  IF p \in Cells
    THEN {q \in Cells \ {p} : Distance(p[1], q[1]) <= 1 /\ Distance(p[2], q[2]) <= 1}
    ELSE {}

\* Arithmetic on size_t wraps round.
Unsigned(n) == n % SizeLimit

\* The ways from i, out of n rows or columns, that the comparisons allow.
Turns(i, n) == {d \in -1..1 : (d = 1 => i < Unsigned(n - 1)) /\ (d = -1 => i >= 1)}

\* Mutant: the last row and column are not reached.
AdjacentsShort(p) ==
  IF p \in Cells
    THEN {<<p[1] + i, p[2] + j>> : i \in Turns(p[1], Rows - 1), j \in Turns(p[2], Cols - 1)} \ {p}
    ELSE {}

\* The neighbours as get_8way_adjacents makes them.
Adjacents(p) ==
  IF p \in Cells
    THEN {<<p[1] + i, p[2] + j>> : i \in Turns(p[1], Rows), j \in Turns(p[2], Cols)} \ {p}
    ELSE {}
=============================================================================
