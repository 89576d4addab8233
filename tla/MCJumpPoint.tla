----------------------------- MODULE MCJumpPoint -----------------------------
(* JumpPoint on grids where it does not do what it should.                 *)
EXTENDS JumpPoint

AllGrids == SUBSET Cells

\* One search is enough to find parents that lead round in a circle.
OneSearch == {<<<<2, 3>>, <<1, 0>>>>}

\* A wall with a way past its end: the search passes the opening and does not
\* look through it.
Wall == {<<0, 1>>, <<2, 4>>, <<3, 4>>, <<4, 3>>, <<4, 4>>, <<5, 4>>}
OneWall == {Wall}
AroundTheWall == {<<<<1, 0>>, <<4, 5>>>>}
=============================================================================
