------------------------------ MODULE JumpPoint ------------------------------
(***************************************************************************)
(* Pathfinder::jps and reconstruct_path: one call, on any grid of the      *)
(* given size.  A step pops a node and probes from it in all directions.   *)
(* The probes of one step never look at the same cell, so their order does *)
(* not matter, and a probe never looks at what others have written: which  *)
(* cells it looks at depends on the grid and the end alone.                *)
(***************************************************************************)
EXTENDS Grid, Bags

CONSTANT Searches   \* the pairs <<start, end>> to search

VARIABLES
  blocked, start, end,
  open,      \* the priority queue, a bag of nodes <<f, p>>
  closed,    \* the points jumped from or passed by a probe
  parents,   \* the point from which a probe came
  phase,     \* "search", "walk" (reconstruct_path), "found", "none"
  current    \* where reconstruct_path is

vars == <<blocked, start, end, open, closed, parents, phase, current>>

TypeOK ==
  /\ blocked \in SUBSET Cells
  /\ <<start, end>> \in Searches
  /\ IsABag(open) /\ BagToSet(open) \subseteq Nat \X (Cells \cup {start})
  /\ closed \subseteq Cells \cup {start}
  /\ DOMAIN parents \subseteq Cells \ blocked
  /\ \A p \in DOMAIN parents : parents[p] \in Cells
  /\ phase \in {"search", "walk", "found", "none"}
  /\ current \in Cells \cup {end}

Init ==
  /\ blocked \in Grids
  /\ \E s \in Searches : start = s[1] /\ end = s[2]
  /\ open = SetToBag({<<0, start>>})
  /\ closed = {}
  /\ parents = [p \in {} |-> start]
  /\ phase = "search"
  /\ current = end
-----------------------------------------------------------------------------
\* The point k steps from p in direction d.
Ahead(p, d, k) == <<p[1] + k * d[1], p[2] + k * d[2]>>

Free(p) == p \in Cells \ blocked

\* has_forced_neighbor
Forced(block, d) == block \in blocked /\ Free(Ahead(block, d, 1))

\* The points a probe from p looks at, when it stops at those in stops: the
\* free ones in direction d up to a stop.
Passed(p, d, stops) ==
  {Ahead(p, d, k) : k \in {k \in 0..(Rows + Cols) :
     /\ \A j \in 0..k : Free(Ahead(p, d, j))
     /\ \A j \in 0..(k - 1) : Ahead(p, d, j) \notin stops}}

\* Where a probe along a row or a column stops.
StopsStraight(q, d) ==
  \/ q = end
  \/ \E side \in {-1, 1} : Forced(<<q[1] + side * d[2], q[2] + side * d[1]>>, d)

Straight(p, d) == Passed(p, d, {q \in Cells : StopsStraight(q, d)})

FindsStraight(p, d) == \E q \in Straight(p, d) : StopsStraight(q, d)

\* A diagonal probe at a point that is not the end and has no forced neighbour
\* probes along the column and the row from there.
Branches(q, d) ==
  /\ q # end
  /\ ~Forced(<<q[1], q[2] - d[2]>>, <<d[1], 0>>)
  /\ ~Forced(<<q[1] - d[1], q[2]>>, <<0, d[2]>>)

\* Mutant: the probes to the sides start at the point itself.
SidesFromHere(q, d) == {<<q, s>> : s \in {<<d[1], 0>>, <<0, d[2]>>}}

Sides(q, d) == {<<Ahead(q, s, 1), s>> : s \in {<<d[1], 0>>, <<0, d[2]>>}}

StopsDiagonal(q, d) ==
  Branches(q, d) => \E s \in Sides(q, d) : FindsStraight(s[1], s[2])

Diagonal(p, d) == Passed(p, d, {q \in Cells : StopsDiagonal(q, d)})

\* What a probe looks at: points, and the direction of the probe there.
Looks(p, d) ==
  IF d[1] * d[2] = 0
    THEN Straight(p, d) \X {d}
    ELSE (Diagonal(p, d) \X {d}) \cup
           UNION {Straight(s[1], s[2]) \X {s[2]} :
                    s \in UNION {Sides(q, d) : q \in {q \in Diagonal(p, d) : Branches(q, d)}}}

Stops(q, d) == IF d[1] * d[2] = 0 THEN StopsStraight(q, d) ELSE StopsDiagonal(q, d)

\* All that is looked at from p: neighbours that are closed are left out.
Probed(p) ==
  UNION {Looks(q, <<q[1] - p[1], q[2] - p[2]>>) :
           q \in Adjacents(p) \ (closed \cup blocked \cup {p})}

\* Mutant: the parent is the point jumped from.
CameFromCentre(p, l) == p

\* The parent that is written for a point looked at from p.
CameFrom(p, l) == Ahead(l[1], l[2], -1)

Least(n) == BagIn(n, open) /\ \A m \in BagToSet(open) : n[1] <= m[1]

\* A point is popped and jumped from.  The search ends when a probe saw the end.
Jump ==
  /\ phase = "search"
  /\ \E n \in BagToSet(open) :
       LET p == n[2]
           looks == Probed(p)
           halts == {l \in looks : Stops(l[1], l[2])}
           seen == {l[1] : l \in looks}
       IN
       /\ Least(n)
       /\ open' = (open (-) SetToBag({n})) (+)
                    SetToBag({<<ManhattanDistance(l[1], end), l[1]>> :
                                l \in {l \in halts : l[1] # end}})
       /\ closed' = closed \cup {p} \cup {l[1] : l \in looks \ halts}
       /\ parents' = [q \in DOMAIN parents \cup seen |->
                        IF q \in seen
                          THEN CameFrom(p, CHOOSE l \in looks : l[1] = q)
                          ELSE parents[q]]
       /\ phase' = IF end \in DOMAIN parents' THEN "walk" ELSE "search"
  /\ UNCHANGED <<blocked, start, end, current>>

\* Nothing is left to jump from.
GiveUp ==
  /\ phase = "search"
  /\ open = EmptyBag
  /\ phase' = "none"
  /\ UNCHANGED <<blocked, start, end, open, closed, parents, current>>

\* reconstruct_path: one more parent.
Walk ==
  /\ phase = "walk"
  /\ current \in DOMAIN parents
  /\ current' = parents[current]
  /\ UNCHANGED <<blocked, start, end, open, closed, parents, phase>>

\* reconstruct_path: a point without a parent begins the path.
Return ==
  /\ phase = "walk"
  /\ current \notin DOMAIN parents
  /\ phase' = "found"
  /\ UNCHANGED <<blocked, start, end, open, closed, parents, current>>

Next == Jump \/ GiveUp \/ Walk \/ Return

Spec == Init /\ [][Next]_vars

FairSpec == Spec /\ WF_vars(Next)
-----------------------------------------------------------------------------
\* The points that can be reached from start in at most n steps.
ReachedIn ==
  LET R[n \in Nat] ==
        IF n = 0 THEN {start}
        ELSE LET near == R[n - 1]
             IN near \cup {q \in Cells \ blocked : \E p \in near : q \in Neighbours(p)}
  IN R

Reachable == end \in ReachedIn[Rows * Cols]

\* What is found begins at the start and goes in steps between free neighbours,
\* although the parents of points are overwritten by later jumps.
FoundIsPath ==
  phase = "found" =>
    /\ current = start
    /\ \A p \in DOMAIN parents : p \in Neighbours(parents[p]) \ blocked

\* path_finder.test.cpp:7, "Pathfinder returns the path": nothing is found only
\* when there is none.  Probes close the points they pass over, and a jump sends
\* no probe to a closed neighbour.
FindsPaths == phase = "none" /\ start # end => ~Reachable

\* No point is looked at twice, or in two directions, by one jump: which parent
\* it gets does not depend on the order of the probes.
ProbesAreDisjoint ==
  phase = "search" =>
    \A n \in BagToSet(open) : \A l, m \in Probed(n[2]) : l[1] = m[1] => l = m

\* path_finder.test.cpp:7, "Pathfinder returns the path": a call returns.
Returns == <>(phase \in {"found", "none"})
=============================================================================
