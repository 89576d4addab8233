-------------------------------- MODULE AStar --------------------------------
(***************************************************************************)
(* Pathfinder::astar and reconstruct_path: one call, on any grid of the    *)
(* given size.  The queue holds nodes <<f, p>>; it never holds two equal   *)
(* ones, since a point is pushed again only with a lower cost.  Which of   *)
(* the nodes of least f is popped is left open.                            *)
(***************************************************************************)
EXTENDS Grid, Sequences

CONSTANT Searches   \* the pairs <<start, end>> to search, outside points included

ASSUME SearchesAssumption == Searches \subseteq (Int \X Int) \X (Int \X Int)

VARIABLES
  blocked,   \* the blocked cells
  start, end,
  open,      \* the priority queue
  closed,    \* the points expanded
  parents,   \* where the best way found so far to a point comes from
  g,         \* the cost of that way
  phase,     \* "search", "walk" (reconstruct_path), "found", "none"
  path       \* the path as far as it has been walked back

vars == <<blocked, start, end, open, closed, parents, g, phase, path>>

\* Points the search may step on from p.
Steps(p) == Adjacents(p) \ blocked

TypeOK ==
  /\ blocked \in SUBSET Cells
  /\ <<start, end>> \in Searches
  /\ open \in SUBSET (Nat \X Cells)
  /\ closed \in SUBSET Cells
  /\ DOMAIN parents \in SUBSET Cells /\ \A p \in DOMAIN parents : parents[p] \in Cells
  /\ DOMAIN g \in SUBSET Cells /\ \A p \in DOMAIN g : g[p] \in Nat
  /\ phase \in {"search", "walk", "found", "none"}
  /\ path \in Seq(Cells)

Init ==
  /\ blocked \in Grids
  /\ \E s \in Searches : start = s[1] /\ end = s[2]
  /\ closed = {}
  /\ parents = [p \in {} |-> start]
  /\ path = <<>>
  /\ IF start \in Cells /\ end \in Cells
       THEN phase = "search" /\ open = {<<0, start>>} /\ g = [p \in {start} |-> 0]
       ELSE phase = "none" /\ open = {} /\ g = [p \in {} |-> 0]
-----------------------------------------------------------------------------
\* The cost of reaching q by way of p.
CostBy(p, q) == g[p] + ManhattanDistance(p, q)

\* Mutant: the first way found to a point is kept.
BetterOnce(p) == {q \in Steps(p) \ (closed \cup {p}) : q \notin DOMAIN g}

\* Mutant: walls are stepped on.
BetterThroughWalls(p) ==
  {q \in Adjacents(p) \ (closed \cup {p}) : q \in DOMAIN g => CostBy(p, q) < g[q]}

\* The points to which a way through p is the best one so far.
Better(p) ==
  {q \in Steps(p) \ (closed \cup {p}) : q \in DOMAIN g => CostBy(p, q) < g[q]}

Least(n) == n \in open /\ \A m \in open : n[1] <= m[1]

\* The end is popped.
Arrive ==
  /\ phase = "search"
  /\ \E n \in open :
       /\ Least(n)
       /\ n[2] = end
       /\ open' = open \ {n}
       /\ closed' = closed \cup {end}
  /\ phase' = "walk"
  /\ path' = <<end>>
  /\ UNCHANGED <<blocked, start, end, parents, g>>

\* Another point is popped, and its neighbours looked at.
Expand ==
  /\ phase = "search"
  /\ \E n \in open :
       LET p == n[2] IN
       /\ Least(n)
       /\ p # end
       /\ closed' = closed \cup {p}
       /\ parents' = [q \in DOMAIN parents \cup Better(p) |->
                         IF q \in Better(p) THEN p ELSE parents[q]]
       /\ g' = [q \in DOMAIN g \cup Better(p) |->
                   IF q \in Better(p) THEN CostBy(p, q) ELSE g[q]]
       /\ open' = (open \ {n}) \cup
                    {<<CostBy(p, q) + ManhattanDistance(q, end), q>> : q \in Better(p)}
  /\ UNCHANGED <<blocked, start, end, phase, path>>

\* Mutant: the search ends only when it has been everywhere.
GiveUpWhenAllSeen ==
  /\ phase = "search"
  /\ open = {}
  /\ closed = Cells
  /\ phase' = "none"
  /\ UNCHANGED <<blocked, start, end, open, closed, parents, g, path>>

\* Nothing is left to expand.
GiveUp ==
  /\ phase = "search"
  /\ open = {}
  /\ phase' = "none"
  /\ UNCHANGED <<blocked, start, end, open, closed, parents, g, path>>

\* reconstruct_path: one more parent.
Walk ==
  /\ phase = "walk"
  /\ Head(path) \in DOMAIN parents
  /\ path' = <<parents[Head(path)]>> \o path
  /\ UNCHANGED <<blocked, start, end, open, closed, parents, g, phase>>

\* reconstruct_path: a point without a parent begins the path.
Return ==
  /\ phase = "walk"
  /\ Head(path) \notin DOMAIN parents
  /\ phase' = "found"
  /\ UNCHANGED <<blocked, start, end, open, closed, parents, g, path>>

Next == Arrive \/ Expand \/ GiveUp \/ Walk \/ Return

Spec == Init /\ [][Next]_vars
-----------------------------------------------------------------------------
\* A path from start to end, in steps between free neighbours; only the start
\* may be blocked.
IsPath(s) ==
  /\ s # <<>> /\ s[1] = start /\ s[Len(s)] = end
  /\ \A i \in 1..(Len(s) - 1) : s[i + 1] \in Neighbours(s[i]) \ blocked

\* What is found is a path, and visits no point twice, although the parents of
\* points change while the search goes on.
FoundIsPath ==
  phase = "found" =>
    IsPath(path) /\ \A i, j \in 1..Len(path) : path[i] = path[j] => i = j

\* Nothing is found only when the end cannot be reached: what can be reached
\* from an expanded point has been expanded, and the end has not.
NoneMeansUnreachable ==
  phase = "none" /\ start \in Cells /\ end \in Cells =>
    /\ start \in closed /\ end \notin closed
    /\ \A p \in closed : Neighbours(p) \subseteq closed \cup blocked

\* The points that can be reached from start at a cost of at most n: a step to
\* a side costs one, a diagonal step two.
Within ==
  LET R[n \in Nat] ==
        IF n = 0 THEN {start}
        ELSE LET one == R[n - 1]
                 two == IF n = 1 THEN {} ELSE R[n - 2]
             IN one \cup {q \in Cells \ blocked :
                  \/ \E p \in one : q \in Neighbours(p) /\ ManhattanDistance(p, q) = 1
                  \/ \E p \in two : q \in Neighbours(p)}
  IN R

\* No path costs less than the one found: a point is never closed too early,
\* although its cost is not lowered afterwards.
FoundIsShortest ==
  phase = "found" =>
    /\ end \in Within[g[end]]
    /\ g[end] > 0 => end \notin Within[g[end] - 1]
=============================================================================
