-------------------------- MODULE PathfinderProofs --------------------------
(***************************************************************************)
(* For a grid of any size: what astar finds is a path without repetitions, *)
(* none costs less, and when it finds nothing the end cannot be reached;   *)
(* what jps finds is a path, and its probes never see the same point.      *)
(*                                                                         *)
(* The parents are overwritten while the search goes on, so a path is not  *)
(* built step by step.  With astar the costs keep the parents sound: the   *)
(* cost of a point is above that of its parent, whatever is overwritten.   *)
(* With jps the parents may lead round in a circle, but nowhere else.      *)
(***************************************************************************)
EXTENDS Pathfinder, TLAPS, SequenceTheorems, WellFoundedInduction

Inside == start \in Cells /\ end \in Cells

Queued == {n[2] : n \in open}

\* The points reached are the start and those that have a parent.
Rooted ==
  /\ DOMAIN g = DOMAIN parents \cup {start}
  /\ start \notin DOMAIN parents
  /\ g[start] = 0

\* A point is a step away from its parent, and costs more.
Descends ==
  \A q \in DOMAIN parents :
    /\ parents[q] \in DOMAIN g
    /\ q \in Steps(parents[q])
    /\ g[parents[q]] < g[q]

\* The points reached are those expanded and those queued, and the steps from
\* an expanded point reach no other.
Frontier ==
  /\ closed \cup Queued = DOMAIN g
  /\ \A p \in closed \ {end} : Steps(p) \subseteq DOMAIN g
  /\ phase \in {"search", "none"} => end \notin closed
  /\ phase = "none" => open = {}

\* The part of the path walked back so far.
Trail ==
  phase \in {"walk", "found"} =>
    /\ path # <<>> /\ path[Len(path)] = end
    /\ \A i \in 1..Len(path) : path[i] \in DOMAIN g
    /\ \A i \in 1..(Len(path) - 1) : path[i + 1] \in Steps(path[i])
    /\ \A i, j \in 1..Len(path) : i < j => g[path[i]] < g[path[j]]
    /\ phase = "found" => path[1] = start

SearchInv ==
  /\ TypeOK
  /\ ~Inside => phase = "none"
  /\ Inside => Rooted /\ Descends /\ Frontier /\ Trail

-----------------------------------------------------------------------------
\* Induction over natural numbers, by the least counterexample, and functions
\* that are defined by recursion.

\* A set of natural numbers that is not empty has a least element.
LEMMA LeastOf ==
  ASSUME NEW S \in SUBSET Nat, S # {}
  PROVE  \E n \in S : \A m \in S : n <= m
<1> DEFINE R == OpToRel(<, Nat)
<1>1. IsWellFoundedOn(R, Nat)
  BY NatLessThanWellFounded
<1>2. \A x, y \in Nat : x < y => <<x, y>> \in R
  BY DEF OpToRel
<1> HIDE DEF R
<1>3. PICK x \in S : \A y \in S : <<y, x>> \notin R
  BY <1>1, WFMin
<1>4. ASSUME NEW m \in S PROVE x <= m
  <2>1. x \in Nat /\ m \in Nat /\ ~(m < x)
    BY <1>2, <1>3
  <2> QED BY <2>1
<1> QED BY <1>3, <1>4

\* The first values of what repeating F from s yields.
Prefixes(S, s, F, n) ==
  {f \in [0..n -> S] : f[0] = s /\ \A k \in 0..(n - 1) : f[k + 1] = F[f[k]]}

LEMMA PrefixesAgree ==
  ASSUME NEW S, NEW s \in S, NEW F \in [S -> S],
         NEW n \in Nat, NEW m \in Nat, NEW f \in Prefixes(S, s, F, n), NEW h \in Prefixes(S, s, F, m),
         NEW k \in Nat, k <= n, k <= m
  PROVE  f[k] = h[k]
<1> DEFINE Bad == {i \in Nat : i <= n /\ i <= m /\ f[i] # h[i]}
<1> SUFFICES ASSUME Bad # {} PROVE FALSE
  OBVIOUS
<1>1. PICK i \in Bad : \A j \in Bad : i <= j
  <2> HIDE DEF Bad
  <2>1. Bad \in SUBSET Nat
    BY DEF Bad
  <2> QED BY <2>1, LeastOf
<1>2. i # 0
  BY DEF Prefixes
<1>3. i - 1 \in Nat /\ i - 1 \in 0..(n - 1) /\ i - 1 \in 0..(m - 1) /\ (i - 1) + 1 = i
  BY <1>2
<1>4. f[i] = F[f[i - 1]] /\ h[i] = F[h[i - 1]]
  BY <1>3 DEF Prefixes
<1>5. i - 1 \notin Bad
  BY <1>1, <1>3
<1> QED BY <1>3, <1>4, <1>5

LEMMA PrefixesExist ==
  ASSUME NEW S, NEW s \in S, NEW F \in [S -> S], NEW n \in Nat
  PROVE  Prefixes(S, s, F, n) # {}
<1> DEFINE Bad == {i \in Nat : Prefixes(S, s, F, i) = {}}
<1> SUFFICES ASSUME Bad # {} PROVE FALSE
  OBVIOUS
<1>1. PICK i \in Bad : \A j \in Bad : i <= j
  <2> HIDE DEF Bad
  <2>1. Bad \in SUBSET Nat
    BY DEF Bad
  <2> QED BY <2>1, LeastOf
<1>2. CASE i = 0
  <2>1. [k \in 0..0 |-> s] \in Prefixes(S, s, F, 0)
    BY DEF Prefixes
  <2> QED BY <1>2, <2>1
<1>3. CASE i # 0
  <2>1. i - 1 \in Nat /\ i - 1 \notin Bad
    BY <1>1, <1>3
  <2>2. PICK f \in Prefixes(S, s, F, i - 1) : TRUE
    BY <2>1
  <2> DEFINE e == [k \in 0..i |-> IF k = i THEN F[f[i - 1]] ELSE f[k]]
  <2>3. f \in [0..(i - 1) -> S] /\ f[0] = s /\ \A k \in 0..(i - 2) : f[k + 1] = F[f[k]]
    BY <2>1 DEF Prefixes
  <2>4. e \in [0..i -> S] /\ e[0] = s
    BY <1>3, <2>1, <2>3
  <2>5. ASSUME NEW k \in 0..(i - 1) PROVE e[k + 1] = F[e[k]]
    <3>1. e[k] = f[k]
      BY <2>1
    <3>2. CASE k = i - 1
      BY <2>1, <3>1, <3>2
    <3>3. CASE k # i - 1
      <4>1. k \in 0..(i - 2) /\ k + 1 \in 0..i /\ k + 1 # i
        BY <2>1, <3>3
      <4> QED BY <2>3, <3>1, <4>1
    <3> QED BY <3>2, <3>3
  <2>6. e \in Prefixes(S, s, F, i)
    BY <2>4, <2>5 DEF Prefixes
  <2> QED BY <2>6
<1> QED BY <1>2, <1>3

\* Repeating F from s defines a function on the natural numbers.
LEMMA Repetition ==
  ASSUME NEW S, NEW s \in S, NEW F \in [S -> S]
  PROVE  \E r \in [Nat -> S] : r[0] = s /\ \A n \in Nat : r[n + 1] = F[r[n]]
<1> DEFINE P(n) == CHOOSE f \in Prefixes(S, s, F, n) : TRUE
           r == [n \in Nat |-> P(n)[n]]
<1>1. \A n \in Nat : P(n) \in Prefixes(S, s, F, n)
  BY PrefixesExist
<1> HIDE DEF P
<1>2. \A n \in Nat : r[n] \in S
  BY <1>1 DEF Prefixes
<1>3. r[0] = s
  BY <1>1 DEF Prefixes
<1>4. ASSUME NEW n \in Nat PROVE r[n + 1] = F[r[n]]
  <2>1. P(n + 1)[n + 1] = F[P(n + 1)[n]]
    BY <1>1 DEF Prefixes
  <2>2. P(n + 1)[n] = P(n)[n]
    BY <1>1, PrefixesAgree
  <2> QED BY <2>1, <2>2
<1> HIDE DEF r
<1>5. r \in [Nat -> S]
  BY <1>2 DEF r
<1> QED BY <1>3, <1>4, <1>5

-----------------------------------------------------------------------------
LEMMA CellsAreIntegers ==
  ASSUME NEW p \in Cells
  PROVE  p[1] \in Int /\ p[2] \in Int /\ p = <<p[1], p[2]>>
  BY GridAssumption DEF Cells

\* What the comparisons of unsigned numbers come to: for a point inside they
\* give the neighbours inside, however close to a border it is.
LEMMA TurnsAre ==
  ASSUME NEW n \in 0..(SizeLimit - 1), NEW i \in 0..(n - 1)
  PROVE  Turns(i, n) = {d \in -1..1 : i + d \in 0..(n - 1)}
<1>1. n - 1 \in 0..(SizeLimit - 1) /\ SizeLimit \in Nat \ {0}
  BY GridAssumption
<1>2. (n - 1) % SizeLimit = n - 1
  BY <1>1
<1> QED BY <1>1, <1>2 DEF Turns, Unsigned

LEMMA AdjacentsAreNeighbours == \A p : Adjacents(p) = Neighbours(p)
<1>1. ASSUME NEW p \in Cells PROVE Adjacents(p) = Neighbours(p)
  <2>1. /\ p[1] \in 0..(Rows - 1) /\ p[2] \in 0..(Cols - 1)
        /\ Rows \in 0..(SizeLimit - 1) /\ Cols \in 0..(SizeLimit - 1)
    BY GridAssumption DEF Cells
  <2>2. /\ Turns(p[1], Rows) = {d \in -1..1 : p[1] + d \in 0..(Rows - 1)}
        /\ Turns(p[2], Cols) = {d \in -1..1 : p[2] + d \in 0..(Cols - 1)}
    BY <2>1, TurnsAre
  <2>3. ASSUME NEW q \in Adjacents(p) PROVE q \in Neighbours(p)
    <3>1. PICK i \in Turns(p[1], Rows), j \in Turns(p[2], Cols) : q = <<p[1] + i, p[2] + j>>
      BY <2>3 DEF Adjacents
    <3>2. /\ i \in -1..1 /\ q[1] = p[1] + i /\ q[1] \in 0..(Rows - 1)
          /\ j \in -1..1 /\ q[2] = p[2] + j /\ q[2] \in 0..(Cols - 1)
      BY <2>2, <3>1
    <3>3. q \in Cells
      BY <3>1, <3>2 DEF Cells
    <3>4. q # p
      BY <2>3 DEF Adjacents
    <3>5. Distance(p[1], q[1]) <= 1 /\ Distance(p[2], q[2]) <= 1
      BY <2>1, <3>2 DEF Distance
    <3> QED BY <3>3, <3>4, <3>5 DEF Neighbours
  <2>4. ASSUME NEW q \in Neighbours(p) PROVE q \in Adjacents(p)
    <3>1. q \in Cells /\ q # p /\ Distance(p[1], q[1]) <= 1 /\ Distance(p[2], q[2]) <= 1
      BY <2>4 DEF Neighbours
    <3> DEFINE i == q[1] - p[1]
               j == q[2] - p[2]
    <3>2. q[1] \in 0..(Rows - 1) /\ q[2] \in 0..(Cols - 1) /\ q = <<q[1], q[2]>>
      BY <3>1, GridAssumption DEF Cells
    <3>3. i \in -1..1 /\ j \in -1..1 /\ p[1] + i = q[1] /\ p[2] + j = q[2]
      BY <2>1, <3>1, <3>2 DEF Distance
    <3> HIDE DEF i, j
    <3>4. i \in Turns(p[1], Rows) /\ j \in Turns(p[2], Cols) /\ q = <<p[1] + i, p[2] + j>>
      BY <2>2, <3>2, <3>3
    <3> QED BY <3>1, <3>4 DEF Adjacents
  <2> QED BY <2>3, <2>4
<1>2. ASSUME NEW p, p \notin Cells PROVE Adjacents(p) = Neighbours(p)
  BY <1>2 DEF Adjacents, Neighbours
<1> QED BY <1>1, <1>2

LEMMA DistanceType ==
  ASSUME NEW x \in Int, NEW y \in Int
  PROVE  Distance(x, y) \in Nat /\ (Distance(x, y) = 0 => x = y)
  BY DEF Distance

LEMMA ManhattanType ==
  ASSUME NEW p \in Cells, NEW q \in Cells
  PROVE  /\ ManhattanDistance(p, q) \in Nat
         /\ p # q => ManhattanDistance(p, q) > 0
<1>1. /\ p[1] \in Int /\ p[2] \in Int /\ p = <<p[1], p[2]>>
      /\ q[1] \in Int /\ q[2] \in Int /\ q = <<q[1], q[2]>>
  BY CellsAreIntegers
<1>2. /\ Distance(p[1], q[1]) \in Nat /\ (Distance(p[1], q[1]) = 0 => p[1] = q[1])
      /\ Distance(p[2], q[2]) \in Nat /\ (Distance(p[2], q[2]) = 0 => p[2] = q[2])
  BY <1>1, DistanceType
<1>3. p # q => p[1] # q[1] \/ p[2] # q[2]
  BY <1>1, Zenon
<1> QED BY <1>2, <1>3 DEF ManhattanDistance

\* A step leads from a cell to another one.
LEMMA StepsAreCells ==
  ASSUME NEW p, NEW q \in Steps(p)
  PROVE  p \in Cells /\ q \in Cells /\ q \in Neighbours(p) /\ q \notin blocked /\ q # p
  BY AdjacentsAreNeighbours DEF Steps, Neighbours

\* The points improved by an expansion: each is a step away, not yet closed,
\* and the new cost is above that of p and below the old one.
LEMMA BetterFacts ==
  ASSUME TypeOK, NEW p \in DOMAIN g, NEW q \in Better(p)
  PROVE  /\ q \in Cells /\ q \in Steps(p) /\ q # p /\ q \notin closed
         /\ CostBy(p, q) \in Nat /\ g[p] < CostBy(p, q)
         /\ q \in DOMAIN g => CostBy(p, q) < g[q]
<1>1. q \in Steps(p) /\ q # p /\ q \notin closed /\ (q \in DOMAIN g => CostBy(p, q) < g[q])
  BY DEF Better
<1>2. p \in Cells /\ q \in Cells
  BY <1>1, StepsAreCells
<1>3. ManhattanDistance(p, q) \in Nat /\ ManhattanDistance(p, q) > 0
  BY <1>1, <1>2, ManhattanType
<1>4. g[p] \in Nat
  BY DEF TypeOK
<1>5. CostBy(p, q) \in Nat /\ g[p] < CostBy(p, q)
  BY <1>3, <1>4 DEF CostBy
<1> QED BY <1>1, <1>2, <1>5

\* Every step from p reaches a point already reached, or improves one.
LEMMA StepsAreReached ==
  ASSUME NEW p, NEW q \in Steps(p), q \notin Better(p)
  PROVE  q \in closed \cup {p} \cup DOMAIN g
  BY DEF Better

-----------------------------------------------------------------------------
LEMMA SearchInit == Init => SearchInv
<1> SUFFICES ASSUME Init PROVE SearchInv
  OBVIOUS
<1>1. <<start, end>> \in Searches
  <2>1. PICK s \in Searches : start = s[1] /\ end = s[2]
    BY DEF Init
  <2>2. s = <<s[1], s[2]>>
    BY SearchesAssumption
  <2> QED BY <2>1, <2>2
<1>2. /\ blocked \in SUBSET Cells /\ closed = {} /\ path = <<>>
      /\ parents = [p \in {} |-> start]
  BY GridAssumption DEF Init
<1>3. CASE start \in Cells /\ end \in Cells
  <2>1. phase = "search" /\ open = {<<0, start>>} /\ g = [p \in {start} |-> 0]
    BY <1>3 DEF Init
  <2>2. TypeOK
    <3>1. open \in SUBSET (Nat \X Cells)
      BY <1>3, <2>1
    <3>2. DOMAIN g = {start} /\ g[start] = 0
      BY <2>1
    <3>3. path \in Seq(Cells)
      BY <1>2
    <3> QED BY <1>1, <1>2, <1>3, <2>1, <3>1, <3>2, <3>3 DEF TypeOK
  <2>3. Rooted /\ Descends
    BY <1>2, <2>1 DEF Rooted, Descends
  <2>4. Queued = {start}
    BY <2>1 DEF Queued
  <2>5. Frontier /\ Trail
    BY <1>2, <2>1, <2>4 DEF Frontier, Trail
  <2> QED BY <1>3, <2>2, <2>3, <2>5 DEF SearchInv, Inside
<1>4. CASE ~(start \in Cells /\ end \in Cells)
  <2>1. phase = "none" /\ open = {} /\ g = [p \in {} |-> 0]
    BY <1>4 DEF Init
  <2>2. TypeOK
    BY <1>1, <1>2, <2>1 DEF TypeOK
  <2> QED BY <1>4, <2>1, <2>2 DEF SearchInv, Inside
<1> QED BY <1>3, <1>4
\* Popping and expanding a point other than the end.
LEMMA ExpandKeeps == SearchInv /\ Expand => SearchInv'
<1> SUFFICES ASSUME SearchInv, Expand PROVE SearchInv'
  OBVIOUS
<1>1. PICK n \in open :
        /\ Least(n)
        /\ n[2] # end
        /\ closed' = closed \cup {n[2]}
        /\ parents' = [q \in DOMAIN parents \cup Better(n[2]) |->
                          IF q \in Better(n[2]) THEN n[2] ELSE parents[q]]
        /\ g' = [q \in DOMAIN g \cup Better(n[2]) |->
                    IF q \in Better(n[2]) THEN CostBy(n[2], q) ELSE g[q]]
        /\ open' = (open \ {n}) \cup
              {<<CostBy(n[2], q) + ManhattanDistance(q, end), q>> : q \in Better(n[2])}
  BY DEF Expand
<1>2. phase = "search" /\ UNCHANGED <<blocked, start, end, phase, path>>
  BY DEF Expand
<1>3. TypeOK /\ Inside /\ Rooted /\ Descends /\ Frontier
  BY <1>2 DEF SearchInv
<1> DEFINE p == n[2]
           B == Better(p)
<1>4. p \in Queued /\ p \in DOMAIN g /\ p \in Cells /\ g[p] \in Nat
  <2>1. p \in Queued
    BY DEF Queued
  <2> QED BY <1>3, <2>1 DEF Frontier, TypeOK
<1>5. \A q \in B : /\ q \in Cells /\ q \in Steps(p) /\ q # p /\ q \notin closed
                   /\ CostBy(p, q) \in Nat /\ g[p] < CostBy(p, q)
                   /\ q \in DOMAIN g => CostBy(p, q) < g[q]
  BY <1>3, <1>4, BetterFacts
<1>6. /\ DOMAIN g' = DOMAIN g \cup B
      /\ \A q \in B : g'[q] = CostBy(p, q)
      /\ \A q \in DOMAIN g \ B : g'[q] = g[q]
  BY <1>1
<1>7. /\ DOMAIN parents' = DOMAIN parents \cup B
      /\ \A q \in B : parents'[q] = p
      /\ \A q \in DOMAIN parents \ B : parents'[q] = parents[q]
  BY <1>1
<1>8. start \notin B
  \* Nothing costs less than the start.
  BY <1>3, <1>5, <1>4 DEF Rooted, TypeOK
<1>9. TypeOK'
  <2>1. open' \in SUBSET (Nat \X Cells)
    <3>1. \A q \in B : ManhattanDistance(q, end) \in Nat
      BY <1>3, <1>5, ManhattanType DEF Inside
    <3>2. \A q \in B : CostBy(p, q) + ManhattanDistance(q, end) \in Nat
      BY <1>5, <3>1
    <3> QED BY <1>1, <1>3, <1>5, <3>2 DEF TypeOK
  <2>2. closed' \in SUBSET Cells
    BY <1>1, <1>3, <1>4 DEF TypeOK
  <2>3. DOMAIN parents' \in SUBSET Cells /\ \A q \in DOMAIN parents' : parents'[q] \in Cells
    BY <1>3, <1>4, <1>5, <1>7 DEF TypeOK
  <2>4. DOMAIN g' \in SUBSET Cells /\ \A q \in DOMAIN g' : g'[q] \in Nat
    BY <1>3, <1>5, <1>6 DEF TypeOK
  <2> QED BY <1>2, <1>3, <2>1, <2>2, <2>3, <2>4 DEF TypeOK
<1>10. Rooted'
  BY <1>2, <1>3, <1>6, <1>7, <1>8 DEF Rooted
<1>11. Descends'
  <2> SUFFICES ASSUME NEW q \in DOMAIN parents'
               PROVE  /\ parents'[q] \in DOMAIN g'
                      /\ q \in Steps(parents'[q])
                      /\ g'[parents'[q]] < g'[q]
    BY <1>2, AdjacentsAreNeighbours DEF Descends, Steps, Neighbours
  <2>1. p \notin B /\ g'[p] = g[p]
    BY <1>4, <1>5, <1>6
  <2>2. CASE q \in B
    BY <1>4, <1>5, <1>6, <1>7, <2>1, <2>2
  <2>3. CASE q \notin B
    <3>1. q \in DOMAIN parents /\ parents'[q] = parents[q] /\ q \in DOMAIN g /\ g'[q] = g[q]
      BY <1>3, <1>6, <1>7, <2>3 DEF Rooted
    <3>2. /\ parents[q] \in DOMAIN g
          /\ q \in Steps(parents[q])
          /\ g[parents[q]] < g[q]
      BY <1>3, <3>1 DEF Descends
    <3>3. g[parents[q]] \in Nat /\ g[q] \in Nat /\ g'[parents[q]] \in Nat
      BY <1>3, <1>6, <1>9, <3>1, <3>2 DEF TypeOK
    <3>4. g'[parents[q]] = g[parents[q]] \/ g'[parents[q]] < g[parents[q]]
      BY <1>5, <1>6, <3>2
    <3> QED BY <1>6, <3>1, <3>2, <3>3, <3>4
  <2> QED BY <2>2, <2>3
<1>12. Frontier'
  <2>1. closed' \cup Queued' = DOMAIN g'
    <3>1. Queued' \subseteq Queued \cup B
      BY <1>1 DEF Queued
    <3>2. Queued \subseteq Queued' \cup {p}
      BY <1>1 DEF Queued
    <3>3. B \subseteq Queued'
      <4> SUFFICES ASSUME NEW q \in B PROVE q \in Queued'
        OBVIOUS
      <4>1. <<CostBy(p, q) + ManhattanDistance(q, end), q>> \in open'
        BY <1>1
      <4> QED BY <4>1 DEF Queued
    <3> QED BY <1>1, <1>3, <1>4, <1>6, <3>1, <3>2, <3>3 DEF Frontier
  <2>2. \A r \in closed' \ {end} : Steps(r) \subseteq DOMAIN g'
    <3>1. \A r \in closed \ {end} : Steps(r) \subseteq DOMAIN g'
      BY <1>3, <1>6 DEF Frontier
    <3>2. Steps(p) \subseteq DOMAIN g'
      BY <1>3, <1>4, <1>6, StepsAreReached DEF Frontier
    <3> QED BY <1>1, <3>1, <3>2
  <2>3. \A r \in closed' \ {end}' : Steps(r)' \subseteq DOMAIN g'
    BY <1>2, <2>2, AdjacentsAreNeighbours DEF Steps, Neighbours
  <2> QED BY <1>1, <1>2, <1>3, <2>1, <2>3 DEF Frontier
<1>13. Inside' /\ Trail'
  BY <1>2, <1>3 DEF Inside, Trail
<1> QED BY <1>9, <1>10, <1>11, <1>12, <1>13 DEF SearchInv

\* One more parent in front of a trail.
LEMMA WalkKeeps == SearchInv /\ Walk => SearchInv'
<1> SUFFICES ASSUME SearchInv, Walk PROVE SearchInv'
  OBVIOUS
<1> DEFINE x == parents[Head(path)]
<1>1. /\ phase = "walk" /\ Head(path) \in DOMAIN parents
      /\ path' = <<x>> \o path
      /\ UNCHANGED <<blocked, start, end, open, closed, parents, g, phase>>
  BY DEF Walk
<1>2. TypeOK /\ Inside /\ Rooted /\ Descends /\ Frontier /\ Trail
  BY <1>1 DEF SearchInv
<1>3. path \in Seq(Cells) /\ path # <<>> /\ Len(path) \in Nat \ {0} /\ Head(path) = path[1]
  BY <1>1, <1>2 DEF TypeOK, Trail
<1>4. x \in Cells /\ x \in DOMAIN g /\ path[1] \in Steps(x) /\ g[x] < g[path[1]]
  BY <1>1, <1>2, <1>3 DEF TypeOK, Descends
<1>5. /\ path' \in Seq(Cells)
      /\ Len(path') = Len(path) + 1
      /\ path'[1] = x
      /\ \A i \in 2..Len(path') : path'[i] = path[i - 1]
  BY <1>1, <1>3, <1>4
<1>6. TypeOK'
  BY <1>1, <1>2, <1>5 DEF TypeOK
<1>7. Inside' /\ Rooted'
  BY <1>1, <1>2 DEF Inside, Rooted
<1>8. Descends' /\ Frontier'
  BY <1>1, <1>2, AdjacentsAreNeighbours DEF Descends, Frontier, Queued, Steps, Neighbours
<1>9. Trail'
  <2>1. path' # <<>> /\ path'[Len(path')] = end
    BY <1>1, <1>2, <1>3, <1>5 DEF Trail
  <2>2. \A i \in 1..Len(path') : i = 1 \/ (i \in 2..Len(path') /\ i - 1 \in 1..Len(path))
    BY <1>3, <1>5
  <2>3. \A i \in 1..Len(path') : path'[i] \in DOMAIN g
    BY <1>1, <1>2, <1>4, <1>5, <2>2 DEF Trail
  <2>4. ASSUME NEW i \in 1..(Len(path') - 1) PROVE path'[i + 1] \in Steps(path'[i])
    <3>1. path'[i + 1] = path[i]
      BY <1>3, <1>5
    <3>2. CASE i = 1
      BY <1>4, <1>5, <3>1, <3>2
    <3>3. CASE i # 1
      <4>1. path'[i] = path[i - 1] /\ i - 1 \in 1..(Len(path) - 1) /\ (i - 1) + 1 = i
        BY <1>3, <1>5, <3>3
      <4> QED BY <1>1, <1>2, <3>1, <4>1 DEF Trail
    <3> QED BY <3>2, <3>3
  <2>5. ASSUME NEW i \in 1..Len(path'), NEW j \in 1..Len(path'), i < j
        PROVE  g[path'[i]] < g[path'[j]]
    <3>1. path'[j] = path[j - 1] /\ j - 1 \in 1..Len(path) /\ g[path[j - 1]] \in Nat
      BY <1>1, <1>2, <1>3, <1>5, <2>5 DEF Trail, TypeOK
    <3>2. CASE i = 1
      <4>1. j = 2 \/ (1 \in 1..Len(path) /\ 1 < j - 1)
        BY <1>3, <1>5, <2>5, <3>2
      <4>2. g[x] \in Nat /\ g[path[1]] \in Nat
        BY <1>1, <1>2, <1>3, <1>4 DEF TypeOK, Trail
      <4>3. g[path[1]] = g[path[j - 1]] \/ g[path[1]] < g[path[j - 1]]
        BY <1>1, <1>2, <3>1, <4>1 DEF Trail
      <4> QED BY <1>4, <1>5, <3>1, <3>2, <4>2, <4>3
    <3>3. CASE i # 1
      <4>1. path'[i] = path[i - 1] /\ i - 1 \in 1..Len(path) /\ i - 1 < j - 1
        BY <1>3, <1>5, <2>5, <3>3
      <4> QED BY <1>1, <1>2, <3>1, <4>1 DEF Trail
    <3> QED BY <3>2, <3>3
  <2>6. \A i \in 1..(Len(path') - 1) : path'[i + 1] \in Neighbours(path'[i]) \ blocked'
    BY <1>1, <2>4, AdjacentsAreNeighbours DEF Steps
  <2> QED BY <1>1, <2>1, <2>3, <2>5, <2>6, AdjacentsAreNeighbours DEF Trail, Steps
<1> QED BY <1>6, <1>7, <1>8, <1>9 DEF SearchInv

LEMMA SearchStep == SearchInv /\ [Next]_vars => SearchInv'
<1> SUFFICES ASSUME SearchInv, [Next]_vars PROVE SearchInv'
  OBVIOUS
<1>1. CASE Arrive
  <2>1. PICK n \in open : n[2] = end /\ open' = open \ {n} /\ closed' = closed \cup {end}
    BY <1>1 DEF Arrive
  <2>2. /\ phase = "search" /\ phase' = "walk" /\ path' = <<end>>
        /\ UNCHANGED <<blocked, start, end, parents, g>>
    BY <1>1 DEF Arrive
  <2>3. TypeOK /\ Inside /\ Rooted /\ Descends /\ Frontier
    BY <2>2 DEF SearchInv
  <2>4. end \in Cells /\ end \in Queued /\ end \in DOMAIN g
    BY <2>1, <2>3 DEF Inside, Queued, Frontier
  <2>5. TypeOK'
    BY <2>1, <2>2, <2>3, <2>4 DEF TypeOK
  <2>6. Inside' /\ Rooted'
    BY <2>2, <2>3 DEF Inside, Rooted
  <2>7. Descends'
    BY <2>2, <2>3, AdjacentsAreNeighbours DEF Descends, Steps, Neighbours
  <2>8. Frontier'
    <3>1. Queued' \subseteq Queued /\ Queued \subseteq Queued' \cup {end}
      BY <2>1 DEF Queued
    <3>2. closed' \cup Queued' = DOMAIN g'
      BY <2>1, <2>2, <2>3, <2>4, <3>1 DEF Frontier
    <3>3. \A r \in closed' \ {end}' : Steps(r)' \subseteq DOMAIN g'
      BY <2>1, <2>2, <2>3, AdjacentsAreNeighbours DEF Frontier, Steps, Neighbours
    <3> QED BY <2>2, <3>2, <3>3 DEF Frontier
  <2>9. Trail'
    <3>1. Len(path') = 1 /\ path'[1] = end /\ path' # <<>>
      BY <2>2
    <3>2. \A i \in 1..1 : i = 1
      OBVIOUS
    <3>3. 1..(1 - 1) = {} /\ ~(1 < 1)
      OBVIOUS
    <3> QED BY <2>2, <2>4, <3>1, <3>2, <3>3 DEF Trail
  <2> QED BY <2>5, <2>6, <2>7, <2>8, <2>9 DEF SearchInv
<1>2. CASE Expand
  BY <1>2, ExpandKeeps
<1>3. CASE GiveUp
  <2>1. /\ phase = "search" /\ open = {} /\ phase' = "none"
        /\ UNCHANGED <<blocked, start, end, open, closed, parents, g, path>>
    BY <1>3 DEF GiveUp
  <2>2. TypeOK /\ Inside /\ Rooted /\ Descends /\ Frontier
    BY <2>1 DEF SearchInv
  <2>3. TypeOK' /\ Inside' /\ Rooted'
    BY <2>1, <2>2 DEF TypeOK, Inside, Rooted
  <2>4. Descends' /\ Frontier'
    BY <2>1, <2>2, AdjacentsAreNeighbours DEF Descends, Frontier, Queued, Steps, Neighbours
  <2>5. Trail'
    BY <2>1 DEF Trail
  <2> QED BY <2>3, <2>4, <2>5 DEF SearchInv
<1>4. CASE Walk
  BY <1>4, WalkKeeps
<1>5. CASE Return
  <2>1. /\ phase = "walk" /\ Head(path) \notin DOMAIN parents /\ phase' = "found"
        /\ UNCHANGED <<blocked, start, end, open, closed, parents, g, path>>
    BY <1>5 DEF Return
  <2>2. TypeOK /\ Inside /\ Rooted /\ Descends /\ Frontier /\ Trail
    BY <2>1 DEF SearchInv
  <2>3. TypeOK' /\ Inside' /\ Rooted'
    BY <2>1, <2>2 DEF TypeOK, Inside, Rooted
  <2>4. Descends' /\ Frontier'
    BY <2>1, <2>2, AdjacentsAreNeighbours DEF Descends, Frontier, Queued, Steps, Neighbours
  <2>5. Trail'
    <3>1. path[1] = start
      BY <2>1, <2>2 DEF Trail, Rooted, TypeOK
    <3> QED BY <2>1, <2>2, <3>1, AdjacentsAreNeighbours DEF Trail, Steps, Neighbours
  <2> QED BY <2>3, <2>4, <2>5 DEF SearchInv
<1>6. CASE UNCHANGED vars
  <2>1. TypeOK' /\ (Inside <=> Inside')
    BY <1>6 DEF SearchInv, TypeOK, Inside, vars
  <2>2. (Rooted /\ Descends => Rooted' /\ Descends') /\ (Frontier /\ Trail => Frontier' /\ Trail')
    BY <1>6, AdjacentsAreNeighbours DEF Rooted, Descends, Frontier, Trail, Queued, Steps, Neighbours, vars
  <2> QED BY <1>6, <2>1, <2>2 DEF SearchInv, vars
<1> QED BY <1>1, <1>2, <1>3, <1>4, <1>5, <1>6 DEF Next

-----------------------------------------------------------------------------
LEMMA InvImplies == SearchInv => TypeOK /\ FoundIsPath /\ NoneMeansUnreachable
<1> SUFFICES ASSUME SearchInv PROVE TypeOK /\ FoundIsPath /\ NoneMeansUnreachable
  OBVIOUS
<1>1. TypeOK
  BY DEF SearchInv
<1>2. FoundIsPath
  <2> SUFFICES ASSUME phase = "found"
               PROVE  IsPath(path) /\ \A i, j \in 1..Len(path) : path[i] = path[j] => i = j
    BY DEF FoundIsPath
  <2>1. Trail
    BY DEF SearchInv
  <2>2. IsPath(path)
    BY <2>1, AdjacentsAreNeighbours DEF Trail, IsPath, Steps
  <2>3. ASSUME NEW i \in 1..Len(path), NEW j \in 1..Len(path), path[i] = path[j], i # j
        PROVE  FALSE
    \* The costs along the path grow.
    <3>1. i < j \/ j < i
      BY <2>3
    <3>2. g[path[i]] \in Nat /\ g[path[j]] \in Nat
      BY <1>1, <2>1 DEF TypeOK, Trail
    <3> QED BY <2>1, <2>3, <3>1, <3>2 DEF Trail
  <2> QED BY <2>2, <2>3
<1>3. NoneMeansUnreachable
  <2> SUFFICES ASSUME phase = "none", start \in Cells, end \in Cells
               PROVE  /\ start \in closed /\ end \notin closed
                      /\ \A p \in closed : Neighbours(p) \subseteq closed \cup blocked
    BY DEF NoneMeansUnreachable
  <2>1. Rooted /\ Frontier /\ Queued = {}
    BY DEF SearchInv, Inside, Frontier, Queued
  <2> QED BY <2>1, AdjacentsAreNeighbours DEF Rooted, Frontier, Steps
<1> QED BY <1>1, <1>2, <1>3

LEMMA SearchInvariant == Spec => []SearchInv
  BY SearchInit, SearchStep, PTL DEF Spec

-----------------------------------------------------------------------------
(***************************************************************************)
(* No path costs less than the one found.                                  *)
(***************************************************************************)
Estimate(p) == ManhattanDistance(p, end)

\* What holds before the first point is popped; its node carries no estimate.
Fresh == closed = {} => phase = "search" /\ open = {<<0, start>>} /\ DOMAIN g = {start}

\* The nodes are of points reached, never too cheap, and each point that is
\* reached and not expanded has one of the right cost.
QueueIsExact ==
  closed # {} =>
    /\ \A m \in open : m[2] \in DOMAIN g /\ g[m[2]] + Estimate(m[2]) <= m[1]
    /\ \A p \in DOMAIN g \ closed : <<g[p] + Estimate(p), p>> \in open

\* Points expanded are cheaper than all that is queued, and the way through one
\* of them to a neighbour has been taken into account.
ClosedIsFinal ==
  /\ \A q \in closed, m \in open : g[q] + Estimate(q) <= m[1]
  /\ \A p \in closed \ {end} : \A q \in Steps(p) : g[q] <= CostBy(p, q)

\* A way of the cost that is noted leads to each point reached.
CostsAreMet == \A p \in DOMAIN g : p \in Within[g[p]]

EndIsClosed == phase \in {"walk", "found"} => end \in closed

ShortestInv ==
  SearchInv /\ (Inside => Fresh /\ QueueIsExact /\ ClosedIsFinal /\ CostsAreMet /\ EndIsClosed)

\* The points a step further than those in one, or two steps further than two.
Wider(two, one) ==
  one \cup {q \in Cells \ blocked :
              \/ \E p \in one : q \in Neighbours(p) /\ ManhattanDistance(p, q) = 1
              \/ \E p \in two : q \in Neighbours(p)}

LEMMA WithinIsDefined ==
  /\ Within[0] = {start}
  /\ \A n \in Nat \ {0} :
       Within[n] = Wider(IF n = 1 THEN {} ELSE Within[n - 2], Within[n - 1])
<1> DEFINE Def(R) == [n \in Nat |->
             IF n = 0 THEN {start}
             ELSE LET one == R[n - 1]
                      two == IF n = 1 THEN {} ELSE R[n - 2]
                  IN one \cup {q \in Cells \ blocked :
                       \/ \E p \in one : q \in Neighbours(p) /\ ManhattanDistance(p, q) = 1
                       \/ \E p \in two : q \in Neighbours(p)}]
<1>1. \E R : R = Def(R)
  <2> DEFINE S == SUBSET (Cells \cup {start})
             T == S \X S
             F == [x \in T |-> <<x[2], Wider(x[1], x[2])>>]
             s == <<{}, {start}>>
  <2>1. F \in [T -> T] /\ s \in T
    BY DEF Wider
  <2>2. \E r \in [Nat -> T] : r[0] = s /\ \A n \in Nat : r[n + 1] = F[r[n]]
    <3> HIDE DEF T, F, s
    <3> QED BY <2>1, Repetition
  <2>3. PICK r \in [Nat -> T] : r[0] = s /\ \A n \in Nat : r[n + 1] = F[r[n]]
    BY <2>2
  <2> DEFINE R == [n \in Nat |-> r[n][2]]
  <2>4. \A n \in Nat : r[n + 1] = <<r[n][2], Wider(r[n][1], r[n][2])>>
    BY <2>3
  <2>5. ASSUME NEW n \in Nat \ {0}
        PROVE  R[n] = Wider(IF n = 1 THEN {} ELSE R[n - 2], R[n - 1])
    <3>1. n - 1 \in Nat /\ r[n] = <<r[n - 1][2], Wider(r[n - 1][1], r[n - 1][2])>>
      BY <2>4
    <3>2. CASE n = 1
      <4>1. r[0][1] = {}
        BY <2>3
      <4> QED BY <3>1, <3>2, <4>1
    <3>3. CASE n # 1
      <4>1. n - 2 \in Nat /\ n - 1 \in Nat /\ (n - 2) + 1 = n - 1
        BY <3>3
      <4>2. r[n - 1][1] = r[n - 2][2]
        BY <2>4, <4>1
      <4> QED BY <3>1, <3>3, <4>1, <4>2
    <3> QED BY <3>2, <3>3
  <2>6. R[0] = {start}
    BY <2>3
  <2> HIDE DEF R
  <2>7. R = [n \in Nat |-> R[n]]
    BY DEF R
  <2>8. ASSUME NEW n \in Nat PROVE R[n] = Def(R)[n]
    BY <2>5, <2>6 DEF Wider
  <2>9. R = Def(R)
    BY <2>7, <2>8
  <2> QED BY <2>9
<1>2. Within = Def(Within)
  <2> HIDE DEF Def
  <2>1. Within = CHOOSE R : R = Def(R)
    BY DEF Within, Def
  <2> QED BY <1>1, <2>1
<1> HIDE DEF Def
<1>3. Def(Within)[0] = {start}
  BY DEF Def
<1>4. \A n \in Nat \ {0} : Def(Within)[n] = Wider(IF n = 1 THEN {} ELSE Within[n - 2], Within[n - 1])
  BY DEF Def, Wider
<1> QED BY <1>2, <1>3, <1>4

LEMMA WithinIsInside ==
  ASSUME start \in Cells, NEW n \in Nat
  PROVE  Within[n] \subseteq Cells
<1> DEFINE Bad == {i \in Nat : ~(Within[i] \subseteq Cells)}
<1> SUFFICES ASSUME Bad # {} PROVE FALSE
  OBVIOUS
<1>1. PICK i \in Bad : \A j \in Bad : i <= j
  <2> HIDE DEF Bad
  <2>1. Bad \in SUBSET Nat
    BY DEF Bad
  <2> QED BY <2>1, LeastOf
<1>2. i # 0
  BY WithinIsDefined
<1>3. i - 1 \in Nat /\ Within[i - 1] \subseteq Cells
  BY <1>1, <1>2
<1>4. \E two : Within[i] = Wider(two, Within[i - 1])
  BY <1>2, WithinIsDefined
<1> QED BY <1>3, <1>4 DEF Wider

\* A step costs one or two, and the estimate changes by no more.
LEMMA StepCosts ==
  ASSUME NEW p, NEW q \in Steps(p), end \in Cells
  PROVE  /\ ManhattanDistance(p, q) \in {1, 2}
         /\ Estimate(p) \in Nat /\ Estimate(q) \in Nat
         /\ Estimate(p) <= ManhattanDistance(p, q) + Estimate(q)
<1>1. p \in Cells /\ q \in Cells /\ q \in Neighbours(p) /\ q # p
  BY StepsAreCells
<1>2. /\ p[1] \in Int /\ p[2] \in Int /\ q[1] \in Int /\ q[2] \in Int
      /\ end[1] \in Int /\ end[2] \in Int
  BY <1>1, CellsAreIntegers
<1>3. Distance(p[1], q[1]) <= 1 /\ Distance(p[2], q[2]) <= 1
  BY <1>1 DEF Neighbours
<1>4. ManhattanDistance(p, q) \in Nat /\ ManhattanDistance(p, q) > 0
  BY <1>1, ManhattanType
<1> DEFINE dr == Distance(p[1], q[1])
           dc == Distance(p[2], q[2])
           er == Distance(q[1], end[1])
           ec == Distance(q[2], end[2])
           fr == Distance(p[1], end[1])
           fc == Distance(p[2], end[2])
<1>5. dr \in Nat /\ dc \in Nat /\ er \in Nat /\ ec \in Nat /\ fr \in Nat /\ fc \in Nat
  BY <1>2, DistanceType
<1>6. /\ ManhattanDistance(p, q) = dr + dc /\ Estimate(q) = er + ec /\ Estimate(p) = fr + fc
  BY DEF ManhattanDistance, Estimate
<1>7. ManhattanDistance(p, q) \in {1, 2}
  <2>1. dr <= 1 /\ dc <= 1
    BY <1>3
  <2> HIDE DEF dr, dc
  <2> QED BY <1>4, <1>5, <1>6, <2>1
<1>8. Estimate(p) \in Nat /\ Estimate(q) \in Nat
  BY <1>1, ManhattanType DEF Estimate
<1>9. /\ Distance(p[1], end[1]) <= Distance(p[1], q[1]) + Distance(q[1], end[1])
      /\ Distance(p[2], end[2]) <= Distance(p[2], q[2]) + Distance(q[2], end[2])
  BY <1>2 DEF Distance
<1>10. Estimate(p) <= ManhattanDistance(p, q) + Estimate(q)
  <2>1. fr <= dr + er /\ fc <= dc + ec
    BY <1>9
  <2> HIDE DEF dr, dc, er, ec, fr, fc
  <2> QED BY <1>5, <1>6, <2>1
<1> QED BY <1>7, <1>8, <1>10

LEMMA StepsWiden ==
  ASSUME NEW n \in Nat, NEW p \in Within[n], NEW q \in Steps(p), end \in Cells
  PROVE  q \in Within[n + ManhattanDistance(p, q)]
<1>1. q \in Cells \ blocked /\ q \in Neighbours(p)
  BY StepsAreCells
<1>2. CASE ManhattanDistance(p, q) = 1
  <2>1. (n + 1) - 1 = n /\ n + 1 \in Nat \ {0}
    OBVIOUS
  <2>2. \E two : Within[n + 1] = Wider(two, Within[n])
    BY <2>1, WithinIsDefined
  <2> QED BY <1>1, <1>2, <2>2 DEF Wider
<1>3. CASE ManhattanDistance(p, q) = 2
  <2>1. (n + 2) - 2 = n /\ n + 2 \in Nat \ {0} /\ n + 2 # 1
    OBVIOUS
  <2>2. \E one : Within[n + 2] = Wider(Within[n], one)
    BY <2>1, WithinIsDefined
  <2> QED BY <1>1, <1>3, <2>2 DEF Wider
<1> QED BY <1>2, <1>3, StepCosts

LEMMA ShortestInit == Init => ShortestInv
<1> SUFFICES ASSUME Init, Inside PROVE Fresh /\ QueueIsExact /\ ClosedIsFinal /\ CostsAreMet /\ EndIsClosed
  BY SearchInit DEF ShortestInv
<1>1. /\ closed = {} /\ phase = "search" /\ open = {<<0, start>>} /\ g = [p \in {start} |-> 0]
  BY DEF Init, Inside
<1>2. CostsAreMet
  BY <1>1, WithinIsDefined DEF CostsAreMet
<1> QED BY <1>1, <1>2 DEF Fresh, QueueIsExact, ClosedIsFinal, EndIsClosed

\* A point that is popped is expanded at its final cost: its node says what it
\* costs, or it has been expanded before and is left as it is.
LEMMA PoppedFacts ==
  ASSUME ShortestInv, Inside, NEW n \in open, Least(n)
  PROVE  /\ n[2] \in DOMAIN g /\ g[n[2]] \in Nat /\ n[1] \in Nat
         /\ \A m \in open : n[1] <= m[1] /\ m[1] \in Nat
         /\ closed # {} /\ n[2] \notin closed => n[1] = g[n[2]] + Estimate(n[2])
         /\ closed = {} => n = <<0, start>> /\ g[start] = 0 /\ open = {n}
<1>1. TypeOK /\ Rooted /\ Frontier /\ Fresh /\ QueueIsExact
  BY DEF ShortestInv, SearchInv
<1>2. n[2] \in DOMAIN g /\ g[n[2]] \in Nat /\ n[2] \in Cells
  BY <1>1 DEF Frontier, Queued, TypeOK
<1>3. \A m \in open : n[1] <= m[1] /\ m[1] \in Nat
  BY <1>1 DEF TypeOK, Least
<1>4. ASSUME closed # {}, n[2] \notin closed PROVE n[1] = g[n[2]] + Estimate(n[2])
  <2>1. g[n[2]] + Estimate(n[2]) <= n[1] /\ <<g[n[2]] + Estimate(n[2]), n[2]>> \in open
    BY <1>1, <1>2, <1>4 DEF QueueIsExact
  <2>2. Estimate(n[2]) \in Nat
    BY <1>2, ManhattanType DEF Estimate, Inside
  <2> QED BY <1>2, <1>3, <2>1, <2>2
<1>5. closed = {} => n = <<0, start>> /\ g[start] = 0 /\ open = {n}
  BY <1>1 DEF Fresh, Rooted
<1> QED BY <1>2, <1>3, <1>4, <1>5

LEMMA ShortestExpand == ShortestInv /\ Expand => ShortestInv'
<1> SUFFICES ASSUME ShortestInv, Expand PROVE ShortestInv'
  OBVIOUS
<1>1. PICK n \in open :
        /\ Least(n)
        /\ n[2] # end
        /\ closed' = closed \cup {n[2]}
        /\ g' = [q \in DOMAIN g \cup Better(n[2]) |->
                    IF q \in Better(n[2]) THEN CostBy(n[2], q) ELSE g[q]]
        /\ open' = (open \ {n}) \cup
              {<<CostBy(n[2], q) + Estimate(q), q>> : q \in Better(n[2])}
  BY DEF Expand, Estimate
<1>2. phase = "search" /\ UNCHANGED <<blocked, start, end, phase, path>>
  BY DEF Expand
<1>3. /\ TypeOK /\ Inside /\ Frontier /\ Fresh /\ QueueIsExact /\ ClosedIsFinal /\ CostsAreMet
      /\ end \in Cells
  BY <1>2 DEF ShortestInv, SearchInv, Inside
<1> DEFINE p == n[2]
           B == Better(p)
<1>4. /\ p \in DOMAIN g /\ p \in Cells /\ g[p] \in Nat /\ n[1] \in Nat
      /\ \A m \in open : n[1] <= m[1] /\ m[1] \in Nat
      /\ closed # {} /\ p \notin closed => n[1] = g[p] + Estimate(p)
      /\ closed = {} => p = start /\ g[p] = 0 /\ open = {n}
  BY <1>1, <1>3, PoppedFacts DEF TypeOK
<1>5. \A q \in B : /\ q \in Cells /\ q \in Steps(p) /\ q # p /\ q \notin closed
                   /\ CostBy(p, q) \in Nat /\ g[p] < CostBy(p, q)
                   /\ q \in DOMAIN g => CostBy(p, q) < g[q]
  BY <1>3, <1>4, BetterFacts
<1>6. /\ DOMAIN g' = DOMAIN g \cup B
      /\ \A q \in B : g'[q] = CostBy(p, q)
      /\ \A q \in DOMAIN g \ B : g'[q] = g[q]
  BY <1>1
<1>7. \A q \in DOMAIN g : g[q] \in Nat /\ g'[q] \in Nat /\ g'[q] <= g[q]
  BY <1>3, <1>5, <1>6 DEF TypeOK
<1>8. \A q \in DOMAIN g' : q \in Cells /\ Estimate(q) \in Nat /\ Estimate(q)' = Estimate(q)
  BY <1>2, <1>3, <1>5, <1>6, ManhattanType DEF Estimate, TypeOK
<1>9. closed \subseteq DOMAIN g /\ p \notin B /\ g'[p] = g[p] /\ \A q \in closed : q \notin B /\ g'[q] = g[q]
  BY <1>3, <1>4, <1>5, <1>6 DEF Frontier
\* Expanding a point again changes nothing.
<1>10. p \in closed => B = {}
  <2> SUFFICES ASSUME p \in closed, NEW q \in B PROVE FALSE
    OBVIOUS
  <2>1. q \in DOMAIN g /\ g[q] <= CostBy(p, q)
    BY <1>1, <1>3, <1>5 DEF Frontier, ClosedIsFinal
  <2> QED BY <1>5, <1>7, <2>1
\* The ways through p that are new are no cheaper than those to expanded points.
<1>11. ASSUME NEW q \in B, NEW r \in closed \cup {p}
       PROVE  g[r] + Estimate(r) <= CostBy(p, q) + Estimate(q)
  <2>1. p \notin closed
    BY <1>10
  <2>2. /\ Estimate(p) <= ManhattanDistance(p, q) + Estimate(q)
        /\ ManhattanDistance(p, q) \in Nat /\ Estimate(p) \in Nat /\ Estimate(q) \in Nat
    BY <1>3, <1>5, StepCosts
  <2>3. g[p] + Estimate(p) <= CostBy(p, q) + Estimate(q)
    BY <1>4, <2>2 DEF CostBy
  <2>4. CASE r = p
    BY <2>3, <2>4
  <2>5. CASE r \in closed
    <3>1. g[r] + Estimate(r) <= n[1] /\ n[1] = g[p] + Estimate(p)
      BY <1>3, <1>4, <2>1, <2>5 DEF ClosedIsFinal
    <3>2. g[r] \in Nat /\ Estimate(r) \in Nat
      BY <1>7, <1>8, <1>9, <1>6, <2>5
    <3> QED BY <1>4, <1>5, <2>2, <2>3, <3>1, <3>2
  <2> QED BY <2>4, <2>5
<1>12. ASSUME NEW m \in open'
       PROVE  m \in open \ {n} \/ (m[2] \in B /\ m[1] = CostBy(p, m[2]) + Estimate(m[2]))
  BY <1>1
<1>13. QueueIsExact'
  <2>1. ASSUME NEW m \in open' PROVE m[2] \in DOMAIN g' /\ g'[m[2]] + Estimate(m[2]) <= m[1]
    <3>1. CASE m \in open \ {n}
      <4>1. closed # {}
        BY <1>4, <3>1
      <4>2. m[2] \in DOMAIN g /\ g[m[2]] + Estimate(m[2]) <= m[1]
        BY <1>3, <3>1, <4>1 DEF QueueIsExact
      <4> QED BY <1>4, <1>6, <1>7, <1>8, <3>1, <4>2
    <3>2. CASE m[2] \in B /\ m[1] = CostBy(p, m[2]) + Estimate(m[2])
      BY <1>5, <1>6, <1>8, <3>2
    <3> QED BY <1>12, <3>1, <3>2
  <2>2. ASSUME NEW r \in DOMAIN g' \ closed' PROVE <<g'[r] + Estimate(r), r>> \in open'
    <3>1. CASE r \in B
      BY <1>1, <1>6, <3>1
    <3>2. CASE r \notin B
      <4>1. r \in DOMAIN g /\ r \notin closed /\ r # p /\ g'[r] = g[r]
        BY <1>1, <1>6, <3>2
      <4>2. closed # {}
        BY <1>3, <1>4, <4>1 DEF Fresh
      <4>3. <<g[r] + Estimate(r), r>> \in open /\ <<g[r] + Estimate(r), r>> # n
        BY <1>3, <4>1, <4>2 DEF QueueIsExact
      <4> QED BY <1>1, <4>1, <4>3
    <3> QED BY <3>1, <3>2
  <2>3. ASSUME NEW m \in open' PROVE Estimate(m[2])' = Estimate(m[2])
    BY <1>8, <2>1
  <2> QED BY <1>2, <1>8, <2>1, <2>2 DEF QueueIsExact, Estimate
<1>14. ClosedIsFinal'
  <2>1. ASSUME NEW r \in closed', NEW m \in open' PROVE g'[r] + Estimate(r) <= m[1]
    <3>1. r \in closed \cup {p} /\ g'[r] = g[r]
      BY <1>1, <1>9
    <3>2. CASE m[2] \in B /\ m[1] = CostBy(p, m[2]) + Estimate(m[2])
      BY <1>11, <3>1, <3>2
    <3>3. CASE m \in open \ {n}
      <4>1. closed # {}
        BY <1>4, <3>3
      <4>2. CASE r \in closed
        BY <1>3, <3>1, <3>3, <4>2 DEF ClosedIsFinal
      <4>3. CASE r \notin closed
        BY <1>4, <3>1, <3>3, <4>1, <4>3
      <4> QED BY <4>2, <4>3
    <3> QED BY <1>12, <3>2, <3>3
  <2>2. ASSUME NEW r \in closed' \ {end}, NEW q \in Steps(r)
        PROVE  g'[q] <= g'[r] + ManhattanDistance(r, q)
    <3>1. r \in closed \cup {p} /\ g'[r] = g[r] /\ g[r] \in Nat
      BY <1>1, <1>4, <1>7, <1>9
    <3>2. /\ ManhattanDistance(r, q) \in Nat /\ Estimate(q) \in Nat /\ Estimate(r) \in Nat
          /\ Estimate(r) <= ManhattanDistance(r, q) + Estimate(q)
      BY <1>3, StepCosts
    <3>3. CASE r \in closed
      <4>1. q \in DOMAIN g /\ g[q] <= CostBy(r, q)
        BY <1>3, <2>2, <3>3 DEF Frontier, ClosedIsFinal
      <4> QED BY <1>7, <3>1, <3>2, <4>1 DEF CostBy
    <3>4. CASE r = p /\ p \notin closed
      <4>1. CASE q \in B
        BY <1>5, <1>6, <3>1, <3>2, <3>4, <4>1 DEF CostBy
      <4>2. CASE q \in closed
        <5>1. g[q] + Estimate(q) <= n[1] /\ n[1] = g[p] + Estimate(p)
          BY <1>3, <1>4, <3>4, <4>2 DEF ClosedIsFinal
        <5>2. g[q] \in Nat /\ g'[q] = g[q]
          BY <1>7, <1>9, <4>2
        <5> QED BY <1>4, <3>1, <3>2, <3>4, <5>1, <5>2
      <4>3. CASE q \notin B /\ q \notin closed
        <5>1. q # p
          BY <3>4, StepsAreCells
        <5>2. q \in DOMAIN g /\ ~(CostBy(p, q) < g[q])
          BY <3>4, <4>3, <5>1 DEF Better
        <5> QED BY <1>6, <1>7, <3>1, <3>2, <3>4, <4>3, <5>2 DEF CostBy
      <4> QED BY <4>1, <4>2, <4>3
    <3> QED BY <3>1, <3>3, <3>4
  <2>3. \A r \in closed' : Estimate(r)' = Estimate(r)
    BY <1>2 DEF Estimate
  <2>4. \A r : Steps(r)' = Steps(r)
    BY <1>2, AdjacentsAreNeighbours DEF Steps, Neighbours
  <2>5. \A r, q : CostBy(r, q)' = g'[r] + ManhattanDistance(r, q)
    BY DEF CostBy
  <2> QED BY <1>2, <2>1, <2>2, <2>3, <2>4, <2>5 DEF ClosedIsFinal
<1>15. CostsAreMet'
  <2>1. Within' = Within
    BY <1>2 DEF Within, Neighbours
  <2>2. ASSUME NEW r \in DOMAIN g' PROVE r \in Within[g'[r]]
    <3>1. CASE r \in B
      <4>1. p \in Within[g[p]]
        BY <1>3, <1>4 DEF CostsAreMet
      <4> QED BY <1>3, <1>4, <1>5, <1>6, <3>1, <4>1, StepsWiden DEF CostBy
    <3>2. CASE r \notin B
      BY <1>3, <1>6, <3>2 DEF CostsAreMet
    <3> QED BY <3>1, <3>2
  <2> QED BY <2>1, <2>2 DEF CostsAreMet
<1>16. Fresh' /\ EndIsClosed'
  BY <1>1, <1>2 DEF Fresh, EndIsClosed
<1>17. SearchInv'
  BY ExpandKeeps DEF ShortestInv
<1> QED BY <1>13, <1>14, <1>15, <1>16, <1>17 DEF ShortestInv

LEMMA ShortestStep == ShortestInv /\ [Next]_vars => ShortestInv'
<1> SUFFICES ASSUME ShortestInv, [Next]_vars PROVE ShortestInv'
  OBVIOUS
<1>1. SearchInv'
  BY SearchStep DEF ShortestInv
<1>2. CASE Arrive
  <2>1. PICK n \in open : /\ Least(n) /\ n[2] = end
                         /\ open' = open \ {n} /\ closed' = closed \cup {end}
    BY <1>2 DEF Arrive
  <2>2. /\ phase = "search" /\ phase' = "walk" /\ path' = <<end>>
        /\ UNCHANGED <<blocked, start, end, parents, g>>
    BY <1>2 DEF Arrive
  <2>3. /\ TypeOK /\ Inside /\ Frontier /\ Fresh /\ QueueIsExact /\ ClosedIsFinal /\ CostsAreMet
        /\ end \in Cells /\ end \notin closed
    BY <2>2 DEF ShortestInv, SearchInv, Inside, Frontier
  <2>4. /\ g[end] \in Nat /\ \A m \in open : n[1] <= m[1] /\ m[1] \in Nat /\ n[1] \in Nat
        /\ closed # {} => n[1] = g[end] + Estimate(end)
        /\ closed = {} => end = start /\ open = {n}
    BY <2>1, <2>3, PoppedFacts
  <2>5. Estimate(end) = 0
    BY <2>3, CellsAreIntegers DEF Estimate, ManhattanDistance, Distance
  <2>6. ASSUME NEW q \in closed', NEW m \in open' PROVE g[q] + Estimate(q) <= m[1]
    <3>1. m \in open /\ closed # {}
      BY <2>1, <2>4
    <3>2. CASE q \in closed
      BY <2>3, <3>1, <3>2 DEF ClosedIsFinal
    <3>3. CASE q = end
      BY <2>4, <2>5, <3>1, <3>3
    <3> QED BY <2>1, <3>2, <3>3
  <2>7. QueueIsExact'
    <3>1. ASSUME NEW m \in open' PROVE m[2] \in DOMAIN g /\ g[m[2]] + Estimate(m[2]) <= m[1]
      BY <2>1, <2>3, <2>4 DEF QueueIsExact
    <3>2. ASSUME NEW p \in DOMAIN g \ closed' PROVE <<g[p] + Estimate(p), p>> \in open'
      <4>1. p \in DOMAIN g \ closed /\ p # end
        BY <2>1
      <4>2. closed # {}
        BY <2>3, <2>4, <4>1 DEF Fresh
      <4> QED BY <2>1, <2>3, <4>1, <4>2 DEF QueueIsExact
    <3> QED BY <2>2, <3>1, <3>2 DEF QueueIsExact, Estimate
  <2>8. ClosedIsFinal'
    BY <2>1, <2>2, <2>3, <2>6, AdjacentsAreNeighbours DEF ClosedIsFinal, Estimate, Steps, Neighbours, CostBy
  <2>9. Fresh' /\ EndIsClosed'
    BY <2>1, <2>2 DEF Fresh, EndIsClosed
  <2>10. CostsAreMet'
    BY <2>2, <2>3 DEF CostsAreMet, Within, Neighbours
  <2> QED BY <1>1, <2>7, <2>8, <2>9, <2>10 DEF ShortestInv
<1>3. CASE Expand
  BY <1>3, ShortestExpand
<1>4. CASE GiveUp \/ Walk \/ Return
  <2>1. /\ phase \in {"search", "walk"} /\ (phase = "search" => open = {} /\ phase' = "none")
        /\ phase = "walk" => phase' \in {"walk", "found"}
        /\ UNCHANGED <<blocked, start, end, open, closed, g>>
    BY <1>4 DEF GiveUp, Walk, Return
  <2>2. /\ Inside /\ Inside' /\ Fresh /\ QueueIsExact /\ ClosedIsFinal /\ CostsAreMet /\ EndIsClosed
    BY <2>1 DEF ShortestInv, SearchInv, Inside
  <2>3. QueueIsExact' /\ ClosedIsFinal'
    BY <2>1, <2>2, AdjacentsAreNeighbours DEF QueueIsExact, ClosedIsFinal, Estimate, Steps, Neighbours, CostBy
  <2>4. Fresh' /\ EndIsClosed'
    BY <2>1, <2>2 DEF Fresh, EndIsClosed
  <2>5. CostsAreMet'
    BY <2>1, <2>2 DEF CostsAreMet, Within, Neighbours
  <2> QED BY <1>1, <2>3, <2>4, <2>5 DEF ShortestInv
<1>5. CASE UNCHANGED vars
  <2>1. (Inside' <=> Inside) /\ (QueueIsExact /\ ClosedIsFinal => QueueIsExact' /\ ClosedIsFinal')
    BY <1>5, AdjacentsAreNeighbours DEF Inside, QueueIsExact, ClosedIsFinal, Estimate, Steps, Neighbours, CostBy, vars
  <2>2. (Fresh /\ EndIsClosed => Fresh' /\ EndIsClosed') /\ (CostsAreMet => CostsAreMet')
    BY <1>5 DEF Fresh, EndIsClosed, CostsAreMet, Within, Neighbours, vars
  <2> QED BY <1>1, <2>1, <2>2 DEF ShortestInv
<1> QED BY <1>2, <1>3, <1>4, <1>5 DEF Next

\* Whatever can be reached at a cost that, with the estimate, is below the cost
\* of the end has been expanded at no more than that cost.
LEMMA CheaperIsClosed ==
  ASSUME ShortestInv, Inside, phase = "found", NEW n \in Nat, NEW q \in Within[n],
         n + Estimate(q) < g[end]
  PROVE  q \in closed \ {end} /\ g[q] <= n
<1> DEFINE Holds(i, r) == r \in closed \ {end} /\ g[r] <= i
           Bad == {i \in Nat : \E r \in Within[i] : i + Estimate(r) < g[end] /\ ~Holds(i, r)}
<1> SUFFICES ASSUME Bad # {} PROVE FALSE
  OBVIOUS
<1>1. PICK i \in Bad : \A j \in Bad : i <= j
  <2> HIDE DEF Bad
  <2>1. Bad \in SUBSET Nat
    BY DEF Bad
  <2> QED BY <2>1, LeastOf
<1>2. PICK r \in Within[i] : i + Estimate(r) < g[end] /\ ~Holds(i, r)
  OBVIOUS
<1>3. \A j \in Nat : \A p \in Within[j] : j < i /\ j + Estimate(p) < g[end] => Holds(j, p)
  BY <1>1
<1> HIDE DEF Bad
<1>4. /\ TypeOK /\ Rooted /\ Frontier /\ QueueIsExact /\ ClosedIsFinal
      /\ end \in Cells /\ end \in closed /\ end \in DOMAIN g /\ i \in Nat
  BY <1>1 DEF ShortestInv, SearchInv, Inside, EndIsClosed, Frontier, Bad
<1>5. Estimate(end) = 0 /\ \A p \in DOMAIN g : p \in Cells /\ g[p] \in Nat /\ Estimate(p) \in Nat
  BY <1>4, CellsAreIntegers, ManhattanType DEF Estimate, ManhattanDistance, Distance, TypeOK
\* It is enough that the way to r has been noted: what is queued costs as much
\* as the end.
<1>6. SUFFICES r \in DOMAIN g /\ g[r] <= i
  <2>1. SUFFICES ASSUME r \in DOMAIN g, g[r] <= i PROVE r \in closed /\ r # end
    BY <1>2
  <2>2. r # end
    BY <1>2, <1>4, <1>5, <2>1
  <2>3. ASSUME r \notin closed PROVE FALSE
    <3>1. <<g[r] + Estimate(r), r>> \in open
      BY <1>4, <2>1, <2>3 DEF QueueIsExact
    <3>2. g[end] + Estimate(end) <= g[r] + Estimate(r)
      BY <1>4, <3>1 DEF ClosedIsFinal
    <3> QED BY <1>2, <1>4, <1>5, <2>1, <3>2
  <2> QED BY <2>2, <2>3
<1>7. CASE i = 0
  BY <1>4, <1>7, WithinIsDefined DEF Rooted
<1>8. CASE i # 0
  <2> DEFINE two == IF i = 1 THEN {} ELSE Within[i - 2]
             one == Within[i - 1]
  <2>1. Within[i] = Wider(two, one)
    BY <1>4, <1>8, WithinIsDefined
  <2>5. r \in Cells
    BY <1>2, <1>4, WithinIsInside DEF Inside
  \* One step less, or two for a diagonal one.
  <2>2. ASSUME NEW k \in {1, 2}, k <= i, NEW p \in Within[i - k], r \in Steps(p),
               ManhattanDistance(p, r) <= k
        PROVE  r \in DOMAIN g /\ g[r] <= i
    <3>1. /\ ManhattanDistance(p, r) \in Nat /\ Estimate(p) \in Nat /\ Estimate(r) \in Nat
          /\ Estimate(p) <= ManhattanDistance(p, r) + Estimate(r)
      BY <1>4, <2>2, StepCosts
    <3>2. g[end] \in Nat /\ i - k \in Nat /\ i - k < i /\ (i - k) + Estimate(p) < g[end]
      BY <1>2, <1>4, <1>5, <2>2, <3>1
    <3>3. p \in closed \ {end} /\ g[p] <= i - k
      BY <1>3, <3>2
    <3>4. r \in DOMAIN g /\ g[r] <= CostBy(p, r) /\ p \in DOMAIN g
      BY <1>4, <2>2, <3>3 DEF Frontier, ClosedIsFinal
    <3> QED BY <1>4, <1>5, <2>2, <3>1, <3>2, <3>3, <3>4 DEF CostBy
  <2>3. CASE r \in one
    <3>1. Estimate(r) \in Nat /\ g[end] \in Nat
      BY <1>4, <1>5, <2>5, ManhattanType DEF Estimate
    <3>2. i - 1 \in Nat /\ i - 1 < i /\ (i - 1) + Estimate(r) < g[end]
      BY <1>2, <1>4, <1>8, <3>1
    <3>3. r \in closed /\ g[r] <= i - 1
      BY <1>3, <2>3, <3>2
    <3> QED BY <1>4, <1>5, <3>3 DEF Frontier
  <2>4. CASE r \notin one
    <3>1. r \in Cells \ blocked
      BY <2>1, <2>4 DEF Wider
    <3>2. CASE \E p \in one : r \in Neighbours(p) /\ ManhattanDistance(p, r) = 1
      <4>1. PICK p \in one : r \in Steps(p) /\ ManhattanDistance(p, r) = 1
        BY <3>1, <3>2, AdjacentsAreNeighbours DEF Steps
      <4>2. 1 \in {1, 2} /\ 1 <= i /\ 1 <= 1
        BY <1>4, <1>8
      <4> QED BY <2>2, <4>1, <4>2
    <3>3. CASE \E p \in two : r \in Neighbours(p)
      <4>1. PICK p \in two : r \in Steps(p)
        BY <3>1, <3>3, AdjacentsAreNeighbours DEF Steps
      <4>2. 2 \in {1, 2} /\ 2 <= i /\ p \in Within[i - 2]
        BY <1>4, <1>8, <4>1
      <4>3. ManhattanDistance(p, r) <= 2
        BY <1>4, <4>1, StepCosts
      <4> QED BY <2>2, <4>1, <4>2, <4>3
    <3> QED BY <2>1, <2>4, <3>2, <3>3 DEF Wider
  <2> QED BY <2>3, <2>4
<1> QED BY <1>7, <1>8

LEMMA ShortestImplies == ShortestInv => FoundIsShortest
<1> SUFFICES ASSUME ShortestInv, phase = "found"
             PROVE  end \in Within[g[end]] /\ (g[end] > 0 => end \notin Within[g[end] - 1])
  BY DEF FoundIsShortest
<1>1. Inside /\ CostsAreMet /\ Frontier /\ TypeOK /\ end \in closed /\ end \in Cells
  BY DEF ShortestInv, SearchInv, EndIsClosed, Inside
<1>2. end \in DOMAIN g /\ g[end] \in Nat
  BY <1>1 DEF Frontier, TypeOK
<1>3. ASSUME g[end] > 0, end \in Within[g[end] - 1] PROVE FALSE
  <2>1. Estimate(end) = 0
    BY <1>1, CellsAreIntegers DEF Estimate, ManhattanDistance, Distance
  <2>2. g[end] - 1 \in Nat /\ (g[end] - 1) + Estimate(end) < g[end]
    BY <1>2, <1>3, <2>1
  <2> QED BY <1>1, <1>3, <2>2, CheaperIsClosed
<1> QED BY <1>1, <1>2, <1>3 DEF CostsAreMet

LEMMA ShortestInvariant == Spec => []ShortestInv
  BY ShortestInit, ShortestStep, PTL DEF Spec

\* When nothing was found, all that can be reached at any cost was expanded.
LEMMA ReachedIsClosed ==
  ASSUME NoneMeansUnreachable, phase = "none", Inside, NEW n \in Nat
  PROVE  Within[n] \subseteq closed
<1> DEFINE Bad == {i \in Nat : ~(Within[i] \subseteq closed)}
<1> SUFFICES ASSUME Bad # {} PROVE FALSE
  OBVIOUS
<1>1. PICK i \in Bad : \A j \in Bad : i <= j
  <2> HIDE DEF Bad
  <2>1. Bad \in SUBSET Nat
    BY DEF Bad
  <2> QED BY <2>1, LeastOf
<1>2. start \in closed /\ \A p \in closed : Neighbours(p) \subseteq closed \cup blocked
  BY DEF NoneMeansUnreachable, Inside
<1>3. i # 0
  BY <1>2, WithinIsDefined
<1> DEFINE two == IF i = 1 THEN {} ELSE Within[i - 2]
<1>4. Within[i] = Wider(two, Within[i - 1])
  BY <1>3, WithinIsDefined
<1>5. Within[i - 1] \subseteq closed
  BY <1>1, <1>3
<1>6. two \subseteq closed
  BY <1>1, <1>3
<1> QED BY <1>2, <1>4, <1>5, <1>6 DEF Wider

-----------------------------------------------------------------------------
(***************************************************************************)
(* Jump point search.                                                      *)
(***************************************************************************)
Directions == ({-1, 0, 1} \X {-1, 0, 1}) \ {<<0, 0>>}

Sign(x) == IF x > 0 THEN 1 ELSE IF x < 0 THEN -1 ELSE 0

\* The direction of the probe that can see a point r rows and c columns away:
\* along a diagonal, or along the longer side.
Toward(r, c) ==
  <<IF Distance(0, r) >= Distance(0, c) THEN Sign(r) ELSE 0,
    IF Distance(0, c) >= Distance(0, r) THEN Sign(c) ELSE 0>>

LEMMA SameGrid ==
  /\ JPS!Cells = Cells
  /\ \A p : JPS!Adjacents(p) = Neighbours(p) /\ JPS!Neighbours(p) = Neighbours(p)
  /\ \A p : JPS!Free(p) <=> p \in Cells \ blocked
<1>1. JPS!Cells = Cells
  BY DEF JPS!Cells, Cells
<1>2. \A p : JPS!Free(p) <=> p \in Cells \ blocked
  BY <1>1 DEF JPS!Free
<1>3. \A i, n : JPS!Turns(i, n) = Turns(i, n)
  BY DEF JPS!Turns, Turns, JPS!Unsigned, Unsigned
<1>4. \A p : JPS!Adjacents(p) = Adjacents(p)
  BY <1>1, <1>3 DEF JPS!Adjacents, Adjacents
<1>5. \A p : JPS!Neighbours(p) = Neighbours(p)
  BY <1>1 DEF JPS!Neighbours, Neighbours, JPS!Distance, Distance
<1> QED BY <1>1, <1>2, <1>4, <1>5, AdjacentsAreNeighbours

LEMMA Times ==
  ASSUME NEW k \in Int, NEW e \in {-1, 0, 1}
  PROVE  k * e = IF e = 1 THEN k ELSE IF e = 0 THEN 0 ELSE -k
<1>1. k * (-1) = -k /\ k * 0 = 0 /\ k * 1 = k /\ -1 # 0 /\ -1 # 1
  OBVIOUS
<1>2. CASE e = -1
  BY <1>1, <1>2
<1>3. CASE e = 0
  BY <1>1, <1>3
<1>4. CASE e = 1
  BY <1>1, <1>4
<1> QED BY <1>2, <1>3, <1>4
LEMMA OneMore ==
  ASSUME NEW k \in Int, NEW e \in Int
  PROVE  (k + 1) * e = k * e + e /\ k * e \in Int
  OBVIOUS

\* Walking along a row, a column or a diagonal.
LEMMA AheadFacts ==
  ASSUME NEW p \in Int \X Int, NEW d \in Directions, NEW k \in Int
  PROVE  /\ JPS!Ahead(p, d, k) \in Int \X Int
         /\ JPS!Ahead(p, d, k)[1] = p[1] + k * d[1]
         /\ JPS!Ahead(p, d, k)[2] = p[2] + k * d[2]
         /\ JPS!Ahead(p, d, 0) = p
         /\ JPS!Ahead(JPS!Ahead(p, d, k), d, -1) = JPS!Ahead(p, d, k - 1)
<1>1. /\ p[1] \in Int /\ p[2] \in Int /\ p = <<p[1], p[2]>>
      /\ d[1] \in {-1, 0, 1} /\ d[2] \in {-1, 0, 1}
  BY DEF Directions
<1>2. /\ k * d[1] \in Int /\ k * d[2] \in Int /\ 0 * d[1] = 0 /\ 0 * d[2] = 0
      /\ (k - 1) * d[1] = k * d[1] - d[1] /\ (k - 1) * d[2] = k * d[2] - d[2]
      /\ (-1) * d[1] = -d[1] /\ (-1) * d[2] = -d[2]
  <2> SUFFICES ASSUME NEW e \in {-1, 0, 1}
               PROVE  k * e \in Int /\ 0 * e = 0 /\ (k - 1) * e = k * e - e /\ (-1) * e = -e
    BY <1>1
  <2>1. e = -1 \/ e = 0 \/ e = 1
    OBVIOUS
  <2>2. k * e \in Int /\ -e \in Int /\ k - 1 \in Int /\ e \in Int
    BY <2>1
  <2>3. (k - 1) * e = IF e = 1 THEN k - 1 ELSE IF e = 0 THEN 0 ELSE -(k - 1)
    BY Times, <2>2
  <2>4. k * e = IF e = 1 THEN k ELSE IF e = 0 THEN 0 ELSE -k
    BY Times
  <2>5. 0 * e = IF e = 1 THEN 0 ELSE IF e = 0 THEN 0 ELSE -0
    BY Times
  <2>6. (-1) * e = IF e = 1 THEN -1 ELSE IF e = 0 THEN 0 ELSE -(-1)
    BY Times
  <2> QED BY <2>1, <2>2, <2>3, <2>4, <2>5, <2>6
<1>3. JPS!Ahead(p, d, 0) = p
  BY <1>1, <1>2 DEF JPS!Ahead
<1>4. JPS!Ahead(JPS!Ahead(p, d, k), d, -1) = JPS!Ahead(p, d, k - 1)
  BY <1>1, <1>2 DEF JPS!Ahead
<1> QED BY <1>1, <1>2, <1>3, <1>4 DEF JPS!Ahead

\* A probe that starts next to p sees free points, and none without the ones
\* before it.
LEMMA PassedFacts ==
  ASSUME NEW p \in Int \X Int, NEW d \in Directions, NEW stops,
         NEW q \in JPS!Passed(JPS!Ahead(p, d, 1), d, stops)
  PROVE  /\ q \in Cells \ blocked
         /\ \E k \in Nat \ {0} : q[1] = p[1] + k * d[1] /\ q[2] = p[2] + k * d[2]
         /\ \/ JPS!Ahead(q, d, -1) = p
            \/ JPS!Ahead(q, d, -1) \in JPS!Passed(JPS!Ahead(p, d, 1), d, stops)
<1> DEFINE first == JPS!Ahead(p, d, 1)
<1>1. PICK k \in 0..(Rows + Cols) :
        /\ q = JPS!Ahead(first, d, k)
        /\ \A j \in 0..k : JPS!Free(JPS!Ahead(first, d, j))
        /\ \A j \in 0..(k - 1) : JPS!Ahead(first, d, j) \notin stops
  BY DEF JPS!Passed
<1>2. q \in Cells \ blocked
  <2>1. k \in 0..k
    OBVIOUS
  <2> QED BY <1>1, <2>1, SameGrid
<1>3. /\ first \in Int \X Int /\ first[1] = p[1] + d[1] /\ first[2] = p[2] + d[2]
      /\ JPS!Ahead(first, d, -1) = p
  <2>1. JPS!Ahead(first, d, -1) = JPS!Ahead(p, d, 1 - 1) /\ 1 - 1 = 0
    BY AheadFacts
  <2>2. JPS!Ahead(p, d, 0) = p
    BY AheadFacts
  <2>3. d[1] \in Int /\ d[2] \in Int /\ p[1] \in Int /\ p[2] \in Int
    BY DEF Directions
  <2>4. first = <<p[1] + 1 * d[1], p[2] + 1 * d[2]>>
    BY DEF JPS!Ahead
  <2>5. first \in Int \X Int /\ first[1] = p[1] + d[1] /\ first[2] = p[2] + d[2]
    BY <2>3, <2>4
  <2> QED BY <2>1, <2>2, <2>5
<1>4. k \in Int /\ k \in Nat
  BY GridAssumption
<1> HIDE DEF first
<1>5. q[1] = p[1] + (k + 1) * d[1] /\ q[2] = p[2] + (k + 1) * d[2]
  <2>1. q[1] = first[1] + k * d[1] /\ q[2] = first[2] + k * d[2]
    BY <1>1, <1>3, <1>4, AheadFacts
  <2>2. /\ p[1] \in Int /\ p[2] \in Int /\ d[1] \in Int /\ d[2] \in Int
    BY DEF Directions
  <2>3. /\ (k + 1) * d[1] = k * d[1] + d[1] /\ k * d[1] \in Int
        /\ (k + 1) * d[2] = k * d[2] + d[2] /\ k * d[2] \in Int
    BY <1>4, <2>2, OneMore
  <2> QED BY <1>3, <2>1, <2>2, <2>3
<1>6. JPS!Ahead(q, d, -1) = JPS!Ahead(first, d, k - 1)
  BY <1>1, <1>3, <1>4, AheadFacts
<1>7. CASE k = 0
  <2>1. JPS!Ahead(q, d, -1) = p
    BY <1>3, <1>6, <1>7
  <2>2. k + 1 \in Nat \ {0}
    BY <1>4
  <2> QED BY <1>2, <1>5, <2>1, <2>2
<1>8. CASE k # 0
  <2>1. /\ k - 1 \in 0..(Rows + Cols) /\ k + 1 \in Nat \ {0}
        /\ 0..(k - 1) \subseteq 0..k /\ 0..((k - 1) - 1) \subseteq 0..(k - 1)
    BY <1>4, <1>8, GridAssumption
  <2>2. JPS!Ahead(q, d, -1) \in JPS!Passed(first, d, stops)
    BY <1>1, <1>6, <2>1 DEF JPS!Passed
  <2> QED BY <1>2, <1>5, <2>1, <2>2 DEF first
<1> QED BY <1>7, <1>8

\* What one probe sees, from a neighbour q of p on: free points, each after the
\* one it gets as its parent, and each in the only direction it can be seen in.
LEMMA LooksFacts ==
  ASSUME NEW p \in Int \X Int, NEW d \in Directions, NEW l \in JPS!Looks(JPS!Ahead(p, d, 1), d)
  PROVE  /\ l = <<l[1], l[2]>> /\ l[1] \in Cells \ blocked
         /\ l[2] \in Directions
         /\ l[2] = Toward(l[1][1] - p[1], l[1][2] - p[2])
         /\ \/ JPS!CameFrom(p, l) = p
            \/ \E m \in JPS!Looks(JPS!Ahead(p, d, 1), d) : JPS!CameFrom(p, l) = m[1]
<1> DEFINE q == JPS!Ahead(p, d, 1)
           D == JPS!Diagonal(q, d)
<1>1. /\ d[1] \in {-1, 0, 1} /\ d[2] \in {-1, 0, 1} /\ d = <<d[1], d[2]>>
      /\ d[1] # 0 \/ d[2] # 0
      /\ p[1] \in Int /\ p[2] \in Int
  BY DEF Directions
<1>2. ASSUME NEW stops, l[1] \in JPS!Passed(q, d, stops), l = <<l[1], d>>,
             JPS!Passed(q, d, stops) \X {d} \subseteq JPS!Looks(q, d),
             d[1] = 0 \/ d[2] = 0 \/ Distance(0, d[1]) = Distance(0, d[2])
      PROVE  /\ l[1] \in Cells \ blocked /\ l[2] = d
             /\ l[2] = Toward(l[1][1] - p[1], l[1][2] - p[2])
             /\ \/ JPS!CameFrom(p, l) = p
                \/ \E m \in JPS!Looks(q, d) : JPS!CameFrom(p, l) = m[1]
  <2> DEFINE x == l[1]
  <2>0. /\ x \in Cells \ blocked
        /\ \E k \in Nat \ {0} : x[1] = p[1] + k * d[1] /\ x[2] = p[2] + k * d[2]
        /\ \/ JPS!Ahead(x, d, -1) = p
           \/ JPS!Ahead(x, d, -1) \in JPS!Passed(q, d, stops)
    <3>1. x \in JPS!Passed(JPS!Ahead(p, d, 1), d, stops)
      BY <1>2
    <3> HIDE DEF x
    <3> QED BY <3>1, PassedFacts
  <2>1. PICK k \in Nat \ {0} : l[1][1] = p[1] + k * d[1] /\ l[1][2] = p[2] + k * d[2]
    BY <2>0
  <2> DEFINE r == k * d[1]
             c == k * d[2]
  <2>2. l[1][1] - p[1] = r /\ l[1][2] - p[2] = c /\ r \in Int /\ c \in Int
    <3>1. r \in Int /\ c \in Int
      BY <1>1, Times
    <3> HIDE DEF r, c
    <3>2. l[1][1] = p[1] + r /\ l[1][2] = p[2] + c
      BY <2>1 DEF r, c
    <3> QED BY <1>1, <3>1, <3>2
  <2>3. /\ r = IF d[1] = 1 THEN k ELSE IF d[1] = 0 THEN 0 ELSE -k
        /\ c = IF d[2] = 1 THEN k ELSE IF d[2] = 0 THEN 0 ELSE -k
    BY <1>1, Times
  <2> HIDE DEF r, c
  <2>4. Toward(r, c) = d
    BY <1>1, <1>2, <2>3 DEF Toward, Sign, Distance
  <2>5. JPS!CameFrom(p, l) = JPS!Ahead(x, d, -1)
    BY <1>2 DEF JPS!CameFrom
  <2>6. JPS!Ahead(x, d, -1) \in JPS!Passed(q, d, stops) =>
          \E m \in JPS!Looks(q, d) : JPS!CameFrom(p, l) = m[1]
    <3> SUFFICES ASSUME JPS!Ahead(x, d, -1) \in JPS!Passed(q, d, stops)
                 PROVE  \E m \in JPS!Looks(q, d) : JPS!CameFrom(p, l) = m[1]
      OBVIOUS
    <3>1. <<JPS!Ahead(x, d, -1), d>> \in JPS!Looks(q, d)
      BY <1>2
    <3> QED BY <2>5, <3>1
  <2> QED BY <1>2, <2>0, <2>2, <2>4, <2>5, <2>6
<1>3. d[1] * d[2] = 0 <=> d[1] = 0 \/ d[2] = 0
  <2>1. d[1] * d[2] = IF d[2] = 1 THEN d[1] ELSE IF d[2] = 0 THEN 0 ELSE -d[1]
    BY <1>1, Times
  <2> QED BY <1>1, <2>1
<1>4. CASE d[1] * d[2] = 0
  <2>1. JPS!Looks(q, d) = JPS!Straight(q, d) \X {d}
    BY <1>4 DEF JPS!Looks
  <2>2. PICK stops : JPS!Straight(q, d) = JPS!Passed(q, d, stops)
    BY DEF JPS!Straight
  <2>3. /\ l[1] \in JPS!Passed(q, d, stops) /\ l = <<l[1], d>>
        /\ JPS!Passed(q, d, stops) \X {d} \subseteq JPS!Looks(q, d)
    BY <2>1, <2>2
  <2>4. d[1] = 0 \/ d[2] = 0 \/ Distance(0, d[1]) = Distance(0, d[2])
    BY <1>3, <1>4
  <2>5. /\ l[1] \in Cells \ blocked /\ l[2] = d
        /\ l[2] = Toward(l[1][1] - p[1], l[1][2] - p[2])
        /\ \/ JPS!CameFrom(p, l) = p
           \/ \E m \in JPS!Looks(q, d) : JPS!CameFrom(p, l) = m[1]
    BY ONLY <1>2, <2>3, <2>4
  <2> QED BY <2>3, <2>5
<1>5. CASE d[1] * d[2] # 0
  <2> DEFINE Branching == UNION {JPS!Sides(u, d) : u \in {u \in D : JPS!Branches(u, d)}}
  <2>1. /\ D \X {d} \subseteq JPS!Looks(q, d)
        /\ \A s \in Branching : JPS!Straight(s[1], s[2]) \X {s[2]} \subseteq JPS!Looks(q, d)
        /\ l \in D \X {d} \/ \E s \in Branching : l \in JPS!Straight(s[1], s[2]) \X {s[2]}
    BY <1>5 DEF JPS!Looks
  <2>2. PICK stops : D = JPS!Passed(q, d, stops)
    BY DEF JPS!Diagonal
  <2>3. CASE l \in D \X {d}
    <3>1. /\ l[1] \in JPS!Passed(q, d, stops) /\ l = <<l[1], d>>
          /\ JPS!Passed(q, d, stops) \X {d} \subseteq JPS!Looks(q, d)
      BY <2>1, <2>2, <2>3
    <3>2. d[1] = 0 \/ d[2] = 0 \/ Distance(0, d[1]) = Distance(0, d[2])
      BY <1>1, <1>3, <1>5 DEF Distance
    <3>3. /\ l[1] \in Cells \ blocked /\ l[2] = d
          /\ l[2] = Toward(l[1][1] - p[1], l[1][2] - p[2])
          /\ \/ JPS!CameFrom(p, l) = p
             \/ \E m \in JPS!Looks(q, d) : JPS!CameFrom(p, l) = m[1]
      BY ONLY <1>2, <3>1, <3>2
    <3> QED BY <3>1, <3>3
  <2>4. CASE \E s \in Branching : l \in JPS!Straight(s[1], s[2]) \X {s[2]}
    <3>0. PICK s \in Branching : l \in JPS!Straight(s[1], s[2]) \X {s[2]}
      BY <2>4
    <3>1. PICK u \in D : s \in JPS!Sides(u, d)
      OBVIOUS
    <3>2. PICK e \in {<<d[1], 0>>, <<0, d[2]>>} : s = <<JPS!Ahead(u, e, 1), e>>
      BY <3>1 DEF JPS!Sides
    <3> DEFINE x == l[1]
               around == {v \in JPS!Cells : JPS!StopsStraight(v, e)}
               row == JPS!Passed(JPS!Ahead(u, e, 1), e, around)
    <3>3. /\ JPS!Straight(s[1], s[2]) = row /\ x \in row /\ l = <<x, e>>
          /\ row \X {e} \subseteq JPS!Looks(q, d)
      <4>1. s[1] = JPS!Ahead(u, e, 1) /\ s[2] = e
        BY <3>2
      <4>2. JPS!Straight(s[1], s[2]) = row
        BY <4>1 DEF JPS!Straight
      <4> QED BY <2>1, <3>0, <4>1, <4>2
    <3>4. e \in Directions /\ e = <<e[1], e[2]>>
      BY <1>1, <1>3, <1>5 DEF Directions
    <3>5. u \in Cells \ blocked /\ \E k \in Nat \ {0} : u[1] = p[1] + k * d[1] /\ u[2] = p[2] + k * d[2]
      BY <2>2, PassedFacts
    <3>6. u \in Int \X Int
      BY <3>5, GridAssumption DEF Cells
    <3> HIDE DEF x, around
    <3>7. /\ x \in Cells \ blocked
          /\ \E k \in Nat \ {0} : x[1] = u[1] + k * e[1] /\ x[2] = u[2] + k * e[2]
          /\ JPS!Ahead(x, e, -1) = u \/ JPS!Ahead(x, e, -1) \in row
      BY <3>3, <3>4, <3>6, PassedFacts
    <3>8. e = Toward(x[1] - p[1], x[2] - p[2])
      <4>1. PICK a \in Nat \ {0} : u[1] = p[1] + a * d[1] /\ u[2] = p[2] + a * d[2]
        BY <3>5
      <4>2. PICK b \in Nat \ {0} : x[1] = u[1] + b * e[1] /\ x[2] = u[2] + b * e[2]
        BY <3>7
      <4>3. /\ a * d[1] = IF d[1] = 1 THEN a ELSE IF d[1] = 0 THEN 0 ELSE -a
            /\ a * d[2] = IF d[2] = 1 THEN a ELSE IF d[2] = 0 THEN 0 ELSE -a
            /\ b * e[1] = IF e[1] = 1 THEN b ELSE IF e[1] = 0 THEN 0 ELSE -b
            /\ b * e[2] = IF e[2] = 1 THEN b ELSE IF e[2] = 0 THEN 0 ELSE -b
        <5>1. e[1] \in {-1, 0, 1} /\ e[2] \in {-1, 0, 1}
          BY <3>4 DEF Directions
        <5> QED BY <1>1, <5>1, Times
      <4> DEFINE ad1 == a * d[1]
                 ad2 == a * d[2]
                 be1 == b * e[1]
                 be2 == b * e[2]
      <4>4. /\ ad1 \in {a, -a} /\ ad2 \in {a, -a} /\ (d[1] = 1 <=> ad1 = a) /\ (d[2] = 1 <=> ad2 = a)
        BY <1>1, <1>3, <1>5, <4>3
      <4>5. \/ be1 = 0 /\ be2 \in {b, -b} /\ e[1] = 0 /\ e[2] = d[2] /\ (d[2] = 1 <=> be2 = b)
            \/ be2 = 0 /\ be1 \in {b, -b} /\ e[2] = 0 /\ e[1] = d[1] /\ (d[1] = 1 <=> be1 = b)
        BY <1>1, <1>3, <1>5, <4>3
      <4>6. x[1] = p[1] + ad1 + be1 /\ x[2] = p[2] + ad2 + be2
        BY <4>1, <4>2
      <4> HIDE DEF ad1, ad2, be1, be2
      <4>7. x[1] - p[1] = ad1 + be1 /\ x[2] - p[2] = ad2 + be2
        BY <1>1, <4>4, <4>5, <4>6
      <4>8. Toward(ad1 + be1, ad2 + be2) = <<e[1], e[2]>>
        <5> DEFINE r == ad1 + be1
                   c == ad2 + be2
        <5>1. CASE be1 = 0 /\ be2 \in {b, -b} /\ e[1] = 0 /\ e[2] = d[2] /\ (d[2] = 1 <=> be2 = b)
          <6>1. ~(Distance(0, r) >= Distance(0, c)) /\ Distance(0, c) >= Distance(0, r) /\ Sign(c) = e[2]
            BY <1>1, <1>3, <1>5, <4>4, <5>1 DEF Sign, Distance
          <6> HIDE DEF r, c
          <6>2. Toward(r, c) = <<0, e[2]>>
            BY <6>1 DEF Toward
          <6> QED BY <5>1, <6>2 DEF r, c
        <5>2. CASE be2 = 0 /\ be1 \in {b, -b} /\ e[2] = 0 /\ e[1] = d[1] /\ (d[1] = 1 <=> be1 = b)
          <6>1. Distance(0, r) >= Distance(0, c) /\ ~(Distance(0, c) >= Distance(0, r)) /\ Sign(r) = e[1]
            BY <1>1, <1>3, <1>5, <4>4, <5>2 DEF Sign, Distance
          <6> HIDE DEF r, c
          <6>2. Toward(r, c) = <<e[1], 0>>
            BY <6>1 DEF Toward
          <6> QED BY <5>2, <6>2 DEF r, c
        <5> QED BY <4>5, <5>1, <5>2
      <4> QED BY <3>4, <4>7, <4>8
    <3>9. JPS!CameFrom(p, l) = JPS!Ahead(x, e, -1)
      BY <3>3 DEF JPS!CameFrom
    <3>10. \E m \in JPS!Looks(q, d) : JPS!CameFrom(p, l) = m[1]
      <4>1. <<u, d>> \in JPS!Looks(q, d)
        BY <2>1
      <4>2. JPS!Ahead(x, e, -1) \in row => <<JPS!Ahead(x, e, -1), e>> \in JPS!Looks(q, d)
        BY <3>3
      <4> QED BY <3>7, <3>9, <4>1, <4>2
    <3>11. l = <<l[1], l[2]>> /\ l[1] = x /\ l[2] = e
      BY <3>3 DEF x
    <3> QED BY <3>4, <3>7, <3>8, <3>10, <3>11
  <2> QED BY <2>1, <2>3, <2>4
<1> QED BY <1>4, <1>5

\* What a jump from p sees, of all its probes.
LEMMA ProbedFacts ==
  ASSUME NEW p \in Int \X Int, NEW l \in JPS!Probed(p)
  PROVE  /\ p \in Cells
         /\ l = <<l[1], Toward(l[1][1] - p[1], l[1][2] - p[2])>> /\ l[1] \in Cells \ blocked
         /\ JPS!CameFrom(p, l) = p \/ \E m \in JPS!Probed(p) : JPS!CameFrom(p, l) = m[1]
         /\ JPS!CameFrom(p, l) \in Cells /\ l[1] \in Neighbours(JPS!CameFrom(p, l))
<1>1. PICK q \in JPS!Adjacents(p) \ (jumpClosed \cup blocked \cup {p}) :
        l \in JPS!Looks(q, <<q[1] - p[1], q[2] - p[2]>>)
  BY DEF JPS!Probed
<1> DEFINE d == <<q[1] - p[1], q[2] - p[2]>>
<1>2. /\ p \in Cells /\ q \in Cells /\ q # p
      /\ Distance(p[1], q[1]) <= 1 /\ Distance(p[2], q[2]) <= 1
  BY <1>1, SameGrid DEF Neighbours
<1>3. /\ p[1] \in Int /\ p[2] \in Int /\ p = <<p[1], p[2]>>
      /\ q[1] \in Int /\ q[2] \in Int /\ q = <<q[1], q[2]>>
  BY <1>2, CellsAreIntegers
<1>4. d \in Directions
  <2>1. q[1] - p[1] \in {-1, 0, 1} /\ q[2] - p[2] \in {-1, 0, 1}
    BY <1>2, <1>3 DEF Distance
  <2>2. q[1] - p[1] # 0 \/ q[2] - p[2] # 0
    BY <1>2, <1>3
  <2> QED BY <2>1, <2>2 DEF Directions
<1>5. JPS!Ahead(p, d, 1) = q
  BY <1>3 DEF JPS!Ahead
<1>6. l \in JPS!Looks(JPS!Ahead(p, d, 1), d) /\ JPS!Looks(JPS!Ahead(p, d, 1), d) \subseteq JPS!Probed(p)
  BY <1>1, <1>5 DEF JPS!Probed
<1> HIDE DEF d
<1>7. /\ l = <<l[1], l[2]>> /\ l[1] \in Cells \ blocked
      /\ l[2] \in Directions
      /\ l[2] = Toward(l[1][1] - p[1], l[1][2] - p[2])
      /\ \/ JPS!CameFrom(p, l) = p
         \/ \E m \in JPS!Looks(JPS!Ahead(p, d, 1), d) : JPS!CameFrom(p, l) = m[1]
  BY <1>4, <1>6, LooksFacts
<1>8. JPS!CameFrom(p, l) \in Cells
  <2>1. \A m \in JPS!Looks(JPS!Ahead(p, d, 1), d) : m[1] \in Cells
    BY <1>4, LooksFacts
  <2> QED BY <1>2, <1>7, <2>1
<1>9. l[1] \in Neighbours(JPS!CameFrom(p, l))
  <2> DEFINE x == l[1]
             e == l[2]
             y == JPS!CameFrom(p, l)
  <2>1. /\ x[1] \in Int /\ x[2] \in Int /\ x = <<x[1], x[2]>>
        /\ e[1] \in {-1, 0, 1} /\ e[2] \in {-1, 0, 1} /\ (e[1] # 0 \/ e[2] # 0)
    BY <1>7, CellsAreIntegers DEF Directions
  <2>2. y = <<x[1] + (-1) * e[1], x[2] + (-1) * e[2]>>
    BY DEF JPS!CameFrom, JPS!Ahead
  <2>3. y[1] = x[1] - e[1] /\ y[2] = x[2] - e[2]
    BY <2>1, <2>2
  <2> HIDE DEF x, y, e
  <2>4. Distance(y[1], x[1]) <= 1 /\ Distance(y[2], x[2]) <= 1 /\ x # y
    BY <2>1, <2>3 DEF Distance
  <2>5. x \in Cells /\ y \in Cells
    BY <1>7, <1>8 DEF x, y
  <2> QED BY <2>4, <2>5 DEF Neighbours, x, y
<1> QED BY <1>2, <1>6, <1>7, <1>8, <1>9

\* The points that a way back to the start is noted for.
Known == DOMAIN jumpParents \cup {start}

JumpInv ==
  /\ JPS!TypeOK
  /\ \A m \in DOMAIN jumpOpen : m[2] \in Known
  /\ \A q \in DOMAIN jumpParents :
       /\ jumpParents[q] \in Known
       /\ q \in Neighbours(jumpParents[q]) \ blocked
  /\ jumpPhase \in {"walk", "found"} => current \in Known
  /\ jumpPhase = "found" => current = start
  /\ jumpPhase = "search" => current = end

LEMMA JumpInit == JPS!Init => JumpInv
<1> SUFFICES ASSUME JPS!Init PROVE JumpInv
  OBVIOUS
<1>1. /\ blocked \in SUBSET Cells /\ jumpClosed = {} /\ jumpPhase = "search" /\ current = end
      /\ jumpParents = [p \in {} |-> start] /\ jumpOpen = JPS!SetToBag({<<0, start>>})
  BY GridAssumption DEF JPS!Init
<1>2. <<start, end>> \in Searches
  <2>1. PICK s \in Searches : start = s[1] /\ end = s[2]
    BY DEF JPS!Init
  <2> QED BY <2>1, SearchesAssumption
<1>3. JPS!IsABag(jumpOpen) /\ DOMAIN jumpOpen = {<<0, start>>}
  BY <1>1 DEF JPS!IsABag, JPS!SetToBag
<1>4. DOMAIN jumpParents = {}
  BY <1>1
<1>5. JPS!TypeOK
  <2>1. DOMAIN jumpOpen \subseteq Nat \X (Cells \cup {start})
    BY <1>3
  <2> QED BY <1>1, <1>2, <1>3, <1>4, <2>1, SameGrid DEF JPS!TypeOK, JPS!BagToSet
<1> QED BY <1>1, <1>3, <1>4, <1>5 DEF JumpInv, Known

\* Taking a node out of the queue and putting others in.
LEMMA QueueFacts ==
  ASSUME NEW B, NEW n, NEW S, JPS!IsABag(B)
  PROVE  LET b == JPS!(+)(JPS!(-)(B, JPS!SetToBag({n})), JPS!SetToBag(S))
         IN  JPS!IsABag(b) /\ DOMAIN b \subseteq DOMAIN B \cup S
  BY DEF JPS!IsABag, JPS!SetToBag, JPS!(+), JPS!(-)

LEMMA JumpKeeps == JumpInv /\ JPS!Jump => JumpInv'
<1> SUFFICES ASSUME JumpInv, JPS!Jump PROVE JumpInv'
  OBVIOUS
<1> DEFINE Halts(l) == JPS!Stops(l[1], l[2])
           New(p) == {<<JPS!ManhattanDistance(l[1], end), l[1]>> :
                        l \in {l \in {l \in JPS!Probed(p) : Halts(l)} : l[1] # end}}
<1>1. PICK n \in DOMAIN jumpOpen :
        /\ jumpOpen' = JPS!(+)(JPS!(-)(jumpOpen, JPS!SetToBag({n})), JPS!SetToBag(New(n[2])))
        /\ jumpClosed' = jumpClosed \cup {n[2]} \cup
             {l[1] : l \in JPS!Probed(n[2]) \ {l \in JPS!Probed(n[2]) : Halts(l)}}
        /\ jumpParents' =
             [q \in DOMAIN jumpParents \cup {l[1] : l \in JPS!Probed(n[2])} |->
                IF q \in {l[1] : l \in JPS!Probed(n[2])}
                  THEN JPS!CameFrom(n[2], CHOOSE l \in JPS!Probed(n[2]) : l[1] = q)
                  ELSE jumpParents[q]]
        /\ jumpPhase' = IF end \in DOMAIN jumpParents' THEN "walk" ELSE "search"
  BY DEF JPS!Jump, JPS!BagToSet
<1>2. jumpPhase = "search" /\ UNCHANGED <<blocked, start, end, current>>
  BY DEF JPS!Jump
<1> DEFINE p == n[2]
           looks == JPS!Probed(p)
           seen == {l[1] : l \in looks}
<1>3. /\ blocked \in SUBSET Cells /\ <<start, end>> \in Searches
      /\ JPS!IsABag(jumpOpen) /\ DOMAIN jumpOpen \subseteq Nat \X (Cells \cup {start})
      /\ jumpClosed \subseteq Cells \cup {start}
      /\ DOMAIN jumpParents \subseteq Cells \ blocked
      /\ \A q \in DOMAIN jumpParents : jumpParents[q] \in Cells
      /\ current \in Cells \cup {end}
  BY SameGrid DEF JumpInv, JPS!TypeOK, JPS!BagToSet
<1>4. start \in Int \X Int /\ end \in Int \X Int
  BY <1>3, SearchesAssumption
<1>5. p \in Cells \cup {start} /\ p \in Known /\ p \in Int \X Int
  BY <1>1, <1>3, <1>4, CellsAreIntegers DEF JumpInv
<1>6. \A l \in looks :
        /\ l[1] \in Cells \ blocked
        /\ JPS!CameFrom(p, l) = p \/ \E m \in looks : JPS!CameFrom(p, l) = m[1]
        /\ JPS!CameFrom(p, l) \in Cells /\ l[1] \in Neighbours(JPS!CameFrom(p, l))
  BY <1>5, ProbedFacts
<1>7. JPS!IsABag(jumpOpen)' /\ DOMAIN jumpOpen' \subseteq DOMAIN jumpOpen \cup New(p)
  <2> HIDE DEF New
  <2> QED BY <1>1, <1>3, QueueFacts DEF JPS!IsABag
<1>8. ASSUME NEW m \in New(p) PROVE m \in Nat \X Cells /\ m[2] \in seen
  <2>1. PICK l \in looks : m = <<JPS!ManhattanDistance(l[1], end), l[1]>>
    OBVIOUS
  <2>2. l[1] \in Cells /\ l[1][1] \in Int /\ l[1][2] \in Int /\ end[1] \in Int /\ end[2] \in Int
    BY <1>4, <1>6, CellsAreIntegers
  <2>3. JPS!ManhattanDistance(l[1], end) \in Nat
    BY <2>2 DEF JPS!ManhattanDistance, JPS!Distance
  <2> QED BY <2>1, <2>2, <2>3
<1> HIDE DEF New
<1>9. /\ DOMAIN jumpParents' = DOMAIN jumpParents \cup seen
      /\ \A q \in DOMAIN jumpParents \ seen : jumpParents'[q] = jumpParents[q]
      /\ \A q \in seen : \E l \in looks : l[1] = q /\ jumpParents'[q] = JPS!CameFrom(p, l)
  BY <1>1
<1>10. /\ Known' = Known \cup seen /\ seen \subseteq Cells \ blocked
  BY <1>2, <1>6, <1>9 DEF Known
<1>11. ASSUME NEW q \in DOMAIN jumpParents'
       PROVE  /\ jumpParents'[q] \in Known' /\ jumpParents'[q] \in Cells
              /\ q \in Neighbours(jumpParents'[q]) \ blocked
  <2>1. CASE q \in seen
    <3>1. PICK l \in looks : l[1] = q /\ jumpParents'[q] = JPS!CameFrom(p, l)
      BY <1>9, <2>1
    <3>2. JPS!CameFrom(p, l) \in Known \cup seen
      BY <1>5, <1>6
    <3> QED BY <1>6, <1>10, <3>1, <3>2
  <2>2. CASE q \notin seen
    BY <1>3, <1>9, <1>10, <2>2 DEF JumpInv
  <2> QED BY <2>1, <2>2
<1>12. JPS!TypeOK'
  <2>1. DOMAIN jumpOpen' \subseteq Nat \X (Cells \cup {start})
    BY <1>3, <1>7, <1>8
  <2>2. jumpClosed' \subseteq Cells \cup {start}
    BY <1>1, <1>3, <1>5, <1>6
  <2>3. jumpPhase' \in {"search", "walk", "found", "none"}
    BY <1>1
  <2>4. DOMAIN jumpParents' \subseteq Cells \ blocked
    BY <1>3, <1>9, <1>10
  <2> QED BY <1>2, <1>3, <1>7, <1>11, <2>1, <2>2, <2>3, <2>4, SameGrid DEF JPS!TypeOK, JPS!BagToSet
<1>13. \A m \in DOMAIN jumpOpen' : m[2] \in Known'
  BY <1>7, <1>8, <1>10 DEF JumpInv
<1>14. \A q \in DOMAIN jumpParents' : q \in (Neighbours(jumpParents[q]) \ blocked)'
  BY <1>2, <1>11 DEF Neighbours
<1>15. /\ jumpPhase' \in {"walk", "found"} => current' \in Known'
       /\ jumpPhase' # "found" /\ (jumpPhase' = "search" => current' = end')
  BY <1>1, <1>2, <1>9, <1>10 DEF JumpInv, Known
<1> QED BY <1>11, <1>12, <1>13, <1>14, <1>15 DEF JumpInv

LEMMA JumpStep == JumpInv /\ [JPS!Next]_<<blocked, start, end, jumpVars>> => JumpInv'
<1> SUFFICES ASSUME JumpInv, [JPS!Next]_<<blocked, start, end, jumpVars>> PROVE JumpInv'
  OBVIOUS
<1>1. CASE JPS!Jump
  BY <1>1, JumpKeeps
<1>2. CASE JPS!GiveUp \/ JPS!Walk \/ JPS!Return \/ UNCHANGED <<blocked, start, end, jumpVars>>
  <2>1. /\ UNCHANGED <<blocked, start, end, jumpOpen, jumpClosed, jumpParents>>
        /\ \/ jumpPhase' = "none" /\ current' = current
           \/ /\ jumpPhase = "walk" /\ jumpPhase' = "walk"
              /\ current \in DOMAIN jumpParents /\ current' = jumpParents[current]
           \/ /\ jumpPhase = "walk" /\ jumpPhase' = "found"
              /\ current \notin DOMAIN jumpParents /\ current' = current
           \/ jumpPhase' = jumpPhase /\ current' = current
    BY <1>2 DEF JPS!GiveUp, JPS!Walk, JPS!Return, jumpVars
  <2>2. JPS!TypeOK'
    BY <2>1 DEF JumpInv, JPS!TypeOK, JPS!BagToSet, JPS!IsABag
  <2>3. /\ \A m \in DOMAIN jumpOpen' : m[2] \in Known'
        /\ \A q \in DOMAIN jumpParents' : jumpParents'[q] \in Known'
        /\ \A q \in DOMAIN jumpParents' : q \in (Neighbours(jumpParents[q]) \ blocked)'
    BY <2>1 DEF JumpInv, Known, Neighbours
  <2>4. /\ jumpPhase' \in {"walk", "found"} => current' \in Known'
        /\ jumpPhase' = "found" => current' = start'
        /\ jumpPhase' = "search" => current' = end'
    BY <2>1 DEF JumpInv, Known
  <2> QED BY <2>2, <2>3, <2>4 DEF JumpInv
<1> QED BY <1>1, <1>2 DEF JPS!Next

LEMMA JumpImplies == JumpInv => JPS!TypeOK /\ JPS!FoundIsPath /\ JPS!ProbesAreDisjoint
<1> SUFFICES ASSUME JumpInv PROVE JPS!TypeOK /\ JPS!FoundIsPath /\ JPS!ProbesAreDisjoint
  OBVIOUS
<1>1. JPS!TypeOK /\ JPS!FoundIsPath
  BY SameGrid DEF JumpInv, JPS!FoundIsPath
<1>2. ASSUME NEW n \in DOMAIN jumpOpen, NEW l \in JPS!Probed(n[2]), NEW m \in JPS!Probed(n[2]), l[1] = m[1]
      PROVE  l = m
  <2>1. <<start, end>> \in Searches /\ n \in Nat \X (Cells \cup {start})
    BY SameGrid DEF JumpInv, JPS!TypeOK, JPS!BagToSet
  <2>2. n[2] \in Int \X Int
    BY <2>1, SearchesAssumption, CellsAreIntegers
  <2> QED BY <1>2, <2>2, ProbedFacts
<1> QED BY <1>1, <1>2 DEF JPS!ProbesAreDisjoint, JPS!BagToSet

LEMMA JumpInvariant == JPS!Init /\ [][JPS!Next]_<<blocked, start, end, jumpVars>> => []JumpInv
  BY JumpInit, JumpStep, PTL

-----------------------------------------------------------------------------
(***************************************************************************)
(* A call of find_path runs one of the two.                                *)
(***************************************************************************)
LEMMA FindPathRuns ==
  FindSpec => Spec /\ JPS!Init /\ [][JPS!Next]_<<blocked, start, end, jumpVars>>
<1>1. FindInit => Init /\ JPS!Init
  BY DEF FindInit
<1>2. [FindPath]_findVars => [Next]_vars /\ [JPS!Next]_<<blocked, start, end, jumpVars>>
  <2> SUFFICES ASSUME [FindPath]_findVars
               PROVE  [Next]_vars /\ [JPS!Next]_<<blocked, start, end, jumpVars>>
    OBVIOUS
  <2>1. CASE Next /\ UNCHANGED <<algorithm, jumpVars>>
    BY <2>1 DEF Next, Arrive, Expand, GiveUp, Walk, Return
  <2>2. CASE JPS!Next /\ UNCHANGED <<algorithm, open, closed, parents, g, phase, path>>
    BY <2>2 DEF JPS!Next, JPS!Jump, JPS!GiveUp, JPS!Walk, JPS!Return, vars
  <2>3. CASE UNCHANGED findVars
    BY <2>3 DEF findVars, vars, jumpVars
  <2> QED BY <2>1, <2>2, <2>3 DEF FindPath
<1> QED BY <1>1, <1>2, PTL DEF FindSpec, Spec

\* The types hold on a grid of any size: the search (path_finder.hpp:41-81)
\* never steps outside it, and its costs stay natural numbers.
THEOREM SearchTypes == FindSpec => []TypeOK
  BY FindPathRuns, SearchInvariant, InvImplies, PTL

\* What astar returns is a path from start to end that visits no point twice,
\* on a grid of any size, although parents and costs are overwritten during the
\* search (path_finder.hpp:72-74) and followed only afterwards (181-183).
THEOREM FoundPathsAreSound == FindSpec => []FoundIsPath
  BY FindPathRuns, SearchInvariant, InvImplies, PTL

\* When astar returns nothing (path_finder.hpp:80), the points expanded are
\* closed under steps, and hold the start but not the end.
THEOREM NothingFoundIsRight == FindSpec => []NoneMeansUnreachable
  BY FindPathRuns, SearchInvariant, InvImplies, PTL

\* So when astar returns nothing (path_finder.hpp:80), no path of whatever cost
\* leads to the end.
THEOREM NoPathIsMissed ==
  FindSpec => [](phase = "none" /\ Inside => \A n \in Nat : end \notin Within[n])
<1>1. NoneMeansUnreachable => (phase = "none" /\ Inside => \A n \in Nat : end \notin Within[n])
  BY ReachedIsClosed DEF NoneMeansUnreachable, Inside
<1> QED BY <1>1, NothingFoundIsRight, PTL

\* On a grid of any size no path costs less than the one astar returns: it stops
\* when the end is popped (path_finder.hpp:63), and skips the points already
\* popped (66) without lowering their cost.
THEOREM FoundPathsAreShortest == FindSpec => []FoundIsShortest
  BY FindPathRuns, ShortestInvariant, ShortestImplies, PTL

\* What jps returns begins at the start and goes in steps between neighbours
\* that are free, on a grid of any size and whatever later jumps overwrite
\* (path_finder.hpp:108): every parent is the start or has a parent itself.
THEOREM JumpPathsAreSound == FindSpec => []JumpFoundIsPath
  BY FindPathRuns, JumpInvariant, JumpImplies, PTL DEF JumpFoundIsPath

\* No two probes of a jump see the same point, on a grid of any size: the place
\* of a point says which probe of which direction can see it, so the order of
\* the probes (path_finder.hpp:159-162) makes no difference to what they write.
THEOREM ProbesNeverMeet == FindSpec => []JumpProbesAreDisjoint
  BY FindPathRuns, JumpInvariant, JumpImplies, PTL DEF JumpProbesAreDisjoint

=============================================================================
