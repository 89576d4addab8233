--------------------------- MODULE SubworldProofs ---------------------------
(***************************************************************************)
(* What holds of a subworld of any size, on a lattice of any fineness and  *)
(* for headings in all directions.                                         *)
(***************************************************************************)
EXTENDS Subworld, TLAPS

\* A quotient is bounded by what it divides, and determined by it.
LEMMA Quotient ==
  ASSUME NEW a \in Int, NEW c \in Nat \ {0}
  PROVE  /\ a \div c \in Int
         /\ c * (a \div c) <= a /\ a < c * (a \div c) + c
  OBVIOUS

LEMMA QuotientIs ==
  ASSUME NEW a \in Int, NEW c \in Nat \ {0}, NEW q \in Int, c * q <= a, a < c * q + c
  PROVE  a \div c = q
<1> DEFINE r == a \div c
<1>1. r \in Int /\ c * r <= a /\ a < c * r + c
  BY Quotient
<1> HIDE DEF r
<1>2. c * (r - q) < c /\ c * (q - r) < c
  BY <1>1
<1>3. ASSUME NEW d \in Int, c * d < c PROVE d <= 0
  BY <1>3
<1>4. r - q <= 0 /\ q - r <= 0
  BY <1>1, <1>2, <1>3
<1>5. r = q
  BY <1>1, <1>4
<1> QED BY <1>5 DEF r

\* A number and its bound, multiplied.
LEMMA ProductBound ==
  ASSUME NEW h \in Int, NEW b \in Int, NEW c \in Nat, -c <= b, b <= c
  PROVE  h * b >= -(Abs(h) * c) /\ Abs(h) \in Nat /\ Abs(h) * Abs(h) = h * h
<1>1. CASE h >= 0
  <2>1. Abs(h) = h /\ h \in Nat
    BY <1>1 DEF Abs
  <2>2. h * (b + c) >= 0
    BY <1>1
  <2> QED BY <2>1, <2>2
<1>2. CASE h < 0
  <2>1. Abs(h) = -h /\ -h \in Nat
    BY <1>2 DEF Abs
  <2>2. (-h) * (c - b) >= 0
    BY <1>2
  <2> QED BY <2>1, <2>2
<1> QED BY <1>1, <1>2

\* The sides of a unit step are shorter than two steps together.
LEMMA SidesShort ==
  ASSUME NEW a \in Nat, NEW b \in Nat, NEW u \in Nat \ {0}, a * a + b * b = u * u
  PROVE  a + b < 2 * u
<1>1. (a + b) * (a + b) + (a - b) * (a - b) = 2 * (u * u)
  OBVIOUS
<1>2. (a - b) * (a - b) >= 0 /\ u * u > 0
  OBVIOUS
<1>3. (a + b) * (a + b) < (2 * u) * (2 * u)
  BY <1>1, <1>2
<1>4. SUFFICES ASSUME a + b >= 2 * u PROVE FALSE
  OBVIOUS
<1>5. (a + b) * (a + b) >= (2 * u) * (2 * u)
  BY <1>4
<1> QED BY <1>3, <1>5

\* CloseTargetsAreHit needs that a side is no longer than the distance.
LEMMA SideWithinDistance ==
  ASSUME NEW a \in Int, NEW b \in Int, NEW c \in Nat, a * a + b * b <= c * c
  PROVE  -c <= a /\ a <= c
<1>1. b * b >= 0
  OBVIOUS
<1>2. ASSUME a > c PROVE FALSE
  <2>1. a * a > c * c
    BY <1>2
  <2> QED BY <1>1, <2>1
<1>3. ASSUME a < -c PROVE FALSE
  <2>1. (-a) * (-a) > c * c
    BY <1>3
  <2> QED BY <1>1, <2>1
<1> QED BY <1>2, <1>3
-----------------------------------------------------------------------------
LEMMA Units ==
  /\ Unit \in Nat \ {0} /\ Cell \in Nat \ {0} /\ Cell = 4 * Unit
  /\ BodyHalf = 2 * Unit /\ FistHalf = 2 * Unit
  /\ Still \in Vectors /\ Spawn \in Vectors
  /\ <<Unit, 0>> \in Headings /\ <<-Unit, 0>> \in Headings /\ Headings \subseteq Vectors
  /\ Players \cap Monsters = {}
<1>1. Rows \div 2 \in Int /\ Cols \div 2 \in Int
  BY SubworldAssumption
<1> QED BY <1>1, SubworldAssumption DEF Cell, BodyHalf, FistHalf, Still, Spawn, Vectors

LEMMA PlaceAhead ==
  ASSUME NEW v \in Vectors, NEW w \in Vectors
  PROVE  <<v[1] + w[1], v[2] + w[2]>> \in Vectors
  BY DEF Vectors

LEMMA StridesAreVectors ==
  ASSUME TypeOK, NEW e \in Entities
  PROVE  Strides(e) \subseteq Vectors
<1> USE DEF TypeOK
<1>1. position[e] \in Vectors
  OBVIOUS
<1>2. CASE e \in Players
  <2>1. direction[e] \in Vectors
    BY <1>2, Units
  <2>2. Ahead(e, direction[e]) \in Vectors
    BY <1>1, <2>1, PlaceAhead DEF Ahead
  <2> QED BY <1>2, <2>2 DEF Strides
<1>3. CASE e \notin Players
  <2>1. goal[e] \in Vectors
    BY <1>3 DEF Entities
  <2>2. ASSUME NEW i \in -Pace..Pace, NEW j \in -Pace..Pace PROVE Ahead(e, <<i, j>>) \in Vectors
    <3>1. <<i, j>> \in Vectors
      BY SubworldAssumption DEF Vectors
    <3> QED BY <1>1, <3>1, PlaceAhead DEF Ahead
  <2>3. CASE Far(position[e], goal[e]) <= Square(Pace)
    BY <1>3, <2>1, <2>3 DEF Strides
  <2>4. CASE ~(Far(position[e], goal[e]) <= Square(Pace))
    <3> DEFINE A == {Ahead(e, <<i, j>>) : i \in -Pace..Pace, j \in -Pace..Pace}
               P(n) == Far(n, position[e]) <= Square(Pace) /\ Far(n, goal[e]) < Far(position[e], goal[e])
    <3>1. ASSUME NEW n \in A PROVE n \in Vectors
      <4>1. PICK i \in -Pace..Pace, j \in -Pace..Pace : n = Ahead(e, <<i, j>>)
        OBVIOUS
      <4> QED BY <2>2, <4>1
    <3>2. Strides(e) = {n \in A : P(n)}
      BY <1>3, <2>4 DEF Strides
    <3> HIDE DEF A, P
    <3> QED BY <3>1, <3>2
  <2> QED BY <2>3, <2>4
<1> QED BY <1>2, <1>3

LEMMA MovesAreVectors ==
  ASSUME TypeOK, NEW e \in Entities
  PROVE  Moves(e) \subseteq Vectors
  BY StridesAreVectors DEF Moves, TypeOK

LEMMA TypeStep ==
  ASSUME TypeOK, [Next]_vars
  PROVE  TypeOK'
<1> USE DEF TypeOK
<1>1. CASE Tick
  <2>1. position' \in [Entities -> UNION {Moves(e) : e \in Entities}]
    BY <1>1 DEF Tick
  <2>2. UNION {Moves(e) : e \in Entities} \subseteq Vectors
    BY MovesAreVectors
  <2>3. position' \in [Entities -> Vectors]
    BY <2>1, <2>2
  <2>4. \A a \in Areas : Entered(a) \subseteq Entities /\ Exited(a) \subseteq Entities
    BY DEF Entered, Exited
  <2>5. contacts' \in [Areas -> SUBSET Entities] /\ heard' \in [Areas -> SUBSET Entities]
    BY <1>1, <2>4 DEF Tick
  <2> QED BY <1>1, <2>3, <2>5 DEF Tick
<1>2. ASSUME NEW p \in Players, AddEntity(p) PROVE TypeOK'
  BY <1>2, Units DEF AddEntity, areaVars, Entities
<1>3. ASSUME NEW p \in Players, RemoveEntity(p) PROVE TypeOK'
  BY <1>3 DEF RemoveEntity, areaVars
<1>4. ASSUME NEW p \in Players, NEW h \in Headings \cup {Still}, Face(p, h) PROVE TypeOK'
  BY <1>4 DEF Face, areaVars
<1>5. ASSUME NEW m \in Monsters, Aim(m) PROVE TypeOK'
  <2>1. PICK q \in {Centre(c) : c \in Cells \ blocked} \cup {position[p] : p \in present \cap Players} :
          goal' = [goal EXCEPT ![m] = q]
    BY <1>5 DEF Aim
  <2>2. \A c \in Cells : Centre(c) \in Vectors
    BY Units, SubworldAssumption DEF Cells, Centre, Vectors
  <2>3. \A p \in present \cap Players : position[p] \in Vectors
    OBVIOUS
  <2>4. q \in Vectors
    BY <2>1, <2>2, <2>3
  <2> QED BY <1>5, <2>1, <2>4 DEF Aim, areaVars
<1>6. ASSUME NEW e \in Entities, Attack(e) \/ Recover(e) PROVE TypeOK'
  BY <1>6 DEF Attack, Recover, areaVars
<1>7. ASSUME NEW a \in Areas, AddArea(a) \/ RemoveArea(a) PROVE TypeOK'
  BY <1>7 DEF AddArea, RemoveArea, entityVars
<1>8. CASE UNCHANGED vars
  BY <1>8 DEF vars, entityVars, areaVars
<1> QED BY <1>1, <1>2, <1>3, <1>4, <1>5, <1>6, <1>7, <1>8 DEF Next

\* TypeOK: entities stay on the lattice, whatever moves them.
THEOREM TypeCorrect == Spec => []TypeOK
<1>1. Init => TypeOK
  BY Units, SubworldAssumption DEF Init, TypeOK, Entities
<1>2. TypeOK /\ [Next]_vars => TypeOK'
  BY TypeStep
<1> QED BY <1>1, <1>2, PTL DEF Spec
-----------------------------------------------------------------------------
\* StrikesAreInFront: with a box of half a metre a metre ahead, whatever the
\* box touches reaches in front of its owner, in whichever direction he looks.
THEOREM StrikesInFront == Spec => []StrikesAreInFront
<1>1. ASSUME TypeOK, NEW p \in Players, NEW v \in Hits(p) PROVE InFront(p, v)
  <2> DEFINE h == rotation[p]  a == Abs(h[1])  b == Abs(h[2])
             x == position[v][1] - position[p][1]  y == position[v][2] - position[p][2]
  <2>1. h \in Headings /\ h[1] \in Int /\ h[2] \in Int /\ h[1] * h[1] + h[2] * h[2] = Unit * Unit
    <3>1. h \in Headings /\ h \in Vectors /\ Far(h, Still) = Square(Unit)
      BY <1>1, Units, SubworldAssumption DEF TypeOK
    <3> QED BY <3>1 DEF Vectors, Far, Square, Still
  <2>2. v \in present /\ v \in Entities /\ p \in Entities
    BY <1>1 DEF Hits, TypeOK, Entities
  <2>3. position[v] \in Vectors /\ position[p] \in Vectors
    BY <1>1, <2>2 DEF TypeOK
  <2>4. x \in Int /\ y \in Int
    BY <2>3 DEF Vectors
  <2>5. /\ -(4 * Unit) <= x - 4 * h[1] /\ x - 4 * h[1] <= 4 * Unit
        /\ -(4 * Unit) <= y - 4 * h[2] /\ y - 4 * h[2] <= 4 * Unit
    <3>1. CubesTouch(position[v], BodyHalf, Fist(p), FistHalf)
      BY <1>1 DEF Hits
    <3>2. Fist(p)[1] = position[p][1] + 4 * h[1] /\ Fist(p)[2] = position[p][2] + 4 * h[2]
      BY DEF Fist
    <3>3. \A i \in 1..2 : /\ position[v][i] - 2 * Unit <= Fist(p)[i] + 2 * Unit
                          /\ position[v][i] + 2 * Unit >= Fist(p)[i] - 2 * Unit
      BY <3>1, Units DEF CubesTouch
    <3>4. /\ position[v][1] - 2 * Unit <= position[p][1] + 4 * h[1] + 2 * Unit
          /\ position[v][1] + 2 * Unit >= position[p][1] + 4 * h[1] - 2 * Unit
          /\ position[v][2] - 2 * Unit <= position[p][2] + 4 * h[2] + 2 * Unit
          /\ position[v][2] + 2 * Unit >= position[p][2] + 4 * h[2] - 2 * Unit
      <4>1. 1 \in 1..2 /\ 2 \in 1..2
        OBVIOUS
      <4> HIDE DEF h
      <4>2. /\ position[v][1] - 2 * Unit <= Fist(p)[1] + 2 * Unit
            /\ position[v][1] + 2 * Unit >= Fist(p)[1] - 2 * Unit
        BY <3>3, <4>1
      <4>3. /\ position[v][2] - 2 * Unit <= Fist(p)[2] + 2 * Unit
            /\ position[v][2] + 2 * Unit >= Fist(p)[2] - 2 * Unit
        BY <3>3, <4>1
      <4>4. /\ position[v][1] \in Int /\ position[v][2] \in Int /\ position[p][1] \in Int
            /\ position[p][2] \in Int /\ Unit \in Int
        BY <2>3, Units DEF Vectors
      <4> DEFINE f == Fist(p)[1]  g == Fist(p)[2]
      <4>5. f \in Int /\ g \in Int
        BY <2>1, <3>2, <4>4
      <4> HIDE DEF f, g
      <4> QED BY <2>1, <3>2, <4>2, <4>3, <4>4, <4>5 DEF f, g
    <3> HIDE DEF h
    <3> QED BY <2>1, <2>3, <3>4, Units DEF Vectors
  <2> HIDE DEF h, x, y
  <2>6. 4 * Unit \in Nat /\ Unit \in Nat \ {0}
    BY Units
  <2>7. /\ h[1] * (x - 4 * h[1]) >= -(a * (4 * Unit)) /\ a \in Nat /\ a * a = h[1] * h[1]
        /\ h[2] * (y - 4 * h[2]) >= -(b * (4 * Unit)) /\ b \in Nat /\ b * b = h[2] * h[2]
    <3> DEFINE s == x - 4 * h[1]  t == y - 4 * h[2]  c == 4 * Unit
    <3>1. s \in Int /\ t \in Int /\ c \in Nat /\ -c <= s /\ s <= c /\ -c <= t /\ t <= c
      BY <2>1, <2>4, <2>5, <2>6
    <3> HIDE DEF s, t, c
    <3>2. h[1] * s >= -(a * c) /\ a \in Nat /\ a * a = h[1] * h[1]
      BY <2>1, <3>1, ProductBound
    <3>3. h[2] * t >= -(b * c) /\ b \in Nat /\ b * b = h[2] * h[2]
      BY <2>1, <3>1, ProductBound
    <3> QED BY <3>2, <3>3 DEF s, t, c
  <2> HIDE DEF a, b
  <2>8. a + b < 2 * Unit
    BY <2>1, <2>6, <2>7, SidesShort
  <2>9. h[1] * x + h[2] * y >= 4 * (Unit * Unit) - 4 * (Unit * (a + b))
    <3>1. /\ h[1] * (x - 4 * h[1]) = h[1] * x - 4 * (h[1] * h[1])
          /\ h[2] * (y - 4 * h[2]) = h[2] * y - 4 * (h[2] * h[2])
      BY <2>1, <2>4
    <3>2. h[1] * x + h[2] * y >= 4 * (h[1] * h[1] + h[2] * h[2]) - (a * (4 * Unit) + b * (4 * Unit))
      BY <2>1, <2>4, <2>6, <2>7, <3>1
    <3>3. a * (4 * Unit) + b * (4 * Unit) = 4 * (Unit * (a + b))
      BY <2>6, <2>7
    <3> QED BY <2>1, <3>2, <3>3
  <2>10. 4 * (Unit * Unit) - 4 * (Unit * (a + b)) + 2 * Unit * (a + b) > 0
    <3>1. Unit * (2 * Unit - (a + b)) > 0
      BY <2>6, <2>7, <2>8
    <3>2. 4 * (Unit * Unit) - 4 * (Unit * (a + b)) + 2 * Unit * (a + b) = 2 * (Unit * (2 * Unit - (a + b)))
      BY <2>6, <2>7
    <3>3. Unit * (2 * Unit - (a + b)) \in Int
      BY <2>6, <2>7
    <3> HIDE DEF h, x, y
    <3> DEFINE w == Unit * (2 * Unit - (a + b))
    <3>4. w \in Int /\ w > 0
      BY <3>1, <3>3
    <3> HIDE DEF w
    <3>5. 2 * w > 0
      BY <3>4
    <3> QED BY <3>2, <3>5 DEF w
  <2>11. h[1] * x + h[2] * y + BodyHalf * (a + b) > 0
    <3>1. BodyHalf * (a + b) = 2 * Unit * (a + b)
      BY Units
    <3>2. h[1] * x \in Int /\ h[2] * y \in Int /\ Unit * Unit \in Int /\ Unit * (a + b) \in Int
          /\ 2 * Unit * (a + b) \in Int
      BY <2>1, <2>4, <2>6, <2>7
    <3> QED BY <2>9, <2>10, <3>1, <3>2
  <2> QED BY <2>11 DEF InFront, a, b, h, x, y
<1>2. TypeOK => StrikesAreInFront
  BY <1>1 DEF StrikesAreInFront
<1> QED BY <1>2, TypeCorrect, PTL

\* CloseTargetsAreHit: a metre, as SimpleMonster::tick has it, is within reach
\* of half a metre of fist and half a metre of body.
THEOREM CloseTargetsHit == Spec => []CloseTargetsAreHit
<1>1. ASSUME TypeOK, NEW m \in Monsters, NEW p \in Players, {m, p} \subseteq present,
             Far(position[m], position[p]) <= Square(Cell)
      PROVE  p \in Hits(m)
  <2> DEFINE x == position[m][1] - position[p][1]  y == position[m][2] - position[p][2]
  <2>1. m \notin Players /\ p # m
    BY Units
  <2>2. position[m] \in Vectors /\ position[p] \in Vectors
    BY <1>1 DEF TypeOK
  <2>3. x \in Int /\ y \in Int
    BY <2>2 DEF Vectors
  <2>4. x * x + y * y <= Cell * Cell
    BY <1>1 DEF Far, Square
  <2>5. y * y + x * x <= Cell * Cell /\ Cell \in Nat
    BY <2>3, <2>4, Units
  <2> HIDE DEF x, y
  <2>6. -Cell <= x /\ x <= Cell /\ -Cell <= y /\ y <= Cell
    BY <2>3, <2>4, <2>5, SideWithinDistance
  <2>7. CubesTouch(position[p], BodyHalf, position[m], FistHalf)
    BY <2>2, <2>6, Units DEF CubesTouch, Vectors, x, y
  <2> QED BY <1>1, <2>1, <2>7 DEF Hits, Fist
<1>2. TypeOK => CloseTargetsAreHit
  BY <1>1 DEF CloseTargetsAreHit
<1> QED BY <1>2, TypeCorrect, PTL
-----------------------------------------------------------------------------
\* Every player of the subworld is in a free cell, or still where he was placed.
StandFree == \A p \in Players \cap present : Free(position[p]) \/ position[p] = Spawn

\* A cell is wider than a step there and back.
LEMMA RoomToMove ==
  ASSUME NEW q \in Vectors, Free(q)
  PROVE  Free(<<q[1] + Unit, q[2]>>) \/ Free(<<q[1] - Unit, q[2]>>)
<1> DEFINE k == q[1] \div Cell
<1>1. q[1] \in Int /\ q[2] \in Int
  BY DEF Vectors
<1>2. k \in Int /\ Cell * k <= q[1] /\ q[1] < Cell * k + Cell
  BY <1>1, Units, Quotient
<1> HIDE DEF k
<1>3. CASE q[1] + Unit < Cell * k + Cell
  <2>1. (q[1] + Unit) \div Cell = k
    <3>1. q[1] + Unit \in Int /\ Cell \in Nat \ {0} /\ Cell * k <= q[1] + Unit
      BY <1>1, <1>2, Units
    <3> QED BY <1>2, <1>3, <3>1, QuotientIs
  <2> QED BY <2>1 DEF Free, CellOf, k
<1>4. CASE q[1] + Unit >= Cell * k + Cell
  <2>1. Cell * k <= q[1] - Unit /\ q[1] - Unit < Cell * k + Cell
    <3>1. Cell * k \in Int
      BY <1>2, Units
    <3> QED BY <1>1, <1>2, <1>4, <3>1, Units
  <2>2. (q[1] - Unit) \div Cell = k
    <3>1. q[1] - Unit \in Int /\ Cell \in Nat \ {0}
      BY <1>1, Units
    <3> QED BY <1>2, <2>1, <3>1, QuotientIs
  <2> QED BY <2>2 DEF Free, CellOf, k
<1>5. Cell * k \in Int
  BY <1>2, Units
<1> QED BY <1>1, <1>3, <1>4, <1>5, Units

\* StuckOnlyWherePlaced: players come to free cells only, and have room for a
\* step in each, for any obstacles; what a player is placed in is not assumed to
\* be free.
THEOREM PlayersCanMove == Spec => []StuckOnlyWherePlaced
<1>1. Init => StandFree
  BY Units DEF Init, StandFree
<1>2. TypeOK /\ StandFree /\ [Next]_vars => StandFree'
  <2> SUFFICES ASSUME TypeOK, StandFree, [Next]_vars PROVE StandFree'
    OBVIOUS
  <2>1. blocked' = blocked
    BY DEF Next, vars, Tick, AddEntity, RemoveEntity, Face, Aim, Attack, Recover, AddArea, RemoveArea
  <2>2. CASE Tick
    <3>1. ASSUME NEW p \in Players, p \in present'
          PROVE  Free(position'[p]) \/ position'[p] = Spawn
      <4>1. p \in present /\ p \in Entities /\ position'[p] \in Moves(p)
        BY <2>2, <3>1 DEF Tick, Entities
      <4>2. position'[p] = position[p] \/ Free(position'[p])
        BY <4>1 DEF Moves
      <4> QED BY <4>1, <4>2 DEF StandFree
    <3> QED BY <2>1, <3>1 DEF StandFree, Free, CellOf
  <2>3. ASSUME NEW p \in Players, AddEntity(p) PROVE StandFree'
    <3>1. ASSUME NEW r \in Players, r \in present'
          PROVE  Free(position'[r]) \/ position'[r] = Spawn
      BY <2>3, <3>1 DEF AddEntity, StandFree, TypeOK, Entities
    <3> QED BY <2>1, <3>1 DEF StandFree, Free, CellOf
  <2>4. ASSUME UNCHANGED position, present' \subseteq present PROVE StandFree'
    BY <2>1, <2>4 DEF StandFree, Free, CellOf
  <2> QED BY <2>2, <2>3, <2>4 DEF Next, vars, entityVars, areaVars, RemoveEntity, Face, Aim, Attack,
                                  Recover, AddArea, RemoveArea
<1>3. TypeOK /\ StandFree => StuckOnlyWherePlaced
  <2> SUFFICES ASSUME TypeOK, StandFree, NEW p \in Players \cap present,
                      \A h \in Headings : ~Free(Ahead(p, h))
               PROVE  position[p] = Spawn /\ ~Free(Spawn)
    BY DEF StuckOnlyWherePlaced
  <2>1. position[p] \in Vectors
    BY DEF TypeOK, Entities
  <2>2. /\ Ahead(p, <<Unit, 0>>) = <<position[p][1] + Unit, position[p][2]>>
        /\ Ahead(p, <<-Unit, 0>>) = <<position[p][1] - Unit, position[p][2]>>
    BY <2>1, Units DEF Ahead, Vectors
  <2>3. ~Free(position[p])
    BY <2>1, <2>2, RoomToMove, Units
  <2> QED BY <2>3 DEF StandFree
<1> QED BY <1>1, <1>2, <1>3, TypeCorrect, PTL DEF Spec

\* Who listens to an area believes in it those the subworld has contacts of.
Informed == \A a \in areas : heard[a] = contacts[a]

\* ListenersKnow: contacts that were kept for bodies that are not there do no
\* harm, since what is signalled of a body is told by its contact.
THEOREM ListenersAlwaysKnow == Spec => ListenersKnow
<1>1. Init => Informed
  BY DEF Init, Informed
<1>2. TypeOK /\ Informed /\ [Next]_vars => Informed'
  <2> SUFFICES ASSUME TypeOK, Informed, [Next]_vars PROVE Informed'
    OBVIOUS
  <2>1. CASE Tick
    <3>1. ASSUME NEW a \in areas PROVE heard'[a] = contacts'[a]
      <4>1. a \in Areas /\ heard[a] = contacts[a]
        BY DEF TypeOK, Informed
      <4>2. /\ heard'[a] = (heard[a] \cup Entered(a)) \ Exited(a)
            /\ contacts'[a] = (contacts[a] \cup Entered(a)) \ Exited(a)
        BY <2>1, <4>1 DEF Tick
      <4> QED BY <4>1, <4>2
    <3> QED BY <2>1, <3>1 DEF Tick, Informed
  <2>2. ASSUME NEW a \in Areas, AddArea(a) PROVE Informed'
    BY <2>2 DEF AddArea, Informed, TypeOK
  <2>3. ASSUME NEW a \in Areas, RemoveArea(a) PROVE Informed'
    BY <2>3 DEF RemoveArea, Informed, TypeOK
  <2>4. ASSUME UNCHANGED areaVars PROVE Informed'
    BY <2>4 DEF areaVars, Informed
  <2> QED BY <2>1, <2>2, <2>3, <2>4 DEF Next, vars, AddEntity, RemoveEntity, Face, Aim, Attack, Recover
<1>3. TypeOK /\ Informed /\ Informed' /\ Tick =>
        \A a \in areas, e \in present : e \in heard'[a] <=> e \in Touched(a)'
  <2> SUFFICES ASSUME TypeOK, Informed, Tick, NEW a \in areas, NEW e \in present
               PROVE  e \in heard'[a] <=> e \in Touched(a)'
    OBVIOUS
  <2>1. a \in Areas /\ heard[a] = contacts[a]
    BY DEF TypeOK, Informed
  <2>2. heard'[a] = (heard[a] \cup Entered(a)) \ Exited(a)
    BY <2>1 DEF Tick
  <2>3. /\ e \in Entered(a) <=> e \in Touched(a)' /\ e \notin contacts[a]
        /\ e \in Exited(a) <=> e \in contacts[a] /\ e \notin Touched(a)'
    BY DEF Entered, Exited
  <2> QED BY <2>1, <2>2, <2>3
<1>4. TypeOK /\ Informed /\ Informed' /\ [Next]_vars =>
        [Tick => \A a \in areas, e \in present : e \in heard'[a] <=> e \in Touched(a)']_vars
  BY <1>3
<1> QED BY <1>1, <1>2, <1>4, TypeCorrect, PTL DEF Spec, ListenersKnow
=============================================================================
