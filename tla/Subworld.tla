------------------------------ MODULE Subworld ------------------------------
(***************************************************************************)
(* Subworld: where the entities of one zone are, how a tick moves them     *)
(* over the grid of obstacles, and whom the box of a weapon touches.  All  *)
(* of it runs on the strand of the zone.                                   *)
(*                                                                         *)
(* Positions are pairs <<z, x>> on a lattice; everything is at height 0.   *)
(* Unit lattice steps make the 0.25 m of a player's step, so a cell of the *)
(* grid is 4 * Unit wide, and a heading is a vector of length Unit.        *)
(***************************************************************************)
EXTENDS Integers

CONSTANTS
  Players, Monsters,
  Areas, AreaAt,    \* collision areas, and where they are
  Rows, Cols,
  Grids,            \* the sets of blocked cells to look at
  Unit, Headings,
  Pace              \* the length of a monster's step

Cells == (0..(Rows - 1)) \X (0..(Cols - 1))

Square(a) == a * a
Abs(a) == IF a < 0 THEN -a ELSE a
Far(p, q) == Square(p[1] - q[1]) + Square(p[2] - q[2])   \* squared distance
Still == <<0, 0>>
Vectors == Int \X Int

\* Zone::add_client_deferred: the middle of the zone, blocked or not.
Cell  == 4 * Unit
Spawn == <<(Rows \div 2) * Cell, (Cols \div 2) * Cell>>

ASSUME SubworldAssumption ==
  /\ Players \cap Monsters = {}
  /\ AreaAt \in [Areas -> Vectors]
  /\ Rows \in Nat /\ Cols \in Nat /\ Grids \subseteq SUBSET Cells
  /\ Unit \in Nat \ {0} /\ Pace \in Nat \ {0}
  /\ Headings \subseteq Vectors /\ \A h \in Headings : Far(h, Still) = Square(Unit)
  /\ {<<Unit, 0>>, <<-Unit, 0>>} \subseteq Headings

Entities == Players \cup Monsters

VARIABLES
  blocked,     \* _obstacles_grid: the cells that are blocked
  present,     \* the entities of the subworld, and their bodies
  position,
  rotation,    \* of a player, as the heading he looks to
  direction,   \* target_direction of a player: a heading, or Still
  goal,        \* target_position of a monster
  attacking,   \* the entities whose state is "Attacking"
  areas,       \* _collision_areas
  contacts,    \* _contacts
  heard        \* who is in an area, by the signals body_entered and body_exited

entityVars == <<present, position, rotation, direction, goal, attacking>>
areaVars == <<areas, contacts, heard>>
vars == <<blocked, entityVars, areaVars>>

TypeOK ==
  /\ blocked \in SUBSET Cells
  /\ present \subseteq Entities
  /\ position \in [Entities -> Vectors]
  /\ rotation \in [Players -> Headings]
  /\ direction \in [Players -> Headings \cup {Still}]
  /\ goal \in [Monsters -> Vectors]
  /\ attacking \subseteq Entities
  /\ areas \subseteq Areas
  /\ contacts \in [Areas -> SUBSET Entities]
  /\ heard \in [Areas -> SUBSET Entities]

\* Zone::create reads the obstacles, and Server::init puts the monsters where they
\* were made.
Init ==
  /\ blocked \in Grids
  /\ present = Monsters
  /\ position = [e \in Entities |-> Still]
  /\ rotation = [p \in Players |-> <<Unit, 0>>]
  /\ direction = [p \in Players |-> Still]
  /\ goal = [m \in Monsters |-> Still]
  /\ attacking = {}
  /\ areas = {}
  /\ contacts = [a \in Areas |-> {}]
  /\ heard = [a \in Areas |-> {}]
-----------------------------------------------------------------------------
\* The shapes: cubes that stand along the axes however their node is turned,
\* and spheres.
BodyHalf == 2 * Unit
FistHalf == 2 * Unit
AreaRadius == 4 * Unit

CubesTouch(c, h, d, k) ==
  \A i \in 1..2 : c[i] - h <= d[i] + k /\ c[i] + h >= d[i] - k

\* The point of a cube's side that is closest to v.
Clamp(v, low, high) == IF v < low THEN low ELSE IF v > high THEN high ELSE v

SphereTouchesCube(s, r, c, h) ==
  Far(s, <<Clamp(s[1], c[1] - h, c[1] + h), Clamp(s[2], c[2] - h, c[2] + h)>>) <= Square(r)

\* Mutant: the offset of the weapon is half a metre.
FistNear(e) ==
  IF e \in Players THEN [i \in 1..2 |-> position[e][i] + 2 * rotation[e][i]] ELSE position[e]

\* Mutant: a monster, too, holds its weapon ahead.
FistAhead(e) ==
  [i \in 1..2 |-> position[e][i] + 4 * (IF e \in Players THEN rotation[e][i] ELSE Unit)]

\* get_global_position of a fist's box: a player holds it a metre ahead, and a
\* monster where it stands.
Fist(e) ==
  IF e \in Players THEN [i \in 1..2 |-> position[e][i] + 4 * rotation[e][i]] ELSE position[e]

\* get_collisions for the box of e's fist, without e itself.
Hits(e) == {v \in present \ {e} : CubesTouch(position[v], BodyHalf, Fist(e), FistHalf)}
-----------------------------------------------------------------------------
CellOf(p) == <<p[1] \div Cell, p[2] \div Cell>>
Centre(c) == <<c[1] * Cell + 2 * Unit, c[2] * Cell + 2 * Unit>>
Free(p) == CellOf(p) \in Cells \ blocked

\* A step from where p is.
Ahead(p, h) == <<position[p][1] + h[1], position[p][2] + h[2]>>

\* Where a step takes an entity: a player on in his direction, a monster to its
\* goal or, when that is farther than a step, nearer to it, up to rounding.
Strides(e) ==
  IF e \in Players THEN {Ahead(e, direction[e])}
  ELSE IF Far(position[e], goal[e]) <= Square(Pace) THEN {goal[e]}
  ELSE {n \in {Ahead(e, <<i, j>>) : i \in -Pace..Pace, j \in -Pace..Pace} :
          Far(n, position[e]) <= Square(Pace) /\ Far(n, goal[e]) < Far(position[e], goal[e])}

\* Mutant: the grid is asked about the place the player comes from.
MovesUnchecked(e) == IF e \notin present \/ e \in attacking THEN {position[e]} ELSE Strides(e)

\* Where a tick takes an entity.  An attacker stays, and so does one the grid
\* refuses the step.
Moves(e) ==
  IF e \notin present \/ e \in attacking THEN {position[e]}
  ELSE {IF Free(n) THEN n ELSE position[e] : n \in Strides(e)}

Touched(a) == {e \in Entities : SphereTouchesCube(AreaAt[a], AreaRadius, position[e], BodyHalf)}

\* Of whom an area signals, in a tick, that he has come and that he has gone.
Entered(a) == (present \cap Touched(a)') \ contacts[a]
Exited(a)  == (present \cap contacts[a]) \ Touched(a)'

\* Subworld::tick: entities move, then contacts are updated.
Tick ==
  /\ position' \in {q \in [Entities -> UNION {Moves(e) : e \in Entities}] :
                      \A e \in Entities : q[e] \in Moves(e)}
  /\ contacts' = [a \in Areas |-> IF a \in areas THEN (contacts[a] \cup Entered(a)) \ Exited(a) ELSE contacts[a]]
  /\ heard' = [a \in Areas |-> IF a \in areas THEN (heard[a] \cup Entered(a)) \ Exited(a) ELSE heard[a]]
  /\ UNCHANGED <<blocked, present, rotation, direction, goal, attacking, areas>>
-----------------------------------------------------------------------------
\* Zone::add_client_deferred
AddEntity(p) ==
  /\ p \notin present
  /\ present' = present \cup {p}
  /\ position' = [position EXCEPT ![p] = Spawn]
  /\ UNCHANGED <<blocked, rotation, direction, goal, attacking, areaVars>>

\* Mutant: the contacts of a body that is removed are forgotten.
RemoveForgetsContacts(p) ==
  /\ p \in present
  /\ present' = present \ {p}
  /\ contacts' = [a \in Areas |-> contacts[a] \ {p}]
  /\ UNCHANGED <<blocked, position, rotation, direction, goal, attacking, areas, heard>>

\* Subworld::remove_entity.  Contacts are left as they are.
RemoveEntity(p) ==
  /\ p \in present
  /\ present' = present \ {p}
  /\ UNCHANGED <<blocked, position, rotation, direction, goal, attacking, areaVars>>

\* Zone::handle_player_movement, which has normalized the direction.  Who stops
\* looks on to where he went.
Face(p, h) ==
  /\ p \in present
  /\ direction' = [direction EXCEPT ![p] = h]
  /\ rotation' = [rotation EXCEPT ![p] = IF h = Still THEN @ ELSE h]
  /\ UNCHANGED <<blocked, present, position, goal, attacking, areaVars>>

\* SimpleMonster::tick: the next point of a path, or the target itself.
Aim(m) ==
  /\ goal' \in {[goal EXCEPT ![m] = q] :
                  q \in {Centre(c) : c \in Cells \ blocked} \cup {position[p] : p \in present \cap Players}}
  /\ UNCHANGED <<blocked, present, position, rotation, direction, attacking, areaVars>>

\* The state machine of e goes from idle to attacking, or back.
Attack(e) ==
  /\ e \in present \ attacking
  /\ attacking' = attacking \cup {e}
  /\ UNCHANGED <<blocked, present, position, rotation, direction, goal, areaVars>>

Recover(e) ==
  /\ e \in attacking
  /\ attacking' = attacking \ {e}
  /\ UNCHANGED <<blocked, present, position, rotation, direction, goal, areaVars>>

\* Who adds an area listens to it from then on.  (Nothing in the server adds one
\* yet: the areas are what the class offers.)
AddArea(a) ==
  /\ a \notin areas
  /\ areas' = areas \cup {a}
  /\ contacts' = [contacts EXCEPT ![a] = {}]
  /\ heard' = [heard EXCEPT ![a] = {}]
  /\ UNCHANGED <<blocked, entityVars>>

RemoveArea(a) ==
  /\ a \in areas
  /\ areas' = areas \ {a}
  /\ contacts' = [contacts EXCEPT ![a] = {}]
  /\ UNCHANGED <<blocked, entityVars, heard>>

Next ==
  \/ Tick
  \/ \E p \in Players : AddEntity(p) \/ RemoveEntity(p) \/ \E h \in Headings \cup {Still} : Face(p, h)
  \/ \E m \in Monsters : Aim(m)
  \/ \E e \in Entities : Attack(e) \/ Recover(e)
  \/ \E a \in Areas : AddArea(a) \/ RemoveArea(a)

Spec == Init /\ [][Next]_vars
-----------------------------------------------------------------------------
\* fist.json, "Non-target attack enemies in front of the player": some part of
\* whoever an attack hits is in front of the player, although the box of the
\* weapon does not turn with him.
InFront(p, v) ==
  LET h == rotation[p]
      x == position[v][1] - position[p][1]
      y == position[v][2] - position[p][2]
  IN h[1] * x + h[2] * y + BodyHalf * (Abs(h[1]) + Abs(h[2])) > 0

StrikesAreInFront == \A p \in Players : \A v \in Hits(p) : InFront(p, v)

\* A target close enough for a monster to attack is hit: the distance written
\* into SimpleMonster::tick fits the weapon it holds and the bodies of players.
CloseTargetsAreHit ==
  \A m \in Monsters, p \in Players :
    {m, p} \subseteq present /\ Far(position[m], position[p]) <= Square(Cell) => p \in Hits(m)

\* A player for whom all ways on are refused is where he was placed, in a blocked
\* cell, which nothing has checked: he comes to free cells only, and each has room
\* for a step, whatever the obstacles are.
StuckOnlyWherePlaced ==
  \A p \in Players \cap present :
    (\A h \in Headings : ~Free(Ahead(p, h))) => position[p] = Spawn /\ ~Free(Spawn)

\* Whoever listens to the signals of an area knows, when a tick is over, which
\* bodies are in it, also when players left and came back.
ListenersKnow ==
  [][Tick => \A a \in areas, e \in present : e \in heard'[a] <=> e \in Touched(a)']_vars
=============================================================================
