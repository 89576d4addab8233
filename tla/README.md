# A verification of the tower server in TLA+

The repository is the server of an online game.  It is written in C++ on
boost::asio: a pool of threads runs coroutines, timers and *strands*, and the
order in which they run is up to the pool.  What makes it hard to get right is
not any one handler, which is short, but the handlers' interleavings.  This
directory models those interleavings, checks them with TLC on small instances,
and proves the safety properties that matter most for any number of clients
and zones.

## 1. Inventory

| component | state | operations | talks to |
|---|---|---|---|
| `Server` (network/server) | `_clients`, `_clients_current_zone`, `_zones`, `_is_running` | accept loop, add and remove client, join, enter zone, ping, routing, stop | posts to zones, calls `Client`, awaits the database |
| `Zone` (network/zone) | `_clients`, `_is_running`, `_last_tick`, a subworld | add and remove client, handle packet, tick, start, stop | reads `Client::player`, sends packets |
| `Client`, `HeartBeater` (network/client) | `_is_running`, `is_authenticated`, `player`, `_dead_beats`, `_last_beat` | start, stop, beat, time out | `Connection`, `Timer`, callbacks of the server |
| `Connection` (network/connection) | `_is_connected`, a socket | open (receive loop), send, disconnect | callbacks of the client |
| `main` | the pool | on a signal: stop the server, then the pool | `Server::stop` |
| database (external) | - | prepare, execute, load | resumes a join with an outcome, or never |
| `Timer` | `_is_running`, a timer | start, stop, timeout | a coroutine on the pool |
| `Profiler` | records, totals, `_is_renewing` | add, renew | any thread |
| `StateMachine`, `State`, `MeleeAttack` | current state, a delay timer | transition now or later, abort | the zone's strand |
| `SimpleMonster` | idle, chasing or attacking; its target and path | tick | subworld, path finder |
| `Subworld`, `Node` | entities, collision objects, contacts, trees | add, remove, tick | entities |
| `Pathfinder`, `Grid` | none between calls | A*, jump point search | - |
| physics, items, player data, settings | values | geometry, loading | - |
| `ConcurrentMap`, `ConcurrentQueue` | a container and a lock | - | no code of the server uses them |

**What is hard.**  A client is disconnected by whichever of four threads comes
first, and more than one may.  A move between zones is two handlers on two
strands.  A join suspends in the database while other packets of the same
client are handled.  Zones start and stop while a tick of their last run may
still be queued.  Stopping the server destroys zones other strands are using.
`PROJECT.json` lists these hazards, each at its line, with the properties that
would catch it going wrong.

**What makes each part correct.**

- *Server*: a client is removed once; a connection is never forgotten; a client
  that left is stopped; stop returns.
- *Zone*: it converges to what the server thinks of it; the packets routed to
  it find their client; it ticks exactly while it has clients; it holds the
  player entities of its clients and no other.
- *Client, Connection*: whatever ends a connection ends the client.
- *HeartBeater, Timer*: nobody is found dead early; who falls silent, or never
  joins, is stopped; the timer ends with its client.
- *Server and zones together*: clients are where a directory, that moves them at
  once, says they are; clients in one zone have been told of each other.
- *StateMachine, MeleeAttack*: an attacker comes back to idle once, and attacks
  are spaced.  *SimpleMonster*: it gives up a player that has left.
- *Subworld*: nobody is hit from behind, or gets stuck where he went; a monster
  that attacks hits; the signals of an area tell who is in it.
- *Pathfinder*: a search ends, and a call returns; what it finds is a path, and
  for A* a cheapest one; it finds nothing only when there is nothing.
- *Profiler*: totals are those of the records; nothing is dropped early; the
  totals run down when nobody sends.

## 2. Modules

The first four extend each other, from the executor up, and make the server;
the next four put it together with what it promises and with what it sends.
The others are components the server uses, each on its own.

| module | models | role |
|---|---|---|
| `Strands` | boost::asio strands as used by `Server` and `Zone` | FIFO queues of handlers, and the handlers |
| `Client` | network/client, network/connection | what pool threads do to one client |
| `Zone` | network/zone, the entities of world/subworld | one action per handler of the zone strand |
| `Server` | network/server, player loading, main's signal handler | one action per handler of the server strand; `Next`, `Spec`, properties |
| `Directory` | what the server and its zones promise | abstract specification |
| `ServerDirectory` | - | the refinement mapping, `ImplementsDirectory`, `EntriesComplete` |
| `MCServer` | - | who sends what in the two runs of the server |
| `Replication` | the spawns and despawns that zones send | `Server`, with what each client has been told |
| `HeartBeat` | `Client::HeartBeater`, system/timer | one step per atomic operation or wait, with time |
| `Combat` | system/state_machine, skill/melee_attack, entity/simple_monster | the fights in one zone, with time |
| `Crossing` | state machine and attack of a player who moves on | one state machine used by two strands, step by step |
| `Subworld`, `MCSubworld` | world/subworld, physics, world/node, zone's movement | positions, obstacles, areas and boxes on a lattice |
| `Profiler` | network/profiler, its logging loop | what is done under the lock, and between, with time |
| `Grid` | system/container/grid | cells and neighbours |
| `AStar`, `JumpPoint` | the two algorithms of world/path_finder | one call on any grid |
| `Pathfinder` | `find_path` | composes the two; `MCPathfinder` and `MCJumpPoint` name the searches and the grids |
| `ServerProofs` | - | lemmas about queues; theorems: registration, zones, the stop |
| `PlayerProofs`, `DirectoryProofs` | - | theorems that rest on those: players; the refinement |
| `HeartBeatProofs`, `CombatProofs`, `PathfinderProofs`, `SubworldProofs`, `ProfilerProofs` | - | theorems about those components |

**Strands.**  `post(_strand, f)` and `co_spawn(_strand, f)` append a handler to
the strand's queue.  A strand runs its handlers in order and one at a time, so a
step of a strand executes the head of its queue, whole.  The only handler that
suspends is the join request.  It is two actions: `HandleJoin`, up to the first
`co_await`, and one of `JoinDropped`, `JoinRejected`, `JoinLoadFails`,
`JoinLoaded`, which resumes on the same strand.  Its awaits are one suspension
because nothing is read or written between them.

**Clients.**  `link` is `_is_connected`, `running` is `Client::_is_running` and
`reading` the position of the receive loop.  `Client::stop` and
`Connection::disconnect` are steps of any thread, and each is split at the points
where another thread can come in: `stopping` and `closing` say which thread has
passed the exchange of one and has not disconnected, or called back, yet.  A
second caller finds the flag taken and returns at once.  The server strand runs no
other handler while it is in the middle of either.  A packet is the kind of
request it holds and, for enter requests, the zone.  A player is the number of the
load that made it, 0 being a null pointer: that is what it takes to tell an entity
of a replaced player from that of the current one.  `dialogue` is what the
remote side knows, and is external: a polite client joins once and awaits the
answer before it enters a zone.  The clients in `Rude` do as they like, and the
server checks nothing of the kind.

**Crashes.**  Three things end the process and are modelled by `crashed`: a
null player dereferenced in a zone, an exception that leaves a posted handler,
a zone handler whose zone has been destroyed.  Nothing runs afterwards.

**Time.**  Three components measure time.  Clocks are not modelled: each time
stamp is an age and each wait the time that is left, and one action, `Passes`,
lets a unit pass for all of them, at any moment.  An age stops where nothing
tells it from a larger one, so the state space is finite without a horizon.
Threads and coroutines can be late by any time.

**HeartBeat.**  One client.  `beat` is two atomic stores, with steps of the timer
between them; `Client::start` is two steps, since the receive loop it begins may
stop the client before the timer is started; `Client::stop` is its exchange,
the disconnection of the callback, the exchange and the cancellation of the timer,
and the closing of the link; and the callback of the timer looks at the count, at
the last beat, stops its timer and stops the client in steps of their own.
`quiet` is not a variable of the code: it is the time since the last *finished*
beat, which is what a peer can be said to have been granted.  A beat that is
finished after the client was found dead and before it is stopped does not save it:
`NoEarlyTimeout` is about the decision, and the code does not look again.  A client
that is stopped between the halves of its start leaves a timer that goes on for
ever, without a callback; `TimerEndsWithClient` leaves that case out.

**Combat.**  All of it runs on the strand of one zone; what does not is time, the
expiry of timers, and the destruction of players that have left.  A delayed
transition is a coroutine that is spawned, waits, and is queued when its timer
expires; `abort` ends it only while it waits.  One that was given up otherwise is
a `stray`: it will run, with a plain `this`.  Geometry is left open: who is hit,
seen or close, and which paths there are, are choices.  `Follow` folds the end of
a path, the target that ran away and the renewal of the path into the one step
they are in the code.

**Directory.**  A place for each client, a view of its clients for each zone, and
the changes a zone still *owes*.  `Move` changes the place at once, `Apply` is one
zone catching up.  In `ServerDirectory` the place is `_clients_current_zone`, and
a zone owes a client a change while a handler that adds or removes it is on the
zone's strand.  `ImplementsDirectory` says three things at once: clients are
registered once and gone for good; a move is one change, however its two handlers
are ordered; and each handler of a zone finds the client out if it is to come in,
and in if it is to go out, and is right when it is the last.

**Replication.**  `Server` again, started with clients that have joined.  What the
handlers of a zone send is added to what they do; sends of two zones to one client
are in the order in which the handlers run.

**Crossing.**  A player who moves on with attacks on the way: an attack is handled
on the strand of the zone it was sent to, and its state machine has no lock.  Here
the check, the strike and the delayed transition are steps of their own.  A strand
has one delayed transition at a time here; one that was given up by the same strand
before it was waited for is overwritten by the next.

**Subworld.**  Positions are points of a lattice in the plane, since everything
moves at height 0.  A player's step is his heading, of length `Unit`; which
headings there are is a parameter.  A monster steps to its goal, or to any point
of the lattice that is nearer to it and within its step, which stands for the
rounding of a vector.  Cubes stand along the axes however their node is turned,
as in the code: the offset of a player's weapon turns with him, and its box does
not.  Players are placed in the middle of the zone, whether or not it is blocked:
neither `Zone::add_client_deferred` nor `Zone::create` looks.  Who is placed in a
wall he cannot leave in one step stays there, and `StuckOnlyWherePlaced` says that
nobody else gets stuck.  Nothing in the server adds a collision area, so that areas,
their contacts and `ListenersKnow` are about the class only.  Contacts are kept for bodies that were removed, as in the code; what is
emitted is noted in `heard`.

**Profiler.**  Time stamps are read before the lock is taken, so queued records
need not be in order, and a renewal judges by a time that may be long past.

**Pathfinder.**  `find_path` calls one of two algorithms.  `Adjacents` makes the
neighbours of a point by the comparisons of the code, in unsigned numbers that wrap
round at `SizeLimit`; the properties are stated with `Neighbours`, which is what
neighbours are.  `Grids` says which cells
may be blocked: any, in all runs but one.  A step of a search pops one node, which
leaves open the order of nodes of equal `f`.  A* keeps its queue as a set: pushing the same node twice
changes nothing but how often it is expanded in vain.  In jump point search one
node's probes are one step.  They recurse in the code and are sets here: a probe
reads nothing that another one writes, and `JumpProbesAreDisjoint` says that no
point is looked at twice in a jump, so that their order cannot matter.

## 3. Runs

`tlc -config X.cfg M`, where `M` is the module `PROJECT.json` names for the run.

| run | module | question | bounds |
|---|---|---|---|
| `registration` | `MCServer` | are clients removed once, and never lost? does stop return, and what does it leave? do clients that lost their connection leave for good? do entries complete? who can make a zone use a null player? | 2 clients, 1 zone, 2 packets; one client is polite and one is not; a signal at any time; fairness |
| `moves` | `MCServer` | do zones and server agree? do zones tick when they should? whose entities are there? is the directory implemented? | 2 polite clients, 2 zones, 4 packets |
| `heartbeat` | `HeartBeat` | are silent clients timed out, and no others? | 3 dead beats, intervals of 5; fairness |
| `findpath` | `MCPathfinder` | are found paths paths, and with A* cheapest ones? does A* miss none? does a search end? | all grids of 3 by 4, three searches, both algorithms; fairness |
| `combat` | `Combat` | do attackers return to idle, once? are attacks spaced? do monsters give up? | 2 players and a monster; fairness |
| `subworld` | `MCSubworld` | who is hit, who gets stuck, what do areas signal? | 1 player, 1 monster, 1 area, lanes of 3 cells |
| `profiler` | `Profiler` | do totals agree, and run down? | 2 receive loops, 2 records, a window of 2; fairness |
| `jumppath` | `MCJumpPoint` | does jump point search return, as a test says? (no) | all grids of 3 by 4, one search; fairness |
| `jumpmiss` | `MCJumpPoint` | does jump point search find a path where there is one, as a test says? (no) | one grid of 6 by 6, one search |
| `target` | `Combat` | is a monster's target held, as a comment says? (no) | 1 player and a monster |
| `replication` | `Replication` | have clients in one zone been told of each other? (no) | 2 clients, 2 zones, 4 packets |
| `crossing` | `Crossing` | is the time between attacks kept? (no) | 2 zones |

*Bounds.*  In the server runs `MaxPackets` bounds the packets received in a
behaviour, by all the clients together, and `Sends` says which a client sends.
In `moves` the clients and the zones are interchangeable, and a run has four
packets.  That is a join, an entry, a move and a packet of one client, so that a
packet is routed behind a move; or an entry, a move and the way back, so that a
zone is emptied and entered again before its last tick has run; or the join and
entry of both, so that a zone is shared.  In `registration` one zone and two
packets are enough for the entry of a polite client to be handled before, after and
without its removal; for one that is not polite to enter while the other is there,
without a player; and for stop to find the zone in use.  The theorems remove the
bounds for the safety properties they cover.

The other runs have no bound on the length of a behaviour.  A heart-beat interval
of several units lets threads be late by a part of one.  In `combat` two players
are enough for one to leave while the other keeps the zone ticking; `MaxPath` and
`MaxHealth` bound a path and the health, which nothing but the end of a path and
the clamp at zero depends on.  In `subworld` the lane is one axis of the lattice, of
a quarter of a metre: cells, bodies, boxes and steps are those of the code, and a
player can be before, in and behind everything; the theorems are about the plane,
any grid, finer lattices and all headings.  One lane has a wall at
an end, one where players are placed, and one shuts them in there.  In `profiler` `MaxRecords` bounds the
queue, and `MaxPops` of one makes a renewal stop before it has popped all that is
due.  3 by 4 cells have room for walls with a gap, for dead ends, and for forced
neighbours on both sides; the searches of `MCPathfinder` go from a corner
to a side, from a side to an inner point, and from a point just outside to a side.  What `jumpmiss` shows takes more
room, and all grids of that size would be too many: it looks at one.

*Deadlock.*  The server does stop, when the process has ended, or when every client
has left and the packets are used up; a search ends; fights end with a crash: the
runs of these do not ask for a deadlock.  In `heartbeat`, `profiler` and `subworld`
it is asked for, but time can always pass, or a tick run, so that the absence of one
shows nothing about the code.

*Findings.*  Five runs are expected to fail.

- `jumppath`: jump point search writes the parent of every point a probe looks at,
  also when it has one, so that the parents can lead round in a circle and
  `reconstruct_path` does not end: in a 3 by 4 grid with only (0, 1) blocked, from
  (2, 3) to (1, 0).  `JumpFoundIsPath` says that a call which does return returns
  a path.
- `jumpmiss`: a probe closes every point it passes, and a jump sends no probe to a
  closed neighbour.  But a point that was passed in one direction has been looked at
  in that direction only.  Where the way leads on from it in another, it is never
  taken: with a wall as in `MCJumpPoint` the queue runs dry, although A* finds a
  path.  No grid of 3 by 4 shows this; it came up when a proof that none is missed
  would not go through.
- `target`: the target of a monster is a plain pointer, where a comment says it is
  shared; the tick after the player has been destroyed reads freed memory.
- `replication`: a client follows another to its next zone.  The new zone tells
  both of each other; then the old zone, in which the follower still is, runs its
  removal of the first and broadcasts his despawn.  The two are in one zone, and
  one has been told that the other is gone, for good.
- `crossing`: a player attacks, moves on and attacks.  The strands of both zones
  find him idle, and he strikes twice within the interval.

*Rude clients.*  The server does not check, when a client asks to enter a zone, that
it has joined, nor, when it joins, that it has not already.  A client that enters
before its player is loaded makes the zone use a null player, which ends the
process; a client that joins twice leaves an entity behind.  Both are in the model,
for the clients in `Rude`, and `NoNullPlayer` and `NoGhostEntities` say what is left:
a zone lacks the player of nobody else, and all entities are those of clients that
are there but of those whose player was replaced.  Which clients are rude is a
parameter that no theorem restricts.

## 4. Fairness

`FairSpec` adds weak fairness for what the pool is sure to run: the server
strand, each zone's strand, the completion of a read whose socket has been
closed, a thread that is in the middle of a stop or of a disconnection, the timer of
a client that receives nothing any more, and the signal handler once `stop` has returned.  The pool runs ready handlers in the order they
were posted, so none of these waits for ever.  There is no fairness for peers,
for the database, for failing sends, or for the accept loop: each may be silent
for ever, and no liveness property needs them.

`HeartBeat`, `Combat` and `Profiler`: time passes, the pool runs coroutines that
are ready and threads get on.  In `Combat` the zone ticks, as it does while it has
clients; in `Profiler` the logging loop goes round.  Peers and players do what
they like.  A search is one sequential call: weak fairness of its one next step (`jumpmiss`
checks an invariant and needs none).
`registration` checks invariants under `FairSpec` too: fairness takes no finite
behaviour away.

`Departure` is why the code can leave a heart-beat timer to find out about a
receive loop that ended without disconnecting.  `StopReturns` allows for one
other outcome, that the process ends: of the tick of a zone that `stop` has
destroyed, or of a client without a player.  `Departure`, `EmptyZoneGoesQuiet` and
`EntriesComplete` are about a server that is not stopped and does not end.

## 5. Proofs

TLAPS checks the first six below for every set of clients and zones and for every value
of `MaxPackets`, `Sends`, `Rude` and `CanStop`, from the named assumptions of
`Strands`, `Client`, `Server` and `ServerDirectory`: that the names for no zone, no
client, and the directory's new and gone clients are not zones or clients, and the
types of the parameters.

1. `TypeCorrect`: `Spec => []TypeOK`.
2. `RegistrationHolds`: `Spec => []RegistrationInv`.  None of
   `NoUncaughtException`, `NoConnectionIsLost` and `RemovedClientsAreStopped` is
   inductive.  That a removal finds its client registered depends on there being
   one removal in the queue, behind the addition; that on the link being open
   until the first; and the addition running at most once on the link having
   been made once.  `RegistrationInv` ties these together: for each client, at
   most one addition and one removal are queued, the removal exactly when the
   link closed, the thread that closed it has called back, and the client is not
   gone yet; and a client that no longer runs has a closed link or a thread that is
   about to close it.  `RemovedOnce`,
   `ConnectionsAreKnown` and `RemovedAreStopped` follow.
3. `ZonesHold`: `Spec => []ZonesInv`.  Membership, routing and ticks are about
   whole queues: what a zone *will* hold when the handlers before position i
   have run, `MemberBefore`.  The lemmas about queues say how that changes
   when a handler is appended and when the head runs.  `ZonesInv` is the three
   properties together, with the fact that a client that is not registered has
   nothing of its own to come.  `MembershipFollows`, `PacketsRouted` and
   `ZonesTick` follow.
4. `StopHolds` and `StopReachesAllButOne`, in `ServerProofs`.  The cleanup handler
   stops the clients registered when it starts, so what matters is which additions
   are ahead of it in the queue.  `StopInv` says that an open client that is neither
   registered nor has its addition ahead of the cleanup came from the accept that
   was in flight, and that an open client that is registered runs, or is in the hands
   of a thread that stopped it first.  A `stop` of the cleanup that finds another
   thread there returns at once: the link may be open when the server's `stop`
   returns, and that thread closes it.
5. `PlayerProofs`: `PlayersHold`, from which `PlayersAreThere` and
   `EntitiesFollowClients` follow, with any clients in `Rude`.  A player is replaced
   when a join resumes, long after the request was queued.  `PlayersInv` counts
   requests: a polite client that has asked has one, queued or suspended and not
   both; one that has been welcomed has none left and a player; and only such a
   client is in a zone or on its way into one.  Of any client it says that what is
   in a zone of it is its first player, as long as that has not been replaced.
6. `DirectoryProofs`: `ServerImplementsDirectory`, which rests on
   `HandlersAlwaysFit`, that an addition a zone runs finds its client out and a
   removal finds it in.  The steps of the server are sorted by what they do to the
   directory - none, register, move, post, run a handler, close - and each sort is
   shown to be the directory's step or a stutter.  `ZonesSettle` is what the refinement
   is good for: what is true of the directory, that an open zone which owes a client
   nothing is right about it, is true of the server.
7. `HeartBeatProofs`, for any interval and number of dead beats: `BeatTypes`, that
   the count never passes `MAX_DEAD_BEATS` among them, and `TimeoutsAreDue`, about
   the moment when a client is found dead.  The invariant says that the silence since the last finished beat, together with
   what the timer is still to wait for, pays for every dead beat counted.
8. `CombatProofs`, for any players, delays, paths and health: `CombatTypes`,
   `AttackersAlwaysReturn` and `AttacksAlwaysSpaced`.  A state machine gives up a
   timer without knowing whether its coroutine can still be told.  The invariant
   says it never has to: an attack needs an idle attacker, an idle one has no
   coroutine, and the age of the attack and what is left of the wait add up to the
   delay at least.
9. `PathfinderProofs`, for grids of any size that `size_t` holds and any set of
   searches.  `AdjacentsAreNeighbours` shows that the unsigned comparisons give the
   neighbours inside the grid and no others, at its borders too.  With A*,
   `FoundPathsAreSound` and `NothingFoundIsRight`: parents are overwritten while
   points are queued; the invariant is that a point is a step away from its parent
   and costs more, that the start alone has none, and that the points reached are
   those expanded and those queued.  So following parents visits no point twice and
   comes to the start, and when the queue is empty nothing was left out
   (`NoPathIsMissed`).
   `FoundPathsAreShortest`: the code does not look at closed points again, which is
   right only because the estimate is consistent.  `ShortestInv` says that each point
   reached and not closed has a node of the right cost in the queue, that no node is
   too cheap, that closed points are no dearer than anything queued, and that every
   step out of a closed point has been taken into account.  That no other way is
   cheaper is about all costs n, by the least n for which it fails.
   With jump point search, `ProbesNeverMeet`: how far a point lies from the one
   jumped from, in rows and columns, says which probe sees it (`Toward`).
   `JumpPathsAreSound`: each parent is the start or has a parent, and each step from
   a parent is one between neighbours, whatever is overwritten.
10. `SubworldProofs`, for any grid, obstacles and fineness of the lattice, and all
   headings: `StrikesInFront` and `CloseTargetsHit`, which are geometry (a heading
   is no longer than `Unit`, so one of its parts is at least 7/10 of it, and the box
   a metre ahead reaches no farther back than the player's own middle), and
   `PlayersCanMove`, whose invariant is that a player stands on a free cell or where
   he was placed: a tick moves nobody to a cell that is not free, and each has room
   for a step; and
   `ListenersAlwaysKnow`, whose invariant is that listeners believe what the
   contacts say, also the contacts kept of bodies that are gone: a tick then
   signals what differs from it.
11. `ProfilerProofs`, for any number of receive loops, any window, limit and bound on
   the queue: `TotalsAlwaysAgree`, which rests on the limit of the receive loop (a
   packet that was let through fits into what a record keeps of its size), and
   `WindowIsAlwaysKept`: one thread renews at a time, and what it found due when it
   read the clock is still at the head of the queue, and older, when it pops.

The provers take no induction theorem, since those are about any predicate.  What is
here about all natural numbers is proved by its least counterexample (`LeastOf`, from
the well-foundedness of `<`), and what a recursive function computes by its equation
(`WithinIsDefined`), which holds since repeating a function defines one
(`Repetition`).  Sums are cardinalities.

*Model-checked only*: the liveness properties, which the prover does not do.  Every
invariant and action property of the runs that pass is proved.

## 6. Not modelled, and why

Packet bytes: the schema is in a git submodule that is not in the tree, and the
stream is a sequence of packets here, so that a send that writes only a part of one
is not seen.  Floating point: positions are on a lattice, and directions are
headings or none, which leaves out the infinite one that the NaN check lets
through.  The tick interval: in `Server` a tick may come early, and so may a
heart-beat timeout, which `HeartBeat` has in detail.  Object lifetimes of clients, in
particular of coroutines that captured a raw `this`; those of players are in
`Combat`.  Two subworlds that share the entity of a player who moves on.
`ConcurrentMap` and `ConcurrentQueue`: nothing uses them, so there are no callers to
model them under.  The components marked `not_modelled` in `PROJECT.json`, each with
its reason.

## 7. Plan

1. *Session*: the lifetime of one client and what its coroutines hold, with the two
   halves of its start, which `Server` has as one step and `HeartBeat` as two.  An
   abstract session (open, then closed once) as its specification.
2. Two subworlds with players that move between them, and `Crossing` with them; the
   tick interval of a zone, and that two chains of ticks do not double its rate.
3. Whether a call of jump point search always ends its search, on any grid: points are
   queued again and again, and no order on the states is known that says it does.
