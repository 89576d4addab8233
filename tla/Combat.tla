------------------------------- MODULE Combat -------------------------------
(***************************************************************************)
(* StateMachine, MeleeAttack and SimpleMonster: the fights of the players  *)
(* of one zone with each other and with a monster.  All of it runs on the  *)
(* strand of the zone, but for the time that passes and for the players    *)
(* that other threads let go of once they have left the zone.              *)
(*                                                                         *)
(* Geometry is left open: who is seen, close or hit, which paths there are *)
(* and whether a step on one is done can turn out either way.  Time is     *)
(* kept as ages and as the time that is left, up to where it matters.      *)
(***************************************************************************)
EXTENDS Naturals

CONSTANTS
  Players, Monster,
  AttackDelay,    \* from an attack back to idle
  RechaseAfter,   \* how long a monster follows a path
  MaxPath,        \* bound: the longest path
  MaxHealth

Fighters == Players \cup {Monster}

ASSUME CombatAssumption ==
  /\ Monster \notin Players
  /\ AttackDelay \in Nat \ {0} /\ RechaseAfter \in Nat \ {0}
  /\ MaxPath \in Nat \ {0} /\ MaxHealth \in Nat

VARIABLES
  inZone,     \* the players in the subworld
  alive,      \* the players that exist
  state,      \* StateMachine::_current_state
  delay,      \* the coroutine that waits on _delay_timer
  left,       \* time before _delay_timer expires
  stray,      \* number of coroutines that wait on a timer given up, or are past it
  health,     \* EntityResource::health
  since,      \* age of the last attack, up to AttackDelay
  mode,       \* SimpleMonster::_state
  target,     \* _chasing_target
  length, index,   \* of _chasing_path, _chasing_path_index
  chased,     \* age of _chasing_started, up to RechaseAfter + 1
  crashed     \* freed memory has been used

machineVars == <<state, delay, left, stray, since>>
monsterVars == <<mode, target, length, index, chased>>
vars == <<inZone, alive, machineVars, health, monsterVars, crashed>>

TypeOK ==
  /\ inZone \subseteq alive /\ alive \subseteq Players
  /\ state \in [Fighters -> {"Idle", "Attacking"}]
  /\ delay \in [Fighters -> {"none", "spawned", "waiting", "expired"}]
  /\ left \in [Fighters -> 0..AttackDelay]
  /\ stray \in [Fighters -> 0..1]
  /\ health \in [Fighters -> 0..MaxHealth]
  /\ since \in [Fighters -> 0..AttackDelay]
  /\ mode \in {"IDLE", "CHASING", "ATTACKING"}
  /\ target \in Fighters     \* Monster stands for the null pointer
  /\ length \in 0..MaxPath /\ index \in 0..length
  /\ chased \in 0..(RechaseAfter + 1)
  /\ crashed \in BOOLEAN

Init ==
  /\ inZone = {}
  /\ alive = Players
  /\ state = [e \in Fighters |-> "Idle"]
  /\ delay = [e \in Fighters |-> "none"]
  /\ left = [e \in Fighters |-> 0]
  /\ stray = [e \in Fighters |-> 0]
  /\ health = [e \in Fighters |-> MaxHealth]
  /\ since = [e \in Fighters |-> AttackDelay]
  /\ mode = "IDLE"
  /\ target = Monster
  /\ length = 0 /\ index = 0
  /\ chased = 0
  /\ crashed = FALSE
-----------------------------------------------------------------------------
\* A unit of time passes.
Passes ==
  /\ left' = [e \in Fighters |-> IF left[e] > 0 THEN left[e] - 1 ELSE 0]
  /\ since' = [e \in Fighters |-> IF since[e] < AttackDelay THEN since[e] + 1 ELSE AttackDelay]
  /\ chased' = IF chased <= RechaseAfter THEN chased + 1 ELSE RechaseAfter + 1
  /\ UNCHANGED <<inZone, alive, state, delay, stray, health, mode, target, length, index,
                 crashed>>

\* StateMachine::abort.  A coroutine that waits is told, and ends.  One that
\* does not wait yet, or does not wait any more, is not.
Abort(e) ==
  stray' = [stray EXCEPT ![e] = IF delay[e] \in {"spawned", "expired"} THEN @ + 1 ELSE @]

\* StateMachine::transition_delayed to "Idle".
TransitionDelayed(e) ==
  /\ Abort(e)
  /\ delay' = [delay EXCEPT ![e] = "spawned"]
  /\ left' = [left EXCEPT ![e] = AttackDelay]

\* The coroutine has been spawned and waits on its timer.
Wait(e) ==
  /\ delay[e] = "spawned"
  /\ delay' = [delay EXCEPT ![e] = "waiting"]
  /\ UNCHANGED <<inZone, alive, state, left, stray, since, health, monsterVars, crashed>>

\* The timer expires: the coroutine is queued on the strand.
Expire(e) ==
  /\ delay[e] = "waiting"
  /\ left[e] = 0
  /\ delay' = [delay EXCEPT ![e] = "expired"]
  /\ UNCHANGED <<inZone, alive, state, left, stray, since, health, monsterVars, crashed>>

\* Mutant: the coroutine ends without a transition.
FireNothing(e) ==
  /\ delay[e] = "expired"
  /\ delay' = [delay EXCEPT ![e] = "none"]
  /\ UNCHANGED <<inZone, alive, state, left, stray, since, health, monsterVars, crashed>>

\* The coroutine resumes: try_transition("Idle"), which idle itself refuses.
Fire(e) ==
  /\ delay[e] = "expired"
  /\ delay' = [delay EXCEPT ![e] = "none"]
  /\ state' = [state EXCEPT ![e] = "Idle"]
  /\ UNCHANGED <<inZone, alive, left, stray, since, health, monsterVars, crashed>>

\* So does one whose timer has been given up.  It holds a plain this.
FireStray(e) ==
  /\ stray[e] > 0
  /\ stray' = [stray EXCEPT ![e] = @ - 1]
  /\ IF e \in alive \cup {Monster}
       THEN state' = [state EXCEPT ![e] = "Idle"] /\ UNCHANGED crashed
       ELSE crashed' = TRUE /\ UNCHANGED state
  /\ UNCHANGED <<inZone, alive, delay, left, since, health, monsterVars>>

\* EntityResource::change_health for those who are hit: each loses one, and no
\* more than there is.
Hurt(hits) ==
  [h \in Fighters |-> IF h \in hits /\ health[h] > 0 THEN health[h] - 1 ELSE health[h]]

\* Mutant: the damage is done before the attacker is known to be idle.
UseFirst(e) ==
  \E hits \in SUBSET ((inZone \cup {Monster}) \ {e}) :
    /\ health' = Hurt(hits)
    /\ IF state[e] = "Idle"
         THEN /\ state' = [state EXCEPT ![e] = "Attacking"]
              /\ since' = [since EXCEPT ![e] = 0]
              /\ TransitionDelayed(e)
         ELSE UNCHANGED machineVars

\* Mutant: attacking leads to attacking too.
UseAgain(e) ==
  \E hits \in SUBSET ((inZone \cup {Monster}) \ {e}) :
    /\ state' = [state EXCEPT ![e] = "Attacking"]
    /\ health' = Hurt(hits)
    /\ since' = [since EXCEPT ![e] = 0]
    /\ TransitionDelayed(e)

\* MeleeAttack::use.  An attacker that is not idle does nothing; anybody else
\* may be hit.
Use(e) ==
  /\ state[e] = "Idle"
  /\ state' = [state EXCEPT ![e] = "Attacking"]
  /\ \E hits \in SUBSET ((inZone \cup {Monster}) \ {e}) :
       health' = Hurt(hits)
  /\ since' = [since EXCEPT ![e] = 0]
  /\ TransitionDelayed(e)
-----------------------------------------------------------------------------
\* Zone::add_client_deferred
Enter(p) ==
  /\ p \in alive \ inZone
  /\ inZone' = inZone \cup {p}
  /\ UNCHANGED <<alive, machineVars, health, monsterVars, crashed>>

\* Zone::remove_client_deferred
Leave(p) ==
  /\ p \in inZone
  /\ inZone' = inZone \ {p}
  /\ UNCHANGED <<alive, machineVars, health, monsterVars, crashed>>

\* The last owner of a player that is in no zone lets go of it.
Destroy(p) ==
  /\ p \in alive \ inZone
  /\ alive' = alive \ {p}
  /\ Abort(p)
  /\ delay' = [delay EXCEPT ![p] = "none"]
  /\ UNCHANGED <<inZone, state, left, since, health, monsterVars, crashed>>

\* Zone::handle_skill_melee_attack
PlayerAttacks(p) ==
  /\ p \in inZone
  /\ Use(p)
  /\ UNCHANGED <<inZone, alive, monsterVars, crashed>>
-----------------------------------------------------------------------------
\* SimpleMonster::tick, one action for each way it can go.  A zone ticks while
\* there is someone in it.  Idle: a player is seen and there is a path to him.
Notice ==
  /\ mode = "IDLE"
  /\ \E p \in inZone, n \in 1..MaxPath : target' = p /\ length' = n
  /\ mode' = "CHASING"
  /\ index' = 0
  /\ chased' = 0
  /\ UNCHANGED <<machineVars, health, crashed>>

Chases == mode \in {"CHASING", "ATTACKING"}

\* The target is looked at, by a plain pointer, to ask whether it is there.
UseDangling ==
  /\ Chases /\ target \notin alive
  /\ crashed' = TRUE
  /\ UNCHANGED <<machineVars, health, monsterVars>>

\* Mutant: a lost target is kept while attacking.
LoseTargetChased ==
  /\ mode = "CHASING" /\ target \in alive \ inZone
  /\ mode' = "IDLE"
  /\ UNCHANGED <<machineVars, health, target, length, index, chased, crashed>>

LoseTarget ==
  /\ Chases /\ target \in alive \ inZone
  /\ mode' = "IDLE"
  /\ UNCHANGED <<machineVars, health, target, length, index, chased, crashed>>

\* Follow the path, a new one if it has been followed for too long.  At its end
\* the target is close, or it ran away.
Follow ==
  /\ mode = "CHASING" /\ target \in inZone
  /\ \E n \in 0..MaxPath :
       LET late == chased > RechaseAfter
           from == IF late THEN 0 ELSE index
       IN
       /\ late \/ n = length
       /\ chased' = IF late THEN 0 ELSE chased
       /\ length' = n
       /\ IF from < n
            THEN index' \in {from, from + 1} /\ UNCHANGED mode
            ELSE index' = from /\ mode' \in (IF n = 0 THEN {"IDLE"} ELSE {"IDLE", "ATTACKING"})
  /\ UNCHANGED <<machineVars, health, target, crashed>>

\* The target got too far for an attack.
GiveUp ==
  /\ mode = "ATTACKING" /\ target \in inZone
  /\ mode' = "IDLE"
  /\ UNCHANGED <<machineVars, health, target, length, index, chased, crashed>>

MonsterAttacks ==
  /\ mode = "ATTACKING" /\ target \in inZone
  /\ Use(Monster)
  /\ UNCHANGED <<monsterVars, crashed>>

Tick ==
  /\ inZone # {}
  /\ Notice \/ UseDangling \/ LoseTarget \/ Follow \/ GiveUp \/ MonsterAttacks
  /\ UNCHANGED <<inZone, alive>>
-----------------------------------------------------------------------------
Machine(e) == Wait(e) \/ Expire(e) \/ Fire(e)

Next ==
  /\ ~crashed
  /\ \/ Passes \/ Tick
     \/ \E e \in Fighters : Machine(e) \/ FireStray(e)
     \/ \E p \in Players : Enter(p) \/ Leave(p) \/ Destroy(p) \/ PlayerAttacks(p)

Spec == Init /\ [][Next]_vars

\* Time passes, the pool runs coroutines that are ready, and zones tick.
Fairness ==
  /\ WF_vars(~crashed /\ Passes)
  /\ \A e \in Fighters : WF_vars(~crashed /\ Machine(e))
  /\ WF_vars(~crashed /\ Tick)

FairSpec == Spec /\ Fairness
-----------------------------------------------------------------------------
Exist == alive \cup {Monster}

\* An attacker has exactly one way back to idle to come, and who is idle has
\* none: no transition is left over from an attack that is past.
AttackersReturn ==
  \A e \in Exist : stray[e] = 0 /\ (state[e] = "Attacking" <=> delay[e] # "none")

\* Nobody is hurt but by an attack, and no attacker attacks again before
\* AttackDelay has passed, whenever timers expire and coroutines resume.
AttacksAreSpaced ==
  [][\A h \in Fighters : health'[h] # health[h] =>
       \E e \in Fighters \ {h} : since[e] = AttackDelay /\ since'[e] = 0]_vars

\* Who attacks gets back to idle.
AttacksEnd == \A e \in Fighters : state[e] = "Attacking" ~> (state[e] = "Idle" \/ e \notin Exist \/ crashed)

\* A monster gives up a player that has left, if the zone goes on ticking.
LostTargetsAreGivenUp ==
  \A p \in Players :
    Chases /\ target = p /\ p \notin inZone ~>
      ~Chases \/ p \in inZone \/ inZone = {} \/ crashed

\* simple_monster.cpp:22, "`_chasing_target` is shared_ptr, holding the target
\* even if the player has already left the zone".
TargetIsHeld == Chases => target \in alive
=============================================================================
