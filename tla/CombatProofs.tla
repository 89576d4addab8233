---------------------------- MODULE CombatProofs ----------------------------
(***************************************************************************)
(* For any players and any delays: attackers have one way back to idle,    *)
(* and attacks are spaced.                                                 *)
(*                                                                         *)
(* A state machine gives up a timer without knowing whether its coroutine  *)
(* can still be told.  It never has to: an attack needs an idle attacker,  *)
(* and an idle fighter has no coroutine.  What relates the two is the time *)
(* the coroutine has waited for.                                           *)
(***************************************************************************)
EXTENDS Combat, TLAPS

\* For a fighter that exists: no coroutine is left over, and the one there is
\* belongs to the attack that is under way.
Single(e) == stray[e] = 0 /\ (state[e] = "Attacking" <=> delay[e] # "none")

\* The age of an attack and what its coroutine is still to wait for.
Spaced(e) ==
  /\ delay[e] \in {"none", "expired"} => since[e] = AttackDelay
  /\ delay[e] \in {"spawned", "waiting"} => since[e] + left[e] >= AttackDelay

CombatInv ==
  /\ TypeOK
  /\ \A e \in Exist : Single(e) /\ Spaced(e)
  /\ \A e \in Fighters \ Exist : delay[e] = "none"

-----------------------------------------------------------------------------
\* While time passes, the wait loses no more than the age gains.
LEMMA StaysSpaced ==
  ASSUME NEW d \in Nat, NEW s \in 0..d, NEW l \in 0..d
  PROVE  LET t == IF s < d THEN s + 1 ELSE d
             r == IF l > 0 THEN l - 1 ELSE 0
         IN  /\ t \in 0..d /\ r \in 0..d
             /\ s + l >= d => t + r >= d
             /\ s = d => t = d
  OBVIOUS

\* A wait that is over has lasted long enough.
LEMMA Overdue ==
  ASSUME NEW d \in Nat, NEW s \in 0..d, NEW l \in 0..d, s + l >= d
  PROVE  l = 0 => s = d
  OBVIOUS

LEMMA ExistFacts ==
  ASSUME TypeOK
  PROVE  /\ inZone \subseteq Exist /\ Exist \subseteq Fighters /\ Monster \in Exist
         /\ Players \subseteq Fighters
  BY DEF TypeOK, Exist, Fighters

-----------------------------------------------------------------------------
\* A use by a fighter that exists, with the rest of the types.
LEMMA UseKeeps ==
  ASSUME CombatInv, NEW e \in Exist, Use(e), UNCHANGED <<inZone, alive, monsterVars, crashed>>
  PROVE  CombatInv'
<1>1. TypeOK /\ e \in Fighters /\ Single(e) /\ Spaced(e) /\ AttackDelay \in Nat \ {0}
  BY ExistFacts, CombatAssumption DEF CombatInv
<1>2. delay[e] = "none" /\ state[e] = "Idle"
  BY <1>1 DEF Use, Single, TypeOK
<1>3. /\ state' = [state EXCEPT ![e] = "Attacking"]
      /\ since' = [since EXCEPT ![e] = 0]
      /\ delay' = [delay EXCEPT ![e] = "spawned"]
      /\ left' = [left EXCEPT ![e] = AttackDelay]
      /\ stray' = stray
  BY <1>1, <1>2 DEF Use, TransitionDelayed, Abort, TypeOK
<1>4. TypeOK'
  <2>1. health' \in [Fighters -> 0..MaxHealth]
    <3>1. PICK hits \in SUBSET ((inZone \cup {Monster}) \ {e}) :
            health' = [h \in Fighters |->
                         IF h \in hits /\ health[h] > 0 THEN health[h] - 1 ELSE health[h]]
      BY DEF Use, Hurt
    <3>2. \A h \in Fighters : health[h] \in 0..MaxHealth
      BY <1>1 DEF TypeOK
    <3>3. \A h \in Fighters :
            (IF h \in hits /\ health[h] > 0 THEN health[h] - 1 ELSE health[h]) \in 0..MaxHealth
      BY <3>2, CombatAssumption
    <3> QED BY <3>1, <3>3
  <2>2. /\ state' \in [Fighters -> {"Idle", "Attacking"}]
        /\ delay' \in [Fighters -> {"none", "spawned", "waiting", "expired"}]
        /\ stray' \in [Fighters -> 0..1]
    BY <1>1, <1>3 DEF TypeOK
  <2>3. since' \in [Fighters -> 0..AttackDelay] /\ left' \in [Fighters -> 0..AttackDelay]
    BY <1>1, <1>3 DEF TypeOK
  <2> QED BY <1>1, <2>1, <2>2, <2>3 DEF TypeOK, monsterVars
<1>5. ASSUME NEW f \in Exist' PROVE Single(f)' /\ Spaced(f)'
  <2>1. f \in Exist /\ f \in Fighters /\ Single(f) /\ Spaced(f)
    BY ExistFacts, <1>1 DEF CombatInv, Exist
  <2>2. CASE f = e
    <3>1. Single(f)'
      BY <1>1, <1>3, <2>1, <2>2 DEF Single, TypeOK
    <3>2. delay'[f] = "spawned" /\ since'[f] = 0 /\ left'[f] = AttackDelay
      BY <1>1, <1>3, <2>2 DEF TypeOK
    <3>3. 0 + AttackDelay >= AttackDelay
      BY <1>1
    <3> QED BY <3>1, <3>2, <3>3 DEF Spaced
  <2>3. CASE f # e
    <3>1. /\ state'[f] = state[f] /\ since'[f] = since[f] /\ delay'[f] = delay[f]
          /\ left'[f] = left[f] /\ stray'[f] = stray[f]
      BY <1>1, <1>3, <2>1, <2>3 DEF TypeOK
    <3> QED BY <2>1, <3>1 DEF Single, Spaced
  <2> QED BY <2>2, <2>3
<1>6. \A f \in Fighters \ Exist' : delay'[f] = "none"
  BY <1>1, <1>3 DEF CombatInv, Exist, TypeOK
<1> QED BY <1>4, <1>5, <1>6 DEF CombatInv

\* What has nothing to do with state machines keeps what is known of them.
LEMMA MachinesAside ==
  ASSUME CombatInv, UNCHANGED <<machineVars, alive>>, TypeOK'
  PROVE  CombatInv'
<1>1. \A e : (Single(e) => Single(e)') /\ (Spaced(e) => Spaced(e)')
  BY DEF Single, Spaced, machineVars
<1> QED BY <1>1 DEF CombatInv, Exist, machineVars

-----------------------------------------------------------------------------
LEMMA CombatInit == Init => CombatInv
<1> SUFFICES ASSUME Init PROVE CombatInv
  OBVIOUS
<1>1. AttackDelay \in Nat /\ RechaseAfter \in Nat /\ MaxPath \in Nat /\ MaxHealth \in Nat
  BY CombatAssumption
<1>2. TypeOK
  <2>1. /\ left \in [Fighters -> 0..AttackDelay] /\ since \in [Fighters -> 0..AttackDelay]
        /\ stray \in [Fighters -> 0..1] /\ health \in [Fighters -> 0..MaxHealth]
    BY <1>1 DEF Init
  <2>2. length \in 0..MaxPath /\ index \in 0..length /\ chased \in 0..(RechaseAfter + 1)
    BY <1>1 DEF Init
  <2>3. target \in Fighters /\ inZone \subseteq alive /\ alive \subseteq Players
    BY DEF Init, Fighters
  <2> QED BY <2>1, <2>2, <2>3 DEF Init, TypeOK
<1>3. \A e \in Fighters : Single(e) /\ Spaced(e) /\ delay[e] = "none"
  BY DEF Init, Single, Spaced
<1> QED BY <1>2, <1>3, ExistFacts DEF CombatInv

LEMMA PassesKeeps == CombatInv /\ Passes => CombatInv'
<1> SUFFICES ASSUME CombatInv, Passes PROVE CombatInv'
  OBVIOUS
<1>1. TypeOK /\ AttackDelay \in Nat
  BY CombatAssumption DEF CombatInv
<1>2. ASSUME NEW e \in Fighters
      PROVE  /\ since[e] \in 0..AttackDelay /\ left[e] \in 0..AttackDelay
             /\ since'[e] = IF since[e] < AttackDelay THEN since[e] + 1 ELSE AttackDelay
             /\ left'[e] = IF left[e] > 0 THEN left[e] - 1 ELSE 0
  BY <1>1 DEF Passes, TypeOK
<1>3. ASSUME NEW e \in Fighters
      PROVE  /\ since'[e] \in 0..AttackDelay /\ left'[e] \in 0..AttackDelay
             /\ since[e] + left[e] >= AttackDelay => since'[e] + left'[e] >= AttackDelay
             /\ since[e] = AttackDelay => since'[e] = AttackDelay
  BY <1>1, <1>2, StaysSpaced
<1>4. TypeOK'
  <2>1. since' \in [Fighters -> 0..AttackDelay] /\ left' \in [Fighters -> 0..AttackDelay]
    BY <1>3 DEF Passes
  <2>2. chased' \in 0..(RechaseAfter + 1)
    BY <1>1, CombatAssumption DEF Passes, TypeOK
  <2> QED BY <1>1, <2>1, <2>2 DEF Passes, TypeOK
<1>5. \A e \in Exist : Single(e)' /\ Spaced(e)'
  BY <1>1, <1>3, ExistFacts DEF CombatInv, Passes, Single, Spaced
<1> QED BY <1>4, <1>5 DEF CombatInv, Passes, Exist

LEMMA MachineKeeps ==
  ASSUME CombatInv, NEW e \in Fighters, Machine(e) \/ FireStray(e)
  PROVE  CombatInv'
<1>1. TypeOK /\ AttackDelay \in Nat
  BY CombatAssumption DEF CombatInv
<1>2. e \in Exist => Single(e) /\ Spaced(e)
  BY DEF CombatInv
<1>3. e \notin Exist => delay[e] = "none"
  BY DEF CombatInv
<1>4. UNCHANGED <<inZone, alive, left, since, health, monsterVars>>
  BY DEF Machine, Wait, Expire, Fire, FireStray, monsterVars
<1>5. ASSUME NEW f \in Fighters, f # e
      PROVE  state'[f] = state[f] /\ delay'[f] = delay[f] /\ stray'[f] = stray[f]
  BY <1>1, <1>5 DEF Machine, Wait, Expire, Fire, FireStray, TypeOK
<1>6. /\ state' \in [Fighters -> {"Idle", "Attacking"}]
      /\ delay' \in [Fighters -> {"none", "spawned", "waiting", "expired"}]
  BY <1>1 DEF Machine, Wait, Expire, Fire, FireStray, TypeOK
<1>7. stray' \in [Fighters -> 0..1]
  <2>1. CASE Machine(e)
    BY <1>1, <2>1 DEF Machine, Wait, Expire, Fire, TypeOK
  <2>2. CASE FireStray(e)
    <3>1. stray' = [stray EXCEPT ![e] = stray[e] - 1] /\ stray[e] > 0
      BY <2>2 DEF FireStray
    <3>2. stray[e] \in 0..1
      BY <1>1 DEF TypeOK
    <3>3. stray[e] - 1 \in 0..1
      BY <3>1, <3>2
    <3> QED BY <1>1, <3>1, <3>3 DEF TypeOK
  <2> QED BY <2>1, <2>2
<1>8. TypeOK'
  <2>1. crashed' \in BOOLEAN
    BY <1>1 DEF Machine, Wait, Expire, Fire, FireStray, TypeOK
  <2> QED BY <1>1, <1>4, <1>6, <1>7, <2>1 DEF TypeOK, monsterVars
<1>9. ASSUME e \in Exist PROVE Single(e)' /\ Spaced(e)'
  <2>1. stray[e] = 0 /\ Single(e) /\ Spaced(e)
    BY <1>2, <1>9 DEF Single
  <2>2. ~FireStray(e)
    BY <2>1 DEF FireStray
  <2>3. CASE Wait(e)
    BY <1>1, <2>1, <2>3 DEF Wait, Single, Spaced, TypeOK
  <2>4. CASE Expire(e)
    <3>1. delay[e] = "waiting" /\ left[e] = 0 /\ since[e] + left[e] >= AttackDelay
      BY <2>1, <2>4 DEF Expire, Spaced
    <3>2. since[e] = AttackDelay
      BY <1>1, <3>1, Overdue DEF TypeOK
    <3> QED BY <1>1, <2>1, <2>4, <3>2 DEF Expire, Single, Spaced, TypeOK
  <2>5. CASE Fire(e)
    BY <1>1, <2>1, <2>5 DEF Fire, Single, Spaced, TypeOK
  <2> QED BY <2>2, <2>3, <2>4, <2>5 DEF Machine
<1>10. ASSUME NEW f \in Exist' PROVE Single(f)' /\ Spaced(f)'
  <2>1. f \in Exist /\ f \in Fighters
    BY <1>1, <1>4, ExistFacts DEF Exist
  <2>2. CASE f = e
    BY <1>9, <2>1, <2>2
  <2>3. CASE f # e
    BY <1>4, <1>5, <2>1, <2>3 DEF CombatInv, Single, Spaced
  <2> QED BY <2>2, <2>3
<1>11. ASSUME NEW f \in Fighters \ Exist' PROVE delay'[f] = "none"
  <2>1. f \notin Exist /\ delay[f] = "none"
    BY <1>4 DEF Exist, CombatInv
  <2>2. CASE f = e
    BY <2>1, <2>2 DEF Machine, Wait, Expire, Fire, FireStray
  <2>3. CASE f # e
    BY <1>5, <2>1, <2>3
  <2> QED BY <2>2, <2>3
<1> QED BY <1>8, <1>10, <1>11 DEF CombatInv

\* A player that nobody holds any more: a coroutine that cannot be told is left.
LEMMA DestroyKeeps ==
  ASSUME CombatInv, NEW p \in Players, Destroy(p)
  PROVE  CombatInv'
<1>1. TypeOK /\ p \in Fighters /\ p \in Exist /\ p # Monster
  BY CombatAssumption DEF CombatInv, Destroy, Exist, Fighters
<1>2. stray[p] = 0
  BY <1>1 DEF CombatInv, Single
<1>3. /\ alive' = alive \ {p} /\ delay' = [delay EXCEPT ![p] = "none"]
      /\ UNCHANGED <<inZone, state, left, since, health, monsterVars, crashed>>
      /\ p \notin inZone
  BY DEF Destroy
<1>4. /\ stray' \in [Fighters -> 0..1]
      /\ \A f \in Fighters \ {p} : stray'[f] = stray[f]
  BY <1>1, <1>2 DEF Destroy, Abort, TypeOK
<1>5. TypeOK'
  BY <1>1, <1>3, <1>4 DEF TypeOK, monsterVars
<1>6. Exist' = Exist \ {p}
  BY <1>1, <1>3 DEF Exist
<1>7. ASSUME NEW f \in Exist' PROVE Single(f)' /\ Spaced(f)'
  <2>1. f \in Exist /\ f # p /\ f \in Fighters /\ Single(f) /\ Spaced(f)
    BY <1>1, <1>6, <1>7, ExistFacts DEF CombatInv
  <2>2. /\ state'[f] = state[f] /\ since'[f] = since[f] /\ delay'[f] = delay[f]
        /\ left'[f] = left[f] /\ stray'[f] = stray[f]
    BY <1>1, <1>3, <1>4, <2>1 DEF TypeOK
  <2> QED BY <2>1, <2>2 DEF Single, Spaced
<1>8. \A f \in Fighters \ Exist' : delay'[f] = "none"
  BY <1>1, <1>3, <1>6 DEF CombatInv, TypeOK
<1> QED BY <1>5, <1>7, <1>8 DEF CombatInv

LEMMA TickKeeps == CombatInv /\ Tick => CombatInv'
<1> SUFFICES ASSUME CombatInv, Tick PROVE CombatInv'
  OBVIOUS
<1>1. TypeOK /\ UNCHANGED <<inZone, alive>>
  BY DEF CombatInv, Tick
<1>2. CASE MonsterAttacks
  <2>1. Use(Monster) /\ UNCHANGED <<monsterVars, crashed>>
    BY <1>2 DEF MonsterAttacks
  <2> QED BY <1>1, <2>1, UseKeeps, ExistFacts
<1>3. CASE ~MonsterAttacks
  <2>1. UNCHANGED <<machineVars, health>>
    BY <1>3 DEF Tick, Notice, UseDangling, LoseTarget, Follow, GiveUp
  <2>2. mode' \in {"IDLE", "CHASING", "ATTACKING"} /\ target' \in Fighters /\ crashed' \in BOOLEAN
    BY <1>1, <1>3, ExistFacts DEF Tick, Notice, UseDangling, LoseTarget, Follow, GiveUp, TypeOK, monsterVars, Exist
  <2>3. length' \in 0..MaxPath /\ index' \in 0..length' /\ chased' \in 0..(RechaseAfter + 1)
    <3>1. CASE Notice
      BY <3>1, CombatAssumption DEF Notice
    <3>2. CASE Follow
      <4>1. PICK n \in 0..MaxPath :
              LET late == chased > RechaseAfter
                  from == IF late THEN 0 ELSE index
              IN
              /\ late \/ n = length
              /\ chased' = IF late THEN 0 ELSE chased
              /\ length' = n
              /\ IF from < n
                   THEN index' \in {from, from + 1} /\ UNCHANGED mode
                   ELSE index' = from /\ mode' \in (IF n = 0 THEN {"IDLE"} ELSE {"IDLE", "ATTACKING"})
        BY <3>2 DEF Follow
      <4>2. length \in Nat /\ index \in 0..length /\ chased \in 0..(RechaseAfter + 1)
        BY <1>1, CombatAssumption DEF TypeOK
      <4>3. chased' \in 0..(RechaseAfter + 1)
        BY <4>1, <4>2, CombatAssumption
      <4>4. CASE chased > RechaseAfter
        BY <4>1, <4>4, CombatAssumption
      <4>5. CASE ~(chased > RechaseAfter)
        <5>1. n = length /\ (index < n => index' \in {index, index + 1})
                /\ (~(index < n) => index' = index)
          BY <4>1, <4>5
        <5>2. index \in 0..n /\ (index < n => index + 1 \in 0..n)
          BY <4>2, <5>1
        <5>3. index' \in 0..n
          BY <5>1, <5>2
        <5>4. length' = n /\ n \in 0..MaxPath
          BY <4>1
        <5> QED BY <4>3, <5>3, <5>4
      <4> QED BY <4>1, <4>3, <4>4, <4>5
    <3>3. CASE UseDangling \/ LoseTarget \/ GiveUp
      BY <1>1, <3>3 DEF UseDangling, LoseTarget, GiveUp, TypeOK, monsterVars
    <3> QED BY <1>3, <3>1, <3>2, <3>3 DEF Tick
  <2>4. TypeOK'
    BY <1>1, <2>1, <2>2, <2>3 DEF TypeOK, machineVars
  <2> QED BY <1>1, <2>1, <2>4, MachinesAside
<1> QED BY <1>2, <1>3

LEMMA CombatStep == CombatInv /\ [Next]_vars => CombatInv'
<1> SUFFICES ASSUME CombatInv, [Next]_vars PROVE CombatInv'
  OBVIOUS
<1>1. TypeOK
  BY DEF CombatInv
<1>2. CASE Passes
  BY <1>2, PassesKeeps
<1>3. CASE Tick
  BY <1>3, TickKeeps
<1>4. ASSUME NEW e \in Fighters, Machine(e) \/ FireStray(e) PROVE CombatInv'
  BY <1>4, MachineKeeps
<1>5. ASSUME NEW p \in Players, Enter(p) \/ Leave(p) PROVE CombatInv'
  <2>1. TypeOK'
    BY <1>1, <1>5 DEF Enter, Leave, TypeOK, machineVars, monsterVars
  <2> QED BY <1>5, <2>1, MachinesAside DEF Enter, Leave
<1>6. ASSUME NEW p \in Players, Destroy(p) PROVE CombatInv'
  BY <1>6, DestroyKeeps
<1>7. ASSUME NEW p \in Players, PlayerAttacks(p) PROVE CombatInv'
  <2>1. p \in Exist
    BY <1>1, <1>7, ExistFacts DEF PlayerAttacks
  <2> QED BY <1>7, <2>1, UseKeeps DEF PlayerAttacks
<1>8. CASE UNCHANGED vars
  <2>1. TypeOK'
    BY <1>1, <1>8 DEF TypeOK, vars, machineVars, monsterVars
  <2> QED BY <1>8, <2>1, MachinesAside DEF vars
<1> QED BY <1>2, <1>3, <1>4, <1>5, <1>6, <1>7, <1>8 DEF Next

LEMMA CombatInvariant == Spec => []CombatInv
  BY CombatInit, CombatStep, PTL DEF Spec

\* Who uses an attack is idle, and has been since its last one for long enough.
LEMMA UseIsSpaced ==
  ASSUME CombatInv, NEW e \in Exist, Use(e), NEW h, health'[h] # health[h]
  PROVE  e \in Fighters \ {h} /\ since[e] = AttackDelay /\ since'[e] = 0
<1>1. TypeOK /\ e \in Fighters /\ Single(e) /\ Spaced(e)
  BY ExistFacts DEF CombatInv
<1>2. since[e] = AttackDelay /\ since'[e] = 0
  BY <1>1 DEF Use, Single, Spaced, TypeOK
<1>3. h # e
  <2>1. SUFFICES ASSUME h = e PROVE FALSE
    OBVIOUS
  <2>2. health'[e] = health[e]
    BY <1>1 DEF Use, Hurt
  <2> QED BY <2>1, <2>2
<1> QED BY <1>1, <1>2, <1>3

-----------------------------------------------------------------------------
\* The types hold for any players, delays, paths and health.
THEOREM CombatTypes == Spec => []TypeOK
<1>1. CombatInv => TypeOK
  BY DEF CombatInv
<1> QED BY <1>1, CombatInvariant, PTL

\* Whatever order timers expire, coroutines resume, players leave and attacks
\* are made in, an attacker has exactly one transition to idle to come, and an
\* idle fighter none (state_machine.hpp:67-80, melee_attack.hpp:13, 46).
THEOREM AttackersAlwaysReturn == Spec => []AttackersReturn
<1>1. CombatInv => AttackersReturn
  BY DEF CombatInv, AttackersReturn, Single
<1> QED BY <1>1, CombatInvariant, PTL

\* Nobody is hurt but by somebody else's attack, and attacks of one fighter are
\* AttackDelay apart (melee_attack.hpp:13-46).
THEOREM AttacksAlwaysSpaced == Spec => AttacksAreSpaced
<1>1. ASSUME CombatInv, [Next]_vars
      PROVE  [\A h \in Fighters : health'[h] # health[h] =>
                \E e \in Fighters \ {h} : since[e] = AttackDelay /\ since'[e] = 0]_vars
  <2> SUFFICES ASSUME NEW h \in Fighters, health'[h] # health[h]
               PROVE  \E e \in Fighters \ {h} : since[e] = AttackDelay /\ since'[e] = 0
    OBVIOUS
  <2>1. PICK e \in Exist : Use(e)
    <3>1. CASE MonsterAttacks
      BY <3>1, <1>1, ExistFacts DEF MonsterAttacks, CombatInv
    <3>2. CASE \E p \in Players : PlayerAttacks(p)
      BY <3>2, <1>1, ExistFacts DEF PlayerAttacks, CombatInv
    <3>3. CASE ~MonsterAttacks /\ ~\E p \in Players : PlayerAttacks(p)
      <4>1. UNCHANGED health
        BY <1>1, <3>3 DEF Next, Passes, Tick, Notice, UseDangling, LoseTarget, Follow, GiveUp,
             Machine, Wait, Expire, Fire, FireStray, Enter, Leave, Destroy, vars
      <4> QED BY <4>1
    <3> QED BY <3>1, <3>2, <3>3
  <2> QED BY <1>1, <2>1, UseIsSpaced
<1> QED BY <1>1, CombatInvariant, PTL DEF Spec, AttacksAreSpaced
=============================================================================
