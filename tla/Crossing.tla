------------------------------ MODULE Crossing ------------------------------
(***************************************************************************)
(* Crossing: one player who moves from zone to zone and attacks on the     *)
(* way.  An attack is handled on the strand of the zone it was sent to.    *)
(* The zone the player leaves may still have one to handle when the next   *)
(* zone handles another: two threads of the pool then use the one state    *)
(* machine of the player, which has no lock.  Here each reads and writes   *)
(* it in steps of its own, with time, as in Combat.                        *)
(***************************************************************************)
EXTENDS Naturals

CONSTANTS
  Zones,
  AttackDelay   \* from an attack back to idle

NoZone == "no_zone"

VARIABLES
  handler,     \* handler[z]: where the attack is on the strand of z
  state,       \* StateMachine::_current_state
  timer,       \* _delay_timer, by the zone whose strand made it
  coroutine,   \* the delayed transition that the strand of z runs
  left,        \* time before the timer of a zone expires
  since        \* age of the last attack, up to AttackDelay

vars == <<handler, state, timer, coroutine, left, since>>

Init ==
  /\ handler = [z \in Zones |-> "none"]
  /\ state = "Idle"
  /\ timer = NoZone
  /\ coroutine = [z \in Zones |-> "none"]
  /\ left = [z \in Zones |-> 0]
  /\ since = AttackDelay

Passes ==
  /\ left' = [z \in Zones |-> IF left[z] > 0 THEN left[z] - 1 ELSE 0]
  /\ since' = IF since < AttackDelay THEN since + 1 ELSE AttackDelay
  /\ UNCHANGED <<handler, state, timer, coroutine>>

\* The server posts an attack to the zone the player is in, or was in.
Post(z) ==
  /\ handler[z] = "none"
  /\ handler' = [handler EXCEPT ![z] = "posted"]
  /\ UNCHANGED <<state, timer, coroutine, left, since>>

\* try_transition reads the current state, which may refuse.
Check(z) ==
  /\ handler[z] = "posted"
  /\ handler' = [handler EXCEPT ![z] = IF state = "Idle" THEN "allowed" ELSE "none"]
  /\ UNCHANGED <<state, timer, coroutine, left, since>>

\* It writes the new one, and the attack is made.
Strike(z) ==
  /\ handler[z] = "allowed"
  /\ state' = "Attacking"
  /\ since' = 0
  /\ handler' = [handler EXCEPT ![z] = "struck"]
  /\ UNCHANGED <<timer, coroutine, left>>

\* transition_delayed: abort ends a coroutine that waits on the timer there is,
\* and a new coroutine is spawned on a timer of its own.
Delay(z) ==
  /\ handler[z] = "struck"
  /\ coroutine' = [y \in Zones |->
       CASE y = z -> "spawned"
         [] y # z /\ y = timer /\ coroutine[y] = "waiting" -> "none"
         [] OTHER -> coroutine[y]]
  /\ timer' = z
  /\ left' = [left EXCEPT ![z] = AttackDelay]
  /\ handler' = [handler EXCEPT ![z] = "none"]
  /\ UNCHANGED <<state, since>>

Wait(z) ==
  /\ coroutine[z] = "spawned" /\ handler[z] \in {"none", "posted"}
  /\ coroutine' = [coroutine EXCEPT ![z] = "waiting"]
  /\ UNCHANGED <<handler, state, timer, left, since>>

\* The timer has expired and the coroutine runs try_transition("Idle").
Fire(z) ==
  /\ coroutine[z] = "waiting" /\ left[z] = 0 /\ handler[z] \in {"none", "posted"}
  /\ coroutine' = [coroutine EXCEPT ![z] = "none"]
  /\ state' = "Idle"
  /\ UNCHANGED <<handler, timer, left, since>>

Next ==
  Passes \/ \E z \in Zones : Post(z) \/ Check(z) \/ Strike(z) \/ Delay(z) \/ Wait(z) \/ Fire(z)

Spec == Init /\ [][Next]_vars
-----------------------------------------------------------------------------
\* data/weapons/schema.json, attackInterval, "Time in milliseconds between
\* attacks": a player strikes again only when the interval has passed.
AttackIntervalIsKept ==
  [][\A z \in Zones : handler[z] # "struck" /\ handler'[z] = "struck" => since = AttackDelay]_vars
=============================================================================
