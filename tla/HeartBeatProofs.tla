--------------------------- MODULE HeartBeatProofs ---------------------------
(***************************************************************************)
(* The types of HeartBeat, and that no client is timed out early, for any  *)
(* interval and any number of dead beats.                                  *)
(*                                                                         *)
(* NoEarlyTimeout is about the moment of the decision that a client is     *)
(* dead.  What makes it true is the pace of the timer: a dead beat is      *)
(* worth a whole interval, which has passed, is passing, or is about to be *)
(* waited for.                                                             *)
(***************************************************************************)
EXTENDS HeartBeat, Integers, TLAPS

\* What the dead beats counted so far are worth.
Counted == deadBeats * BeatInterval

\* The silence since the last finished beat, together with what the timer is
\* still to wait for, pays for every dead beat counted.
Paced ==
  /\ timer = "off" => deadBeats = 0
  /\ timer \in {"arm", "late", "dead", "stopping", "loop"} => quiet + BeatInterval >= Counted
  /\ timer = "waiting" => quiet + remaining >= Counted
  /\ timer \in {"fire", "check", "compare", "count"} => quiet >= Counted

\* The last dead beat is not counted past.
CountsBelow == timer \in {"compare", "count"} => deadBeats < MaxDeadBeats

\* The timer starts with the session.
StartsOnce == session # "open" <=> timer = "off"

PaceInv == TypeOK /\ Paced /\ CountsBelow /\ StartsOnce

-----------------------------------------------------------------------------
\* Products of counts and the interval.
LEMMA Products ==
  ASSUME NEW n \in Nat, NEW m \in Nat, NEW k \in Nat, n <= m
  PROVE  /\ n * k \in Nat
         /\ n * k <= m * k
         /\ (n + 1) * k = n * k + k
         /\ 0 * k = 0
<1>1. PICK d \in Nat : m = n + d
  <2>1. m - n \in Nat /\ m = n + (m - n)
    OBVIOUS
  <2> QED BY <2>1
<1>2. n * k \in Nat /\ d * k \in Nat
  OBVIOUS
<1>3. m * k = n * k + d * k
  BY <1>1
<1>4. (n + 1) * k = n * k + k
  OBVIOUS
<1> QED BY <1>2, <1>3, <1>4

LEMMA PatienceNat == Patience \in Nat
  BY HeartBeatAssumption, Products DEF Patience

\* In a state with the right types: what Products says of the dead beats.
LEMMA CountedBounds ==
  ASSUME TypeOK
  PROVE  /\ Counted \in Nat
         /\ Counted <= Patience
         /\ (deadBeats + 1) * BeatInterval = Counted + BeatInterval
         /\ 0 * BeatInterval = 0
<1>1. /\ deadBeats \in Nat /\ MaxDeadBeats \in Nat /\ BeatInterval \in Nat
      /\ deadBeats <= MaxDeadBeats
  BY HeartBeatAssumption DEF TypeOK
<1> QED BY <1>1, Products DEF Counted, Patience

\* While time passes, the wait of the timer loses no more than the age gains.
LEMMA Passing ==
  ASSUME NEW p \in Nat, NEW q \in Nat, q <= p, NEW r \in Nat, NEW s \in Nat, NEW t \in Nat,
         s = q + 1 \/ s = p, t = r \/ t = r - 1
  PROVE  q <= s /\ (q + r <= s + t \/ s = p)
  OBVIOUS

\* What has been paid for stays paid for.
LEMMA StaysPaid ==
  ASSUME NEW c \in Nat, NEW p \in Nat, c <= p, NEW q \in Nat, NEW r \in Nat,
         NEW s \in Nat, NEW t \in Nat, q + r >= c, q + r <= s + t \/ s = p
  PROVE  s + t >= c
  OBVIOUS

LEMMA OlderPays ==
  ASSUME NEW c \in Nat, NEW q \in Nat, NEW s \in Nat, NEW i \in Nat, q <= s
  PROVE  (q >= c => s >= c) /\ (q + i >= c => s + i >= c)
  OBVIOUS

LEMMA PaceInit == Init => PaceInv
<1> SUFFICES ASSUME Init PROVE PaceInv
  OBVIOUS
<1>1. BeatInterval \in Nat /\ MaxDeadBeats \in Nat /\ Patience \in Nat
  BY HeartBeatAssumption, PatienceNat
<1>2. silence \in 0..(BeatInterval + 1) /\ quiet \in 0..Patience
  BY <1>1 DEF Init
<1>3. deadBeats \in 0..MaxDeadBeats /\ remaining \in 0..BeatInterval
  BY <1>1 DEF Init
<1>4. TypeOK
  BY <1>2, <1>3 DEF Init, TypeOK
<1> QED BY <1>4 DEF Init, PaceInv, Paced, CountsBelow, StartsOnce

LEMMA PaceStep == PaceInv /\ [Next]_vars => PaceInv'
<1> SUFFICES ASSUME PaceInv, [Next]_vars PROVE PaceInv'
  OBVIOUS
<1>1. /\ BeatInterval \in Nat \ {0} /\ MaxDeadBeats \in Nat \ {0} /\ Patience \in Nat
  BY HeartBeatAssumption, PatienceNat
<1>2. TypeOK /\ Paced /\ CountsBelow /\ StartsOnce
  BY DEF PaceInv
<1>3. Counted \in Nat /\ Counted <= Patience
  BY <1>2, CountedBounds
<1>4. deadBeats' = deadBeats => Counted' = Counted
  BY DEF Counted
<1>5. deadBeats' = 0 => Counted' = 0
  BY <1>2, CountedBounds DEF Counted
<1>6. CASE Passes
  <2>1. TypeOK'
    BY <1>1, <1>2, <1>6 DEF Passes, Older, stopVars, TypeOK
  <2>2. Paced'
    <3>1. /\ quiet \in Nat /\ remaining \in Nat /\ quiet' \in Nat /\ remaining' \in Nat
          /\ quiet <= Patience
      BY <1>1, <1>2, <2>1 DEF TypeOK
    <3>2. quiet' = quiet + 1 \/ quiet' = Patience
      BY <1>6 DEF Passes, Older
    <3>3. remaining' = remaining \/ remaining' = remaining - 1
      BY <1>6, <3>1 DEF Passes
    <3>4. quiet + remaining <= quiet' + remaining' \/ quiet' = Patience
      BY <1>1, <3>1, <3>2, <3>3, Passing
    <3>5. quiet <= quiet'
      BY <1>1, <3>1, <3>2, <3>3, Passing
    <3>6. timer' = timer /\ deadBeats' = deadBeats /\ Counted' = Counted
      BY <1>4, <1>6 DEF Passes
    <3>7. timer = "waiting" => quiet' + remaining' >= Counted
      <4> SUFFICES ASSUME timer = "waiting" PROVE quiet' + remaining' >= Counted
        OBVIOUS
      <4>1. quiet + remaining >= Counted
        BY <1>2 DEF Paced
      <4> QED BY <1>1, <1>3, <3>1, <3>4, <4>1, StaysPaid
    <3>8. timer \in {"arm", "late", "dead", "stopping", "loop"} => quiet' + BeatInterval >= Counted
      <4> SUFFICES ASSUME timer \in {"arm", "late", "dead", "stopping", "loop"}
                   PROVE  quiet' + BeatInterval >= Counted
        OBVIOUS
      <4>1. quiet + BeatInterval >= Counted
        BY <1>2 DEF Paced
      <4> QED BY <1>1, <1>3, <3>1, <3>5, <4>1, OlderPays
    <3>9. timer \in {"fire", "check", "compare", "count"} => quiet' >= Counted
      BY <1>1, <1>2, <1>3, <3>1, <3>5, OlderPays DEF Paced
    <3> QED BY <1>2, <3>6, <3>7, <3>8, <3>9 DEF Paced
  <2> QED BY <1>2, <1>6, <2>1, <2>2 DEF Passes, PaceInv, CountsBelow, StartsOnce
<1>7. ASSUME TypeOK', UNCHANGED <<timer, deadBeats, quiet, remaining>>,
             session' = "open" <=> session = "open"
      PROVE  PaceInv'
  BY <1>2, <1>4, <1>7 DEF PaceInv, Paced, CountsBelow, StartsOnce
<1>8. CASE FallSilent \/ Open \/ Authenticate \/ BeatStore \/ UNCHANGED vars
  <2>1. TypeOK'
    <3>1. CASE FallSilent \/ Open \/ Authenticate \/ UNCHANGED vars
      BY <1>2, <3>1
        DEF FallSilent, Open, Authenticate, vars, stopVars, beatVars, timerVars, TypeOK
    <3>2. CASE BeatStore
      <4>1. silence' \in 0..(BeatInterval + 1)
        BY <1>1, <3>2 DEF BeatStore
      <4> QED BY <1>2, <3>2, <4>1 DEF BeatStore, Hears, stopVars, timerVars, TypeOK
    <3> QED BY <1>8, <3>1, <3>2
  <2>2. UNCHANGED <<timer, deadBeats, quiet, remaining>>
    BY <1>8 DEF FallSilent, Open, Authenticate, BeatStore, vars, beatVars, timerVars
  <2>3. session' = "open" <=> session = "open"
    BY <1>8 DEF FallSilent, Open, Authenticate, BeatStore, vars
  <2> QED BY <1>7, <2>1, <2>2, <2>3
<1>9. CASE StartBeating
  <2>1. TypeOK'
    BY <1>1, <1>2, <1>9 DEF StartBeating, stopVars, TypeOK
  <2>2. deadBeats = 0 /\ deadBeats' = 0 /\ Counted' = 0
    BY <1>2, <1>5, <1>9 DEF StartBeating, StartsOnce, Paced
  <2> QED
    BY <1>1, <1>9, <2>1, <2>2 DEF StartBeating, PaceInv, Paced, CountsBelow, StartsOnce
<1>10. CASE BeatReset
  <2>1. TypeOK'
    BY <1>1, <1>2, <1>10 DEF BeatReset, stopVars, timerVars, TypeOK
  <2>2. deadBeats' = 0 /\ Counted' = 0 /\ quiet' = 0 /\ UNCHANGED <<session, timer, remaining>>
    BY <1>5, <1>10 DEF BeatReset, timerVars
  <2>3. remaining \in Nat
    BY <1>1, <1>2 DEF TypeOK
  <2> QED BY <1>1, <1>2, <2>1, <2>2, <2>3 DEF PaceInv, Paced, CountsBelow, StartsOnce
<1>11. CASE Stop \/ Mute \/ Disarm \/ Close
  <2>1. TypeOK'
    BY <1>2, <1>11
      DEF Stop, Claim, Mute, Disarm, Close, StopElsewhere, beatVars, timerVars, TypeOK
  <2>2. UNCHANGED <<timer, deadBeats, quiet, remaining, session>>
    BY <1>11 DEF Stop, Mute, Disarm, Close, StopElsewhere, beatVars, timerVars
  <2> QED BY <1>7, <2>1, <2>2
<1>12. CASE Cancel
  <2>1. TypeOK'
    BY <1>2, <1>12 DEF Cancel, StopElsewhere, TypeOK
  <2>2. /\ UNCHANGED <<session, deadBeats, quiet, remaining>> /\ Counted' = Counted
        /\ \/ timer' = timer
           \/ timer = "waiting" /\ timer' = "done"
    BY <1>4, <1>12 DEF Cancel, StopElsewhere
  <2> QED BY <1>2, <2>1, <2>2 DEF PaceInv, Paced, CountsBelow, StartsOnce
<1>13. CASE Arm
  <2>1. TypeOK'
    BY <1>1, <1>2, <1>13 DEF Arm, stopVars, beatVars, TypeOK
  <2> QED
    BY <1>2, <1>4, <1>13, <2>1
    DEF Arm, stopVars, beatVars, PaceInv, Paced, CountsBelow, StartsOnce
<1>14. CASE Expire \/ Fire \/ Check \/ Compare
  <2>1. TypeOK'
    BY <1>1, <1>2, <1>14
      DEF Expire, Fire, Check, Compare, TimerElsewhere, stopVars, beatVars, TypeOK
  <2>2. UNCHANGED <<session, deadBeats, quiet, remaining>> /\ Counted' = Counted
    BY <1>4, <1>14 DEF Expire, Fire, Check, Compare, TimerElsewhere, beatVars
  <2>3. quiet \in Nat /\ quiet >= Counted /\ timer # "off"
        /\ timer' \notin {"off", "arm", "waiting"}
    BY <1>1, <1>2, <1>3, <1>14 DEF Expire, Fire, Check, Compare, TypeOK, Paced
  <2>4. Paced'
    BY <1>1, <1>3, <2>2, <2>3 DEF Paced
  <2>5. CountsBelow'
    BY <1>1, <1>2, <1>14, <2>2 DEF Expire, Fire, Check, Compare, CountsBelow, TypeOK
  <2> QED BY <1>2, <2>1, <2>2, <2>3, <2>4, <2>5 DEF PaceInv, StartsOnce
<1>15. CASE StopOwnTimer \/ StopOwnClient \/ Stopped
  <2>1. TypeOK'
    BY <1>2, <1>15
      DEF StopOwnTimer, StopOwnClient, Stopped, Claim, TimerElsewhere, stopVars, beatVars, TypeOK
  <2>2. /\ UNCHANGED <<session, deadBeats, quiet, remaining>> /\ Counted' = Counted
        /\ timer # "off" /\ timer' \in {"dead", "stopping", "loop"}
    BY <1>4, <1>15 DEF StopOwnTimer, StopOwnClient, Stopped, TimerElsewhere, beatVars
  <2>3. quiet + BeatInterval >= Counted
    BY <1>2, <1>15 DEF StopOwnTimer, StopOwnClient, Stopped, Paced
  <2> QED BY <1>2, <2>1, <2>2, <2>3 DEF PaceInv, Paced, CountsBelow, StartsOnce
<1>16. CASE Count
  <2>1. TypeOK'
    BY <1>1, <1>2, <1>16 DEF Count, TimerElsewhere, stopVars, beatVars, TypeOK, CountsBelow
  <2>2. Counted' = Counted + BeatInterval
    BY <1>2, <1>16, CountedBounds DEF Count, Counted
  <2>3. quiet' = quiet /\ quiet \in Nat /\ quiet >= Counted
    BY <1>1, <1>2, <1>16 DEF Count, TimerElsewhere, beatVars, TypeOK, Paced
  <2>4. timer # "off" /\ timer' = "loop" /\ session' = session
    BY <1>16 DEF Count, TimerElsewhere
  <2>5. Paced'
    BY <1>1, <1>3, <2>2, <2>3, <2>4 DEF Paced
  <2> QED BY <1>2, <2>1, <2>4, <2>5 DEF PaceInv, CountsBelow, StartsOnce
<1>17. CASE Loop
  <2>1. TypeOK'
    BY <1>2, <1>17 DEF Loop, TimerElsewhere, stopVars, beatVars, TypeOK
  <2> QED BY <1>2, <1>4, <1>17, <2>1
        DEF Loop, TimerElsewhere, beatVars, PaceInv, Paced, CountsBelow, StartsOnce
<1> QED
  BY <1>6, <1>8, <1>9, <1>10, <1>11, <1>12, <1>13, <1>14, <1>15, <1>16, <1>17
    DEF Next, StopStep, TimerStep

\* The types, for any interval and any number of dead beats: in particular,
\* no more dead beats are counted than a timeout takes.
THEOREM BeatTypes == Spec => []TypeOK
<1>1. PaceInv => TypeOK
  BY DEF PaceInv
<1> QED BY <1>1, PaceInit, PaceStep, PTL DEF Spec

\* NoEarlyTimeout: when a client is found dead, MaxDeadBeats whole intervals have
\* passed without a finished beat.
THEOREM TimeoutsAreDue == Spec => NoEarlyTimeout
<1> DEFINE Due == timer = "check" /\ timer' = "late" => quiet >= Patience
<1>1. PaceInv /\ [Next]_vars => [Due]_vars
  <2> SUFFICES ASSUME PaceInv, Next, timer = "check", timer' = "late"
               PROVE  quiet >= Patience
    BY DEF vars
  <2>1. deadBeats >= MaxDeadBeats
    BY DEF Next, Passes, FallSilent, Open, StartBeating, Authenticate, BeatStore, BeatReset,
           Stop, StopStep, Mute, Disarm, Cancel, Close, TimerStep, Arm, Expire, Fire, Check,
           Compare, Count, StopOwnTimer, StopOwnClient, Stopped, Loop, timerVars
  <2>2. deadBeats = MaxDeadBeats
    BY <2>1, HeartBeatAssumption DEF PaceInv, TypeOK
  <2> QED BY <2>2 DEF PaceInv, Paced, Counted, Patience
<1>2. Spec => []PaceInv
  BY PaceInit, PaceStep, PTL DEF Spec
<1> QED BY <1>1, <1>2, PTL DEF Spec, NoEarlyTimeout
=============================================================================
