------------------------------ MODULE HeartBeat ------------------------------
(***************************************************************************)
(* Client::HeartBeater and the Timer under it, for one client, with time.  *)
(* The server strand starts and stops the client, the receive loop beats   *)
(* for every packet of an authenticated client, and the coroutine of the   *)
(* timer counts the intervals without a beat and stops the client after    *)
(* too many.  Loads and stores between which another thread can make a     *)
(* difference are steps of their own, and threads may be delayed between   *)
(* any two steps.                                                          *)
(*                                                                         *)
(* Time is kept as ages.  Nothing tells an age beyond its bound from the   *)
(* bound, so ages stop there and the state space is finite.                *)
(***************************************************************************)
EXTENDS Naturals

CONSTANTS
  BeatInterval,   \* BEAT_INTERVAL, in units of time
  MaxDeadBeats    \* MAX_DEAD_BEATS

ASSUME HeartBeatAssumption ==
  BeatInterval \in Nat \ {0} /\ MaxDeadBeats \in Nat \ {0}

VARIABLES
  session,        \* Client::start: "new", "opening" (loop started, no timer), "open"
  running,        \* Client::_is_running
  stopper,        \* what the thread in Client::stop does next: "no" thread is in
                  \* it yet, and after it the link is "closed"
  authenticated,  \* Client::is_authenticated
  peer,           \* the remote side as the receive loop hears it: "talking", or
                  \* "gone" for ever
  beat,           \* HeartBeater::beat: "none", or "stored" before the count is reset
  silence,        \* age of _last_beat, up to BeatInterval + 1
  quiet,          \* age of the last finished beat, up to Patience
  deadBeats,      \* _dead_beats
  listening,      \* _on_beat is connected to the timer
  ticking,        \* Timer::_is_running
  timer,          \* where the timer coroutine is
  remaining       \* time before the wait of the timer expires

vars == <<session, running, stopper, authenticated, peer, beat, silence, quiet,
          deadBeats, listening, ticking, timer, remaining>>

stopVars == <<running, stopper>>
beatVars == <<authenticated, peer, beat, silence, quiet>>
timerVars == <<listening, ticking, timer, remaining>>

\* The silence a client is granted at least.
Patience == MaxDeadBeats * BeatInterval

TypeOK ==
  /\ session \in {"new", "opening", "open"}
  /\ running \in BOOLEAN
  /\ stopper \in {"no", "mute", "disarm", "cancel", "close", "closed"}
  /\ authenticated \in BOOLEAN
  /\ peer \in {"talking", "gone"}
  /\ beat \in {"none", "stored"}
  /\ silence \in 0..(BeatInterval + 1)
  /\ quiet \in 0..Patience
  /\ deadBeats \in 0..MaxDeadBeats
  /\ listening \in BOOLEAN
  /\ ticking \in BOOLEAN
  /\ timer \in {"off", "arm", "waiting", "fire", "check", "compare", "count", "late",
                "dead", "stopping", "loop", "done"}
  /\ remaining \in 0..BeatInterval

\* _last_beat starts at the epoch.
Init ==
  /\ session = "new"
  /\ running = FALSE
  /\ stopper = "no"
  /\ authenticated = FALSE
  /\ peer = "talking"
  /\ beat = "none"
  /\ silence = BeatInterval + 1
  /\ quiet = 0
  /\ deadBeats = 0
  /\ listening = TRUE
  /\ ticking = FALSE
  /\ timer = "off"
  /\ remaining = 0
-----------------------------------------------------------------------------
Older(age, bound) == IF age < bound THEN age + 1 ELSE bound

\* A unit of time passes, whatever the threads do.
Passes ==
  /\ silence' = Older(silence, BeatInterval + 1)
  /\ quiet' = Older(quiet, Patience)
  /\ remaining' = IF remaining > 0 THEN remaining - 1 ELSE 0
  /\ UNCHANGED <<session, stopVars, authenticated, peer, beat, deadBeats,
                 listening, ticking, timer>>

\* Client::start up to the receive loop, which may run from now on.
Open ==
  /\ session = "new"
  /\ session' = "opening"
  /\ running' = TRUE
  /\ UNCHANGED <<stopper, beatVars, deadBeats, timerVars>>

\* The rest of Client::start.  The receive loop may have stopped the client
\* since: the timer then starts all the same.
StartBeating ==
  /\ session = "opening"
  /\ session' = "open"
  /\ silence' = 0
  /\ quiet' = 0
  /\ ticking' = TRUE
  /\ timer' = "arm"
  /\ UNCHANGED <<stopVars, authenticated, peer, beat, deadBeats, listening, remaining>>

\* A join request with a good token, on the strand that started the client.
Authenticate ==
  /\ session = "open"
  /\ authenticated' = TRUE
  /\ UNCHANGED <<session, stopVars, peer, beat, silence, quiet, deadBeats, timerVars>>

\* The receive loop reads packets until the link is closed.  One that had been
\* read completely by then is still handled, and the loop then ends.
Hears ==
  /\ session # "new" /\ peer = "talking"
  /\ peer' = IF stopper = "closed" THEN "gone" ELSE "talking"

\* Mutant: any packet beats, of an authenticated client or not.
BeatStoreAlways ==
  /\ Hears /\ beat = "none"
  /\ silence' = 0
  /\ beat' = "stored"
  /\ UNCHANGED <<session, stopVars, authenticated, quiet, deadBeats, timerVars>>

\* HeartBeater::beat, for a packet of an authenticated client: first store.
BeatStore ==
  /\ Hears /\ beat = "none"
  /\ authenticated
  /\ silence' = 0
  /\ beat' = "stored"
  /\ UNCHANGED <<session, stopVars, authenticated, quiet, deadBeats, timerVars>>

\* Mutant: the beat leaves the count as it is.
BeatKeepsCount ==
  /\ beat = "stored"
  /\ beat' = "none"
  /\ quiet' = 0
  /\ UNCHANGED <<session, stopVars, authenticated, peer, silence, deadBeats, timerVars>>

\* HeartBeater::beat: second store.
BeatReset ==
  /\ beat = "stored"
  /\ beat' = "none"
  /\ deadBeats' = 0
  /\ quiet' = 0
  /\ UNCHANGED <<session, stopVars, authenticated, peer, silence, timerVars>>

\* The remote side sends nothing more, or the link is closed by an error.
FallSilent ==
  /\ peer' = "gone"
  /\ UNCHANGED <<session, stopVars, authenticated, beat, silence, quiet,
                 deadBeats, timerVars>>
-----------------------------------------------------------------------------
\* Client::stop, for the one caller that finds the client running.
Claim ==
  /\ running
  /\ running' = FALSE
  /\ stopper' = "mute"

StopElsewhere == UNCHANGED <<session, running, authenticated, beat, silence, quiet, deadBeats>>

\* By another thread than the timer's.
Stop ==
  /\ Claim
  /\ UNCHANGED <<session, beatVars, deadBeats, timerVars>>

\* HeartBeater::stop disconnects the callback from the timer ...
Mute ==
  /\ stopper = "mute"
  /\ stopper' = "disarm"
  /\ listening' = FALSE
  /\ UNCHANGED <<peer, ticking, timer, remaining>>
  /\ StopElsewhere

\* Mutant: ... and leaves the timer on.
MuteOnly ==
  /\ stopper = "disarm"
  /\ stopper' = "close"
  /\ UNCHANGED <<peer, timerVars>>
  /\ StopElsewhere

\* ... and stops it: Timer::stop has an exchange of its own,
Disarm ==
  /\ stopper = "disarm"
  /\ stopper' = IF ticking THEN "cancel" ELSE "close"
  /\ ticking' = FALSE
  /\ UNCHANGED <<peer, listening, timer, remaining>>
  /\ StopElsewhere

\* and a cancellation that ends a wait, and is lost on a coroutine that is not
\* waiting.
Cancel ==
  /\ stopper = "cancel"
  /\ stopper' = "close"
  /\ timer' = IF timer = "waiting" THEN "done" ELSE timer
  /\ UNCHANGED <<peer, listening, ticking, remaining>>
  /\ StopElsewhere

\* Connection::disconnect.
Close ==
  /\ stopper = "close"
  /\ stopper' = "closed"
  /\ UNCHANGED <<peer, timerVars>>
  /\ StopElsewhere

StopStep == Mute \/ Disarm \/ Cancel \/ Close
-----------------------------------------------------------------------------
\* The coroutine sets the timer and waits.
Arm ==
  /\ timer = "arm"
  /\ timer' = "waiting"
  /\ remaining' = BeatInterval
  /\ UNCHANGED <<session, stopVars, beatVars, deadBeats, listening, ticking>>

TimerElsewhere == UNCHANGED <<session, beatVars, listening, remaining>>

\* The wait expires.
Expire ==
  /\ timer = "waiting"
  /\ remaining = 0
  /\ timer' = IF ticking THEN "fire" ELSE "done"
  /\ UNCHANGED <<stopVars, deadBeats, ticking>>
  /\ TimerElsewhere

\* timeout() calls the heart beater while it is connected.
Fire ==
  /\ timer = "fire"
  /\ timer' = IF listening THEN "check" ELSE "loop"
  /\ UNCHANGED <<stopVars, deadBeats, ticking>>
  /\ TimerElsewhere

\* The loop of the coroutine after a timeout.
Loop ==
  /\ timer = "loop"
  /\ timer' = IF ticking THEN "arm" ELSE "done"
  /\ UNCHANGED <<stopVars, deadBeats, ticking>>
  /\ TimerElsewhere

\* Too many dead beats, or not: the count is looked at once.
Check ==
  /\ timer = "check"
  /\ timer' = IF deadBeats >= MaxDeadBeats THEN "late" ELSE "compare"
  /\ UNCHANGED <<stopVars, deadBeats, ticking>>
  /\ TimerElsewhere

\* A beat within the last interval: nothing to count.
Compare ==
  /\ timer = "compare"
  /\ timer' = IF silence <= BeatInterval THEN "loop" ELSE "count"
  /\ UNCHANGED <<stopVars, deadBeats, ticking>>
  /\ TimerElsewhere

\* Another dead beat, and a heart beat sent for the client to answer.
Count ==
  /\ timer = "count"
  /\ deadBeats' = deadBeats + 1
  /\ timer' = "loop"
  /\ UNCHANGED <<stopVars, ticking>>
  /\ TimerElsewhere

\* After too many: the coroutine stops its own timer, which cancels nothing,
StopOwnTimer ==
  /\ timer = "late"
  /\ timer' = "dead"
  /\ ticking' = FALSE
  /\ UNCHANGED <<stopVars, deadBeats>>
  /\ TimerElsewhere

\* Mutant: ... and leaves the client running,
KeepClient ==
  /\ timer = "dead"
  /\ timer' = "loop"
  /\ UNCHANGED <<stopVars, deadBeats, ticking>>
  /\ TimerElsewhere

\* and then the client, unless another thread is stopping it.
StopOwnClient ==
  /\ timer = "dead"
  /\ \/ Claim /\ timer' = "stopping"
     \/ ~running /\ timer' = "loop" /\ UNCHANGED stopVars
  /\ UNCHANGED <<deadBeats, ticking>>
  /\ TimerElsewhere

\* The coroutine comes back from Client::stop.
Stopped ==
  /\ timer = "stopping"
  /\ stopper = "closed"
  /\ timer' = "loop"
  /\ UNCHANGED <<stopVars, deadBeats, ticking>>
  /\ TimerElsewhere

TimerStep ==
  \/ Arm \/ Expire \/ Fire \/ Check \/ Compare \/ Count
  \/ StopOwnTimer \/ StopOwnClient \/ Stopped \/ Loop
-----------------------------------------------------------------------------
Next ==
  \/ Passes \/ FallSilent
  \/ Open \/ StartBeating \/ Authenticate
  \/ BeatStore \/ BeatReset
  \/ Stop \/ StopStep
  \/ TimerStep

Spec == Init /\ [][Next]_vars

\* Time passes, and the pool runs what is ready.
Fairness ==
  /\ WF_vars(Passes)
  /\ WF_vars(StartBeating)
  /\ WF_vars(BeatReset)
  /\ WF_vars(StopStep)
  /\ WF_vars(TimerStep)

FairSpec == Spec /\ Fairness
-----------------------------------------------------------------------------
\* When it is decided that a client is dead, MaxDeadBeats whole intervals have
\* gone by without a finished beat, however late the timer runs and wherever a
\* beat falls between its steps.  The decision is not looked at again: a beat
\* that is finished between it and the stop comes too late, and the client is
\* stopped.
NoEarlyTimeout ==
  [][timer = "check" /\ timer' = "late" => quiet >= Patience]_vars

\* A client whose peer fell silent is stopped.
SilentPeersAreStopped == session = "open" /\ peer = "gone" ~> ~running

\* A client cannot stay without authenticating: its packets do not beat.
JoinOrLeave == session = "open" ~> authenticated \/ ~running

\* The timer ends with the client, but for a client that was stopped between
\* the two halves of its start, whose timer nobody stops any more.
TimerEndsWithClient ==
  [](session = "open" /\ running => [](~running => <>(timer = "done")))
=============================================================================
