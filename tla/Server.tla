------------------------------- MODULE Server -------------------------------
(***************************************************************************)
(* Server: which clients are registered, which zone each of them is in,    *)
(* and the routing of their packets.  _clients and _clients_current_zone   *)
(* change only in handlers of the server strand and always together: they  *)
(* are one variable here.  A handler runs to its end, except that a join   *)
(* request suspends in the database and resumes on the same strand.        *)
(*                                                                         *)
(* The system is this module with the strands, clients and zones it        *)
(* extends: pool threads interleave the steps of all of them.              *)
(***************************************************************************)
EXTENDS Zone

CONSTANT CanStop   \* whether a signal may stop the server

ASSUME ServerAssumption == CanStop \in BOOLEAN

VARIABLES
  currentZone,   \* _clients_current_zone, Absent for a client not in _clients
  phase,         \* "up", "stopping", "cleaning", "cleaned", "halted"
  toStop,        \* clients the cleanup handler has not stopped yet
  late           \* the accept that was in flight at the stop has been served

vars == <<serverQ, zoneQ, crashed, clientVars, zoneVars, currentZone, phase,
          toStop, late>>

stopVars == <<phase, toStop, late>>

TypeOK ==
  /\ StrandsTypeOK
  /\ ClientTypeOK
  /\ ZoneTypeOK
  /\ currentZone \in [Clients -> Zones \cup {Nowhere, Absent}]
  /\ phase \in {"up", "stopping", "cleaning", "cleaned", "halted"}
  /\ toStop \in SUBSET Clients
  /\ late \in BOOLEAN

Init ==
  /\ serverQ = <<>>
  /\ zoneQ = [z \in Zones |-> <<>>]
  /\ crashed = "no"
  /\ ClientInit
  /\ ZoneInit
  /\ currentZone = [c \in Clients |-> Absent]
  /\ phase = "up"
  /\ toStop = {}
  /\ late = FALSE
-----------------------------------------------------------------------------
Registered(c) == currentZone[c] # Absent

\* The server strand is free, and its next handler is of the given kind.
StrandFree == phase \notin {"cleaning", "halted"} /\ ~StrandStops

Handles(op, c) ==
  /\ StrandFree
  /\ serverQ # <<>>
  /\ Head(serverQ).op = op
  /\ Head(serverQ).client = c

Rest == Tail(serverQ)

Done == serverQ' = Rest /\ UNCHANGED linkVars

\* What a handler that refuses its client does: stop it and return.
Refuse(c) == serverQ' = Rest /\ StopClient(c, "strand")

\* Post a handler to the strand of a zone.
Post(z, handler) == zoneQ' = [zoneQ EXCEPT ![z] = Append(@, handler)]

\* The accept loop hands a new socket to add_client_deferred.  One accept may
\* already be past the loop's test of _is_running when the server stops.
Accept(c) ==
  /\ link[c] = "none"
  /\ phase = "up" \/ (phase # "halted" /\ ~late)
  /\ link' = [link EXCEPT ![c] = "open"]
  /\ serverQ' = Append(serverQ, AddClient(c))
  /\ late' = (phase # "up")
  /\ UNCHANGED <<running, stopping, closing, reading, authenticated, player, loads,
                 joining, dialogue, received, zoneQ, crashed, zoneVars, currentZone,
                 phase, toStop>>

\* The handler of add_client_deferred: register the client and start it.  The
\* receive loop that Client::start opens may stop the client before start goes
\* on to the heart-beater: that makes no difference to _is_running, and what it
\* does to the timer is in HeartBeat.
ServerAddClient(c) ==
  /\ Handles("add_client", c)
  /\ currentZone' = [currentZone EXCEPT ![c] = Nowhere]
  /\ running' = [running EXCEPT ![c] = TRUE]
  /\ reading' = [reading EXCEPT ![c] = "waiting"]
  /\ serverQ' = Rest
  /\ UNCHANGED <<link, stopping, closing, authenticated, player, loads, joining,
                 dialogue, received, zoneQ, crashed, zoneVars, stopVars>>

\* Mutant: the handler relies on the disconnection and does not stop the client.
RemoveWithoutStop(c) ==
  /\ Handles("remove_client", c)
  /\ Registered(c)
  /\ Done
  /\ IF currentZone[c] \in liveZones
       THEN Post(currentZone[c], ZoneRemove(c))
       ELSE UNCHANGED zoneQ
  /\ currentZone' = [currentZone EXCEPT ![c] = Absent]
  /\ UNCHANGED <<reading, authenticated, player, loads, joining, dialogue,
                 received, crashed, zoneVars, stopVars>>

\* Mutant: the removed client is erased here but its zone is not told.
ForgetClient(c) ==
  /\ Handles("remove_client", c)
  /\ Refuse(c)
  /\ currentZone' = [currentZone EXCEPT ![c] = Absent]
  /\ UNCHANGED <<reading, authenticated, player, loads, joining, dialogue,
                 received, zoneQ, crashed, zoneVars, stopVars>>

\* The handler of remove_client_deferred.  The link is closed when it runs, so
\* that stopping the client is done at once.  Nothing catches the exception of
\* at() in a posted handler: a second removal would end the process.
ServerRemoveClient(c) ==
  /\ Handles("remove_client", c)
  /\ IF Registered(c)
       THEN /\ Refuse(c)
            /\ IF currentZone[c] \in liveZones
                 THEN Post(currentZone[c], ZoneRemove(c))
                 ELSE UNCHANGED zoneQ
            /\ currentZone' = [currentZone EXCEPT ![c] = Absent]
            /\ UNCHANGED crashed
       ELSE /\ crashed' = "uncaught"
            /\ UNCHANGED <<serverQ, linkVars, zoneQ, currentZone>>
  /\ UNCHANGED <<reading, authenticated, player, loads, joining, dialogue,
                 received, zoneVars, stopVars>>
-----------------------------------------------------------------------------
HandlerElsewhere == UNCHANGED <<reading, loads, received, crashed, zoneVars, stopVars>>

\* handle_client_join_request up to the first await: the request and its token
\* are checked, and the handler suspends in the database.
HandleJoin(c) ==
  /\ Handles("join", c)
  /\ \/ Refuse(c) /\ UNCHANGED <<authenticated, joining>>
     \/ /\ authenticated' = [authenticated EXCEPT ![c] = TRUE]
        /\ joining' = [joining EXCEPT ![c] = @ + 1]
        /\ Done
  /\ UNCHANGED <<player, dialogue, zoneQ, currentZone>>
  /\ HandlerElsewhere

\* What ends a suspended join leaves the rest of the server as it is.
Resumes(c) ==
  /\ StrandFree
  /\ joining[c] > 0
  /\ joining' = [joining EXCEPT ![c] = @ - 1]
  /\ UNCHANGED <<reading, authenticated, received, zoneQ, crashed, zoneVars,
                 currentZone, stopVars>>

\* No connection, a statement that cannot be prepared, or an exception out of
\* Player::load: the request is dropped and the client left as it is.
JoinDropped(c) ==
  /\ Resumes(c)
  /\ UNCHANGED <<serverQ, linkVars, player, loads, dialogue>>

\* The query fails or finds no such character.
JoinRejected(c) ==
  /\ Resumes(c)
  /\ StopClient(c, "strand")
  /\ UNCHANGED <<serverQ, player, loads, dialogue>>

\* Player::load gives the client a new player or, after a query that fails, a
\* row that is missing or a field of another type, none.
Load(c, ok) ==
  /\ loads' = [loads EXCEPT ![c] = IF ok THEN @ + 1 ELSE @]
  /\ player' = [player EXCEPT ![c] = IF ok THEN loads'[c] ELSE 0]

\* nullptr has replaced the player before it is looked at.
JoinLoadFails(c) ==
  /\ Resumes(c)
  /\ Load(c, FALSE)
  /\ StopClient(c, "strand")
  /\ UNCHANGED <<serverQ, dialogue>>

\* Mutant: the response is sent without checking the loaded player.
JoinUnchecked(c) ==
  /\ Resumes(c)
  /\ \E loaded \in BOOLEAN : Load(c, loaded)
  /\ dialogue' = [dialogue EXCEPT ![c] = "welcomed"]
  /\ UNCHANGED <<serverQ, linkVars>>

\* The player is loaded and the response sent.
JoinLoaded(c) ==
  /\ Resumes(c)
  /\ Load(c, TRUE)
  /\ dialogue' = [dialogue EXCEPT ![c] = "welcomed"]
  /\ UNCHANGED <<serverQ, linkVars>>

\* Heart beats are ignored and pings answered.
HandlePing(c) ==
  /\ Handles("ping", c)
  /\ Done
  /\ UNCHANGED <<authenticated, joining, player, dialogue, zoneQ, currentZone>>
  /\ HandlerElsewhere
-----------------------------------------------------------------------------
\* A zone that can be left, or none at all, and a zone that exists.
MayMove(from, to) == from \in liveZones \cup {Nowhere} /\ to \in liveZones

\* Mutant: adding is within the braces of the test that there is a zone to leave.
EnterAddsInBraces(c) ==
  /\ Handles("enter", c)
  /\ LET from == currentZone[c]
         to   == Head(serverQ).zone
     IN /\ Registered(c) /\ from # to /\ MayMove(from, to)
        /\ zoneQ' = IF from = Nowhere THEN zoneQ
                    ELSE [zoneQ EXCEPT ![from] = Append(@, ZoneRemove(c)),
                                       ![to] = Append(@, ZoneAdd(c))]
        /\ currentZone' = [currentZone EXCEPT ![c] = to]
  /\ Done
  /\ UNCHANGED <<authenticated, joining, player, dialogue>>
  /\ HandlerElsewhere

\* Mutant: operator[] instead of at(), which registers a removed client anew.
EnterByIndex(c) ==
  /\ Handles("enter", c)
  /\ LET from == IF Registered(c) THEN currentZone[c] ELSE Nowhere
         to   == Head(serverQ).zone
     IN /\ from # to /\ MayMove(from, to)
        /\ zoneQ' = [z \in Zones |->
             CASE z = from -> Append(zoneQ[z], ZoneRemove(c))
               [] z = to   -> Append(zoneQ[z], ZoneAdd(c))
               [] OTHER    -> zoneQ[z]]
        /\ currentZone' = [currentZone EXCEPT ![c] = to]
  /\ Done
  /\ UNCHANGED <<authenticated, joining, player, dialogue>>
  /\ HandlerElsewhere

\* handle_player_enter_zone_request.  For a removed client at() throws, and the
\* detached coroutine swallows it.
HandleEnter(c) ==
  /\ Handles("enter", c)
  /\ LET from == currentZone[c]
         to   == Head(serverQ).zone
     IN \/ /\ from = Absent \/ from = to
           /\ Done
           /\ UNCHANGED <<zoneQ, currentZone>>
        \/ /\ from # Absent /\ from # to /\ MayMove(from, to)
           /\ Done
           /\ zoneQ' = [z \in Zones |->
                CASE z = from -> Append(zoneQ[z], ZoneRemove(c))
                  [] z = to   -> Append(zoneQ[z], ZoneAdd(c))
                  [] OTHER    -> zoneQ[z]]
           /\ currentZone' = [currentZone EXCEPT ![c] = to]
        \/ /\ from # Absent /\ from # to /\ ~MayMove(from, to)
           /\ Refuse(c)
           /\ UNCHANGED <<zoneQ, currentZone>>
  /\ UNCHANGED <<authenticated, joining, player, dialogue>>
  /\ HandlerElsewhere

\* Every other packet goes to the current zone of an authenticated client.  A
\* client in no zone makes at() throw, and the detached coroutine swallows it.
HandleZonePacket(c) ==
  /\ Handles("zone_packet", c)
  /\ \/ ~authenticated[c] /\ Refuse(c) /\ UNCHANGED zoneQ
     \/ /\ authenticated[c] /\ Done
        /\ IF currentZone[c] \in liveZones
             THEN Post(currentZone[c], ZonePacket(c))
             ELSE UNCHANGED zoneQ
  /\ UNCHANGED <<authenticated, joining, player, dialogue, currentZone>>
  /\ HandlerElsewhere
-----------------------------------------------------------------------------
\* Server::stop, on a thread of the pool: close the acceptor, post the cleanup
\* and wait for it.
StopServer ==
  /\ CanStop
  /\ phase = "up"
  /\ phase' = "stopping"
  /\ serverQ' = Append(serverQ, Cleanup)
  /\ UNCHANGED <<zoneQ, crashed, clientVars, zoneVars, currentZone, toStop, late>>

\* The cleanup handler starts.  It keeps the strand until it ends, while the
\* threads of clients and zones run on.
CleanupBegin ==
  /\ Handles("cleanup", NoClient)
  /\ phase' = "cleaning"
  /\ toStop' = {c \in Clients : Registered(c)}
  /\ serverQ' = Rest
  /\ UNCHANGED <<zoneQ, crashed, clientVars, zoneVars, currentZone, late>>

\* Mutant: the cleanup handler goes over the clients without stopping them.
CleanupSkipsClient(c) ==
  /\ phase = "cleaning" /\ ~StrandStops
  /\ c \in toStop
  /\ toStop' = toStop \ {c}
  /\ UNCHANGED <<serverQ, zoneQ, crashed, clientVars, zoneVars, currentZone,
                 phase, late>>

CleanupStopClient(c) ==
  /\ phase = "cleaning" /\ ~StrandStops
  /\ c \in toStop
  /\ toStop' = toStop \ {c}
  /\ StopClient(c, "strand")
  /\ UNCHANGED <<serverQ, reading, authenticated, player, loads, joining, dialogue,
                 received, zoneQ, crashed, zoneVars, currentZone, phase, late>>

\* Mutant: the waiting thread is not released.
CleanupKeepsPromise ==
  /\ phase = "cleaning" /\ ~StrandStops
  /\ toStop = {}
  /\ zoneRunning' = [z \in Zones |-> FALSE]
  /\ liveZones' = {}
  /\ UNCHANGED <<serverQ, zoneQ, crashed, clientVars, zoneClients, entities,
                 currentZone, phase, toStop, late>>

\* Every zone is stopped and destroyed, and the waiting thread released.
CleanupZones ==
  /\ phase = "cleaning" /\ ~StrandStops
  /\ toStop = {}
  /\ zoneRunning' = [z \in Zones |-> FALSE]
  /\ liveZones' = {}
  /\ phase' = "cleaned"
  /\ UNCHANGED <<serverQ, zoneQ, crashed, clientVars, zoneClients, entities,
                 currentZone, toStop, late>>

\* main's signal handler, after stop() returned: workers.stop().
Halt ==
  /\ phase = "cleaned"
  /\ phase' = "halted"
  /\ UNCHANGED <<serverQ, zoneQ, crashed, clientVars, zoneVars, currentZone,
                 toStop, late>>
-----------------------------------------------------------------------------
ClientStep(c) ==
  /\ \/ \E p \in Sends[c] : PacketReceived(c, p)
     \/ ReadError(c)
     \/ ReadAbandoned(c)
     \/ SendError(c)
     \/ HeartbeatTimeout(c)
     \/ StopGoesOn(c)
     \/ PostRemoval(c)
  /\ UNCHANGED <<zoneVars, currentZone, stopVars>>

HandlerStep(c) ==
  \/ ServerAddClient(c) \/ ServerRemoveClient(c)
  \/ HandleJoin(c) \/ HandlePing(c) \/ HandleEnter(c) \/ HandleZonePacket(c)

JoinStep(c) ==
  JoinDropped(c) \/ JoinRejected(c) \/ JoinLoadFails(c) \/ JoinLoaded(c)

ZoneRuns(z) == ZoneStep(z) /\ UNCHANGED <<currentZone, stopVars>>

CleanupStep ==
  CleanupBegin \/ (\E c \in Clients : CleanupStopClient(c)) \/ CleanupZones

\* Nothing runs once the process died or its pool was stopped.
Alive == crashed = "no" /\ phase # "halted"

Next ==
  /\ Alive
  /\ \/ \E c \in Clients : Accept(c) \/ ClientStep(c) \/ HandlerStep(c) \/ JoinStep(c)
     \/ \E z \in Zones : ZoneRuns(z)
     \/ StopServer \/ CleanupStep \/ Halt

Spec == Init /\ [][Next]_vars
-----------------------------------------------------------------------------
(***************************************************************************)
(* Fairness.  The pool always runs ready handlers, so strands advance; a   *)
(* thread in the middle of a stop or a disconnection goes on; a read on a  *)
(* closed socket completes with an error; a running client whose receive   *)
(* loop has ended beats no more, and its timer goes on.  Peers, the        *)
(* database and the accept loop may be silent for ever.                    *)
(***************************************************************************)
ServerStrand == Alive /\ ((\E c \in Clients : HandlerStep(c)) \/ CleanupStep)

ClientOnly(step) == Alive /\ step /\ UNCHANGED <<zoneVars, currentZone, stopVars>>

ReadAborted(c) == ClientOnly(link[c] = "closed" /\ closing[c] = "no" /\ ReadError(c))

BeatsNoMore(c) == ClientOnly(reading[c] = "closed" /\ HeartbeatTimeout(c))

Fairness ==
  /\ WF_vars(ServerStrand)
  /\ \A z \in Zones : WF_vars(Alive /\ ZoneRuns(z))
  /\ \A c \in Clients :
       /\ WF_vars(ClientOnly(StopGoesOn(c)))
       /\ WF_vars(ClientOnly(PostRemoval(c)))
       /\ WF_vars(ReadAborted(c))
       /\ WF_vars(BeatsNoMore(c))
  /\ WF_vars(Alive /\ Halt)

FairSpec == Spec /\ Fairness
-----------------------------------------------------------------------------
(***************************************************************************)
(* Safety.                                                                 *)
(***************************************************************************)

\* Client c will be in zone z when all the handlers posted to it have run.
WillBeIn(z, c) == MemberBefore(zoneQ[z], zoneClients[z], c, Len(zoneQ[z]) + 1)

\* A zone's view of its clients lags behind the server's but never diverges:
\* once the handlers already posted to a zone have run, the zone holds exactly
\* the clients the server has in it, whatever the order of enter requests,
\* moves and disconnections.
MembershipFollowsServer ==
  \A z \in liveZones, c \in Clients : WillBeIn(z, c) <=> currentZone[c] = z

\* A routed packet never overtakes the move it depends on: when its handler
\* runs, the client is in the zone the packet was routed to, so that the test
\* in Zone::handle_packet never drops a packet of a client that moved on.
RoutedPacketsFindTheirClient ==
  \A z \in liveZones : \A i \in 1..Len(zoneQ[z]) :
    zoneQ[z][i].op = "packet" =>
      MemberBefore(zoneQ[z], zoneClients[z], zoneQ[z][i].client, i)

\* Disconnection, in whichever thread and however often it is asked for,
\* removes a client once: the at() of the removal handler never throws.
NoUncaughtException == crashed # "uncaught"

\* The server knows of every connection: a registered client whose link is
\* closed has its removal queued, or the thread that closed the link is about to
\* queue it, and an open link belongs to a client that is registered or about
\* to be.
NoConnectionIsLost ==
  \A c \in Clients :
    /\ link[c] = "closed" /\ Registered(c) =>
         closing[c] # "no" \/ Pending(serverQ, RemoveClient(c))
    /\ link[c] = "open" /\ ~Registered(c) => Pending(serverQ, AddClient(c))

\* Client::stop has been called on every client that left the server, whichever
\* thread closed its link, and a client on which it has been called, or whose
\* link is closed, is never left with an open link that nobody closes.  (That the
\* heart-beat timer ends as well is HeartBeat's TimerEndsWithClient.)
RemovedClientsAreStopped ==
  \A c \in Clients :
    /\ running[c] => Registered(c)
    /\ link[c] = "open" /\ Registered(c) => running[c] \/ stopping[c] # "no"

\* A zone ticks exactly while it has clients: stopping and restarting it, with
\* a tick of the earlier run still queued, never loses the chain of ticks.
RunningZonesTick ==
  \A z \in liveZones :
    /\ zoneRunning[z] <=> zoneClients[z] # {}
    /\ zoneRunning[z] => Pending(zoneQ[z], ZoneTick)

\* No zone handler finds a polite client without a player, whatever the others
\* send; only a rude client, whose player is missing, makes the process
\* dereference a null pointer.
NoNullPlayer ==
  /\ \A z \in liveZones, c \in Clients \ Rude :
       c \in zoneClients[z] \/ Pending(zoneQ[z], ZoneAdd(c)) => player[c] # 0
  /\ crashed = "null_player" => \E c \in Rude : player[c] = 0

\* Every client's player entity is in a zone exactly while the client is there,
\* and no entity is left of a player that moved on or disconnected, however
\* early the client entered.  Only a client whose player was replaced, which
\* takes a second join, can leave one behind.
NoGhostEntities ==
  \A z \in liveZones, c \in Clients :
    (c \in Rude => loads[c] \in {0, 1} /\ player[c] = loads[c]) =>
      {e \in entities[z] : e[1] = c} = IF c \in zoneClients[z] THEN {PlayerEntity(c)} ELSE {}

\* Once stop() returned, every client has been stopped, or is being stopped by
\* the thread that came first, but the one whose accept was in flight.
StopLeavesAtMostOneOpen ==
  phase \in {"cleaned", "halted"} =>
    \A c, d \in Clients :
      /\ link[c] = "open" /\ stopping[c] = "no"
      /\ link[d] = "open" /\ stopping[d] = "no"
      => c = d
-----------------------------------------------------------------------------
(***************************************************************************)
(* Liveness.                                                               *)
(***************************************************************************)

Gone(c) == ~Registered(c) /\ \A z \in Zones : c \notin zoneClients[z]

\* The server is being stopped, or its process has died.
Down == phase # "up" \/ crashed # "no"

\* A client whose link closed, or whose receive loop ended for any reason,
\* leaves the server and every zone, for good.
Departure ==
  \A c \in Clients :
    (link[c] = "closed" \/ reading[c] = "closed") ~> ([]Gone(c) \/ Down)

\* A zone nobody comes back to stops ticking: every chain of ticks ends.
EmptyZoneGoesQuiet ==
  \A z \in Zones : <>[](zoneClients[z] = {}) => <>[](zoneQ[z] = <<>>) \/ <>Down

\* stop() returns and the pool is stopped, unless the process dies first, of
\* the tick of a destroyed zone or of a client without a player.
StopReturns == phase = "stopping" ~> (phase = "halted" \/ crashed # "no")
=============================================================================
