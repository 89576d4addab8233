-------------------------------- MODULE Zone --------------------------------
(***************************************************************************)
(* Zone: the clients inside a zone, the player entities in its subworld    *)
(* and its tick.  All of it changes only in handlers of the zone's strand, *)
(* except that Server::stop stops and destroys zones from the server       *)
(* strand.  A handler that runs after its zone was destroyed touches freed *)
(* memory; a handler that needs the player of a client without one         *)
(* dereferences a null pointer: both end the behaviour in crashed.         *)
(***************************************************************************)
EXTENDS Client

VARIABLES
  zoneClients,   \* Zone::_clients
  zoneRunning,   \* Zone::_is_running
  entities,      \* players in the subworld: <<client, which load>>
  liveZones      \* keys of Server::_zones

zoneVars == <<zoneClients, zoneRunning, entities, liveZones>>

ZoneTypeOK ==
  /\ zoneClients \in [Zones -> SUBSET Clients]
  /\ zoneRunning \in [Zones -> BOOLEAN]
  /\ entities \in [Zones -> SUBSET (Clients \X Nat)]
  /\ liveZones \in SUBSET Zones

ZoneInit ==
  /\ zoneClients = [z \in Zones |-> {}]
  /\ zoneRunning = [z \in Zones |-> FALSE]
  /\ entities = [z \in Zones |-> {}]
  /\ liveZones = Zones
-----------------------------------------------------------------------------
\* The handler at the head of the zone's strand, in a zone that still exists.
Runs(z, op) ==
  /\ z \in liveZones
  /\ zoneQ[z] # <<>>
  /\ Head(zoneQ[z]).op = op

\* The handler's own pop, followed by what it posts to its own strand.
Reposting(z, handlers) == zoneQ' = [zoneQ EXCEPT ![z] = Tail(@) \o handlers]

Finish(z) == Reposting(z, <<>>)

PlayerEntity(c) == <<c, player[c]>>

ZoneElsewhere == UNCHANGED <<clientVars, serverQ, liveZones>>

NullPlayer ==
  /\ crashed' = "null_player"
  /\ UNCHANGED <<clientVars, serverQ, zoneQ, zoneVars>>

\* Mutant: start without posting the first tick.
StartSilently(z) ==
  /\ zoneRunning' = [zoneRunning EXCEPT ![z] = TRUE]
  /\ Finish(z)

\* Zone::start, whose tick is queued behind the handlers already posted.
Start(z) ==
  /\ zoneRunning' = [zoneRunning EXCEPT ![z] = TRUE]
  /\ Reposting(z, IF zoneRunning[z] THEN <<>> ELSE <<ZoneTick>>)

\* Zone::add_client_deferred.  The handler reads the player of the new client
\* and of every other client in the zone.
Add(z) ==
  /\ Runs(z, "add")
  /\ LET c == Head(zoneQ[z]).client IN
       IF \E d \in zoneClients[z] \cup {c} : player[d] = 0
         THEN NullPlayer
         ELSE /\ zoneClients' = [zoneClients EXCEPT ![z] = @ \cup {c}]
              /\ entities' = [entities EXCEPT ![z] = @ \cup {PlayerEntity(c)}]
              /\ IF zoneClients[z] = {} THEN Start(z) ELSE Finish(z) /\ UNCHANGED zoneRunning
              /\ UNCHANGED crashed
              /\ ZoneElsewhere

\* Mutant: the client is erased but its player stays in the subworld.
RemoveKeepsEntity(z) ==
  /\ Runs(z, "remove")
  /\ LET c == Head(zoneQ[z]).client IN
       /\ zoneClients' = [zoneClients EXCEPT ![z] = @ \ {c}]
       /\ zoneRunning' = [zoneRunning EXCEPT ![z] = @ /\ zoneClients[z] # {c}]
       /\ Finish(z)
       /\ UNCHANGED <<entities, crashed>>
       /\ ZoneElsewhere

\* Zone::remove_client_deferred.
Remove(z) ==
  /\ Runs(z, "remove")
  /\ LET c == Head(zoneQ[z]).client IN
       IF c \in zoneClients[z] /\ player[c] = 0
         THEN NullPlayer
         ELSE /\ zoneClients' = [zoneClients EXCEPT ![z] = @ \ {c}]
              /\ entities' = [entities EXCEPT ![z] =
                   IF c \in zoneClients[z] THEN @ \ {PlayerEntity(c)} ELSE @]
              /\ zoneRunning' = [zoneRunning EXCEPT ![z] = @ /\ zoneClients[z] # {c}]
              /\ Finish(z)
              /\ UNCHANGED crashed
              /\ ZoneElsewhere

\* Zone::handle_packet: the packet of a client outside the zone is dropped;
\* the handlers of the others read the client's player.
Packet(z) ==
  /\ Runs(z, "packet")
  /\ LET c == Head(zoneQ[z]).client IN
       IF c \in zoneClients[z] /\ player[c] = 0
         THEN NullPlayer
         ELSE /\ Finish(z)
              /\ UNCHANGED <<zoneClients, zoneRunning, entities, crashed>>
              /\ ZoneElsewhere

\* Mutant: tick posts itself again without looking at _is_running.
TickAlways(z) ==
  /\ Runs(z, "tick")
  /\ Reposting(z, <<ZoneTick>>)
  /\ UNCHANGED <<zoneClients, zoneRunning, entities, crashed>>
  /\ ZoneElsewhere

\* Zone::tick posts itself again, early or not, until the zone is stopped.
Tick(z) ==
  /\ Runs(z, "tick")
  /\ Reposting(z, IF zoneRunning[z] THEN <<ZoneTick>> ELSE <<>>)
  /\ UNCHANGED <<zoneClients, zoneRunning, entities, crashed>>
  /\ ZoneElsewhere

\* Any handler whose zone was destroyed uses the captured this.
DestroyedZone(z) ==
  /\ z \notin liveZones
  /\ zoneQ[z] # <<>>
  /\ crashed' = "zone_gone"
  /\ UNCHANGED <<clientVars, serverQ, zoneQ, zoneVars>>

ZoneStep(z) == Add(z) \/ Remove(z) \/ Packet(z) \/ Tick(z) \/ DestroyedZone(z)
-----------------------------------------------------------------------------
\* Client c will be in the zone with clients S and pending handlers q when
\* the handlers before the i-th have run.
MemberBefore(q, S, c, i) ==
  \/ c \in S /\ \A j \in 1..(i - 1) : q[j] # ZoneRemove(c)
  \/ \E k \in 1..(i - 1) :
       /\ q[k] = ZoneAdd(c)
       /\ \A j \in (k + 1)..(i - 1) : q[j] # ZoneRemove(c)
=============================================================================
