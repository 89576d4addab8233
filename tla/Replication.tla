----------------------------- MODULE Replication -----------------------------
(***************************************************************************)
(* Replication: which players each client has been told of.  The add and   *)
(* remove handlers of a zone send PlayerSpawn(s) and EntityDespawn to the  *)
(* clients the zone has; the sends of all the zones to one client go down  *)
(* one connection, in the order in which the handlers post them.           *)
(*                                                                         *)
(* The clients of this module have joined already and are in no zone yet.  *)
(***************************************************************************)
EXTENDS Server, Functions

VARIABLE told   \* told[c]: players c was sent a spawn of, and no despawn since

replicationVars == <<vars, told>>

\* Every client was accepted, has joined and has had the answer.
ReplicationInit ==
  /\ serverQ = <<>>
  /\ zoneQ = [z \in Zones |-> <<>>]
  /\ crashed = "no"
  /\ link = [c \in Clients |-> "open"]
  /\ running = [c \in Clients |-> TRUE]
  /\ stopping = [c \in Clients |-> "no"]
  /\ closing = [c \in Clients |-> "no"]
  /\ reading = [c \in Clients |-> "waiting"]
  /\ authenticated = [c \in Clients |-> TRUE]
  /\ player = [c \in Clients |-> 1]
  /\ loads = [c \in Clients |-> 1]
  /\ joining = [c \in Clients |-> 0]
  /\ dialogue = [c \in Clients |-> "welcomed"]
  /\ received = 0
  /\ ZoneInit
  /\ currentZone = [c \in Clients |-> Nowhere]
  /\ phase = "up"
  /\ toStop = {}
  /\ late = FALSE
  /\ told = [c \in Clients |-> {}]

\* The new client is told of the clients of the zone, and they of the new one.
TellAdded(z, c) ==
  told' = [d \in Clients |->
    CASE d = c -> told[c] \cup (zoneClients[z] \ {c})
      [] d # c /\ d \in zoneClients[z] -> told[d] \cup {c}
      [] OTHER -> told[d]]

\* A client that was in the zone is despawned for those that remain.
TellRemoved(z, c) ==
  told' = [d \in Clients |->
    IF c \in zoneClients[z] /\ d \in zoneClients[z] \ {c} THEN told[d] \ {c} ELSE told[d]]

\* The handlers of a zone, with what they send.
ZoneTells(z) ==
  /\ ZoneRuns(z)
  /\ LET h == Head(zoneQ[z]) IN
       CASE h.op = "add"    -> TellAdded(z, h.client)
         [] h.op = "remove" -> TellRemoved(z, h.client)
         [] OTHER           -> UNCHANGED told

\* What the clients of this module send.
Enters == [c \in Clients |-> {p \in Packets : p.op = "enter"}]

\* Clients enter zones and lose their links; whatever else ends a connection
\* leads to the same removal.
ClientMoves(c) ==
  /\ \/ \E p \in Sends[c] : PacketReceived(c, p)
     \/ ReadError(c) \/ StopGoesOn(c) \/ PostRemoval(c)
  /\ UNCHANGED <<zoneVars, currentZone, stopVars>>

ReplicationNext ==
  /\ Alive
  /\ \/ \E z \in Zones : ZoneTells(z)
     \/ (\E c \in Clients : ClientMoves(c) \/ HandlerStep(c)) /\ UNCHANGED told

ReplicationSpec == ReplicationInit /\ [][ReplicationNext]_replicationVars
-----------------------------------------------------------------------------
\* No handler on the strand of z will change its clients.
Quiet(z) == \A h \in Range(zoneQ[z]) : h.op \notin {"add", "remove"}

\* Zone::add_client_deferred, "Spawn every player in the zone" and "Notify other
\* clients for new player spawn": clients that are in a zone together, with
\* nobody on the way in or out of it, have been told of each other.
ClientsSeeEachOther ==
  \A z \in Zones : Quiet(z) =>
    \A c, d \in zoneClients[z] : c # d => d \in told[c]
=============================================================================
