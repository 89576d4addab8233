--------------------------- MODULE ServerDirectory ---------------------------
(***************************************************************************)
(* Server, with its strands and zones, implements Directory.  The server's *)
(* _clients_current_zone is the directory, and a zone owes a client a      *)
(* change while an add or a remove handler of it is on the zone's strand.  *)
(***************************************************************************)
EXTENDS Server

Place ==
  [c \in Clients |->
     IF Registered(c) THEN currentZone[c]
     ELSE IF reading[c] = "unopened" THEN "new" ELSE "gone"]

Owes ==
  [z \in Zones |->
     {c \in Clients : Pending(zoneQ[z], ZoneAdd(c)) \/ Pending(zoneQ[z], ZoneRemove(c))}]

D == INSTANCE Directory WITH place <- Place, view <- zoneClients, owes <- Owes, open <- liveZones

\* The names for a client that is not accepted yet, and for one that has left,
\* are not zones.
ASSUME ServerDirectoryAssumption == {D!New, D!Gone} \cap Zones = {}

\* Every step of the server, its clients and its zones is a step of the
\* directory or does not concern it: clients are registered once and moved at
\* once, and each handler of a zone undoes what the one before it did.
ImplementsDirectory == D!Spec

\* A client sent to a zone gets there, or has been sent on.
EntriesComplete ==
  \A c \in Clients, z \in Zones :
    currentZone[c] = z ~> (c \in zoneClients[z] \/ currentZone[c] # z \/ Down)
=============================================================================
