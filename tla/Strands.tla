------------------------------- MODULE Strands -------------------------------
(***************************************************************************)
(* The executors every other module runs on.  Server and each Zone own a   *)
(* boost::asio strand: handlers posted to a strand run one at a time, in   *)
(* the order they were posted, on any thread of the pool.  A strand is     *)
(* therefore a FIFO queue of handlers, and one step of a strand executes   *)
(* the handler at its head.                                                *)
(*                                                                         *)
(* A handler is a record: what it does (op) and the values it captured.    *)
(***************************************************************************)
EXTENDS Naturals, Sequences

CONSTANTS
  Clients,   \* connections the server may ever accept; ids are never reused
  Zones      \* the zones Server::init created

Nowhere  == "nowhere"     \* zone id 0: a client that has not entered a zone
Unknown  == "unknown"     \* a zone id that is not a key of Server::_zones
Absent   == "absent"      \* no entry in Server::_clients_current_zone
NoClient == "no_client"   \* for handlers that capture no client

\* The names above stand for values that are neither zones nor clients.
ASSUME StrandsAssumption ==
  /\ {Nowhere, Unknown, Absent} \cap Zones = {}
  /\ NoClient \notin Clients

VARIABLES
  serverQ,   \* handlers posted to Server::_strand
  zoneQ,     \* zoneQ[z]: handlers posted to the _strand of zone z
  crashed    \* "no", or how the process died; nothing runs after that

Targets == Zones \cup {Nowhere, Unknown}

PacketOps == {"join", "enter", "ping", "zone_packet"}

\* Packets a client can send; "invalid" is one the verifier refuses.
Packets ==
  [op : (PacketOps \cup {"invalid"}) \ {"enter"}, zone : {Nowhere}]
    \cup [op : {"enter"}, zone : Targets]

ServerHandlers ==
  [op : {"add_client", "remove_client"}, client : Clients, zone : {Nowhere}]
    \cup [op : PacketOps, client : Clients, zone : Targets]
    \cup [op : {"cleanup"}, client : {NoClient}, zone : {Nowhere}]

ZoneHandlers ==
  [op : {"add", "remove", "packet"}, client : Clients]
    \cup [op : {"tick"}, client : {NoClient}]

AddClient(c)       == [op |-> "add_client", client |-> c, zone |-> Nowhere]
RemoveClient(c)    == [op |-> "remove_client", client |-> c, zone |-> Nowhere]
HandlePacket(c, p) == [op |-> p.op, client |-> c, zone |-> p.zone]
Cleanup            == [op |-> "cleanup", client |-> NoClient, zone |-> Nowhere]

ZoneAdd(c)    == [op |-> "add", client |-> c]
ZoneRemove(c) == [op |-> "remove", client |-> c]
ZonePacket(c) == [op |-> "packet", client |-> c]
ZoneTick      == [op |-> "tick", client |-> NoClient]

\* Handler h has been posted to the strand with queue q and has not run yet.
Pending(q, h) == \E i \in 1..Len(q) : q[i] = h

StrandsTypeOK ==
  /\ serverQ \in Seq(ServerHandlers)
  /\ zoneQ \in [Zones -> Seq(ZoneHandlers)]
  /\ crashed \in {"no", "null_player", "zone_gone", "uncaught"}
=============================================================================
