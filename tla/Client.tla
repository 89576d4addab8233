------------------------------- MODULE Client -------------------------------
(***************************************************************************)
(* Client and its Connection, as the pool threads drive them: the receive  *)
(* loop, the heart-beat timer and the send coroutines.  Whatever ends a    *)
(* connection goes through Connection::disconnect, whose exchange on       *)
(* _is_connected makes it call back - and post the removal of the client   *)
(* to the server strand - once.  Client::stop has an exchange of its own,  *)
(* on _is_running, and disconnects afterwards: between the two exchanges,  *)
(* and between closing the socket and the callback, other threads run.     *)
(***************************************************************************)
EXTENDS Strands

CONSTANTS
  MaxPackets,   \* bound: packets received in a behaviour
  Sends,        \* bound: Sends[c] are the packets that client c sends
  Rude          \* clients that join more than once or enter zones before the
                \* answer; the server checks neither

ASSUME ClientAssumption ==
  /\ MaxPackets \in Nat
  /\ Sends \in [Clients -> SUBSET Packets]
  /\ Rude \in SUBSET Clients

VARIABLES
  link,            \* Connection: "none" before accept, _is_connected, closed
  running,         \* Client::_is_running
  stopping,        \* the thread in Client::stop that has _is_running false and
                   \* has not disconnected yet: "pool", the server "strand", "no"
  closing,         \* the thread in Connection::disconnect that has _is_connected
                   \* false and has not called _disconnected yet
  reading,         \* the receive loop: "unopened", "waiting" (in async_read), "closed"
  authenticated,   \* Client::is_authenticated
  player,          \* Client::player: 0 is nullptr, n the n-th Player loaded
  loads,           \* Players loaded so far for a client
  joining,         \* join coroutines of a client suspended in the database
  dialogue,        \* what the remote side knows: "new", "asked", "welcomed"
  received         \* packets received so far, by all clients

clientVars ==
  <<link, running, stopping, closing, reading, authenticated, player, loads,
    joining, dialogue, received>>

\* What stopping and disconnecting a client change.
linkVars == <<link, running, stopping, closing>>

Threads == {"no", "pool", "strand"}

ClientTypeOK ==
  /\ link \in [Clients -> {"none", "open", "closed"}]
  /\ running \in [Clients -> BOOLEAN]
  /\ stopping \in [Clients -> Threads]
  /\ closing \in [Clients -> Threads]
  /\ reading \in [Clients -> {"unopened", "waiting", "closed"}]
  /\ authenticated \in [Clients -> BOOLEAN]
  /\ player \in [Clients -> Nat]
  /\ loads \in [Clients -> Nat]
  /\ joining \in [Clients -> Nat]
  /\ dialogue \in [Clients -> {"new", "asked", "welcomed"}]
  /\ received \in Nat

ClientInit ==
  /\ link = [c \in Clients |-> "none"]
  /\ running = [c \in Clients |-> FALSE]
  /\ stopping = [c \in Clients |-> "no"]
  /\ closing = [c \in Clients |-> "no"]
  /\ reading = [c \in Clients |-> "unopened"]
  /\ authenticated = [c \in Clients |-> FALSE]
  /\ player = [c \in Clients |-> 0]
  /\ loads = [c \in Clients |-> 0]
  /\ joining = [c \in Clients |-> 0]
  /\ dialogue = [c \in Clients |-> "new"]
  /\ received = 0
-----------------------------------------------------------------------------

\* Mutant: disconnect without the exchange on _is_connected.
DisconnectAgain(c, t) ==
  /\ link' = [link EXCEPT ![c] = "closed"]
  /\ closing' = [closing EXCEPT ![c] = t]

\* Connection::disconnect on thread t, up to the closing of the socket.  The
\* exchange lets the first caller, and no other, go on to the callback.
Disconnect(c, t) ==
  IF link[c] = "open"
    THEN /\ link' = [link EXCEPT ![c] = "closed"]
         /\ closing' = [closing EXCEPT ![c] = t]
    ELSE UNCHANGED <<link, closing>>

\* The end of Connection::disconnect: the callback posts the removal.
PostRemoval(c) ==
  /\ closing[c] # "no"
  /\ closing' = [closing EXCEPT ![c] = "no"]
  /\ serverQ' = Append(serverQ, RemoveClient(c))
  /\ UNCHANGED <<link, running, stopping, reading, authenticated, player, loads,
                 joining, dialogue, received, zoneQ, crashed>>

\* Client::stop on thread t, up to the exchange on _is_running: the first
\* caller goes on, and any other returns, whether or not that one is done.
\* With the link closed already there is nothing left to do.
StopClient(c, t) ==
  /\ running' = [running EXCEPT ![c] = FALSE]
  /\ stopping' = [stopping EXCEPT ![c] = IF running[c] /\ link[c] = "open" THEN t ELSE @]
  /\ UNCHANGED <<link, closing>>

\* Client::stop goes on, and disconnects.
StopGoesOn(c) ==
  /\ stopping[c] # "no"
  /\ stopping' = [stopping EXCEPT ![c] = "no"]
  /\ Disconnect(c, stopping[c])
  /\ UNCHANGED <<running, reading, authenticated, player, loads, joining, dialogue,
                 received, serverQ, zoneQ, crashed>>

\* The server strand is in the middle of stopping or disconnecting a client.
StrandStops == \E c \in Clients : "strand" \in {stopping[c], closing[c]}

\* What a polite remote side respects, and the server does not check.
MaySend(c, p) ==
  c \notin Rude => /\ p.op = "join" => dialogue[c] = "new"
                   /\ p.op = "enter" => dialogue[c] = "welcomed"

\* The receive loop: a packet has been read completely.  The read may have
\* completed just before the socket was closed, so the link may be closed by
\* now; the loop then ends after this packet, as it does when it stopped the
\* client itself.
PacketReceived(c, p) ==
  /\ reading[c] = "waiting"
  /\ received < MaxPackets
  /\ MaySend(c, p)
  /\ received' = received + 1
  /\ IF p.op = "invalid"
       THEN StopClient(c, "pool") /\ UNCHANGED serverQ
       ELSE serverQ' = Append(serverQ, HandlePacket(c, p)) /\ UNCHANGED linkVars
  /\ reading' = [reading EXCEPT ![c] =
       IF link[c] = "open" /\ (p.op = "invalid" => ~running[c]) THEN "waiting" ELSE "closed"]
  /\ dialogue' = [dialogue EXCEPT ![c] = IF p.op = "join" THEN "asked" ELSE @]
  /\ UNCHANGED <<authenticated, player, loads, joining, zoneQ, crashed>>

\* The receive loop: a read fails (the peer closed, the socket was closed
\* here, the length is out of range).
ReadError(c) ==
  /\ reading[c] = "waiting"
  /\ Disconnect(c, "pool")
  /\ reading' = [reading EXCEPT ![c] = "closed"]
  /\ UNCHANGED <<running, stopping, authenticated, player, loads, joining, dialogue,
                 received, serverQ, zoneQ, crashed>>

\* The receive loop: a length of 1 to 3 passes the check and the subtraction
\* of the prefix wraps around; the allocation throws and the exception ends
\* the loop without disconnecting.
ReadAbandoned(c) ==
  /\ reading[c] = "waiting"
  /\ reading' = [reading EXCEPT ![c] = "closed"]
  /\ UNCHANGED <<linkVars, authenticated, player, loads, joining, dialogue, received,
                 serverQ, zoneQ, crashed>>

\* A send coroutine fails.  Packets are sent once the client was started.
SendError(c) ==
  /\ reading[c] # "unopened"
  /\ link[c] = "open"
  /\ Disconnect(c, "pool")
  /\ UNCHANGED <<running, stopping, reading, authenticated, player, loads, joining,
                 dialogue, received, serverQ, zoneQ, crashed>>

\* HeartBeater: the beat after MAX_DEAD_BEATS silent ones stops the client.
HeartbeatTimeout(c) ==
  /\ running[c]
  /\ StopClient(c, "pool")
  /\ UNCHANGED <<reading, authenticated, player, loads, joining, dialogue, received,
                 serverQ, zoneQ, crashed>>
=============================================================================
