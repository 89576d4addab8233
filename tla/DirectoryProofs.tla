--------------------------- MODULE DirectoryProofs ---------------------------
(***************************************************************************)
(* The theorem that Server, with any clients and zones, implements         *)
(* Directory: every step of the one is a step of the other or none.        *)
(***************************************************************************)
EXTENDS ServerDirectory, ServerProofs

-----------------------------------------------------------------------------
(***************************************************************************)
(* What the handlers of a zone find.  An add finds its client out, and a   *)
(* remove finds it in, when the handlers before it have run.               *)
(***************************************************************************)
HandlersFit(q, S) ==
  \A i \in 1..Len(q), c \in Clients :
    /\ q[i] = ZoneAdd(c) => ~MemberBefore(q, S, c, i)
    /\ q[i] = ZoneRemove(c) => MemberBefore(q, S, c, i)

LEMMA FitAppend ==
  ASSUME NEW q \in Seq(ZoneHandlers), NEW h \in ZoneHandlers, NEW S, HandlersFit(q, S),
         \A c \in Clients : /\ h = ZoneAdd(c) => ~MemberBefore(q, S, c, Len(q) + 1)
                            /\ h = ZoneRemove(c) => MemberBefore(q, S, c, Len(q) + 1)
  PROVE  HandlersFit(Append(q, h), S)
<1> DEFINE r == Append(q, h)
<1>1. Len(q) \in Nat /\ Len(r) = Len(q) + 1 /\ r[Len(q) + 1] = h
      /\ \A i \in 1..Len(q) : r[i] = q[i]
  BY AppendIndex
<1>2. \A c : \A i \in 1..(Len(q) + 1) : MemberBefore(r, S, c, i) <=> MemberBefore(q, S, c, i)
  BY MemberAppend
<1> HIDE DEF r
<1>3. ASSUME NEW i \in 1..Len(r), NEW c \in Clients
      PROVE  /\ r[i] = ZoneAdd(c) => ~MemberBefore(r, S, c, i)
             /\ r[i] = ZoneRemove(c) => MemberBefore(r, S, c, i)
  <2>1. CASE i \in 1..Len(q)
    BY <1>1, <1>2, <2>1 DEF HandlersFit
  <2>2. CASE i = Len(q) + 1
    BY <1>1, <1>2, <2>2
  <2> QED BY <1>1, <2>1, <2>2
<1> QED BY <1>3 DEF HandlersFit, r

LEMMA FitTail ==
  ASSUME NEW q \in Seq(ZoneHandlers), q # <<>>, NEW S, HandlersFit(q, S)
  PROVE  HandlersFit(Tail(q), ClientsAfter(Head(q), S))
<1> DEFINE r == Tail(q)  T == ClientsAfter(Head(q), S)
<1>1. /\ Len(q) \in Nat \ {0} /\ Len(r) = Len(q) - 1
      /\ \A i \in 1..(Len(q) - 1) : r[i] = q[i + 1]
  BY TailIndex
<1>2. \A c : \A i \in 1..Len(q) : MemberBefore(r, T, c, i) <=> MemberBefore(q, S, c, i + 1)
  BY MemberTail
<1> HIDE DEF r, T
<1>3. ASSUME NEW i \in 1..Len(r), NEW c \in Clients
      PROVE  /\ r[i] = ZoneAdd(c) => ~MemberBefore(r, T, c, i)
             /\ r[i] = ZoneRemove(c) => MemberBefore(r, T, c, i)
  <2>1. i + 1 \in 1..Len(q) /\ i \in 1..Len(q) /\ r[i] = q[i + 1]
    BY <1>1
  <2>2. /\ q[i + 1] = ZoneAdd(c) => ~MemberBefore(q, S, c, i + 1)
        /\ q[i + 1] = ZoneRemove(c) => MemberBefore(q, S, c, i + 1)
    BY <2>1 DEF HandlersFit
  <2> QED BY <1>2, <2>1, <2>2
<1> QED BY <1>3 DEF HandlersFit, r, T

\* What the head of the queue finds is what the zone is now.
LEMMA FitHead ==
  ASSUME NEW q \in Seq(ZoneHandlers), q # <<>>, NEW S, NEW c \in Clients, HandlersFit(q, S)
  PROVE  /\ Head(q) = ZoneAdd(c) => c \notin S
         /\ Head(q) = ZoneRemove(c) => c \in S
<1>1. 1 \in 1..Len(q) /\ q[1] = Head(q)
  BY TailIndex
<1>2. MemberBefore(q, S, c, 1) <=> c \in S
  BY DEF MemberBefore
<1> QED BY <1>1, <1>2 DEF HandlersFit

\* The handlers of the zones fit, and a registered client has been opened.
FitInv ==
  /\ \A z \in liveZones : HandlersFit(zoneQ[z], zoneClients[z])
  /\ \A c \in Clients : Registered(c) => reading[c] # "unopened"

\* A handler posted to a zone fits when it removes a client the server has in
\* the zone, or adds one it has elsewhere.
LEMMA FitPost ==
  ASSUME TypeOK, NEW z \in Zones, Routing(z), HandlersFit(zoneQ[z], zoneClients[z]),
         NEW c \in Clients, NEW h \in {ZoneAdd(c), ZoneRemove(c), ZonePacket(c)},
         h = ZoneAdd(c) => currentZone[c] # z,
         h = ZoneRemove(c) => currentZone[c] = z
  PROVE  HandlersFit(Append(zoneQ[z], h), zoneClients[z])
<1> DEFINE q == zoneQ[z]  S == zoneClients[z]
<1>1. q \in Seq(ZoneHandlers) /\ h \in ZoneHandlers
  BY HandlerTypes DEF TypeOK, StrandsTypeOK
<1>2. MemberBefore(q, S, c, Len(q) + 1) <=> currentZone[c] = z
  BY DEF Routing, WillBeIn
<1>3. ASSUME NEW d \in Clients
      PROVE  /\ h = ZoneAdd(d) => ~MemberBefore(q, S, d, Len(q) + 1)
             /\ h = ZoneRemove(d) => MemberBefore(q, S, d, Len(q) + 1)
  <2>1. /\ h = ZoneAdd(d) => h = ZoneAdd(c) /\ d = c
        /\ h = ZoneRemove(d) => h = ZoneRemove(c) /\ d = c
    BY HandlersDiffer
  <2> QED BY <1>2, <2>1
<1> HIDE DEF q, S
<1>4. HandlersFit(Append(q, h), S)
  BY <1>1, <1>3, FitAppend DEF q, S
<1> QED BY <1>4 DEF q, S

\* What the strand of a zone does to the handlers posted to it, when it runs
\* the first.
LEMMA QueueRuns ==
  ASSUME TypeOK, NEW z \in Zones, ZoneRuns(z)
  PROVE  \/ UNCHANGED <<zoneQ, zoneVars>>
         \/ /\ z \in liveZones /\ zoneQ[z] # <<>>
            /\ zoneQ' = [zoneQ EXCEPT ![z] = Tail(@)]
               \/ zoneQ' = [zoneQ EXCEPT ![z] = Append(Tail(@), ZoneTick)]
            /\ zoneClients' = [zoneClients EXCEPT ![z] = ClientsAfter(Head(zoneQ[z]), @)]
            /\ UNCHANGED liveZones
<1> USE DEF TypeOK, StrandsTypeOK, ZoneTypeOK
<1>1. ASSUME NullPlayer \/ DestroyedZone(z) PROVE UNCHANGED <<zoneQ, zoneVars>>
  BY <1>1 DEF NullPlayer, DestroyedZone
<1>2. ASSUME NEW op, Runs(z, op)
      PROVE  /\ z \in liveZones /\ zoneQ[z] # <<>> /\ Head(zoneQ[z]).op = op
             /\ Tail(zoneQ[z]) \in Seq(ZoneHandlers)
  BY <1>2, TailIndex DEF Runs
<1>3. ASSUME Tail(zoneQ[z]) \in Seq(ZoneHandlers), Finish(z) \/ Reposting(z, <<>>) \/ Reposting(z, <<ZoneTick>>)
      PROVE  \/ zoneQ' = [zoneQ EXCEPT ![z] = Tail(@)]
             \/ zoneQ' = [zoneQ EXCEPT ![z] = Append(Tail(@), ZoneTick)]
  <2> DEFINE r == Tail(zoneQ[z])
  <2>1. ZoneTick \in ZoneHandlers
    BY DEF ZoneTick, ZoneHandlers
  <2>2. r \o <<>> = r /\ r \o <<ZoneTick>> = Append(r, ZoneTick)
    BY <1>3, <2>1, RepostingIs
  <2> QED BY <1>3, <2>2 DEF Finish, Reposting
<1>4. ASSUME Add(z), ~NullPlayer
      PROVE  /\ Runs(z, "add") /\ UNCHANGED liveZones
             /\ Finish(z) \/ Reposting(z, <<>>) \/ Reposting(z, <<ZoneTick>>)
             /\ zoneClients' = [zoneClients EXCEPT ![z] = @ \cup {Head(zoneQ[z]).client}]
  BY <1>4 DEF Add, Start, ZoneElsewhere
<1>5. ASSUME Remove(z), ~NullPlayer
      PROVE  /\ Runs(z, "remove") /\ UNCHANGED liveZones /\ Finish(z)
             /\ zoneClients' = [zoneClients EXCEPT ![z] = @ \ {Head(zoneQ[z]).client}]
  BY <1>5 DEF Remove, ZoneElsewhere
<1>6. ASSUME Packet(z), ~NullPlayer
      PROVE  Runs(z, "packet") /\ UNCHANGED <<liveZones, zoneClients>> /\ Finish(z)
  BY <1>6 DEF Packet, ZoneElsewhere
<1>7. ASSUME Tick(z)
      PROVE  /\ Runs(z, "tick") /\ UNCHANGED <<liveZones, zoneClients>>
             /\ Reposting(z, <<>>) \/ Reposting(z, <<ZoneTick>>)
  BY <1>7 DEF Tick, ZoneElsewhere
<1>8. CASE Add(z) /\ ~NullPlayer
  BY <1>2, <1>3, <1>4, <1>8 DEF ClientsAfter
<1>9. CASE Remove(z) /\ ~NullPlayer
  BY <1>2, <1>3, <1>5, <1>9 DEF ClientsAfter
<1>10. CASE Packet(z) /\ ~NullPlayer
  BY <1>2, <1>3, <1>6, <1>10 DEF ClientsAfter
<1>11. CASE Tick(z)
  BY <1>2, <1>3, <1>7, <1>11 DEF ClientsAfter
<1> QED BY <1>1, <1>8, <1>9, <1>10, <1>11 DEF ZoneRuns, ZoneStep

-----------------------------------------------------------------------------
(***************************************************************************)
(* The steps of the server, by what they do to the places of clients and   *)
(* to the queues of zones.                                                 *)
(***************************************************************************)
SameZones == UNCHANGED <<zoneClients, liveZones>>

Idles == UNCHANGED <<Place, zoneQ>> /\ SameZones

Registers(c) ==
  /\ Place[c] = "new"
  /\ Place' = [Place EXCEPT ![c] = Nowhere]
  /\ UNCHANGED zoneQ /\ SameZones

Relocates(c, to) ==
  /\ Registered(c) /\ to \in (liveZones \ {currentZone[c]}) \cup {"gone"}
  /\ Place' = [Place EXCEPT ![c] = to]
  /\ zoneQ' = [z \in Zones |->
       CASE z = currentZone[c] /\ z \in liveZones -> Append(zoneQ[z], ZoneRemove(c))
         [] z = to -> Append(zoneQ[z], ZoneAdd(c))
         [] OTHER -> zoneQ[z]]
  /\ SameZones

Routes(c, z) ==
  /\ currentZone[c] = z
  /\ zoneQ' = [zoneQ EXCEPT ![z] = Append(@, ZonePacket(c))]
  /\ UNCHANGED Place /\ SameZones

Works(z) ==
  /\ z \in liveZones /\ zoneQ[z] # <<>>
  /\ \/ zoneQ' = [zoneQ EXCEPT ![z] = Tail(@)]
     \/ zoneQ' = [zoneQ EXCEPT ![z] = Append(Tail(@), ZoneTick)]
  /\ zoneClients' = [zoneClients EXCEPT ![z] = ClientsAfter(Head(zoneQ[z]), @)]
  /\ UNCHANGED <<Place, liveZones>>

Closes == liveZones' = {} /\ UNCHANGED <<Place, zoneQ, zoneClients>>

\* The names of places are different from each other and from the zones.
LEMMA PlacesDiffer ==
  /\ {"new", "gone", Nowhere, Absent} \cap Zones = {}
  /\ {"new", "gone"} \cap {Nowhere, Absent} = {} /\ Absent # Nowhere
<1>1. {"new", "gone"} \cap Zones = {}
  BY ServerDirectoryAssumption DEF D!New, D!Gone
<1> QED BY <1>1, StrandsAssumption DEF Nowhere, Absent

\* A client stays where it is unless it is registered, removed or opened.
LEMMA PlaceSame ==
  ASSUME UNCHANGED currentZone,
         \A c \in Clients : reading'[c] = "unopened" <=> reading[c] = "unopened"
  PROVE  UNCHANGED Place
  BY DEF Place, Registered

\* Every step is of one of these kinds.
LEMMA StepKinds ==
  ASSUME TypeOK, RegistrationInv, FitInv, [Next]_vars
  PROVE  \/ Idles \/ Closes
         \/ \E c \in Clients : Registers(c) \/ \E to \in Zones \cup {"gone"} : Relocates(c, to)
         \/ \E z \in Zones : Works(z) \/ \E c \in Clients : Routes(c, z)
<1> USE DEF TypeOK, StrandsTypeOK, ClientTypeOK, ZoneTypeOK
<1>1. ASSUME UNCHANGED <<currentZone, reading>> PROVE UNCHANGED Place
  BY <1>1, PlaceSame
<1>2. ASSUME UNCHANGED <<currentZone, reading, zoneQ, zoneVars>> PROVE Idles
  BY <1>1, <1>2 DEF Idles, SameZones, zoneVars
<1>3. ASSUME NEW c \in Clients, ServerAddClient(c) PROVE Registers(c)
  <2>1. ~Registered(c) /\ reading[c] = "unopened"
    <3>1. /\ serverQ # <<>> /\ Head(serverQ) \in ServerHandlers
          /\ Head(serverQ).op = "add_client" /\ Head(serverQ).client = c
      BY <1>3, HeadType DEF ServerAddClient, Handles
    <3>2. Pending(serverQ, AddClient(c))
      BY <3>1, ServerHandlerIs, PendingTail
    <3>3. reading[c] = "unopened"
      BY <3>2 DEF RegistrationInv, Registration, RegisteredFor
    <3> QED BY <1>3, <3>3, AddedOnce
  <2>2. /\ currentZone' = [currentZone EXCEPT ![c] = Nowhere]
        /\ reading' = [reading EXCEPT ![c] = "waiting"]
        /\ UNCHANGED <<zoneQ, zoneVars>>
    BY <1>3 DEF ServerAddClient
  <2>3. Place[c] = "new"
    BY <2>1 DEF Place
  <2>4. Place' = [Place EXCEPT ![c] = Nowhere]
    BY <2>2, PlacesDiffer DEF Place, Registered
  <2> QED BY <2>2, <2>3, <2>4 DEF Registers, SameZones, zoneVars
<1>4. ASSUME NEW c \in Clients, ServerRemoveClient(c) PROVE Idles \/ Relocates(c, "gone")
  <2>1. UNCHANGED <<reading, zoneVars>>
    BY <1>4 DEF ServerRemoveClient
  <2>2. CASE ~Registered(c)
    BY <1>2, <1>4, <2>1, <2>2 DEF ServerRemoveClient
  <2>3. CASE Registered(c)
    <3>1. currentZone' = [currentZone EXCEPT ![c] = Absent]
      BY <1>4, <2>3 DEF ServerRemoveClient
    <3>2. reading[c] # "unopened"
      BY <2>3 DEF FitInv
    <3>3. Place' = [Place EXCEPT ![c] = "gone"]
      BY <2>1, <3>1, <3>2 DEF Place, Registered
    <3>4. zoneQ' = [z \in Zones |->
             CASE z = currentZone[c] /\ z \in liveZones -> Append(zoneQ[z], ZoneRemove(c))
               [] z = "gone" -> Append(zoneQ[z], ZoneAdd(c))
               [] OTHER -> zoneQ[z]]
      <4>1. CASE currentZone[c] \in liveZones
        <5>1. zoneQ' = [zoneQ EXCEPT ![currentZone[c]] = Append(@, ZoneRemove(c))]
          BY <1>4, <2>3, <4>1 DEF ServerRemoveClient, Post
        <5> QED BY <4>1, <5>1, PlacesDiffer
      <4>2. CASE currentZone[c] \notin liveZones
        <5>1. zoneQ' = zoneQ
          BY <1>4, <2>3, <4>2 DEF ServerRemoveClient
        <5> QED BY <4>2, <5>1, PlacesDiffer
      <4> QED BY <4>1, <4>2
    <3> QED BY <2>1, <2>3, <3>3, <3>4 DEF Relocates, SameZones, zoneVars
  <2> QED BY <2>2, <2>3
<1>5. ASSUME NEW c \in Clients, HandleEnter(c)
      PROVE  Idles \/ \E to \in Zones \cup {"gone"} : Relocates(c, to)
  <2> DEFINE from == currentZone[c]  to == Head(serverQ).zone
  <2>1. UNCHANGED <<reading, zoneVars>>
    BY <1>5 DEF HandleEnter, HandlerElsewhere
  <2>2. CASE UNCHANGED <<zoneQ, currentZone>>
    BY <1>2, <2>1, <2>2
  <2>3. CASE ~UNCHANGED <<zoneQ, currentZone>>
    <3>1. /\ from # Absent /\ from # to /\ from \in liveZones \cup {Nowhere} /\ to \in liveZones
          /\ currentZone' = [currentZone EXCEPT ![c] = to]
          /\ zoneQ' = [z \in Zones |->
                CASE z = from -> Append(zoneQ[z], ZoneRemove(c))
                  [] z = to   -> Append(zoneQ[z], ZoneAdd(c))
                  [] OTHER    -> zoneQ[z]]
      BY <1>5, <2>3 DEF HandleEnter, MayMove
    <3> HIDE DEF to
    <3>2. \A z \in Zones : z = from <=> z = from /\ z \in liveZones
      BY <3>1, PlacesDiffer
    <3>3. Place' = [Place EXCEPT ![c] = to]
      BY <2>1, <3>1, PlacesDiffer DEF Place, Registered
    <3>4. zoneQ' = [z \in Zones |->
                CASE z = from /\ z \in liveZones -> Append(zoneQ[z], ZoneRemove(c))
                  [] z = to   -> Append(zoneQ[z], ZoneAdd(c))
                  [] OTHER    -> zoneQ[z]]
      BY <3>1, <3>2
    <3>5. Relocates(c, to)
      BY <2>1, <3>1, <3>3, <3>4 DEF Relocates, SameZones, Registered, zoneVars
    <3> QED BY <3>1, <3>5
  <2> QED BY <2>2, <2>3
<1>6. ASSUME NEW c \in Clients, HandleZonePacket(c)
      PROVE  Idles \/ \E z \in Zones : Routes(c, z)
  <2>1. UNCHANGED <<reading, currentZone, zoneVars>>
    BY <1>6 DEF HandleZonePacket, HandlerElsewhere
  <2>2. CASE UNCHANGED zoneQ
    BY <1>2, <2>1, <2>2
  <2>3. CASE ~UNCHANGED zoneQ
    <3>1. /\ currentZone[c] \in liveZones
          /\ zoneQ' = [zoneQ EXCEPT ![currentZone[c]] = Append(@, ZonePacket(c))]
      BY <1>6, <2>3 DEF HandleZonePacket, Post
    <3> QED BY <1>1, <2>1, <3>1 DEF Routes, SameZones, zoneVars
  <2> QED BY <2>2, <2>3
<1>7. ASSUME NEW c \in Clients, HandleJoin(c) \/ HandlePing(c) \/ JoinStep(c) \/ Accept(c)
      PROVE  Idles
  BY <1>2, <1>7 DEF HandleJoin, HandlePing, HandlerElsewhere, Accept, JoinStep, JoinDropped,
                    JoinRejected, JoinLoadFails, JoinLoaded, Load, Resumes
<1>8. ASSUME NEW c \in Clients, ClientStep(c) PROVE Idles
  <2>1. UNCHANGED <<zoneQ, zoneVars, currentZone>>
    BY <1>8 DEF ClientStep, PacketReceived, ReadError, ReadAbandoned, SendError,
                HeartbeatTimeout, StopGoesOn, PostRemoval
  <2>2. \A d \in Clients : reading'[d] = "unopened" <=> reading[d] = "unopened"
    BY <1>8 DEF ClientStep, PacketReceived, ReadError, ReadAbandoned, SendError,
                HeartbeatTimeout, StopGoesOn, PostRemoval
  <2> QED BY <2>1, <2>2, PlaceSame DEF Idles, SameZones, zoneVars
<1>9. ASSUME NEW z \in Zones, ZoneRuns(z) PROVE Idles \/ Works(z)
  <2>1. UNCHANGED <<currentZone, reading>>
    BY <1>9 DEF ZoneRuns, ZoneStep, Add, Remove, Packet, Tick, DestroyedZone, NullPlayer,
                ZoneElsewhere, clientVars
  <2>2. UNCHANGED Place
    BY <1>1, <2>1
  <2> QED BY <1>9, <2>2, QueueRuns DEF Idles, Works, SameZones, zoneVars
<1>10. ASSUME StopServer \/ CleanupBegin \/ Halt \/ \E c \in Clients : CleanupStopClient(c)
       PROVE  Idles
  BY <1>2, <1>10 DEF StopServer, CleanupBegin, CleanupStopClient, Halt, clientVars
<1>11. ASSUME CleanupZones PROVE Closes
  BY <1>1, <1>11 DEF CleanupZones, Closes, clientVars
<1>12. CASE UNCHANGED vars
  BY <1>2, <1>12 DEF vars, clientVars
<1>13. CASE Next
  BY <1>3, <1>4, <1>5, <1>6, <1>7, <1>8, <1>9, <1>10, <1>11, <1>13
    DEF Next, HandlerStep, CleanupStep
<1> QED BY <1>12, <1>13
-----------------------------------------------------------------------------
(***************************************************************************)
(* The invariant.                                                          *)
(***************************************************************************)

\* A zone that runs a handler still has handlers that fit.
LEMMA FitWorks ==
  ASSUME TypeOK, FitInv, NEW z \in Zones, Works(z)
  PROVE  HandlersFit(zoneQ'[z], zoneClients'[z])
<1> USE DEF TypeOK, StrandsTypeOK, ZoneTypeOK
<1> DEFINE r == Tail(zoneQ[z])  T == ClientsAfter(Head(zoneQ[z]), zoneClients[z])
<1>1. r \in Seq(ZoneHandlers) /\ ZoneTick \in ZoneHandlers
  BY TailIndex DEF Works, ZoneTick, ZoneHandlers
<1>2. HandlersFit(r, T)
  BY FitTail DEF Works, FitInv
<1>3. /\ zoneQ'[z] = r \/ zoneQ'[z] = Append(r, ZoneTick)
      /\ zoneClients'[z] = T
  BY DEF Works
<1>4. \A c \in Clients : ZoneTick # ZoneAdd(c) /\ ZoneTick # ZoneRemove(c)
  BY HandlersDiffer
<1> HIDE DEF r, T
<1>5. HandlersFit(Append(r, ZoneTick), T)
  BY <1>1, <1>2, <1>4, FitAppend
<1> QED BY <1>2, <1>3, <1>5

\* What is posted to the zones when a client moves on fits.
LEMMA FitRelocates ==
  ASSUME TypeOK, FitInv, ZonesInv, NEW c \in Clients, NEW to \in Zones \cup {"gone"},
         Relocates(c, to), NEW z \in liveZones
  PROVE  HandlersFit(zoneQ'[z], zoneClients[z])
<1> USE DEF TypeOK, StrandsTypeOK, ZoneTypeOK
<1>1. /\ z \in Zones /\ Routing(z) /\ HandlersFit(zoneQ[z], zoneClients[z])
      /\ to # currentZone[c]
  BY PlacesDiffer DEF Relocates, FitInv, ZonesInv
<1>2. ZoneAdd(c) # ZoneRemove(c)
  BY HandlersDiffer
<1>3. CASE z = currentZone[c]
  <2>1. zoneQ'[z] = Append(zoneQ[z], ZoneRemove(c))
    BY <1>1, <1>3 DEF Relocates
  <2> QED BY <1>1, <1>2, <1>3, <2>1, FitPost
<1>4. CASE z # currentZone[c] /\ z = to
  <2>1. zoneQ'[z] = Append(zoneQ[z], ZoneAdd(c))
    BY <1>1, <1>4 DEF Relocates
  <2> QED BY <1>1, <1>2, <1>4, <2>1, FitPost
<1>5. CASE z # currentZone[c] /\ z # to
  BY <1>1, <1>5 DEF Relocates
<1> QED BY <1>3, <1>4, <1>5

\* Packets fit as they find their client; they are no adds or removes.
LEMMA FitRoutes ==
  ASSUME TypeOK, FitInv, ZonesInv, NEW c \in Clients, NEW y \in Zones, Routes(c, y),
         NEW z \in liveZones
  PROVE  HandlersFit(zoneQ'[z], zoneClients[z])
<1> USE DEF TypeOK, StrandsTypeOK, ZoneTypeOK
<1>1. z \in Zones /\ Routing(z) /\ HandlersFit(zoneQ[z], zoneClients[z])
  BY DEF FitInv, ZonesInv
<1>2. CASE z = y
  <2>1. zoneQ'[z] = Append(zoneQ[z], ZonePacket(c))
    BY <1>1, <1>2 DEF Routes
  <2>2. ZonePacket(c) # ZoneAdd(c) /\ ZonePacket(c) # ZoneRemove(c)
    BY HandlersDiffer
  <2> QED BY <1>1, <2>1, <2>2, FitPost
<1>3. CASE z # y
  BY <1>1, <1>3 DEF Routes
<1> QED BY <1>2, <1>3

LEMMA FitStep ==
  ASSUME TypeOK, RegistrationInv, ZonesInv, FitInv, [Next]_vars
  PROVE  FitInv'
<1> DEFINE Fits == \A z \in liveZones : HandlersFit(zoneQ[z], zoneClients[z])
           Opened == \A c \in Clients : Registered(c) => reading[c] # "unopened"
<1>1. Fits'
  <2>1. CASE Idles
    BY <2>1 DEF Idles, SameZones, FitInv, HandlersFit
  <2>2. CASE Closes
    BY <2>2 DEF Closes
  <2>3. ASSUME NEW c \in Clients, Registers(c) PROVE Fits'
    BY <2>3 DEF Registers, SameZones, FitInv, HandlersFit
  <2>4. ASSUME NEW c \in Clients, NEW to \in Zones \cup {"gone"}, Relocates(c, to)
        PROVE  Fits'
    <3>1. \A z \in liveZones : HandlersFit(zoneQ'[z], zoneClients[z])
      BY <2>4, FitRelocates
    <3> QED BY <2>4, <3>1 DEF Relocates, SameZones, HandlersFit
  <2>5. ASSUME NEW c \in Clients, NEW y \in Zones, Routes(c, y) PROVE Fits'
    <3>1. \A z \in liveZones : HandlersFit(zoneQ'[z], zoneClients[z])
      BY <2>5, FitRoutes
    <3> QED BY <2>5, <3>1 DEF Routes, SameZones, HandlersFit
  <2>6. ASSUME NEW y \in Zones, Works(y) PROVE Fits'
    <3>1. HandlersFit(zoneQ'[y], zoneClients'[y])
      BY <2>6, FitWorks
    <3>2. \A z \in liveZones :
            z # y => zoneQ'[z] = zoneQ[z] /\ zoneClients'[z] = zoneClients[z]
      BY <2>6 DEF Works, TypeOK, StrandsTypeOK, ZoneTypeOK
    <3>3. \A z \in liveZones : HandlersFit(zoneQ'[z], zoneClients'[z])
      BY <3>1, <3>2 DEF FitInv
    <3> QED BY <2>6, <3>3 DEF Works, HandlersFit
  <2> QED BY <2>1, <2>2, <2>3, <2>4, <2>5, <2>6, StepKinds
<1>2. Opened'
  <2> USE DEF TypeOK, ClientTypeOK, Registered, FitInv
  <2>1. ASSUME UNCHANGED <<currentZone, reading>> PROVE Opened'
    BY <2>1
  <2>2. ASSUME NEW c \in Clients, ServerAddClient(c) PROVE Opened'
    BY <2>2 DEF ServerAddClient
  <2>3. ASSUME NEW c \in Clients, ServerRemoveClient(c) \/ HandleEnter(c) PROVE Opened'
    <3>1. UNCHANGED reading
      BY <2>3 DEF ServerRemoveClient, HandleEnter, HandlerElsewhere
    <3>2. \A d \in Clients : currentZone'[d] # Absent => currentZone[d] # Absent
      BY <2>3 DEF ServerRemoveClient, HandleEnter
    <3> QED BY <3>1, <3>2
  <2>4. ASSUME NEW c \in Clients, ClientStep(c) PROVE Opened'
    <3>1. UNCHANGED currentZone
      BY <2>4 DEF ClientStep
    <3>2. \A d \in Clients : reading[d] # "unopened" => reading'[d] # "unopened"
      BY <2>4 DEF ClientStep, PacketReceived, ReadError, ReadAbandoned, SendError,
                  HeartbeatTimeout, StopGoesOn, PostRemoval
    <3> QED BY <3>1, <3>2
  <2>5. ASSUME NEW c \in Clients,
               HandleZonePacket(c) \/ HandleJoin(c) \/ HandlePing(c) \/ JoinStep(c) \/ Accept(c)
        PROVE  Opened'
    BY <2>1, <2>5 DEF HandleZonePacket, HandleJoin, HandlePing, HandlerElsewhere, Accept,
                      JoinStep, JoinDropped, JoinRejected, JoinLoadFails, JoinLoaded, Load,
                      Resumes
  <2>6. ASSUME NEW z \in Zones, ZoneRuns(z) PROVE Opened'
    BY <2>1, <2>6 DEF ZoneRuns, ZoneStep, Add, Remove, Packet, Tick, DestroyedZone,
                      NullPlayer, ZoneElsewhere, clientVars
  <2>7. ASSUME StopServer \/ CleanupStep \/ Halt PROVE Opened'
    BY <2>1, <2>7 DEF StopServer, CleanupStep, CleanupBegin, CleanupStopClient, CleanupZones,
                      Halt, clientVars
  <2>8. CASE UNCHANGED vars
    BY <2>1, <2>8 DEF vars, clientVars
  <2>9. CASE Next
    BY <2>2, <2>3, <2>4, <2>5, <2>6, <2>7, <2>9 DEF Next, HandlerStep
  <2> QED BY <2>8, <2>9
<1> QED BY <1>1, <1>2 DEF FitInv

\* FitInv: whatever the order in which clients move, the add of a client finds
\* it out of the zone and its remove finds it in.
THEOREM HandlersAlwaysFit == Spec => []FitInv
<1>1. ASSUME Init PROVE FitInv
  BY <1>1 DEF Init, ClientInit, ZoneInit, FitInv, HandlersFit, Registered
<1>2. TypeOK /\ RegistrationInv /\ ZonesInv /\ FitInv /\ [Next]_vars => FitInv'
  BY FitStep
<1> QED BY <1>1, <1>2, TypeCorrect, RegistrationHolds, ZonesHold, PTL DEF Spec
-----------------------------------------------------------------------------
(***************************************************************************)
(* The refinement, kind by kind.                                           *)
(***************************************************************************)
DirectoryVars == <<Place, zoneClients, Owes, liveZones>>

LEMMA OwesSame == ASSUME UNCHANGED zoneQ PROVE UNCHANGED Owes
  BY DEF Owes, Pending

\* Whom a zone owes a change when its queue has become another.
LEMMA OwesIs ==
  ASSUME NEW z \in Zones, NEW c \in Clients
  PROVE  /\ c \in Owes[z] <=> Pending(zoneQ[z], ZoneAdd(c)) \/ Pending(zoneQ[z], ZoneRemove(c))
         /\ c \in Owes'[z] <=> Pending(zoneQ'[z], ZoneAdd(c)) \/ Pending(zoneQ'[z], ZoneRemove(c))
  BY DEF Owes, Pending

LEMMA OwesType == Owes \in [Zones -> SUBSET Clients] /\ Owes' \in [Zones -> SUBSET Clients]
  BY DEF Owes

LEMMA RegistersRefines ==
  ASSUME NEW c \in Clients, Registers(c)
  PROVE  D!Register(c)
  BY OwesSame DEF Registers, SameZones, D!Register, D!New, D!Nowhere, Nowhere

\* Posting a handler to a zone.
LEMMA OwesPost ==
  ASSUME TypeOK, NEW z \in Zones, NEW c \in Clients,
         NEW h \in {ZoneAdd(c), ZoneRemove(c), ZonePacket(c)},
         zoneQ'[z] = Append(zoneQ[z], h)
  PROVE  Owes'[z] = IF h = ZonePacket(c) THEN Owes[z] ELSE Owes[z] \cup {c}
<1>1. zoneQ[z] \in Seq(ZoneHandlers) /\ h \in ZoneHandlers
  BY HandlerTypes DEF TypeOK, StrandsTypeOK
<1>2. /\ ZonePacket(c) # ZoneAdd(c) /\ ZonePacket(c) # ZoneRemove(c)
      /\ ZoneAdd(c) # ZoneRemove(c)
  BY HandlersDiffer
<1>3. ASSUME NEW d \in Clients
      PROVE  d \in Owes'[z] <=> d \in Owes[z] \/ (h # ZonePacket(c) /\ d = c)
  <2>1. /\ Pending(zoneQ'[z], ZoneAdd(d)) <=> Pending(zoneQ[z], ZoneAdd(d)) \/ h = ZoneAdd(d)
        /\ Pending(zoneQ'[z], ZoneRemove(d)) <=>
             Pending(zoneQ[z], ZoneRemove(d)) \/ h = ZoneRemove(d)
    BY <1>1, PendingAppend
  <2>2. h = ZoneAdd(d) \/ h = ZoneRemove(d) <=> h # ZonePacket(c) /\ d = c
    BY <1>2, HandlersDiffer
  <2> QED BY <2>1, <2>2, OwesIs
<1> QED BY <1>3, OwesType

LEMMA RoutesRefines ==
  ASSUME TypeOK, NEW c \in Clients, NEW z \in Zones, Routes(c, z)
  PROVE  UNCHANGED DirectoryVars
<1>1. zoneQ'[z] = Append(zoneQ[z], ZonePacket(c)) /\ \A y \in Zones : y # z => zoneQ'[y] = zoneQ[y]
  BY DEF Routes, TypeOK, StrandsTypeOK
<1>2. Owes'[z] = Owes[z]
  BY <1>1, OwesPost
<1>3. \A y \in Zones : y # z => Owes'[y] = Owes[y]
  BY <1>1 DEF Owes, Pending
<1>4. Owes' = Owes
  BY <1>2, <1>3, OwesType
<1> QED BY <1>4 DEF Routes, SameZones, DirectoryVars

LEMMA RelocatesRefines ==
  ASSUME TypeOK, NEW c \in Clients, NEW to \in Zones \cup {"gone"}, Relocates(c, to)
  PROVE  D!Move(c, to)
<1> DEFINE from == currentZone[c]
<1>1. /\ from \in Zones \cup {Nowhere} /\ Place[c] = from /\ from \notin {"new", "gone"}
      /\ to \in (liveZones \ {from}) \cup {"gone"} /\ to # from
  BY PlacesDiffer DEF Relocates, Registered, Place, TypeOK
<1>2. ASSUME NEW z \in Zones
      PROVE  Owes'[z] = IF z \in liveZones \cap {from, to} THEN Owes[z] \cup {c} ELSE Owes[z]
  <2>1. ZonePacket(c) # ZoneAdd(c) /\ ZonePacket(c) # ZoneRemove(c)
    BY HandlersDiffer
  <2>2. CASE z = from /\ z \in liveZones
    <3>1. zoneQ'[z] = Append(zoneQ[z], ZoneRemove(c))
      BY <1>1, <2>2 DEF Relocates
    <3> QED BY <2>1, <2>2, <3>1, OwesPost
  <2>3. CASE z # from /\ z = to
    <3>1. zoneQ'[z] = Append(zoneQ[z], ZoneAdd(c)) /\ z \in liveZones
      BY <1>1, <2>3, PlacesDiffer DEF Relocates
    <3> QED BY <2>1, <2>3, <3>1, OwesPost
  <2>4. CASE z # to /\ ~(z = from /\ z \in liveZones)
    <3>1. zoneQ'[z] = zoneQ[z]
      BY <2>4 DEF Relocates
    <3>2. Owes'[z] = Owes[z]
      BY <3>1 DEF Owes, Pending
    <3> QED BY <2>4, <3>2
  <2> QED BY <1>1, <2>2, <2>3, <2>4
<1>3. Owes' = [z \in Zones |->
                 IF z \in liveZones \cap {from, to} THEN Owes[z] \cup {c} ELSE Owes[z]]
  BY <1>2, OwesType
<1> QED BY <1>1, <1>3 DEF Relocates, SameZones, D!Move, D!New, D!Gone

\* A zone that runs an add or a remove makes one change it owes, and is right
\* about the client if that was the last.
LEMMA WorksRefines ==
  ASSUME TypeOK, FitInv, ZonesInv', NEW z \in Zones, Works(z)
  PROVE  UNCHANGED DirectoryVars \/ \E c \in Clients : D!Apply(z, c)
<1> USE DEF TypeOK, StrandsTypeOK, ZoneTypeOK
<1> DEFINE q == zoneQ[z]  S == zoneClients[z]  h == Head(q)  r == Tail(q)
           T == ClientsAfter(h, S)
<1>1. /\ z \in liveZones /\ q # <<>> /\ q \in Seq(ZoneHandlers) /\ h \in ZoneHandlers
      /\ r \in Seq(ZoneHandlers) /\ ZoneTick \in ZoneHandlers
  BY TailIndex DEF Works, ZoneTick, ZoneHandlers
<1>2. /\ zoneQ'[z] = r \/ zoneQ'[z] = Append(r, ZoneTick)
      /\ zoneClients' = [zoneClients EXCEPT ![z] = T]
      /\ \A y \in Zones : y # z => zoneQ'[y] = zoneQ[y]
      /\ UNCHANGED <<Place, liveZones>>
  BY DEF Works
<1>3. \A y \in Zones : y # z => Owes'[y] = Owes[y]
  BY <1>2 DEF Owes, Pending
<1>4. ASSUME NEW d \in Clients
      PROVE  /\ d \in Owes[z] <=> \/ h = ZoneAdd(d) \/ h = ZoneRemove(d)
                                  \/ d \in Owes'[z]
             /\ d \in Owes'[z] <=> Pending(r, ZoneAdd(d)) \/ Pending(r, ZoneRemove(d))
  <2>1. /\ Pending(q, ZoneAdd(d)) <=> h = ZoneAdd(d) \/ Pending(r, ZoneAdd(d))
        /\ Pending(q, ZoneRemove(d)) <=> h = ZoneRemove(d) \/ Pending(r, ZoneRemove(d))
    BY <1>1, PendingTail
  <2>2. ZoneTick # ZoneAdd(d) /\ ZoneTick # ZoneRemove(d)
    BY HandlersDiffer
  <2>3. /\ Pending(zoneQ'[z], ZoneAdd(d)) <=> Pending(r, ZoneAdd(d))
        /\ Pending(zoneQ'[z], ZoneRemove(d)) <=> Pending(r, ZoneRemove(d))
    <3> HIDE DEF r
    <3>1. /\ Pending(Append(r, ZoneTick), ZoneAdd(d)) <=> Pending(r, ZoneAdd(d))
          /\ Pending(Append(r, ZoneTick), ZoneRemove(d)) <=> Pending(r, ZoneRemove(d))
      BY <1>1, <2>2, PendingAppend
    <3> QED BY <1>2, <3>1
  <2> QED BY <2>1, <2>3, OwesIs
<1>5. CASE h.op \notin {"add", "remove"}
  <2>1. T = S
    BY <1>5 DEF ClientsAfter
  <2>2. \A d \in Clients : h # ZoneAdd(d) /\ h # ZoneRemove(d)
    BY <1>5 DEF ZoneAdd, ZoneRemove
  <2>3. Owes'[z] = Owes[z]
    BY <1>4, <2>2, OwesType
  <2>4. Owes' = Owes
    BY <1>3, <2>3, OwesType
  <2> QED BY <1>2, <2>1, <2>4 DEF DirectoryVars
<1>6. CASE h.op \in {"add", "remove"}
  <2>1. PICK c \in Clients : h = ZoneAdd(c) \/ h = ZoneRemove(c)
    <3>1. h.client \in Clients /\ (h = ZoneAdd(h.client) \/ h = ZoneRemove(h.client))
      BY <1>1, <1>6, HandlerIs DEF ZoneHandlers
    <3> QED BY <3>1
  <2>2. \A d \in Clients : d # c => h # ZoneAdd(d) /\ h # ZoneRemove(d)
    <3> HIDE DEF h
    <3>1. \A d \in Clients : /\ ZoneAdd(c) = ZoneAdd(d) <=> c = d
                             /\ ZoneRemove(c) = ZoneRemove(d) <=> c = d
                             /\ ZoneAdd(c) # ZoneRemove(d) /\ ZoneAdd(d) # ZoneRemove(c)
      BY HandlersDiffer
    <3> QED BY <2>1, <3>1
  <2>3. T = IF c \in S THEN S \ {c} ELSE S \cup {c}
    <3>1. /\ h = ZoneAdd(c) => c \notin S
          /\ h = ZoneRemove(c) => c \in S
      BY <1>1, <2>1, FitHead DEF FitInv
    <3>2. /\ h = ZoneAdd(c) => h.op = "add" /\ h.client = c
          /\ h = ZoneRemove(c) => h.op = "remove" /\ h.client = c
      BY DEF ZoneAdd, ZoneRemove
    <3> QED BY <2>1, <3>1, <3>2 DEF ClientsAfter
  <2>4. c \in Owes[z]
    BY <1>4, <2>1
  <2>5. \A d \in Clients : d # c => (d \in Owes'[z] <=> d \in Owes[z])
    BY <1>4, <2>2
  <2>6. zoneClients' = [zoneClients EXCEPT ![z] = IF c \in @ THEN @ \ {c} ELSE @ \cup {c}]
    BY <1>2, <2>3
  <2>7. CASE c \in Owes'[z]
    <3>1. Owes'[z] = Owes[z]
      <4>1. \A d \in Clients : d \in Owes'[z] <=> d \in Owes[z]
        BY <2>4, <2>5, <2>7
      <4> QED BY <4>1, OwesType
    <3>2. Owes' = Owes
      BY <1>3, <3>1, OwesType
    <3> QED BY <1>1, <1>2, <2>1, <2>4, <2>6, <3>2 DEF D!Apply
  <2>8. CASE c \notin Owes'[z]
    <3>1. Owes' = [Owes EXCEPT ![z] = @ \ {c}]
      <4>1. Owes'[z] = Owes[z] \ {c}
        BY <2>5, <2>8, OwesType
      <4> QED BY <1>3, <4>1, OwesType
    <3>2. c \in zoneClients'[z] <=> Place[c] = z
      <4>1. ~Pending(zoneQ'[z], ZoneAdd(c)) /\ ~Pending(zoneQ'[z], ZoneRemove(c))
        BY <2>1, <2>8, OwesIs
      <4>2. WillBeIn(z, c)' <=> currentZone'[c] = z
        <5>1. Routing(z)'
          BY <1>1, <1>2 DEF ZonesInv
        <5> QED BY <2>1, <5>1 DEF Routing
      <4>3. Len(zoneQ'[z]) \in Nat
        <5>1. Append(r, ZoneTick) \in Seq(ZoneHandlers)
          BY <1>1, AppendIndex
        <5> HIDE DEF r
        <5> QED BY <1>1, <1>2, <5>1
      <4>4. WillBeIn(z, c)' <=> c \in zoneClients'[z]
        <5> QED BY <4>1, <4>3 DEF WillBeIn, MemberBefore, Pending
      <4>5. Place'[c] = z <=> currentZone'[c] = z
        BY <2>1, PlacesDiffer DEF Place, Registered
      <4> QED BY <1>2, <4>2, <4>4, <4>5
    <3> QED BY <1>1, <1>2, <2>1, <2>4, <2>6, <3>1, <3>2 DEF D!Apply
  <2> QED BY <2>7, <2>8
<1> QED BY <1>5, <1>6

\* Server, with any clients and zones and whatever clients send and whenever it
\* is stopped, implements Directory.
THEOREM ServerImplementsDirectory == Spec => ImplementsDirectory
<1>1. ASSUME Init PROVE D!Init
  <2>1. \A h : ~Pending(<<>>, h)
    BY DEF Pending
  <2> QED BY <1>1, <2>1 DEF Init, ClientInit, ZoneInit, Place, Owes, Registered, D!Init, D!New
<1>2. ASSUME TypeOK, RegistrationInv, FitInv, ZonesInv', [Next]_vars
      PROVE  [D!Next]_(D!vars)
  <2> USE DEF D!Next, D!vars
  <2>1. CASE Idles
    BY <2>1, OwesSame DEF Idles, SameZones
  <2>2. CASE Closes
    BY <2>2, OwesSame DEF Closes, D!Close
  <2>3. ASSUME NEW c \in Clients, Registers(c) PROVE D!Next
    BY <2>3, RegistersRefines
  <2>4. ASSUME NEW c \in Clients, NEW to \in Zones \cup {"gone"}, Relocates(c, to) PROVE D!Next
    BY <1>2, <2>4, RelocatesRefines DEF D!Gone
  <2>5. ASSUME NEW z \in Zones, Works(z) PROVE [D!Next]_(D!vars)
    BY <1>2, <2>5, WorksRefines DEF DirectoryVars
  <2>6. ASSUME NEW z \in Zones, NEW c \in Clients, Routes(c, z) PROVE UNCHANGED D!vars
    BY <1>2, <2>6, RoutesRefines DEF DirectoryVars
  <2> QED BY <1>2, <2>1, <2>2, <2>3, <2>4, <2>5, <2>6, StepKinds
<1> QED BY <1>1, <1>2, TypeCorrect, RegistrationHolds, ZonesHold, HandlersAlwaysFit, PTL
        DEF Spec, ImplementsDirectory, D!Spec
-----------------------------------------------------------------------------
(***************************************************************************)
(* What the directory promises, and so the server keeps.                   *)
(***************************************************************************)
\* A step of the directory leaves open zones that owe nothing right.
LEMMA DirectorySettles ==
  ASSUME TypeOK, D!Settled, [D!Next]_(D!vars)
  PROVE  D!Settled'
<1> USE DEF TypeOK, ZoneTypeOK, D!Settled
<1>1. Owes \in [Zones -> SUBSET Clients] /\ Place \in [Clients -> {Place[c] : c \in Clients}]
  BY OwesType DEF Place
<1>2. ASSUME NEW c \in Clients, D!Register(c) PROVE D!Settled'
  <2>1. \A z \in Zones : Place[c] # z /\ Place'[c] # z
    BY <1>1, <1>2, ServerDirectoryAssumption, PlacesDiffer DEF D!Register, D!New, D!Nowhere, Nowhere
  <2> QED BY <1>1, <1>2, <2>1 DEF D!Register
<1>3. ASSUME NEW c \in Clients, NEW to, D!Move(c, to) PROVE D!Settled'
  BY <1>1, <1>3 DEF D!Move
<1>4. ASSUME NEW c \in Clients, NEW z \in Zones, D!Apply(z, c) PROVE D!Settled'
  <2>1. ASSUME NEW y \in liveZones', NEW d \in Clients, d \notin Owes'[y], ~(y = z /\ d = c)
        PROVE  d \in zoneClients'[y] <=> Place'[d] = y
    BY <1>1, <1>4, <2>1 DEF D!Apply
  <2>2. c \notin Owes'[z] => (c \in zoneClients'[z] <=> Place'[c] = z)
    BY <1>1, <1>4 DEF D!Apply
  <2> QED BY <2>1, <2>2
<1>5. CASE D!Close \/ UNCHANGED D!vars
  BY <1>5 DEF D!Close, D!vars
<1> QED BY <1>2, <1>3, <1>4, <1>5 DEF D!Next

\* An open zone with no add or remove handler of a client on its strand has the
\* client exactly when the server sends the client's packets to it.
THEOREM ZonesSettle == Spec => []D!Settled
<1>1. D!Init => D!Settled
  BY ServerDirectoryAssumption, PlacesDiffer DEF D!Init, D!Settled, D!New
<1>2. TypeOK /\ D!Settled /\ [D!Next]_(D!vars) => D!Settled'
  BY DirectorySettles
<1> QED BY <1>1, <1>2, TypeCorrect, ServerImplementsDirectory, PTL DEF ImplementsDirectory, D!Spec
=============================================================================
