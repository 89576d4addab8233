---------------------------- MODULE PlayerProofs ----------------------------
(***************************************************************************)
(* The theorems about players.  A polite client, one that joins once and   *)
(* enters zones only when welcomed, has its player wherever it is; of a    *)
(* rude one, which may do both whenever it likes, only what it takes to    *)
(* make the process fail and to leave an entity behind is said.            *)
(***************************************************************************)
EXTENDS ServerProofs

\* A handler of the given kind for client c waits in queue q.
Sent(q, op, c) == \E i \in 1..Len(q) : q[i].op = op /\ q[i].client = c

\* There is one at most.
SentOnce(q, op, c) ==
  \A i, j \in 1..Len(q) :
    (q[i].op = op /\ q[i].client = c /\ q[j].op = op /\ q[j].client = c) => i = j

\* What the remote side knows is what the server is still to do: one request,
\* queued or suspended, until the answer; and from then on a player.
JoinsOnce(q, c) ==
  /\ dialogue[c] = "new" => ~Sent(q, "join", c) /\ joining[c] = 0
  /\ dialogue[c] = "asked" => /\ SentOnce(q, "join", c)
                              /\ joining[c] # 0 => joining[c] = 1 /\ ~Sent(q, "join", c)
  /\ dialogue[c] = "welcomed" => /\ ~Sent(q, "join", c) /\ joining[c] = 0
                                 /\ player[c] # 0
  /\ Sent(q, "enter", c) => dialogue[c] = "welcomed"

\* In a zone, or on its way into one.
Inside(c) ==
  \/ currentZone[c] \in Zones
  \/ \E z \in Zones : c \in zoneClients[z] \/ Sent(zoneQ[z], "add", c)

\* One player was loaded for the client at most, and it still has it.
FirstPlayer(c) == c \in Rude => loads[c] \in {0, 1} /\ player[c] = loads[c]

EntitiesOf(z, c) == {e \in entities[z] : e[1] = c}

EntitiesAre(z) ==
  \A c \in Clients :
    /\ c \in zoneClients[z] => loads[c] # 0
    /\ FirstPlayer(c) =>
         EntitiesOf(z, c) = IF c \in zoneClients[z] THEN {PlayerEntity(c)} ELSE {}

\* The inductive invariant behind NoNullPlayer and NoGhostEntities.
PlayersInv ==
  /\ \A c \in Clients \ Rude : JoinsOnce(serverQ, c)
  /\ \A c \in Clients \ Rude : Inside(c) => dialogue[c] = "welcomed"
  /\ \A c \in Clients : player[c] # 0 => loads[c] # 0
  /\ \A z \in Zones : EntitiesAre(z)
  /\ crashed = "null_player" => \E c \in Rude : player[c] = 0

\* No join or enter request is posted, and none that was is posted twice.
Fewer(q, r) ==
  \A c \in Clients :
    /\ Sent(r, "join", c) => Sent(q, "join", c)
    /\ Sent(r, "enter", c) => Sent(q, "enter", c)
    /\ SentOnce(q, "join", c) => SentOnce(r, "join", c)

\* Posting one more.
LEMMA SentAppend ==
  ASSUME NEW S, NEW q \in Seq(S), NEW h \in S, NEW op, NEW c
  PROVE  /\ Sent(Append(q, h), op, c) <=> Sent(q, op, c) \/ (h.op = op /\ h.client = c)
         /\ SentOnce(q, op, c) /\ (h.op = op /\ h.client = c => ~Sent(q, op, c))
              => SentOnce(Append(q, h), op, c)
<1> DEFINE r == Append(q, h)
<1>1. Len(q) \in Nat /\ Len(r) = Len(q) + 1 /\ r[Len(q) + 1] = h
      /\ \A i \in 1..Len(q) : r[i] = q[i]
  BY AppendIndex
<1> HIDE DEF r
<1>2. Sent(r, op, c) <=> Sent(q, op, c) \/ (h.op = op /\ h.client = c)
  BY <1>1 DEF Sent
<1>3. ASSUME SentOnce(q, op, c), h.op = op /\ h.client = c => ~Sent(q, op, c),
             NEW i \in 1..Len(r), NEW j \in 1..Len(r),
             r[i].op = op /\ r[i].client = c, r[j].op = op /\ r[j].client = c
      PROVE  i = j
  <2>1. CASE i = Len(q) + 1 \/ j = Len(q) + 1
    BY <1>1, <1>3, <2>1 DEF Sent
  <2>2. CASE i \in 1..Len(q) /\ j \in 1..Len(q)
    BY <1>1, <1>3, <2>2 DEF SentOnce
  <2> QED BY <1>1, <2>1, <2>2
<1>4. SentOnce(q, op, c) /\ (h.op = op /\ h.client = c => ~Sent(q, op, c)) => SentOnce(r, op, c)
  BY <1>3 DEF SentOnce
<1> QED BY <1>2, <1>4 DEF r

\* Running the head.
LEMMA SentTail ==
  ASSUME NEW S, NEW q \in Seq(S), q # <<>>, NEW op, NEW c
  PROVE  /\ Sent(Tail(q), op, c) => Sent(q, op, c)
         /\ Head(q).op = op /\ Head(q).client = c => Sent(q, op, c)
         /\ SentOnce(q, op, c) => /\ SentOnce(Tail(q), op, c)
                                  /\ Head(q).op = op /\ Head(q).client = c =>
                                       ~Sent(Tail(q), op, c)
<1> DEFINE r == Tail(q)  n == Len(q)  Is(h) == h.op = op /\ h.client = c
<1>1. /\ n \in Nat \ {0} /\ Len(r) = n - 1 /\ q[1] = Head(q)
      /\ \A i \in 1..(n - 1) : r[i] = q[i + 1]
  BY TailIndex
<1> HIDE DEF r
<1>2. \A i \in 1..Len(r) : i + 1 \in 1..n /\ r[i] = q[i + 1]
  BY <1>1
<1>3. Sent(r, op, c) => Sent(q, op, c)
  BY <1>2 DEF Sent
<1>4. Is(Head(q)) => Sent(q, op, c)
  BY <1>1 DEF Sent
<1>5. ASSUME SentOnce(q, op, c), NEW i \in 1..Len(r), NEW j \in 1..Len(r), Is(r[i]), Is(r[j])
      PROVE  i = j
  <2>1. i + 1 = j + 1
    BY <1>2, <1>5 DEF SentOnce
  <2> QED BY <1>1, <2>1
<1>6. ASSUME SentOnce(q, op, c), Is(Head(q)), NEW i \in 1..Len(r), Is(r[i]) PROVE FALSE
  <2>1. i + 1 = 1
    BY <1>1, <1>2, <1>6 DEF SentOnce
  <2> QED BY <1>1, <2>1
<1>7. SentOnce(q, op, c) => SentOnce(r, op, c) /\ (Is(Head(q)) => ~Sent(r, op, c))
  BY <1>5, <1>6 DEF SentOnce, Sent
<1> QED BY <1>3, <1>4, <1>7 DEF r

\* An empty queue.
LEMMA NothingSent ==
  ASSUME NEW q, q = <<>>, NEW op, NEW c
  PROVE  ~Sent(q, op, c)
  BY DEF Sent

\* A tick adds nobody.
LEMMA SentTick ==
  ASSUME NEW q \in Seq(ZoneHandlers), NEW c
  PROVE  Sent(Append(q, ZoneTick), "add", c) => Sent(q, "add", c)
<1>1. ZoneTick \in ZoneHandlers /\ ZoneTick.op # "add"
  BY DEF ZoneTick, ZoneHandlers
<1> QED BY <1>1, SentAppend

\* Posting anything but a join or an enter request.
LEMMA FewerAppend ==
  ASSUME NEW q \in Seq(ServerHandlers), NEW h \in ServerHandlers, h.op \notin {"join", "enter"}
  PROVE  Fewer(q, Append(q, h))
  BY SentAppend DEF Fewer

\* Running the head.
LEMMA FewerTail ==
  ASSUME NEW q \in Seq(ServerHandlers), q # <<>>
  PROVE  Fewer(q, Tail(q))
  BY SentTail DEF Fewer

\* A handler of the server strand that refuses its client, or does not.
LEMMA FewerHandled ==
  ASSUME StrandsTypeOK, serverQ # <<>>, NEW c \in Clients, Done \/ Refuse(c)
  PROVE  serverQ' = Rest /\ Fewer(Rest, serverQ') /\ Fewer(serverQ, serverQ')
<1>1. serverQ \in Seq(ServerHandlers) /\ serverQ' = Rest
  BY DEF StrandsTypeOK, Refuse, Done
<1>2. Fewer(serverQ, Rest) /\ Fewer(Rest, Rest)
  BY <1>1, FewerTail DEF Rest, Fewer
<1> QED BY <1>1, <1>2

\* Clients whose side of the dialogue, requests and player stay as they are.
LEMMA JoinsSame ==
  ASSUME NEW c \in Clients, NEW q, JoinsOnce(q, c), Fewer(q, serverQ'),
         dialogue'[c] = dialogue[c], joining'[c] = joining[c], player'[c] = player[c]
  PROVE  JoinsOnce(serverQ, c)'
  BY DEF JoinsOnce, Fewer

\* Steps of the server that neither move nor load a player.
LEMMA PlayersSame ==
  ASSUME PlayersInv, UNCHANGED <<dialogue, joining, player, loads, zoneClients, entities>>,
         \A d \in Clients : Inside(d)' => Inside(d),
         Fewer(serverQ, serverQ'), crashed' # "null_player"
  PROVE  PlayersInv'
<1>1. \A d \in Clients \ Rude : JoinsOnce(serverQ, d)'
  BY JoinsSame DEF PlayersInv
<1>2. \A z \in Zones : EntitiesAre(z)'
  BY DEF PlayersInv, EntitiesAre, EntitiesOf, FirstPlayer, PlayerEntity
<1> QED BY <1>1, <1>2 DEF PlayersInv

\* Posting to a zone what adds nobody to it.
LEMMA InsidePost ==
  ASSUME StrandsTypeOK, NEW y \in Zones, NEW h \in ZoneHandlers, h.op # "add", Post(y, h),
         UNCHANGED zoneClients,
         \A d \in Clients : currentZone'[d] \in Zones => currentZone'[d] = currentZone[d]
  PROVE  \A d \in Clients : Inside(d)' => Inside(d)
<1>1. \A z \in Zones, d \in Clients : Sent(zoneQ'[z], "add", d) => Sent(zoneQ[z], "add", d)
  <2>1. \A z \in Zones : zoneQ[z] \in Seq(ZoneHandlers)
    BY DEF StrandsTypeOK
  <2>2. \A z \in Zones : zoneQ'[z] = IF z = y THEN Append(zoneQ[z], h) ELSE zoneQ[z]
    BY DEF Post, StrandsTypeOK
  <2> QED BY <2>1, <2>2, SentAppend
<1> QED BY <1>1 DEF Inside

\* A handler of a zone finds the players it needs.
LEMMA PlayersRun ==
  ASSUME TypeOK, PlayersInv, crashed # "null_player", NEW z \in Zones, ZoneRuns(z)
  PROVE  PlayersInv'
<1> USE DEF TypeOK, StrandsTypeOK, ClientTypeOK, ZoneTypeOK
<1> DEFINE h == Head(zoneQ[z])  q == zoneQ[z]
<1>1. UNCHANGED <<clientVars, serverQ, currentZone>>
  BY DEF ZoneRuns, ZoneStep, Add, Remove, Packet, Tick, DestroyedZone, NullPlayer,
         ZoneElsewhere
<1>2. \A d \in Clients \ Rude : JoinsOnce(serverQ, d)'
  BY <1>1 DEF JoinsOnce, PlayersInv, clientVars
<1>3. \A d \in Clients : Inside(d) /\ player[d] = 0 => d \in Rude
  BY DEF PlayersInv, JoinsOnce
<1>4. ASSUME UNCHANGED <<zoneQ, zoneVars>>,
             crashed' = "null_player" => \E d \in Rude : player[d] = 0
      PROVE  PlayersInv'
  <2>1. \A d \in Clients : Inside(d)' => Inside(d)
    BY <1>1, <1>4 DEF Inside, zoneVars
  <2>2. \A y \in Zones : EntitiesAre(y)'
    BY <1>1, <1>4
      DEF EntitiesAre, EntitiesOf, FirstPlayer, PlayerEntity, PlayersInv, clientVars, zoneVars
  <2>3. dialogue' = dialogue /\ player' = player /\ loads' = loads
    BY <1>1 DEF clientVars
  <2> QED BY <1>2, <1>4, <2>1, <2>2, <2>3 DEF PlayersInv
<1>5. ASSUME NullPlayer, NEW d \in Clients, Inside(d), player[d] = 0 PROVE PlayersInv'
  BY <1>3, <1>4, <1>5 DEF NullPlayer
<1>14. CASE DestroyedZone(z)
  BY <1>4, <1>14 DEF DestroyedZone
<1>6. ASSUME q # <<>>, Finish(z) \/ Reposting(z, <<ZoneTick>>)
      PROVE  \A y \in Zones, d \in Clients : Sent(zoneQ'[y], "add", d) => Sent(zoneQ[y], "add", d)
  <2>1. q \in Seq(ZoneHandlers) /\ ZoneTick \in ZoneHandlers
    BY DEF ZoneTick, ZoneHandlers
  <2>2. Tail(q) \in Seq(ZoneHandlers)
    BY <1>6, <2>1, TailIndex
  <2>3. zoneQ'[z] = Tail(q) \/ zoneQ'[z] = Append(Tail(q), ZoneTick)
    <3> DEFINE r == Tail(q)
    <3>1. r \o <<>> = r /\ r \o <<ZoneTick>> = Append(r, ZoneTick)
      BY <2>1, <2>2, RepostingIs
    <3>2. \/ zoneQ' = [zoneQ EXCEPT ![z] = r]
          \/ zoneQ' = [zoneQ EXCEPT ![z] = Append(r, ZoneTick)]
      BY <1>6, <3>1 DEF Finish, Reposting
    <3> HIDE DEF r
    <3>3. zoneQ'[z] = r \/ zoneQ'[z] = Append(r, ZoneTick)
      BY <3>2
    <3> QED BY <3>3 DEF r
  <2>4. \A y \in Zones : y # z => zoneQ'[y] = zoneQ[y]
    BY <1>6 DEF Finish, Reposting
  <2>5. ASSUME NEW d \in Clients
        PROVE  /\ Sent(Tail(q), "add", d) => Sent(q, "add", d)
               /\ Sent(Append(Tail(q), ZoneTick), "add", d) => Sent(Tail(q), "add", d)
    <3>1. Sent(Tail(q), "add", d) => Sent(q, "add", d)
      BY <1>6, <2>1, SentTail
    <3>2. Sent(Append(Tail(q), ZoneTick), "add", d) => Sent(Tail(q), "add", d)
      BY <2>2, SentTick
    <3> QED BY <3>1, <3>2
  <2> HIDE DEF q
  <2> QED BY <2>3, <2>4, <2>5 DEF q
<1>7. ASSUME NEW op, Runs(z, op), op # "tick"
      PROVE  q # <<>> /\ h.client \in Clients /\ h.op = op
  <2>1. h \in ZoneHandlers /\ q # <<>>
    BY <1>7, TailIndex DEF Runs
  <2> QED BY <1>7, <2>1 DEF Runs, ZoneHandlers
<1>8. ASSUME q # <<>>, Finish(z) \/ Reposting(z, <<ZoneTick>>), EntitiesAre(z)', UNCHANGED crashed,
             crashed # "null_player",
             \A y \in Zones : y # z => /\ zoneClients'[y] = zoneClients[y]
                                       /\ entities'[y] = entities[y],
             \A d \in zoneClients'[z] : d \in zoneClients[z] \/ Inside(d)
      PROVE  PlayersInv'
  <2>1. \A d \in Clients : Inside(d)' => Inside(d)
    BY <1>1, <1>6, <1>8 DEF Inside
  <2>2. \A y \in Zones : y # z => EntitiesAre(y)'
    BY <1>1, <1>8
      DEF EntitiesAre, EntitiesOf, FirstPlayer, PlayerEntity, PlayersInv, clientVars
  <2>3. dialogue' = dialogue /\ player' = player /\ loads' = loads
    BY <1>1 DEF clientVars
  <2> QED BY <1>2, <1>8, <2>1, <2>2, <2>3 DEF PlayersInv
<1>9. player' = player /\ loads' = loads /\ EntitiesAre(z)
  BY <1>1 DEF clientVars, PlayersInv
<1>10. CASE Add(z)
  <2> DEFINE c == h.client
  <2>1. Runs(z, "add") /\ q # <<>> /\ c \in Clients /\ h.op = "add"
    BY <1>7, <1>10 DEF Add
  <2>2. Inside(c)
    <3>1. Sent(q, "add", c)
      BY <2>1, SentTail
    <3> QED BY <3>1 DEF Inside
  <2>3. \A d \in zoneClients[z] \cup {c} : d \in Clients /\ Inside(d)
    BY <2>1, <2>2 DEF Inside
  <2>4. CASE \E d \in zoneClients[z] \cup {c} : player[d] = 0
    BY <1>5, <1>10, <2>3, <2>4 DEF Add
  <2> SUFFICES ASSUME \A d \in zoneClients[z] \cup {c} : player[d] # 0
               PROVE  PlayersInv'
    BY <2>4
  <2>5. /\ zoneClients' = [zoneClients EXCEPT ![z] = @ \cup {c}]
        /\ entities' = [entities EXCEPT ![z] = @ \cup {PlayerEntity(c)}]
        /\ UNCHANGED crashed
        /\ Start(z) \/ Finish(z)
    BY <1>10 DEF Add
  <2>6. Finish(z) \/ Reposting(z, <<ZoneTick>>)
    BY <2>5 DEF Start, Finish
  <2>7. zoneClients'[z] = zoneClients[z] \cup {c}
        /\ entities'[z] = entities[z] \cup {PlayerEntity(c)}
    BY <2>5
  <2>8. EntitiesAre(z)'
    <3>1. ASSUME NEW d \in Clients
          PROVE  EntitiesOf(z, d)' = IF d = c THEN EntitiesOf(z, d) \cup {PlayerEntity(d)}
                                              ELSE EntitiesOf(z, d)
      BY <2>7 DEF EntitiesOf, PlayerEntity
    <3>2. loads[c] # 0
      BY <2>1 DEF PlayersInv
    <3> QED BY <1>9, <2>7, <3>1, <3>2 DEF EntitiesAre, FirstPlayer, PlayerEntity
  <2>9. \A y \in Zones : y # z => zoneClients'[y] = zoneClients[y] /\ entities'[y] = entities[y]
    BY <2>5
  <2> QED BY <1>8, <2>1, <2>3, <2>5, <2>6, <2>7, <2>8, <2>9
<1>11. CASE Remove(z)
  <2> DEFINE c == h.client
  <2>1. Runs(z, "remove") /\ q # <<>> /\ c \in Clients
    BY <1>7, <1>11 DEF Remove
  <2>2. CASE c \in zoneClients[z] /\ player[c] = 0
    <3>1. Inside(c)
      BY <2>2 DEF Inside
    <3> QED BY <1>5, <1>11, <2>1, <2>2, <3>1 DEF Remove
  <2> SUFFICES ASSUME ~(c \in zoneClients[z] /\ player[c] = 0) PROVE PlayersInv'
    BY <2>2
  <2>3. /\ zoneClients' = [zoneClients EXCEPT ![z] = @ \ {c}]
        /\ entities' = [entities EXCEPT ![z] =
             IF c \in zoneClients[z] THEN @ \ {PlayerEntity(c)} ELSE @]
        /\ UNCHANGED crashed /\ Finish(z)
    BY <1>11 DEF Remove
  <2>4. /\ zoneClients'[z] = zoneClients[z] \ {c}
        /\ entities'[z] = IF c \in zoneClients[z] THEN entities[z] \ {PlayerEntity(c)}
                                                  ELSE entities[z]
    BY <2>3
  <2>5. EntitiesAre(z)'
    <3>1. ASSUME NEW d \in Clients
          PROVE  EntitiesOf(z, d)' = IF d = c /\ c \in zoneClients[z]
                                       THEN EntitiesOf(z, d) \ {PlayerEntity(d)}
                                       ELSE EntitiesOf(z, d)
      BY <2>4 DEF EntitiesOf, PlayerEntity
    <3> QED BY <1>9, <2>4, <3>1 DEF EntitiesAre, FirstPlayer, PlayerEntity
  <2>6. \A y \in Zones : y # z => zoneClients'[y] = zoneClients[y] /\ entities'[y] = entities[y]
    BY <2>3
  <2> QED BY <1>8, <2>1, <2>3, <2>4, <2>5, <2>6
<1>12. CASE Packet(z)
  <2> DEFINE c == h.client
  <2>1. Runs(z, "packet") /\ q # <<>> /\ c \in Clients
    BY <1>7, <1>12 DEF Packet
  <2>2. CASE c \in zoneClients[z] /\ player[c] = 0
    <3>1. Inside(c)
      BY <2>2 DEF Inside
    <3> QED BY <1>5, <1>12, <2>1, <2>2, <3>1 DEF Packet
  <2> SUFFICES ASSUME ~(c \in zoneClients[z] /\ player[c] = 0) PROVE PlayersInv'
    BY <2>2
  <2>3. Finish(z) /\ UNCHANGED <<zoneClients, entities, crashed>>
    BY <1>12 DEF Packet
  <2>4. EntitiesAre(z)'
    BY <1>9, <2>3 DEF EntitiesAre, EntitiesOf, FirstPlayer, PlayerEntity
  <2> QED BY <1>8, <2>1, <2>3, <2>4
<1>13. CASE Tick(z)
  <2>1. q # <<>> /\ UNCHANGED <<zoneClients, entities, crashed>>
        /\ (Finish(z) \/ Reposting(z, <<ZoneTick>>))
    BY <1>13 DEF Tick, Runs, Finish
  <2>2. EntitiesAre(z)'
    BY <1>9, <2>1 DEF EntitiesAre, EntitiesOf, FirstPlayer, PlayerEntity
  <2> QED BY <1>8, <2>1, <2>2
<1> QED BY <1>14, <1>10, <1>11, <1>12, <1>13 DEF ZoneRuns, ZoneStep

\* The dialogue that the requests and the zone of a polite client tell of.
LEMMA DialogueIs ==
  ASSUME TypeOK, PlayersInv, NEW c \in Clients \ Rude
  PROVE  /\ Sent(serverQ, "join", c) => dialogue[c] = "asked" /\ joining[c] = 0
         /\ joining[c] > 0 => /\ dialogue[c] = "asked" /\ joining[c] = 1
                              /\ ~Sent(serverQ, "join", c)
         /\ dialogue[c] # "welcomed" => /\ ~Inside(c)
                                        /\ \A z \in Zones : c \notin zoneClients[z]
<1>1. JoinsOnce(serverQ, c) /\ (Inside(c) => dialogue[c] = "welcomed")
  BY DEF PlayersInv
<1>2. dialogue[c] \in {"new", "asked", "welcomed"} /\ joining[c] \in Nat
  BY DEF TypeOK, ClientTypeOK
<1> QED BY <1>1, <1>2 DEF JoinsOnce, Inside

\* Loading a player for a client in no zone, or for one that had its first
\* player and loses it: the entities stay those of the others.
LEMMA LoadKeepsEntities ==
  ASSUME TypeOK, PlayersInv, NEW c \in Clients, NEW ok \in BOOLEAN, Load(c, ok),
         c \notin Rude => dialogue[c] # "welcomed",
         UNCHANGED <<zoneClients, entities>>, NEW z \in Zones
  PROVE  EntitiesAre(z)'
<1> USE DEF TypeOK, ClientTypeOK
<1>1. /\ \A d \in Clients : d # c => loads'[d] = loads[d] /\ player'[d] = player[d]
      /\ loads'[c] = IF ok THEN loads[c] + 1 ELSE loads[c]
      /\ player'[c] = IF ok THEN loads[c] + 1 ELSE 0
  BY DEF Load
<1>2. EntitiesAre(z) /\ (player[c] # 0 => loads[c] # 0)
  BY DEF PlayersInv
<1>3. c \in Rude /\ FirstPlayer(c)' => loads[c] = 0 /\ player[c] = 0
  BY <1>1, <1>2 DEF FirstPlayer
<1>4. FirstPlayer(c)' => FirstPlayer(c) /\ c \notin zoneClients[z]
  <2>1. CASE c \in Rude
    BY <1>2, <1>3, <2>1 DEF FirstPlayer, EntitiesAre
  <2>2. CASE c \notin Rude
    BY <2>2, DialogueIs DEF FirstPlayer
  <2> QED BY <2>1, <2>2
<1>5. ASSUME NEW d \in Clients, d \in zoneClients[z] PROVE loads'[d] # 0
  BY <1>1, <1>2, <1>5 DEF EntitiesAre
<1>6. ASSUME NEW d \in Clients, FirstPlayer(d)'
      PROVE  EntitiesOf(z, d) = IF d \in zoneClients[z] THEN {PlayerEntity(d)'} ELSE {}
  <2>1. CASE d = c
    BY <1>2, <1>4, <1>6, <2>1 DEF EntitiesAre
  <2>2. CASE d # c
    BY <1>1, <1>2, <1>6, <2>2 DEF EntitiesAre, FirstPlayer, PlayerEntity
  <2> QED BY <2>1, <2>2
<1>7. zoneClients'[z] = zoneClients[z] /\ \A d \in Clients : EntitiesOf(z, d)' = EntitiesOf(z, d)
  BY DEF EntitiesOf
<1> QED BY <1>5, <1>6, <1>7 DEF EntitiesAre

\* Steps by which one client asks, or is answered.
LEMMA PlayersAsk ==
  ASSUME TypeOK, PlayersInv, NEW c \in Clients, c \notin Rude => JoinsOnce(serverQ, c)',
         UNCHANGED <<zoneQ, zoneClients, entities, currentZone, crashed>>,
         crashed # "null_player",
         \A d \in Clients \ Rude : d # c => JoinsOnce(serverQ, d)' /\ dialogue'[d] = dialogue[d],
         c \notin Rude /\ dialogue[c] = "welcomed" => dialogue'[c] = "welcomed",
         \/ UNCHANGED <<player, loads>>
         \/ /\ \E ok \in BOOLEAN : Load(c, ok)
            /\ c \notin Rude => dialogue[c] # "welcomed"
  PROVE  PlayersInv'
<1>1. \A d \in Clients : Inside(d)' <=> Inside(d)
  BY DEF Inside
<1>2. \A d \in Clients \ Rude : Inside(d)' => dialogue'[d] = "welcomed"
  BY <1>1 DEF PlayersInv
<1>3. ASSUME NEW z \in Zones PROVE EntitiesAre(z)'
  <2>1. CASE UNCHANGED <<player, loads>>
    BY <2>1 DEF PlayersInv, EntitiesAre, EntitiesOf, FirstPlayer, PlayerEntity
  <2> QED BY <2>1, LoadKeepsEntities
<1>4. ASSUME NEW d \in Clients, player'[d] # 0 PROVE loads'[d] # 0
  BY <1>4 DEF PlayersInv, Load, TypeOK, ClientTypeOK
<1>5. \A d \in Clients \ Rude : JoinsOnce(serverQ, d)'
  OBVIOUS
<1> QED BY <1>2, <1>3, <1>4, <1>5 DEF PlayersInv

\* Each step keeps PlayersInv.
LEMMA PlayersStep ==
  ASSUME TypeOK, PlayersInv, crashed # "null_player", [Next]_vars
  PROVE  PlayersInv'
<1> USE DEF TypeOK, StrandsTypeOK, ClientTypeOK, ZoneTypeOK
<1>0. /\ serverQ \in Seq(ServerHandlers) /\ Fewer(serverQ, serverQ)
      /\ \A d \in Clients \ Rude : JoinsOnce(serverQ, d)
  BY DEF Fewer, PlayersInv
<1>1. ASSUME UNCHANGED <<dialogue, joining, player, loads, zoneClients, entities, currentZone,
                         zoneQ, crashed>>,
             Fewer(serverQ, serverQ')
      PROVE  PlayersInv'
  <2>1. \A d \in Clients : Inside(d)' => Inside(d)
    BY <1>1 DEF Inside
  <2> QED BY <1>1, <2>1, PlayersSame
<1>2. ASSUME NEW c \in Clients, Accept(c) PROVE PlayersInv'
  <2>1. AddClient(c) \in ServerHandlers /\ AddClient(c).op \notin {"join", "enter"}
    BY HandlerTypes, ServerHandlersDiffer
  <2>2. Fewer(serverQ, Append(serverQ, AddClient(c)))
    BY <1>0, <2>1, FewerAppend
  <2> QED BY <1>1, <1>2, <2>2 DEF Accept, zoneVars
<1>3. ASSUME NEW c \in Clients, NEW p \in Packets, PacketReceived(c, p),
             UNCHANGED <<zoneVars, currentZone, stopVars>>
      PROVE  PlayersInv'
  <2> DEFINE h == HandlePacket(c, p)
  <2>1. /\ UNCHANGED <<player, loads, joining, zoneQ, crashed, zoneClients, entities, currentZone>>
        /\ MaySend(c, p)
        /\ dialogue' = [dialogue EXCEPT ![c] = IF p.op = "join" THEN "asked" ELSE @]
    BY <1>3 DEF PacketReceived, zoneVars
  <2>2. CASE p.op = "invalid"
    <3>1. dialogue' = dialogue
      BY <2>1, <2>2
    <3>2. Fewer(serverQ, serverQ')
      BY <1>0, <1>3, <2>2 DEF PacketReceived
    <3> QED BY <1>1, <2>1, <3>1, <3>2
  <2>3. ASSUME p.op # "invalid"
        PROVE  h \in ServerHandlers /\ h.op = p.op /\ h.client = c
               /\ serverQ' = Append(serverQ, h)
    BY <1>3, <2>3, HandlerTypes DEF PacketReceived, HandlePacket
  <2> HIDE DEF h
  <2>4. CASE p.op \in {"ping", "zone_packet"}
    <3>1. Fewer(serverQ, serverQ')
      BY <1>0, <2>3, <2>4, FewerAppend
    <3>2. dialogue' = dialogue
      BY <2>1, <2>4
    <3> QED BY <1>1, <2>1, <3>1, <3>2
  <2>5. ASSUME p.op # "invalid", NEW d \in Clients, NEW op
        PROVE  /\ Sent(serverQ', op, d) <=> Sent(serverQ, op, d) \/ (p.op = op /\ c = d)
               /\ SentOnce(serverQ, op, d) /\ (p.op = op /\ c = d => ~Sent(serverQ, op, d))
                    => SentOnce(serverQ', op, d)
    <3> DEFINE r == Append(serverQ, h)
    <3>1. h \in ServerHandlers /\ h.op = p.op /\ h.client = c /\ serverQ' = r
      BY <2>3, <2>5
    <3>2. /\ Sent(r, op, d) <=> Sent(serverQ, op, d) \/ (h.op = op /\ h.client = d)
          /\ SentOnce(serverQ, op, d) /\ (h.op = op /\ h.client = d => ~Sent(serverQ, op, d))
               => SentOnce(r, op, d)
      BY <1>0, <3>1, SentAppend
    <3> HIDE DEF r
    <3> QED BY <3>1, <3>2
  <2>6. ASSUME p.op # "invalid", NEW d \in Clients, d # c
        PROVE  /\ d \notin Rude => JoinsOnce(serverQ, d)'
               /\ dialogue'[d] = dialogue[d]
    <3>1. dialogue'[d] = dialogue[d] /\ joining'[d] = joining[d] /\ player'[d] = player[d]
      BY <2>1, <2>6
    <3>2. /\ Sent(serverQ', "join", d) <=> Sent(serverQ, "join", d)
          /\ Sent(serverQ', "enter", d) <=> Sent(serverQ, "enter", d)
          /\ SentOnce(serverQ, "join", d) => SentOnce(serverQ', "join", d)
      BY <2>5, <2>6
    <3>3. d \notin Rude => JoinsOnce(serverQ, d)
      BY <1>0
    <3> QED BY <3>1, <3>2, <3>3 DEF JoinsOnce
  <2>9. CASE c \in Rude /\ p.op # "invalid"
    BY <2>1, <2>6, <2>9, PlayersAsk
  <2>7. CASE c \notin Rude /\ p.op = "join"
    <3>1. dialogue[c] = "new" /\ dialogue'[c] = "asked"
      BY <2>1, <2>7 DEF MaySend
    <3>2. ~Sent(serverQ, "join", c) /\ joining[c] = 0 /\ ~Sent(serverQ, "enter", c)
      BY <1>0, <2>7, <3>1 DEF JoinsOnce
    <3>3. SentOnce(serverQ, "join", c)
      BY <3>2 DEF Sent, SentOnce
    <3>4. SentOnce(serverQ', "join", c) /\ ~Sent(serverQ', "enter", c)
      BY <2>5, <2>7, <3>2, <3>3
    <3>5. JoinsOnce(serverQ, c)'
      BY <2>1, <3>1, <3>2, <3>4 DEF JoinsOnce
    <3> QED BY <2>1, <2>6, <2>7, <3>1, <3>5, PlayersAsk
  <2>8. CASE c \notin Rude /\ p.op = "enter"
    <3>1. dialogue[c] = "welcomed" /\ dialogue' = dialogue
      BY <2>1, <2>8 DEF MaySend
    <3>2. Sent(serverQ', "join", c) <=> Sent(serverQ, "join", c)
      BY <2>5, <2>8
    <3>3. JoinsOnce(serverQ, c)
      BY <1>0, <2>8
    <3>4. JoinsOnce(serverQ, c)'
      BY <2>1, <3>1, <3>2, <3>3 DEF JoinsOnce
    <3> QED BY <2>1, <2>6, <2>8, <3>1, <3>4, PlayersAsk
  <2> QED BY <2>2, <2>4, <2>7, <2>8, <2>9 DEF Packets, PacketOps
<1>4. ASSUME NEW c \in Clients, ClientStep(c) PROVE PlayersInv'
  <2>1. UNCHANGED <<zoneVars, currentZone, stopVars>>
    BY <1>4 DEF ClientStep
  <2>2. CASE \E p \in Sends[c] : PacketReceived(c, p)
    BY <1>3, <2>1, <2>2, ClientAssumption
  <2>3. CASE ReadError(c) \/ SendError(c) \/ HeartbeatTimeout(c) \/ ReadAbandoned(c)
             \/ StopGoesOn(c)
    <3>1. UNCHANGED <<serverQ, dialogue, joining, player, loads, zoneQ, crashed>>
      BY <2>3 DEF ReadError, SendError, HeartbeatTimeout, ReadAbandoned, StopGoesOn
    <3> QED BY <1>0, <1>1, <2>1, <3>1 DEF zoneVars
  <2>4. CASE PostRemoval(c)
    <3>1. RemoveClient(c) \in ServerHandlers /\ RemoveClient(c).op \notin {"join", "enter"}
      BY HandlerTypes, ServerHandlersDiffer
    <3>2. Fewer(serverQ, Append(serverQ, RemoveClient(c)))
      BY <1>0, <3>1, FewerAppend
    <3> QED BY <1>1, <2>1, <2>4, <3>2 DEF PostRemoval, zoneVars
  <2> QED BY <1>4, <2>2, <2>3, <2>4 DEF ClientStep
<1>5. ASSUME NEW c \in Clients, HandlePing(c) PROVE PlayersInv'
  <2>1. serverQ # <<>> /\ Done
    BY <1>5 DEF HandlePing, Handles
  <2>2. Fewer(serverQ, serverQ')
    BY <2>1, FewerHandled
  <2> QED BY <1>1, <1>5, <2>2 DEF HandlePing, HandlerElsewhere, zoneVars
<1>6. ASSUME NEW c \in Clients, HandleJoin(c) PROVE PlayersInv'
  <2>1. /\ serverQ # <<>> /\ Head(serverQ).op = "join" /\ Head(serverQ).client = c
        /\ UNCHANGED <<dialogue, player, loads, zoneQ, currentZone, crashed, zoneClients,
                       entities>>
    BY <1>6 DEF HandleJoin, Handles, HandlerElsewhere, zoneVars
  <2>2. Done \/ Refuse(c)
    BY <1>6 DEF HandleJoin
  <2>3. Fewer(Rest, serverQ') /\ Fewer(serverQ, serverQ')
    BY <2>1, <2>2, FewerHandled
  <2>4. \A d \in Clients : d # c => joining'[d] = joining[d]
    BY <1>6 DEF HandleJoin
  <2>5. ASSUME c \notin Rude PROVE JoinsOnce(serverQ, c)'
    <3>1. Sent(serverQ, "join", c)
      BY <1>0, <2>1, SentTail
    <3>2. dialogue[c] = "asked" /\ joining[c] = 0
      BY <2>5, <3>1, DialogueIs
    <3>3. SentOnce(serverQ, "join", c)
      BY <1>0, <2>5, <3>2 DEF JoinsOnce
    <3>4. ~Sent(Rest, "join", c) /\ SentOnce(Rest, "join", c)
      BY <1>0, <2>1, <3>3, SentTail DEF Rest
    <3>5. ~Sent(serverQ', "join", c) /\ SentOnce(serverQ', "join", c)
          /\ (Sent(serverQ', "enter", c) => Sent(serverQ, "enter", c))
      BY <2>3, <3>4 DEF Fewer
    <3>6. joining'[c] \in {0, 1}
      BY <1>6, <3>2 DEF HandleJoin
    <3> QED BY <1>0, <2>1, <2>5, <3>2, <3>5, <3>6 DEF JoinsOnce
  <2>6. \A d \in Clients \ Rude : d # c => JoinsOnce(serverQ, d)'
    BY <1>0, <2>1, <2>3, <2>4, JoinsSame
  <2> QED BY <2>1, <2>5, <2>6, PlayersAsk
<1>7. ASSUME NEW c \in Clients, JoinStep(c) PROVE PlayersInv'
  <2>1. /\ Resumes(c) /\ UNCHANGED serverQ
        /\ UNCHANGED <<player, loads>> \/ \E ok \in BOOLEAN : Load(c, ok)
    BY <1>7 DEF JoinStep, JoinDropped, JoinRejected, JoinLoadFails, JoinLoaded
  <2>2. /\ joining[c] > 0 /\ joining' = [joining EXCEPT ![c] = @ - 1]
        /\ UNCHANGED <<zoneQ, crashed, zoneClients, entities, currentZone>>
    BY <2>1 DEF Resumes, zoneVars
  <2>3. c \notin Rude => dialogue[c] = "asked" /\ joining[c] = 1 /\ ~Sent(serverQ, "join", c)
    BY <2>2, DialogueIs
  <2>4. /\ \A d \in Clients : d # c => /\ dialogue'[d] = dialogue[d]
                                       /\ joining'[d] = joining[d]
                                       /\ player'[d] = player[d]
        /\ \/ dialogue'[c] = dialogue[c]
           \/ dialogue'[c] = "welcomed" /\ player'[c] # 0
    <3>1. CASE JoinDropped(c) \/ JoinRejected(c)
      BY <2>2, <3>1 DEF JoinDropped, JoinRejected
    <3>2. CASE JoinLoadFails(c)
      BY <2>2, <3>2 DEF JoinLoadFails, Load
    <3>3. CASE JoinLoaded(c)
      <4>1. /\ dialogue' = [dialogue EXCEPT ![c] = "welcomed"]
            /\ loads' = [loads EXCEPT ![c] = @ + 1]
            /\ player' = [player EXCEPT ![c] = loads'[c]]
        BY <3>3 DEF JoinLoaded, Load
      <4>2. loads'[c] # 0
        BY <4>1
      <4> QED BY <2>2, <4>1, <4>2
    <3> QED BY <1>7, <3>1, <3>2, <3>3 DEF JoinStep
  <2>5. ASSUME c \notin Rude PROVE JoinsOnce(serverQ, c)'
    <3>1. joining'[c] = 0 /\ dialogue[c] = "asked"
      BY <2>2, <2>3, <2>5
    <3>2. ~Sent(serverQ', "join", c) /\ ~Sent(serverQ', "enter", c)
      BY <1>0, <2>1, <2>3, <2>5 DEF JoinsOnce
    <3>3. SentOnce(serverQ', "join", c)
      BY <3>2 DEF Sent, SentOnce
    <3> QED BY <2>4, <3>1, <3>2, <3>3 DEF JoinsOnce
  <2>6. \A d \in Clients \ Rude : d # c => JoinsOnce(serverQ, d)'
    BY <1>0, <2>1, <2>4, JoinsSame
  <2> QED BY <2>1, <2>2, <2>3, <2>4, <2>5, <2>6, PlayersAsk
<1>8. ASSUME NEW c \in Clients, ServerAddClient(c) PROVE PlayersInv'
  <2>1. /\ serverQ # <<>> /\ serverQ' = Tail(serverQ)
        /\ currentZone' = [currentZone EXCEPT ![c] = Nowhere]
        /\ UNCHANGED <<dialogue, joining, player, loads, zoneClients, entities, zoneQ, crashed>>
    BY <1>8 DEF ServerAddClient, Handles, Rest, zoneVars
  <2>2. Fewer(serverQ, serverQ')
    BY <1>0, <2>1, FewerTail
  <2>3. Nowhere \notin Zones
    BY StrandsAssumption
  <2>4. \A d \in Clients : Inside(d)' => Inside(d)
    BY <2>1, <2>3 DEF Inside
  <2> QED BY <2>1, <2>2, <2>4, PlayersSame
<1>9. ASSUME NEW c \in Clients, ServerRemoveClient(c) PROVE PlayersInv'
  <2>1. /\ serverQ # <<>>
        /\ UNCHANGED <<dialogue, joining, player, loads, zoneClients, entities>>
    BY <1>9 DEF ServerRemoveClient, Handles, zoneVars
  <2>2. CASE ~Registered(c)
    <3>1. UNCHANGED <<serverQ, zoneQ, currentZone>> /\ crashed' = "uncaught"
      BY <1>9, <2>2 DEF ServerRemoveClient
    <3>2. \A d \in Clients : Inside(d)' => Inside(d)
      BY <2>1, <3>1 DEF Inside
    <3> QED BY <1>0, <2>1, <3>1, <3>2, PlayersSame
  <2>3. CASE Registered(c)
    <3>1. /\ Refuse(c) /\ currentZone' = [currentZone EXCEPT ![c] = Absent] /\ UNCHANGED crashed
          /\ \/ UNCHANGED zoneQ
             \/ currentZone[c] \in liveZones /\ Post(currentZone[c], ZoneRemove(c))
      BY <1>9, <2>3 DEF ServerRemoveClient
    <3>2. Fewer(serverQ, serverQ')
      BY <2>1, <3>1, FewerHandled
    <3>3. Absent \notin Zones
      BY StrandsAssumption
    <3>4. \A d \in Clients : currentZone'[d] \in Zones => currentZone'[d] = currentZone[d]
      BY <3>1, <3>3
    <3>5. CASE UNCHANGED zoneQ
      <4>1. \A d \in Clients : Inside(d)' => Inside(d)
        BY <2>1, <3>4, <3>5 DEF Inside
      <4> QED BY <2>1, <3>1, <3>2, <4>1, PlayersSame
    <3>6. CASE currentZone[c] \in liveZones /\ Post(currentZone[c], ZoneRemove(c))
      <4>1. ZoneRemove(c) \in ZoneHandlers /\ ZoneRemove(c).op # "add"
        BY HandlerTypes DEF ZoneRemove
      <4>2. \A d \in Clients : Inside(d)' => Inside(d)
        BY <2>1, <3>4, <3>6, <4>1, InsidePost
      <4> QED BY <2>1, <3>1, <3>2, <4>2, PlayersSame
    <3> QED BY <3>1, <3>5, <3>6
  <2> QED BY <2>2, <2>3
<1>10. ASSUME NEW c \in Clients, HandleZonePacket(c) PROVE PlayersInv'
  <2>1. /\ serverQ # <<>>
        /\ UNCHANGED <<dialogue, joining, player, loads, currentZone, crashed, zoneClients,
                       entities>>
    BY <1>10 DEF HandleZonePacket, Handles, HandlerElsewhere, zoneVars
  <2>2. Done \/ Refuse(c)
    BY <1>10 DEF HandleZonePacket
  <2>3. Fewer(serverQ, serverQ')
    BY <2>1, <2>2, FewerHandled
  <2>4. CASE UNCHANGED zoneQ
    BY <1>1, <2>1, <2>3, <2>4
  <2>5. CASE currentZone[c] \in liveZones /\ Post(currentZone[c], ZonePacket(c))
    <3>1. ZonePacket(c) \in ZoneHandlers /\ ZonePacket(c).op # "add"
      BY HandlerTypes DEF ZonePacket
    <3>2. \A d \in Clients : Inside(d)' => Inside(d)
      BY <2>1, <2>5, <3>1, InsidePost
    <3> QED BY <2>1, <2>3, <3>2, PlayersSame
  <2> QED BY <1>10, <2>4, <2>5 DEF HandleZonePacket
<1>11. ASSUME NEW c \in Clients, HandleEnter(c) PROVE PlayersInv'
  <2> DEFINE to == Head(serverQ).zone
  <2>1. /\ serverQ # <<>> /\ Head(serverQ).op = "enter" /\ Head(serverQ).client = c
        /\ UNCHANGED <<dialogue, joining, player, loads, crashed, zoneClients, entities>>
    BY <1>11 DEF HandleEnter, Handles, HandlerElsewhere, zoneVars
  <2>2. Done \/ Refuse(c)
    BY <1>11 DEF HandleEnter
  <2>3. Fewer(serverQ, serverQ')
    BY <2>1, <2>2, FewerHandled
  <2>4. CASE UNCHANGED <<zoneQ, currentZone>>
    BY <1>1, <2>1, <2>3, <2>4
  <2>5. CASE ~UNCHANGED <<zoneQ, currentZone>>
    <3>1. c \notin Rude => dialogue[c] = "welcomed"
      <4>1. Sent(serverQ, "enter", c)
        BY <1>0, <2>1, SentTail
      <4> QED BY <1>0, <4>1 DEF JoinsOnce
    <3>2. /\ currentZone' = [currentZone EXCEPT ![c] = to]
          /\ zoneQ' = [z \in Zones |->
                CASE z = currentZone[c] -> Append(zoneQ[z], ZoneRemove(c))
                  [] z = to   -> Append(zoneQ[z], ZoneAdd(c))
                  [] OTHER    -> zoneQ[z]]
      BY <1>11, <2>5 DEF HandleEnter
    <3> HIDE DEF to
    <3>3. ASSUME NEW z \in Zones, NEW d \in Clients, d # c, Sent(zoneQ'[z], "add", d)
          PROVE  Sent(zoneQ[z], "add", d)
      <4>1. /\ ZoneAdd(c) \in ZoneHandlers /\ ZoneAdd(c).client = c
            /\ ZoneRemove(c) \in ZoneHandlers /\ ZoneRemove(c).client = c
        BY HandlerTypes DEF ZoneAdd, ZoneRemove
      <4>2. zoneQ[z] \in Seq(ZoneHandlers)
        OBVIOUS
      <4>3. \/ zoneQ'[z] = Append(zoneQ[z], ZoneRemove(c))
            \/ zoneQ'[z] = Append(zoneQ[z], ZoneAdd(c))
            \/ zoneQ'[z] = zoneQ[z]
        BY <3>2
      <4>4. /\ Sent(Append(zoneQ[z], ZoneRemove(c)), "add", d) => Sent(zoneQ[z], "add", d)
            /\ Sent(Append(zoneQ[z], ZoneAdd(c)), "add", d) => Sent(zoneQ[z], "add", d)
        BY <3>3, <4>1, <4>2, SentAppend
      <4> QED BY <3>3, <4>3, <4>4
    <3>4. \A d \in Clients : d # c /\ Inside(d)' => Inside(d)
      BY <2>1, <3>2, <3>3 DEF Inside
    <3>5. \A d \in Clients \ Rude : Inside(d)' => dialogue[d] = "welcomed"
      BY <3>1, <3>4 DEF PlayersInv
    <3>6. \A d \in Clients \ Rude : JoinsOnce(serverQ, d)'
      BY <1>0, <2>1, <2>3, JoinsSame
    <3>7. \A z \in Zones : EntitiesAre(z)'
      BY <2>1 DEF PlayersInv, EntitiesAre, EntitiesOf, FirstPlayer, PlayerEntity
    <3> QED BY <2>1, <3>5, <3>6, <3>7 DEF PlayersInv
  <2> QED BY <2>4, <2>5
<1>12. ASSUME StopServer PROVE PlayersInv'
  <2>1. Cleanup \in ServerHandlers /\ Cleanup.op \notin {"join", "enter"}
    BY DEF Cleanup, ServerHandlers
  <2>2. Fewer(serverQ, Append(serverQ, Cleanup))
    BY <1>0, <2>1, FewerAppend
  <2> QED BY <1>1, <1>12, <2>2 DEF StopServer, clientVars, zoneVars
<1>13. ASSUME CleanupBegin PROVE PlayersInv'
  <2>1. serverQ # <<>> /\ serverQ' = Tail(serverQ)
    BY <1>13 DEF CleanupBegin, Handles, Rest
  <2>2. Fewer(serverQ, serverQ')
    BY <1>0, <2>1, FewerTail
  <2> QED BY <1>1, <1>13, <2>2 DEF CleanupBegin, clientVars, zoneVars
<1>14. ASSUME NEW c \in Clients, CleanupStopClient(c) PROVE PlayersInv'
  <2>1. Fewer(serverQ, serverQ')
    BY <1>0, <1>14 DEF CleanupStopClient
  <2> QED BY <1>1, <1>14, <2>1 DEF CleanupStopClient, zoneVars
<1>15. ASSUME CleanupZones \/ Halt \/ UNCHANGED vars PROVE PlayersInv'
  BY <1>0, <1>1, <1>15 DEF CleanupZones, Halt, vars, clientVars, zoneVars
<1>16. CASE Next
  BY <1>2, <1>4, <1>5, <1>6, <1>7, <1>8, <1>9, <1>10, <1>11, <1>12, <1>13, <1>14, <1>15,
     <1>16, PlayersRun
    DEF Next, HandlerStep, CleanupStep
<1> QED BY <1>15, <1>16

\* PlayersInv: a polite client joins and is answered once, and has been welcomed
\* when it is in a zone.
THEOREM PlayersHold == Spec => []PlayersInv
<1>1. ASSUME Init PROVE PlayersInv
  <2>1. ASSUME NEW c \in Clients PROVE JoinsOnce(serverQ, c)
    <3>1. dialogue[c] = "new" /\ joining[c] = 0 /\ serverQ = <<>>
      BY <1>1 DEF Init, ClientInit
    <3>2. ~Sent(serverQ, "join", c) /\ ~Sent(serverQ, "enter", c)
      BY <3>1, NothingSent
    <3> QED BY <3>1, <3>2 DEF JoinsOnce
  <2>2. ASSUME NEW c \in Clients, Inside(c) PROVE FALSE
    <3>1. currentZone[c] = Absent /\ Absent \notin Zones
      BY <1>1, StrandsAssumption DEF Init
    <3>2. ASSUME NEW z \in Zones PROVE c \notin zoneClients[z] /\ ~Sent(zoneQ[z], "add", c)
      <4>1. zoneQ[z] = <<>> /\ zoneClients[z] = {}
        BY <1>1 DEF Init, ZoneInit
      <4> QED BY <4>1, NothingSent
    <3> QED BY <2>2, <3>1, <3>2 DEF Inside
  <2>3. \A z \in Zones : EntitiesAre(z)
    BY <1>1 DEF Init, ZoneInit, EntitiesAre, EntitiesOf
  <2>4. crashed # "null_player" /\ \A c \in Clients : player[c] = 0
    BY <1>1 DEF Init, ClientInit
  <2> QED BY <2>1, <2>2, <2>3, <2>4 DEF PlayersInv
<1>2. ASSUME TypeOK, PlayersInv, [Next]_vars PROVE PlayersInv'
  <2>1. CASE crashed # "null_player"
    BY <1>2, <2>1, PlayersStep
  <2>2. CASE crashed = "null_player"
    <3>1. UNCHANGED vars
      BY <1>2, <2>2 DEF Next, Alive
    <3> QED BY <1>2, <3>1
          DEF vars, clientVars, zoneVars, PlayersInv, JoinsOnce, Inside, EntitiesAre,
              EntitiesOf, FirstPlayer, PlayerEntity
  <2> QED BY <2>1, <2>2
<1> QED BY <1>1, <1>2, TypeCorrect, PTL DEF Spec

\* NoNullPlayer: a polite client in a zone, or on its way into one, has its
\* player, whatever the rude ones send; and a handler needs a player that is not
\* there for a rude client only.
THEOREM PlayersAreThere == Spec => []NoNullPlayer
<1>1. ASSUME TypeOK, PlayersInv PROVE NoNullPlayer
  <2>1. ASSUME NEW z \in liveZones, NEW c \in Clients \ Rude,
               c \in zoneClients[z] \/ Pending(zoneQ[z], ZoneAdd(c))
        PROVE  player[c] # 0
    <3>1. z \in Zones
      BY <1>1 DEF TypeOK, ZoneTypeOK
    <3>2. Pending(zoneQ[z], ZoneAdd(c)) => Sent(zoneQ[z], "add", c)
      BY DEF Pending, Sent, ZoneAdd
    <3>3. Inside(c)
      BY <2>1, <3>1, <3>2 DEF Inside
    <3> QED BY <1>1, <3>3 DEF PlayersInv, JoinsOnce
  <2> QED BY <1>1, <2>1 DEF NoNullPlayer, PlayersInv
<1> QED BY <1>1, PlayersHold, TypeCorrect, PTL

\* NoGhostEntities: the player entities of a zone are those of its clients, but
\* for a rude client whose first player was replaced.
THEOREM EntitiesFollowClients == Spec => []NoGhostEntities
<1>1. TypeOK /\ PlayersInv => NoGhostEntities
  BY DEF PlayersInv, EntitiesAre, EntitiesOf, FirstPlayer, NoGhostEntities, TypeOK, ZoneTypeOK
<1> QED BY <1>1, PlayersHold, TypeCorrect, PTL
=============================================================================
