---------------------------- MODULE ServerProofs ----------------------------
(***************************************************************************)
(* Theorems about Server, for every set of clients and zones and every     *)
(* bound on the packets received.                                          *)
(***************************************************************************)
EXTENDS Server, TLAPS

-----------------------------------------------------------------------------
(***************************************************************************)
(* Queues: what posting a handler and running the handler at the head do   *)
(* to the handlers that are pending, for any strand, and to MemberBefore,  *)
(* the clients a zone is going to have.                                    *)
(***************************************************************************)

\* Handler h has been posted at most once.
Once(q, h) == \A i, j \in 1..Len(q) : q[i] = h /\ q[j] = h => i = j

\* Where the elements of a longer and of a shorter queue come from.
LEMMA AppendIndex ==
  ASSUME NEW S, NEW q \in Seq(S), NEW g \in S
  PROVE  /\ Append(q, g) \in Seq(S)
         /\ Len(Append(q, g)) = Len(q) + 1
         /\ \A i \in 1..Len(q) : Append(q, g)[i] = q[i]
         /\ Append(q, g)[Len(q) + 1] = g
  OBVIOUS

LEMMA TailIndex ==
  ASSUME NEW S, NEW q \in Seq(S), q # <<>>
  PROVE  /\ Head(q) \in S
         /\ Tail(q) \in Seq(S)
         /\ Len(q) \in Nat \ {0}
         /\ Len(Tail(q)) = Len(q) - 1
         /\ \A i \in 1..(Len(q) - 1) : Tail(q)[i] = q[i + 1]
         /\ q[1] = Head(q)
  OBVIOUS

\* Posting g makes g pending and nothing else.
LEMMA PendingAppend ==
  ASSUME NEW S, NEW q \in Seq(S), NEW g \in S, NEW h
  PROVE  Pending(Append(q, g), h) <=> Pending(q, h) \/ g = h
<1> DEFINE r == Append(q, g)
<1>1. Len(q) \in Nat /\ Len(r) = Len(q) + 1 /\ r[Len(q) + 1] = g
      /\ \A i \in 1..Len(q) : r[i] = q[i]
  BY AppendIndex
<1> HIDE DEF r
<1>2. Pending(r, h) <=> Pending(q, h) \/ g = h
  BY <1>1 DEF Pending
<1> QED BY <1>2 DEF r

\* What is pending is the head or pending behind it.
LEMMA PendingTail ==
  ASSUME NEW S, NEW q \in Seq(S), q # <<>>, NEW h
  PROVE  Pending(q, h) <=> Head(q) = h \/ Pending(Tail(q), h)
<1> DEFINE r == Tail(q)  n == Len(q)
<1>1. /\ n \in Nat \ {0} /\ Len(r) = n - 1 /\ q[1] = Head(q)
      /\ \A i \in 1..(n - 1) : r[i] = q[i + 1]
  BY TailIndex
<1> HIDE DEF r
<1>2. ASSUME Pending(q, h) PROVE Head(q) = h \/ Pending(r, h)
  <2>1. PICK i \in 1..n : q[i] = h
    BY <1>2 DEF Pending
  <2>2. CASE i = 1
    BY <1>1, <2>1, <2>2
  <2>3. CASE i # 1
    <3>1. i - 1 \in 1..(n - 1) /\ r[i - 1] = q[(i - 1) + 1]
      BY <1>1, <2>1, <2>3
    <3> QED BY <1>1, <2>1, <3>1 DEF Pending
  <2> QED BY <2>2, <2>3
<1>3. ASSUME Head(q) = h PROVE Pending(q, h)
  BY <1>1, <1>3 DEF Pending
<1>4. ASSUME Pending(r, h) PROVE Pending(q, h)
  <2>1. PICK i \in 1..(n - 1) : r[i] = h
    BY <1>1, <1>4 DEF Pending
  <2>2. i + 1 \in 1..n /\ q[i + 1] = h
    BY <1>1, <2>1
  <2> QED BY <2>2 DEF Pending
<1> QED BY <1>2, <1>3, <1>4 DEF r

\* A handler that is not pending may be posted, and is then pending once.
LEMMA OnceAppend ==
  ASSUME NEW S, NEW q \in Seq(S), NEW g \in S, NEW h,
         Once(q, h), g = h => ~Pending(q, h)
  PROVE  Once(Append(q, g), h)
<1> DEFINE r == Append(q, g)
<1>1. Len(q) \in Nat /\ Len(r) = Len(q) + 1 /\ r[Len(q) + 1] = g
      /\ \A i \in 1..Len(q) : r[i] = q[i]
  BY AppendIndex
<1> HIDE DEF r
<1>2. ASSUME NEW i \in 1..Len(r), NEW j \in 1..Len(r), r[i] = h, r[j] = h
      PROVE  i = j
  <2>1. CASE i = Len(q) + 1 \/ j = Len(q) + 1
    BY <1>1, <1>2, <2>1 DEF Pending
  <2>2. CASE i \in 1..Len(q) /\ j \in 1..Len(q)
    BY <1>1, <1>2, <2>2 DEF Once
  <2> QED BY <1>1, <2>1, <2>2
<1>3. Once(r, h)
  BY <1>2 DEF Once
<1> QED BY <1>3 DEF r

\* Running the head leaves the others pending as often as before; a handler
\* that was pending once is pending no more when it runs.
LEMMA OnceTail ==
  ASSUME NEW S, NEW q \in Seq(S), q # <<>>, NEW h, Once(q, h)
  PROVE  /\ Once(Tail(q), h)
         /\ Head(q) = h => ~Pending(Tail(q), h)
<1> DEFINE r == Tail(q)  n == Len(q)
<1>1. /\ n \in Nat \ {0} /\ Len(r) = n - 1 /\ q[1] = Head(q)
      /\ \A i \in 1..(n - 1) : r[i] = q[i + 1]
  BY TailIndex
<1> HIDE DEF r
<1>2. ASSUME NEW i \in 1..Len(r), NEW j \in 1..Len(r), r[i] = h, r[j] = h
      PROVE  i = j
  <2>1. i + 1 \in 1..n /\ j + 1 \in 1..n /\ q[i + 1] = h /\ q[j + 1] = h
    BY <1>1, <1>2
  <2>2. i + 1 = j + 1
    BY <2>1 DEF Once
  <2> QED BY <1>1, <2>2
<1>3. ASSUME Head(q) = h, NEW i \in 1..Len(r), r[i] = h PROVE FALSE
  <2>1. 1 \in 1..n /\ i + 1 \in 1..n /\ q[1] = h /\ q[i + 1] = h
    BY <1>1, <1>3
  <2>2. i + 1 = 1
    BY <2>1 DEF Once
  <2> QED BY <1>1, <2>2
<1>4. Once(r, h) /\ (Head(q) = h => ~Pending(r, h))
  BY <1>2, <1>3 DEF Once, Pending
<1> QED BY <1>4 DEF r
-----------------------------------------------------------------------------
\* What running a zone handler does to the clients of the zone.
ClientsAfter(h, S) ==
  IF h.op = "add" THEN S \cup {h.client}
  ELSE IF h.op = "remove" THEN S \ {h.client}
  ELSE S

\* The handlers posted to a zone, told apart.
LEMMA HandlersDiffer ==
  ASSUME NEW c, NEW d
  PROVE  /\ ZoneAdd(c) # ZoneRemove(d)
         /\ ZoneAdd(c) = ZoneAdd(d) <=> c = d
         /\ ZoneRemove(c) = ZoneRemove(d) <=> c = d
         /\ ZonePacket(c) # ZoneAdd(d) /\ ZonePacket(c) # ZoneRemove(d)
         /\ ZoneTick # ZoneAdd(d) /\ ZoneTick # ZoneRemove(d)
<1>1. ZoneAdd(c).op = "add" /\ ZoneAdd(c).client = c
  BY DEF ZoneAdd
<1>2. ZoneRemove(d).op = "remove" /\ ZoneRemove(d).client = d
  BY DEF ZoneRemove
<1>3. ZoneRemove(c).client = c /\ ZoneAdd(d).client = d /\ ZoneAdd(d).op = "add"
  BY DEF ZoneRemove, ZoneAdd
<1>4. ZonePacket(c).op = "packet" /\ ZoneTick.op = "tick"
  BY DEF ZonePacket, ZoneTick
<1> QED BY <1>1, <1>2, <1>3, <1>4

\* A zone handler is determined by its operation and its client.
LEMMA HandlerIs ==
  ASSUME NEW h \in ZoneHandlers
  PROVE  /\ h.op = "add" => h = ZoneAdd(h.client)
         /\ h.op = "remove" => h = ZoneRemove(h.client)
  BY DEF ZoneHandlers, ZoneAdd, ZoneRemove

\* Posting a handler changes nothing for the handlers before it.
LEMMA MemberAppend ==
  ASSUME NEW q \in Seq(ZoneHandlers), NEW h \in ZoneHandlers, NEW S, NEW c,
         NEW i \in 1..(Len(q) + 1)
  PROVE  MemberBefore(Append(q, h), S, c, i) <=> MemberBefore(q, S, c, i)
<1> DEFINE r == Append(q, h)
<1>1. Len(q) \in Nat /\ \A j \in 1..Len(q) : r[j] = q[j]
  BY AppendIndex
<1> HIDE DEF r
<1>2. \A j \in 1..(i - 1) : r[j] = q[j]
  BY <1>1
<1>3. \A k \in 1..(i - 1) : \A j \in (k + 1)..(i - 1) : r[j] = q[j]
  BY <1>1
<1>4. MemberBefore(r, S, c, i) <=> MemberBefore(q, S, c, i)
  BY <1>2, <1>3 DEF MemberBefore
<1> QED BY <1>4 DEF r

\* The last handler decides: an add puts its client in, a remove takes it out,
\* and for everyone else nothing changes.
LEMMA MemberAtEnd ==
  ASSUME NEW q \in Seq(ZoneHandlers), NEW h \in ZoneHandlers, NEW S, NEW c
  PROVE  MemberBefore(Append(q, h), S, c, Len(Append(q, h)) + 1) <=>
           \/ h = ZoneAdd(c)
           \/ h # ZoneRemove(c) /\ MemberBefore(q, S, c, Len(q) + 1)
<1> DEFINE r == Append(q, h)  n == Len(q)
<1>1. n \in Nat /\ Len(r) = n + 1 /\ r[n + 1] = h /\ \A j \in 1..n : r[j] = q[j]
  BY AppendIndex
<1>2. ZoneAdd(c) # ZoneRemove(c)
  BY HandlersDiffer
<1> HIDE DEF r
<1>3. (Len(r) + 1) - 1 = n + 1 /\ (n + 1) - 1 = n
  BY <1>1
<1>4. ASSUME h = ZoneAdd(c) PROVE MemberBefore(r, S, c, Len(r) + 1)
  <2>1. n + 1 \in 1..(n + 1) /\ r[n + 1] = ZoneAdd(c)
    BY <1>1, <1>4
  <2>2. \A j \in ((n + 1) + 1)..(n + 1) : r[j] # ZoneRemove(c)
    BY <1>1
  <2> QED BY <1>3, <2>1, <2>2 DEF MemberBefore
<1>5. ASSUME h # ZoneRemove(c), MemberBefore(q, S, c, n + 1)
      PROVE  MemberBefore(r, S, c, Len(r) + 1)
  <2>1. CASE c \in S /\ \A j \in 1..n : q[j] # ZoneRemove(c)
    <3>1. \A j \in 1..(n + 1) : r[j] # ZoneRemove(c)
      BY <1>1, <1>5, <2>1
    <3> QED BY <1>3, <2>1, <3>1 DEF MemberBefore
  <2>2. CASE \E k \in 1..n : /\ q[k] = ZoneAdd(c)
                             /\ \A j \in (k + 1)..n : q[j] # ZoneRemove(c)
    <3>1. PICK k \in 1..n : /\ q[k] = ZoneAdd(c)
                            /\ \A j \in (k + 1)..n : q[j] # ZoneRemove(c)
      BY <2>2
    <3>2. k \in 1..(n + 1) /\ r[k] = ZoneAdd(c)
      BY <1>1, <3>1
    <3>3. \A j \in (k + 1)..(n + 1) : r[j] # ZoneRemove(c)
      BY <1>1, <1>5, <3>1
    <3> QED BY <1>3, <3>2, <3>3 DEF MemberBefore
  <2> QED BY <1>3, <1>5, <2>1, <2>2 DEF MemberBefore
<1>6. ASSUME MemberBefore(r, S, c, Len(r) + 1), h # ZoneAdd(c)
      PROVE  h # ZoneRemove(c) /\ MemberBefore(q, S, c, n + 1)
  <2>1. CASE c \in S /\ \A j \in 1..(n + 1) : r[j] # ZoneRemove(c)
    <3>1. n + 1 \in 1..(n + 1) /\ \A j \in 1..n : j \in 1..(n + 1)
      BY <1>1
    <3>2. h # ZoneRemove(c) /\ \A j \in 1..n : q[j] # ZoneRemove(c)
      BY <1>1, <2>1, <3>1
    <3> QED BY <1>3, <2>1, <3>2 DEF MemberBefore
  <2>2. CASE \E k \in 1..(n + 1) : /\ r[k] = ZoneAdd(c)
                                   /\ \A j \in (k + 1)..(n + 1) : r[j] # ZoneRemove(c)
    <3>1. PICK k \in 1..(n + 1) : /\ r[k] = ZoneAdd(c)
                                  /\ \A j \in (k + 1)..(n + 1) : r[j] # ZoneRemove(c)
      BY <2>2
    <3>2. k \in 1..n /\ n + 1 \in (k + 1)..(n + 1)
      BY <1>1, <1>6, <3>1
    <3>3. q[k] = ZoneAdd(c) /\ h # ZoneRemove(c)
      BY <1>1, <3>1, <3>2
    <3>4. \A j \in (k + 1)..n : q[j] # ZoneRemove(c)
      BY <1>1, <3>1, <3>2
    <3> QED BY <1>3, <3>2, <3>3, <3>4 DEF MemberBefore
  <2> QED BY <1>3, <1>6, <2>1, <2>2 DEF MemberBefore
<1>7. MemberBefore(r, S, c, Len(r) + 1) <=>
        h = ZoneAdd(c) \/ (h # ZoneRemove(c) /\ MemberBefore(q, S, c, n + 1))
  BY <1>4, <1>5, <1>6
<1> QED BY <1>7 DEF r

\* Running the head of the queue, with its effect on the zone's clients, makes
\* no difference to what the handlers behind it will find.
LEMMA MemberTail ==
  ASSUME NEW q \in Seq(ZoneHandlers), q # <<>>, NEW S, NEW c,
         NEW i \in 1..Len(q)
  PROVE  MemberBefore(Tail(q), ClientsAfter(Head(q), S), c, i) <=>
           MemberBefore(q, S, c, i + 1)
<1> DEFINE r == Tail(q)  n == Len(q)  h == Head(q)  T == ClientsAfter(h, S)
<1>1. /\ h \in ZoneHandlers /\ n \in Nat \ {0} /\ q[1] = h
      /\ \A j \in 1..(n - 1) : r[j] = q[j + 1]
  BY TailIndex
<1>2. /\ h = ZoneAdd(c) => c \in T
      /\ h = ZoneRemove(c) => c \notin T
      /\ h # ZoneAdd(c) /\ h # ZoneRemove(c) => (c \in T <=> c \in S)
  <2>1. h = ZoneAdd(c) => c \in T
    BY DEF ClientsAfter, ZoneAdd
  <2>2. h = ZoneRemove(c) => c \notin T
    BY DEF ClientsAfter, ZoneRemove
  <2>3. ASSUME h # ZoneAdd(c), h # ZoneRemove(c) PROVE c \in T <=> c \in S
    <3>1. h.op = "add" => h.client # c
      BY <1>1, <2>3, HandlerIs
    <3>2. h.op = "remove" => h.client # c
      BY <1>1, <2>3, HandlerIs
    <3> QED BY <3>1, <3>2 DEF ClientsAfter
  <2> QED BY <2>1, <2>2, <2>3
<1>3. ZoneAdd(c) # ZoneRemove(c)
  BY HandlersDiffer
<1> HIDE DEF r, h, T
<1>4. (i + 1) - 1 = i /\ i \in 1..n
  OBVIOUS
<1>5. ASSUME MemberBefore(r, T, c, i) PROVE MemberBefore(q, S, c, i + 1)
  <2>1. CASE c \in T /\ \A j \in 1..(i - 1) : r[j] # ZoneRemove(c)
    <3>1. \A j \in 2..i : q[j] # ZoneRemove(c)
      <4>1. ASSUME NEW j \in 2..i PROVE q[j] # ZoneRemove(c)
        <5>1. j - 1 \in 1..(i - 1) /\ j - 1 \in 1..(n - 1) /\ (j - 1) + 1 = j
          BY <1>1
        <5> QED BY <1>1, <2>1, <5>1
      <4> QED BY <4>1
    <3>2. CASE h = ZoneAdd(c)
      <4>1. 1 \in 1..i /\ q[1] = ZoneAdd(c) /\ 1 + 1 = 2
        BY <1>1, <3>2
      <4> QED BY <1>4, <3>1, <4>1 DEF MemberBefore
    <3>3. CASE h # ZoneAdd(c)
      <4>1. c \in S /\ q[1] # ZoneRemove(c)
        BY <1>1, <1>2, <2>1, <3>3
      <4>2. \A j \in 1..i : q[j] # ZoneRemove(c)
        BY <3>1, <4>1
      <4> QED BY <1>4, <4>1, <4>2 DEF MemberBefore
    <3> QED BY <3>2, <3>3
  <2>2. CASE \E k \in 1..(i - 1) :
               /\ r[k] = ZoneAdd(c)
               /\ \A j \in (k + 1)..(i - 1) : r[j] # ZoneRemove(c)
    <3>1. PICK k \in 1..(i - 1) :
               /\ r[k] = ZoneAdd(c)
               /\ \A j \in (k + 1)..(i - 1) : r[j] # ZoneRemove(c)
      BY <2>2
    <3>2. k + 1 \in 1..i /\ q[k + 1] = ZoneAdd(c)
      BY <1>1, <3>1
    <3>3. ASSUME NEW j \in ((k + 1) + 1)..i PROVE q[j] # ZoneRemove(c)
      <4>1. j - 1 \in (k + 1)..(i - 1) /\ j - 1 \in 1..(n - 1) /\ (j - 1) + 1 = j
        BY <1>1
      <4> QED BY <1>1, <3>1, <4>1
    <3> QED BY <1>4, <3>2, <3>3 DEF MemberBefore
  <2> QED BY <1>5, <2>1, <2>2 DEF MemberBefore
<1>6. ASSUME MemberBefore(q, S, c, i + 1) PROVE MemberBefore(r, T, c, i)
  <2>0. ASSUME NEW j \in 1..(i - 1)
        PROVE  r[j] = q[j + 1] /\ j + 1 \in 1..i
    BY <1>1
  <2>1. CASE c \in S /\ \A j \in 1..i : q[j] # ZoneRemove(c)
    <3>1. 1 \in 1..i
      OBVIOUS
    <3>2. c \in T
      BY <1>1, <1>2, <2>1, <3>1
    <3>3. \A j \in 1..(i - 1) : r[j] # ZoneRemove(c)
      BY <2>0, <2>1
    <3> QED BY <3>2, <3>3 DEF MemberBefore
  <2>2. CASE \E k \in 1..i : /\ q[k] = ZoneAdd(c)
                             /\ \A j \in (k + 1)..i : q[j] # ZoneRemove(c)
    <3>1. PICK k \in 1..i : /\ q[k] = ZoneAdd(c)
                            /\ \A j \in (k + 1)..i : q[j] # ZoneRemove(c)
      BY <2>2
    <3>2. CASE k = 1
      <4>1. c \in T
        BY <1>1, <1>2, <3>1, <3>2
      <4>2. ASSUME NEW j \in 1..(i - 1) PROVE r[j] # ZoneRemove(c)
        <5>1. j + 1 \in (k + 1)..i
          BY <3>2
        <5> QED BY <2>0, <3>1, <5>1
      <4> QED BY <4>1, <4>2 DEF MemberBefore
    <3>3. CASE k # 1
      <4>1. k - 1 \in 1..(i - 1) /\ (k - 1) + 1 = k
        BY <3>3
      <4>2. r[k - 1] = ZoneAdd(c)
        BY <2>0, <3>1, <4>1
      <4>3. ASSUME NEW j \in ((k - 1) + 1)..(i - 1) PROVE r[j] # ZoneRemove(c)
        <5>1. j \in 1..(i - 1) /\ j + 1 \in (k + 1)..i
          BY <4>1
        <5> QED BY <2>0, <3>1, <5>1
      <4> QED BY <4>1, <4>2, <4>3 DEF MemberBefore
    <3> QED BY <3>2, <3>3
  <2> QED BY <1>4, <1>6, <2>1, <2>2 DEF MemberBefore
<1>7. MemberBefore(r, T, c, i) <=> MemberBefore(q, S, c, i + 1)
  BY <1>5, <1>6
<1> QED BY <1>7 DEF r, T, h

\* When the head has run, the clients the zone is going to have are the same.
LEMMA EndTail ==
  ASSUME NEW q \in Seq(ZoneHandlers), q # <<>>, NEW S, NEW c
  PROVE  MemberBefore(Tail(q), ClientsAfter(Head(q), S), c, Len(Tail(q)) + 1) <=>
           MemberBefore(q, S, c, Len(q) + 1)
<1>1. Len(q) \in 1..Len(q) /\ Len(Tail(q)) + 1 = Len(q)
  BY TailIndex
<1> QED BY <1>1, MemberTail

\* Every packet in queue q finds its client in a zone that has clients S now.
PacketsFindTheirClient(q, S) ==
  \A i \in 1..Len(q) : q[i].op = "packet" => MemberBefore(q, S, q[i].client, i)

LEMMA PacketsAppend ==
  ASSUME NEW q \in Seq(ZoneHandlers), NEW h \in ZoneHandlers, NEW S,
         PacketsFindTheirClient(q, S),
         h.op = "packet" => MemberBefore(q, S, h.client, Len(q) + 1)
  PROVE  PacketsFindTheirClient(Append(q, h), S)
<1> DEFINE r == Append(q, h)
<1>1. Len(q) \in Nat /\ Len(r) = Len(q) + 1 /\ r[Len(q) + 1] = h
      /\ \A i \in 1..Len(q) : r[i] = q[i]
  BY AppendIndex
<1>2. \A c : \A i \in 1..(Len(q) + 1) : MemberBefore(r, S, c, i) <=> MemberBefore(q, S, c, i)
  BY MemberAppend
<1> HIDE DEF r
<1>3. ASSUME NEW i \in 1..Len(r), r[i].op = "packet"
      PROVE  MemberBefore(r, S, r[i].client, i)
  <2>1. CASE i \in 1..Len(q)
    BY <1>1, <1>2, <1>3, <2>1 DEF PacketsFindTheirClient
  <2>2. CASE i = Len(q) + 1
    BY <1>1, <1>2, <1>3, <2>2
  <2> QED BY <1>1, <2>1, <2>2
<1> QED BY <1>3 DEF PacketsFindTheirClient, r

LEMMA PacketsTail ==
  ASSUME NEW q \in Seq(ZoneHandlers), q # <<>>, NEW S, PacketsFindTheirClient(q, S)
  PROVE  PacketsFindTheirClient(Tail(q), ClientsAfter(Head(q), S))
<1> DEFINE r == Tail(q)  T == ClientsAfter(Head(q), S)
<1>1. /\ Len(q) \in Nat \ {0} /\ Len(r) = Len(q) - 1
      /\ \A i \in 1..(Len(q) - 1) : r[i] = q[i + 1]
  BY TailIndex
<1>2. \A c : \A i \in 1..Len(q) : MemberBefore(r, T, c, i) <=> MemberBefore(q, S, c, i + 1)
  BY MemberTail
<1> HIDE DEF r, T
<1>3. ASSUME NEW i \in 1..Len(r), r[i].op = "packet"
      PROVE  MemberBefore(r, T, r[i].client, i)
  <2>1. i + 1 \in 1..Len(q) /\ i \in 1..Len(q) /\ r[i] = q[i + 1]
    BY <1>1
  <2>2. MemberBefore(q, S, q[i + 1].client, i + 1)
    BY <1>3, <2>1 DEF PacketsFindTheirClient
  <2> QED BY <1>2, <2>1, <2>2
<1> QED BY <1>3 DEF PacketsFindTheirClient, r, T

-----------------------------------------------------------------------------
(***************************************************************************)
(* Types.                                                                  *)
(***************************************************************************)

\* What is posted to a strand is one of its handlers.
LEMMA HandlerTypes ==
  ASSUME NEW c \in Clients
  PROVE  /\ AddClient(c) \in ServerHandlers
         /\ RemoveClient(c) \in ServerHandlers
         /\ Cleanup \in ServerHandlers
         /\ \A p \in Packets : p.op # "invalid" => HandlePacket(c, p) \in ServerHandlers
         /\ ZoneAdd(c) \in ZoneHandlers
         /\ ZoneRemove(c) \in ZoneHandlers
         /\ ZonePacket(c) \in ZoneHandlers
         /\ ZoneTick \in ZoneHandlers
<1>1. AddClient(c) \in ServerHandlers /\ RemoveClient(c) \in ServerHandlers
  BY DEF AddClient, RemoveClient, ServerHandlers, Targets
<1>2. Cleanup \in ServerHandlers
  BY DEF Cleanup, ServerHandlers, Targets
<1>3. ASSUME NEW p \in Packets, p.op # "invalid"
      PROVE  HandlePacket(c, p) \in ServerHandlers
  BY <1>3 DEF HandlePacket, ServerHandlers, Packets, PacketOps, Targets
<1>4. /\ ZoneAdd(c) \in ZoneHandlers /\ ZoneRemove(c) \in ZoneHandlers
      /\ ZonePacket(c) \in ZoneHandlers /\ ZoneTick \in ZoneHandlers
  BY DEF ZoneAdd, ZoneRemove, ZonePacket, ZoneTick, ZoneHandlers
<1> QED BY <1>1, <1>2, <1>3, <1>4

\* The part of the types that stopping and disconnecting a client touches.
LinkTypeOK ==
  /\ link \in [Clients -> {"none", "open", "closed"}]
  /\ running \in [Clients -> BOOLEAN]
  /\ stopping \in [Clients -> Threads]
  /\ closing \in [Clients -> Threads]

LEMMA DisconnectType ==
  ASSUME ClientTypeOK, NEW c \in Clients, NEW t \in Threads, Disconnect(c, t)
  PROVE  /\ link' \in [Clients -> {"none", "open", "closed"}]
         /\ closing' \in [Clients -> Threads]
  BY DEF Disconnect, ClientTypeOK

LEMMA StopClientType ==
  ASSUME ClientTypeOK, NEW c \in Clients, NEW t \in Threads, StopClient(c, t)
  PROVE  LinkTypeOK'
  BY DEF StopClient, ClientTypeOK, LinkTypeOK

LEMMA ThreadNames == "pool" \in Threads /\ "strand" \in Threads
  BY DEF Threads

LEMMA LinkTypeSame ==
  ASSUME ClientTypeOK, UNCHANGED linkVars
  PROVE  LinkTypeOK'
  BY DEF linkVars, ClientTypeOK, LinkTypeOK

\* The steps of the client's own threads keep the types.
LEMMA ClientStepType ==
  ASSUME TypeOK, NEW c \in Clients, ClientStep(c), Sends[c] \in SUBSET Packets
  PROVE  TypeOK'
<1> USE DEF TypeOK, StrandsTypeOK, ClientTypeOK, ZoneTypeOK, zoneVars, stopVars
<1>0. serverQ \in Seq(ServerHandlers) /\ "pool" \in Threads /\ "no" \in Threads
  BY DEF Threads
<1>1. ASSUME NEW p \in Packets, PacketReceived(c, p) PROVE TypeOK'
  <2>1. LinkTypeOK' /\ serverQ' \in Seq(ServerHandlers)
    <3>1. CASE p.op = "invalid"
      BY <1>0, <1>1, <3>1, StopClientType DEF PacketReceived
    <3>2. CASE p.op # "invalid"
      <4>1. Append(serverQ, HandlePacket(c, p)) \in Seq(ServerHandlers)
        BY <3>2, HandlerTypes, AppendIndex
      <4> QED BY <1>1, <3>2, <4>1, LinkTypeSame DEF PacketReceived
    <3> QED BY <3>1, <3>2
  <2>2. reading' \in [Clients -> {"unopened", "waiting", "closed"}]
    BY <1>1 DEF PacketReceived
  <2>3. dialogue' \in [Clients -> {"new", "asked", "welcomed"}] /\ received' \in Nat
    BY <1>1 DEF PacketReceived
  <2>4. UNCHANGED <<authenticated, player, loads, joining, zoneQ, crashed>>
    BY <1>1 DEF PacketReceived
  <2>5. UNCHANGED <<zoneVars, currentZone, stopVars>>
    BY DEF ClientStep
  <2> QED BY <2>1, <2>2, <2>3, <2>4, <2>5 DEF LinkTypeOK
<1>2. ASSUME ReadError(c) \/ SendError(c) PROVE TypeOK'
  <2>1. /\ link' \in [Clients -> {"none", "open", "closed"}]
        /\ closing' \in [Clients -> Threads]
    BY <1>0, <1>2, DisconnectType DEF ReadError, SendError
  <2> QED BY <1>2, <2>1 DEF ReadError, SendError, ClientStep
<1>3. ASSUME ReadAbandoned(c) PROVE TypeOK'
  BY <1>3 DEF ReadAbandoned, ClientStep, linkVars
<1>4. ASSUME HeartbeatTimeout(c) PROVE TypeOK'
  <2>1. LinkTypeOK'
    BY <1>0, <1>4, StopClientType DEF HeartbeatTimeout
  <2> QED BY <1>4, <2>1 DEF HeartbeatTimeout, ClientStep, LinkTypeOK
<1>5. ASSUME StopGoesOn(c) PROVE TypeOK'
  <2>1. /\ link' \in [Clients -> {"none", "open", "closed"}]
        /\ closing' \in [Clients -> Threads]
    BY <1>5, DisconnectType DEF StopGoesOn
  <2>2. stopping' \in [Clients -> Threads]
    BY <1>0, <1>5 DEF StopGoesOn
  <2> QED BY <1>5, <2>1, <2>2 DEF StopGoesOn, ClientStep
<1>6. ASSUME PostRemoval(c) PROVE TypeOK'
  <2>1. serverQ' \in Seq(ServerHandlers)
    BY <1>0, <1>6, HandlerTypes, AppendIndex DEF PostRemoval
  <2>2. closing' \in [Clients -> Threads]
    BY <1>0, <1>6 DEF PostRemoval
  <2> QED BY <1>6, <2>1, <2>2 DEF PostRemoval, ClientStep
<1> QED BY <1>1, <1>2, <1>3, <1>4, <1>5, <1>6 DEF ClientStep

\* What a handler of the server strand is, and what is left when it is popped.
LEMMA HeadType ==
  ASSUME StrandsTypeOK, serverQ # <<>>
  PROVE  /\ Head(serverQ) \in ServerHandlers
         /\ Head(serverQ).zone \in Targets
         /\ Rest \in Seq(ServerHandlers)
<1>1. Head(serverQ) \in ServerHandlers /\ Rest \in Seq(ServerHandlers)
  BY TailIndex DEF StrandsTypeOK, Rest
<1> QED BY <1>1 DEF ServerHandlers, Targets

\* Posting to a zone, and popping a handler of a zone, keep the types.
LEMMA PostType ==
  ASSUME StrandsTypeOK, NEW z \in Zones, NEW h \in ZoneHandlers, Post(z, h)
  PROVE  zoneQ' \in [Zones -> Seq(ZoneHandlers)]
<1>1. zoneQ[z] \in Seq(ZoneHandlers)
  BY DEF StrandsTypeOK
<1>2. Append(zoneQ[z], h) \in Seq(ZoneHandlers)
  BY <1>1, AppendIndex
<1> QED BY <1>2 DEF Post, StrandsTypeOK

\* The queue of a zone after a handler that posts nothing, or a tick.
LEMMA RepostingIs ==
  ASSUME NEW S, NEW q \in Seq(S), NEW t \in S
  PROVE  q \o <<>> = q /\ q \o <<t>> = Append(q, t)
  OBVIOUS

LEMMA RepostingType ==
  ASSUME StrandsTypeOK, NEW z \in Zones, zoneQ[z] # <<>>,
         Reposting(z, <<>>) \/ Reposting(z, <<ZoneTick>>)
  PROVE  zoneQ' \in [Zones -> Seq(ZoneHandlers)]
<1>1. Tail(zoneQ[z]) \in Seq(ZoneHandlers)
  BY TailIndex DEF StrandsTypeOK
<1>2. ZoneTick \in ZoneHandlers
  BY DEF ZoneTick, ZoneHandlers
<1>3. /\ Tail(zoneQ[z]) \o <<>> \in Seq(ZoneHandlers)
      /\ Tail(zoneQ[z]) \o <<ZoneTick>> \in Seq(ZoneHandlers)
  BY <1>1, <1>2
<1> QED BY <1>3 DEF Reposting, StrandsTypeOK

\* The handlers of the server strand keep the types.
LEMMA HandlerStepType ==
  ASSUME TypeOK, NEW c \in Clients, HandlerStep(c)
  PROVE  TypeOK'
<1> USE DEF TypeOK, StrandsTypeOK, ClientTypeOK, ZoneTypeOK, clientVars, zoneVars,
            stopVars
<1>0. /\ serverQ # <<>> /\ Rest \in Seq(ServerHandlers)
      /\ Head(serverQ).zone \in Targets
  <2>1. serverQ # <<>>
    BY DEF HandlerStep, ServerAddClient, ServerRemoveClient, HandleJoin, HandlePing,
           HandleEnter, HandleZonePacket, Handles
  <2> QED BY <2>1, HeadType
<1>1. Refuse(c) => LinkTypeOK' /\ serverQ' \in Seq(ServerHandlers)
  BY <1>0, StopClientType, ThreadNames DEF Refuse
<1>2. Done => LinkTypeOK' /\ serverQ' \in Seq(ServerHandlers)
  BY <1>0, LinkTypeSame DEF Done
<1>3. \A z \in Zones, h \in ZoneHandlers : Post(z, h) => zoneQ' \in [Zones -> Seq(ZoneHandlers)]
  BY PostType
<1>4. /\ ZoneAdd(c) \in ZoneHandlers /\ ZoneRemove(c) \in ZoneHandlers
      /\ ZonePacket(c) \in ZoneHandlers
  BY HandlerTypes
<1>5. ASSUME ServerAddClient(c) PROVE TypeOK'
  BY <1>0, <1>5 DEF ServerAddClient
<1>6. ASSUME ServerRemoveClient(c) PROVE TypeOK'
  <2>1. LinkTypeOK' /\ serverQ' \in Seq(ServerHandlers)
    BY <1>1, <1>6, LinkTypeSame DEF ServerRemoveClient
  <2>2. zoneQ' \in [Zones -> Seq(ZoneHandlers)]
    BY <1>3, <1>4, <1>6 DEF ServerRemoveClient
  <2>3. /\ currentZone' \in [Clients -> Zones \cup {Nowhere, Absent}]
        /\ crashed' \in {"no", "null_player", "zone_gone", "uncaught"}
    BY <1>6 DEF ServerRemoveClient
  <2> QED BY <1>6, <2>1, <2>2, <2>3 DEF ServerRemoveClient, LinkTypeOK
<1>7. ASSUME HandleJoin(c) PROVE TypeOK'
  <2>1. LinkTypeOK' /\ serverQ' \in Seq(ServerHandlers)
    BY <1>1, <1>2, <1>7 DEF HandleJoin
  <2>2. authenticated' \in [Clients -> BOOLEAN]
    <3>1. \/ authenticated' = authenticated
          \/ authenticated' = [authenticated EXCEPT ![c] = TRUE]
      BY <1>7 DEF HandleJoin
    <3> QED BY <3>1
  <2>3. joining' \in [Clients -> Nat]
    <3>1. joining' = joining \/ joining' = [joining EXCEPT ![c] = @ + 1]
      BY <1>7 DEF HandleJoin
    <3>2. joining[c] + 1 \in Nat
      OBVIOUS
    <3> QED BY <3>1, <3>2
  <2> QED BY <1>7, <2>1, <2>2, <2>3 DEF HandleJoin, HandlerElsewhere, LinkTypeOK
<1>8. ASSUME HandlePing(c) PROVE TypeOK'
  BY <1>2, <1>8 DEF HandlePing, HandlerElsewhere, LinkTypeOK
<1>9. ASSUME HandleEnter(c) PROVE TypeOK'
  <2> DEFINE to == Head(serverQ).zone
  <2>1. LinkTypeOK' /\ serverQ' \in Seq(ServerHandlers)
    BY <1>1, <1>2, <1>9 DEF HandleEnter
  <2>2. zoneQ' \in [Zones -> Seq(ZoneHandlers)]
    <3>1. \A z \in Zones : /\ zoneQ[z] \in Seq(ZoneHandlers)
                           /\ Append(zoneQ[z], ZoneAdd(c)) \in Seq(ZoneHandlers)
                           /\ Append(zoneQ[z], ZoneRemove(c)) \in Seq(ZoneHandlers)
      BY <1>4, AppendIndex
    <3> QED BY <1>9, <3>1 DEF HandleEnter
  <2>3. currentZone' \in [Clients -> Zones \cup {Nowhere, Absent}]
    <3>1. MayMove(currentZone[c], to) => to \in Zones
      BY DEF MayMove
    <3> QED BY <1>9, <3>1 DEF HandleEnter
  <2> QED BY <1>9, <2>1, <2>2, <2>3 DEF HandleEnter, HandlerElsewhere, LinkTypeOK
<1>10. ASSUME HandleZonePacket(c) PROVE TypeOK'
  <2>1. LinkTypeOK' /\ serverQ' \in Seq(ServerHandlers)
    BY <1>1, <1>2, <1>10 DEF HandleZonePacket
  <2>2. zoneQ' \in [Zones -> Seq(ZoneHandlers)]
    BY <1>3, <1>4, <1>10 DEF HandleZonePacket
  <2> QED BY <1>10, <2>1, <2>2 DEF HandleZonePacket, HandlerElsewhere, LinkTypeOK
<1> QED BY <1>5, <1>6, <1>7, <1>8, <1>9, <1>10 DEF HandlerStep

\* The resumption of a suspended join keeps the types.
LEMMA JoinStepType ==
  ASSUME TypeOK, NEW c \in Clients, JoinStep(c)
  PROVE  TypeOK'
<1> USE DEF TypeOK, StrandsTypeOK, ClientTypeOK, ZoneTypeOK, zoneVars, stopVars
<1>0. serverQ \in Seq(ServerHandlers)
  OBVIOUS
<1>1. Resumes(c) => joining' \in [Clients -> Nat]
  <2>1. ASSUME joining[c] > 0 PROVE joining[c] - 1 \in Nat
    BY <2>1
  <2> QED BY <2>1 DEF Resumes
<1>2. StopClient(c, "strand") => LinkTypeOK'
  BY StopClientType, ThreadNames
<1>3. ASSUME JoinDropped(c) PROVE TypeOK'
  BY <1>1, <1>3 DEF JoinDropped, Resumes, linkVars
<1>4. ASSUME JoinRejected(c) PROVE TypeOK'
  BY <1>1, <1>2, <1>4 DEF JoinRejected, Resumes, LinkTypeOK
<1>5. ASSUME JoinLoadFails(c) PROVE TypeOK'
  BY <1>1, <1>2, <1>5 DEF JoinLoadFails, Load, Resumes, LinkTypeOK
<1>6. ASSUME JoinLoaded(c) PROVE TypeOK'
  <2>1. loads' \in [Clients -> Nat]
    BY <1>6 DEF JoinLoaded, Load
  <2>2. player' \in [Clients -> Nat]
    BY <1>6, <2>1 DEF JoinLoaded, Load
  <2>3. dialogue' \in [Clients -> {"new", "asked", "welcomed"}]
    BY <1>6 DEF JoinLoaded, Load
  <2> QED BY <1>1, <1>6, <2>1, <2>2, <2>3 DEF JoinLoaded, Load, Resumes, linkVars
<1> QED BY <1>3, <1>4, <1>5, <1>6 DEF JoinStep

\* The handlers of a zone keep the types.
LEMMA ZoneRunsType ==
  ASSUME TypeOK, NEW z \in Zones, ZoneRuns(z)
  PROVE  TypeOK'
<1> USE DEF TypeOK, StrandsTypeOK, ClientTypeOK, ZoneTypeOK, clientVars, zoneVars,
            stopVars
<1>0. UNCHANGED <<currentZone, phase, toStop, late>>
  BY DEF ZoneRuns
<1>1. ASSUME NullPlayer PROVE TypeOK'
  BY <1>0, <1>1 DEF NullPlayer
<1>2. ASSUME NEW op, Runs(z, op)
      PROVE  zoneQ[z] # <<>> /\ (op # "tick" => Head(zoneQ[z]).client \in Clients)
  <2>1. Head(zoneQ[z]) \in ZoneHandlers
    BY <1>2, TailIndex DEF Runs
  <2> QED BY <1>2, <2>1 DEF Runs, ZoneHandlers
<1>3. ASSUME zoneQ[z] # <<>>, Reposting(z, <<>>) \/ Reposting(z, <<ZoneTick>>)
      PROVE  zoneQ' \in [Zones -> Seq(ZoneHandlers)]
  BY <1>3, RepostingType
<1>4. ASSUME Add(z), ~NullPlayer PROVE TypeOK'
  <2> DEFINE c == Head(zoneQ[z]).client
  <2>1. zoneQ[z] # <<>> /\ c \in Clients
    BY <1>2, <1>4 DEF Add
  <2>2. zoneQ' \in [Zones -> Seq(ZoneHandlers)]
    BY <1>3, <1>4, <2>1 DEF Add, Start, Finish
  <2>3. zoneRunning' \in [Zones -> BOOLEAN]
    BY <1>4 DEF Add, Start
  <2>4. zoneClients' \in [Zones -> SUBSET Clients]
    <3>1. zoneClients' = [zoneClients EXCEPT ![z] = @ \cup {c}]
      BY <1>4 DEF Add
    <3>2. zoneClients[z] \cup {c} \in SUBSET Clients
      BY <2>1
    <3> QED BY <3>1, <3>2
  <2>5. entities' \in [Zones -> SUBSET (Clients \X Nat)]
    <3>1. entities' = [entities EXCEPT ![z] = @ \cup {PlayerEntity(c)}]
      BY <1>4 DEF Add
    <3>2. entities[z] \cup {PlayerEntity(c)} \in SUBSET (Clients \X Nat)
      BY <2>1 DEF PlayerEntity
    <3> QED BY <3>1, <3>2
  <2> QED BY <1>0, <1>4, <2>2, <2>3, <2>4, <2>5 DEF Add, ZoneElsewhere
<1>5. ASSUME Remove(z), ~NullPlayer PROVE TypeOK'
  <2> DEFINE c == Head(zoneQ[z]).client
  <2>1. zoneQ' \in [Zones -> Seq(ZoneHandlers)]
    BY <1>2, <1>3, <1>5 DEF Remove, Finish
  <2>2. zoneRunning' \in [Zones -> BOOLEAN]
    BY <1>5 DEF Remove
  <2>3. zoneClients' \in [Zones -> SUBSET Clients]
    <3>1. zoneClients' = [zoneClients EXCEPT ![z] = @ \ {c}]
      BY <1>5 DEF Remove
    <3>2. zoneClients[z] \ {c} \in SUBSET Clients
      OBVIOUS
    <3> QED BY <3>1, <3>2
  <2>4. entities' \in [Zones -> SUBSET (Clients \X Nat)]
    <3>1. \/ entities' = entities
          \/ entities' = [entities EXCEPT ![z] = @ \ {PlayerEntity(c)}]
      BY <1>5 DEF Remove
    <3>2. entities[z] \ {PlayerEntity(c)} \in SUBSET (Clients \X Nat)
      OBVIOUS
    <3> QED BY <3>1, <3>2
  <2> QED BY <1>0, <1>5, <2>1, <2>2, <2>3, <2>4 DEF Remove, ZoneElsewhere
<1>6. ASSUME Packet(z), ~NullPlayer PROVE TypeOK'
  <2>1. zoneQ' \in [Zones -> Seq(ZoneHandlers)]
    BY <1>2, <1>3, <1>6 DEF Packet, Finish
  <2> QED BY <1>0, <1>6, <2>1 DEF Packet, ZoneElsewhere
<1>7. ASSUME Tick(z) PROVE TypeOK'
  <2>1. zoneQ' \in [Zones -> Seq(ZoneHandlers)]
    BY <1>2, <1>3, <1>7 DEF Tick
  <2> QED BY <1>0, <1>7, <2>1 DEF Tick, ZoneElsewhere
<1>8. ASSUME DestroyedZone(z) PROVE TypeOK'
  BY <1>0, <1>8 DEF DestroyedZone
<1> QED BY <1>1, <1>4, <1>5, <1>6, <1>7, <1>8 DEF ZoneRuns, ZoneStep

\* Accepting and stopping keep the types.
LEMMA LifecycleType ==
  ASSUME TypeOK,
         (\E c \in Clients : Accept(c)) \/ StopServer \/ CleanupStep \/ Halt
  PROVE  TypeOK'
<1> USE DEF TypeOK, StrandsTypeOK, ClientTypeOK, ZoneTypeOK, clientVars, zoneVars
<1>0. serverQ \in Seq(ServerHandlers)
  OBVIOUS
<1>1. ASSUME NEW c \in Clients, Accept(c) PROVE TypeOK'
  <2>1. Append(serverQ, AddClient(c)) \in Seq(ServerHandlers)
    BY HandlerTypes, AppendIndex
  <2> QED BY <1>1, <2>1 DEF Accept
<1>2. ASSUME StopServer PROVE TypeOK'
  <2>1. Cleanup \in ServerHandlers
    BY DEF Cleanup, ServerHandlers, Targets
  <2>2. Append(serverQ, Cleanup) \in Seq(ServerHandlers)
    BY <2>1, AppendIndex
  <2> QED BY <1>2, <2>2 DEF StopServer
<1>3. ASSUME CleanupBegin PROVE TypeOK'
  <2>1. Rest \in Seq(ServerHandlers)
    BY <1>3, HeadType DEF CleanupBegin, Handles
  <2> QED BY <1>3, <2>1 DEF CleanupBegin
<1>4. ASSUME NEW c \in Clients, CleanupStopClient(c) PROVE TypeOK'
  <2>1. LinkTypeOK'
    BY <1>4, StopClientType, ThreadNames DEF CleanupStopClient
  <2> QED BY <1>4, <2>1 DEF CleanupStopClient, LinkTypeOK
<1>5. ASSUME CleanupZones PROVE TypeOK'
  BY <1>5 DEF CleanupZones
<1>6. ASSUME Halt PROVE TypeOK'
  BY <1>6 DEF Halt
<1> QED BY <1>1, <1>2, <1>3, <1>4, <1>5, <1>6 DEF CleanupStep

\* TypeOK, the type invariant: every variable keeps its type, whatever the
\* threads, strands and clients do.
THEOREM TypeCorrect == Spec => []TypeOK
<1>1. ASSUME Init PROVE TypeOK
  <2>1. StrandsTypeOK
    <3>1. <<>> \in Seq(ServerHandlers) /\ <<>> \in Seq(ZoneHandlers)
      OBVIOUS
    <3> QED BY <1>1, <3>1 DEF Init, StrandsTypeOK
  <2>2. ClientTypeOK
    BY <1>1 DEF Init, ClientInit, ClientTypeOK, Threads
  <2>3. ZoneTypeOK
    BY <1>1 DEF Init, ZoneInit, ZoneTypeOK
  <2> QED BY <1>1, <2>1, <2>2, <2>3 DEF Init, TypeOK
<1>2. TypeOK /\ [Next]_vars => TypeOK'
  <2> SUFFICES ASSUME TypeOK, [Next]_vars PROVE TypeOK'
    OBVIOUS
  <2>1. CASE UNCHANGED vars
    BY <2>1 DEF vars, TypeOK, StrandsTypeOK, ClientTypeOK, ZoneTypeOK, clientVars, zoneVars
  <2>2. CASE Next
    BY <2>2, ClientAssumption, ClientStepType, HandlerStepType, JoinStepType, ZoneRunsType,
       LifecycleType DEF Next
  <2> QED BY <2>1, <2>2
<1> QED BY <1>1, <1>2, PTL DEF Spec
-----------------------------------------------------------------------------
(***************************************************************************)
(* Registration.  The server queue q, the link and the registration of a   *)
(* client move in step: the addition is pending before the client is       *)
(* registered, the removal is with the thread that closed the link and     *)
(* then pending until the client is erased, and neither is ever posted     *)
(* twice.                                                                  *)
(***************************************************************************)
RegisteredFor(q, c) ==
  /\ Once(q, AddClient(c)) /\ Once(q, RemoveClient(c))
  /\ link[c] = "none" => /\ ~Pending(q, AddClient(c)) /\ ~Pending(q, RemoveClient(c))
                         /\ ~Registered(c) /\ closing[c] = "no"
  /\ link[c] = "open" => /\ ~Pending(q, RemoveClient(c)) /\ closing[c] = "no"
                         /\ Registered(c) <=> ~Pending(q, AddClient(c))
  /\ link[c] = "closed" => /\ ~Pending(q, AddClient(c))
                           /\ Registered(c) <=> closing[c] # "no" \/ Pending(q, RemoveClient(c))
                           /\ closing[c] # "no" => ~Pending(q, RemoveClient(c))
  /\ running[c] => Registered(c)
  /\ reading[c] # "unopened" \/ stopping[c] # "no" =>
       link[c] # "none" /\ ~Pending(q, AddClient(c))

Registration(q) == \A c \in Clients : RegisteredFor(q, c)

\* The inductive invariant behind NoUncaughtException and its companions.
RegistrationInv == Registration(serverQ) /\ NoUncaughtException

\* The server handlers, told apart.
LEMMA ServerHandlersDiffer ==
  ASSUME NEW c, NEW d
  PROVE  /\ AddClient(c) # RemoveClient(d)
         /\ AddClient(c) = AddClient(d) <=> c = d
         /\ RemoveClient(c) = RemoveClient(d) <=> c = d
         /\ AddClient(c).op = "add_client" /\ AddClient(c).client = c
         /\ RemoveClient(c).op = "remove_client" /\ RemoveClient(c).client = c
<1>1. AddClient(c).op = "add_client" /\ AddClient(c).client = c
  BY DEF AddClient
<1>2. RemoveClient(d).op = "remove_client" /\ RemoveClient(d).client = d
  BY DEF RemoveClient
<1>3. AddClient(d).client = d /\ RemoveClient(c).client = c
      /\ RemoveClient(c).op = "remove_client"
  BY DEF AddClient, RemoveClient
<1> QED BY <1>1, <1>2, <1>3

LEMMA ServerHandlerIs ==
  ASSUME NEW h \in ServerHandlers
  PROVE  /\ h.op = "add_client" => h = AddClient(h.client)
         /\ h.op = "remove_client" => h = RemoveClient(h.client)
  BY DEF ServerHandlers, PacketOps, AddClient, RemoveClient

\* Running a handler that neither adds nor removes a client.
LEMMA RegistrationPop ==
  ASSUME StrandsTypeOK, Registration(serverQ), serverQ # <<>>,
         Head(serverQ).op \notin {"add_client", "remove_client"}
  PROVE  Registration(Rest)
<1>1. serverQ \in Seq(ServerHandlers)
  BY DEF StrandsTypeOK
<1> SUFFICES ASSUME NEW c \in Clients PROVE RegisteredFor(Rest, c)
  BY DEF Registration
<1>2. Head(serverQ) # AddClient(c) /\ Head(serverQ) # RemoveClient(c)
  BY ServerHandlersDiffer
<1>3. /\ Pending(Rest, AddClient(c)) <=> Pending(serverQ, AddClient(c))
      /\ Pending(Rest, RemoveClient(c)) <=> Pending(serverQ, RemoveClient(c))
  BY <1>1, <1>2, PendingTail DEF Rest
<1>4. RegisteredFor(serverQ, c)
  BY DEF Registration
<1>5. Once(Rest, AddClient(c)) /\ Once(Rest, RemoveClient(c))
  BY <1>1, <1>4, OnceTail DEF Rest, RegisteredFor
<1> QED BY <1>3, <1>4, <1>5 DEF RegisteredFor

\* Posting a handler that neither adds nor removes a client.
LEMMA RegistrationPost ==
  ASSUME NEW q \in Seq(ServerHandlers), Registration(q), NEW h \in ServerHandlers,
         h.op \notin {"add_client", "remove_client"}
  PROVE  Registration(Append(q, h))
<1> SUFFICES ASSUME NEW c \in Clients PROVE RegisteredFor(Append(q, h), c)
  BY DEF Registration
<1>2. h # AddClient(c) /\ h # RemoveClient(c)
  BY ServerHandlersDiffer
<1>3. /\ Pending(Append(q, h), AddClient(c)) <=> Pending(q, AddClient(c))
      /\ Pending(Append(q, h), RemoveClient(c)) <=> Pending(q, RemoveClient(c))
  BY <1>2, PendingAppend
<1>4. RegisteredFor(q, c)
  BY DEF Registration
<1>5. Once(Append(q, h), AddClient(c)) /\ Once(Append(q, h), RemoveClient(c))
  BY <1>2, <1>4, OnceAppend DEF RegisteredFor
<1> QED BY <1>3, <1>4, <1>5 DEF RegisteredFor

\* Disconnecting a client that has been started, by whichever thread.
LEMMA RegistrationDisconnect ==
  ASSUME ClientTypeOK, Registration(serverQ), NEW c \in Clients,
         NEW t \in {"pool", "strand"}, Disconnect(c, t),
         reading[c] # "unopened" \/ stopping[c] # "no",
         \A d \in Clients : reading'[d] # "unopened" => reading[d] # "unopened",
         \A d \in Clients : stopping'[d] # "no" => stopping[d] # "no",
         UNCHANGED <<serverQ, running, currentZone>>
  PROVE  Registration(serverQ)'
<1> SUFFICES ASSUME NEW d \in Clients PROVE RegisteredFor(serverQ, d)'
  BY DEF Registration
<1>1. RegisteredFor(serverQ, d) /\ RegisteredFor(serverQ, c)
  BY DEF Registration
<1>2. CASE link[c] # "open"
  BY <1>1, <1>2 DEF Disconnect, RegisteredFor, Registered
<1>3. CASE link[c] = "open"
  <2>1. /\ link'[d] = IF d = c THEN "closed" ELSE link[d]
        /\ closing'[d] = IF d = c THEN t ELSE closing[d]
    BY <1>3 DEF Disconnect, ClientTypeOK
  <2>2. CASE d = c
    BY <1>1, <1>3, <2>1, <2>2 DEF RegisteredFor, Registered
  <2>3. CASE d # c
    BY <1>1, <2>1, <2>3 DEF RegisteredFor, Registered
  <2> QED BY <2>2, <2>3
<1> QED BY <1>2, <1>3

\* The callback of the disconnection posts the removal.
LEMMA RegistrationRemoval ==
  ASSUME TypeOK, Registration(serverQ), NEW c \in Clients, PostRemoval(c),
         UNCHANGED currentZone
  PROVE  Registration(serverQ)'
<1> DEFINE h == RemoveClient(c)  r == Append(serverQ, h)
<1>1. serverQ \in Seq(ServerHandlers) /\ h \in ServerHandlers
  BY HandlerTypes DEF TypeOK, StrandsTypeOK
<1> SUFFICES ASSUME NEW d \in Clients PROVE RegisteredFor(serverQ, d)'
  BY DEF Registration
<1>2. RegisteredFor(serverQ, d) /\ RegisteredFor(serverQ, c)
  BY DEF Registration
<1>3. link[c] = "closed" /\ Registered(c) /\ ~Pending(serverQ, h)
  BY <1>2 DEF PostRemoval, RegisteredFor, TypeOK, ClientTypeOK
<1>4. /\ Pending(r, AddClient(d)) <=> Pending(serverQ, AddClient(d))
      /\ Pending(r, RemoveClient(d)) <=> Pending(serverQ, RemoveClient(d)) \/ c = d
  BY <1>1, PendingAppend, ServerHandlersDiffer
<1>5. Once(r, AddClient(d)) /\ Once(r, RemoveClient(d))
  <2>1. h # AddClient(d) /\ (h = RemoveClient(d) => ~Pending(serverQ, RemoveClient(d)))
    BY <1>3, ServerHandlersDiffer
  <2>2. Once(serverQ, AddClient(d)) /\ Once(serverQ, RemoveClient(d))
    BY <1>2 DEF RegisteredFor
  <2> QED BY <1>1, <2>1, <2>2, OnceAppend
<1>6. /\ serverQ' = r /\ closing'[d] = IF d = c THEN "no" ELSE closing[d]
      /\ UNCHANGED <<link, running, stopping, reading, currentZone>>
  BY DEF PostRemoval, TypeOK, ClientTypeOK
<1> HIDE DEF r
<1>7. CASE d = c
  BY <1>2, <1>3, <1>4, <1>5, <1>6, <1>7 DEF RegisteredFor, Registered
<1>8. CASE d # c
  BY <1>2, <1>4, <1>5, <1>6, <1>8 DEF RegisteredFor, Registered
<1> QED BY <1>7, <1>8

\* Stopping a client up to the exchange on _is_running, with q the queue then.
LEMMA RegistrationStop ==
  ASSUME ClientTypeOK, NEW q, Registration(q), serverQ' = q,
         NEW c \in Clients, NEW t, StopClient(c, t),
         \A d \in Clients : reading'[d] # "unopened" => reading[d] # "unopened",
         UNCHANGED currentZone
  PROVE  Registration(serverQ)'
<1> SUFFICES ASSUME NEW d \in Clients PROVE RegisteredFor(serverQ, d)'
  BY DEF Registration
<1>1. RegisteredFor(q, d)
  BY DEF Registration
<1>2. /\ running'[d] => running[d]
      /\ stopping'[d] # "no" => stopping[d] # "no" \/ (running[d] /\ link[d] = "open")
      /\ UNCHANGED <<link, closing>>
  BY DEF StopClient, ClientTypeOK
<1> QED BY <1>1, <1>2 DEF RegisteredFor, Registered

\* Only the registration and the removal of a client move it in or out.
LEMMA RegistrationStep ==
  ASSUME TypeOK, RegistrationInv, [Next]_vars
  PROVE  RegistrationInv'
<1> USE DEF TypeOK, StrandsTypeOK, ClientTypeOK
<1>1. serverQ \in Seq(ServerHandlers)
  OBVIOUS
<1>2. ASSUME UNCHANGED <<serverQ, linkVars, reading, currentZone>>
      PROVE  Registration(serverQ)'
  BY <1>2 DEF RegistrationInv, Registration, RegisteredFor, Registered, linkVars
<1>3. ASSUME NEW c \in Clients, Accept(c) PROVE Registration(serverQ)'
  <2> DEFINE h == AddClient(c)  r == Append(serverQ, h)
  <2>1. h \in ServerHandlers /\ serverQ' = r
    BY <1>3, HandlerTypes DEF Accept
  <2> SUFFICES ASSUME NEW d \in Clients PROVE RegisteredFor(serverQ, d)'
    BY DEF Registration
  <2>2. RegisteredFor(serverQ, c) /\ RegisteredFor(serverQ, d)
    BY DEF RegistrationInv, Registration
  <2>3. /\ Pending(r, RemoveClient(d)) <=> Pending(serverQ, RemoveClient(d))
        /\ Pending(r, AddClient(d)) <=> Pending(serverQ, AddClient(d)) \/ c = d
    <3>1. h # RemoveClient(d) /\ (h = AddClient(d) <=> c = d)
      BY ServerHandlersDiffer
    <3> QED BY <1>1, <2>1, <3>1, PendingAppend
  <2>4. ~Pending(serverQ, h) /\ ~Pending(serverQ, RemoveClient(c)) /\ ~Registered(c)
        /\ reading[c] = "unopened" /\ stopping[c] = "no" /\ closing[c] = "no"
        /\ ~running[c]
    BY <1>3, <2>2 DEF Accept, RegisteredFor
  <2>5. Once(r, AddClient(d)) /\ Once(r, RemoveClient(d))
    <3>1. h # RemoveClient(d) /\ (h = AddClient(d) => ~Pending(serverQ, AddClient(d)))
      BY <2>4, ServerHandlersDiffer
    <3>2. Once(serverQ, AddClient(d)) /\ Once(serverQ, RemoveClient(d))
      BY <2>2 DEF RegisteredFor
    <3> QED BY <1>1, <2>1, <3>1, <3>2, OnceAppend
  <2>6. /\ link'[d] = IF d = c THEN "open" ELSE link[d]
        /\ UNCHANGED <<running, stopping, closing, reading, currentZone>>
    BY <1>3 DEF Accept
  <2>7. CASE d = c
    BY <2>1, <2>3, <2>4, <2>5, <2>6, <2>7 DEF RegisteredFor, Registered
  <2>8. CASE d # c
    BY <2>1, <2>2, <2>3, <2>5, <2>6, <2>8 DEF RegisteredFor, Registered
  <2> QED BY <2>7, <2>8
<1>4. ASSUME NEW c \in Clients, ClientStep(c) PROVE Registration(serverQ)'
  <2>0. UNCHANGED currentZone /\ Sends[c] \in SUBSET Packets
    BY <1>4, ClientAssumption DEF ClientStep
  <2>1. ASSUME NEW p \in Packets, PacketReceived(c, p) PROVE Registration(serverQ)'
    <3>1. \A d \in Clients : reading'[d] # "unopened" => reading[d] # "unopened"
      BY <2>1 DEF PacketReceived
    <3>2. CASE p.op = "invalid"
      BY <2>0, <2>1, <3>1, <3>2, RegistrationStop DEF PacketReceived, RegistrationInv
    <3>3. CASE p.op # "invalid"
      <4>1. /\ HandlePacket(c, p) \in ServerHandlers
            /\ HandlePacket(c, p).op \notin {"add_client", "remove_client"}
        BY <3>3, HandlerTypes DEF HandlePacket, Packets, PacketOps
      <4>2. Registration(Append(serverQ, HandlePacket(c, p)))
        BY <1>1, <4>1, RegistrationPost DEF RegistrationInv
      <4>3. serverQ' = Append(serverQ, HandlePacket(c, p)) /\ UNCHANGED linkVars
        BY <2>1, <3>3 DEF PacketReceived
      <4> QED BY <2>0, <3>1, <4>2, <4>3 DEF Registration, RegisteredFor, Registered, linkVars
    <3> QED BY <3>2, <3>3
  <2>2. ASSUME ReadError(c) \/ SendError(c) PROVE Registration(serverQ)'
    <3>1. /\ reading[c] # "unopened" /\ Disconnect(c, "pool")
          /\ \A d \in Clients : reading'[d] # "unopened" => reading[d] # "unopened"
          /\ UNCHANGED <<serverQ, running, stopping>>
      BY <2>2 DEF ReadError, SendError
    <3> QED BY <2>0, <3>1, RegistrationDisconnect DEF RegistrationInv
  <2>3. ASSUME ReadAbandoned(c) PROVE Registration(serverQ)'
    <3>1. \A d \in Clients : reading'[d] # "unopened" => reading[d] # "unopened"
      BY <2>3 DEF ReadAbandoned
    <3>2. UNCHANGED <<serverQ, linkVars>>
      BY <2>3 DEF ReadAbandoned
    <3> QED BY <2>0, <3>1, <3>2
          DEF RegistrationInv, Registration, RegisteredFor, Registered, linkVars
  <2>4. ASSUME HeartbeatTimeout(c) PROVE Registration(serverQ)'
    BY <2>0, <2>4, RegistrationStop DEF HeartbeatTimeout, RegistrationInv
  <2>5. ASSUME StopGoesOn(c) PROVE Registration(serverQ)'
    <3>1. /\ stopping[c] \in {"pool", "strand"} /\ Disconnect(c, stopping[c])
          /\ \A d \in Clients : stopping'[d] # "no" => stopping[d] # "no"
          /\ UNCHANGED <<serverQ, running, reading>>
      BY <2>5 DEF StopGoesOn, Threads
    <3> QED BY <2>0, <3>1, RegistrationDisconnect DEF RegistrationInv
  <2>6. ASSUME PostRemoval(c) PROVE Registration(serverQ)'
    BY <2>0, <2>6, RegistrationRemoval DEF RegistrationInv
  <2> QED BY <1>4, <2>0, <2>1, <2>2, <2>3, <2>4, <2>5, <2>6 DEF ClientStep
<1>5. ASSUME serverQ # <<>>, Head(serverQ).op \notin {"add_client", "remove_client"},
             UNCHANGED <<reading, currentZone>>,
             \/ Done
             \/ \E c \in Clients : Refuse(c)
      PROVE  Registration(serverQ)'
  <2>1. Registration(Rest) /\ Rest \in Seq(ServerHandlers)
    BY <1>5, RegistrationPop, HeadType DEF RegistrationInv
  <2>2. CASE Done
    BY <1>5, <2>1, <2>2 DEF Done, Registration, RegisteredFor, Registered, linkVars
  <2>3. ASSUME NEW c \in Clients, Refuse(c) PROVE Registration(serverQ)'
    BY <1>5, <2>1, <2>3, RegistrationStop DEF Refuse
  <2> QED BY <1>5, <2>2, <2>3
<1>6. ASSUME NEW c \in Clients, ServerAddClient(c) PROVE Registration(serverQ)'
  <2> DEFINE h == AddClient(c)
  <2>1. /\ serverQ # <<>> /\ Head(serverQ) \in ServerHandlers
        /\ Head(serverQ).op = "add_client" /\ Head(serverQ).client = c
    BY <1>6, HeadType DEF ServerAddClient, Handles
  <2>2. Head(serverQ) = h
    BY <2>1, ServerHandlerIs
  <2> SUFFICES ASSUME NEW d \in Clients PROVE RegisteredFor(serverQ, d)'
    BY DEF Registration
  <2>3. RegisteredFor(serverQ, c) /\ RegisteredFor(serverQ, d)
    BY DEF RegistrationInv, Registration
  <2>4. Pending(serverQ, h) /\ ~Pending(Rest, h)
    BY <1>1, <2>1, <2>2, <2>3, PendingTail, OnceTail DEF Rest, RegisteredFor
  <2>5. /\ Pending(Rest, RemoveClient(d)) <=> Pending(serverQ, RemoveClient(d))
        /\ d # c => (Pending(Rest, AddClient(d)) <=> Pending(serverQ, AddClient(d)))
    BY <1>1, <2>1, <2>2, PendingTail, ServerHandlersDiffer DEF Rest
  <2>6. Once(Rest, AddClient(d)) /\ Once(Rest, RemoveClient(d))
    BY <1>1, <2>1, <2>3, OnceTail DEF Rest, RegisteredFor
  <2>7. /\ serverQ' = Rest /\ UNCHANGED <<link, stopping, closing>>
        /\ currentZone'[d] = IF d = c THEN Nowhere ELSE currentZone[d]
        /\ running'[d] = IF d = c THEN TRUE ELSE running[d]
        /\ reading'[d] = IF d = c THEN "waiting" ELSE reading[d]
    BY <1>6 DEF ServerAddClient
  <2>8. CASE d = c
    <3>1. link[c] = "open" /\ closing[c] = "no" /\ ~Pending(serverQ, RemoveClient(c))
      BY <2>3, <2>4 DEF RegisteredFor
    <3>2. Registered(d)' /\ ~Pending(Rest, RemoveClient(d)) /\ ~Pending(Rest, AddClient(d))
      BY <2>4, <2>5, <2>7, <2>8, <3>1 DEF Registered, Nowhere, Absent
    <3> QED BY <2>6, <2>7, <2>8, <3>1, <3>2 DEF RegisteredFor
  <2>9. CASE d # c
    BY <2>3, <2>5, <2>6, <2>7, <2>9 DEF RegisteredFor, Registered
  <2> QED BY <2>8, <2>9
<1>7. ASSUME NEW c \in Clients, ServerRemoveClient(c)
      PROVE  Registration(serverQ)' /\ Registered(c)
  <2> DEFINE h == RemoveClient(c)
  <2>1. /\ serverQ # <<>> /\ Head(serverQ) \in ServerHandlers
        /\ Head(serverQ).op = "remove_client" /\ Head(serverQ).client = c
    BY <1>7, HeadType DEF ServerRemoveClient, Handles
  <2>2. Head(serverQ) = h
    BY <2>1, ServerHandlerIs
  <2>3. RegisteredFor(serverQ, c)
    BY DEF RegistrationInv, Registration
  <2>4. Pending(serverQ, h) /\ ~Pending(Rest, h)
    BY <1>1, <2>1, <2>2, <2>3, PendingTail, OnceTail DEF Rest, RegisteredFor
  <2>5. Registered(c) /\ link[c] = "closed" /\ closing[c] = "no"
    BY <2>3, <2>4 DEF RegisteredFor
  <2>6. /\ running' = [running EXCEPT ![c] = FALSE] /\ serverQ' = Rest
        /\ currentZone' = [currentZone EXCEPT ![c] = Absent]
        /\ UNCHANGED <<link, stopping, closing, reading>>
    BY <1>7, <2>5 DEF ServerRemoveClient, Refuse, StopClient
  <2>7. ASSUME NEW d \in Clients PROVE RegisteredFor(serverQ, d)'
    <3>1. RegisteredFor(serverQ, d)
      BY DEF RegistrationInv, Registration
    <3>2. /\ Pending(Rest, AddClient(d)) <=> Pending(serverQ, AddClient(d))
          /\ d # c => (Pending(Rest, RemoveClient(d)) <=> Pending(serverQ, RemoveClient(d)))
      BY <1>1, <2>1, <2>2, PendingTail, ServerHandlersDiffer DEF Rest
    <3>3. Once(Rest, AddClient(d)) /\ Once(Rest, RemoveClient(d))
      BY <1>1, <2>1, <3>1, OnceTail DEF Rest, RegisteredFor
    <3>4. /\ currentZone'[d] = IF d = c THEN Absent ELSE currentZone[d]
          /\ running'[d] = IF d = c THEN FALSE ELSE running[d]
      BY <2>6
    <3>5. CASE d = c
      BY <2>4, <2>5, <2>6, <3>1, <3>2, <3>3, <3>4, <3>5 DEF RegisteredFor, Registered
    <3>6. CASE d # c
      BY <2>6, <3>1, <3>2, <3>3, <3>4, <3>6 DEF RegisteredFor, Registered
    <3> QED BY <3>5, <3>6
  <2> QED BY <2>5, <2>7 DEF Registration
<1>8. ASSUME NEW c \in Clients, HandlePing(c) PROVE Registration(serverQ)'
  BY <1>5, <1>8 DEF HandlePing, Handles, HandlerElsewhere
<1>9. ASSUME NEW c \in Clients, HandleJoin(c) PROVE Registration(serverQ)'
  <2>1. /\ serverQ # <<>> /\ Head(serverQ).op = "join"
        /\ UNCHANGED <<reading, currentZone>>
        /\ Refuse(c) \/ Done
    BY <1>9 DEF HandleJoin, Handles, HandlerElsewhere
  <2> QED BY <1>5, <2>1
<1>10. ASSUME NEW c \in Clients, HandleZonePacket(c) PROVE Registration(serverQ)'
  <2>1. /\ serverQ # <<>> /\ Head(serverQ).op = "zone_packet"
        /\ UNCHANGED <<reading, currentZone>>
        /\ Refuse(c) \/ Done
    BY <1>10 DEF HandleZonePacket, Handles, HandlerElsewhere
  <2> QED BY <1>5, <2>1
<1>11. ASSUME NEW c \in Clients, HandleEnter(c) PROVE Registration(serverQ)'
  <2>1. /\ serverQ # <<>> /\ Head(serverQ).op = "enter" /\ reading' = reading
        /\ Refuse(c) \/ Done
    BY <1>11 DEF HandleEnter, Handles, HandlerElsewhere
  <2>2. \A d \in Clients : Registered(d)' <=> Registered(d)
    <3>1. \/ currentZone' = currentZone
          \/ /\ currentZone[c] # Absent
             /\ Head(serverQ).zone \in liveZones
             /\ currentZone' = [currentZone EXCEPT ![c] = Head(serverQ).zone]
      BY <1>11 DEF HandleEnter, MayMove
    <3>2. Absent \notin liveZones
      BY StrandsAssumption DEF ZoneTypeOK
    <3> QED BY <3>1, <3>2 DEF Registered
  <2>3. Registration(Rest) /\ Rest \in Seq(ServerHandlers)
    BY <2>1, RegistrationPop, HeadType DEF RegistrationInv
  <2>4. CASE Done
    BY <2>1, <2>2, <2>3, <2>4 DEF Done, Registration, RegisteredFor, linkVars
  <2>5. CASE Refuse(c) /\ UNCHANGED currentZone
    BY <2>1, <2>3, <2>5, RegistrationStop DEF Refuse
  <2> QED BY <1>11, <2>4, <2>5 DEF HandleEnter
<1>12. ASSUME NEW c \in Clients, JoinStep(c) PROVE Registration(serverQ)'
  <2>1. UNCHANGED <<reading, currentZone>>
    BY <1>12 DEF JoinStep, JoinDropped, JoinRejected, JoinLoadFails, JoinLoaded, Load, Resumes
  <2>2. CASE UNCHANGED <<serverQ, linkVars>>
    BY <1>2, <2>1, <2>2
  <2>3. CASE StopClient(c, "strand") /\ UNCHANGED serverQ
    BY <2>1, <2>3, RegistrationStop DEF RegistrationInv
  <2> QED BY <1>12, <2>2, <2>3
        DEF JoinStep, JoinDropped, JoinRejected, JoinLoadFails, JoinLoaded, Load
<1>13. ASSUME NEW z \in Zones, ZoneRuns(z) PROVE Registration(serverQ)'
  <2>1. UNCHANGED <<serverQ, clientVars, currentZone>>
    BY <1>13 DEF ZoneRuns, ZoneStep, Add, Remove, Packet, Tick, DestroyedZone, NullPlayer,
                 ZoneElsewhere
  <2> QED BY <1>2, <2>1 DEF clientVars, linkVars
<1>14. ASSUME StopServer PROVE Registration(serverQ)'
  <2>1. Cleanup \in ServerHandlers /\ Cleanup.op = "cleanup"
    BY DEF Cleanup, ServerHandlers
  <2>2. Registration(Append(serverQ, Cleanup))
    BY <1>1, <2>1, RegistrationPost DEF RegistrationInv
  <2>3. serverQ' = Append(serverQ, Cleanup) /\ UNCHANGED <<clientVars, currentZone>>
    BY <1>14 DEF StopServer
  <2> QED BY <2>2, <2>3 DEF Registration, RegisteredFor, Registered, clientVars
<1>15. ASSUME CleanupBegin PROVE Registration(serverQ)'
  <2>1. serverQ # <<>> /\ Head(serverQ).op = "cleanup" /\ Done
        /\ UNCHANGED <<reading, currentZone>>
    BY <1>15 DEF CleanupBegin, Handles, Done, clientVars, linkVars
  <2> QED BY <1>5, <2>1
<1>16. ASSUME NEW c \in Clients, CleanupStopClient(c) PROVE Registration(serverQ)'
  BY <1>16, RegistrationStop DEF CleanupStopClient, RegistrationInv
<1>17. ASSUME CleanupZones \/ Halt PROVE Registration(serverQ)'
  BY <1>2, <1>17 DEF CleanupZones, Halt, clientVars, linkVars
<1>18. ASSUME NEW c \in Clients, HandlerStep(c) PROVE Registration(serverQ)'
  BY <1>6, <1>7, <1>8, <1>9, <1>10, <1>11, <1>18 DEF HandlerStep
<1>19. Registration(serverQ)'
  <2>1. CASE UNCHANGED vars
    BY <1>2, <2>1 DEF vars, clientVars, linkVars
  <2>2. CASE Next
    BY <1>3, <1>4, <1>12, <1>13, <1>14, <1>15, <1>16, <1>17, <1>18, <2>2
      DEF Next, CleanupStep
  <2> QED BY <2>1, <2>2
<1>20. NoUncaughtException'
  <2> USE DEF NoUncaughtException
  <2>1. CASE UNCHANGED crashed
    BY <2>1 DEF RegistrationInv
  <2>2. ASSUME NEW c \in Clients, ServerRemoveClient(c) PROVE NoUncaughtException'
    BY <1>7, <2>2, <2>1 DEF ServerRemoveClient
  <2>3. ASSUME NEW c \in Clients, HandlerStep(c), ~ServerRemoveClient(c)
        PROVE  UNCHANGED crashed
    BY <2>3 DEF HandlerStep, ServerAddClient, HandleJoin, HandlePing, HandleEnter,
                HandleZonePacket, HandlerElsewhere
  <2>4. ASSUME NEW c \in Clients, Accept(c) \/ ClientStep(c) \/ JoinStep(c)
        PROVE  UNCHANGED crashed
    BY <2>4 DEF Accept, ClientStep, PacketReceived, ReadError, ReadAbandoned, SendError,
                HeartbeatTimeout, StopGoesOn, PostRemoval, JoinStep, JoinDropped,
                JoinRejected, JoinLoadFails, JoinLoaded, Load, Resumes
  <2>5. ASSUME NEW z \in Zones, ZoneRuns(z) PROVE NoUncaughtException'
    BY <2>1, <2>5 DEF ZoneRuns, ZoneStep, Add, Remove, Packet, Tick, DestroyedZone,
                      NullPlayer
  <2>6. ASSUME StopServer \/ CleanupStep \/ Halt PROVE UNCHANGED crashed
    BY <2>6 DEF StopServer, CleanupStep, CleanupBegin, CleanupStopClient, CleanupZones, Halt
  <2>7. CASE UNCHANGED vars
    BY <2>1, <2>7 DEF vars
  <2>8. CASE Next
    BY <2>1, <2>2, <2>3, <2>4, <2>5, <2>6, <2>8 DEF Next
  <2> QED BY <2>7, <2>8
<1> QED BY <1>19, <1>20 DEF RegistrationInv

\* RegistrationInv: additions, removals and registrations of clients move in
\* step, in every reachable state.
THEOREM RegistrationHolds == Spec => []RegistrationInv
<1>1. ASSUME Init PROVE RegistrationInv
  <2>1. \A h : ~Pending(<<>>, h) /\ Once(<<>>, h)
    BY DEF Pending, Once
  <2> QED BY <1>1, <2>1 DEF Init, ClientInit, RegistrationInv, Registration, RegisteredFor,
                            Registered, NoUncaughtException
<1>2. TypeOK /\ RegistrationInv /\ [Next]_vars => RegistrationInv'
  BY RegistrationStep
<1> QED BY <1>1, <1>2, TypeCorrect, PTL DEF Spec

\* NoUncaughtException: a client is removed once however it is disconnected,
\* so that the at() of the removal handler never throws.
THEOREM RemovedOnce == Spec => []NoUncaughtException
<1>1. RegistrationInv => NoUncaughtException
  BY DEF RegistrationInv
<1> QED BY <1>1, RegistrationHolds, PTL

\* NoConnectionIsLost: a closed link has its removal queued while the client is
\* registered, an open one its addition while it is not.
THEOREM ConnectionsAreKnown == Spec => []NoConnectionIsLost
<1>1. RegistrationInv => NoConnectionIsLost
  BY DEF RegistrationInv, Registration, RegisteredFor, NoConnectionIsLost
<1> QED BY <1>1, RegistrationHolds, PTL
-----------------------------------------------------------------------------
(***************************************************************************)
(* Zones.  What a zone is going to look like, given its clients and the    *)
(* handlers posted to it, is what the server believes of it; and a zone    *)
(* with clients has a tick on its way.                                     *)
(***************************************************************************)
Routing(z) ==
  /\ PacketsFindTheirClient(zoneQ[z], zoneClients[z])
  /\ \A c \in Clients : WillBeIn(z, c) <=> currentZone[c] = z

Ticking(z) ==
  /\ zoneRunning[z] <=> zoneClients[z] # {}
  /\ zoneRunning[z] => Pending(zoneQ[z], ZoneTick)

\* The inductive invariant behind MembershipFollowsServer,
\* RoutedPacketsFindTheirClient and RunningZonesTick.
ZonesInv == \A z \in liveZones : Routing(z) /\ Ticking(z)

\* Posting an add, a remove or a packet to a zone, and recording the zone of
\* its client accordingly, keeps both views of the zone the same.
LEMMA RoutingPost ==
  ASSUME TypeOK, NEW z \in Zones, Routing(z), Ticking(z), NEW c \in Clients,
         NEW h \in {ZoneAdd(c), ZoneRemove(c), ZonePacket(c)},
         zoneQ'[z] = Append(zoneQ[z], h), UNCHANGED <<zoneClients, zoneRunning>>,
         \A d \in Clients : d # c => (currentZone'[d] = z <=> currentZone[d] = z),
         h = ZoneAdd(c) => currentZone'[c] = z,
         h = ZoneRemove(c) => currentZone'[c] # z,
         h = ZonePacket(c) => currentZone'[c] = z /\ currentZone[c] = z
  PROVE  Routing(z)' /\ Ticking(z)'
<1> DEFINE q == zoneQ[z]  S == zoneClients[z]  r == Append(q, h)
<1>1. q \in Seq(ZoneHandlers) /\ h \in ZoneHandlers
  BY HandlerTypes DEF TypeOK, StrandsTypeOK
<1>2. h.op = "packet" => MemberBefore(q, S, h.client, Len(q) + 1)
  <2>1. ZoneAdd(c).op # "packet" /\ ZoneRemove(c).op # "packet" /\ ZonePacket(c).client = c
    BY DEF ZoneAdd, ZoneRemove, ZonePacket
  <2>2. currentZone[c] = z => MemberBefore(q, S, c, Len(q) + 1)
    BY DEF Routing, WillBeIn
  <2> QED BY <2>1, <2>2
<1>3. PacketsFindTheirClient(r, S)
  BY <1>1, <1>2, PacketsAppend DEF Routing
<1>4. \A d : /\ h = ZoneAdd(d) => d = c
             /\ h = ZoneRemove(d) => d = c
             /\ ZoneAdd(c) # ZoneRemove(c) /\ ZonePacket(c) # ZoneAdd(c)
             /\ ZonePacket(c) # ZoneRemove(c)
  BY HandlersDiffer
<1>5. ASSUME NEW d \in Clients
      PROVE  MemberBefore(r, S, d, Len(r) + 1) <=> currentZone'[d] = z
  <2>1. MemberBefore(r, S, d, Len(r) + 1) <=>
          h = ZoneAdd(d) \/ (h # ZoneRemove(d) /\ MemberBefore(q, S, d, Len(q) + 1))
    BY <1>1, MemberAtEnd
  <2>2. MemberBefore(q, S, d, Len(q) + 1) <=> currentZone[d] = z
    BY DEF Routing, WillBeIn
  <2> QED BY <1>4, <2>1, <2>2
<1>6. zoneQ'[z] = r /\ zoneClients'[z] = S /\ zoneRunning'[z] = zoneRunning[z]
  OBVIOUS
<1>7. Pending(r, ZoneTick) <=> Pending(q, ZoneTick) \/ h = ZoneTick
  BY <1>1, PendingAppend
<1> HIDE DEF q, S, r
<1>8. Routing(z)'
  BY <1>3, <1>5, <1>6 DEF Routing, WillBeIn
<1>9. Ticking(z)'
  BY <1>6, <1>7 DEF Ticking, q, S
<1> QED BY <1>8, <1>9

\* A zone runs the handler at its head.
LEMMA RoutingRun ==
  ASSUME TypeOK, NEW z \in Zones, Routing(z), zoneQ[z] # <<>>,
         Reposting(z, <<>>) \/ Reposting(z, <<ZoneTick>>),
         zoneClients'[z] = ClientsAfter(Head(zoneQ[z]), zoneClients[z]),
         UNCHANGED currentZone
  PROVE  Routing(z)'
<1> DEFINE q == zoneQ[z]  S == zoneClients[z]  r == Tail(q)  T == ClientsAfter(Head(q), S)
<1>1. q \in Seq(ZoneHandlers) /\ r \in Seq(ZoneHandlers) /\ ZoneTick \in ZoneHandlers
  <2>1. q \in Seq(ZoneHandlers)
    BY DEF TypeOK, StrandsTypeOK
  <2> QED BY <2>1, TailIndex DEF ZoneTick, ZoneHandlers
<1>2. PacketsFindTheirClient(r, T)
  BY <1>1, PacketsTail DEF Routing
<1>3. \A d \in Clients : MemberBefore(r, T, d, Len(r) + 1) <=> currentZone[d] = z
  BY <1>1, EndTail DEF Routing, WillBeIn
<1>4. PacketsFindTheirClient(Append(r, ZoneTick), T)
  BY <1>1, <1>2, PacketsAppend DEF ZoneTick
<1>5. \A d \in Clients :
        MemberBefore(Append(r, ZoneTick), T, d, Len(Append(r, ZoneTick)) + 1) <=>
          currentZone[d] = z
  <2> SUFFICES ASSUME NEW d \in Clients
               PROVE  MemberBefore(Append(r, ZoneTick), T, d, Len(Append(r, ZoneTick)) + 1)
                        <=> currentZone[d] = z
    OBVIOUS
  <2>1. ZoneTick # ZoneAdd(d) /\ ZoneTick # ZoneRemove(d)
    BY HandlersDiffer
  <2> QED BY <1>1, <1>3, <2>1, MemberAtEnd
<1>6. zoneQ'[z] = r \/ zoneQ'[z] = Append(r, ZoneTick)
  BY <1>1 DEF Reposting, TypeOK, StrandsTypeOK
<1>7. zoneClients'[z] = T
  OBVIOUS
<1> HIDE DEF q, S, r, T
<1> QED BY <1>2, <1>3, <1>4, <1>5, <1>6, <1>7 DEF Routing, WillBeIn

\* Nothing that concerns the zone changes.
LEMMA RoutingSame ==
  ASSUME NEW z \in Zones, Routing(z), Ticking(z), zoneQ'[z] = zoneQ[z],
         zoneClients'[z] = zoneClients[z], zoneRunning'[z] = zoneRunning[z],
         \A d \in Clients : currentZone'[d] = z <=> currentZone[d] = z
  PROVE  Routing(z)' /\ Ticking(z)'
<1>1. Routing(z)'
  BY DEF Routing, WillBeIn
<1>2. Ticking(z)'
  BY DEF Ticking
<1> QED BY <1>1, <1>2

\* A client is registered once: it is in no zone when it is added.
LEMMA AddedOnce ==
  ASSUME TypeOK, RegistrationInv, NEW c \in Clients, ServerAddClient(c)
  PROVE  ~Registered(c)
<1>1. /\ serverQ # <<>> /\ Head(serverQ) \in ServerHandlers
      /\ Head(serverQ).op = "add_client" /\ Head(serverQ).client = c
  BY HeadType DEF ServerAddClient, Handles, TypeOK
<1>2. Head(serverQ) = AddClient(c) /\ serverQ \in Seq(ServerHandlers)
  BY <1>1, ServerHandlerIs DEF TypeOK, StrandsTypeOK
<1>3. Pending(serverQ, AddClient(c))
  BY <1>1, <1>2, PendingTail
<1> QED BY <1>3 DEF RegistrationInv, Registration, RegisteredFor, TypeOK, ClientTypeOK

\* The handlers of a zone.
LEMMA ZonesRun ==
  ASSUME TypeOK, ZonesInv, NEW z \in Zones, ZoneRuns(z)
  PROVE  ZonesInv'
<1> USE DEF TypeOK, StrandsTypeOK, ZoneTypeOK
<1> DEFINE h == Head(zoneQ[z])
<1>1. currentZone' = currentZone /\ liveZones' = liveZones
  BY DEF ZoneRuns, ZoneStep, Add, Remove, Packet, Tick, DestroyedZone, NullPlayer,
         ZoneElsewhere, zoneVars
<1>2. ASSUME NullPlayer \/ DestroyedZone(z) PROVE ZonesInv'
  <2>1. UNCHANGED <<zoneQ, zoneClients, zoneRunning>>
    BY <1>2 DEF NullPlayer, DestroyedZone, zoneVars
  <2> QED BY <1>1, <2>1, RoutingSame DEF ZonesInv
<1>3. ASSUME z \in liveZones, Routing(z)', Ticking(z)',
             \A y \in Zones : y # z => /\ zoneQ'[y] = zoneQ[y]
                                       /\ zoneClients'[y] = zoneClients[y]
                                       /\ zoneRunning'[y] = zoneRunning[y]
      PROVE  ZonesInv'
  <2>1. ASSUME NEW y \in liveZones, y # z PROVE Routing(y)' /\ Ticking(y)'
    BY <1>1, <1>3, <2>1, RoutingSame DEF ZonesInv
  <2> QED BY <1>1, <1>3, <2>1 DEF ZonesInv
<1>4. ASSUME NEW op, Runs(z, op)
      PROVE  /\ z \in liveZones /\ zoneQ[z] # <<>> /\ h.op = op /\ h \in ZoneHandlers
             /\ zoneQ[z] \in Seq(ZoneHandlers)
             /\ Routing(z) /\ Ticking(z)
             /\ Tail(zoneQ[z]) \in Seq(ZoneHandlers)
  BY <1>4, TailIndex DEF Runs, ZonesInv
<1>5. ZoneTick \in ZoneHandlers
  BY DEF ZoneTick, ZoneHandlers
<1>6. ASSUME Runs(z, "add") \/ Runs(z, "remove") \/ Runs(z, "packet"),
             Pending(zoneQ[z], ZoneTick)
      PROVE  Pending(Tail(zoneQ[z]), ZoneTick)
  <2>1. h # ZoneTick
    BY <1>4, <1>6 DEF ZoneTick
  <2> QED BY <1>4, <1>6, <2>1, PendingTail
<1>7. ASSUME zoneQ[z] \in Seq(ZoneHandlers), Tail(zoneQ[z]) \in Seq(ZoneHandlers)
      PROVE  /\ Finish(z) => zoneQ'[z] = Tail(zoneQ[z])
             /\ Reposting(z, <<ZoneTick>>) => zoneQ'[z] = Append(Tail(zoneQ[z]), ZoneTick)
             /\ Finish(z) \/ Reposting(z, <<ZoneTick>>) =>
                  \A y \in Zones : y # z => zoneQ'[y] = zoneQ[y]
  <2> DEFINE r == Tail(zoneQ[z])
  <2>1. r \o <<>> = r /\ r \o <<ZoneTick>> = Append(r, ZoneTick)
    BY <1>5, <1>7, RepostingIs
  <2>2. Finish(z) => zoneQ' = [zoneQ EXCEPT ![z] = r]
    BY <2>1 DEF Finish, Reposting
  <2>3. Reposting(z, <<ZoneTick>>) => zoneQ' = [zoneQ EXCEPT ![z] = Append(r, ZoneTick)]
    BY <2>1 DEF Reposting
  <2> HIDE DEF r
  <2>4. /\ Finish(z) => zoneQ'[z] = r
        /\ Reposting(z, <<ZoneTick>>) => zoneQ'[z] = Append(r, ZoneTick)
        /\ Finish(z) \/ Reposting(z, <<ZoneTick>>) =>
             \A y \in Zones : y # z => zoneQ'[y] = zoneQ[y]
    BY <2>2, <2>3
  <2> QED BY <2>4 DEF r
<1>8. ASSUME Tail(zoneQ[z]) \in Seq(ZoneHandlers)
      PROVE  Pending(Append(Tail(zoneQ[z]), ZoneTick), ZoneTick)
  BY <1>5, <1>8, PendingAppend
<1>9. ASSUME Add(z), ~NullPlayer PROVE ZonesInv'
  <2> DEFINE c == h.client
  <2>1. Runs(z, "add")
    BY <1>9 DEF Add
  <2>2. /\ zoneClients' = [zoneClients EXCEPT ![z] = @ \cup {c}]
        /\ zoneClients[z] # {} => Finish(z) /\ zoneRunning' = zoneRunning
        /\ zoneClients[z] = {} => Start(z)
    BY <1>9 DEF Add
  <2>3. \/ Reposting(z, <<>>) /\ zoneClients[z] # {} /\ zoneRunning' = zoneRunning
        \/ /\ Reposting(z, <<ZoneTick>>) /\ zoneClients[z] = {}
           /\ zoneRunning' = [zoneRunning EXCEPT ![z] = TRUE]
    <3>1. zoneClients[z] = {} => ~zoneRunning[z]
      BY <1>4, <2>1 DEF Ticking
    <3> QED BY <2>2, <3>1 DEF Start, Finish
  <2>4. zoneClients'[z] = ClientsAfter(h, zoneClients[z])
    BY <1>4, <2>1, <2>2 DEF ClientsAfter
  <2>5. Routing(z)'
    BY <1>1, <1>4, <2>1, <2>3, <2>4, RoutingRun
  <2>6. Ticking(z)'
    <3>1. zoneClients'[z] # {}
      BY <2>2
    <3>2. zoneRunning'[z]
      BY <1>4, <2>1, <2>3 DEF Ticking
    <3>3. Pending(zoneQ[z], ZoneTick) => Pending(Tail(zoneQ[z]), ZoneTick)
      BY <1>6, <2>1
    <3>4. Pending(zoneQ'[z], ZoneTick)
      BY <1>4, <1>7, <1>8, <2>1, <2>3, <3>3 DEF Ticking, Finish
    <3> QED BY <3>1, <3>2, <3>4 DEF Ticking
  <2>7. \A y \in Zones : y # z => /\ zoneQ'[y] = zoneQ[y]
                                  /\ zoneClients'[y] = zoneClients[y]
                                  /\ zoneRunning'[y] = zoneRunning[y]
    BY <1>4, <1>7, <2>1, <2>2, <2>3 DEF Finish
  <2> QED BY <1>3, <1>4, <2>1, <2>5, <2>6, <2>7
<1>10. ASSUME Remove(z), ~NullPlayer PROVE ZonesInv'
  <2> DEFINE c == h.client
  <2>1. Runs(z, "remove") /\ Finish(z)
    BY <1>10 DEF Remove
  <2>2. /\ zoneClients' = [zoneClients EXCEPT ![z] = @ \ {c}]
        /\ zoneRunning' = [zoneRunning EXCEPT ![z] = @ /\ zoneClients[z] # {c}]
    BY <1>10 DEF Remove
  <2>3. zoneClients'[z] = ClientsAfter(h, zoneClients[z])
    BY <1>4, <2>1, <2>2 DEF ClientsAfter
  <2>4. Routing(z)'
    BY <1>1, <1>4, <2>1, <2>3, RoutingRun DEF Finish
  <2>5. Ticking(z)'
    <3>1. zoneRunning'[z] <=> zoneRunning[z] /\ zoneClients[z] # {c}
      BY <2>2
    <3>2. zoneClients'[z] = zoneClients[z] \ {c}
      BY <2>2
    <3>3. zoneRunning'[z] <=> zoneClients'[z] # {}
      BY <1>4, <2>1, <3>1, <3>2 DEF Ticking
    <3>4. zoneRunning'[z] => Pending(zoneQ'[z], ZoneTick)
      BY <1>4, <1>6, <1>7, <2>1, <3>1 DEF Ticking
    <3> QED BY <3>3, <3>4 DEF Ticking
  <2>6. \A y \in Zones : y # z => /\ zoneQ'[y] = zoneQ[y]
                                  /\ zoneClients'[y] = zoneClients[y]
                                  /\ zoneRunning'[y] = zoneRunning[y]
    BY <1>4, <1>7, <2>1, <2>2
  <2> QED BY <1>3, <1>4, <2>1, <2>4, <2>5, <2>6
<1>11. ASSUME Packet(z), ~NullPlayer PROVE ZonesInv'
  <2>1. Runs(z, "packet") /\ Finish(z) /\ UNCHANGED <<zoneClients, zoneRunning>>
    BY <1>11 DEF Packet
  <2>2. zoneClients'[z] = ClientsAfter(h, zoneClients[z])
    BY <1>4, <2>1 DEF ClientsAfter
  <2>3. Routing(z)'
    BY <1>1, <1>4, <2>1, <2>2, RoutingRun DEF Finish
  <2>4. Ticking(z)'
    BY <1>4, <1>6, <1>7, <2>1 DEF Ticking
  <2>5. \A y \in Zones : y # z => zoneQ'[y] = zoneQ[y]
    BY <1>4, <1>7, <2>1
  <2> QED BY <1>3, <1>4, <2>1, <2>3, <2>4, <2>5
<1>12. ASSUME Tick(z) PROVE ZonesInv'
  <2>1. /\ Runs(z, "tick") /\ UNCHANGED <<zoneClients, zoneRunning>>
        /\ zoneRunning[z] => Reposting(z, <<ZoneTick>>)
        /\ ~zoneRunning[z] => Finish(z)
    BY <1>12 DEF Tick, Finish
  <2>2. zoneClients'[z] = ClientsAfter(h, zoneClients[z])
    BY <1>4, <2>1 DEF ClientsAfter
  <2>3. Routing(z)'
    BY <1>1, <1>4, <2>1, <2>2, RoutingRun DEF Finish
  <2>4. Ticking(z)'
    BY <1>4, <1>7, <1>8, <2>1 DEF Ticking
  <2>5. \A y \in Zones : y # z => zoneQ'[y] = zoneQ[y]
    BY <1>4, <1>7, <2>1
  <2> QED BY <1>3, <1>4, <2>1, <2>3, <2>4, <2>5
<1> QED BY <1>2, <1>9, <1>10, <1>11, <1>12 DEF ZoneRuns, ZoneStep

\* The server's handlers, its stop, and the steps of the clients.
LEMMA ZonesStep ==
  ASSUME TypeOK, RegistrationInv, ZonesInv, [Next]_vars
  PROVE  ZonesInv'
<1> USE DEF TypeOK, StrandsTypeOK, ZoneTypeOK
<1>0. Nowhere \notin Zones /\ Absent \notin Zones /\ Nowhere # Absent
  BY StrandsAssumption DEF Nowhere, Absent
<1>1. ASSUME UNCHANGED <<zoneQ, zoneClients, zoneRunning, liveZones>>,
             \A z \in Zones, d \in Clients : currentZone'[d] = z <=> currentZone[d] = z
      PROVE  ZonesInv'
  BY <1>1, RoutingSame DEF ZonesInv
<1>2. ASSUME UNCHANGED <<zoneQ, zoneClients, zoneRunning, liveZones, currentZone>>
      PROVE  ZonesInv'
  BY <1>1, <1>2
<1>3. ASSUME NEW c \in Clients, ServerAddClient(c) PROVE ZonesInv'
  <2>1. currentZone[c] = Absent
    BY <1>3, AddedOnce DEF Registered
  <2>2. currentZone' = [currentZone EXCEPT ![c] = Nowhere] /\ UNCHANGED <<zoneQ, zoneVars>>
    BY <1>3 DEF ServerAddClient
  <2>3. \A z \in Zones, d \in Clients : currentZone'[d] = z <=> currentZone[d] = z
    BY <1>0, <2>1, <2>2
  <2> QED BY <1>1, <2>2, <2>3 DEF zoneVars
<1>4. ASSUME NEW c \in Clients, ServerRemoveClient(c) PROVE ZonesInv'
  <2>1. UNCHANGED zoneVars
    BY <1>4 DEF ServerRemoveClient
  <2>2. CASE ~Registered(c)
    BY <1>2, <1>4, <2>1, <2>2 DEF ServerRemoveClient, zoneVars
  <2>3. CASE Registered(c)
    <3>1. currentZone' = [currentZone EXCEPT ![c] = Absent]
      BY <1>4, <2>3 DEF ServerRemoveClient
    <3>2. CASE currentZone[c] \notin liveZones
      <4>1. UNCHANGED zoneQ
        BY <1>4, <2>3, <3>2 DEF ServerRemoveClient
      <4>2. ASSUME NEW z \in liveZones PROVE Routing(z)' /\ Ticking(z)'
        <5>1. \A d \in Clients : currentZone'[d] = z <=> currentZone[d] = z
          BY <1>0, <3>1, <3>2
        <5> QED BY <2>1, <4>1, <5>1, RoutingSame DEF zoneVars, ZonesInv
      <4> QED BY <2>1, <4>2 DEF zoneVars, ZonesInv
    <3>3. CASE currentZone[c] \in liveZones
      <4> DEFINE y == currentZone[c]
      <4>1. zoneQ' = [zoneQ EXCEPT ![y] = Append(@, ZoneRemove(c))]
        BY <1>4, <2>3, <3>3 DEF ServerRemoveClient, Post
      <4>2. ASSUME NEW z \in liveZones PROVE Routing(z)' /\ Ticking(z)'
        <5>1. CASE z = y
          <6>1. zoneQ'[z] = Append(zoneQ[z], ZoneRemove(c)) /\ currentZone'[c] # z
            BY <1>0, <3>1, <4>1, <5>1
          <6>2. ZoneRemove(c) # ZoneAdd(c) /\ ZoneRemove(c) # ZonePacket(c)
            BY HandlersDiffer
          <6>3. \A d \in Clients : d # c => (currentZone'[d] = z <=> currentZone[d] = z)
            BY <3>1
          <6>4. Routing(z) /\ Ticking(z) /\ z \in Zones
            BY DEF ZonesInv
          <6> QED BY <2>1, <6>1, <6>2, <6>3, <6>4, RoutingPost DEF zoneVars
        <5>2. CASE z # y
          <6>1. zoneQ'[z] = zoneQ[z]
            BY <4>1, <5>2
          <6>2. \A d \in Clients : currentZone'[d] = z <=> currentZone[d] = z
            BY <1>0, <3>1, <5>2
          <6> QED BY <2>1, <6>1, <6>2, RoutingSame DEF zoneVars, ZonesInv
        <5> QED BY <5>1, <5>2
      <4> QED BY <2>1, <4>2 DEF zoneVars, ZonesInv
    <3> QED BY <3>2, <3>3
  <2> QED BY <2>2, <2>3
<1>5. ASSUME NEW c \in Clients, HandleEnter(c) PROVE ZonesInv'
  <2> DEFINE from == currentZone[c]  to == Head(serverQ).zone
  <2>1. UNCHANGED zoneVars
    BY <1>5 DEF HandleEnter, HandlerElsewhere
  <2>2. CASE UNCHANGED <<zoneQ, currentZone>>
    BY <1>2, <2>1, <2>2 DEF zoneVars
  <2>3. CASE ~UNCHANGED <<zoneQ, currentZone>>
    <3>1. /\ from # Absent /\ from # to /\ from \in liveZones \cup {Nowhere} /\ to \in liveZones
          /\ currentZone' = [currentZone EXCEPT ![c] = to]
          /\ zoneQ' = [z \in Zones |->
                CASE z = from -> Append(zoneQ[z], ZoneRemove(c))
                  [] z = to   -> Append(zoneQ[z], ZoneAdd(c))
                  [] OTHER    -> zoneQ[z]]
      BY <1>5, <2>3 DEF HandleEnter, MayMove
    <3> HIDE DEF to, from
    <3>2. ASSUME NEW z \in liveZones PROVE Routing(z)' /\ Ticking(z)'
      <4>0. Routing(z) /\ Ticking(z) /\ z \in Zones
        BY DEF ZonesInv
      <4>1. \A d \in Clients : d # c => (currentZone'[d] = z <=> currentZone[d] = z)
        BY <3>1
      <4>2. ZoneRemove(c) # ZoneAdd(c) /\ ZoneRemove(c) # ZonePacket(c)
            /\ ZoneAdd(c) # ZonePacket(c)
        BY HandlersDiffer
      <4>3. CASE z = from
        <5>1. zoneQ'[z] = Append(zoneQ[z], ZoneRemove(c)) /\ currentZone'[c] # z
          BY <3>1, <4>0, <4>3
        <5> QED BY <2>1, <4>0, <4>1, <4>2, <5>1, RoutingPost DEF zoneVars
      <4>4. CASE z = to /\ z # from
        <5>1. zoneQ'[z] = Append(zoneQ[z], ZoneAdd(c)) /\ currentZone'[c] = z
          BY <3>1, <4>0, <4>4
        <5> QED BY <2>1, <4>0, <4>1, <4>2, <5>1, RoutingPost DEF zoneVars
      <4>5. CASE z # to /\ z # from
        <5>1. zoneQ'[z] = zoneQ[z]
          BY <3>1, <4>0, <4>5
        <5>2. \A d \in Clients : currentZone'[d] = z <=> currentZone[d] = z
          BY <3>1, <4>5 DEF from
        <5> QED BY <2>1, <4>0, <5>1, <5>2, RoutingSame DEF zoneVars
      <4> QED BY <4>3, <4>4, <4>5
    <3> QED BY <2>1, <3>2 DEF zoneVars, ZonesInv
  <2> QED BY <2>2, <2>3
<1>6. ASSUME NEW c \in Clients, HandleZonePacket(c) PROVE ZonesInv'
  <2> DEFINE y == currentZone[c]
  <2>1. UNCHANGED <<currentZone, zoneVars>>
    BY <1>6 DEF HandleZonePacket, HandlerElsewhere
  <2>2. CASE UNCHANGED zoneQ
    BY <1>2, <2>1, <2>2 DEF zoneVars
  <2>3. CASE ~UNCHANGED zoneQ
    <3>1. y \in liveZones /\ zoneQ' = [zoneQ EXCEPT ![y] = Append(@, ZonePacket(c))]
      BY <1>6, <2>3 DEF HandleZonePacket, Post
    <3>2. ASSUME NEW z \in liveZones PROVE Routing(z)' /\ Ticking(z)'
      <4>0. Routing(z) /\ Ticking(z) /\ z \in Zones
        BY DEF ZonesInv
      <4>1. CASE z = y
        <5>1. zoneQ'[z] = Append(zoneQ[z], ZonePacket(c)) /\ currentZone'[c] = z
          BY <2>1, <3>1, <4>0, <4>1
        <5>2. ZonePacket(c) # ZoneAdd(c) /\ ZonePacket(c) # ZoneRemove(c)
          BY HandlersDiffer
        <5> QED BY <2>1, <4>0, <4>1, <5>1, <5>2, RoutingPost DEF zoneVars
      <4>2. CASE z # y
        <5>1. zoneQ'[z] = zoneQ[z]
          BY <3>1, <4>0, <4>2
        <5> QED BY <2>1, <4>0, <5>1, RoutingSame DEF zoneVars
      <4> QED BY <4>1, <4>2
    <3> QED BY <2>1, <3>2 DEF zoneVars, ZonesInv
  <2> QED BY <2>2, <2>3
<1>7. ASSUME NEW c \in Clients, HandleJoin(c) \/ HandlePing(c) PROVE ZonesInv'
  BY <1>2, <1>7 DEF HandleJoin, HandlePing, HandlerElsewhere, zoneVars
<1>8. ASSUME NEW c \in Clients, Accept(c) \/ ClientStep(c) \/ JoinStep(c) PROVE ZonesInv'
  <2>1. UNCHANGED <<zoneQ, zoneVars, currentZone>>
    BY <1>8 DEF Accept, ClientStep, PacketReceived, ReadError, ReadAbandoned, SendError,
                HeartbeatTimeout, StopGoesOn, PostRemoval, JoinStep, JoinDropped,
                JoinRejected, JoinLoadFails, JoinLoaded, Load, Resumes
  <2> QED BY <1>2, <2>1 DEF zoneVars
<1>9. ASSUME StopServer \/ CleanupBegin \/ Halt \/ \E c \in Clients : CleanupStopClient(c)
      PROVE  ZonesInv'
  BY <1>2, <1>9 DEF StopServer, CleanupBegin, CleanupStopClient, Halt, zoneVars
<1>10. ASSUME CleanupZones PROVE ZonesInv'
  BY <1>10 DEF CleanupZones, ZonesInv
<1>11. CASE UNCHANGED vars
  BY <1>2, <1>11 DEF vars, zoneVars
<1>12. CASE Next
  BY <1>3, <1>4, <1>5, <1>6, <1>7, <1>8, <1>9, <1>10, <1>12, ZonesRun
    DEF Next, HandlerStep, CleanupStep
<1> QED BY <1>11, <1>12

\* ZonesInv: every zone that exists agrees with the server once the handlers
\* posted to it have run, and ticks while it has clients.
THEOREM ZonesHold == Spec => []ZonesInv
<1>1. ASSUME Init PROVE ZonesInv
  <2>1. \A h : ~Pending(<<>>, h)
    BY DEF Pending
  <2>2. \A z \in Zones : /\ zoneQ[z] = <<>> /\ zoneClients[z] = {} /\ ~zoneRunning[z]
    BY <1>1 DEF Init, ZoneInit
  <2>3. \A z \in Zones, c \in Clients : currentZone[c] # z
    BY <1>1, StrandsAssumption DEF Init
  <2>4. ASSUME NEW z \in Zones PROVE Routing(z) /\ Ticking(z)
    <3>1. PacketsFindTheirClient(<<>>, {})
      BY DEF PacketsFindTheirClient
    <3>2. \A c \in Clients : ~MemberBefore(<<>>, {}, c, Len(<<>>) + 1)
      BY DEF MemberBefore
    <3>3. Routing(z)
      BY <2>2, <2>3, <3>1, <3>2 DEF Routing, WillBeIn
    <3>4. Ticking(z)
      BY <2>2 DEF Ticking
    <3> QED BY <3>3, <3>4
  <2> QED BY <1>1, <2>4 DEF Init, ZoneInit, ZonesInv
<1>2. TypeOK /\ RegistrationInv /\ ZonesInv /\ [Next]_vars => ZonesInv'
  BY ZonesStep
<1> QED BY <1>1, <1>2, TypeCorrect, RegistrationHolds, PTL DEF Spec

\* MembershipFollowsServer: when the handlers posted to a zone have run, its
\* clients are those the server has in it.
THEOREM MembershipFollows == Spec => []MembershipFollowsServer
<1>1. ZonesInv => MembershipFollowsServer
  BY DEF ZonesInv, Routing, MembershipFollowsServer
<1> QED BY <1>1, ZonesHold, PTL

\* RoutedPacketsFindTheirClient: a packet routed to a zone finds its client
\* there when it is handled.
THEOREM PacketsRouted == Spec => []RoutedPacketsFindTheirClient
<1>1. ZonesInv => RoutedPacketsFindTheirClient
  BY DEF ZonesInv, Routing, PacketsFindTheirClient, RoutedPacketsFindTheirClient
<1> QED BY <1>1, ZonesHold, PTL

\* RunningZonesTick: a zone runs exactly while it has clients, and then has a
\* tick among the handlers posted to it.
THEOREM ZonesTick == Spec => []RunningZonesTick
<1>1. ZonesInv => RunningZonesTick
  BY DEF ZonesInv, Ticking, RunningZonesTick
<1> QED BY <1>1, ZonesHold, PTL
-----------------------------------------------------------------------------
(***************************************************************************)
(* The stop.  The cleanup handler stops the clients that are registered    *)
(* when it starts, or finds that another thread is stopping them.  An      *)
(* addition posted before it has run by then: what is spared is the one    *)
(* client whose accept was in flight.                                      *)
(***************************************************************************)

\* The addition of the client is ahead of the cleanup.
AddedBefore(q, c) ==
  \E i, j \in 1..Len(q) : i < j /\ q[i] = AddClient(c) /\ q[j] = Cleanup

\* An open client that nobody is stopping, and that the cleanup will not stop,
\* or has not stopped.
Spared(c) ==
  /\ link[c] = "open" /\ stopping[c] = "no"
  /\ IF phase = "stopping" THEN ~Registered(c) /\ ~AddedBefore(serverQ, c)
                           ELSE c \notin toStop

\* Client::stop has not been called, or has not come to the disconnection.
Stoppable(c) == running[c] \/ stopping[c] # "no"

\* The inductive invariant behind StopLeavesAtMostOneOpen.
StopInv ==
  /\ \A c \in Clients : link[c] = "open" /\ Registered(c) => Stoppable(c)
  /\ phase = "up" => ~late /\ ~Pending(serverQ, Cleanup)
  /\ phase = "stopping" => Once(serverQ, Cleanup)
  /\ phase \in {"cleaning", "cleaned", "halted"} => ~Pending(serverQ, Cleanup)
  /\ phase = "cleaning" => \A c \in toStop : Registered(c)
  /\ phase \in {"cleaned", "halted"} => toStop = {}
  /\ phase # "up" => \A c \in Clients : Spared(c) => late
  /\ phase # "up" => \A c, d \in Clients : Spared(c) /\ Spared(d) => c = d

\* Running and posting handlers: no cleanup is posted, and an addition before
\* the cleanup stays before it.
Follows(q, r) ==
  /\ Pending(r, Cleanup) => Pending(q, Cleanup)
  /\ Once(q, Cleanup) => Once(r, Cleanup)
  /\ \A c \in Clients : AddedBefore(q, c) => AddedBefore(r, c)

\* A step opens no link, and a client that leaves Client::stop has its link
\* closed.
ClosesLinks ==
  \A d \in Clients : link'[d] = "open" =>
    /\ link[d] = "open"
    /\ Stoppable(d) => Stoppable(d)'
    /\ stopping[d] # "no" => stopping'[d] # "no"

\* The cleanup, told apart.
LEMMA CleanupDiffers ==
  ASSUME NEW h \in ServerHandlers
  PROVE  h = Cleanup <=> h.op = "cleanup"
  BY DEF ServerHandlers, Cleanup, PacketOps

\* Posting anything but the cleanup.
LEMMA FollowsAppend ==
  ASSUME NEW q \in Seq(ServerHandlers), NEW h \in ServerHandlers, h.op # "cleanup"
  PROVE  Follows(q, Append(q, h))
<1> DEFINE r == Append(q, h)
<1>1. Len(q) \in Nat /\ Len(r) = Len(q) + 1 /\ \A i \in 1..Len(q) : r[i] = q[i]
  BY AppendIndex
<1>2. h # Cleanup
  BY CleanupDiffers
<1>3. Pending(r, Cleanup) => Pending(q, Cleanup)
  BY <1>2, PendingAppend
<1>4. Once(q, Cleanup) => Once(r, Cleanup)
  BY <1>2, OnceAppend
<1> HIDE DEF r
<1>5. ASSUME NEW c \in Clients, AddedBefore(q, c) PROVE AddedBefore(r, c)
  BY <1>1, <1>5 DEF AddedBefore
<1>6. Follows(q, r)
  BY <1>3, <1>4, <1>5 DEF Follows
<1> QED BY <1>6 DEF r

\* Running the head leaves an addition ahead of the cleanup, unless it is the head.
LEMMA BeforeTail ==
  ASSUME NEW q \in Seq(ServerHandlers), q # <<>>, NEW c, Head(q) # AddClient(c),
         AddedBefore(q, c)
  PROVE  AddedBefore(Tail(q), c)
<1> DEFINE r == Tail(q)
<1>1. /\ Len(q) \in Nat \ {0} /\ Len(r) = Len(q) - 1 /\ q[1] = Head(q)
      /\ \A i \in 1..(Len(q) - 1) : r[i] = q[i + 1]
  BY TailIndex
<1>2. PICK i \in 1..Len(q), j \in 1..Len(q) :
        i < j /\ q[i] = AddClient(c) /\ q[j] = Cleanup
  BY DEF AddedBefore
<1> HIDE DEF r
<1>3. /\ i - 1 \in 1..Len(r) /\ j - 1 \in 1..Len(r) /\ i - 1 < j - 1
      /\ r[i - 1] = q[(i - 1) + 1] /\ r[j - 1] = q[(j - 1) + 1]
  BY <1>1, <1>2
<1>4. AddedBefore(r, c)
  BY <1>2, <1>3 DEF AddedBefore
<1> QED BY <1>4 DEF r

\* Running the head.
LEMMA FollowsTail ==
  ASSUME NEW q \in Seq(ServerHandlers), q # <<>>, Head(q).op # "add_client"
  PROVE  Follows(q, Tail(q))
<1>1. \A c \in Clients : Head(q) # AddClient(c)
  BY ServerHandlersDiffer
<1>2. \A c \in Clients : AddedBefore(q, c) => AddedBefore(Tail(q), c)
  BY <1>1, BeforeTail
<1>3. Pending(Tail(q), Cleanup) => Pending(q, Cleanup)
  BY PendingTail
<1>4. Once(q, Cleanup) => Once(Tail(q), Cleanup)
  BY OnceTail
<1> QED BY <1>2, <1>3, <1>4 DEF Follows

\* Disconnecting a client.
LEMMA DisconnectCloses ==
  ASSUME ClientTypeOK, NEW c \in Clients, NEW t, Disconnect(c, t)
  PROVE  /\ link'[c] # "open"
         /\ \A d \in Clients : link'[d] = "open" => d # c /\ link[d] = "open"
  BY DEF Disconnect, ClientTypeOK

\* Stopping it, up to the disconnection.
LEMMA StopCloses ==
  ASSUME ClientTypeOK, NEW c \in Clients, NEW t \in {"pool", "strand"}, StopClient(c, t)
  PROVE  /\ Stoppable(c) /\ link[c] = "open" => stopping'[c] # "no"
         /\ ClosesLinks
<1>1. /\ \A d \in Clients : link'[d] = link[d]
      /\ \A d \in Clients : d # c => running'[d] = running[d] /\ stopping'[d] = stopping[d]
      /\ stopping'[c] = IF running[c] /\ link[c] = "open" THEN t ELSE stopping[c]
  BY DEF StopClient, ClientTypeOK
<1> QED BY <1>1 DEF ClosesLinks, Stoppable

\* Steps that leave the stop of the server as it is.
LEMMA StopKeeps ==
  ASSUME StopInv, UNCHANGED stopVars,
         Pending(serverQ', Cleanup) => Pending(serverQ, Cleanup),
         Once(serverQ, Cleanup) => Once(serverQ', Cleanup),
         \A d \in Clients : link'[d] = "open" =>
           /\ link[d] = "open"
           /\ Registered(d) => Registered(d)'
           /\ AddedBefore(serverQ, d) => AddedBefore(serverQ', d) \/ Registered(d)'
           /\ Registered(d)' => Stoppable(d)'
           /\ stopping[d] # "no" => stopping'[d] # "no",
         phase = "cleaning" => \A d \in toStop : Registered(d)'
  PROVE  StopInv'
<1>1. phase' = phase /\ toStop' = toStop /\ late' = late
  BY DEF stopVars
<1>2. ASSUME NEW d \in Clients, Spared(d)' PROVE Spared(d)
  BY <1>1, <1>2 DEF Spared
<1> QED BY <1>1, <1>2 DEF StopInv

\* Steps that neither add nor remove a client besides.
LEMMA StopQuiet ==
  ASSUME StopInv, UNCHANGED stopVars, toStop \in SUBSET Clients,
         Follows(serverQ, serverQ'),
         \A d \in Clients : Registered(d)' <=> Registered(d),
         ClosesLinks
  PROVE  StopInv'
<1> USE DEF ClosesLinks
<1>1. \A d \in Clients : link'[d] = "open" =>
           /\ link[d] = "open"
           /\ Registered(d) => Registered(d)'
           /\ AddedBefore(serverQ, d) => AddedBefore(serverQ', d) \/ Registered(d)'
           /\ Registered(d)' => Stoppable(d)'
           /\ stopping[d] # "no" => stopping'[d] # "no"
  BY DEF Follows, StopInv
<1>2. phase = "cleaning" => \A d \in toStop : Registered(d)'
  BY DEF StopInv
<1> QED BY <1>1, <1>2, StopKeeps DEF Follows

\* An addition that is pending is before a cleanup that is posted now.
LEMMA BeforeAppend ==
  ASSUME NEW q \in Seq(ServerHandlers), NEW c, Pending(q, AddClient(c)),
         Cleanup \in ServerHandlers
  PROVE  AddedBefore(Append(q, Cleanup), c)
<1> DEFINE r == Append(q, Cleanup)
<1>1. /\ Len(q) \in Nat /\ Len(r) = Len(q) + 1 /\ r[Len(q) + 1] = Cleanup
      /\ \A i \in 1..Len(q) : r[i] = q[i]
  BY AppendIndex
<1> HIDE DEF r
<1>2. AddedBefore(r, c)
  <2>1. PICK i \in 1..Len(q) : q[i] = AddClient(c)
    BY DEF Pending
  <2>2. /\ i \in 1..Len(r) /\ Len(q) + 1 \in 1..Len(r) /\ i < Len(q) + 1
        /\ r[i] = AddClient(c)
    BY <1>1, <2>1
  <2> QED BY <1>1, <2>2 DEF AddedBefore
<1> QED BY <1>2 DEF r

\* Nothing is ahead of a cleanup that runs.
LEMMA NoneBeforeHead ==
  ASSUME NEW q \in Seq(ServerHandlers), q # <<>>, Head(q) = Cleanup, Once(q, Cleanup)
  PROVE  \A c : ~AddedBefore(q, c)
<1>1. Len(q) \in Nat \ {0} /\ q[1] = Cleanup
  BY TailIndex
<1>2. \A j \in 1..Len(q) : q[j] = Cleanup => j = 1
  BY <1>1 DEF Once
<1> QED BY <1>1, <1>2 DEF AddedBefore

\* A move leaves everybody registered who is.
LEMMA EnterKeepsRegistered ==
  ASSUME TypeOK, NEW c \in Clients, HandleEnter(c)
  PROVE  \A d \in Clients : Registered(d)' <=> Registered(d)
<1>1. \/ currentZone' = currentZone
      \/ /\ currentZone[c] # Absent
         /\ Head(serverQ).zone \in liveZones
         /\ currentZone' = [currentZone EXCEPT ![c] = Head(serverQ).zone]
  BY DEF HandleEnter, MayMove
<1>2. Absent \notin liveZones
  BY StrandsAssumption DEF TypeOK, ZoneTypeOK
<1> QED BY <1>1, <1>2 DEF Registered, TypeOK

\* Each step keeps StopInv.
LEMMA StopStep ==
  ASSUME TypeOK, RegistrationInv, StopInv, [Next]_vars
  PROVE  StopInv'
<1> USE DEF TypeOK, StrandsTypeOK, ClientTypeOK
<1>0. /\ serverQ \in Seq(ServerHandlers) /\ Follows(serverQ, serverQ)
      /\ \A d \in Clients : RegisteredFor(serverQ, d)
  BY DEF Follows, RegistrationInv, Registration
<1>1. ASSUME UNCHANGED <<stopVars, link, running, stopping, currentZone>>,
             Follows(serverQ, serverQ')
      PROVE  StopInv'
  BY <1>1, StopQuiet DEF Registered, ClosesLinks, Stoppable
<1>2. ASSUME NEW c \in Clients, Accept(c) PROVE StopInv'
  <2> DEFINE r == Append(serverQ, AddClient(c))
  <2>1. /\ serverQ' = r /\ link' = [link EXCEPT ![c] = "open"] /\ link[c] = "none"
        /\ phase = "up" \/ ~late
        /\ late' = (phase # "up") /\ UNCHANGED <<running, stopping, currentZone, phase, toStop>>
    BY <1>2 DEF Accept
  <2>2. Follows(serverQ, r)
    BY <1>0, FollowsAppend, HandlerTypes, ServerHandlersDiffer
  <2>3. ~Registered(c)
    BY <1>0, <2>1 DEF RegisteredFor
  <2>4. \A d \in Clients : /\ Registered(d)' <=> Registered(d)
                           /\ link'[d] = IF d = c THEN "open" ELSE link[d]
    BY <2>1 DEF Registered
  <2>5. \A d \in Clients : link'[d] = "open" /\ Registered(d)' => Stoppable(d)'
    BY <2>1, <2>3, <2>4 DEF StopInv, Stoppable
  <2>6. ASSUME phase # "up", NEW d \in Clients, Spared(d)' PROVE d = c /\ late'
    <3>1. d # c => Spared(d)
      BY <2>1, <2>2, <2>4, <2>6 DEF Spared, Follows
    <3>2. ~Spared(d)
      BY <2>1, <2>6 DEF StopInv
    <3> QED BY <2>1, <2>6, <3>1, <3>2
  <2>7. \A d \in toStop : Registered(d)' <=> Registered(d)
    BY <2>4
  <2> HIDE DEF r
  <2> QED BY <2>1, <2>2, <2>5, <2>6, <2>7 DEF StopInv, Follows
<1>3. ASSUME NEW c \in Clients, ClientStep(c) PROVE StopInv'
  <2>1. UNCHANGED <<currentZone, stopVars>>
    BY <1>3 DEF ClientStep
  <2>2. ASSUME NEW p \in Packets, PacketReceived(c, p), p.op # "invalid" PROVE StopInv'
    <3>1. HandlePacket(c, p) \in ServerHandlers /\ HandlePacket(c, p).op # "cleanup"
      BY <2>2, HandlerTypes DEF HandlePacket, Packets, PacketOps
    <3>2. Follows(serverQ, Append(serverQ, HandlePacket(c, p)))
      BY <1>0, <3>1, FollowsAppend
    <3>3. /\ serverQ' = Append(serverQ, HandlePacket(c, p)) /\ UNCHANGED <<link, running, stopping>>
      BY <2>2 DEF PacketReceived, linkVars
    <3> QED BY <1>1, <2>1, <3>2, <3>3
  <2>3. ASSUME StopClient(c, "pool"), UNCHANGED serverQ PROVE StopInv'
    <3>1. ClosesLinks
      BY <2>3, StopCloses
    <3> QED BY <1>0, <2>1, <2>3, <3>1, StopQuiet DEF Registered
  <2>4. ASSUME ReadError(c) \/ SendError(c) \/ StopGoesOn(c) PROVE StopInv'
    <3>1. /\ \E t : Disconnect(c, t)
          /\ UNCHANGED <<serverQ, running>>
          /\ \A d \in Clients : d # c => stopping'[d] = stopping[d]
      BY <2>4 DEF ReadError, SendError, StopGoesOn
    <3>2. ClosesLinks
      BY <3>1, DisconnectCloses DEF ClosesLinks, Stoppable
    <3> QED BY <1>0, <2>1, <3>1, <3>2, StopQuiet DEF Registered
  <2>5. CASE ReadAbandoned(c)
    BY <1>0, <1>1, <2>1, <2>5 DEF ReadAbandoned, linkVars
  <2>6. ASSUME PostRemoval(c) PROVE StopInv'
    <3>1. RemoveClient(c) \in ServerHandlers /\ RemoveClient(c).op # "cleanup"
      BY HandlerTypes, ServerHandlersDiffer
    <3>2. Follows(serverQ, Append(serverQ, RemoveClient(c)))
      BY <1>0, <3>1, FollowsAppend
    <3>3. /\ serverQ' = Append(serverQ, RemoveClient(c))
          /\ UNCHANGED <<link, running, stopping>>
      BY <2>6 DEF PostRemoval
    <3> QED BY <1>1, <2>1, <3>2, <3>3
  <2>7. ASSUME NEW p \in Packets, PacketReceived(c, p) PROVE StopInv'
    BY <2>2, <2>3, <2>7 DEF PacketReceived
  <2>8. ASSUME HeartbeatTimeout(c) PROVE StopInv'
    BY <2>3, <2>8 DEF HeartbeatTimeout
  <2>9. Sends[c] \in SUBSET Packets
    BY ClientAssumption
  <2> QED BY <1>3, <2>4, <2>5, <2>6, <2>7, <2>8, <2>9 DEF ClientStep
<1>4. ASSUME serverQ # <<>>, Head(serverQ).op # "add_client", UNCHANGED stopVars,
             \A d \in Clients : Registered(d)' <=> Registered(d),
             Done \/ \E c \in Clients : Refuse(c)
      PROVE  StopInv'
  <2>1. Rest \in Seq(ServerHandlers) /\ Follows(serverQ, Rest)
    BY <1>0, <1>4, FollowsTail, HeadType DEF Rest
  <2>2. CASE Done
    BY <1>4, <2>1, <2>2, StopQuiet DEF Done, ClosesLinks, Stoppable, linkVars
  <2>3. ASSUME NEW c \in Clients, Refuse(c) PROVE StopInv'
    <3>1. serverQ' = Rest /\ ClosesLinks
      BY <2>3, StopCloses DEF Refuse
    <3> QED BY <1>4, <2>1, <3>1, StopQuiet
  <2> QED BY <1>4, <2>2, <2>3
<1>5. ASSUME NEW c \in Clients, ServerAddClient(c) PROVE StopInv'
  <2>1. /\ serverQ # <<>> /\ Head(serverQ) \in ServerHandlers /\ phase # "cleaning"
        /\ Head(serverQ).op = "add_client" /\ Head(serverQ).client = c
    BY <1>5, HeadType DEF ServerAddClient, Handles, StrandFree
  <2>2. \A d \in Clients : d # c => Head(serverQ) # AddClient(d)
    BY <2>1, ServerHandlersDiffer
  <2>3. /\ serverQ' = Tail(serverQ) /\ UNCHANGED <<link, stopping, stopVars>>
        /\ \A d \in Clients : /\ running'[d] = IF d = c THEN TRUE ELSE running[d]
                              /\ currentZone'[d] = IF d = c THEN Nowhere ELSE currentZone[d]
    BY <1>5 DEF ServerAddClient, Rest
  <2>4. \A d \in Clients : d # c /\ AddedBefore(serverQ, d) => AddedBefore(serverQ', d)
    BY <1>0, <2>1, <2>2, <2>3, BeforeTail
  <2>5. /\ Pending(serverQ', Cleanup) => Pending(serverQ, Cleanup)
        /\ Once(serverQ, Cleanup) => Once(serverQ', Cleanup)
    BY <1>0, <2>1, <2>3, PendingTail, OnceTail
  <2>6. \A d \in Clients : /\ d = c => Registered(d)'
                           /\ d # c => (Registered(d)' <=> Registered(d))
    BY <2>3 DEF Registered, Nowhere, Absent
  <2>7. \A d \in Clients : link'[d] = "open" =>
           /\ link[d] = "open"
           /\ Registered(d) => Registered(d)'
           /\ AddedBefore(serverQ, d) => AddedBefore(serverQ', d) \/ Registered(d)'
           /\ Registered(d)' => Stoppable(d)'
           /\ stopping[d] # "no" => stopping'[d] # "no"
    BY <2>3, <2>4, <2>6 DEF StopInv, Stoppable
  <2> QED BY <2>1, <2>3, <2>5, <2>7, StopKeeps
<1>6. ASSUME NEW c \in Clients, ServerRemoveClient(c) PROVE StopInv'
  <2>1. /\ serverQ # <<>> /\ Head(serverQ) \in ServerHandlers /\ phase # "cleaning"
        /\ Head(serverQ).op = "remove_client" /\ Head(serverQ).client = c
        /\ UNCHANGED stopVars
    BY <1>6, HeadType DEF ServerRemoveClient, Handles, StrandFree
  <2>2. Pending(serverQ, RemoveClient(c))
    BY <1>0, <2>1, ServerHandlerIs, PendingTail
  <2>3. link[c] = "closed" /\ Registered(c)
    BY <1>0, <2>2 DEF RegisteredFor
  <2>4. /\ serverQ' = Tail(serverQ) /\ link' = link
        /\ \A d \in Clients : d # c => /\ currentZone'[d] = currentZone[d]
                                       /\ running'[d] = running[d]
                                       /\ stopping'[d] = stopping[d]
    BY <1>6, <2>3 DEF ServerRemoveClient, Refuse, StopClient, Rest
  <2>5. Follows(serverQ, serverQ')
    BY <1>0, <2>1, <2>4, FollowsTail
  <2>6. \A d \in Clients : link'[d] = "open" =>
           /\ link[d] = "open"
           /\ Registered(d) => Registered(d)'
           /\ AddedBefore(serverQ, d) => AddedBefore(serverQ', d) \/ Registered(d)'
           /\ Registered(d)' => Stoppable(d)'
           /\ stopping[d] # "no" => stopping'[d] # "no"
    BY <2>3, <2>4, <2>5 DEF StopInv, Follows, Registered, Stoppable
  <2> QED BY <2>1, <2>5, <2>6, StopKeeps DEF Follows
<1>7. ASSUME NEW c \in Clients, HandleJoin(c) \/ HandlePing(c) \/ HandleZonePacket(c)
      PROVE  StopInv'
  <2>1. /\ serverQ # <<>> /\ Head(serverQ).op # "add_client"
        /\ UNCHANGED <<stopVars, currentZone>>
        /\ Done \/ Refuse(c)
    BY <1>7 DEF HandleJoin, HandlePing, HandleZonePacket, Handles, HandlerElsewhere
  <2> QED BY <1>4, <2>1 DEF Registered
<1>8. ASSUME NEW c \in Clients, HandleEnter(c) PROVE StopInv'
  <2>1. /\ serverQ # <<>> /\ Head(serverQ).op # "add_client"
        /\ UNCHANGED stopVars
        /\ Done \/ Refuse(c)
    BY <1>8 DEF HandleEnter, Handles, HandlerElsewhere
  <2>2. \A d \in Clients : Registered(d)' <=> Registered(d)
    BY <1>8, EnterKeepsRegistered
  <2> QED BY <1>4, <2>1, <2>2
<1>9. ASSUME NEW c \in Clients, JoinStep(c) PROVE StopInv'
  <2>1. UNCHANGED <<currentZone, stopVars>>
    BY <1>9 DEF JoinStep, JoinDropped, JoinRejected, JoinLoadFails, JoinLoaded, Load,
                Resumes
  <2>2. ASSUME UNCHANGED <<serverQ, linkVars>> PROVE StopInv'
    BY <1>0, <1>1, <2>1, <2>2 DEF linkVars
  <2>3. ASSUME StopClient(c, "strand"), UNCHANGED serverQ PROVE StopInv'
    <3>1. ClosesLinks
      BY <2>3, StopCloses
    <3> QED BY <1>0, <2>1, <2>3, <3>1, StopQuiet DEF Registered
  <2> QED BY <1>9, <2>2, <2>3
        DEF JoinStep, JoinDropped, JoinRejected, JoinLoadFails, JoinLoaded
<1>10. ASSUME NEW z \in Zones, ZoneRuns(z) PROVE StopInv'
  <2>1. UNCHANGED <<serverQ, clientVars, currentZone, stopVars>>
    BY <1>10 DEF ZoneRuns, ZoneStep, Add, Remove, Packet, Tick, DestroyedZone, NullPlayer,
                 ZoneElsewhere
  <2> QED BY <1>0, <1>1, <2>1 DEF clientVars
<1>11. ASSUME StopServer PROVE StopInv'
  <2> DEFINE r == Append(serverQ, Cleanup)
  <2>1. /\ phase = "up" /\ phase' = "stopping" /\ serverQ' = r
        /\ UNCHANGED <<link, running, stopping, currentZone, toStop, late>>
    BY <1>11 DEF StopServer, clientVars
  <2>2. ~Pending(serverQ, Cleanup) /\ Cleanup \in ServerHandlers
    BY <2>1 DEF StopInv, Cleanup, ServerHandlers
  <2>3. Once(r, Cleanup)
    BY <1>0, <2>2, OnceAppend DEF Once, Pending
  <2>4. ASSUME NEW d \in Clients, Spared(d)' PROVE FALSE
    <3>1. link[d] = "open" /\ ~Registered(d) /\ ~AddedBefore(r, d)
      BY <2>1, <2>4 DEF Spared, Registered
    <3>2. Pending(serverQ, AddClient(d))
      BY <1>0, <3>1 DEF RegisteredFor
    <3> QED BY <1>0, <2>2, <3>1, <3>2, BeforeAppend
  <2>5. \A d \in Clients : link'[d] = "open" /\ Registered(d)' => Stoppable(d)'
    BY <2>1 DEF StopInv, Registered, Stoppable
  <2> HIDE DEF r
  <2> QED BY <2>1, <2>3, <2>4, <2>5 DEF StopInv
<1>12. ASSUME CleanupBegin PROVE StopInv'
  <2>1. /\ serverQ # <<>> /\ Head(serverQ).op = "cleanup" /\ serverQ' = Tail(serverQ)
        /\ phase' = "cleaning" /\ toStop' = {c \in Clients : Registered(c)}
        /\ phase \in {"up", "stopping", "cleaned"}
        /\ UNCHANGED <<link, running, stopping, currentZone, late>>
    BY <1>12 DEF CleanupBegin, Handles, StrandFree, Rest, clientVars
  <2>2. Head(serverQ) = Cleanup
    BY <2>1, HeadType, CleanupDiffers
  <2>3. Pending(serverQ, Cleanup)
    BY <1>0, <2>1, <2>2, PendingTail
  <2>4. phase = "stopping" /\ Once(serverQ, Cleanup)
    BY <2>1, <2>3 DEF StopInv
  <2>5. ~Pending(serverQ', Cleanup)
    BY <1>0, <2>1, <2>2, <2>4, OnceTail
  <2>6. \A d : ~AddedBefore(serverQ, d)
    BY <1>0, <2>1, <2>2, <2>4, NoneBeforeHead
  <2>7. ASSUME NEW d \in Clients, Spared(d)' PROVE Spared(d)
    BY <2>1, <2>4, <2>6, <2>7 DEF Spared
  <2>8. \A d \in Clients : /\ Registered(d)' <=> Registered(d)
                           /\ Stoppable(d)' <=> Stoppable(d)
    BY <2>1 DEF Registered, Stoppable
  <2> QED BY <2>1, <2>4, <2>5, <2>7, <2>8 DEF StopInv
<1>13. ASSUME NEW c \in Clients, CleanupStopClient(c) PROVE StopInv'
  <2>1. /\ phase = "cleaning" /\ phase' = phase /\ late' = late /\ currentZone' = currentZone
        /\ c \in toStop /\ toStop' = toStop \ {c} /\ StopClient(c, "strand")
        /\ UNCHANGED serverQ
    BY <1>13 DEF CleanupStopClient
  <2>2. /\ Stoppable(c) /\ link[c] = "open" => stopping'[c] # "no"
        /\ ClosesLinks
    BY <2>1, StopCloses
  <2>3. link'[c] = "open" => stopping'[c] # "no"
    BY <2>1, <2>2 DEF StopInv, ClosesLinks
  <2>4. ASSUME NEW d \in Clients, Spared(d)' PROVE Spared(d)
    BY <2>1, <2>2, <2>3, <2>4 DEF Spared, ClosesLinks
  <2>5. \A d \in Clients : Registered(d)' <=> Registered(d)
    BY <2>1 DEF Registered
  <2> QED BY <2>1, <2>2, <2>4, <2>5 DEF StopInv, ClosesLinks
<1>14. ASSUME CleanupZones \/ Halt PROVE StopInv'
  <2>1. /\ \/ phase = "cleaning" /\ toStop = {} /\ phase' = "cleaned"
           \/ phase = "cleaned" /\ phase' = "halted"
        /\ UNCHANGED <<serverQ, link, running, stopping, currentZone, toStop, late>>
    BY <1>14 DEF CleanupZones, Halt, clientVars
  <2>2. ASSUME NEW d \in Clients PROVE Spared(d)' <=> Spared(d)
    BY <2>1 DEF Spared
  <2>3. \A d \in Clients : /\ Registered(d)' <=> Registered(d)
                           /\ Stoppable(d)' <=> Stoppable(d)
    BY <2>1 DEF Registered, Stoppable
  <2> QED BY <2>1, <2>2, <2>3 DEF StopInv
<1>15. CASE UNCHANGED vars
  BY <1>0, <1>1, <1>15 DEF vars, clientVars, stopVars
<1>16. CASE Next
  BY <1>2, <1>3, <1>5, <1>6, <1>7, <1>8, <1>9, <1>10, <1>11, <1>12, <1>13, <1>14, <1>16
    DEF Next, HandlerStep, CleanupStep
<1> QED BY <1>15, <1>16

\* StopInv: the clients that the cleanup spares are one at most, and only after
\* an accept that was in flight.
THEOREM StopHolds == Spec => []StopInv
<1>1. ASSUME Init PROVE StopInv
  BY <1>1 DEF Init, ClientInit, StopInv, Registered, Pending, Once
<1>2. TypeOK /\ RegistrationInv /\ StopInv /\ [Next]_vars => StopInv'
  BY StopStep
<1> QED BY <1>1, <1>2, TypeCorrect, RegistrationHolds, PTL DEF Spec

\* RemovedClientsAreStopped: only registered clients run, and a registered
\* client with an open link runs or is being stopped by a thread that will
\* close the link.
THEOREM RemovedAreStopped == Spec => []RemovedClientsAreStopped
<1>1. RegistrationInv /\ StopInv => RemovedClientsAreStopped
  BY DEF RegistrationInv, Registration, RegisteredFor, StopInv, Stoppable,
         RemovedClientsAreStopped
<1> QED BY <1>1, RegistrationHolds, StopHolds, PTL

\* StopLeavesAtMostOneOpen: once stop() returned, every client is stopped, or
\* with the thread that came first to stop it, but the one whose accept was in
\* flight.
THEOREM StopReachesAllButOne == Spec => []StopLeavesAtMostOneOpen
<1>1. StopInv => StopLeavesAtMostOneOpen
  BY DEF StopInv, Spared, StopLeavesAtMostOneOpen
<1> QED BY <1>1, StopHolds, PTL
=============================================================================
