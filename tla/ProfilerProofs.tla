---------------------------- MODULE ProfilerProofs ----------------------------
(***************************************************************************)
(* For any number of receive loops, any window and any sizes of packets:   *)
(* the totals are those of the records, and no record is popped before it  *)
(* has left the window.                                                    *)
(*                                                                         *)
(* A record keeps fewer bits of a packet's size than the total adds, and   *)
(* it is judged by a clock that was read before the lock was taken.  What  *)
(* saves the first is the limit of the receive loop; what saves the second *)
(* is that a record only grows older.                                      *)
(***************************************************************************)
EXTENDS Profiler, TLAPS, FiniteSetTheorems

\* What waits to be added is the body of a packet that was let through.
StampsFit == \A t \in Receivers : pc[t] = "stamped" => stamp[t].bytes \in Bodies

\* What has been judged to be due has left the window.
DueIsOld ==
  /\ \A i \in 1..Len(records) : records[i].due => records[i].age = Window
  /\ \A t \in Receivers : stamp[t].due => stamp[t].age = Window

\* One thread renews, while the flag is set.
OneRenews ==
  /\ isRenewing <=> \E t \in Threads : pc[t] \in {"entered", "judged"}
  /\ \A t, u \in Threads :
       pc[t] \in {"entered", "judged"} /\ pc[u] \in {"entered", "judged"} => t = u

ProfilerInv == TypeOK /\ StampsFit /\ TotalsAgree /\ DueIsOld /\ OneRenews

-----------------------------------------------------------------------------
LEMMA CountTo ==
  ASSUME NEW b \in Nat
  PROVE  IsFiniteSet(1..b) /\ Cardinality(1..b) = b
<1>1. Cardinality(1..b) = IF 1 > b THEN 0 ELSE b - 1 + 1
  BY FS_Interval
<1> QED BY <1>1, FS_Interval

\* The bytes of the records in s, one by one.
Bytes(s) == {x \in (1..Len(s)) \X (1..Limit) : x[2] <= s[x[1]].bytes}

LEMMA BytesAreFinite ==
  ASSUME NEW s, Len(s) \in Nat
  PROVE  IsFiniteSet(Bytes(s)) /\ SumOfBytes(s) = Cardinality(Bytes(s)) /\ SumOfBytes(s) \in Nat
<1>1. IsFiniteSet(1..Len(s)) /\ IsFiniteSet(1..Limit)
  BY FS_Interval, ProfilerAssumption
<1>2. IsFiniteSet((1..Len(s)) \X (1..Limit))
  BY <1>1, FS_Product
<1>3. IsFiniteSet(Bytes(s))
  BY <1>2, FS_Subset DEF Bytes
<1> QED BY <1>3, FS_CardinalityType DEF SumOfBytes, Bytes

\* The sum depends on the bytes of the records alone.
LEMMA SumOfTheSame ==
  ASSUME NEW s, NEW r, Len(s) = Len(r), \A i \in 1..Len(s) : s[i].bytes = r[i].bytes
  PROVE  SumOfBytes(s) = SumOfBytes(r)
<1>1. \A x \in (1..Len(s)) \X (1..Limit) : x[1] \in 1..Len(s)
  OBVIOUS
<1>2. {x \in (1..Len(s)) \X (1..Limit) : x[2] <= s[x[1]].bytes}
        = {x \in (1..Len(r)) \X (1..Limit) : x[2] <= r[x[1]].bytes}
  BY <1>1
<1> QED BY <1>2 DEF SumOfBytes

LEMMA SumOfNothing == SumOfBytes(<<>>) = 0
<1>1. Bytes(<<>>) = {}
  BY DEF Bytes
<1> QED BY <1>1, FS_EmptySet DEF SumOfBytes, Bytes

\* A record that is appended adds its bytes.
LEMMA SumOfAppended ==
  ASSUME NEW s \in Seq(Records), NEW r \in Records
  PROVE  SumOfBytes(Append(s, r)) = SumOfBytes(s) + r.bytes
<1> DEFINE a == Append(s, r)
           k == Len(s) + 1
           new == {k} \X (1..r.bytes)
<1>1. /\ Len(s) \in Nat /\ k \in Nat /\ Len(a) = k /\ a[k] = r
      /\ \A i \in 1..Len(s) : a[i] = s[i]
      /\ r.bytes \in Nat /\ r.bytes <= Limit /\ Limit \in Nat
  BY ProfilerAssumption DEF Records
<1> HIDE DEF a
<1>2. Bytes(a) = Bytes(s) \cup new
  <2>1. ASSUME NEW x \in (1..k) \X (1..Limit)
        PROVE  x[2] <= a[x[1]].bytes <=> x \in Bytes(s) \cup new
    <3>1. CASE x[1] = k
      <4>1. x \notin Bytes(s)
        BY <1>1, <3>1 DEF Bytes
      <4>2. x \in new <=> x[2] <= r.bytes
        BY <1>1, <3>1
      <4> QED BY <1>1, <3>1, <4>1, <4>2
    <3>2. CASE x[1] # k
      <4>1. x[1] \in 1..Len(s) /\ x \notin new
        BY <1>1, <3>2
      <4>2. x \in Bytes(s) <=> x[2] <= s[x[1]].bytes
        BY <4>1 DEF Bytes
      <4> QED BY <1>1, <4>1, <4>2
    <3> QED BY <3>1, <3>2
  <2>2. Bytes(s) \cup new \subseteq (1..k) \X (1..Limit)
    BY <1>1 DEF Bytes
  <2>3. Bytes(a) = {x \in (1..k) \X (1..Limit) : x[2] <= a[x[1]].bytes}
    BY <1>1 DEF Bytes
  <2> HIDE DEF new
  <2> QED BY <2>1, <2>2, <2>3
<1>3. IsFiniteSet(new) /\ Cardinality(new) = r.bytes
  <2>1. IsFiniteSet({k}) /\ Cardinality({k}) = 1
    BY FS_Singleton
  <2>2. IsFiniteSet(1..r.bytes) /\ Cardinality(1..r.bytes) = r.bytes
    BY <1>1, CountTo
  <2>3. IsFiniteSet(new) /\ Cardinality(new) = Cardinality({k}) * Cardinality(1..r.bytes)
    BY <2>1, <2>2, FS_Product
  <2> QED BY <1>1, <2>1, <2>2, <2>3
<1>4. Cardinality(Bytes(s) \cap new) = 0
  <2>1. Bytes(s) \cap new = {}
    BY <1>1 DEF Bytes
  <2> HIDE DEF new
  <2> QED BY <2>1, FS_EmptySet
<1>5. IsFiniteSet(Bytes(s)) /\ Cardinality(Bytes(s)) = SumOfBytes(s) /\ SumOfBytes(s) \in Nat
  BY <1>1, BytesAreFinite
<1>6. Cardinality(Bytes(a)) = Cardinality(Bytes(s)) + Cardinality(new) - Cardinality(Bytes(s) \cap new)
  BY <1>2, <1>3, <1>5, FS_Union
<1>7. SumOfBytes(a) = Cardinality(Bytes(a))
  BY <1>1, BytesAreFinite
<1> HIDE DEF new
<1>8. SumOfBytes(a) = SumOfBytes(s) + r.bytes
  BY <1>1, <1>3, <1>4, <1>5, <1>6, <1>7
<1> QED BY <1>8 DEF a

\* The records in front and those behind add up to all.
LEMMA SumOfParts ==
  ASSUME NEW s \in Seq(Records), NEW n \in 0..Len(s)
  PROVE  SumOfBytes(s) = SumOfBytes(SubSeq(s, 1, n)) + SumOfBytes(SubSeq(s, n + 1, Len(s)))
<1> DEFINE front == SubSeq(s, 1, n)
           back == SubSeq(s, n + 1, Len(s))
           low == {x \in Bytes(s) : x[1] <= n}
           high == {x \in Bytes(s) : x[1] > n}
<1>1. /\ Len(s) \in Nat /\ n \in Nat /\ n <= Len(s) /\ Limit \in Nat
      /\ Len(front) = n /\ \A i \in 1..n : front[i] = s[i]
      /\ Len(back) = Len(s) - n /\ \A i \in 1..(Len(s) - n) : back[i] = s[i + n]
  BY ProfilerAssumption
<1> HIDE DEF front, back
<1>2. low = Bytes(front)
  BY <1>1 DEF Bytes
<1>3. ExistsBijection(Bytes(back), high)
  <2> DEFINE shift == [x \in Bytes(back) |-> <<x[1] + n, x[2]>>]
  <2>1. ASSUME NEW x \in Bytes(back)
        PROVE  x[1] \in 1..(Len(s) - n) /\ x[2] \in 1..Limit /\ x = <<x[1], x[2]>>
                 /\ x[2] <= s[x[1] + n].bytes
    BY <1>1 DEF Bytes
  <2>2. ASSUME NEW x \in Bytes(back) PROVE shift[x] \in high
    BY <1>1, <2>1 DEF Bytes
  <2>3. ASSUME NEW x \in Bytes(back), NEW y \in Bytes(back), shift[x] = shift[y]
        PROVE  x = y
    <3>1. x[1] + n = y[1] + n /\ x[2] = y[2]
      BY <2>3
    <3>2. /\ x[1] \in 1..(Len(s) - n) /\ x = <<x[1], x[2]>>
          /\ y[1] \in 1..(Len(s) - n) /\ y = <<y[1], y[2]>>
      BY <2>1
    <3>3. x[1] = y[1]
      BY <1>1, <3>1, <3>2
    <3> QED BY <3>1, <3>2, <3>3, Zenon
  <2>4. ASSUME NEW y \in high PROVE \E x \in Bytes(back) : shift[x] = y
    <3>1. y[1] \in 1..Len(s) /\ y[1] > n /\ y[2] \in 1..Limit /\ y = <<y[1], y[2]>>
            /\ y[2] <= s[y[1]].bytes
      BY DEF Bytes
    <3>2. y[1] - n \in 1..(Len(s) - n) /\ (y[1] - n) + n = y[1]
      BY <1>1, <3>1
    <3>3. back[y[1] - n] = s[y[1]]
      BY <1>1, <3>2
    <3>4. <<y[1] - n, y[2]>> \in Bytes(back)
      BY <1>1, <3>1, <3>2, <3>3 DEF Bytes
    <3> QED BY <3>1, <3>2, <3>4
  <2>5. shift \in Bijection(Bytes(back), high)
    <3>1. shift \in [Bytes(back) -> high]
      BY <2>2
    <3> HIDE DEF shift, high
    <3> QED BY <2>3, <2>4, <3>1 DEF Bijection, Injection, Surjection, IsInjective
  <2> QED BY <2>5 DEF ExistsBijection
<1>4. /\ IsFiniteSet(Bytes(front)) /\ SumOfBytes(front) = Cardinality(Bytes(front))
      /\ IsFiniteSet(Bytes(back)) /\ SumOfBytes(back) = Cardinality(Bytes(back))
      /\ SumOfBytes(s) = Cardinality(Bytes(s))
      /\ SumOfBytes(front) \in Nat /\ SumOfBytes(back) \in Nat
  BY <1>1, BytesAreFinite
<1>5. IsFiniteSet(high) /\ Cardinality(high) = Cardinality(Bytes(back))
  BY <1>3, <1>4, FS_Bijection
<1>6. Bytes(s) = low \cup high /\ low \cap high = {}
  BY <1>1 DEF Bytes
<1> HIDE DEF low, high
<1>8. Cardinality(low \cap high) = 0
  BY <1>6, FS_EmptySet
<1>7. Cardinality(Bytes(s)) = Cardinality(low) + Cardinality(high) - Cardinality(low \cap high)
  BY <1>2, <1>4, <1>5, <1>6, FS_Union
<1>9. SumOfBytes(s) = SumOfBytes(front) + SumOfBytes(back)
  BY <1>2, <1>4, <1>5, <1>7, <1>8
<1> QED BY <1>9 DEF front, back

-----------------------------------------------------------------------------
LEMMA ProfilerInit == Init => ProfilerInv
<1> SUFFICES ASSUME Init PROVE ProfilerInv
  OBVIOUS
<1>1. TypeOK
  <2>1. [bytes |-> 0, age |-> 0, due |-> FALSE] \in Records
    BY ProfilerAssumption DEF Records
  <2>2. /\ stamp \in [Receivers -> Records] /\ records \in Seq(Records)
        /\ totalPackets \in Nat /\ totalBytes \in Nat
    BY <2>1 DEF Init
  <2>3. /\ pc \in [Threads -> {"out", "stamped", "renew", "entered", "judged"}]
        /\ isRenewing \in BOOLEAN /\ traffic \in BOOLEAN
    BY DEF Init
  <2> QED BY <2>2, <2>3 DEF TypeOK
<1>2. StampsFit /\ DueIsOld
  BY DEF Init, StampsFit, DueIsOld, Threads
<1>3. TotalsAgree
  BY SumOfNothing DEF Init, TotalsAgree
<1>4. OneRenews
  BY DEF Init, OneRenews
<1> QED BY <1>1, <1>2, <1>3, <1>4 DEF ProfilerInv

\* The totals stay right while the records keep their bytes.
LEMMA SameBytesAgree ==
  ASSUME TotalsAgree, UNCHANGED <<totalPackets, totalBytes>>,
         Len(records') = Len(records),
         \A i \in 1..Len(records) : records'[i].bytes = records[i].bytes
  PROVE  TotalsAgree'
<1>1. SumOfBytes(records) = SumOfBytes(records')
  BY SumOfTheSame
<1> QED BY <1>1 DEF TotalsAgree

\* The clock is read: a packet waits to be added, or renewing begins.
LEMMA StampKeeps == ASSUME ProfilerInv, NEW t \in Receivers, Stamp(t) PROVE ProfilerInv'
<1>1. PICK size \in Bodies : stamp' = [stamp EXCEPT ![t] = [bytes |-> size, age |-> 0, due |-> FALSE]]
  BY DEF Stamp
<1>2. /\ pc' = [pc EXCEPT ![t] = "stamped"] /\ pc[t] = "out" /\ t \in Threads
      /\ UNCHANGED <<records, totalPackets, totalBytes, isRenewing, traffic>>
  BY DEF Stamp, Threads
<1>3. size \in 0..Limit
  BY ProfilerAssumption DEF Bodies
<1>4. TypeOK'
  BY <1>1, <1>2, <1>3, ProfilerAssumption DEF ProfilerInv, TypeOK, Records
<1>5. StampsFit' /\ DueIsOld'
  BY <1>1, <1>2 DEF ProfilerInv, TypeOK, StampsFit, DueIsOld, Threads
<1>6. TotalsAgree'
  BY <1>2 DEF ProfilerInv, TotalsAgree
<1>7. OneRenews'
  BY <1>2 DEF ProfilerInv, TypeOK, OneRenews
<1> QED BY <1>4, <1>5, <1>6, <1>7 DEF ProfilerInv

\* What is added to the total is what the record keeps.
LEMMA AddKeeps == ASSUME ProfilerInv, NEW t \in Receivers, Add(t) PROVE ProfilerInv'
<1> DEFINE r == [stamp[t] EXCEPT !.bytes = @ % Width]
<1>1. /\ pc[t] = "stamped" /\ t \in Threads /\ records' = Append(records, r)
      /\ totalPackets' = totalPackets + 1 /\ totalBytes' = totalBytes + stamp[t].bytes
      /\ pc' = [pc EXCEPT ![t] = "renew"] /\ UNCHANGED <<stamp, isRenewing, traffic>>
  BY DEF Add, Threads
<1>2. stamp[t] \in Records /\ stamp[t].bytes \in Bodies
  BY <1>1 DEF ProfilerInv, TypeOK, StampsFit
<1>3. stamp[t].bytes \in Nat /\ stamp[t].bytes < Width
  BY <1>2, ProfilerAssumption DEF Bodies, Records
<1>4. stamp[t].bytes % Width = stamp[t].bytes
  BY <1>3, ProfilerAssumption
<1>5. r = stamp[t]
  BY <1>2, <1>4 DEF Records
<1>6. /\ records \in Seq(Records) /\ records' = Append(records, stamp[t])
      /\ totalPackets \in Nat /\ totalBytes \in Nat
  BY <1>1, <1>5 DEF ProfilerInv, TypeOK
<1> HIDE DEF r
<1>7. TypeOK'
  <2>1. totalPackets' \in Nat /\ totalBytes' \in Nat /\ records' \in Seq(Records)
    BY <1>1, <1>2, <1>3, <1>6
  <2> QED BY <1>1, <2>1 DEF ProfilerInv, TypeOK
<1>8. StampsFit'
  BY <1>1 DEF ProfilerInv, TypeOK, StampsFit, Threads
<1>9. TotalsAgree'
  <2>1. SumOfBytes(records') = SumOfBytes(records) + stamp[t].bytes
    BY <1>2, <1>6, SumOfAppended
  <2>2. Len(records') = Len(records) + 1
    BY <1>6
  <2> QED BY <1>1, <2>1, <2>2 DEF ProfilerInv, TotalsAgree
<1>10. DueIsOld'
  BY <1>1, <1>2, <1>6 DEF ProfilerInv, DueIsOld
<1>11. OneRenews'
  BY <1>1 DEF ProfilerInv, TypeOK, OneRenews
<1> QED BY <1>7, <1>8, <1>9, <1>10, <1>11 DEF ProfilerInv

\* Logging, and going silent.
LEMMA IdleKeeps == ASSUME ProfilerInv, Log \/ FallSilent \/ UNCHANGED vars PROVE ProfilerInv'
<1>1. /\ UNCHANGED <<stamp, records, totalPackets, totalBytes, isRenewing>>
      /\ traffic' \in BOOLEAN
      /\ \/ pc' = pc
         \/ pc[Logger] = "out" /\ pc' = [pc EXCEPT ![Logger] = "renew"]
  <2>1. CASE Log
    BY <2>1 DEF Log, ProfilerInv, TypeOK
  <2>2. CASE FallSilent
    BY <2>2 DEF FallSilent
  <2>3. CASE UNCHANGED vars
    BY <2>3 DEF vars, ProfilerInv, TypeOK
  <2> QED BY <2>1, <2>2, <2>3
<1>2. Logger \in Threads /\ Logger \notin Receivers
  BY ProfilerAssumption DEF Threads
<1>3. TypeOK'
  BY <1>1, <1>2 DEF ProfilerInv, TypeOK
<1>4. StampsFit'
  BY <1>1, <1>2 DEF ProfilerInv, TypeOK, StampsFit, Threads
<1>5. TotalsAgree' /\ DueIsOld'
  BY <1>1 DEF ProfilerInv, TotalsAgree, DueIsOld
<1>6. OneRenews'
  BY <1>1, <1>2 DEF ProfilerInv, TypeOK, OneRenews
<1> QED BY <1>3, <1>4, <1>5, <1>6 DEF ProfilerInv

LEMMA EnterKeeps == ASSUME ProfilerInv, NEW t \in Threads, Enter(t) PROVE ProfilerInv'
<1>1. /\ pc[t] = "renew" /\ pc' = [pc EXCEPT ![t] = IF isRenewing THEN "out" ELSE "entered"]
      /\ isRenewing' = TRUE
      /\ UNCHANGED <<stamp, records, totalPackets, totalBytes, traffic>>
  BY DEF Enter
<1>2. TypeOK'
  BY <1>1 DEF ProfilerInv, TypeOK
<1>3. StampsFit'
  BY <1>1 DEF ProfilerInv, TypeOK, StampsFit, Threads
<1>4. TotalsAgree' /\ DueIsOld'
  BY <1>1 DEF ProfilerInv, TotalsAgree, DueIsOld
<1>5. OneRenews'
  BY <1>1 DEF ProfilerInv, TypeOK, OneRenews
<1> QED BY <1>2, <1>3, <1>4, <1>5 DEF ProfilerInv

\* What is marked as due is as old as the window.
LEMMA JudgeKeeps == ASSUME ProfilerInv, NEW t \in Threads, Judge(t) PROVE ProfilerInv'
<1> DEFINE Mark(r) == [r EXCEPT !.due = r.age = Window]
<1>1. /\ pc[t] = "entered" /\ pc' = [pc EXCEPT ![t] = "judged"]
      /\ records' = [i \in DOMAIN records |-> Mark(records[i])]
      /\ stamp' = [r \in Receivers |-> Mark(stamp[r])]
      /\ UNCHANGED <<totalPackets, totalBytes, isRenewing, traffic>>
  BY DEF Judge
<1>2. ASSUME NEW r \in Records
      PROVE  /\ Mark(r) \in Records /\ Mark(r).bytes = r.bytes
             /\ Mark(r).due => Mark(r).age = Window
  BY DEF Records
<1>3. /\ records \in Seq(Records) /\ stamp \in [Receivers -> Records]
      /\ DOMAIN records = 1..Len(records)
  BY DEF ProfilerInv, TypeOK
<1> HIDE DEF Mark
<1>4. /\ records' \in Seq(Records) /\ Len(records') = Len(records)
      /\ \A i \in 1..Len(records) : records'[i] = Mark(records[i]) /\ records[i] \in Records
  BY <1>1, <1>2, <1>3
<1>5. TypeOK'
  BY <1>1, <1>2, <1>3, <1>4 DEF ProfilerInv, TypeOK
<1>6. StampsFit'
  BY <1>1, <1>2, <1>3 DEF ProfilerInv, TypeOK, StampsFit, Threads
<1>7. TotalsAgree'
  BY <1>1, <1>2, <1>4, SameBytesAgree DEF ProfilerInv
<1>8. DueIsOld'
  BY <1>1, <1>2, <1>3, <1>4 DEF DueIsOld
<1>9. OneRenews'
  BY <1>1 DEF ProfilerInv, TypeOK, OneRenews
<1> QED BY <1>5, <1>6, <1>7, <1>8, <1>9 DEF ProfilerInv

\* A record that has left the window does not come back into it.
LEMMA PassesKeeps == ASSUME ProfilerInv, Passes PROVE ProfilerInv'
<1> DEFINE Older(r) == [r EXCEPT !.age = IF @ < Window THEN @ + 1 ELSE Window]
<1>1. /\ records' = [i \in DOMAIN records |-> Older(records[i])]
      /\ stamp' = [r \in Receivers |-> Older(stamp[r])]
      /\ UNCHANGED <<pc, totalPackets, totalBytes, isRenewing, traffic>>
  BY DEF Passes
<1>2. ASSUME NEW r \in Records
      PROVE  /\ Older(r) \in Records /\ Older(r).bytes = r.bytes /\ Older(r).due = r.due
             /\ r.age = Window => Older(r).age = Window
  BY ProfilerAssumption DEF Records
<1>3. /\ records \in Seq(Records) /\ stamp \in [Receivers -> Records]
      /\ DOMAIN records = 1..Len(records)
  BY DEF ProfilerInv, TypeOK
<1> HIDE DEF Older
<1>4. /\ records' \in Seq(Records) /\ Len(records') = Len(records)
      /\ \A i \in 1..Len(records) : records'[i] = Older(records[i]) /\ records[i] \in Records
  BY <1>1, <1>2, <1>3
<1>5. TypeOK'
  BY <1>1, <1>2, <1>3, <1>4 DEF ProfilerInv, TypeOK
<1>6. StampsFit'
  BY <1>1, <1>2, <1>3 DEF ProfilerInv, StampsFit
<1>7. TotalsAgree'
  BY <1>1, <1>2, <1>4, SameBytesAgree DEF ProfilerInv
<1>8. DueIsOld'
  BY <1>1, <1>2, <1>3, <1>4 DEF ProfilerInv, DueIsOld
<1>9. OneRenews'
  BY <1>1 DEF ProfilerInv, OneRenews
<1> QED BY <1>5, <1>6, <1>7, <1>8, <1>9 DEF ProfilerInv

\* The records that are popped take their bytes with them.
LEMMA RenewKeeps == ASSUME ProfilerInv, NEW t \in Threads, Renew(t) PROVE ProfilerInv'
<1>1. PICK n \in 0..Len(records) :
        /\ Due(n)
        /\ records' = SubSeq(records, n + 1, Len(records))
        /\ totalPackets' = totalPackets - n
        /\ totalBytes' = totalBytes - SumOfBytes(SubSeq(records, 1, n))
  BY DEF Renew
<1>2. /\ pc[t] = "judged" /\ isRenewing' = FALSE /\ pc' = [pc EXCEPT ![t] = "out"]
      /\ UNCHANGED <<stamp, traffic>>
  BY DEF Renew
<1>3. /\ records \in Seq(Records) /\ Len(records) \in Nat /\ n \in Nat
      /\ totalPackets = Len(records) /\ totalBytes = SumOfBytes(records)
  BY DEF ProfilerInv, TypeOK, TotalsAgree
<1>4. /\ records' \in Seq(Records) /\ Len(records') = Len(records) - n
      /\ \A i \in 1..Len(records') : records'[i] = records[i + n] /\ i + n \in 1..Len(records)
  BY <1>1, <1>3
<1>5. /\ SumOfBytes(records) = SumOfBytes(SubSeq(records, 1, n)) + SumOfBytes(records')
      /\ SumOfBytes(SubSeq(records, 1, n)) \in Nat /\ SumOfBytes(records') \in Nat
  <2>1. Len(SubSeq(records, 1, n)) \in Nat /\ Len(records') \in Nat
    BY <1>1, <1>3, <1>4
  <2> QED BY <1>1, <1>3, <2>1, SumOfParts, BytesAreFinite
<1>6. TotalsAgree' /\ totalPackets' \in Nat /\ totalBytes' \in Nat
  BY <1>1, <1>3, <1>4, <1>5 DEF TotalsAgree
<1>7. TypeOK'
  BY <1>2, <1>4, <1>6 DEF ProfilerInv, TypeOK
<1>8. StampsFit'
  BY <1>2 DEF ProfilerInv, TypeOK, StampsFit, Threads
<1>9. DueIsOld'
  BY <1>2, <1>4 DEF ProfilerInv, DueIsOld
<1>10. OneRenews'
  BY <1>2 DEF ProfilerInv, TypeOK, OneRenews
<1> QED BY <1>6, <1>7, <1>8, <1>9, <1>10 DEF ProfilerInv

\* ProfilerInv is inductive.
LEMMA ProfilerStep == ProfilerInv /\ [Next]_vars => ProfilerInv'
<1> SUFFICES ASSUME ProfilerInv, [Next]_vars PROVE ProfilerInv'
  OBVIOUS
<1>1. ASSUME NEW t \in Receivers, Stamp(t) \/ Add(t) PROVE ProfilerInv'
  BY <1>1, StampKeeps, AddKeeps
<1>2. ASSUME NEW t \in Threads, Renews(t) PROVE ProfilerInv'
  BY <1>2, EnterKeeps, JudgeKeeps, RenewKeeps DEF Renews
<1>3. CASE Passes
  BY <1>3, PassesKeeps
<1>4. CASE Log \/ FallSilent \/ UNCHANGED vars
  BY <1>4, IdleKeeps
<1> QED BY <1>1, <1>2, <1>3, <1>4 DEF Next

\* Types, the totals, what is due, and that one thread at a time renews
\* (profiler.hpp:36), for any number of receive loops.
THEOREM ProfilerHolds == Spec => []ProfilerInv
  BY ProfilerInit, ProfilerStep, PTL DEF Spec

\* Types are kept: the unsigned totals are never taken below zero by a renewal
\* (profiler.hpp:47-48).
THEOREM ProfilerTypes == Spec => []TypeOK
<1>1. ProfilerInv => TypeOK
  BY DEF ProfilerInv
<1> QED BY <1>1, ProfilerHolds, PTL

\* The totals are those of the records in the queue, however many packets of
\* whatever size are added (profiler.hpp:27-29) while records are popped (47-50).
THEOREM TotalsAlwaysAgree == Spec => []TotalsAgree
<1>1. ProfilerInv => TotalsAgree
  BY DEF ProfilerInv
<1> QED BY <1>1, ProfilerHolds, PTL

\* No renewal, late as it may be after its clock was read (profiler.hpp:39), pops
\* a record that is still in the window.
THEOREM WindowIsAlwaysKept == Spec => WindowIsKept
<1> DEFINE Kept == Len(records') < Len(records) =>
                     \A i \in 1..(Len(records) - Len(records')) : records[i].age = Window
<1>1. ProfilerInv /\ [Next]_vars => [Kept]_vars
  <2> SUFFICES ASSUME ProfilerInv, Next, Len(records') < Len(records) PROVE Kept
    OBVIOUS
  <2>1. records \in Seq(Records) /\ Len(records) \in Nat
    BY DEF ProfilerInv, TypeOK
  <2>2. PICK t \in Threads : Renew(t)
    <3>1. ASSUME Len(records') = Len(records) \/ records' = records PROVE FALSE
      BY <2>1, <3>1
    <3>2. CASE Passes \/ \E t \in Threads : Judge(t)
      <4>1. DOMAIN records' = DOMAIN records /\ \E S : records' \in [1..Len(records) -> S]
        <5>1. DOMAIN records = 1..Len(records)
          BY <2>1
        <5>2. PICK f : records' = [i \in DOMAIN records |-> f[i]]
          BY <3>2 DEF Passes, Judge
        <5> QED BY <5>1, <5>2
      <4> QED BY <2>1, <3>1, <4>1
    <3>3. ASSUME NEW t \in Receivers, Add(t) PROVE FALSE
      <4>1. Len(records') = Len(records) + 1
        BY <2>1, <3>3 DEF Add
      <4> QED BY <2>1, <4>1
    <3>4. CASE Log \/ FallSilent \/ (\E t \in Receivers : Stamp(t)) \/ \E t \in Threads : Enter(t)
      BY <3>1, <3>4 DEF Log, FallSilent, Stamp, Enter
    <3> QED BY <3>2, <3>3, <3>4 DEF Next, Renews
  <2>3. PICK n \in 0..Len(records) : Due(n) /\ records' = SubSeq(records, n + 1, Len(records))
    BY <2>2 DEF Renew
  <2>4. Len(records) - Len(records') = n
    BY <2>1, <2>3
  <2>5. \A i \in 1..n : records[i].due /\ i \in 1..Len(records)
    BY <2>1, <2>3 DEF Due
  <2> QED BY <2>4, <2>5 DEF ProfilerInv, DueIsOld
<1> QED BY <1>1, ProfilerHolds, PTL DEF Spec, WindowIsKept
=============================================================================
