------------------------------ MODULE Profiler ------------------------------
(***************************************************************************)
(* Profiler: the receive loops of the clients add packets to it, and they  *)
(* and the logging loop of the server renew it.  What is done under the    *)
(* lock is one step.  Clocks are read before the lock is taken: records    *)
(* need not be queued in the order of their time stamps, and a renewal may *)
(* judge them by a time that is long past.                                 *)
(*                                                                         *)
(* Ages stop at Window, beyond which nothing tells them apart.  A renewal  *)
(* marks what is due when it reads the clock; there is one at a time.      *)
(***************************************************************************)
EXTENDS Integers, Sequences, FiniteSets

CONSTANTS
  Receivers, Logger,   \* threads
  Window,              \* WINDOW_LENGTH
  MaxPops,             \* max_pops
  Limit, Header,       \* of receive_packet: the longest packet, its size prefix
  Width,               \* the number of values a record's bytes can have
  MaxRecords           \* bound on the records in the queue

ASSUME ProfilerAssumption ==
  /\ Logger \notin Receivers
  /\ Window \in Nat \ {0} /\ MaxPops \in Nat \ {0} /\ MaxRecords \in Nat
  /\ Header \in Nat \ {0} /\ Limit \in Nat /\ Width \in Nat \ {0} /\ Limit <= Width

Threads == Receivers \cup {Logger}

VARIABLES
  pc,            \* of each thread: "out", "stamped", "renew", "entered", "judged"
  stamp,         \* the record a thread is about to add
  records,       \* _records
  totalPackets, totalBytes,
  isRenewing,    \* _is_renewing
  traffic        \* whether clients still send

vars == <<pc, stamp, records, totalPackets, totalBytes, isRenewing, traffic>>

\* What a packet leaves: its full size until it is added, then a record's bytes.
Records == [bytes : 0..Limit, age : 0..Window, due : BOOLEAN]

TypeOK ==
  /\ pc \in [Threads -> {"out", "stamped", "renew", "entered", "judged"}]
  /\ stamp \in [Receivers -> Records]
  /\ records \in Seq(Records)
  /\ totalPackets \in Nat /\ totalBytes \in Nat
  /\ isRenewing \in BOOLEAN
  /\ traffic \in BOOLEAN

Init ==
  /\ pc = [t \in Threads |-> "out"]
  /\ stamp = [t \in Receivers |-> [bytes |-> 0, age |-> 0, due |-> FALSE]]
  /\ records = <<>>
  /\ totalPackets = 0 /\ totalBytes = 0
  /\ isRenewing = FALSE
  /\ traffic = TRUE
-----------------------------------------------------------------------------
\* Mutant: the size prefix is taken for a part of the body.
BodiesWithHeader == {length : length \in Header..Limit}

\* Connection::receive_packet: the sizes of the bodies that are let through.
Bodies == {length - Header : length \in Header..Limit}

\* add_packet reads the clock.
Stamp(t) ==
  /\ traffic
  /\ pc[t] = "out"
  /\ Len(records) < MaxRecords
  /\ \E size \in Bodies : stamp' = [stamp EXCEPT ![t] = [bytes |-> size, age |-> 0, due |-> FALSE]]
  /\ pc' = [pc EXCEPT ![t] = "stamped"]
  /\ UNCHANGED <<records, totalPackets, totalBytes, isRenewing, traffic>>

\* add_packet under the lock.  The record keeps as many bytes as its type can.
Add(t) ==
  /\ pc[t] = "stamped"
  /\ records' = Append(records, [stamp[t] EXCEPT !.bytes = @ % Width])
  /\ totalPackets' = totalPackets + 1
  /\ totalBytes' = totalBytes + stamp[t].bytes
  /\ pc' = [pc EXCEPT ![t] = "renew"]
  /\ UNCHANGED <<stamp, isRenewing, traffic>>

\* The timer of the logging loop.
Log ==
  /\ pc[Logger] = "out"
  /\ pc' = [pc EXCEPT ![Logger] = "renew"]
  /\ UNCHANGED <<stamp, records, totalPackets, totalBytes, isRenewing, traffic>>

\* renew, unless another thread is at it.
Enter(t) ==
  /\ pc[t] = "renew"
  /\ pc' = [pc EXCEPT ![t] = IF isRenewing THEN "out" ELSE "entered"]
  /\ isRenewing' = TRUE
  /\ UNCHANGED <<stamp, records, totalPackets, totalBytes, traffic>>

\* renew reads the clock.
Judge(t) ==
  LET Mark(r) == [r EXCEPT !.due = r.age = Window] IN
  /\ pc[t] = "entered"
  /\ pc' = [pc EXCEPT ![t] = "judged"]
  /\ records' = [i \in DOMAIN records |-> Mark(records[i])]
  /\ stamp' = [r \in Receivers |-> Mark(stamp[r])]
  /\ UNCHANGED <<totalPackets, totalBytes, isRenewing, traffic>>

\* Mutant: as many are popped as are due anywhere in the queue.
DueAnywhere(n) ==
  n = Cardinality({i \in DOMAIN records : records[i].due}) /\ n <= MaxPops

\* Mutant: the last record is not looked at.
DueButLast(n) ==
  /\ n <= MaxPops
  /\ \A i \in 1..n : records[i].due
  /\ n < MaxPops /\ n + 1 < Len(records) => ~records[n + 1].due

\* renew pops n records: the due ones at the front, up to MaxPops.
Due(n) ==
  /\ n <= MaxPops
  /\ \A i \in 1..n : records[i].due
  /\ n < MaxPops /\ n < Len(records) => ~records[n + 1].due

\* The sum of the bytes of the records in s: each byte of each record counts.
SumOfBytes(s) ==
  Cardinality({x \in (1..Len(s)) \X (1..Limit) : x[2] <= s[x[1]].bytes})

\* renew under the lock.
Renew(t) ==
  /\ pc[t] = "judged"
  /\ \E n \in 0..Len(records) :
       /\ Due(n)
       /\ records' = SubSeq(records, n + 1, Len(records))
       /\ totalPackets' = totalPackets - n
       /\ totalBytes' = totalBytes - SumOfBytes(SubSeq(records, 1, n))
  /\ isRenewing' = FALSE
  /\ pc' = [pc EXCEPT ![t] = "out"]
  /\ UNCHANGED <<stamp, traffic>>

\* A unit of time passes.
Passes ==
  LET Older(r) == [r EXCEPT !.age = IF @ < Window THEN @ + 1 ELSE Window] IN
  /\ records' = [i \in DOMAIN records |-> Older(records[i])]
  /\ stamp' = [r \in Receivers |-> Older(stamp[r])]
  /\ UNCHANGED <<pc, totalPackets, totalBytes, isRenewing, traffic>>

\* The clients send nothing any more.
FallSilent ==
  /\ traffic' = FALSE
  /\ UNCHANGED <<pc, stamp, records, totalPackets, totalBytes, isRenewing>>

Renews(t) == Enter(t) \/ Judge(t) \/ Renew(t)

Next ==
  \/ Passes \/ FallSilent \/ Log
  \/ \E t \in Receivers : Stamp(t) \/ Add(t)
  \/ \E t \in Threads : Renews(t)

Spec == Init /\ [][Next]_vars

\* Time passes, threads get on, and the logging loop goes round.
FairSpec ==
  /\ Spec
  /\ WF_vars(Passes) /\ WF_vars(Log)
  /\ \A t \in Receivers : WF_vars(Add(t))
  /\ \A t \in Threads : WF_vars(Renews(t))
-----------------------------------------------------------------------------
\* The totals are those of the records in the queue: what a record lacks of a
\* packet's size would be missing when it is popped.
TotalsAgree == totalPackets = Len(records) /\ totalBytes = SumOfBytes(records)

\* No record is popped before it has left the window.
WindowIsKept ==
  [][Len(records') < Len(records) =>
       \A i \in 1..(Len(records) - Len(records')) : records[i].age = Window]_vars

\* When there is no traffic, the totals drop to nothing: no renewal is missed
\* for good because another one had begun.
TotalsDrain == ~traffic ~> totalPackets = 0 /\ totalBytes = 0
=============================================================================
