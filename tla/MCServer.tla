------------------------------ MODULE MCServer ------------------------------
(***************************************************************************)
(* Instances of the server for TLC: who sends what.                        *)
(***************************************************************************)
EXTENDS ServerDirectory, TLC

CONSTANTS c1, c2

Plain(op) == [op |-> op, zone |-> Nowhere]
Enter(to) == [op |-> "enter", zone |-> to]

\* Both clients join, move between zones and play; some requests are refused.
Movers ==
  [c \in Clients |-> {Plain("join"), Plain("zone_packet"), Plain("invalid")}
                       \cup {Enter(to) : to \in Zones \cup {Unknown}}]

\* One client behaves; the other does not wait for anything.
Visitors ==
  c1 :> ({Plain("join"), Plain("invalid")} \cup {Enter(to) : to \in Zones})
    @@ c2 :> ({Plain("ping")} \cup {Enter(to) : to \in Zones})

\* Clients, and zones, are interchangeable.
Alike == Permutations(Clients) \cup Permutations(Zones)
=============================================================================
