------------------------------ MODULE Directory ------------------------------
(***************************************************************************)
(* What Server and its zones promise together: a directory of where each   *)
(* client is, which moves clients from one place to the next at once, and  *)
(* zones whose views of it lag behind.  A zone that owes nothing to a      *)
(* client agrees with the directory about it.                              *)
(***************************************************************************)
CONSTANTS Clients, Zones

New     == "new"       \* not accepted yet; a client that left never is again
Nowhere == "nowhere"   \* registered, in no zone
Gone    == "gone"      \* removed

VARIABLES
  place,   \* the place of each client: New, Nowhere, a zone or Gone
  view,    \* view[z]: the clients zone z believes to have
  owes,    \* owes[z]: the clients about whom z has changes to make
  open     \* the zones that have not been destroyed

vars == <<place, view, owes, open>>

Init ==
  /\ place = [c \in Clients |-> New]
  /\ view = [z \in Zones |-> {}]
  /\ owes = [z \in Zones |-> {}]
  /\ open = Zones

Register(c) ==
  /\ place[c] = New
  /\ place' = [place EXCEPT ![c] = Nowhere]
  /\ UNCHANGED <<view, owes, open>>

\* The client leaves its place for an open zone, or for good; the open zones
\* this concerns owe it a change.
Move(c, to) ==
  /\ place[c] \notin {New, Gone}
  /\ to \in (open \ {place[c]}) \cup {Gone}
  /\ place' = [place EXCEPT ![c] = to]
  /\ owes' = [z \in Zones |-> IF z \in open \cap {place[c], to} THEN owes[z] \cup {c} ELSE owes[z]]
  /\ UNCHANGED <<view, open>>

\* A zone makes a change it owes: the client comes in if it was out, and goes
\* out if it was in.  It is done with the client only when it is right.
Apply(z, c) ==
  /\ z \in open
  /\ c \in owes[z]
  /\ view' = [view EXCEPT ![z] = IF c \in @ THEN @ \ {c} ELSE @ \cup {c}]
  /\ \/ UNCHANGED owes
     \/ /\ owes' = [owes EXCEPT ![z] = @ \ {c}]
        /\ c \in view'[z] <=> place[c] = z
  /\ UNCHANGED <<place, open>>

\* The zones are destroyed.
Close ==
  /\ open' = {}
  /\ UNCHANGED <<place, view, owes>>

Next ==
  \/ \E c \in Clients : Register(c) \/ \E to \in Zones \cup {Gone} : Move(c, to)
  \/ \E z \in Zones, c \in Clients : Apply(z, c)
  \/ Close

Spec == Init /\ [][Next]_vars
-----------------------------------------------------------------------------
\* An open zone that owes a client nothing agrees with the directory about it.
Settled ==
  \A z \in open, c \in Clients : c \notin owes[z] => (c \in view[z] <=> place[c] = z)
=============================================================================
