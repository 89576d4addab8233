----------------------------- MODULE MCSubworld -----------------------------
(* Subworld on a lattice of a quarter of a metre, and along one of its axes.      *)
EXTENDS Subworld

Straight == {<<1, 0>>, <<-1, 0>>}
\* A wall at an end, one where players are placed, and one that shuts them in.
Walls == {{<<2, 0>>}, {<<1, 0>>}, {<<0, 0>>, <<1, 0>>}}
Edge == [a \in Areas |-> <<12, 0>>]
=============================================================================
