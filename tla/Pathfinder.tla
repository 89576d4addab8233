----------------------------- MODULE Pathfinder -----------------------------
(***************************************************************************)
(* Pathfinder::find_path: one call, with either algorithm.                 *)
(***************************************************************************)
EXTENDS AStar

VARIABLES
  algorithm,   \* "ASTAR", what find_path takes if it is not told, or "JPS"
  jumpOpen, jumpClosed, jumpParents, jumpPhase, current   \* of JumpPoint

JPS == INSTANCE JumpPoint
         WITH open <- jumpOpen, closed <- jumpClosed, parents <- jumpParents, phase <- jumpPhase

jumpVars == <<jumpOpen, jumpClosed, jumpParents, jumpPhase, current>>
findVars == <<vars, jumpVars, algorithm>>

FindInit == algorithm \in {"ASTAR", "JPS"} /\ Init /\ JPS!Init

FindPath ==
  \/ algorithm = "ASTAR" /\ Next /\ UNCHANGED <<algorithm, jumpVars>>
  \/ algorithm = "JPS" /\ JPS!Next /\ UNCHANGED <<algorithm, open, closed, parents, g, phase, path>>

FindSpec == FindInit /\ [][FindPath]_findVars

FairFind == FindSpec /\ WF_findVars(FindPath)
-----------------------------------------------------------------------------
Jumps == algorithm = "JPS"

\* What jump point search finds is a path, although the parents of points are
\* overwritten by later jumps.
JumpFoundIsPath == Jumps => JPS!FoundIsPath

\* Whatever order the probes of one jump run in, they write the same parents.
JumpProbesAreDisjoint == Jumps => JPS!ProbesAreDisjoint

\* The queue runs dry or the end is found, although points are queued again and
\* again; and with A*, following the parents ends too.
SearchesEnd == <>(IF Jumps THEN jumpPhase # "search" ELSE phase \in {"found", "none"})
=============================================================================
