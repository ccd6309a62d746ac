---------------------------- MODULE MCSceneGraph ----------------------------
(* SceneGraph for the run of the groups and the geometry caches: a scene    *)
(* whose portals all lead to room 1 (side by side or in a chain), all open  *)
(* or all closed at first, with one material in every room, and its         *)
(* interchangeable portals and readers named as a symmetry set.             *)
EXTENDS SceneGraph, TLC

Symmetry == Permutations(Portals) \cup Permutations(Readers)

MCInit ==
  /\ Init
  /\ material = [r \in Rooms |-> CHOOSE m \in Materials : TRUE]
  /\ \A p \in Portals : 1 \in ends[p]
  /\ \A p, q \in Portals : state[p] = state[q]

MCSpec == MCInit /\ [][Next]_vars
=============================================================================
