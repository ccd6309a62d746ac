---------------------------- MODULE MCNetworkPlan ----------------------------
(* NetworkPlan on four rooms in a ring, 1-2-3-4, with a second portal between *)
(* rooms 1 and 2 that hardly transmits; the source is in room 1, the receiver *)
(* in room 3.                                                                 *)
EXTENDS NetworkPlan

MCEnds == <<<<1, 2>>, <<2, 3>>, <<3, 4>>, <<4, 1>>, <<1, 2>>>>
MCLoss == <<<<1, 3>>, <<3, 2>>, <<1, 9>>, <<2, 1>>, <<9, 5>>>>
MCScenes == {[p \in 1 .. 5 |-> IF p = 1 THEN "open" ELSE "closed"]}
MCLimits ==
  {[maxDepth |-> 0, maxNodes |-> 0, floor |-> 0, maxPaths |-> 2],
   [maxDepth |-> 2, maxNodes |-> 5, floor |-> 4, maxPaths |-> 1]}
=============================================================================
