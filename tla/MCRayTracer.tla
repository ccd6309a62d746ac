---------------------------- MODULE MCRayTracer ----------------------------
(* Small calls for RayTracer: each strategy with each diffraction model, with *)
(* and without rain, behind an open and a closed hybrid gate.                 *)
EXTENDS RayTracer

Open == [enabled |-> FALSE, maxIS |-> 0, maxPreED |-> 0, maxEDIS |-> 0, maxED |-> 0]
Gate == [enabled |-> TRUE, maxIS |-> 1, maxPreED |-> 0, maxEDIS |-> 1, maxED |-> 1]

Call(op, strategy, mode, rain, hybrid) ==
  [op |-> op, strategy |-> strategy, mode |-> mode, deprecated |-> FALSE,
   rain |-> rain, hybrid |-> hybrid, mesh |-> mode # "disabled", roomOK |-> TRUE,
   depth |-> 0, numRays |-> 1, maxBounces |-> 2, maxTime |-> 5, threshold |-> 0]

\* The deflection cone is where the room leaves the most open: two of its calls
\* are shorter than the others.
MCCalls ==
  { Call("Trace", s, m, TRUE, Gate) :
      s \in {"probabilistic", "blend", "roulette"}, m \in {"disabled", "dapdf"} }
  \cup { Call("Trace", s, "keller", TRUE, Gate) : s \in {"probabilistic", "roulette"} }
  \cup { [Call("Trace", "blend", "keller", TRUE, Gate) EXCEPT !.maxBounces = 1],
         Call("TraceSecondary", "probabilistic", "dapdf", FALSE, Open),
         [Call("TraceSurfaces", "probabilistic", "keller", TRUE, Gate) EXCEPT !.maxTime = 4],
         [Call("Trace", "roulette", "disabled", TRUE, Open) EXCEPT !.threshold = 1],
         [Call("Trace", "probabilistic", "disabled", TRUE, Gate) EXCEPT !.deprecated = TRUE,
            !.mesh = TRUE],
         [Call("Trace", "blend", "keller", FALSE, Open) EXCEPT !.roomOK = FALSE] }
=============================================================================
