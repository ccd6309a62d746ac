------------------------------ MODULE FreshISM ------------------------------
(***************************************************************************)
(* What a program that solves scene after scene is promised: every answer   *)
(* is the one a solver without any memory computes from the scene and the   *)
(* configuration of that call (src/ism/cached_solver.go:29-31, "bit-        *)
(* identical to a fresh ISMSolver{}.Solve() call").                         *)
(***************************************************************************)
CONSTANTS Scenes, Configs,
          Fresh(_, _)     \* the answer of ISMSolver.Solve to a scene and a configuration

VARIABLE call     \* the last call: its operation, arguments and answer

NoCall == [op |-> "none"]

Init == call = NoCall

Solve(s, cfg) ==
    /\ call'.op = "solve" /\ call'.scene = s /\ call'.cfg = cfg
    /\ call' = [op |-> "solve", scene |-> s, cfg |-> cfg, answer |-> Fresh(s, cfg)]

Forget == call' = NoCall

Next == Forget \/ \E s \in Scenes, cfg \in Configs : Solve(s, cfg)

Spec == Init /\ [][Next]_call
=============================================================================
