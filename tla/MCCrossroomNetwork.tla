-------------------------- MODULE MCCrossroomNetwork --------------------------
(* Small instances of the multi-room renderers. *)
EXTENDS CrossroomNetwork

CONSTANTS h1, h2, h3

OneHopPath == << <<h1>> >>
SharedHopPaths == << <<h1, h3>>, <<h2, h3>> >>
MonoKinds == {"SolveEarly", "RenderMono", "RenderLateMono", "RenderLateBinaural"}
AllKinds == MonoKinds \cup {"RenderBinaural"}
=============================================================================
